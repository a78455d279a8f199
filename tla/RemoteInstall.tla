---------------------------- MODULE RemoteInstall ----------------------------
(***************************************************************************)
(* Installing and uninstalling the Remote Host on an SSH machine             *)
(* (packages/host-runtime/src/remote-host-install.ts): the entrypoint (a     *)
(* copy of the Shim), the block in the login profile, the manifest that      *)
(* records the entrypoint's digest, and the data of an install made before   *)
(* the rename.  Every file is replaced atomically; a command may fail or be  *)
(* killed between two of them, and the user edits the profile meanwhile.     *)
(***************************************************************************)
EXTENDS Naturals

CONSTANTS
    Builds,            \* contents of the Shim, one for each packaged version
    MaxCommands,       \* bound: commands run one after the other
    MaxEdits,          \* bound: edits of the profile by the user
    FirstInstallDies,  \* a first install, too, may be killed between two steps
    EditsMeanwhile,    \* the user edits the profile while a command runs
    Nothing            \* no file

ASSUME InstallAssumption ==
    /\ Nothing \notin Builds /\ MaxCommands \in Nat /\ MaxEdits \in Nat
    /\ FirstInstallDies \in BOOLEAN /\ EditsMeanwhile \in BOOLEAN

VARIABLES
    entry,     \* the managed entrypoint, <data folder>/remote/bin/codex
    manifest,  \* the digest in manifest.json
    profile,   \* the login profile: our block, the pre-rename block, the user's own lines
    oldInstall, \* the install made before the rename exists
    data,      \* the Remote data folder
    install    \* the command that runs, and what it read when it began

installVars == <<entry, manifest, profile, oldInstall, data, install>>
disk == <<entry, manifest, profile, oldInstall, data>>

Files == Builds \cup {Nothing}
Profiles == [block : BOOLEAN, old : BOOLEAN, lines : 0 .. MaxEdits]
InstallPlaces == {"idle", "checked", "planned", "profiled", "adopted", "readied", "entered",
                  "undoing", "undone entry", "undone profile", "failed", "removing",
                  "unprofiled", "unentered", "done", "refused"}

InstallTypeOK ==
    /\ entry \in Files /\ manifest \in Files /\ profile \in Profiles
    /\ oldInstall \in BOOLEAN /\ data \in {"missing", "empty", "adopted"}
    /\ install.at \in InstallPlaces /\ install.build \in Files /\ install.profile \in Profiles
    /\ install.entry \in Files /\ install.manifest \in Files /\ install.count \in 0 .. MaxCommands

\* No install, or the one made before the rename.
InitInstall ==
    /\ entry = Nothing /\ manifest = Nothing /\ data = "missing"
    /\ \E old \in BOOLEAN :
           oldInstall = old /\ profile = [block |-> FALSE, old |-> old, lines |-> 0]
    /\ install = [at |-> "idle", build |-> Nothing, entry |-> Nothing, manifest |-> Nothing,
                  profile |-> profile, count |-> 0]

Enter(at) == install' = [install EXCEPT !.at = at]
Rest == {"idle", "done", "failed", "refused"}
Begins == install.at \in Rest /\ install.count < MaxCommands
NextCommand(at, build) ==
    install' = [at |-> at, build |-> build, entry |-> entry, manifest |-> manifest,
                profile |-> profile, count |-> install.count + 1]

(***************************************************************************)
(* installRemoteHost                                                        *)
(***************************************************************************)

\* The manifest and the entrypoint are read; an entrypoint without a manifest is not ours.
CheckInstall(b) ==
    /\ Begins
    /\ NextCommand(IF entry # Nothing /\ manifest = Nothing THEN "refused" ELSE "checked", b)
    /\ UNCHANGED disk

\* ... and, after the packaged files are looked up, the profile.
PlanInstall ==
    /\ install.at = "checked"
    /\ install' = [install EXCEPT !.at = "planned", !.profile = profile]
    /\ UNCHANGED disk

\* installManagedProfileBlock: our block once, neither of the two before.
Installed(p) == [p EXCEPT !.block = TRUE, !.old = FALSE]
ProfileChanged == Installed(install.profile) # install.profile

WriteProfile ==
    /\ install.at = "planned" /\ Enter("profiled")
    /\ profile' = IF ProfileChanged THEN Installed(install.profile) ELSE profile
    /\ UNCHANGED <<entry, manifest, oldInstall, data>>

AdoptLegacyInstall ==
    /\ install.at = "profiled" /\ Enter("adopted")
    /\ data' = IF oldInstall /\ data = "missing" THEN "adopted" ELSE data
    /\ oldInstall' = FALSE
    /\ UNCHANGED <<entry, manifest, profile>>

MakeDataDirectory ==
    /\ install.at = "adopted" /\ Enter("readied")
    /\ data' = IF data = "missing" THEN "empty" ELSE data
    /\ UNCHANGED <<entry, manifest, profile, oldInstall>>

WriteEntrypoint ==
    /\ install.at = "readied" /\ Enter("entered")
    /\ entry' = install.build
    /\ UNCHANGED <<manifest, profile, oldInstall, data>>

WriteManifest ==
    /\ install.at = "entered" /\ Enter("done")
    /\ manifest' = entry
    /\ UNCHANGED <<entry, profile, oldInstall, data>>

\* A step of the installation throws; what it had done is undone, file by file.
InstallFails ==
    /\ install.at \in {"planned", "profiled", "adopted", "readied", "entered"}
    /\ Enter("undoing") /\ UNCHANGED disk

UndoEntrypoint ==
    /\ install.at = "undoing" /\ Enter("undone entry")
    /\ entry' = install.entry
    /\ UNCHANGED <<manifest, profile, oldInstall, data>>

UndoNoProfile ==
    /\ install.at = "undone entry" /\ Enter("undone profile") /\ UNCHANGED disk

UndoProfile ==
    /\ install.at = "undone entry" /\ Enter("undone profile")
    /\ profile' = IF ProfileChanged THEN install.profile ELSE profile
    /\ UNCHANGED <<entry, manifest, oldInstall, data>>

UndoManifest ==
    /\ install.at = "undone profile" /\ Enter("failed")
    /\ manifest' = install.manifest
    /\ UNCHANGED <<entry, profile, oldInstall, data>>

(***************************************************************************)
(* uninstallRemoteHost                                                      *)
(***************************************************************************)

\* managedEntrypointState: an entrypoint that is not the one the manifest records is refused.
CheckUninstall ==
    /\ Begins
    /\ NextCommand(IF manifest = Nothing THEN "done"
                   ELSE IF entry \notin {manifest, Nothing} THEN "refused"
                   ELSE "removing", Nothing)
    /\ UNCHANGED disk

RemoveProfileBlock ==
    /\ install.at = "removing" /\ Enter("unprofiled")
    /\ profile' = [install.profile EXCEPT !.block = FALSE, !.old = FALSE]
    /\ UNCHANGED <<entry, manifest, oldInstall, data>>

RemoveManifestFirst ==
    /\ install.at = "unprofiled" /\ Enter("unentered")
    /\ manifest' = Nothing
    /\ UNCHANGED <<entry, profile, oldInstall, data>>

RemoveEntrypoint ==
    /\ install.at = "unprofiled" /\ Enter("unentered")
    /\ entry' = Nothing
    /\ UNCHANGED <<manifest, profile, oldInstall, data>>

RemoveManifest ==
    /\ install.at = "unentered" /\ Enter("done")
    /\ manifest' = Nothing
    /\ UNCHANGED <<entry, profile, oldInstall, data>>

\* A step of the uninstallation throws, or the command is killed between two files.
CommandDies ==
    /\ install.at \notin Rest
    /\ install.manifest # Nothing \/ FirstInstallDies
    /\ Enter("idle") /\ UNCHANGED disk

EditProfile ==
    /\ profile.lines < MaxEdits /\ (EditsMeanwhile \/ install.at \in Rest)
    /\ profile' = [profile EXCEPT !.lines = @ + 1]
    /\ UNCHANGED <<entry, manifest, oldInstall, data, install>>

NextInstall ==
    \/ \E b \in Builds : CheckInstall(b)
    \/ PlanInstall \/ WriteProfile \/ AdoptLegacyInstall \/ MakeDataDirectory
    \/ WriteEntrypoint \/ WriteManifest
    \/ InstallFails \/ UndoEntrypoint \/ UndoProfile \/ UndoManifest
    \/ CheckUninstall \/ RemoveProfileBlock \/ RemoveEntrypoint \/ RemoveManifest
    \/ CommandDies \/ EditProfile

InstallSpec == InitInstall /\ [][NextInstall]_installVars

(***************************************************************************)
(* Properties                                                               *)
(***************************************************************************)

\* An installation that fails leaves the entrypoint, the manifest and our part of the profile as
\* they were (the catch of installRemoteHost, :522-564).
FailedInstallRestores ==
    install.at = "failed" => /\ entry = install.entry /\ manifest = install.manifest
                             /\ profile.block = install.profile.block
                             /\ profile.old = install.profile.old

\* Whatever upgrade, rollback or removal was cut off, the next installation does not refuse:
\* there is no entrypoint that no manifest records (:436-438).
Reinstallable == install.at \in Rest => entry = Nothing \/ manifest # Nothing

\* A profile that still leads to the install made before the rename leads to one that exists.
OldBlockLeadsSomewhere == install.at \in Rest => (profile.old => oldInstall)

\* The user's own lines of the profile are never taken back.
LinesSurvive == [][profile'.lines >= profile.lines]_installVars
=============================================================================
