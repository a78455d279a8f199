-------------------------- MODULE Services_proofs --------------------------
(***************************************************************************)
(* What commands install and start.  The Remote Host of an SSH machine:     *)
(* what a failed or killed command leaves behind, for any number of         *)
(* commands, builds and edits, and the listener behind the socket, for any  *)
(* number of commands and listeners.  The native broker of macOS: which     *)
(* broker runs, for any number of builds and brokers.  The Hosts Desktop    *)
(* starts and the Desktop's tools of a Session, for any number of Hosts,    *)
(* Turns and calls.  The lock of the socket: its safety for any number of   *)
(* calls, retries and tickets, provided no live call stalls for as long as  *)
(* its lease.                                                               *)
(***************************************************************************)
EXTENDS RemoteInstall, RemoteLifecycle, BrokerAgent, StartupConnection, DesktopTools,
        RemoteSocketLock, TLAPS

(***************************************************************************)
(* Installing.  What a command read when it began is what the disk held,    *)
(* and the steps it has taken say what of it is still there.                *)
(***************************************************************************)

AnyProfile == [block : BOOLEAN, old : BOOLEAN, lines : Nat]
InstallShape ==
    /\ profile \in AnyProfile /\ entry \in Files /\ manifest \in Files
    /\ install \in [at : InstallPlaces, build : Files, profile : AnyProfile,
                    entry : Files, manifest : Files, count : Nat]

\* Our part of the profile is as the command read it.
ProfileIsRead ==
    profile.block = install.profile.block /\ profile.old = install.profile.old

Kept == {"checked", "planned", "profiled", "adopted", "readied"}
Changing == {"planned", "profiled", "adopted", "readied", "entered", "undoing", "undone entry"}
Working == Kept \cup {"entered", "undoing", "undone entry", "undone profile"}

\* Where the profile and the entrypoint are as the command read them: a profile that need not be
\* changed never is, so that there is nothing to undo.
RestoreKept ==
    /\ install.at \in Changing /\ ~ProfileChanged => ProfileIsRead
    /\ install.at \in {"undone profile", "failed"} => ProfileIsRead
    /\ install.at \in Kept \cup {"undone entry", "undone profile", "failed"}
           => entry = install.entry
    /\ install.at = "failed" => manifest = install.manifest

RestoreInv == InstallShape /\ RestoreKept

LEMMA RestoreStep ==
    ASSUME RestoreInv, [NextInstall]_installVars
    PROVE  RestoreInv'
<1> USE DEF RestoreInv
<1>1. CASE UNCHANGED installVars
    BY <1>1 DEF installVars, InstallShape, RestoreKept, ProfileIsRead, ProfileChanged, Installed,
                InstallPlaces
<1>2. ASSUME NEW at \in {"checked", "refused", "done", "removing"}, NEW build \in Files,
             NextCommand(at, build), UNCHANGED disk
      PROVE  RestoreInv'
    <2>1. install' = [at |-> at, build |-> build, entry |-> entry, manifest |-> manifest,
                      profile |-> profile, count |-> install.count + 1]
        BY <1>2 DEF NextCommand
    <2>2. InstallShape'
        <3>1. install.count + 1 \in Nat BY DEF InstallShape
        <3>2. at \in InstallPlaces BY DEF InstallPlaces
        <3> QED BY <1>2, <2>1, <3>1, <3>2 DEF disk, InstallShape
    <2>3. RestoreKept'
        BY <1>2, <2>1 DEF disk, RestoreKept, ProfileIsRead, Kept, Changing
    <2> QED BY <2>2, <2>3
<1>3. (\E b \in Builds : CheckInstall(b)) \/ CheckUninstall => RestoreInv'
    BY <1>2 DEF CheckInstall, CheckUninstall, Files
<1>4. CASE PlanInstall
    BY <1>4 DEF PlanInstall, disk, InstallShape, RestoreKept, ProfileIsRead,
                ProfileChanged, Installed, InstallPlaces, AnyProfile, Kept, Changing
<1>5. CASE WriteProfile
    BY <1>5 DEF WriteProfile, Enter, InstallShape, RestoreKept, ProfileIsRead,
                ProfileChanged, Installed, InstallPlaces, AnyProfile, Kept, Changing
<1>6. CASE AdoptLegacyInstall \/ MakeDataDirectory
    BY <1>6 DEF AdoptLegacyInstall, MakeDataDirectory, Enter, InstallShape, RestoreKept,
                ProfileIsRead, ProfileChanged, Installed, InstallPlaces, Kept, Changing
<1>7. CASE WriteEntrypoint \/ WriteManifest \/ InstallFails
    BY <1>7 DEF WriteEntrypoint, WriteManifest, InstallFails, Enter, disk, InstallShape,
                RestoreKept, ProfileIsRead, ProfileChanged, Installed, InstallPlaces, Kept, Changing
<1>8. CASE UndoEntrypoint \/ UndoManifest
    BY <1>8 DEF UndoEntrypoint, UndoManifest, Enter, InstallShape,
                RestoreKept, ProfileIsRead, ProfileChanged, Installed, InstallPlaces, Kept, Changing
<1>9. CASE UndoProfile
    BY <1>9 DEF UndoProfile, Enter, InstallShape,
                RestoreKept, ProfileIsRead, ProfileChanged, Installed, InstallPlaces, Kept, Changing
<1>10. CASE RemoveProfileBlock
    BY <1>10 DEF RemoveProfileBlock, Enter, InstallShape, RestoreKept, ProfileIsRead,
                 InstallPlaces, AnyProfile, Kept, Changing
<1>11. CASE RemoveEntrypoint \/ RemoveManifest
    BY <1>11 DEF RemoveEntrypoint, RemoveManifest, Enter, InstallShape, RestoreKept,
                 ProfileIsRead, InstallPlaces, Files, Kept, Changing
<1>12. CASE CommandDies
    BY <1>12 DEF CommandDies, Enter, disk, InstallShape, RestoreKept, InstallPlaces, Kept, Changing
<1>13. CASE EditProfile
    <2>1. ProfileChanged' <=> ProfileChanged
        BY <1>13 DEF EditProfile, ProfileChanged, Installed
    <2>2. profile' \in AnyProfile /\ profile'.block = profile.block /\ profile'.old = profile.old
        BY <1>13 DEF EditProfile, InstallShape, AnyProfile
    <2> QED
        BY <1>13, <2>1, <2>2 DEF EditProfile, InstallShape, RestoreKept, ProfileIsRead
<1> QED
    BY <1>1, <1>2, <1>3, <1>4, <1>5, <1>6, <1>7, <1>8, <1>9, <1>10, <1>11, <1>12, <1>13
       DEF NextInstall

\* A failed installation leaves the entrypoint, the manifest and our part of the profile as they
\* were, whatever ran, failed or was killed before it and whenever the user edits the profile.
THEOREM FailureRestores == InstallSpec => []FailedInstallRestores
<1>1. InitInstall => RestoreInv
    BY InstallAssumption DEF InitInstall, RestoreInv, InstallShape, RestoreKept, InstallPlaces,
       Files, AnyProfile, Kept, Changing
<1>2. RestoreInv => FailedInstallRestores
    BY DEF RestoreInv, RestoreKept, ProfileIsRead, FailedInstallRestores
<1> QED BY <1>1, <1>2, RestoreStep, PTL DEF InstallSpec

\* What an entrypoint owes its manifest at each step of a command.
RecordKept ==
    /\ Reinstallable
    /\ install.at \in Working => /\ manifest = install.manifest /\ install.build \in Builds
                                 /\ install.entry = Nothing \/ install.manifest # Nothing
    /\ install.at = "entered" => entry = install.build
    /\ install.at \in {"removing", "unprofiled"} => manifest # Nothing
    /\ install.at = "unentered" => entry = Nothing

RecordInv == RestoreInv /\ RecordKept

LEMMA RecordStep ==
    ASSUME ~FirstInstallDies, RecordInv, [NextInstall]_installVars
    PROVE  RecordInv'
<1>1. RestoreInv' BY RestoreStep DEF RecordInv
<1> SUFFICES RecordKept' BY <1>1 DEF RecordInv
<1> USE DEF RecordInv, RecordKept, Reinstallable
<1>2. CASE UNCHANGED installVars
    BY <1>2 DEF installVars
<1>3. ASSUME NEW b \in Builds, CheckInstall(b) PROVE RecordKept'
    BY <1>3 DEF CheckInstall, Begins, NextCommand, disk, Rest, Working, Kept, RestoreInv,
                InstallShape
<1>4. CASE CheckUninstall
    BY <1>4 DEF CheckUninstall, Begins, NextCommand, disk, Rest, Working, Kept
<1>5. CASE PlanInstall \/ InstallFails
    BY <1>5 DEF PlanInstall, InstallFails, Enter, disk, Rest, Working, Kept, RestoreInv, InstallShape
<1>6. CASE WriteProfile \/ AdoptLegacyInstall \/ MakeDataDirectory \/ WriteEntrypoint
    BY <1>6 DEF WriteProfile, AdoptLegacyInstall, MakeDataDirectory, WriteEntrypoint, Enter, Rest,
                Working, Kept, RestoreInv, InstallShape
<1>7. CASE WriteManifest
    BY <1>7, InstallAssumption DEF WriteManifest, Enter, Rest, Working, Kept, RestoreInv, InstallShape
<1>8. CASE UndoEntrypoint \/ UndoProfile \/ UndoManifest
    BY <1>8 DEF UndoEntrypoint, UndoProfile, UndoManifest, Enter, Rest, Working, Kept, RestoreInv,
                InstallShape, RestoreKept
<1>9. CASE RemoveProfileBlock \/ RemoveEntrypoint \/ RemoveManifest
    BY <1>9 DEF RemoveProfileBlock, RemoveEntrypoint, RemoveManifest, Enter, Rest, Working, Kept,
                RestoreInv, InstallShape
<1>10. CASE CommandDies
    BY <1>10 DEF CommandDies, Enter, disk, Rest, Working, Kept, RestoreInv, InstallShape,
                 RestoreKept, InstallPlaces
<1>11. CASE EditProfile
    BY <1>11 DEF EditProfile
<1> QED
    BY <1>2, <1>3, <1>4, <1>5, <1>6, <1>7, <1>8, <1>9, <1>10, <1>11 DEF RecordInv, NextInstall

\* Provided no first installation is killed half way, no command leaves an entrypoint that the
\* next installation refuses.
THEOREM InstallsAgain == ASSUME ~FirstInstallDies PROVE InstallSpec => []Reinstallable
<1>1. InitInstall => RecordInv
    BY InstallAssumption DEF InitInstall, RecordInv, RecordKept, Reinstallable, RestoreInv,
       InstallShape, RestoreKept, InstallPlaces, Files, AnyProfile, Kept, Changing, Working
<1>2. RecordInv => Reinstallable
    BY DEF RecordInv, RecordKept
<1> QED BY <1>1, <1>2, RecordStep, PTL DEF InstallSpec

(***************************************************************************)
(* Listening.  Who is between two steps on the path holds the lock, and a   *)
(* listener whose server accepts, or has just stopped, has its file there.  *)
(***************************************************************************)

RemoteShape ==
    /\ process \in [Listeners -> Lives]
    /\ command \in [Commands -> [op : Ops, at : CommandPlaces, target : Listeners \cup {NoListener}]]
    /\ listening \subseteq Listeners
    /\ socket \in Listeners \cup {NoListener}

HoldsLock == \A l \in Listeners : process[l] \in {"binding", "closed"} => lock = l
HasSocket == \A l \in Listeners :
    /\ l \in listening <=> process[l] \in {"bound", "closing"}
    /\ process[l] \in {"bound", "closing", "closed"} => socket = l
TargetsListener == \A c \in Commands :
    command[c].at = "terminating" => command[c].target \in Listeners

ListenerInv == RemoteShape /\ HoldsLock /\ HasSocket /\ TargetsListener

LEMMA ListenerCommandStep ==
    ASSUME ListenerInv, NEW c \in Commands,
           StartProbed(c) \/ StopProbed(c) \/ Terminate(c) \/ Terminated(c) \/ Waited(c)
    PROVE  ListenerInv'
<1> USE DEF ListenerInv
<1>1. UNCHANGED <<process, listening, socket, lock>>
    BY DEF StartProbed, StopProbed, Terminate, Terminated, Waited
<1>2. HoldsLock' /\ HasSocket'
    BY <1>1 DEF HoldsLock, HasSocket
<1>3. RemoteShape' /\ TargetsListener'
    <2>1. CASE StartProbed(c) \/ StopProbed(c)
        BY <1>1, <2>1 DEF StartProbed, StopProbed, Probes, Go, RemoteShape, TargetsListener, CommandPlaces
    <2>2. CASE Terminate(c)
        BY <1>1, <2>2 DEF Terminate, RootFor, Go, RemoteShape, TargetsListener, CommandPlaces
    <2>3. CASE Terminated(c) \/ Waited(c)
        BY <1>1, <2>3 DEF Terminated, Waited, Go, RemoteShape, TargetsListener, CommandPlaces
    <2> QED BY <2>1, <2>2, <2>3
<1> QED BY <1>2, <1>3

\* A process that ends takes no file with it.
LEMMA DeathStep ==
    ASSUME ListenerInv, NEW l \in Listeners, Become(l, "dead"), listening' = listening \ {l},
           lock' = IF lock = l THEN NoListener ELSE lock, UNCHANGED <<command, socket>>
    PROVE  ListenerInv'
BY DEF ListenerInv, Become, RemoteShape, HoldsLock, HasSocket, TargetsListener, Lives

LEMMA LaunchStep ==
    ASSUME ListenerInv, SpawnListener, UNCHANGED <<listening, socket, lock>>,
           \/ UNCHANGED command
           \/ \E c \in Commands : Go(c, "wait")
    PROVE  ListenerInv'
<1>1. RemoteShape' /\ TargetsListener'
    BY DEF ListenerInv, SpawnListener, Become, Go, RemoteShape, TargetsListener, CommandPlaces, Lives
<1>2. HoldsLock' /\ HasSocket'
    BY DEF ListenerInv, SpawnListener, Become, RemoteShape, HoldsLock, HasSocket
<1> QED BY <1>1, <1>2 DEF ListenerInv

LEMMA ListenStep ==
    ASSUME ListenerInv, NEW l \in Listeners,
           \/ RemoveStaleSocket(l) \/ Bind(l) \/ Close(l) \/ CloseServer(l) \/ UnlinkSocket(l)
           \/ StockListens(l) \/ StockEnds(l)
    PROVE  ListenerInv'
<1> USE DEF ListenerInv, RemoteShape, HoldsLock, HasSocket, TargetsListener, Become, Lives
<1>1. CASE RemoveStaleSocket(l)
    BY <1>1, ListenersAssumption DEF RemoveStaleSocket, InUse
<1>2. CASE Bind(l)
    BY <1>2, ListenersAssumption DEF Bind
<1>3. CASE Close(l)
    BY <1>3 DEF Close
<1>4. CASE CloseServer(l)
    BY <1>4, ListenersAssumption DEF CloseServer
<1>5. CASE UnlinkSocket(l)
    BY <1>5, ListenersAssumption DEF UnlinkSocket
<1>6. CASE StockListens(l)
    BY <1>6, ListenersAssumption DEF StockListens
<1>7. CASE StockEnds(l)
    BY <1>7, ListenersAssumption DEF StockEnds
<1> QED BY <1>1, <1>2, <1>3, <1>4, <1>5, <1>6, <1>7

LEMMA RemoteStep ==
    ASSUME ListenerInv, [NextRemote]_remoteVars
    PROVE  ListenerInv'
<1>1. CASE UNCHANGED remoteVars
    BY <1>1 DEF remoteVars, ListenerInv, RemoteShape, HoldsLock, HasSocket, TargetsListener
<1>2. ASSUME NEW c \in Commands,
             StartProbed(c) \/ StopProbed(c) \/ Terminate(c) \/ Terminated(c) \/ Waited(c)
      PROVE  ListenerInv'
    BY <1>2, ListenerCommandStep
<1>3. ASSUME NEW c \in Commands, ForceTerminate(c) PROVE ListenerInv'
    <2>1. command[c].target \in Listeners
        BY <1>3 DEF ForceTerminate, ListenerInv, TargetsListener
    <2> QED BY <1>3, <2>1, DeathStep DEF ForceTerminate
<1>4. ASSUME NEW c \in Commands, Launch(c) PROVE ListenerInv'
    BY <1>4, LaunchStep DEF Launch
<1>5. CASE DesktopLaunch
    BY <1>5, LaunchStep DEF DesktopLaunch
<1>6. ASSUME NEW l \in Listeners, ListenerDies(l) PROVE ListenerInv'
    BY <1>6, DeathStep DEF ListenerDies
<1>7. ASSUME NEW l \in Listeners, LauncherGivesUp(l) PROVE ListenerInv'
    BY <1>7 DEF LauncherGivesUp, ListenerInv, RemoteShape, HoldsLock, HasSocket, TargetsListener
<1>8. ASSUME NEW l \in Listeners,
             \/ RemoveStaleSocket(l) \/ Bind(l) \/ Close(l) \/ CloseServer(l) \/ UnlinkSocket(l)
             \/ StockListens(l) \/ StockEnds(l)
      PROVE  ListenerInv'
    BY <1>8, ListenStep
<1> QED
    BY <1>1, <1>2, <1>3, <1>4, <1>5, <1>6, <1>7, <1>8 DEF NextRemote

\* A listener that accepts connections is behind the socket path, for any number of commands
\* that start and stop it, of listeners that compete for the path and of crashes.
THEOREM ListenerIsReachable == RemoteSpec => []BoundIsReachable
<1>1. InitRemote => ListenerInv
    BY ListenersAssumption DEF InitRemote, ListenerInv, RemoteShape, HoldsLock, HasSocket,
       TargetsListener, Ops, CommandPlaces, Lives
<1>2. ListenerInv => BoundIsReachable
    BY DEF ListenerInv, RemoteShape, HasSocket, BoundIsReachable
<1> QED BY <1>1, <1>2, RemoteStep, PTL DEF RemoteSpec

(***************************************************************************)
(* The native broker.  A command that installs has removed the agent of     *)
(* before the rename, which no later step brings back.                      *)
(***************************************************************************)
Installing ==
    {"plist", "observe", "fingerprint", "bootout", "write", "bootstrap", "kickstart", "wait"}

GoneFor(r, o) ==
    /\ r.at = "old file" => ~o.loaded
    /\ r.kind = "install" /\ r.at \in Installing => ~o.loaded /\ ~o.file
    /\ r.at \in {"plist", "fingerprint", "write", "bootstrap", "kickstart", "wait"}
           => r.kind = "install"

OldIsGone == \A c \in Callers : GoneFor(call[c], old)

OldInv == AgentTypeOK /\ OneBroker /\ OldIsGone

\* A step of one command changes where it is, and nothing that it or another has read.
LEMMA CallGoes ==
    ASSUME AgentTypeOK, NEW c \in Callers, NEW step, Goes(c, step)
    PROVE  /\ call'[c].at = step /\ call'[c].kind = call[c].kind
           /\ call'[c].build = call[c].build /\ call'[c].found = call[c].found
           /\ call'[c].observed = call[c].observed /\ call'[c].before = call[c].before
           /\ \A d \in Callers : d # c => call'[d] = call[d]
BY DEF AgentTypeOK, CommandState, Goes

\* The three readings
LEMMA CallReads ==
    ASSUME AgentTypeOK, NEW c \in Callers
    PROVE  /\ ReadsPlist(c) =>
                /\ call'[c].kind = call[c].kind /\ call'[c].build = call[c].build
                /\ call'[c].at = "observe" /\ call'[c].found = plist
                /\ \A d \in Callers : d # c => call'[d] = call[d]
           /\ Observes(c) =>
                /\ call'[c].kind = call[c].kind /\ call'[c].build = call[c].build
                /\ call'[c].at = AfterLook(call[c].kind)
                /\ call'[c].observed = Observed /\ call'[c].found = call[c].found
                /\ \A d \in Callers : d # c => call'[d] = call[d]
           /\ TakesFingerprint(c) =>
                /\ call'[c].kind = call[c].kind /\ call'[c].build = call[c].build
                /\ call'[c].at = FirstStep(call[c].found = call[c].build, call[c].observed)
                /\ call'[c].before = descriptor
                /\ \A d \in Callers : d # c => call'[d] = call[d]
<1> USE DEF AgentTypeOK, CommandState
<1>1. ASSUME ReadsPlist(c)
      PROVE  /\ call'[c].kind = call[c].kind /\ call'[c].build = call[c].build
             /\ call'[c].at = "observe" /\ call'[c].found = plist
             /\ \A d \in Callers : d # c => call'[d] = call[d]
    BY <1>1 DEF ReadsPlist
<1>2. ASSUME Observes(c)
      PROVE  /\ call'[c].kind = call[c].kind /\ call'[c].build = call[c].build
             /\ call'[c].at = AfterLook(call[c].kind)
             /\ call'[c].observed = Observed /\ call'[c].found = call[c].found
             /\ \A d \in Callers : d # c => call'[d] = call[d]
    BY <1>2 DEF Observes
<1>3. ASSUME TakesFingerprint(c)
      PROVE  /\ call'[c].kind = call[c].kind /\ call'[c].build = call[c].build
             /\ call'[c].at = FirstStep(call[c].found = call[c].build, call[c].observed)
             /\ call'[c].before = descriptor
             /\ \A d \in Callers : d # c => call'[d] = call[d]
    <2>1. PICK at : /\ at = FirstStep(call[c].found = call[c].build, call[c].observed)
                    /\ call' = [call EXCEPT ![c].at = at, ![c].before = descriptor]
        BY <1>3 DEF TakesFingerprint
    <2> QED BY <2>1
<1> QED BY <1>1, <1>2, <1>3

LEMMA AllPlaces ==
    {"idle", "reported", "failed", "old agent", "old file", "plist", "observe", "fingerprint",
     "bootout", "write", "bootstrap", "kickstart", "wait", "remove"} \subseteq BrokerPlaces
BY DEF BrokerPlaces, Ends

LEMMA CallKeepsType ==
    ASSUME call \in [Callers -> CommandState], NEW c \in Callers,
           NEW step \in BrokerPlaces, Goes(c, step)
    PROVE  call' \in [Callers -> CommandState]
BY DEF Goes, CommandState

LEMMA PlistReadKeepsType ==
    ASSUME call \in [Callers -> CommandState], NEW c \in Callers, NEW at \in BrokerPlaces,
           NEW definition \in Definitions \cup {NoAgent},
           call' = [call EXCEPT ![c].at = at, ![c].found = definition]
    PROVE  call' \in [Callers -> CommandState]
<1>1. PICK r : r = [call[c] EXCEPT !.at = at, !.found = definition]
    OBVIOUS
<1>2. r \in CommandState
    BY <1>1 DEF CommandState
<1>3. call' = [call EXCEPT ![c] = r]
    BY <1>1
<1> QED BY <1>2, <1>3

LEMMA LookKeepsType ==
    ASSUME call \in [Callers -> CommandState], NEW c \in Callers, NEW at \in BrokerPlaces,
           NEW observed \in Observations,
           call' = [call EXCEPT ![c].observed = observed, ![c].at = at]
    PROVE  call' \in [Callers -> CommandState]
<1>1. PICK r : r = [call[c] EXCEPT !.observed = observed, !.at = at]
    OBVIOUS
<1>2. r \in CommandState
    BY <1>1 DEF CommandState
<1>3. call' = [call EXCEPT ![c] = r]
    BY <1>1
<1> QED BY <1>2, <1>3

LEMMA FingerprintKeepsType ==
    ASSUME call \in [Callers -> CommandState], NEW c \in Callers, NEW at \in BrokerPlaces,
           NEW broker \in Brokers \cup {NoAgent},
           call' = [call EXCEPT ![c].at = at, ![c].before = broker]
    PROVE  call' \in [Callers -> CommandState]
<1>1. PICK r : r = [call[c] EXCEPT !.at = at, !.before = broker]
    OBVIOUS
<1>2. r \in CommandState
    BY <1>1 DEF CommandState
<1>3. call' = [call EXCEPT ![c] = r]
    BY <1>1
<1> QED BY <1>2, <1>3

LEMMA LaunchdStarts ==
    ASSUME NEW d \in Definitions, Starts(d)
    PROVE  agent' \in Launchd
BY DEF Starts, FreeBrokers, Launchd

LEMMA BeginsInType ==
    ASSUME NEW kind \in {"install", "stop", "uninstall"}, NEW build \in Definitions \cup {NoAgent},
           NEW at \in BrokerPlaces
    PROVE  CallOf(kind, build, at) \in CommandState
BY DEF CallOf, CommandState, Observations

\* What launchd has loaded after a start, and where a login leaves the commands
LEMMA StartsLoads == ASSUME NEW d, Starts(d) PROVE agent'.loaded = d
BY DEF Starts

LEMMA NothingLoaded == NotLoaded.loaded = NoAgent /\ NotLoaded.broker = NoAgent
BY DEF NotLoaded

LEMMA LoginEndsAll ==
    ASSUME LogsIn, NEW c \in Callers
    PROVE  call'[c].at = "idle" /\ call'[c].kind = "stop"
BY DEF LogsIn, NoCommand, CallOf

LEMMA NotLoadedInType == NotLoaded \in Launchd
BY DEF NotLoaded, Launchd

LEMMA NoCommandInType == NoCommand \in CommandState
BY BeginsInType, AllPlaces DEF NoCommand

\* The type invariant, one step at a time.
LEMMA AgentTypeStep ==
    ASSUME AgentTypeOK, [NextAgent]_agentVars
    PROVE  AgentTypeOK'
<1> DEFINE Calls == call' \in [Callers -> CommandState]
           Others == /\ plist' \in Definitions \cup {NoAgent} /\ agent' \in Launchd
                     /\ old' \in [file : BOOLEAN, loaded : BOOLEAN]
                     /\ descriptor' \in Brokers \cup {NoAgent}
<1> SUFFICES Calls /\ Others
    BY DEF AgentTypeOK
<1>t. /\ plist \in Definitions \cup {NoAgent} /\ agent \in Launchd
      /\ old \in [file : BOOLEAN, loaded : BOOLEAN]
      /\ descriptor \in Brokers \cup {NoAgent} /\ call \in [Callers -> CommandState]
    BY DEF AgentTypeOK
<1>1. CASE UNCHANGED agentVars
    BY <1>t, <1>1 DEF agentVars
<1>2. CASE PublishesDescriptor
    BY <1>t, <1>2 DEF PublishesDescriptor, Launchd
<1>3. CASE BrokerExits
    BY <1>t, <1>3 DEF BrokerExits, BrokerGoes, Launchd
<1>4. CASE LogsIn
    <2>1. Calls
        BY <1>4, NoCommandInType DEF LogsIn
    <2>2. agent' \in Launchd
        BY <1>t, <1>4, LaunchdStarts, NotLoadedInType DEF LogsIn
    <2>3. old' \in [file : BOOLEAN, loaded : BOOLEAN] /\ plist' = plist
        BY <1>t, <1>4 DEF LogsIn
    <2>4. descriptor' \in Brokers \cup {NoAgent}
        BY <1>t, <1>4 DEF LogsIn, BrokerGoes
    <2> QED BY <1>t, <2>1, <2>2, <2>3, <2>4
<1>5. ASSUME NEW c \in Callers, CommandStep(c) PROVE Calls /\ Others
    <2> USE <1>t, AllPlaces
    <2>1. CASE CallBegins(c)
        <3>1. PICK kind \in {"install", "stop", "uninstall"}, build \in Definitions \cup {NoAgent} :
                call' = [call EXCEPT
                  ![c] = CallOf(kind, build, IF kind = "stop" THEN "observe" ELSE "old agent")]
            BY <2>1 DEF CallBegins
        <3>2. CallOf(kind, build, IF kind = "stop" THEN "observe" ELSE "old agent")
                \in CommandState
            BY BeginsInType
        <3> QED BY <2>1, <3>1, <3>2 DEF CallBegins
    <2>2. CASE CallDies(c)
        BY <2>2, CallKeepsType DEF CallDies
    <2>3. CASE BootsOutOld(c)
        BY <2>3, CallKeepsType DEF BootsOutOld
    <2>4. CASE RemovesOld(c)
        BY <2>4, CallKeepsType DEF RemovesOld
    <2>5. CASE ReadsPlist(c)
        BY <2>5, PlistReadKeepsType DEF ReadsPlist
    <2>6. CASE Observes(c)
        <3>1. Observed \in Observations
            BY DEF Observed, Observations
        <3>2. PICK at \in BrokerPlaces : call' = [call EXCEPT ![c].observed = Observed, ![c].at = at]
            BY <2>6, AllPlaces DEF Observes, AfterLook, AfterBootout
        <3>3. Calls
            BY <3>1, <3>2, LookKeepsType
        <3> QED BY <3>3, <2>6 DEF Observes
    <2>7. CASE TakesFingerprint(c)
        <3>1. PICK at \in BrokerPlaces : call' = [call EXCEPT ![c].at = at, ![c].before = descriptor]
            BY <2>7, AllPlaces DEF TakesFingerprint, FirstStep
        <3>2. Calls
            BY <3>1, FingerprintKeepsType
        <3> QED BY <3>2, <2>7 DEF TakesFingerprint
    <2>8. CASE Bootout(c)
        <3>1. PICK at \in BrokerPlaces : Goes(c, at)
            BY <2>8 DEF Bootout, AfterBootout
        <3>2. Others
            BY <2>8, NotLoadedInType DEF Bootout, BrokerGoes
        <3> QED BY <3>1, <3>2, CallKeepsType
    <2>9. CASE WritesPlist(c)
        <3>1. call[c].build \in Definitions \cup {NoAgent}
            BY DEF CommandState
        <3> QED BY <2>9, <3>1, CallKeepsType DEF WritesPlist
    <2>10. CASE Bootstrap(c)
        BY <2>10, CallKeepsType, LaunchdStarts DEF Bootstrap
    <2>11. CASE Kickstart(c)
        <3>1. PICK at \in BrokerPlaces : Goes(c, at)
            BY <2>11 DEF Kickstart
        <3>0. agent.loaded \in Definitions \cup {NoAgent}
            BY DEF Launchd
        <3>2. agent' \in Launchd
            BY <2>11, LaunchdStarts, <3>0 DEF Kickstart
        <3>3. descriptor' \in Brokers \cup {NoAgent} /\ UNCHANGED <<plist, old>>
            BY <2>11 DEF Kickstart, BrokerGoes
        <3> QED BY <3>1, <3>2, <3>3, CallKeepsType
    <2>12. CASE SeesReady(c) \/ RemovesPlist(c)
        BY <2>12, CallKeepsType DEF SeesReady, RemovesPlist
    <2> QED BY <1>5, <2>1, <2>2, <2>3, <2>4, <2>5, <2>6, <2>7, <2>8, <2>9, <2>10, <2>11, <2>12
               DEF CommandStep
<1> QED BY <1>1, <1>2, <1>3, <1>4, <1>5 DEF NextAgent

\* What a step of one command must leave for the agent of before the rename to be gone.
LEMMA OldStaysGone ==
    ASSUME OldIsGone, NEW c \in Callers, \A d \in Callers : d # c => call'[d] = call[d],
           old'.loaded => old.loaded, old'.file => old.file, GoneFor(call'[c], old')
    PROVE  OldIsGone'
<1>1. ASSUME NEW r, GoneFor(r, old) PROVE GoneFor(r, old')
    BY <1>1 DEF GoneFor
<1>2. ASSUME NEW d \in Callers PROVE GoneFor(call'[d], old')
    <2>1. d # c => GoneFor(call'[d], old')
        BY <1>1 DEF OldIsGone
    <2> QED BY <2>1
<1> QED BY <1>2 DEF OldIsGone

LEMMA OldStep ==
    ASSUME OldInv, [NextAgent]_agentVars
    PROVE  OldInv'
<1> SUFFICES OneBroker' /\ OldIsGone'
    BY AgentTypeStep DEF OldInv
<1>0. AgentTypeOK /\ OneBroker /\ OldIsGone
    BY DEF OldInv
<1>1. CASE UNCHANGED agentVars
    BY <1>0, <1>1 DEF agentVars, OneBroker, OldIsGone
<1>2. CASE PublishesDescriptor \/ BrokerExits
    <2>1. agent'.loaded = agent.loaded /\ UNCHANGED <<plist, old, call>>
        BY <1>0, <1>2 DEF PublishesDescriptor, BrokerExits, AgentTypeOK, Launchd
    <2> QED BY <1>0, <2>1 DEF OneBroker, OldIsGone
<1>3. CASE LogsIn
    <2>1. old'.loaded = old.file /\ old'.file = old.file /\ plist' = plist
        BY <1>0, <1>3 DEF LogsIn, AgentTypeOK
    <2>2. agent'.loaded = plist
        BY <1>3 DEF LogsIn, Starts, NotLoaded
    <2>3. \A d \in Callers : call'[d].at = "idle"
        BY <1>3 DEF LogsIn, NoCommand, CallOf
    <2> QED BY <1>0, <2>1, <2>2, <2>3 DEF OneBroker, OldIsGone, GoneFor, Installing
<1>4. ASSUME NEW c \in Callers, CommandStep(c) PROVE OneBroker' /\ OldIsGone'
    <2> USE <1>0, OldStaysGone DEF Installing, GoneFor
    <2>g. call[c].kind = "install" /\ call[c].at \in Installing => ~old.loaded /\ ~old.file
        BY DEF OldIsGone
    <2>k. call[c].at \in {"plist", "fingerprint", "write", "bootstrap", "kickstart", "wait"}
            => call[c].kind = "install"
        BY DEF OldIsGone
    <2>1. CASE CallBegins(c)
        <3>0. PICK kind \in {"install", "stop", "uninstall"}, build \in Definitions \cup {NoAgent} :
                call' = [call EXCEPT
                  ![c] = CallOf(kind, build, IF kind = "stop" THEN "observe" ELSE "old agent")]
            BY <2>1 DEF CallBegins
        <3>1. /\ call'[c].at = IF kind = "stop" THEN "observe" ELSE "old agent"
              /\ call'[c].kind = kind /\ \A d \in Callers : d # c => call'[d] = call[d]
            BY <3>0 DEF CallOf, AgentTypeOK
        <3>2. UNCHANGED <<plist, agent, old, descriptor>>
            BY <2>1 DEF CallBegins
        <3>3. GoneFor(call'[c], old')
            BY <3>1
        <3> QED BY <3>1, <3>2, <3>3 DEF OneBroker
    <2>2. CASE CallDies(c)
        <3>1. call'[c].at = "failed" /\ \A d \in Callers : d # c => call'[d] = call[d]
            BY <2>2, CallGoes DEF CallDies
        <3> QED BY <2>2, <3>1 DEF CallDies, OneBroker
    <2>3. CASE BootsOutOld(c)
        <3>1. ~old'.loaded /\ old'.file = old.file /\ UNCHANGED <<plist, agent>>
            BY <2>3 DEF BootsOutOld, AgentTypeOK
        <3>2. call'[c].at = "old file" /\ \A d \in Callers : d # c => call'[d] = call[d]
            BY <2>3, CallGoes DEF BootsOutOld
        <3> QED BY <3>1, <3>2 DEF OneBroker
    <2>4. CASE RemovesOld(c)
        <3>1. ~old.loaded
            BY <2>4 DEF RemovesOld, OldIsGone
        <3>2. ~old'.loaded /\ ~old'.file /\ UNCHANGED <<plist, agent>>
            BY <2>4, <3>1 DEF RemovesOld, AgentTypeOK
        <3>3. /\ call'[c].at = IF call[c].kind = "install" THEN "plist" ELSE "observe"
              /\ call'[c].kind = call[c].kind
              /\ \A d \in Callers : d # c => call'[d] = call[d]
            BY <2>4, CallGoes DEF RemovesOld
        <3> QED BY <3>2, <3>3 DEF OneBroker
    <2>5. CASE ReadsPlist(c)
        <3>1. /\ call'[c].at = "observe" /\ call'[c].kind = call[c].kind
              /\ \A d \in Callers : d # c => call'[d] = call[d]
            BY <2>5, CallReads
        <3>2. call[c].at = "plist" /\ UNCHANGED <<plist, agent, old, descriptor>>
            BY <2>5 DEF ReadsPlist
        <3> QED BY <2>g, <3>1, <3>2 DEF OneBroker
    <2>6. CASE Observes(c)
        <3>1. /\ call'[c].at = AfterLook(call[c].kind) /\ call'[c].kind = call[c].kind
              /\ \A d \in Callers : d # c => call'[d] = call[d]
            BY <2>6, CallReads
        <3>2. call[c].at = "observe" /\ UNCHANGED <<plist, agent, old, descriptor>>
            BY <2>6 DEF Observes
        <3>3. /\ call[c].kind = "install" => call'[c].at = "fingerprint"
              /\ call[c].kind # "install" => call'[c].at \in {"bootout", "remove", "reported"}
            BY <3>1 DEF AfterLook, AfterBootout
        <3> QED BY <2>g, <3>1, <3>2, <3>3 DEF OneBroker
    <2>7. CASE TakesFingerprint(c)
        <3>1. /\ call'[c].kind = call[c].kind
              /\ call'[c].at = FirstStep(call[c].found = call[c].build, call[c].observed)
              /\ \A d \in Callers : d # c => call'[d] = call[d]
            BY <2>7, CallReads
        <3>2. call[c].at = "fingerprint" /\ UNCHANGED <<plist, agent, old, descriptor>>
            BY <2>7 DEF TakesFingerprint
        <3> QED BY <2>g, <2>k, <3>1, <3>2 DEF OneBroker, FirstStep
    <2>8. CASE Bootout(c)
        <3>1. PICK at \in {"failed", "write", "remove", "reported"} :
                /\ Goes(c, at) /\ (at = "write" => call[c].kind = "install")
            BY <2>8 DEF Bootout, AfterBootout
        <3>2. /\ call'[c].at = at /\ call'[c].kind = call[c].kind
              /\ \A d \in Callers : d # c => call'[d] = call[d]
            BY <3>1, CallGoes
        <3>3. call[c].at = "bootout" /\ (agent' = agent \/ agent' = NotLoaded)
              /\ UNCHANGED <<plist, old>>
            BY <2>8 DEF Bootout
        <3>4. OneBroker'
            <4>1. agent'.loaded = NoAgent \/ agent'.loaded = agent.loaded
                BY <3>3, NothingLoaded
            <4> QED BY <3>3, <4>1 DEF OneBroker
        <3>5. GoneFor(call'[c], old')
            BY <2>g, <3>1, <3>2, <3>3
        <3> QED BY <3>2, <3>3, <3>4, <3>5
    <2>9. CASE WritesPlist(c)
        <3>1. /\ call'[c].at = "bootstrap" /\ call'[c].kind = call[c].kind
              /\ \A d \in Callers : d # c => call'[d] = call[d]
            BY <2>9, CallGoes DEF WritesPlist
        <3>2. call[c].at = "write" /\ UNCHANGED <<agent, old, descriptor>>
            BY <2>9 DEF WritesPlist
        <3> QED BY <2>g, <2>k, <3>1, <3>2 DEF OneBroker
    <2>10. CASE Bootstrap(c)
        <3>1. PICK at \in {"failed", "wait"} : Goes(c, at)
            BY <2>10 DEF Bootstrap
        <3>2. /\ call'[c].at = at /\ call'[c].kind = call[c].kind
              /\ \A d \in Callers : d # c => call'[d] = call[d]
            BY <3>1, CallGoes
        <3>3. call[c].at = "bootstrap" /\ UNCHANGED <<plist, old, descriptor>>
            BY <2>10 DEF Bootstrap
        <3> QED BY <2>g, <2>k, <3>1, <3>2, <3>3 DEF OneBroker
    <2>11. CASE Kickstart(c)
        <3>1. PICK at \in {"failed", "wait"} : Goes(c, at)
            BY <2>11 DEF Kickstart
        <3>2. /\ call'[c].at = at /\ call'[c].kind = call[c].kind
              /\ \A d \in Callers : d # c => call'[d] = call[d]
            BY <3>1, CallGoes
        <3>3. call[c].at = "kickstart" /\ UNCHANGED <<plist, old>>
            BY <2>11 DEF Kickstart
        <3> QED BY <2>g, <2>k, <3>1, <3>2, <3>3 DEF OneBroker
    <2>12. CASE SeesReady(c) \/ RemovesPlist(c)
        <3>1. call'[c].at = "reported" /\ \A d \in Callers : d # c => call'[d] = call[d]
            BY <2>12, CallGoes DEF SeesReady, RemovesPlist
        <3>2. plist' \in {plist, NoAgent} /\ UNCHANGED <<agent, old>>
            BY <2>12 DEF SeesReady, RemovesPlist
        <3> QED BY <3>1, <3>2 DEF OneBroker
    <2> QED BY <1>4, <2>1, <2>2, <2>3, <2>4, <2>5, <2>6, <2>7, <2>8, <2>9, <2>10, <2>11, <2>12
               DEF CommandStep
<1> QED BY <1>1, <1>2, <1>3, <1>4 DEF NextAgent

LEMMA OldInit == InitAgent => OldInv
<1> SUFFICES ASSUME InitAgent PROVE OldInv
    OBVIOUS
<1>1. AgentTypeOK
    BY NotLoadedInType, NoCommandInType DEF InitAgent, AgentTypeOK
<1>2. OneBroker
    BY DEF InitAgent, OneBroker, NotLoaded
<1>3. OldIsGone
    BY DEF InitAgent, OldIsGone, GoneFor, NoCommand, CallOf, Installing
<1> QED BY <1>1, <1>2, <1>3 DEF OldInv

\* However many commands run at once, the broker of before the rename and the one that
\* took its place are never both there.
THEOREM NeverTwoBrokers == AgentSpec => []OneBroker
<1>1. OldInv /\ [NextAgent]_agentVars => OldInv'
    BY OldStep
<1>2. OldInv => OneBroker
    BY DEF OldInv
<1> QED BY OldInit, <1>1, <1>2, PTL DEF AgentSpec

(***************************************************************************)
(* One command at a time.  What it has read still holds when it acts on it,  *)
(* and the descriptor it waits for is of the broker it has started.         *)
(***************************************************************************)
\* For a command in state r
StillTrue(r) ==
    /\ r.at = "remove" => agent.loaded = NoAgent
    /\ r.kind = "install" =>
        /\ r.at \in {"observe", "fingerprint"} => r.found = plist
        /\ r.at = "fingerprint" => (agent.loaded = NoAgent <=> r.observed = "not loaded")
        /\ r.at \in {"bootstrap", "kickstart", "wait"} => plist = r.build
        /\ r.at = "write" => agent.loaded = NoAgent

DescriptorOf(r) ==
    /\ r.at \notin Ends \cup {"wait"} => ~BrokerStarts
    /\ r.kind = "install" /\ r.at \in {"bootout", "write", "bootstrap", "kickstart"}
           => descriptor \in {NoAgent, r.before}
    /\ r.at = "wait" /\ agent.broker # NoAgent
           => descriptor \in {NoAgent, r.before, agent.broker}

ReportInv ==
    /\ OldInv /\ LoadedAsWritten
    /\ \A c \in Callers : StillTrue(call[c]) /\ DescriptorOf(call[c])

LEMMA ReportStep ==
    ASSUME ReportInv, [NextAgent]_agentVars, ~MeetsStarting,
           \A c, d \in Callers : c = d
    PROVE  ReportInv'
<1> DEFINE Aim == /\ LoadedAsWritten'
                  /\ \A c \in Callers : StillTrue(call[c])' /\ DescriptorOf(call[c])'
<1> SUFFICES Aim
    BY OldStep DEF ReportInv
<1>0. AgentTypeOK /\ LoadedAsWritten /\ \A c \in Callers : StillTrue(call[c]) /\ DescriptorOf(call[c])
    BY DEF ReportInv, OldInv
<1>t. /\ call \in [Callers -> CommandState] /\ agent \in Launchd
      /\ descriptor \in Brokers \cup {NoAgent}
    BY <1>0 DEF AgentTypeOK
<1> USE DEF Ends
<1>1. CASE UNCHANGED agentVars
    BY <1>0, <1>1 DEF agentVars, LoadedAsWritten, StillTrue, DescriptorOf, BrokerStarts
<1>2. CASE PublishesDescriptor
    <2>1. /\ agent'.loaded = agent.loaded /\ agent'.broker = agent.broker
          /\ agent'.serves /\ descriptor' = agent.broker /\ UNCHANGED <<plist, old, call>>
        BY <1>t, <1>2 DEF PublishesDescriptor, Launchd
    <2>2. \A c \in Callers : call[c].at \in Ends \cup {"wait"}
        BY <1>0, <1>2 DEF PublishesDescriptor, DescriptorOf, BrokerStarts
    <2> QED BY <1>0, <2>1, <2>2 DEF LoadedAsWritten, StillTrue, DescriptorOf, BrokerStarts
<1>3. CASE BrokerExits
    <2>1. /\ agent'.loaded = agent.loaded /\ agent'.broker = NoAgent
          /\ (descriptor' = descriptor \/ descriptor' = NoAgent)
          /\ UNCHANGED <<plist, old, call>>
        BY <1>t, <1>3 DEF BrokerExits, BrokerGoes, Launchd
    <2> QED BY <1>0, <2>1 DEF LoadedAsWritten, StillTrue, DescriptorOf, BrokerStarts
<1>4. CASE LogsIn
    <2>1. agent'.loaded = plist /\ plist' = plist
        BY <1>4 DEF LogsIn, Starts, NotLoaded
    <2>2. \A c \in Callers : call'[c].at = "idle" /\ call'[c].kind = "stop"
        BY <1>4 DEF LogsIn, NoCommand, CallOf
    <2> QED BY <2>1, <2>2 DEF LoadedAsWritten, StillTrue, DescriptorOf
<1>5. ASSUME NEW c \in Callers, CommandStep(c) PROVE Aim
    <2>a. SUFFICES LoadedAsWritten' /\ StillTrue(call[c])' /\ DescriptorOf(call[c])'
        OBVIOUS
    <2>k. /\ call[c].at \in {"plist", "fingerprint", "write", "bootstrap", "kickstart", "wait"}
                => call[c].kind = "install"
          /\ StillTrue(call[c]) /\ DescriptorOf(call[c])
        BY <1>0 DEF ReportInv, OldInv, OldIsGone, GoneFor
    <2> USE <1>0, <2>k DEF LoadedAsWritten, StillTrue, DescriptorOf, BrokerStarts
    <2>1. CASE CallBegins(c)
        <3>1. PICK kind \in {"install", "stop", "uninstall"}, build \in Definitions \cup {NoAgent} :
                call' = [call EXCEPT
                  ![c] = CallOf(kind, build, IF kind = "stop" THEN "observe" ELSE "old agent")]
            BY <2>1 DEF CallBegins
        <3>2. /\ call'[c].at = IF kind = "stop" THEN "observe" ELSE "old agent"
              /\ call'[c].kind = kind
            BY <1>t, <3>1 DEF CallOf
        <3>3. ~BrokerStarts /\ UNCHANGED <<plist, agent, old, descriptor>>
            BY <2>1 DEF CallBegins
        <3> QED BY <3>2, <3>3
    <2>2. CASE CallDies(c)
        <3>1. call'[c].at = "failed" /\ UNCHANGED <<plist, agent, old, descriptor>>
            BY <2>2, CallGoes DEF CallDies
        <3> QED BY <3>1
    <2>3. CASE BootsOutOld(c)
        <3>1. call[c].at = "old agent" /\ call'[c].at = "old file"
              /\ UNCHANGED <<plist, agent, descriptor>>
            BY <2>3, CallGoes DEF BootsOutOld
        <3> QED BY <3>1
    <2>4. CASE RemovesOld(c)
        <3>1. /\ call[c].at = "old file" /\ UNCHANGED <<plist, agent, descriptor>>
              /\ call'[c].kind = call[c].kind
              /\ call'[c].at = IF call[c].kind = "install" THEN "plist" ELSE "observe"
            BY <2>4, CallGoes DEF RemovesOld
        <3> QED BY <3>1
    <2>5. CASE ReadsPlist(c)
        <3>1. /\ call'[c].at = "observe" /\ call'[c].found = plist
              /\ call[c].at = "plist" /\ UNCHANGED <<plist, agent, old, descriptor>>
            BY <2>5, CallReads DEF ReadsPlist
        <3> QED BY <3>1
    <2>6. CASE Observes(c)
        <3>1. /\ call'[c].at = AfterLook(call[c].kind) /\ call'[c].kind = call[c].kind
              /\ call'[c].observed = Observed /\ call'[c].found = call[c].found
              /\ call[c].at = "observe" /\ UNCHANGED <<plist, agent, old, descriptor>>
            BY <2>6, CallReads DEF Observes
        <3>2. agent.loaded = NoAgent <=> Observed = "not loaded"
            BY DEF Observed
        <3>3. /\ call[c].kind = "install" => call'[c].at = "fingerprint"
              /\ call[c].kind # "install" =>
                   /\ call'[c].at \in {"bootout", "remove", "reported"}
                   /\ (call'[c].at = "remove" => agent.loaded = NoAgent)
            BY <3>1, <3>2 DEF AfterLook, AfterBootout
        <3> QED BY <3>1, <3>2, <3>3
    <2>7. CASE TakesFingerprint(c)
        <3>1. /\ call'[c].kind = call[c].kind /\ call'[c].build = call[c].build
              /\ call'[c].at = FirstStep(call[c].found = call[c].build, call[c].observed)
              /\ call'[c].before = descriptor
              /\ call[c].at = "fingerprint" /\ UNCHANGED <<plist, agent, old, descriptor>>
            BY <2>7, CallReads DEF TakesFingerprint
        <3>2. /\ call'[c].at \in {"bootout", "write", "bootstrap", "kickstart"}
              /\ (call'[c].at \in {"bootstrap", "kickstart"} => call[c].found = call[c].build)
              /\ (call'[c].at = "write" => call[c].observed = "not loaded")
            BY <3>1 DEF FirstStep
        <3> QED BY <3>1, <3>2
    <2>8. CASE Bootout(c)
        <3>1. CASE agent.loaded = NoAgent
            <4>1. call'[c].at = "failed" /\ UNCHANGED <<plist, agent, old, descriptor>>
                BY <2>8, <3>1, CallGoes DEF Bootout
            <4> QED BY <4>1
        <3>2. CASE agent.loaded # NoAgent
            <4>1. agent' = NotLoaded /\ Goes(c, AfterBootout(call[c].kind)) /\ plist' = plist
                  /\ (descriptor' = descriptor \/ descriptor' = NoAgent)
                  /\ call[c].at = "bootout"
                BY <2>8, <3>2 DEF Bootout, BrokerGoes
            <4>2. /\ call'[c].kind = call[c].kind /\ call'[c].before = call[c].before
                  /\ call'[c].at = AfterBootout(call[c].kind)
                BY <4>1, CallGoes
            <4>3. call'[c].at \in {"write", "remove", "reported"}
                BY <4>2 DEF AfterBootout
            <4>4. agent'.loaded = NoAgent /\ agent'.broker = NoAgent
                BY <4>1 DEF NotLoaded
            <4> QED BY <4>1, <4>2, <4>3, <4>4
        <3> QED BY <3>1, <3>2
    <2>9. CASE WritesPlist(c)
        <3>1. /\ call[c].at = "write" /\ call'[c].at = "bootstrap"
              /\ plist' = call[c].build /\ UNCHANGED <<agent, old, descriptor>>
              /\ call'[c].kind = call[c].kind /\ call'[c].build = call[c].build
              /\ call'[c].before = call[c].before
            BY <2>9, CallGoes DEF WritesPlist
        <3> QED BY <3>1
    <2>10. CASE Bootstrap(c)
        <3>1. CASE plist = NoAgent \/ agent.loaded # NoAgent
            <4>1. call'[c].at = "failed" /\ UNCHANGED <<plist, agent, old, descriptor>>
                BY <2>10, <3>1, CallGoes DEF Bootstrap
            <4> QED BY <4>1
        <3>2. CASE ~(plist = NoAgent \/ agent.loaded # NoAgent)
            <4>1. /\ Goes(c, "wait") /\ Starts(plist) /\ UNCHANGED <<plist, old, descriptor>>
                  /\ call[c].at = "bootstrap"
                BY <2>10, <3>2 DEF Bootstrap
            <4>2. /\ call'[c].at = "wait" /\ call'[c].kind = call[c].kind
                  /\ call'[c].build = call[c].build /\ call'[c].before = call[c].before
                BY <4>1, CallGoes
            <4>3. agent'.loaded = plist
                BY <4>1, StartsLoads
            <4>4. descriptor' \in {NoAgent, call'[c].before} /\ plist' = call'[c].build
                BY <4>1, <4>2
            <4>5. LoadedAsWritten'
                BY <4>1, <4>3
            <4>6. StillTrue(call[c])'
                BY <4>2, <4>4
            <4>7. DescriptorOf(call[c])'
                BY <4>2, <4>4
            <4> QED BY <4>5, <4>6, <4>7
        <3> QED BY <3>1, <3>2
    <2>11. CASE Kickstart(c)
        <3>1. CASE plist = NoAgent \/ agent.loaded = NoAgent
            <4>1. call'[c].at = "failed" /\ UNCHANGED <<plist, agent, old, descriptor>>
                BY <2>11, <3>1, CallGoes DEF Kickstart
            <4> QED BY <4>1
        <3>2. CASE ~(plist = NoAgent \/ agent.loaded = NoAgent)
            <4>1. /\ Goes(c, "wait") /\ Starts(agent.loaded) /\ UNCHANGED <<plist, old>>
                  /\ (descriptor' = descriptor \/ descriptor' = NoAgent)
                  /\ call[c].at = "kickstart"
                BY <2>11, <3>2 DEF Kickstart, BrokerGoes
            <4>2. /\ call'[c].at = "wait" /\ call'[c].kind = call[c].kind
                  /\ call'[c].build = call[c].build /\ call'[c].before = call[c].before
                BY <4>1, CallGoes
            <4>3. agent'.loaded = agent.loaded
                BY <4>1, StartsLoads
            <4>4. descriptor' \in {NoAgent, call'[c].before} /\ plist' = call'[c].build
                BY <4>1, <4>2
            <4>5. LoadedAsWritten'
                BY <4>1, <4>3
            <4>6. StillTrue(call[c])'
                BY <4>2, <4>4
            <4>7. DescriptorOf(call[c])'
                BY <4>2, <4>4
            <4> QED BY <4>5, <4>6, <4>7
        <3> QED BY <3>1, <3>2
    <2>12. CASE SeesReady(c)
        <3>1. call'[c].at = "reported" /\ UNCHANGED <<plist, agent, old, descriptor>>
            BY <2>12, CallGoes DEF SeesReady
        <3> QED BY <3>1
    <2>13. CASE RemovesPlist(c)
        <3>1. /\ call[c].at = "remove" /\ call'[c].at = "reported" /\ plist' = NoAgent
              /\ UNCHANGED <<agent, old, descriptor>>
            BY <2>13, CallGoes DEF RemovesPlist
        <3> QED BY <3>1
    <2> QED BY <1>5, <2>1, <2>2, <2>3, <2>4, <2>5, <2>6, <2>7, <2>8, <2>9, <2>10, <2>11, <2>12,
               <2>13 DEF CommandStep
<1> QED BY <1>1, <1>2, <1>3, <1>4, <1>5 DEF NextAgent

LEMMA ReportInit == InitAgent => ReportInv
<1> SUFFICES ASSUME InitAgent PROVE LoadedAsWritten /\ \A c \in Callers :
                                       StillTrue(call[c]) /\ DescriptorOf(call[c])
    BY OldInit DEF ReportInv
<1>1. agent.loaded = NoAgent /\ agent.broker = NoAgent
    BY DEF InitAgent, NotLoaded
<1>2. \A c \in Callers : call[c].at = "idle" /\ call[c].kind = "stop"
    BY DEF InitAgent, NoCommand, CallOf
<1> QED BY <1>1, <1>2 DEF LoadedAsWritten, StillTrue, DescriptorOf, Ends

\* Only one step makes a command that waits report.
LEMMA WaitsUntilReady ==
    ASSUME AgentTypeOK, [NextAgent]_agentVars, \A c, d \in Callers : c = d, NEW c \in Callers,
           call[c].at = "wait", call'[c].at = "reported"
    PROVE  SeesReady(c)
<1>1. call' # call
    OBVIOUS
<1>2. ~LogsIn
    BY LoginEndsAll
<1>3. CommandStep(c)
    BY <1>1, <1>2 DEF NextAgent, agentVars, PublishesDescriptor, BrokerExits
<1>4. ~CallDies(c)
    BY CallGoes DEF CallDies
<1> QED BY <1>3, <1>4 DEF CommandStep, CallBegins, BootsOutOld, RemovesOld, ReadsPlist, Observes,
           TakesFingerprint, Bootout, WritesPlist, Bootstrap, Kickstart, RemovesPlist, Ends

\* The step in which a command reports success
LEMMA ReportIsTrue ==
    ASSUME ReportInv, [NextAgent]_agentVars, \A c, d \in Callers : c = d, NEW c \in Callers,
           call[c].kind = "install", call[c].at = "wait", call'[c].at = "reported"
    PROVE  /\ agent.loaded = call[c].build /\ agent.broker # NoAgent
           /\ descriptor = agent.broker /\ ~old.loaded
<1>1. SeesReady(c)
    BY WaitsUntilReady DEF ReportInv, OldInv
<1>2. agent.loaded # NoAgent /\ agent.broker # NoAgent
    BY <1>1 DEF SeesReady, Ready, Observed
<1>3. descriptor \notin {NoAgent, call[c].before}
    BY <1>1 DEF SeesReady, Ready
<1>4. ~old.loaded
    BY DEF ReportInv, OldInv, OldIsGone, GoneFor, Installing
<1> QED BY <1>2, <1>3, <1>4 DEF ReportInv, LoadedAsWritten, StillTrue, DescriptorOf

\* An install that reports success reports on the broker that runs, when commands do not
\* overlap and none meets a broker that is still starting.
THEOREM ReportsTheBroker ==
    ASSUME ~MeetsStarting, \A c, d \in Callers : c = d
    PROVE  AgentSpec => InstallReportsItsBroker
<1>1. ReportInv /\ [NextAgent]_agentVars => ReportInv'
    BY ReportStep
<1>2. ReportInv /\ [NextAgent]_agentVars =>
        [\A c \in Callers :
           call[c].kind = "install" /\ call[c].at = "wait" /\ call'[c].at = "reported"
             => /\ agent.loaded = call[c].build /\ agent.broker # NoAgent
                /\ descriptor = agent.broker
                /\ ~old.loaded]_agentVars
    BY ReportIsTrue
<1> QED BY ReportInit, <1>1, <1>2, PTL DEF AgentSpec, InstallReportsItsBroker

(***************************************************************************)
(* The Desktop's tools.  The connection and the provider agree on the Turn  *)
(* that has control, and it is the one that runs.                           *)
(***************************************************************************)
ControlInv == control = cuaTurn /\ (cuaTurn # 0 => cuaTurn = owner)

LEMMA ControlStep ==
    ASSUME ControlInv, [NextTools]_toolVars
    PROVE  ControlInv'
<1> USE DEF ControlInv
<1>1. CASE UNCHANGED toolVars
    BY <1>1 DEF toolVars
<1>2. CASE LoadSucceeds
    <2>1. ASSUME NEW c \in ToolUses, GoesOn(c) PROVE use[c].turn = owner
        BY <2>1 DEF GoesOn, Owns
    <2> QED BY <1>2, <2>1 DEF LoadSucceeds, TakesControl
<1>3. CASE LoadFails
    BY <1>3 DEF LoadFails, Resets
<1>4. CASE TurnBegins
    BY <1>4 DEF TurnBegins
<1>5. CASE TurnEnds
    BY <1>5 DEF TurnEnds, Cleans
<1>6. CASE ClosesTransport
    BY <1>6 DEF ClosesTransport, Resets
<1>7. CASE SessionCloses
    BY <1>7 DEF SessionCloses, Resets
<1>8. ASSUME NEW c \in ToolUses,
             BeginsCall(c) \/ CallAnswered(c) \/ CallFails(c) \/ CallCancelled(c) \/ CancelArrives(c)
      PROVE  ControlInv'
    <2>1. Aborts(c) => cuaTurn' = 0 /\ control' = 0
        BY DEF Aborts, Cleans, Resets
    <2> QED BY <1>8, <2>1 DEF BeginsCall, CallAnswered, CallFails, CallCancelled, CancelArrives, Resets
<1>9. ASSUME NEW e \in ending, CleanupProceeds(e)
      PROVE  ControlInv'
    BY <1>9 DEF CleanupProceeds, Resets
<1> QED BY <1>1, <1>2, <1>3, <1>4, <1>5, <1>6, <1>7, <1>8, <1>9 DEF NextTools

\* A Turn that is over does not control the Desktop, for any number of calls and Turns.
THEOREM ControlIsReleased == ToolsSpec => []ControlEndsWithTurn
<1>1. InitTools => ControlInv
    BY DEF InitTools, ControlInv
<1>2. ControlInv => ControlEndsWithTurn
    BY DEF ControlInv, ControlEndsWithTurn
<1> QED BY <1>1, <1>2, ControlStep, PTL DEF ToolsSpec

(***************************************************************************)
(* The Host that runs and its file.  A Host keeps the store until its run   *)
(* has ended, so that the Hosts that may publish are one at a time.         *)
(***************************************************************************)
KeepsStore == {"opened", "listens", "temp", "runs", "ends", "failed"}
FoundInv ==
    /\ StartupTypeOK
    /\ \A h \in StartupHosts : startup[h] \in KeepsStore => storeOf = h
    /\ NoOtherHostIsFound

LEMMA FoundStep ==
    ASSUME FoundInv, [NextStartup]_startupVars
    PROVE  FoundInv'
<1> USE StartupAssumption DEF FoundInv, StartupTypeOK, NoOtherHostIsFound, Listening, KeepsStore
<1>1. CASE UNCHANGED startupVars
    BY <1>1 DEF startupVars
<1>2. ASSUME NEW h \in StartupHosts, StartsHost(h) PROVE FoundInv'
    BY <1>2 DEF StartsHost, Moves
<1>3. ASSUME NEW h \in StartupHosts, OpensStore(h) PROVE FoundInv'
    BY <1>3 DEF OpensStore, Moves, Free
<1>4. ASSUME NEW h \in StartupHosts, GivesUp(h) PROVE FoundInv'
    BY <1>4 DEF GivesUp, Moves
<1>5. ASSUME NEW h \in StartupHosts, PreparationFails(h) PROVE FoundInv'
    BY <1>5 DEF PreparationFails, Moves, Releases
<1>6. ASSUME NEW h \in StartupHosts, Listens(h) \/ WritesTemporary(h) \/ PublishingFails(h) \/ RunEnds(h)
      PROVE FoundInv'
    BY <1>6 DEF Listens, WritesTemporary, PublishingFails, RunEnds, Moves
<1>7. ASSUME NEW h \in StartupHosts, Publishes(h) PROVE FoundInv'
    BY <1>7 DEF Publishes, Moves
<1>8. ASSUME NEW h \in StartupHosts, ClosesStore(h) PROVE FoundInv'
    BY <1>8 DEF ClosesStore, Moves, Releases
<1>9. ASSUME NEW h \in StartupHosts, ReadsFile(h) PROVE FoundInv'
    BY <1>9 DEF ReadsFile, Releases
<1>10. ASSUME NEW h \in StartupHosts, RemovesFile(h) PROVE FoundInv'
    BY <1>10 DEF RemovesFile, Moves, Releases
<1>11. ASSUME NEW h \in StartupHosts, HostDies(h) PROVE FoundInv'
    BY <1>11 DEF HostDies
<1>12. CASE MenuBarAsks \/ MenuBarAnswered
    BY <1>12 DEF MenuBarAsks, MenuBarAnswered
<1> QED BY <1>1, <1>2, <1>3, <1>4, <1>5, <1>6, <1>7, <1>8, <1>9, <1>10, <1>11, <1>12 DEF NextStartup

\* While a Host runs, the menu bar finds no other, for any number of Hosts that wait, end or
\* are killed, wherever each of them is.
THEOREM NoOtherHostIsKnown == StartupSpec => []NoOtherHostIsFound
<1>1. InitStartup => FoundInv
    BY StartupAssumption DEF InitStartup, FoundInv, StartupTypeOK, NoOtherHostIsFound, Listening, KeepsStore
<1>2. FoundInv => NoOtherHostIsFound
    BY DEF FoundInv
<1>3. FoundInv /\ [NextStartup]_startupVars => FoundInv'
    BY FoundStep
<1> QED BY <1>1, <1>2, <1>3, PTL DEF StartupSpec

(***************************************************************************)
(* The socket lock.  The argument is that of the Bakery: a call that has    *)
(* read the entry of another and was not blocked by it is ahead of it, and  *)
(* stays ahead of it, although the other may still be reading the directory *)
(* and writing its register a second time.                                  *)
(***************************************************************************)

\* The type invariant: tickets stay in the range the record can hold and every scan
\* names registers only, for every interleaving of file operations and crashes.
LEMMA TypeInit == Init => TypeOK
  <1> SUFFICES ASSUME Init PROVE TypeOK
    OBVIOUS
  <1>1. 0 \in 0 .. MaxTicket /\ 0 \in 0 .. Retries - 1
    BY BoundsAssumption
  <1>2. /\ pc \in [Owners -> Places] /\ alive \in [Owners -> BOOLEAN]
        /\ ownSeen \in [Owners -> BOOLEAN] /\ blocked \in [Owners -> BOOLEAN]
        /\ condemned \in [Owners -> BOOLEAN]
    BY DEF Init, Places
  <1>3. /\ ticket \in [Owners -> 0 .. MaxTicket] /\ highest \in [Owners -> 0 .. MaxTicket]
        /\ found \in [Owners -> 0 .. MaxTicket] /\ attempt \in [Owners -> 0 .. Retries - 1]
    BY <1>1 DEF Init
  <1>4. /\ todo \in [Owners -> SUBSET Owners] /\ before \in [Owners -> SUBSET Owners]
        /\ suspect \in [Owners -> Owners \cup {NoOwner}]
    BY DEF Init
  <1> QED
    BY <1>2, <1>3, <1>4 DEF Init, TypeOK

\* The type invariant is inductive.
LEMMA TypeNext == TypeOK /\ [Next]_vars => TypeOK'
  <1> SUFFICES ASSUME TypeOK, [Next]_vars PROVE TypeOK'
    OBVIOUS
  <1> USE OwnersAssumption, LegacyAssumption, BoundsAssumption
  <1> USE DEF files, scan
  <1>1. CASE UNCHANGED vars
    BY <1>1 DEF TypeOK, vars
  <1>2. ASSUME NEW o \in Owners, Announce(o) PROVE TypeOK'
    <2>1. 0 \in 0 .. MaxTicket /\ "announced" \in Places
      BY DEF Places
    <2>2. {q \in registered : ticket[q] # 0} \in SUBSET Owners
      BY DEF TypeOK
    <2>3. /\ pc' \in [Owners -> Places] /\ ticket' \in [Owners -> 0 .. MaxTicket]
          /\ before' \in [Owners -> SUBSET Owners]
      BY <1>2, <2>1, <2>2 DEF TypeOK, Announce, Goto
    <2> QED
      BY <1>2, <2>3 DEF TypeOK, Announce
  <1>3. ASSUME NEW o \in Owners, Runs(o) PROVE TypeOK'
    <2>1. CASE List(o)
      BY <2>1 DEF TypeOK, List, At, Goto, Places
    <2>2. ASSUME NEW q \in todo[o], Read(o, q) PROVE TypeOK'
      <3>1. q \in Owners
        BY DEF TypeOK
      <3>2. ticket[q] \in 0 .. MaxTicket /\ highest[o] \in 0 .. MaxTicket
        BY <3>1 DEF TypeOK
      <3>3. todo' \in [Owners -> SUBSET Owners] /\ suspect' \in [Owners -> Owners \cup {NoOwner}]
            /\ found' \in [Owners -> 0 .. MaxTicket] /\ highest' \in [Owners -> 0 .. MaxTicket]
        BY <2>2, <3>1, <3>2 DEF TypeOK, Read
      <3>4. ownSeen' \in [Owners -> BOOLEAN] /\ blocked' \in [Owners -> BOOLEAN]
        BY <2>2, <3>1 DEF TypeOK, Read, Blocks
      <3> QED
        BY <2>2, <3>3, <3>4 DEF TypeOK, Read
    <2>3. CASE Recheck(o)
      BY <2>3 DEF TypeOK, Recheck
    <2>4. CASE Reclaim(o)
      BY <2>4 DEF TypeOK, Reclaim
    <2>5. CASE Publish(o)
      <3>1. TicketSpace(o) => NextTicket(o) \in 0 .. MaxTicket
        BY DEF TypeOK, TicketSpace, NextTicket
      <3>2. pc' \in [Owners -> Places] /\ ticket' \in [Owners -> 0 .. MaxTicket]
        BY <2>5, <3>1 DEF TypeOK, Publish, Goto, Places
      <3>3. registered' \subseteq Owners /\ aged' \subseteq Owners
        <4>1. registered' \subseteq registered \cup {o} /\ aged' \subseteq aged
          BY <2>5 DEF Publish
        <4>2. registered \subseteq Owners /\ aged \subseteq Owners
          BY DEF TypeOK
        <4> QED BY <2>5, <4>1, <4>2
      <3>4. UNCHANGED <<alive, markerAged, marker, legacy, scan, attempt, before>>
        BY <2>5 DEF Publish
      <3> QED
        BY <3>2, <3>3, <3>4 DEF TypeOK
    <2>6. CASE Judge(o)
      BY <2>6 DEF TypeOK, Judge, Retry, MayRetry, Goto, Places
    <2>7. CASE TakeMarker(o)
      BY <2>7 DEF TypeOK, TakeMarker, Goto, Places
    <2>8. CASE CheckMarker(o)
      BY <2>8 DEF TypeOK, CheckMarker, Retry, MayRetry, Goto, Places
    <2>9. CASE EndAction(o)
      BY <2>9 DEF TypeOK, EndAction, Goto, Places
    <2>10. CASE ReleaseMarker(o)
      BY <2>10 DEF TypeOK, ReleaseMarker, Goto, Places
    <2>11. CASE Leave(o)
      BY <2>11 DEF TypeOK, Leave, Goto, Places
    <2> QED
      BY <1>3, <2>1, <2>2, <2>3, <2>4, <2>5, <2>6, <2>7, <2>8, <2>9, <2>10, <2>11 DEF Runs
  <1>4. ASSUME NEW o \in Owners, Crash(o) PROVE TypeOK'
    BY <1>4 DEF TypeOK, Crash
  <1>5. CASE LeasePasses
    BY <1>5 DEF TypeOK, LeasePasses
  <1>6. CASE LegacyEnters
    BY <1>6 DEF TypeOK, LegacyEnters
  <1>7. CASE LegacyLeaves
    BY <1>7 DEF TypeOK, LegacyLeaves
  <1>8. CASE LegacyCrashes
    BY <1>8 DEF TypeOK, LegacyCrashes
  <1> QED
    BY <1>1, <1>2, <1>3, <1>4, <1>5, <1>6, <1>7, <1>8 DEF Next

\* Every reachable state of the lock is well typed; in particular no register is published
\* with a ticket above Number.MAX_SAFE_INTEGER.
THEOREM LockTypeCorrect == Spec => []TypeOK
  <1>1. Init => TypeOK
    BY TypeInit
  <1>2. TypeOK /\ [Next]_vars => TypeOK'
    BY TypeNext
  <1> QED
    BY <1>1, <1>2, PTL DEF Spec

-----------------------------------------------------------------------------
(* The register files *)

Holding == {"published", "waiting", "trying", "checking", "action", "releasing"}
Active == {"announced", "choosing"} \cup Holding

\* What the files say of the calls that made them.  Only dead owners are suspected, so only
\* dead owners lose their registers.
Registers ==
    /\ aged = {} /\ markerAged = FALSE
    /\ \A o \in Owners : suspect[o] # NoOwner => ~alive[suspect[o]]
    /\ \A o \in Owners : condemned[o] => suspect[o] # NoOwner
    /\ \A q \in Owners : pc[q] = "idle" => q \notin registered
    /\ \A q \in Owners : pc[q] \in {"announced", "choosing"} => ticket[q] = 0
    /\ \A q \in Owners : alive[q] /\ pc[q] \in Active => q \in registered
    /\ \A q \in Owners : pc[q] \in Holding => ticket[q] # 0

\* Initially no register is published.
LEMMA RegistersInit == Init => Registers
  BY DEF Init, Registers, Active, Holding

\* Every step keeps the registers of live owners in place.
LEMMA RegistersNext ==
  ASSUME ~LeaseExpires, TypeOK, Registers, [Next]_vars PROVE Registers'
  <1> USE OwnersAssumption DEF files, scan
  <1> USE DEF Active, Holding
  <1>1. CASE UNCHANGED vars
    BY <1>1 DEF Registers, vars
  <1>2. ASSUME NEW o \in Owners, Announce(o) PROVE Registers'
    BY <1>2 DEF TypeOK, Registers, Announce, At, Goto
  <1>3. ASSUME NEW o \in Owners, Runs(o) PROVE Registers'
    <2>1. CASE List(o)
      BY <2>1 DEF TypeOK, Registers, List, At, Goto
    <2>2. ASSUME NEW q \in todo[o], Read(o, q) PROVE Registers'
      <3>1. q \in Owners
        BY DEF TypeOK
      <3>2. suspect'[o] # NoOwner => ~alive[suspect'[o]]
        BY <2>2, <3>1 DEF TypeOK, Registers, Read, Reading, Abandoned
      <3>3. \A p \in Owners \ {o} : suspect'[p] = suspect[p]
        BY <2>2, <3>1 DEF TypeOK, Read
      <3>4. \A p \in Owners : condemned[p] => suspect'[p] # NoOwner
        BY <2>2, <3>1, <3>3 DEF TypeOK, Registers, Read, Reading
      <3> QED
        BY <2>2, <3>2, <3>3, <3>4 DEF Registers, Read
    <2>3. CASE Recheck(o)
      BY <2>3 DEF TypeOK, Registers, Recheck
    <2>4. CASE Reclaim(o)
      BY <2>4 DEF TypeOK, Registers, Reclaim
    <2>5. CASE Publish(o)
      <3>1. NextTicket(o) # 0
        BY DEF TypeOK, NextTicket
      <3> QED
        BY <2>5, <3>1 DEF TypeOK, Registers, Publish, Reading, At, Goto
    <2>6. CASE Judge(o)
      BY <2>6 DEF TypeOK, Registers, Judge, Retry, Reading, At, Goto
    <2>7. CASE TakeMarker(o)
      BY <2>7 DEF TypeOK, Registers, TakeMarker, At, Goto
    <2>8. CASE CheckMarker(o)
      BY <2>8 DEF TypeOK, Registers, CheckMarker, Retry, At, Goto
    <2>9. CASE EndAction(o)
      BY <2>9 DEF TypeOK, Registers, EndAction, At, Goto
    <2>10. CASE ReleaseMarker(o)
      BY <2>10 DEF TypeOK, Registers, ReleaseMarker, At, Goto
    <2>11. CASE Leave(o)
      BY <2>11 DEF TypeOK, Registers, Leave, At, Goto
    <2> QED
      BY <1>3, <2>1, <2>2, <2>3, <2>4, <2>5, <2>6, <2>7, <2>8, <2>9, <2>10, <2>11 DEF Runs
  <1>4. ASSUME NEW o \in Owners, Crash(o) PROVE Registers'
    BY <1>4 DEF TypeOK, Registers, Crash
  <1>5. CASE LeasePasses
    BY <1>5 DEF LeasePasses
  <1>6. CASE LegacyEnters
    BY <1>6 DEF Registers, LegacyEnters
  <1>7. CASE LegacyLeaves
    BY <1>7 DEF Registers, LegacyLeaves
  <1>8. CASE LegacyCrashes
    BY <1>8 DEF Registers, LegacyCrashes
  <1> QED
    BY <1>1, <1>2, <1>3, <1>4, <1>5, <1>6, <1>7, <1>8 DEF Next

-----------------------------------------------------------------------------
(* The marker *)

\* An action runs behind a marker, its own or one whose owner is dead, and a live version 1
\* owner is behind its own.
Fence ==
    /\ legacy = "in" => marker = Legacy
    /\ \A o \in Owners : At(o, "action") => marker = o \/ MarkerAbandoned
    /\ \A o \in Owners : At(o, "releasing") => marker = o

\* Initially there is no marker.
LEMMA FenceInit == Init => Fence
  BY DEF Init, Fence, At

\* Every step keeps the version 1 marker with its owner.
LEMMA FenceNext ==
  ASSUME ~LeaseExpires, TypeOK, Registers, Fence, [Next]_vars PROVE Fence'
  <1> USE OwnersAssumption, LegacyAssumption DEF files, scan, At
  <1> USE DEF MarkerAbandoned
  <1>1. CASE UNCHANGED vars
    BY <1>1 DEF Fence, vars
  <1>2. ASSUME NEW o \in Owners, Announce(o) PROVE Fence'
    BY <1>2 DEF TypeOK, Fence, Announce, Goto
  <1>3. ASSUME NEW o \in Owners, Runs(o) PROVE Fence'
    <2>1. CASE List(o)
      BY <2>1 DEF TypeOK, Fence, List, Goto
    <2>2. ASSUME NEW q \in todo[o], Read(o, q) PROVE Fence'
      <3>1. UNCHANGED <<pc, alive, marker, markerAged, legacy>>
        BY <2>2 DEF Read
      <3> QED
        BY <3>1 DEF Fence
    <2>3. CASE Recheck(o)
      BY <2>3 DEF Fence, Recheck
    <2>4. CASE Reclaim(o)
      BY <2>4 DEF Fence, Reclaim
    <2>5. CASE Publish(o)
      BY <2>5 DEF TypeOK, Fence, Publish, Goto
    <2>6. CASE Judge(o)
      BY <2>6 DEF TypeOK, Fence, Judge, Retry, Goto
    <2>7. CASE TakeMarker(o)
      BY <2>7 DEF TypeOK, Registers, Fence, TakeMarker, Goto
    <2>8. CASE CheckMarker(o)
      BY <2>8 DEF TypeOK, Fence, CheckMarker, Retry, Goto
    <2>9. CASE EndAction(o)
      BY <2>9 DEF TypeOK, Fence, EndAction, HoldsGuard, Goto
    <2>10. CASE ReleaseMarker(o)
      BY <2>10 DEF TypeOK, Registers, Fence, ReleaseMarker, Goto
    <2>11. CASE Leave(o)
      BY <2>11 DEF TypeOK, Fence, Leave, Goto
    <2> QED
      BY <1>3, <2>1, <2>2, <2>3, <2>4, <2>5, <2>6, <2>7, <2>8, <2>9, <2>10, <2>11 DEF Runs
  <1>4. ASSUME NEW o \in Owners, Crash(o) PROVE Fence'
    BY <1>4 DEF TypeOK, Fence, Crash
  <1>5. CASE LeasePasses
    BY <1>5 DEF LeasePasses
  <1>6. CASE LegacyEnters
    BY <1>6 DEF TypeOK, Registers, Fence, LegacyEnters
  <1>7. CASE LegacyLeaves
    BY <1>7 DEF TypeOK, Registers, Fence, LegacyLeaves
  <1>8. CASE LegacyCrashes
    BY <1>8 DEF TypeOK, Fence, LegacyCrashes
  <1> QED
    BY <1>1, <1>2, <1>3, <1>4, <1>5, <1>6, <1>7, <1>8 DEF Next

-----------------------------------------------------------------------------
(* The order of the calls *)

\* o, which has a ticket, goes before q: q will read o's register before it takes its own
\* ticket, has read it, or has a later place.
Behind(q, o) ==
    \/ pc[q] = "announced"
    \/ pc[q] = "choosing" /\ (o \in todo[q] \/ highest[q] >= ticket[o])
    \/ pc[q] \in Holding /\ HasPriority(o, q)

\* o has read q's entry in the scan it acts on, and was not blocked by it.
Passed(o, q) ==
    \/ pc[o] = "waiting" /\ q \notin todo[o] /\ ~blocked[o]
    \/ pc[o] \in {"trying", "checking", "action"}

\* Whoever o has passed is behind it or takes no part.
Order ==
    \A o, q \in Owners :
        o # q /\ alive[o] /\ alive[q] /\ Passed(o, q) => pc[q] \notin Active \/ Behind(q, o)

\* Who held a ticket when o announced itself goes before o.
Seniority ==
    \A o \in Owners : \A q \in before[o] :
        /\ pc[q] \notin {"idle", "announced", "choosing"}
        /\ pc[o] # "idle"
        /\ alive[o] /\ alive[q] /\ pc[o] \in Active /\ pc[q] \in Holding => Behind(o, q)

SafeInv == TypeOK /\ Registers /\ Fence /\ Order /\ Seniority

\* The step of the Bakery's argument: while both live, q remains behind o until q leaves.
LEMMA StaysBehind ==
  ASSUME ~LeaseExpires, TypeOK, Registers, [Next]_vars,
         NEW o \in Owners, NEW q \in Owners, o # q, alive'[o], alive'[q],
         pc[o] \in Holding, pc'[o] \in Holding, pc[q] \in Active, Behind(q, o)
  PROVE  pc'[q] \notin Active \/ Behind(q, o)'
  <1> USE OwnersAssumption DEF files, scan
  <1> USE DEF Active, Holding
  <1>0. /\ ticket[o] \in Nat /\ ticket[q] \in Nat /\ highest[q] \in Nat
        /\ pc \in [Owners -> Places] /\ todo \in [Owners -> SUBSET Owners] /\ MaxTicket \in Nat
    BY BoundsAssumption DEF TypeOK
  <1>a. ASSUME UNCHANGED <<pc, ticket, todo, highest>> PROVE Behind(q, o)'
    BY <1>a DEF Behind, HasPriority
  <1>1. CASE UNCHANGED vars
    BY <1>1, <1>a DEF vars
  <1>2. ASSUME NEW p \in Owners, Announce(p) PROVE pc'[q] \notin Active \/ Behind(q, o)'
    <2>1. p # o /\ p # q
      BY <1>2 DEF Announce, At
    <2> QED
      BY <1>2, <1>0, <2>1 DEF TypeOK, Behind, HasPriority, Announce, Goto
  <1>3. ASSUME NEW p \in Owners, Runs(p) PROVE pc'[q] \notin Active \/ Behind(q, o)'
    <2>1. CASE List(p)
      <3>1. o \in registered /\ o \in Owners
        <4>1. alive[o]
          BY <2>1 DEF List
        <4> QED
          BY <4>1 DEF Registers
      <3> QED
        BY <2>1, <1>0, <3>1 DEF TypeOK, Behind, HasPriority, List, At, Goto
    <2>2. ASSUME NEW r \in todo[p], Read(p, r) PROVE pc'[q] \notin Active \/ Behind(q, o)'
      <3>1. r \in Owners
        BY DEF TypeOK
      <3>2. UNCHANGED <<pc, alive, ticket, registered, aged>>
        BY <2>2 DEF Read
      <3>3. CASE p # q
        <4>1. todo'[q] = todo[q] /\ highest'[q] = highest[q]
          BY <2>2, <3>3 DEF TypeOK, Read
        <4> QED
          BY <3>2, <4>1 DEF Behind, HasPriority
      <3>4. CASE p = q /\ r # o
        <4>1. o \in todo[q] => o \in todo'[q]
          BY <2>2, <3>4 DEF TypeOK, Read
        <4>2. highest'[q] >= highest[q] /\ highest'[q] \in Nat
          <5>1. ticket[r] \in Nat
            BY <3>1, BoundsAssumption DEF TypeOK
          <5> QED
            BY <2>2, <3>4, <1>0, <5>1 DEF TypeOK, Read
        <4> QED
          BY <3>2, <4>1, <4>2, <1>0 DEF Behind, HasPriority
      <3>5. CASE p = q /\ r = o
        <4>1. o \in registered /\ ~Abandoned(o)
          BY <3>2 DEF Registers, Abandoned
        <4>2. highest'[q] >= ticket[o]
          BY <2>2, <3>5, <1>0, <4>1 DEF TypeOK, Read
        <4> QED
          BY <3>2, <4>2 DEF Behind, HasPriority
      <3> QED
        BY <3>3, <3>4, <3>5
    <2>3. CASE Recheck(p)
      BY <2>3, <1>a DEF Recheck
    <2>4. CASE Reclaim(p)
      BY <2>4, <1>a DEF Reclaim
    <2>5. CASE Publish(p)
      <3>1. pc[p] = "choosing" /\ todo[p] = {} /\ p # o
        BY <2>5 DEF Publish
      <3>2. CASE p = q
        <4>1. highest[q] >= ticket[o]
          BY <3>1, <3>2 DEF Behind
        <4>2. CASE TicketSpace(p)
          <5>1. pc'[q] = "published" /\ ticket'[q] = highest[q] + 1 /\ ticket'[o] = ticket[o]
            BY <2>5, <3>2, <4>2 DEF TypeOK, Publish, NextTicket, Goto
          <5> QED
            BY <5>1, <4>1, <1>0 DEF Behind, HasPriority
        <4>3. CASE ~TicketSpace(p)
          BY <2>5, <3>2, <4>3, <1>0 DEF Publish, Goto
        <4> QED
          BY <4>2, <4>3
      <3>3. CASE p # q
        <4>1. /\ pc'[q] = pc[q] /\ ticket'[q] = ticket[q] /\ ticket'[o] = ticket[o]
              /\ todo' = todo /\ highest' = highest
          BY <2>5, <3>1, <3>3 DEF TypeOK, Publish, Goto
        <4> QED
          BY <4>1 DEF Behind, HasPriority
      <3> QED
        BY <3>2, <3>3
    <2>6. CASE Judge(p)
      BY <2>6, <1>0 DEF Behind, HasPriority, Judge, Retry, Goto
    <2>7. CASE TakeMarker(p)
      BY <2>7, <1>0 DEF Behind, HasPriority, TakeMarker, At, Goto
    <2>8. CASE CheckMarker(p)
      BY <2>8, <1>0 DEF Behind, HasPriority, CheckMarker, Retry, At, Goto
    <2>9. CASE EndAction(p)
      BY <2>9, <1>0 DEF Behind, HasPriority, EndAction, At, Goto
    <2>10. CASE ReleaseMarker(p)
      BY <2>10, <1>0 DEF Behind, HasPriority, ReleaseMarker, At, Goto
    <2>11. CASE Leave(p)
      BY <2>11, <1>0 DEF Behind, HasPriority, Leave, At, Goto
    <2> QED
      BY <1>3, <2>1, <2>2, <2>3, <2>4, <2>5, <2>6, <2>7, <2>8, <2>9, <2>10, <2>11 DEF Runs
  <1>4. ASSUME NEW p \in Owners, Crash(p) PROVE Behind(q, o)'
    BY <1>4, <1>a DEF Crash
  <1>5. CASE LeasePasses
    BY <1>5 DEF LeasePasses
  <1>6. CASE LegacyEnters
    BY <1>6, <1>a DEF LegacyEnters
  <1>7. CASE LegacyLeaves
    BY <1>7, <1>a DEF LegacyLeaves
  <1>8. CASE LegacyCrashes
    BY <1>8, <1>a DEF LegacyCrashes
  <1> QED
    BY <1>1, <1>2, <1>3, <1>4, <1>5, <1>6, <1>7, <1>8 DEF Next

\* Every step keeps the owner that acts ahead of all others.
LEMMA OrderNext ==
  ASSUME ~LeaseExpires, TypeOK, Registers, Order, [Next]_vars PROVE Order'
  <1> SUFFICES ASSUME NEW o \in Owners, NEW q \in Owners, o # q, alive'[o], alive'[q],
                      Passed(o, q)', pc'[q] \in Active
               PROVE  Behind(q, o)'
    BY DEF Order
  <1> USE DEF files, scan
  <1> USE DEF Active, Holding
  <1>0. /\ ticket[o] \in Nat /\ ticket[q] \in Nat /\ highest[q] \in Nat /\ o \in Nat /\ q \in Nat
        /\ pc \in [Owners -> Places] /\ alive \in [Owners -> BOOLEAN]
    BY OwnersAssumption, BoundsAssumption DEF TypeOK
  \* o had passed q before the step, and q was active: the lemma.
  <1>a. ASSUME Passed(o, q), pc[q] \in Active, alive[o], alive[q] PROVE Behind(q, o)'
    <2>1. Behind(q, o)
      BY <1>a DEF Order
    <2>2. pc[o] \in Holding /\ pc'[o] \in Holding
      BY <1>a DEF Passed
    <2> QED
      BY <1>a, <2>1, <2>2, StaysBehind
  <1>1. CASE UNCHANGED vars
    BY <1>1, <1>a DEF vars, Passed
  <1>2. ASSUME NEW p \in Owners, Announce(p) PROVE Behind(q, o)'
    <2>1. CASE p = q
      BY <1>2, <1>0, <2>1 DEF Behind, Announce, Goto
    <2>2. CASE p # q
      <3>1. p # o
        BY <1>2, <1>0 DEF Passed, Announce, Goto
      <3>2. UNCHANGED <<pc[o], pc[q], alive, todo, blocked>>
        BY <1>2, <1>0, <2>2, <3>1 DEF Announce, Goto
      <3> QED
        BY <1>a, <3>2 DEF Passed
    <2> QED
      BY <2>1, <2>2
  <1>3. ASSUME NEW p \in Owners, Runs(p) PROVE Behind(q, o)'
    <2>1. CASE List(p)
      <3>1. CASE p = o
        <4>1. q \notin registered
          BY <2>1, <1>0, <3>1 DEF TypeOK, List, Passed, At, Goto
        <4>2. pc'[q] = pc[q] /\ alive[q]
          BY <2>1, <1>0, <3>1 DEF List, Goto
        <4> QED
          BY <4>1, <4>2 DEF Registers
      <3>2. CASE p # o
        <4>1. UNCHANGED <<pc[o], todo[o], blocked[o], alive>>
          BY <2>1, <1>0, <3>2 DEF TypeOK, List, Goto
        <4>2. pc[q] \in Active
          BY <2>1, <1>0 DEF List, At, Goto
        <4> QED
          BY <1>a, <4>1, <4>2 DEF Passed
      <3> QED
        BY <3>1, <3>2
    <2>2. ASSUME NEW r \in todo[p], Read(p, r) PROVE Behind(q, o)'
      <3>1. r \in Owners /\ UNCHANGED <<pc, alive, ticket, registered, aged>>
        BY <2>2 DEF TypeOK, Read
      <3>2. CASE p # o
        <4>1. UNCHANGED <<todo[o], blocked[o]>>
          BY <2>2, <3>2 DEF TypeOK, Read
        <4> QED
          BY <1>a, <3>1, <4>1 DEF Passed
      <3>3. CASE p = o /\ r # q
        <4>1. q \notin todo'[o] => q \notin todo[o]
          BY <2>2, <3>3 DEF TypeOK, Read
        <4>2. ~blocked'[o] => ~blocked[o]
          BY <2>2, <3>3 DEF TypeOK, Read
        <4> QED
          BY <1>a, <3>1, <4>1, <4>2 DEF Passed
      <3>4. CASE p = o /\ r = q
        <4>1. q \in registered /\ ~Abandoned(q)
          BY <3>1 DEF Registers, Abandoned
        <4>2. pc[o] = "waiting" /\ ~blocked'[o]
          BY <2>2, <3>1, <3>4 DEF Passed, Read, Reading, At
        <4>3. ~Blocks(q, o)
          BY <2>2, <3>4, <4>1, <4>2 DEF TypeOK, Read
        <4>4. pc[q] \in Holding /\ HasPriority(o, q)
          BY <1>0, <3>1, <4>3 DEF Registers, Blocks, HasPriority
        <4> QED
          BY <3>1, <4>4 DEF Behind, HasPriority
      <3> QED
        BY <3>2, <3>3, <3>4
    <2>3. CASE Recheck(p)
      <3>1. UNCHANGED <<pc, alive, todo>> /\ (~blocked'[o] => ~blocked[o])
        BY <2>3 DEF TypeOK, Recheck
      <3> QED
        BY <1>a, <3>1 DEF Passed
    <2>4. CASE Reclaim(p)
      BY <2>4, <1>a DEF Reclaim, Passed
    <2>5. CASE Publish(p)
      BY <2>5, <1>0, <1>a DEF Passed, Publish, Reading, At, Goto
    <2>6. CASE Judge(p)
      <3>1. UNCHANGED <<alive, todo, blocked>> /\ pc[q] \in Active
        BY <2>6, <1>0 DEF Judge, Retry, Goto
      <3>2. Passed(o, q)
        BY <2>6, <1>0, <3>1 DEF Passed, Judge, Retry, Goto
      <3> QED
        BY <1>a, <3>1, <3>2
    <2>7. CASE TakeMarker(p)
      BY <2>7, <1>0, <1>a DEF Passed, TakeMarker, At, Goto
    <2>8. CASE CheckMarker(p)
      BY <2>8, <1>0, <1>a DEF Passed, CheckMarker, Retry, At, Goto
    <2>9. CASE EndAction(p)
      BY <2>9, <1>0, <1>a DEF Passed, EndAction, At, Goto
    <2>10. CASE ReleaseMarker(p)
      BY <2>10, <1>0, <1>a DEF Passed, ReleaseMarker, At, Goto
    <2>11. CASE Leave(p)
      BY <2>11, <1>0, <1>a DEF Passed, Leave, At, Goto
    <2> QED
      BY <1>3, <2>1, <2>2, <2>3, <2>4, <2>5, <2>6, <2>7, <2>8, <2>9, <2>10, <2>11 DEF Runs
  <1>4. ASSUME NEW p \in Owners, Crash(p) PROVE Behind(q, o)'
    <2>1. alive[o] /\ alive[q]
      BY <1>4, <1>0 DEF Crash
    <2> QED
      BY <1>4, <1>a, <2>1 DEF Crash, Passed
  <1>5. CASE LeasePasses
    BY <1>5 DEF LeasePasses
  <1>6. CASE LegacyEnters
    BY <1>6, <1>a DEF LegacyEnters, Passed
  <1>7. CASE LegacyLeaves
    BY <1>7, <1>a DEF LegacyLeaves, Passed
  <1>8. CASE LegacyCrashes
    BY <1>8, <1>a DEF LegacyCrashes, Passed
  <1> QED
    BY <1>1, <1>2, <1>3, <1>4, <1>5, <1>6, <1>7, <1>8 DEF Next

\* Every step keeps an earlier arrival ahead of a later one.
LEMMA SeniorityNext ==
  ASSUME ~LeaseExpires, TypeOK, Registers, Seniority, [Next]_vars PROVE Seniority'
  <1> USE DEF files, scan
  <1> USE DEF Active, Holding
  <1>0. /\ pc \in [Owners -> Places] /\ before \in [Owners -> SUBSET Owners]
        /\ alive \in [Owners -> BOOLEAN]
    BY DEF TypeOK
  \* A call that did not announce itself in this step.
  <1>a. ASSUME NEW o \in Owners, NEW q \in before[o], q \in Owners,
               pc'[o] # "idle", pc'[q] \notin {"idle", "announced", "choosing"},
               alive'[o] => alive[o], alive'[q] => alive[q],
               pc'[q] \in Holding => pc[q] \in Holding, pc'[o] \in Active => pc[o] \in Active
        PROVE  /\ pc'[q] \notin {"idle", "announced", "choosing"} /\ pc'[o] # "idle"
               /\ alive'[o] /\ alive'[q] /\ pc'[o] \in Active /\ pc'[q] \in Holding
                    => Behind(o, q)'
    <2> SUFFICES ASSUME alive'[o], alive'[q], pc'[o] \in Active, pc'[q] \in Holding
                 PROVE  Behind(o, q)'
      BY <1>a
    <2>1. Behind(o, q)
      BY <1>a DEF Seniority
    <2>2. CASE o # q
      BY <1>a, <2>1, <2>2, StaysBehind
    <2>3. CASE o = q
      BY <1>a, <2>1, <2>3, OwnersAssumption, BoundsAssumption DEF TypeOK, Behind, HasPriority
    <2> QED
      BY <2>2, <2>3
  \* Every step but an announcement.
  <1>b. ASSUME before' = before,
               \A p \in Owners : /\ alive'[p] => alive[p]
                                 /\ pc[p] # "idle" => pc'[p] # "idle"
                                 /\ pc'[p] \in {"announced", "choosing"} =>
                                      pc[p] \in {"announced", "choosing"}
                                 /\ pc'[p] \in Active => pc[p] \in Active
        PROVE  Seniority'
    <2> SUFFICES ASSUME NEW o \in Owners, NEW q \in before[o]
                 PROVE  /\ pc'[q] \notin {"idle", "announced", "choosing"}
                        /\ pc'[o] # "idle"
                        /\ alive'[o] /\ alive'[q] /\ pc'[o] \in Active /\ pc'[q] \in Holding
                             => Behind(o, q)'
      BY <1>b DEF Seniority
    <2>1. q \in Owners /\ pc[q] \notin {"idle", "announced", "choosing"} /\ pc[o] # "idle"
      BY <1>0 DEF Seniority
    <2> QED
      BY <1>a, <1>b, <2>1
  <1>1. CASE UNCHANGED vars
    BY <1>1, <1>b DEF vars
  <1>2. ASSUME NEW p \in Owners, Announce(p) PROVE Seniority'
    <2> SUFFICES ASSUME NEW o \in Owners, NEW q \in before'[o]
                 PROVE  /\ pc'[q] \notin {"idle", "announced", "choosing"}
                        /\ pc'[o] # "idle"
                        /\ alive'[o] /\ alive'[q] /\ pc'[o] \in Active /\ pc'[q] \in Holding
                             => Behind(o, q)'
      BY DEF Seniority
    <2>1. CASE o = p
      <3>1. pc'[o] = "announced" /\ q \in registered /\ q \in Owners /\ ticket[q] # 0
        BY <1>2, <1>0, <2>1 DEF TypeOK, Announce, Goto
      <3>2. q # p /\ pc[q] \notin {"idle", "announced", "choosing"}
        BY <1>2, <3>1 DEF Registers, Announce, At
      <3>3. pc'[q] = pc[q]
        BY <1>2, <1>0, <3>1, <3>2 DEF Announce, Goto
      <3> QED
        BY <3>1, <3>2, <3>3 DEF Behind
    <2>2. CASE o # p
      <3>1. q \in before[o] /\ q \in Owners
        BY <1>2, <1>0, <2>2 DEF Announce
      <3>2. pc[q] \notin {"idle", "announced", "choosing"} /\ pc[o] # "idle"
        BY <3>1 DEF Seniority
      <3>3. q # p
        BY <1>2, <3>2 DEF Announce, At
      <3>4. pc'[q] = pc[q] /\ pc'[o] = pc[o] /\ alive' = alive
        BY <1>2, <1>0, <2>2, <3>1, <3>3 DEF Announce, Goto
      <3> QED
        BY <1>a, <3>1, <3>2, <3>4
    <2> QED
      BY <2>1, <2>2
  <1>3. ASSUME NEW p \in Owners, Runs(p) PROVE Seniority'
    <2>1. CASE List(p)
      BY <2>1, <1>0, <1>b DEF List, At, Goto
    <2>2. ASSUME NEW r \in todo[p], Read(p, r) PROVE Seniority'
      BY <2>2, <1>b DEF Read
    <2>3. CASE Recheck(p)
      BY <2>3, <1>b DEF Recheck
    <2>4. CASE Reclaim(p)
      BY <2>4, <1>b DEF Reclaim
    <2>5. CASE Publish(p)
      BY <2>5, <1>0, <1>b DEF Publish, Goto
    <2>6. CASE Judge(p)
      BY <2>6, <1>0, <1>b DEF Judge, Retry, Goto
    <2>7. CASE TakeMarker(p)
      BY <2>7, <1>0, <1>b DEF TakeMarker, At, Goto
    <2>8. CASE CheckMarker(p)
      BY <2>8, <1>0, <1>b DEF CheckMarker, Retry, At, Goto
    <2>9. CASE EndAction(p)
      BY <2>9, <1>0, <1>b DEF EndAction, At, Goto
    <2>10. CASE ReleaseMarker(p)
      BY <2>10, <1>0, <1>b DEF ReleaseMarker, At, Goto
    <2>11. CASE Leave(p)
      BY <2>11, <1>0, <1>b DEF Leave, At, Goto
    <2> QED
      BY <1>3, <2>1, <2>2, <2>3, <2>4, <2>5, <2>6, <2>7, <2>8, <2>9, <2>10, <2>11 DEF Runs
  <1>4. ASSUME NEW p \in Owners, Crash(p) PROVE Seniority'
    BY <1>4, <1>0, <1>b DEF Crash
  <1>5. CASE LeasePasses
    BY <1>5 DEF LeasePasses
  <1>6. CASE LegacyEnters
    BY <1>6, <1>b DEF LegacyEnters
  <1>7. CASE LegacyLeaves
    BY <1>7, <1>b DEF LegacyLeaves
  <1>8. CASE LegacyCrashes
    BY <1>8, <1>b DEF LegacyCrashes
  <1> QED
    BY <1>1, <1>2, <1>3, <1>4, <1>5, <1>6, <1>7, <1>8 DEF Next

-----------------------------------------------------------------------------
(* The theorems *)

\* The inductive invariant holds initially.
LEMMA SafeInvInit == Init => SafeInv
  <1> SUFFICES ASSUME Init PROVE SafeInv
    OBVIOUS
  <1>1. Order
    BY DEF Init, Order, Passed
  <1>2. Seniority
    BY DEF Init, Seniority
  <1> QED
    BY <1>1, <1>2, TypeInit, RegistersInit, FenceInit DEF SafeInv

\* It is preserved while no lease of a live owner expires.
LEMMA SafeInvNext ==
  ASSUME ~LeaseExpires PROVE SafeInv /\ [Next]_vars => SafeInv'
  BY TypeNext, RegistersNext, FenceNext, OrderNext, SeniorityNext DEF SafeInv

\* Two owners that act would each be ahead of the other.
LEMMA SafeInvExcludes == SafeInv => MutualExclusion
  <1> SUFFICES ASSUME SafeInv, NEW o \in Acting, NEW q \in Acting, o # q PROVE FALSE
    BY DEF MutualExclusion
  <1>1. /\ o \in Owners /\ q \in Owners /\ alive[o] /\ alive[q]
        /\ pc[o] = "action" /\ pc[q] = "action"
    BY DEF Acting, At
  <1>2. Behind(q, o) /\ Behind(o, q)
    BY <1>1 DEF SafeInv, Order, Passed, Active, Holding
  <1>3. HasPriority(o, q) /\ HasPriority(q, o)
    BY <1>1, <1>2 DEF Behind
  <1> QED
    BY <1>1, <1>3, OwnersAssumption, BoundsAssumption DEF SafeInv, TypeOK, HasPriority

\* An owner that acts is behind no earlier arrival.
LEMMA SafeInvOrders == SafeInv => FirstComeFirstServed
  <1> SUFFICES ASSUME SafeInv, NEW o \in Acting, NEW q \in before[o], alive[q],
                      pc[q] \notin {"leaving", "done"}
               PROVE  FALSE
    BY DEF FirstComeFirstServed
  <1>1. o \in Owners /\ q \in Owners /\ alive[o] /\ pc[o] = "action"
    BY DEF Acting, At, SafeInv, TypeOK
  <1>2. pc[q] \in Holding
    BY <1>1 DEF SafeInv, TypeOK, Places, Seniority, Holding
  <1>3. HasPriority(q, o)
    BY <1>1, <1>2 DEF SafeInv, Seniority, Active, Holding, Behind
  <1>4. o # q
    BY <1>1, <1>3, OwnersAssumption, BoundsAssumption DEF SafeInv, TypeOK, HasPriority
  <1>5. HasPriority(o, q)
    BY <1>1, <1>2, <1>4 DEF SafeInv, Order, Passed, Active, Holding, Behind
  <1> QED
    BY <1>1, <1>3, <1>5, OwnersAssumption, BoundsAssumption DEF SafeInv, TypeOK, HasPriority

\* An owner that acts holds the marker or has found it abandoned.
LEMMA SafeInvFences == SafeInv => LegacyExcluded
  <1> SUFFICES ASSUME SafeInv, legacy = "in", NEW o \in Acting PROVE FALSE
    BY DEF LegacyExcluded
  <1> QED
    BY OwnersAssumption, LegacyAssumption
    DEF SafeInv, Registers, Fence, Acting, At, MarkerAbandoned

\* No two live calls run their actions at the same time, for any number of calls, while no
\* live call stalls for the length of its lease.
THEOREM Exclusion == ASSUME ~LeaseExpires PROVE Spec => []MutualExclusion
  <1>1. Init => SafeInv
    BY SafeInvInit
  <1>2. SafeInv /\ [Next]_vars => SafeInv'
    BY SafeInvNext
  <1>3. SafeInv => MutualExclusion
    BY SafeInvExcludes
  <1> QED
    BY <1>1, <1>2, <1>3, PTL DEF Spec

\* The actions run in the order of arrival: a call that held its ticket when another
\* announced itself has ended, or died, when the other acts.
THEOREM Arrival == ASSUME ~LeaseExpires PROVE Spec => []FirstComeFirstServed
  <1>1. Init => SafeInv
    BY SafeInvInit
  <1>2. SafeInv /\ [Next]_vars => SafeInv'
    BY SafeInvNext
  <1>3. SafeInv => FirstComeFirstServed
    BY SafeInvOrders
  <1> QED
    BY <1>1, <1>2, <1>3, PTL DEF Spec

\* A live version 1 owner and an action never overlap, although a dead owner's marker is
\* left in place and passed.
THEOREM LegacyFenced == ASSUME ~LeaseExpires PROVE Spec => []LegacyExcluded
  <1>1. Init => SafeInv
    BY SafeInvInit
  <1>2. SafeInv /\ [Next]_vars => SafeInv'
    BY SafeInvNext
  <1>3. SafeInv => LegacyExcluded
    BY SafeInvFences
  <1> QED
    BY <1>1, <1>2, <1>3, PTL DEF Spec

-----------------------------------------------------------------------------
(* The marker of version 1, with leases that may expire *)

\* Who removes the marker still has it: releaseLegacyCompatibilityGuard is reached only
\* by the owner of the file, and a version 1 owner never loses its own.
Guards ==
    /\ pc \in [Owners -> Places]
    /\ \A o \in Owners : pc[o] = "releasing" => marker = o
    /\ legacy = "in" => marker = Legacy

\* Nobody releases a marker before it was taken.
LEMMA GuardsInit == Init => Guards
  BY DEF Init, Guards, Places

\* No step takes the marker from the owner that is about to remove it.
LEMMA GuardsNext == Guards /\ [Next]_vars => Guards'
  <1> SUFFICES ASSUME Guards, [Next]_vars PROVE Guards'
    OBVIOUS
  <1> USE OwnersAssumption, LegacyAssumption
  <1>1. CASE UNCHANGED vars
    BY <1>1 DEF Guards, vars, files
  <1>2. ASSUME NEW o \in Owners, Announce(o) PROVE Guards'
    BY <1>2 DEF Guards, Announce, Goto, Places
  <1>3. ASSUME NEW o \in Owners, Runs(o) PROVE Guards'
    <2>1. CASE List(o) \/ (\E q \in todo[o] : Read(o, q)) \/ Recheck(o) \/ Reclaim(o)
      BY <2>1 DEF Guards, List, Read, Recheck, Reclaim, Goto, files, Places
    <2>2. CASE Publish(o)
      BY <2>2 DEF Guards, Publish, Goto, Places
    <2>3. CASE Judge(o)
      BY <2>3 DEF Guards, Judge, Retry, Goto, files, Places
    <2>4. CASE TakeMarker(o)
      BY <2>4 DEF Guards, TakeMarker, Goto, Places
    <2>5. CASE CheckMarker(o)
      BY <2>5 DEF Guards, CheckMarker, Retry, Goto, files, Places
    <2>6. CASE EndAction(o)
      BY <2>6 DEF Guards, EndAction, HoldsGuard, Goto, files, Places
    <2>7. CASE ReleaseMarker(o)
      BY <2>7 DEF Guards, ReleaseMarker, At, Goto, Places
    <2>8. CASE Leave(o)
      BY <2>8 DEF Guards, Leave, Goto, Places
    <2> QED
      BY <1>3, <2>1, <2>2, <2>3, <2>4, <2>5, <2>6, <2>7, <2>8 DEF Runs
  <1>4. ASSUME NEW o \in Owners, Crash(o) PROVE Guards'
    BY <1>4 DEF Guards, Crash, files
  <1>5. CASE LeasePasses
    BY <1>5 DEF Guards, LeasePasses
  <1>6. CASE LegacyEnters \/ LegacyLeaves \/ LegacyCrashes
    BY <1>6 DEF Guards, LegacyEnters, LegacyLeaves, LegacyCrashes, files
  <1> QED
    BY <1>1, <1>2, <1>3, <1>4, <1>5, <1>6 DEF Next

\* Who changes the marker either finds none or lives: an abandoned one is not touched.
LEMMA FenceUntouched ==
    Guards /\ [Next]_vars => [MarkerAbandoned /\ ~markerAged => marker' = marker]_vars
  <1> SUFFICES ASSUME Guards, Next, MarkerAbandoned, ~markerAged PROVE marker' = marker
    OBVIOUS
  <1> USE OwnersAssumption, LegacyAssumption
  <1>1. marker # NoOwner
    BY DEF MarkerAbandoned
  <1>2. ASSUME NEW o \in Owners, Announce(o) \/ Crash(o) PROVE marker' = marker
    BY <1>2 DEF Announce, Crash, files
  <1>3. ASSUME NEW o \in Owners, Runs(o) PROVE marker' = marker
    <2>1. CASE TakeMarker(o)
      BY <1>1, <2>1 DEF TakeMarker
    <2>2. CASE ReleaseMarker(o)
      <3>1. marker = o /\ alive[o]
        BY <2>2 DEF Guards, ReleaseMarker, At
      <3> QED
        BY <3>1 DEF MarkerAbandoned
    <2>3. CASE List(o) \/ (\E q \in todo[o] : Read(o, q)) \/ Recheck(o) \/ Reclaim(o)
               \/ Publish(o) \/ Judge(o) \/ CheckMarker(o) \/ EndAction(o) \/ Leave(o)
      BY <2>3 DEF List, Read, Recheck, Reclaim, Publish, Judge, CheckMarker, EndAction,
         Leave, files
    <2> QED
      BY <1>3, <2>1, <2>2, <2>3 DEF Runs
  <1>4. CASE LeasePasses
    BY <1>4 DEF LeasePasses
  <1>5. CASE LegacyEnters
    BY <1>1, <1>5 DEF LegacyEnters
  <1>6. CASE LegacyLeaves
    BY <1>6 DEF Guards, LegacyLeaves, MarkerAbandoned
  <1>7. CASE LegacyCrashes
    BY <1>7 DEF LegacyCrashes, files
  <1> QED
    BY <1>2, <1>3, <1>4, <1>5, <1>6, <1>7 DEF Next

\* An abandoned version 1 marker is never removed by this protocol, even when live calls
\* stall past their lease and their own markers are passed.
THEOREM FencePassive == Spec => FenceStays
  <1>1. Init => Guards
    BY GuardsInit
  <1>2. Guards /\ [Next]_vars => Guards'
    BY GuardsNext
  <1>3. Guards /\ [Next]_vars => [MarkerAbandoned /\ ~markerAged => marker' = marker]_vars
    BY FenceUntouched
  <1> QED
    BY <1>1, <1>2, <1>3, PTL DEF Spec, FenceStays

============================================================================
