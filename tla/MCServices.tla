------------------------------ MODULE MCServices ------------------------------
(***************************************************************************)
(* Instances of the components around the Sessions, side by side: those that *)
(* keep files another process, or a later run, depends on (the lock of the   *)
(* remote socket, the mapping store, the Remote Host's install and listener, *)
(* the file by which the menu bar finds a Host, the reservation of a Claude  *)
(* Session, the broker agent of macOS), and the usage and the Desktop tools  *)
(* of one Session.  A behaviour is one of the component that part names.     *)
(***************************************************************************)
EXTENDS RemoteSocketLock, MappingStore, RemoteInstall, RemoteLifecycle, StartupConnection,
        PendingSession, BrokerAgent, SessionUsage, DesktopTools

VARIABLE part

servicesVars == <<part, vars, storeVars, installVars, remoteVars, startupVars,
                  pendingVars, agentVars, usageVars, toolVars>>

InitServices ==
    /\ part \in {"lock", "store", "install", "remote", "startup",
                 "pending", "agent", "usage", "tools"}
    /\ Init /\ InitStore /\ InitInstall /\ InitRemote /\ InitStartup
    /\ InitPending /\ InitAgent /\ InitUsage /\ InitTools
    \* One initial state of the components that do not move.
    /\ part = "install" \/ ~oldInstall
    /\ \/ part = "remote"
       \/ socket = NoListener /\ \A c \in Commands : command[c].op = "start"
    /\ part = "agent" \/ ~old.file
    /\ part = "tools" \/ ~brokered

NextServices ==
    /\ UNCHANGED part
    /\ IF part = "lock" THEN Next ELSE UNCHANGED vars
    /\ IF part = "store" THEN NextStore ELSE UNCHANGED storeVars
    /\ IF part = "install" THEN NextInstall ELSE UNCHANGED installVars
    /\ IF part = "remote" THEN NextRemote ELSE UNCHANGED remoteVars
    /\ IF part = "startup" THEN NextStartup ELSE UNCHANGED startupVars
    /\ IF part = "pending" THEN NextPending ELSE UNCHANGED pendingVars
    /\ IF part = "agent" THEN NextAgent ELSE UNCHANGED agentVars
    /\ IF part = "usage" THEN NextUsage ELSE UNCHANGED usageVars
    /\ IF part = "tools" THEN NextTools ELSE UNCHANGED toolVars

ServicesSpec ==
    /\ InitServices /\ [][NextServices]_servicesVars
    /\ \A o \in Owners : WF_vars(part = "lock" /\ Runs(o))
=============================================================================
