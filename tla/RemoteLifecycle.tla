-------------------------- MODULE RemoteLifecycle ---------------------------
(***************************************************************************)
(* Starting and stopping the Remote Host of an SSH machine                   *)
(* (packages/host-runtime/src/remote-host-lifecycle.ts), the terminator and  *)
(* the detaching launcher of the Shim (crates/shim/src/remote_lifecycle.rs,  *)
(* crates/shim/src/lib.rs), and the socket file of the listener they manage  *)
(* (remote-app-server.ts).  Commands of several shells, the wrapper Desktop  *)
(* runs over SSH, stock Codex and a crash of any listener interleave.        *)
(*                                                                          *)
(* The lock around binding and unlinking the socket is the module           *)
(* RemoteSocketLock; here it is what that module shows it to be, a mutex a   *)
(* dead holder gives back.  The installation is ready: the manifest's paths  *)
(* exist.                                                                   *)
(***************************************************************************)
EXTENDS Naturals, FiniteSets

CONSTANTS
    Commands,   \* runs of `remote start` and `remote stop`
    Listeners,  \* processes that may listen on the socket
    Stock,      \* those of them that are the official Codex CLI
    MaxCrashes, \* bound: listeners killed from outside
    NoListener

ASSUME ListenersAssumption == Stock \subseteq Listeners /\ NoListener \notin Listeners
ASSUME CrashesAssumption == MaxCrashes \in Nat

VARIABLES
    command,    \* the command: what it does, where it is, the listener it found
    process,    \* the life of each listener
    listening,  \* listeners whose server accepts connections
    socket,     \* the listener that created the socket file, or NoListener: no file
    lock,       \* the holder of the socket initialization lock
    signalled,  \* listeners sent SIGTERM
    crashes

remoteVars == <<command, process, listening, socket, lock, signalled, crashes>>

Lives == {"unborn", "starting", "binding", "bound", "closing", "closed", "dead"}
Ops == {"start", "stop"}
CommandPlaces == {"probe", "terminate", "terminating", "launch", "wait", "done", "failed"}

RemoteTypeOK ==
    /\ command \in [Commands -> [op : Ops, at : CommandPlaces,
                                 target : Listeners \cup {NoListener}]]
    /\ process \in [Listeners -> Lives]
    /\ listening \subseteq Listeners /\ signalled \subseteq Listeners
    /\ socket \in Listeners \cup {NoListener} /\ lock \in Listeners \cup {NoListener}
    /\ crashes \in 0 .. MaxCrashes

\* Nothing runs, or stock Codex already listens.
InitRemote ==
    /\ command \in [Commands -> [op : Ops, at : {"probe"}, target : {NoListener}]]
    /\ \/ process = [l \in Listeners |-> "unborn"] /\ socket = NoListener
       \/ \E s \in Stock : /\ process = [l \in Listeners |-> IF l = s THEN "bound" ELSE "unborn"]
                           /\ socket = s
    /\ listening = {socket} \ {NoListener}
    /\ lock = NoListener /\ signalled = {} /\ crashes = 0

Alive == {l \in Listeners : process[l] \notin {"unborn", "dead"}}
Go(c, at) == command' = [command EXCEPT ![c].at = at]
Become(l, life) == process' = [process EXCEPT ![l] = life]

\* classifyRemoteHostProbeResponse over the socket, directly and then through stock Codex.
\* A listener that is slow to answer, and a socket nobody accepts on, are "unknown".
Probes ==
    IF socket = NoListener THEN {"stopped"}
    ELSE IF socket \notin listening THEN {"unknown"}
    ELSE {"unknown", IF socket \in Stock THEN "conflict" ELSE "running"}

\* startRemoteHost, stopRemoteHost: the first probe.
StartProbed(c) ==
    /\ command[c].op = "start" /\ command[c].at = "probe"
    /\ \E status \in Probes :
           Go(c, CASE status = "running" -> "done"
                   [] status = "stopped" -> "launch"
                   [] OTHER -> "terminate")
    /\ UNCHANGED <<process, listening, socket, lock, signalled, crashes>>

StopProbed(c) ==
    /\ command[c].op = "stop" /\ command[c].at = "probe"
    /\ \E status \in Probes :
           Go(c, CASE status = "stopped" -> "done"
                   [] status = "running" -> "terminate"
                   [] OTHER -> "failed")
    /\ UNCHANGED <<process, listening, socket, lock, signalled, crashes>>

\* socket_owner_process_ids and matching_roots: the process that holds the socket open must be
\* the listener of the role asked for, or nothing is signalled.
OwnsSocket(l) == l = socket /\ l \in Alive
MatchesRole(op, l) == (op = "start") = (l \in Stock)
RootFor(op) == {l \in Listeners : OwnsSocket(l) /\ MatchesRole(op, l)}

\* run_terminate and terminate_tree: SIGTERM to the tree found.
Terminate(c) ==
    /\ command[c].at = "terminate"
    /\ IF RootFor(command[c].op) = {} THEN Go(c, "failed") /\ UNCHANGED signalled
       ELSE \E l \in RootFor(command[c].op) :
                /\ command' = [command EXCEPT ![c].at = "terminating", ![c].target = l]
                /\ signalled' = signalled \cup {l}
    /\ UNCHANGED <<process, listening, socket, lock, crashes>>

\* ... and SIGKILL to what is still alive STOP_TIMEOUT later.
ForceTerminate(c) ==
    /\ command[c].at = "terminating" /\ process[command[c].target] # "dead"
    /\ LET l == command[c].target
       IN  /\ Become(l, "dead") /\ listening' = listening \ {l}
           /\ lock' = IF lock = l THEN NoListener ELSE lock
    /\ UNCHANGED <<command, socket, signalled, crashes>>

Terminated(c) ==
    /\ command[c].at = "terminating" /\ process[command[c].target] = "dead"
    /\ Go(c, IF command[c].op = "start" THEN "launch" ELSE "wait")
    /\ UNCHANGED <<process, listening, socket, lock, signalled, crashes>>

\* existing_listener_is_reusable: a file without an owner is no obstacle, an owner of the
\* installed runtime is used, any other refuses the launch.
Reusable == OwnsSocket(socket) /\ socket \notin Stock
Refused == OwnsSocket(socket) /\ socket \in Stock

\* launch_detached_remote_listener, run by defaultLaunch or by Desktop over SSH: a listener
\* process of its own unless there is one to reuse.
SpawnListener ==
    IF Reusable \/ Refused THEN UNCHANGED process
    ELSE \E l \in Listeners \ Stock : process[l] = "unborn" /\ Become(l, "starting")

Launch(c) ==
    /\ command[c].at = "launch" /\ SpawnListener /\ Go(c, "wait")
    /\ UNCHANGED <<listening, socket, lock, signalled, crashes>>

DesktopLaunch ==
    /\ SpawnListener /\ UNCHANGED <<command, listening, socket, lock, signalled, crashes>>

\* launch_detached_remote_listener gives its child up, defaultWaitForRuntime the start.
LauncherGivesUp(l) ==
    /\ process[l] \in {"starting", "binding", "bound"} /\ l \notin Stock
    /\ l # socket \/ l \notin listening
    /\ signalled' = signalled \cup {l}
    /\ UNCHANGED <<command, process, listening, socket, lock, crashes>>

Waited(c) ==
    /\ command[c].at = "wait"
    /\ \/ /\ IF command[c].op = "start" THEN "running" \in Probes ELSE socket = NoListener
          /\ Go(c, "done")
       \/ Go(c, "failed")
    /\ UNCHANGED <<process, listening, socket, lock, signalled, crashes>>

\* listen: under the lock, removeStaleSocket refuses a socket that accepts a connection and
\* removes any other, then bind creates the file.
InUse == socket \in listening

RemoveStaleSocket(l) ==
    /\ process[l] = "starting" /\ lock = NoListener /\ l \notin signalled
    /\ IF InUse THEN Become(l, "dead") /\ UNCHANGED <<socket, lock>>
       ELSE Become(l, "binding") /\ socket' = NoListener /\ lock' = l
    /\ UNCHANGED <<command, listening, signalled, crashes>>

Bind(l) ==
    /\ process[l] = "binding" /\ lock = l /\ lock' = NoListener
    /\ IF socket # NoListener THEN Become(l, "dead") /\ UNCHANGED <<socket, listening>>
       ELSE Become(l, "bound") /\ socket' = l /\ listening' = listening \cup {l}
    /\ UNCHANGED <<command, signalled, crashes>>

\* close: the sessions end and the lock is awaited; under it the server stops accepting, and
\* Node unlinks the path whatever file is there.  A listener told to stop before it is bound
\* leaves without a file of its own.
Close(l) ==
    /\ l \in signalled /\ l \notin Stock
    /\ \/ process[l] = "starting" /\ Become(l, "dead")
       \/ process[l] = "bound" /\ Become(l, "closing")
    /\ UNCHANGED <<command, listening, socket, lock, signalled, crashes>>

CloseServerUnlocked(l) ==
    /\ process[l] = "closing" /\ UNCHANGED lock
    /\ Become(l, "closed") /\ listening' = listening \ {l}
    /\ UNCHANGED <<command, socket, signalled, crashes>>

CloseServer(l) ==
    /\ process[l] = "closing" /\ lock = NoListener /\ lock' = l
    /\ Become(l, "closed") /\ listening' = listening \ {l}
    /\ UNCHANGED <<command, socket, signalled, crashes>>

UnlinkSocket(l) ==
    /\ process[l] = "closed"
    /\ socket' = NoListener /\ Become(l, "dead")
    /\ lock' = IF lock = l THEN NoListener ELSE lock
    /\ UNCHANGED <<command, listening, signalled, crashes>>

\* External: stock Codex takes a path that is free, and ends with or without unlinking it.
StockListens(s) ==
    /\ s \in Stock /\ process[s] = "unborn" /\ socket = NoListener
    /\ Become(s, "bound") /\ socket' = s /\ listening' = listening \cup {s}
    /\ UNCHANGED <<command, lock, signalled, crashes>>

StockEnds(s) ==
    /\ s \in Stock /\ s \in signalled /\ process[s] = "bound"
    /\ Become(s, "dead") /\ listening' = listening \ {s}
    /\ socket' \in {socket, NoListener}
    /\ UNCHANGED <<command, lock, signalled, crashes>>

\* A listener is killed, or the machine restarts, and its socket file stays.
ListenerDies(l) ==
    /\ l \in Alive /\ crashes < MaxCrashes /\ crashes' = crashes + 1
    /\ Become(l, "dead") /\ listening' = listening \ {l}
    /\ lock' = IF lock = l THEN NoListener ELSE lock
    /\ UNCHANGED <<command, socket, signalled>>

NextRemote ==
    \/ \E c \in Commands : \/ StartProbed(c) \/ StopProbed(c) \/ Terminate(c) \/ ForceTerminate(c)
                           \/ Terminated(c) \/ Launch(c) \/ Waited(c)
    \/ \E l \in Listeners : \/ LauncherGivesUp(l) \/ RemoveStaleSocket(l) \/ Bind(l) \/ Close(l)
                            \/ CloseServer(l) \/ UnlinkSocket(l) \/ ListenerDies(l)
                            \/ StockListens(l) \/ StockEnds(l)
    \/ DesktopLaunch

RemoteSpec == InitRemote /\ [][NextRemote]_remoteVars

(***************************************************************************)
(* Properties                                                               *)
(***************************************************************************)

\* A listener that accepts connections is the one the socket path leads to: no close of an
\* earlier listener, no stale-socket removal and no replacement takes the path away from it
\* (remote-app-server.ts:479-490).
BoundIsReachable == \A l \in listening : process[l] \in {"bound", "closing"} => socket = l

\* The managed listener ends only by a signal from a stop, from its own launcher or from outside:
\* a start never takes down a managed Host, also one too slow to answer its probe
\* (remote-host-lifecycle.ts:389-390 with remote_lifecycle.rs:365-385).
StartSparesManaged ==
    \A c \in Commands : command[c].op = "start" /\ command[c].target # NoListener
                            => command[c].target \in Stock

\* A start that fails before it launched found a living process behind the socket.
StartFailsBehindAnOwner ==
    [][\A c \in Commands :
          command[c].op = "start" /\ command[c].at = "terminate" /\ command'[c].at = "failed"
              => OwnsSocket(socket)]_remoteVars
=============================================================================
