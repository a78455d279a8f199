------------------------- MODULE StartupConnection -------------------------
(***************************************************************************)
(* The Hosts that Codex Desktop starts as its CLI                            *)
(* (packages/host-runtime/src/startup-connection.ts): each waits for the     *)
(* mapping store of the one before it, tells the menu bar where it listens   *)
(* in startup-session.json, and takes that file away when it ends.  Desktop  *)
(* may start the next Host while the last one still closes its Sessions.     *)
(* The store itself is the subject of MappingStore; here one process takes   *)
(* it at a time, so that two never start over the lock of a dead one.        *)
(***************************************************************************)
EXTENDS Naturals, FiniteSets

CONSTANTS
  StartupHosts,      \* the processes Desktop starts; the token of each is its own
  NoFile, NoHost

ASSUME StartupAssumption ==
  NoFile \notin StartupHosts /\ NoHost \notin StartupHosts

VARIABLES
  startup,     \* where each Host is
  storeOf,     \* who holds the lock of the mapping store
  sessionFile, \* startup-session.json: the Host whose socket and token it has
  menuBar      \* the Host the menu bar asks, once it has read the file

startupVars == <<startup, storeOf, sessionFile, menuBar>>

\* "temp": the temporary file is written; "ends": run has begun to end; "released": run
\* has ended and closed the store; "failed": the Host has not come to run; "removes": it
\* has read its own token in the file
Listening == {"listens", "temp", "runs", "ends", "released", "failed"}

StartupTypeOK ==
  /\ startup \in [StartupHosts -> Listening \union {"new", "waits", "opened", "removes", "gone"}]
  /\ storeOf \in StartupHosts \union {NoHost}
  /\ sessionFile \in StartupHosts \union {NoFile}
  /\ menuBar \in StartupHosts \union {NoHost}

InitStartup ==
  /\ startup = [h \in StartupHosts |-> "new"]
  /\ storeOf = NoHost /\ sessionFile = NoFile /\ menuBar = NoHost

Moves(h, from, to) == startup[h] = from /\ startup' = [startup EXCEPT ![h] = to]

\* Desktop starts a Host.
StartsHost(h) == Moves(h, "new", "waits") /\ UNCHANGED <<storeOf, sessionFile, menuBar>>

\* initialize succeeds when nobody holds the store, or only a process that is gone.
Free == storeOf \in {NoHost} \union {g \in StartupHosts : startup[g] = "gone"}
\* As it would be if a Host went on without the store when its time is up
OpensStoreOrNot(h) ==
  /\ Moves(h, "waits", "opened")
  /\ storeOf' = (IF Free THEN h ELSE storeOf) /\ UNCHANGED <<sessionFile, menuBar>>

OpensStore(h) ==
  /\ Free /\ Moves(h, "waits", "opened")
  /\ storeOf' = h /\ UNCHANGED <<sessionFile, menuBar>>

\* Ten seconds are over, and the store is still locked.
GivesUp(h) == ~Free /\ Moves(h, "waits", "gone") /\ UNCHANGED <<storeOf, sessionFile, menuBar>>

\* What precedes the socket fails; the store is closed.
Releases(h) == storeOf' = IF storeOf = h THEN NoHost ELSE storeOf
PreparationFails(h) == Moves(h, "opened", "gone") /\ Releases(h) /\ UNCHANGED <<sessionFile, menuBar>>

Listens(h) == Moves(h, "opened", "listens") /\ UNCHANGED <<storeOf, sessionFile, menuBar>>
WritesTemporary(h) == Moves(h, "listens", "temp") /\ UNCHANGED <<storeOf, sessionFile, menuBar>>
Publishes(h) ==
  /\ Moves(h, "temp", "runs") /\ sessionFile' = h
  /\ UNCHANGED <<storeOf, menuBar>>

\* Writing or renaming the file fails: the Host ends without having run, and keeps the
\* store until the end.
PublishingFails(h) ==
  /\ startup[h] \in {"listens", "temp"} /\ startup' = [startup EXCEPT ![h] = "failed"]
  /\ UNCHANGED <<storeOf, sessionFile, menuBar>>

\* Desktop closes stdin, or a signal comes: run drains and closes the Sessions, then the
\* store.
RunEnds(h) == Moves(h, "runs", "ends") /\ UNCHANGED <<storeOf, sessionFile, menuBar>>
ClosesStore(h) == Moves(h, "ends", "released") /\ Releases(h) /\ UNCHANGED <<sessionFile, menuBar>>

\* The control server has closed, which takes no longer than its last connection, and
\* the file is read.
ReadsFile(h) ==
  /\ startup[h] \in {"released", "failed"} /\ menuBar # h
  /\ IF sessionFile = h
       THEN startup' = [startup EXCEPT ![h] = "removes"] /\ UNCHANGED storeOf
       ELSE startup' = [startup EXCEPT ![h] = "gone"] /\ Releases(h)
  /\ UNCHANGED <<sessionFile, menuBar>>

\* It is removed by its path, whoever has written it by now.
RemovesFile(h) ==
  /\ Moves(h, "removes", "gone") /\ Releases(h)
  /\ sessionFile' = NoFile /\ UNCHANGED menuBar

\* A Host is killed anywhere.
HostDies(h) ==
  /\ startup[h] \notin {"new", "gone"} /\ startup' = [startup EXCEPT ![h] = "gone"]
  /\ menuBar' = (IF menuBar = h THEN NoHost ELSE menuBar)
  /\ UNCHANGED <<storeOf, sessionFile>>

\* A request of the menu bar connects to the Host of the file, if it listens; the answer,
\* the time limit of either side or the end of the Host ends it.
MenuBarAsks ==
  /\ menuBar = NoHost /\ sessionFile # NoFile /\ startup[sessionFile] \in Listening
  /\ menuBar' = sessionFile /\ UNCHANGED <<startup, storeOf, sessionFile>>
MenuBarAnswered ==
  /\ menuBar # NoHost /\ menuBar' = NoHost /\ UNCHANGED <<startup, storeOf, sessionFile>>

NextStartup ==
  \/ \E h \in StartupHosts :
       \/ StartsHost(h) \/ OpensStore(h) \/ GivesUp(h) \/ PreparationFails(h)
       \/ Listens(h) \/ WritesTemporary(h) \/ Publishes(h) \/ PublishingFails(h)
       \/ RunEnds(h) \/ ClosesStore(h) \/ ReadsFile(h) \/ RemovesFile(h) \/ HostDies(h)
  \/ MenuBarAsks \/ MenuBarAnswered

StartupSpec == InitStartup /\ [][NextStartup]_startupVars

(***************************************************************************)
(* Properties                                                              *)
(***************************************************************************)
\* While a Host runs, the file names no other: the menu bar never shows the state of one
\* that still closes its Sessions, nor changes the settings of that one.
NoOtherHostIsFound == \A h \in StartupHosts : startup[h] = "runs" => sessionFile \in {h, NoFile}

\* The menu bar can ask the Host that runs.  Fails: a Host that has read its own token in
\* the file removes it by its path, also when the next has published its own meanwhile.
RunningHostIsFound == \A h \in StartupHosts : startup[h] = "runs" => sessionFile = h
=============================================================================
