---------------------------- MODULE ThreadRecords ----------------------------
(* The record of a Thread and the operations that rewrite it: the Turns the  *)
(* output consumer persists, the refresh that aligns the record with the     *)
(* Session's history, fork and rollback (external-thread-fork.ts,            *)
(* external-thread-rollback.ts, external-thread-repository.ts) over the      *)
(* serialized writes of the Mapping Store (mapping-store.ts).  A Native Turn *)
(* is a key in the history of a Native Session; a fork copies the history    *)
(* under a new Session.  The Desktop's requests on one Thread are handled    *)
(* one at a time (DesktopRequestQueue); Turns of other Threads, and the      *)
(* Turns a Session opens on its own, go on meanwhile.                        *)
EXTENDS Naturals, Sequences, FiniteSets, SequencesExt

CONSTANTS
  Root, Derived,      \* a Thread and the Thread that is forked from it
  MaxSessions,        \* bound: Native Sessions opened in one run
  MaxTurns,           \* bound: Turns completed in one run
  MaxHosts            \* bound: Host Turn ids given out when a refresh gives out the last

ASSUME RecordsAssumption ==
  /\ Root # Derived
  /\ MaxSessions \in Nat /\ MaxTurns \in Nat /\ MaxHosts \in Nat

VARIABLES
  record,      \* the stored record of each Thread
  history,     \* the Turn keys in each Native Session, oldest first
  openSessions, \* the Native Sessions a process holds open
  loaded,      \* the Host's Thread object: its copy of the record and its Session
  storeCalls,   \* operations in #writeTail
  edit,        \* the request being handled on each Thread
  turnCount,   \* Turns completed so far; also the key of the newest
  hostIds      \* Host Turn ids given out

recordsVars == <<record, history, openSessions, loaded, storeCalls, edit, turnCount, hostIds>>

ThreadIds == {Root, Derived}
\* A Thread the store does not have, that is not loaded, or that no request is handled on
NoRecord == [rev |-> 0]
NoThread == [session |-> 0]
NoEdit == [step |-> "none"]
TurnKeys(r) == [n \in 1..Len(r.turns) |-> r.turns[n].key]

InitRecords ==
  /\ record = [t \in ThreadIds |->
       IF t = Root THEN [rev |-> 1, ready |-> TRUE, native |-> 1, turns |-> <<>>, boundary |-> 0]
       ELSE NoRecord]
  /\ history = << <<>> >>
  /\ openSessions = {1}
  /\ loaded = [t \in ThreadIds |->
       IF t = Root THEN [record |-> record[Root], session |-> 1, running |-> FALSE, failed |-> FALSE]
       ELSE NoThread]
  /\ storeCalls = <<>>
  /\ edit = [t \in ThreadIds |-> NoEdit]
  /\ turnCount = 0 /\ hostIds = 0

RecordsTypeOK ==
  /\ \A t \in ThreadIds :
       /\ record[t] # NoRecord =>
            /\ record[t].native \in 0..Len(history)
            /\ \A n \in 1..Len(record[t].turns) : record[t].turns[n].host \in 1..hostIds
       /\ loaded[t] # NoThread => loaded[t].session \in 1..Len(history)
  /\ openSessions \subseteq 1..Len(history)
  /\ Len(history) <= MaxSessions
  /\ turnCount \in 0..MaxTurns

NoRequest(t) == edit[t] = NoEdit
Enqueue(c) == storeCalls' = Append(storeCalls, c)

\* #update: the record moves to its next revision and the caller's copy follows.
NextRevision(t, r) == record' = [record EXCEPT ![t] = [r EXCEPT !.rev = @ + 1]]

\* A new Native Session with the given history.
OpenSession(h) ==
  /\ Len(history) < MaxSessions
  /\ history' = Append(history, h)
  /\ openSessions' = openSessions \cup {Len(history) + 1}

\* session.close of a Session no Thread took over.
Abandon(s) == UNCHANGED openSessions   \* a mutant
Discard(s) == openSessions' = openSessions \ {s}

EndEdit(t) == edit' = [edit EXCEPT ![t] = NoEdit]

-----------------------------------------------------------------------------
(* Turns *)

\* turn/start of the Desktop, or a Turn the Session opens on its own.
StartTurn(t) ==
  /\ loaded[t] # NoThread /\ ~loaded[t].running /\ ~loaded[t].failed
  /\ loaded' = [loaded EXCEPT ![t].running = TRUE]
  /\ UNCHANGED <<record, history, openSessions, storeCalls, edit, turnCount, hostIds>>

\* session.state.changed: a Session created for a side chat publishes its Native
\* id with its first Turn, and the consumer awaits commitNative.
PublishNative(t) ==
  /\ loaded[t] # NoThread /\ loaded[t].running /\ ~loaded[t].record.ready /\ storeCalls = <<>>
  /\ NextRevision(t, [record[t] EXCEPT !.ready = TRUE, !.native = loaded[t].session])
  /\ loaded' = [loaded EXCEPT ![t].record = record'[t]]
  /\ UNCHANGED <<history, openSessions, storeCalls, edit, turnCount, hostIds>>

\* turn.completed: persistTerminalIdentity checks the Host's copy of the record
\* and queues upsertTurnMappings.
CompleteTurn(t) ==
  LET s == loaded[t].session IN
  /\ loaded[t] # NoThread /\ loaded[t].running /\ loaded[t].record.ready /\ turnCount < MaxTurns
  /\ ~\E n \in 1..Len(storeCalls) : storeCalls[n].op = "upsert" /\ storeCalls[n].thread = t
  /\ turnCount' = turnCount + 1
  /\ history' = [history EXCEPT ![s] = Append(@, turnCount + 1)]
  /\ hostIds' = hostIds + 1
  /\ IF loaded[t].record.native = s
     THEN Enqueue([op |-> "upsert", thread |-> t, session |-> s, key |-> turnCount + 1, host |-> hostIds + 1])
          /\ UNCHANGED loaded
     ELSE loaded' = [loaded EXCEPT ![t].running = FALSE, ![t].failed = TRUE] /\ UNCHANGED storeCalls
  /\ UNCHANGED <<record, openSessions, edit>>

\* A Turn that fails or is interrupted may come without a Native Turn id: it is
\* not persisted, and still may stand in the Session's history.
FailTurn(t) ==
  /\ loaded[t] # NoThread /\ loaded[t].running
  /\ ~\E n \in 1..Len(storeCalls) : storeCalls[n].op = "upsert" /\ storeCalls[n].thread = t
  /\ loaded' = [loaded EXCEPT ![t].running = FALSE]
  /\ \/ UNCHANGED <<history, turnCount>>
     \/ /\ turnCount < MaxTurns
        /\ turnCount' = turnCount + 1
        /\ history' = [history EXCEPT ![loaded[t].session] = Append(@, turnCount + 1)]
  /\ UNCHANGED <<record, openSessions, storeCalls, edit, hostIds>>

\* The schema of a stored record: no two mappings share a Host id or a Turn.
FitsSchema(turns) ==
  \A n, m \in 1..Len(turns) :
    turns[n].host = turns[m].host \/ turns[n].key = turns[m].key => n = m
Mapping(c) == [host |-> c.host, key |-> c.key]
MergesAnySession(r, c) == r # NoRecord /\ FitsSchema(Append(r.turns, Mapping(c)))   \* a mutant
Mergeable(r, c) == r # NoRecord /\ r.native = c.session /\ FitsSchema(Append(r.turns, Mapping(c)))

\* #mergeMappings and the schema: a mapping of another Session, or one that
\* conflicts, is refused, and the Host marks the Thread with a persistence error.
ExecuteUpsert ==
  /\ storeCalls # <<>> /\ Head(storeCalls).op = "upsert"
  /\ storeCalls' = Tail(storeCalls)
  /\ LET c == Head(storeCalls)
         r == record[c.thread]
         new == [r EXCEPT !.turns = Append(@, Mapping(c))] IN
       IF Mergeable(r, c)
       THEN /\ NextRevision(c.thread, new)
            /\ loaded' = [loaded EXCEPT ![c.thread] =
                 IF @ = NoThread THEN @
                 ELSE [@ EXCEPT !.running = FALSE, !.record = record'[c.thread]]]
       ELSE /\ loaded' = [loaded EXCEPT ![c.thread] =
                 IF @ = NoThread THEN @ ELSE [@ EXCEPT !.running = FALSE, !.failed = TRUE]]
            /\ UNCHANGED record
  /\ UNCHANGED <<history, openSessions, edit, turnCount, hostIds>>

-----------------------------------------------------------------------------
(* refresh: thread/read, thread/turnCount/list, thread/resume, and the first step *)
(* of fork and rollback                                                       *)

NewEdit(t, next) == [step |-> "snapshot", next |-> next, of |-> t, snapshot |-> <<>>, seen |-> loaded[t],
                     old |-> NoRecord, source |-> NoRecord, session |-> 0]

\* The handler checks `running`, then awaits session.readSnapshot.
BeginRefresh(t, next) ==
  /\ loaded[t] # NoThread /\ NoRequest(t) /\ ~loaded[t].running
  /\ edit' = [edit EXCEPT ![t] = [NewEdit(t, next) EXCEPT !.snapshot = history[loaded[t].session]]]
  /\ UNCHANGED <<record, history, openSessions, loaded, storeCalls, turnCount, hostIds>>

\* The Thread object the handler holds, also after another replaced it.
ThreadObject(e) ==
  IF loaded[e.of] # NoThread /\ loaded[e.of].session = e.seen.session THEN loaded[e.of] ELSE e.seen

AfterRefresh(e) ==
  IF e.next = "none" THEN NoEdit ELSE [e EXCEPT !.step = e.next, !.snapshot = <<>>, !.old = NoRecord]
HostOf(r, k) == LET n == CHOOSE n \in 1..Len(r.turns) : r.turns[n].key = k IN r.turns[n].host

\* alignSnapshot: a Turn keeps the Host id of the Host's copy of the record, an
\* unknown one gets a new id; reconcileTurnMappings is queued on a difference.
AlignSnapshot(t) ==
  LET e == edit[t]
      r == ThreadObject(e).record
      missing == SelectSeq(e.snapshot, LAMBDA k : k \notin ToSet(TurnKeys(r)))
      fresh(k) == CHOOSE n \in 1..Len(missing) : missing[n] = k
      ordered == [n \in 1..Len(e.snapshot) |->
                    [key |-> e.snapshot[n],
                     host |-> IF e.snapshot[n] \in ToSet(TurnKeys(r)) THEN HostOf(r, e.snapshot[n])
                              ELSE hostIds + fresh(e.snapshot[n])]]
  IN
  /\ ~NoRequest(t) /\ e.step = "snapshot"
  /\ IF r.native # e.seen.session
     THEN /\ EndEdit(t)
          /\ UNCHANGED <<storeCalls, hostIds>>
     ELSE IF ordered = r.turns
     THEN /\ edit' = [edit EXCEPT ![t].step = "project", ![t].old = r]
          /\ UNCHANGED <<storeCalls, hostIds>>
     ELSE /\ hostIds + Len(missing) <= MaxHosts
          /\ hostIds' = hostIds + Len(missing)
          /\ Enqueue([op |-> "reconcile", by |-> t, thread |-> e.of, session |-> r.native, turns |-> ordered])
          /\ edit' = [edit EXCEPT ![t].step = "aligning"]
  /\ UNCHANGED <<record, history, openSessions, loaded, turnCount>>

\* A Turn may not change its Host id, a Host id may not change its Turn, and
\* neither comes twice.
Conflicts(r, new) ==
  \/ ~FitsSchema(new)
  \/ \E n \in 1..Len(r.turns), m \in 1..Len(new) :
       (r.turns[n].key = new[m].key) # (r.turns[n].host = new[m].host)

\* The write may fail too.
ExecuteReconcile ==
  /\ storeCalls # <<>> /\ Head(storeCalls).op = "reconcile"
  /\ storeCalls' = Tail(storeCalls)
  /\ LET c == Head(storeCalls)
         t == c.thread
         r == record[t]
     IN
     \/ /\ r # NoRecord /\ r.ready /\ r.native = c.session /\ ~Conflicts(r, c.turns)
        /\ IF r.turns = c.turns THEN UNCHANGED record ELSE NextRevision(t, [r EXCEPT !.turns = c.turns])
        /\ edit' = [edit EXCEPT ![c.by].step = "project", ![c.by].old = record'[t]]
     \/ /\ EndEdit(c.by)
        /\ UNCHANGED record
  /\ UNCHANGED <<history, openSessions, loaded, turnCount, hostIds>>

\* projectExternalSnapshot reads the store again before the Host's copy follows, also over
\* a newer one; when it throws, the copy stays as it was.
ProjectSnapshot(t) ==
  LET e == edit[t] IN
  /\ ~NoRequest(t) /\ e.step = "project"
  /\ \/ /\ loaded' = [loaded EXCEPT ![e.of] = IF ThreadObject(e) = @ THEN [@ EXCEPT !.record = e.old] ELSE @]
        /\ edit' = [edit EXCEPT ![t] = AfterRefresh(e)]
     \/ EndEdit(t) /\ UNCHANGED loaded
  /\ UNCHANGED <<record, history, openSessions, storeCalls, turnCount, hostIds>>

-----------------------------------------------------------------------------
(* thread/fork *)

\* A fork of a running Thread skips the refresh.
ForkRunning(t) ==
  /\ loaded[t] # NoThread /\ NoRequest(t) /\ loaded[t].running
  /\ edit' = [edit EXCEPT ![t] = [NewEdit(t, "none") EXCEPT !.step = "fork"]]
  /\ UNCHANGED <<record, history, openSessions, loaded, storeCalls, turnCount, hostIds>>

\* createProvisional names the source Thread and the boundary Turn.  Without a
\* Turn there is no checkpoint: only a side chat goes on, from an empty Session
\* (boundary 0).
CreateProvisional(t) ==
  LET r == loaded[t].record IN
  /\ ~NoRequest(t) /\ edit[t].step = "fork" /\ t = Root /\ storeCalls = <<>>
  /\ \/ EndEdit(t) /\ UNCHANGED record
     \/ \E boundary \in IF r.turns = <<>> THEN {0} ELSE {r.turns[n].host : n \in 1..Len(r.turns)} :
          /\ record[Derived] = NoRecord
          /\ record' = [record EXCEPT ![Derived] =
               [rev |-> 1, ready |-> FALSE, native |-> 0, turns |-> <<>>, boundary |-> boundary]]
          /\ edit' = [edit EXCEPT ![t].step = "open", ![t].old = r]
  /\ UNCHANGED <<history, openSessions, loaded, storeCalls, turnCount, hostIds>>

\* What the new Session of a fork starts with.
UpTo(h, key) == SelectSeq(h, LAMBDA k : k <= key)
KeyOfHost(r, host) == LET n == CHOOSE n \in 1..Len(r.turns) : r.turns[n].host = host IN r.turns[n].key

\* adapter.open copies the history up to the checkpoint into a new Session, or
\* creates one for a side chat.
OpenFork(t) ==
  LET e == edit[t] IN
  /\ ~NoRequest(t) /\ e.step = "open"
  /\ \/ /\ OpenSession(IF record[Derived].boundary = 0 THEN <<>>
                      ELSE UpTo(history[e.old.native], KeyOfHost(e.old, record[Derived].boundary)))
        /\ edit' = [edit EXCEPT ![t].step = "commit", ![t].session = Len(history) + 1]
        /\ UNCHANGED record
     \/ /\ record' = [record EXCEPT ![Derived] = NoRecord]       \* removeProvisional
        /\ EndEdit(t)
        /\ UNCHANGED <<history, openSessions>>
  /\ UNCHANGED <<loaded, storeCalls, turnCount, hostIds>>

DerivedTurns(e, h) == [n \in 1..Len(h) |-> [key |-> h[n], host |-> hostIds + n]]

\* The Thread a fork registers: commitDerivedSnapshot gives the copied Turns Host
\* ids of their own; a side chat has no Native id to commit yet.
Registered(e) ==
  LET new == record[Derived] IN
  IF new.boundary = 0 THEN new
  ELSE [new EXCEPT !.ready = TRUE, !.native = e.session, !.rev = 2,
                   !.turns = DerivedTurns(e, history[e.session])]

\* commitDerivedSnapshot stores the record; a failure before it closes the Session and
\* removes the provisional record.
CommitFork(t) ==
  LET e == edit[t]
      r == Registered(e)
  IN
  /\ ~NoRequest(t) /\ e.step = "commit" /\ storeCalls = <<>>
  /\ \/ /\ record' = [record EXCEPT ![Derived] = r]
        /\ hostIds' = hostIds + Len(r.turns)
        /\ edit' = [edit EXCEPT ![t].step = "derived"]
        /\ UNCHANGED openSessions
     \/ /\ record' = [record EXCEPT ![Derived] = NoRecord]
        /\ Discard(e.session) /\ EndEdit(t)
        /\ UNCHANGED hostIds
  /\ UNCHANGED <<history, loaded, storeCalls, turnCount>>

\* The Host registers the Thread.  When the projection before it throws, the Session is
\* closed, but removeProvisional refuses a record that is ready: it stays, and names a
\* Session no Thread runs.
RegisterFork(t) ==
  LET e == edit[t] IN
  /\ ~NoRequest(t) /\ e.step = "derived"
  /\ \/ /\ loaded' = [loaded EXCEPT ![Derived] =
             [record |-> record[Derived], session |-> e.session, running |-> FALSE, failed |-> FALSE]]
        /\ UNCHANGED <<record, openSessions>>
     \/ /\ record' = IF record[Derived].ready THEN record ELSE [record EXCEPT ![Derived] = NoRecord]
        /\ Discard(e.session)
        /\ UNCHANGED loaded
  /\ EndEdit(t)
  /\ UNCHANGED <<history, storeCalls, turnCount, hostIds>>

-----------------------------------------------------------------------------
(* thread/rollback *)

\* The Harness rolls its last Turn back itself: it opens a copy of the Session
\* without the last Turn.
OpenRollback(t) ==
  LET r == loaded[t].record IN
  /\ ~NoRequest(t) /\ edit[t].step = "rollback" /\ loaded[t] # NoThread
  /\ IF r.turns = <<>>
     THEN EndEdit(t) /\ UNCHANGED <<history, openSessions>>
     ELSE \/ LET h == history[r.native] IN
             /\ h # <<>>
             /\ OpenSession(Front(h))
             /\ edit' = [edit EXCEPT ![t].step = "check", ![t].old = r,
                                     ![t].session = Len(history) + 1]
          \/ EndEdit(t) /\ UNCHANGED <<history, openSessions>>
  /\ UNCHANGED <<record, loaded, storeCalls, turnCount, hostIds>>

\* A derived Thread that is untouched since its fork is rolled back by forking
\* its source again; an idle source is refreshed first.
RefreshSource(t) ==
  /\ ~NoRequest(t) /\ edit[t].step = "rollback"
  /\ t = Derived /\ loaded[Root] # NoThread
  /\ edit' = [edit EXCEPT ![t] =
       IF loaded[Root].running THEN [@ EXCEPT !.step = "sourceRollback", !.of = Root, !.seen = loaded[Root]]
       ELSE [@ EXCEPT !.step = "snapshot", !.of = Root, !.next = "sourceRollback",
                      !.seen = loaded[Root],
                      !.snapshot = history[loaded[Root].session]]]
  /\ UNCHANGED <<record, history, openSessions, loaded, storeCalls, turnCount, hostIds>>

\* A Turn the source has beyond the derived Thread counts as the one the Desktop
\* asks to drop first.
OpenSourceRollback(t, drop) ==
  LET r == loaded[t].record
      src == ThreadObject(edit[t]).record
      bound == {n \in 1..Len(src.turns) : src.turns[n].host = r.boundary}
      beyond == IF ThreadObject(edit[t]).running \/ Len(src.turns) > Len(r.turns) THEN 1 ELSE 0
      retained == Len(r.turns) + beyond - drop
  IN
  /\ ~NoRequest(t) /\ edit[t].step = "sourceRollback"
  /\ IF bound # {Len(r.turns)} \/ retained = Len(r.turns) \/ retained < 1
     THEN EndEdit(t) /\ UNCHANGED <<history, openSessions>>
     ELSE /\ OpenSession(UpTo(history[src.native], src.turns[retained].key))
          /\ edit' = [edit EXCEPT ![t].step = "check", ![t].old = r, ![t].source = src,
                                  ![t].session = Len(history) + 1]
  /\ UNCHANGED <<record, loaded, storeCalls, turnCount, hostIds>>

\* commitForkRollback and commitLastTurnRollback keep the Host ids of the Turns left.
RetainedTurns(e, h) == [n \in 1..Len(h) |-> [key |-> h[n], host |-> e.old.turns[n].host]]

\* The replacement must hold a shorter history than the record the handler kept,
\* by exactly one Turn when the Harness rolls back itself; its snapshot and its
\* configuration may fail other checks.
CheckRollback(t) ==
  LET e == edit[t]
      h == history[e.session]
      lengths == IF e.source = NoRecord THEN {Len(e.old.turns) - 1} ELSE 1..(Len(e.old.turns) - 1)
  IN
  /\ ~NoRequest(t) /\ e.step = "check"
  /\ \/ Discard(e.session) /\ EndEdit(t) /\ UNCHANGED storeCalls
     \/ /\ Len(h) \in lengths
        /\ Enqueue([op |-> "replace", thread |-> t, rev |-> e.old.rev, native |-> e.old.native,
                   session |-> e.session,
                   boundary |-> IF e.source = NoRecord THEN e.old.boundary
                                ELSE e.source.turns[Len(h)].host,
                   turns |-> RetainedTurns(e, h)])
        /\ edit' = [edit EXCEPT ![t].step = "replacing"]
        /\ UNCHANGED openSessions
  /\ UNCHANGED <<record, history, loaded, turnCount, hostIds>>

\* replaceReadySession and replaceReadySessionAfterLastTurn: only over the very
\* revision the handler prepared from.
Unrevised(r, c) == r # NoRecord /\ r.ready /\ r.rev = c.rev /\ r.native = c.native

\* A replacement that is refused, or cannot be written, is closed.
ExecuteReplace ==
  /\ storeCalls # <<>> /\ Head(storeCalls).op = "replace"
  /\ storeCalls' = Tail(storeCalls)
  /\ LET c == Head(storeCalls)
         t == c.thread
         r == record[t]
     IN
     \/ /\ Unrevised(r, c)
        /\ NextRevision(t, [r EXCEPT !.native = c.session, !.turns = c.turns, !.boundary = c.boundary])
        /\ edit' = [edit EXCEPT ![t].step = "register"]
        /\ UNCHANGED openSessions
     \/ /\ Discard(c.session) /\ EndEdit(t)
        /\ UNCHANGED record
  /\ UNCHANGED <<history, loaded, turnCount, hostIds>>

\* projectExternalSnapshot may throw after the commit: the catch closes the replacement,
\* which the stored record now names.
ProjectionFails(t) ==
  /\ ~NoRequest(t) /\ edit[t].step = "register"
  /\ Discard(edit[t].session) /\ EndEdit(t)
  /\ UNCHANGED <<record, history, loaded, storeCalls, turnCount, hostIds>>

\* runtime.replace closes the old Session and registers the new one; it throws
\* when the Thread has become active, and then nothing closes the new Session.
RegisterReplacement(t) ==
  LET e == edit[t] IN
  /\ ~NoRequest(t) /\ e.step = "register"
  /\ IF loaded[t].running
     THEN UNCHANGED <<loaded, openSessions>>
     ELSE /\ openSessions' = openSessions \ {loaded[t].session}
          /\ loaded' = [loaded EXCEPT ![t] =
               [record |-> record[t], session |-> e.session, running |-> FALSE, failed |-> FALSE]]
  /\ EndEdit(t)
  /\ UNCHANGED <<record, history, storeCalls, turnCount, hostIds>>

NextRecords ==
  \/ \E t \in ThreadIds :
       \/ StartTurn(t) \/ PublishNative(t) \/ CompleteTurn(t) \/ FailTurn(t)
       \/ \E next \in {"none", "fork", "rollback"} : BeginRefresh(t, next)
       \/ AlignSnapshot(t) \/ ProjectSnapshot(t)
       \/ ForkRunning(t) \/ CreateProvisional(t) \/ OpenFork(t) \/ CommitFork(t) \/ RegisterFork(t)
       \/ OpenRollback(t) \/ RefreshSource(t) \/ CheckRollback(t)
       \/ ProjectionFails(t) \/ RegisterReplacement(t)
       \/ \E drop \in 1..2 : OpenSourceRollback(t, drop)
  \/ ExecuteUpsert \/ ExecuteReconcile \/ ExecuteReplace

SpecRecords == InitRecords /\ [][NextRecords]_recordsVars

-----------------------------------------------------------------------------
(* Properties *)

\* What a fork or a rollback leaves, wherever it fails: the Session of a Thread is open,
\* an open Session is one that a Thread runs, a request holds or a stored record names, no
\* two of them take the same, and no provisional record is left that nobody will finish.
EditLeavesNothing ==
  /\ \A t \in ThreadIds : loaded[t] # NoThread => loaded[t].session \in openSessions
  /\ \A s \in openSessions : \E t \in ThreadIds :
       \/ loaded[t] # NoThread /\ loaded[t].session = s
       \/ ~NoRequest(t) /\ edit[t].session = s
       \/ record[t] # NoRecord /\ record[t].ready /\ record[t].native = s
  /\ \A t \in ThreadIds :
       record[t] # NoRecord /\ ~record[t].ready =>
       loaded[t] # NoThread \/ \E u \in ThreadIds : ~NoRequest(u)
  /\ loaded[Root] # NoThread /\ loaded[Derived] # NoThread => loaded[Root].session # loaded[Derived].session
  /\ record[Derived] # NoRecord /\ record[Derived].ready => record[Root].native # record[Derived].native

\* The record of the Thread names another Session than the Host still runs for it: a rollback
\* has been committed, and its replacement is not registered, or never will be.
Displaced(t) ==
  loaded[t] # NoThread /\ record[t] # NoRecord /\ record[t].ready /\ loaded[t].session # record[t].native

\* A committed edit stands: whatever the displaced Thread still does (a Turn that ends, a
\* refresh, another rollback prepared from its copy of the record), the record is not rewritten.
EditStands == [][\A t \in ThreadIds : Displaced(t) => record'[t] = record[t]]_recordsVars

\* Fork and rollback are all or nothing: between requests the Session the Host runs for a
\* Thread is the one its stored record names, and a ready record is a Thread's.  Fails: what
\* throws after the commit (the projection, or runtime.replace of a Thread that has become
\* active) leaves the record on a Session that is closed, or that no Thread runs.
EditIsWhole ==
  \A t \in ThreadIds : record[t] # NoRecord /\ record[t].ready /\ \A u \in ThreadIds : NoRequest(u) =>
    loaded[t] # NoThread /\ loaded[t].session = record[t].native

\* What the store maps is in the Session's history, in its order: fork and
\* rollback keep an exact prefix.
RecordFollowsHistory ==
  \A t \in ThreadIds : record[t] # NoRecord /\ record[t].ready =>
    \A n, m \in 1..Len(record[t].turns) :
      /\ record[t].turns[n].key \in ToSet(history[record[t].native])
      /\ n < m => record[t].turns[n].key < record[t].turns[m].key
=============================================================================
