--------------------------- MODULE ThreadRuntime ---------------------------
(* The life of one loaded external Thread in a Host: it is started,        *)
(* located, restored, used by Desktop requests, replaced by a rollback,     *)
(* released when idle, deleted and closed with the Host.                    *)
(*   packages/host-runtime/src/external-thread-runtime.ts                   *)
(*   packages/host-runtime/src/external-thread-idle-release.ts              *)
(*   packages/host-runtime/src/desktop-request-queue.ts                     *)
(*   packages/host-runtime/src/app-server-host.ts (thread/start, delete,    *)
(*   approvals and questions, shutdown)                                     *)
(* A loaded Thread is an object with a Session and a consumer of its        *)
(* outputs. Requests for the Thread run one after another; a "borrow" is    *)
(* the resolve a rollback of a derived Thread does from another queue.      *)
EXTENDS Naturals, Sequences, FiniteSets

CONSTANTS
  Calls,            \* Desktop requests being handled
  RequestKinds,     \* of {"use", "rollback", "delete", "borrow"}
  MaxObjects,       \* bound: Thread objects over the life of the Host
  MaxNatives,       \* bound: native Sessions over the life of the Host
  DeletesShared,    \* whether a delete may overlap a borrow of the Thread
  NoObject

RELEASE == "release"

ASSUME RuntimeConstants ==
  /\ MaxObjects \in Nat \ {0} /\ MaxNatives \in Nat \ {0}
  /\ NoObject \notin 1..MaxObjects /\ RELEASE \notin Calls
  /\ RequestKinds \subseteq {"use", "rollback", "delete", "borrow"}
  /\ DeletesShared \in BOOLEAN

VARIABLES
  saved,      \* the stored record: its state and native Session
  current,    \* the object #threads holds
  harness,    \* per object: "unused" | "opening" | "open" | "closing" | "closed"
  native,     \* per object: the native Session its Session writes
  consumer,   \* per object: "reading" | "failed" | "ended"
  turnRuns,       \* objects that run a Turn
  askingUser,     \* objects whose Session waits for an answer
  shown,      \* objects with a request pending at Desktop
  answering,  \* objects whose Session is being told the answer
  blocked,    \* objects whose release failed
  line,       \* the Thread's queue of requests and releases
  call,       \* per request: kind, step and object
  restoring,  \* the object of the restore in flight
  release,    \* the object of the scheduled release, and its step
  hostLife        \* "open" | "ended" | "stopped" | "closed"

runtimeVars == <<saved, current, harness, native, consumer, turnRuns, askingUser, shown,
                 answering, blocked, line, call, restoring, release, hostLife>>

Objects == 1..MaxObjects
Idle == [kind |-> "none", step |-> "idle", with |-> NoObject]

InitRuntime ==
  /\ saved \in {[state |-> "none", native |-> 0], [state |-> "ready", native |-> 1]}
  /\ current = NoObject
  /\ harness = [o \in Objects |-> "unused"] /\ native = [o \in Objects |-> 0]
  /\ consumer = [o \in Objects |-> "reading"]
  /\ turnRuns = {} /\ askingUser = {} /\ shown = {} /\ answering = {} /\ blocked = {}
  /\ line = <<>> /\ call = [r \in Calls |-> Idle]
  /\ restoring = NoObject
  /\ release = [of |-> NoObject, step |-> "none"]
  /\ hostLife = "open"

Unused == {o \in Objects : harness[o] = "unused"}
NewObject == CHOOSE o \in Unused : TRUE
Natives == {saved.native} \union {native[o] : o \in Objects}
NewNative == Cardinality(Natives \ {0}) + 1
ReleaseClosing == release.step \in {"closing", "released"}   \* idleRelease.#closing
At(r, step) == call[r].step = step
\* Requests that hold an operation of the Thread, or wait behind one.
Admitted(r) == call[r].kind # "borrow" /\ ~At(r, "idle") /\ ~At(r, "queued")
Step(r, step, o) == call' = [call EXCEPT ![r].step = step, ![r].with = o]
\* A handler that returns lets the next one in the queue begin.
Ends(r) == /\ call' = [call EXCEPT ![r] = Idle]
           /\ line' = IF call[r].kind \in {"borrow", "start"} THEN line ELSE Tail(line)
ObjectsRest == <<harness, native, consumer, turnRuns, askingUser, shown, answering, blocked>>

-----------------------------------------------------------------------------
(* thread/start: a provisional record, a Session, then the Thread.          *)

StartThread(r) ==
  /\ hostLife = "open" /\ At(r, "idle")
  /\ saved.state = "none" /\ saved.native = 0 /\ Unused # {}
  /\ saved' = [state |-> "provisional", native |-> 1]
  /\ call' = [call EXCEPT ![r] = [kind |-> "start", step |-> "opening", with |-> NewObject]]
  /\ harness' = [harness EXCEPT ![NewObject] = "opening"]
  /\ UNCHANGED <<current, native, consumer, turnRuns, askingUser, shown, answering, blocked, line,
                 restoring, release, hostLife>>

StartOpens(r) ==
  LET o == call[r].with IN
  /\ call[r].kind = "start" /\ At(r, "opening")
  /\ \/ /\ harness' = [harness EXCEPT ![o] = "open"]
        /\ native' = [native EXCEPT ![o] = 1]
        /\ Step(r, "register", o) /\ UNCHANGED <<saved, line>>
     \/ /\ harness' = [harness EXCEPT ![o] = "closed"]
        /\ saved' = [saved EXCEPT !.state = "none"] /\ Ends(r) /\ UNCHANGED native
  /\ UNCHANGED <<current, consumer, turnRuns, askingUser, shown, answering, blocked, restoring, release, hostLife>>

\* The Thread is registered once its identity is committed; a failure removes
\* the Thread and its record and closes the Session.
StartRegisters(r) ==
  LET o == call[r].with IN
  /\ call[r].kind = "start" /\ At(r, "register")
  /\ \/ /\ saved' = [saved EXCEPT !.state = "ready"]
        /\ current' = o /\ UNCHANGED harness
     \/ /\ saved' = [saved EXCEPT !.state = "none"]
        /\ harness' = [harness EXCEPT ![o] = "closed"]
        /\ UNCHANGED current
  /\ Ends(r)
  /\ UNCHANGED <<native, consumer, turnRuns, askingUser, shown, answering, blocked, restoring, release, hostLife>>

-----------------------------------------------------------------------------
(* Requests: admission, locate, resolve and restore.                        *)

Borrowed == \E r \in Calls : call[r].kind = "borrow"
Deleting == \E r \in Calls : call[r].kind = "delete"

\* Desktop learns the id of a new Thread from the answer to thread/start.
Receive(r) ==
  /\ hostLife = "open" /\ At(r, "idle")
  /\ saved.native # 0 /\ \A q \in Calls : call[q].kind # "start"
  /\ \E k \in RequestKinds :
       /\ DeletesShared \/ (~(k = "delete" /\ Borrowed) /\ ~(k = "borrow" /\ Deleting))
       /\ call' = [call EXCEPT ![r] =
                     [kind |-> k, with |-> NoObject,
                      step |-> IF k = "borrow" THEN "locate" ELSE "queued"]]
       /\ line' = IF k = "borrow" THEN line ELSE Append(line, r)
  /\ UNCHANGED <<saved, current, ObjectsRest, restoring, release, hostLife>>

\* runOperation: counted only when no release of the Thread is under way.
Admissible == ~ReleaseClosing
Admit(r) ==
  /\ At(r, "queued") /\ line # <<>> /\ Head(line) = r /\ Admissible
  /\ Step(r, "locate", NoObject)
  /\ UNCHANGED <<saved, current, ObjectsRest, line, restoring, release, hostLife>>

Locate(r) ==
  /\ At(r, "locate") /\ ~ReleaseClosing
  /\ IF current # NoObject
       THEN IF current \in blocked THEN Ends(r) ELSE Step(r, "held", current) /\ UNCHANGED line
       ELSE Step(r, "finding", NoObject) /\ UNCHANGED line
  /\ UNCHANGED <<saved, current, ObjectsRest, restoring, release, hostLife>>

\* The stored record decides; a delete needs no Session, everyone else joins
\* the restore in flight, takes the object that is there by now, or restores.
RestoresAlone(r) == call[r].kind # "delete" /\ current = NoObject
NeedsRestore(r) == call[r].kind # "delete" /\ restoring = NoObject /\ current = NoObject
Find(r) ==
  /\ At(r, "finding")
  /\ IF saved.state # "ready" \/ (NeedsRestore(r) /\ Unused = {})   \* or the bound
     THEN Ends(r) /\ UNCHANGED <<restoring, harness, native>>
     ELSE /\ UNCHANGED line
          /\ IF NeedsRestore(r)
               THEN /\ restoring' = NewObject
                    /\ harness' = [harness EXCEPT ![NewObject] = "opening"]
                    /\ native' = [native EXCEPT ![NewObject] = saved.native]
                    /\ Step(r, "joined", NoObject)
               ELSE /\ CASE call[r].kind = "delete" -> Step(r, "held", NoObject)
                         [] call[r].kind # "delete" /\ restoring # NoObject -> Step(r, "joined", NoObject)
                         [] OTHER -> Step(r, "held", current)
                    /\ UNCHANGED <<restoring, harness, native>>
  /\ UNCHANGED <<saved, current, consumer, turnRuns, askingUser, shown, answering, blocked, release, hostLife>>

\* Everyone who joined gets the restored object.
Joined(o) == [r \in Calls |-> IF At(r, "joined") THEN [call[r] EXCEPT !.step = "held", !.with = o]
                                                 ELSE call[r]]
RestoreOpens ==
  /\ restoring # NoObject /\ harness[restoring] = "opening"
  /\ harness' = [harness EXCEPT ![restoring] = "open"]
  /\ UNCHANGED <<saved, current, native, consumer, turnRuns, askingUser, shown, answering, blocked, line,
                 call, restoring, release, hostLife>>
\* The snapshot is read and aligned; writing its mappings needs the record.
RestoreRegisters ==
  /\ restoring # NoObject /\ harness[restoring] = "open"
  /\ current' = restoring /\ call' = Joined(restoring) /\ restoring' = NoObject
  /\ UNCHANGED <<saved, ObjectsRest, line, release, hostLife>>
Abandoned(o) == [harness EXCEPT ![o] = IF @ = "open" THEN "open" ELSE "closed"]
ClosedAfterFailure(o) == [harness EXCEPT ![o] = "closed"]
RestoreGivesUp ==
  /\ restoring # NoObject
  /\ harness' = ClosedAfterFailure(restoring)
  /\ call' = Joined(NoObject) /\ restoring' = NoObject
  /\ UNCHANGED <<saved, current, native, consumer, turnRuns, askingUser, shown, answering, blocked, line,
                 release, hostLife>>

\* A handler that could not resolve its Thread answers with the error.
Refuse(r) ==
  /\ At(r, "held") /\ call[r].with = NoObject /\ call[r].kind # "delete"
  /\ Ends(r)
  /\ UNCHANGED <<saved, current, ObjectsRest, restoring, release, hostLife>>

\* A handler works with the Session it got, and may leave a Turn running.
Use(r) ==
  LET o == call[r].with IN
  /\ At(r, "held") /\ call[r].kind \in {"use", "borrow"} /\ o # NoObject
  /\ Ends(r)
  /\ \/ UNCHANGED turnRuns
     \/ /\ call[r].kind = "use" /\ o = current /\ harness[o] = "open" /\ consumer[o] = "reading"
        /\ turnRuns' = turnRuns \union {o}
  /\ UNCHANGED <<saved, current, harness, native, consumer, askingUser, shown, answering, blocked,
                 restoring, release, hostLife>>

-----------------------------------------------------------------------------
(* A rollback replaces the object; a delete removes it.                     *)

\* The replacement is open and committed; the old Session is closed next.
Replaceable(o) == o \notin turnRuns /\ current = o
RollbackOpens(r) ==
  LET o == call[r].with IN
  /\ At(r, "held") /\ call[r].kind = "rollback" /\ o # NoObject
  /\ \/ Ends(r) /\ UNCHANGED <<saved, harness, native>>    \* refused, or the Harness fails
     \/ /\ Unused # {} /\ NewNative <= MaxNatives          \* the bounds
        /\ Replaceable(o) /\ saved.state = "ready"
        /\ harness' = [harness EXCEPT ![NewObject] = "open", ![o] = "closing"]
        /\ native' = [native EXCEPT ![NewObject] = NewNative]
        /\ saved' = [saved EXCEPT !.native = NewNative]
        /\ Step(r, "replacing", NewObject) /\ UNCHANGED line
  /\ UNCHANGED <<current, consumer, turnRuns, askingUser, shown, answering, blocked, restoring, release, hostLife>>

\* Replacing waits for the old Session and its outputs, then registers.
Replace(r) ==
  /\ At(r, "replacing") /\ harness[current] = "closed" /\ consumer[current] # "reading"
  /\ current' = call[r].with /\ Ends(r)
  /\ UNCHANGED <<saved, ObjectsRest, restoring, release, hostLife>>

Removed == NoObject
DeleteRecord(r) ==
  LET o == call[r].with IN
  /\ At(r, "held") /\ call[r].kind = "delete"
  /\ \/ Ends(r) /\ UNCHANGED <<saved, current, harness>>          \* the store refuses
     \/ /\ saved' = [saved EXCEPT !.state = "none"] /\ current' = Removed
        /\ IF o = NoObject \/ harness[o] # "open" THEN Ends(r) /\ UNCHANGED harness
           ELSE /\ harness' = [harness EXCEPT ![o] = "closing"]
                /\ Step(r, "deleting", o) /\ UNCHANGED line
  /\ UNCHANGED <<native, consumer, turnRuns, askingUser, shown, answering, blocked, restoring, release, hostLife>>

DeleteEnds(r) ==
  LET o == call[r].with IN
  /\ At(r, "deleting")
  /\ harness[o] = "closed" /\ consumer[o] # "reading"
  /\ Ends(r)
  /\ UNCHANGED <<saved, current, ObjectsRest, restoring, release, hostLife>>

-----------------------------------------------------------------------------
(* Sessions: Turns, interactions, outputs and closing.                      *)

TurnEnds(o) ==
  /\ o \in turnRuns /\ consumer[o] = "reading"
  /\ turnRuns' = turnRuns \ {o} /\ askingUser' = askingUser \ {o} /\ shown' = shown \ {o}
  /\ UNCHANGED <<saved, current, harness, native, consumer, answering, blocked, line, call,
                 restoring, release, hostLife>>

AsksUser(o) ==
  /\ o \in turnRuns /\ harness[o] = "open" /\ o \notin askingUser
  /\ askingUser' = askingUser \union {o}
  /\ UNCHANGED <<saved, current, harness, native, consumer, turnRuns, shown, answering, blocked, line,
                 call, restoring, release, hostLife>>

\* The consumer shows the approval or the question.
Unshown(o) == o \in askingUser \ (shown \union answering) /\ consumer[o] = "reading"
Shows(o) ==
  /\ Unshown(o) /\ shown' = shown \union {o}
  /\ UNCHANGED <<saved, current, harness, native, consumer, turnRuns, askingUser, answering, blocked, line,
                 call, restoring, release, hostLife>>

\* One that cannot be projected is denied or cancelled at once.
Denies(o) ==
  /\ Unshown(o) /\ askingUser' = askingUser \ {o}
  /\ UNCHANGED <<saved, current, harness, native, consumer, turnRuns, shown, answering, blocked, line, call,
                 restoring, release, hostLife>>

\* An answer of Desktop, or the expiry of a question: an operation that drops
\* the request unless the Thread was replaced, removed or blocked, and then
\* tells the Session.
Answers(o) ==
  /\ o \in shown /\ ~ReleaseClosing /\ hostLife \in {"open", "ended"}
  /\ current = o /\ o \notin blocked
  /\ shown' = shown \ {o} /\ answering' = answering \union {o}
  /\ UNCHANGED <<saved, current, harness, native, consumer, turnRuns, askingUser, blocked, line,
                 call, restoring, release, hostLife>>
AnswerEnds(o) ==
  /\ o \in answering
  /\ answering' = answering \ {o} /\ askingUser' = askingUser \ {o}
  /\ UNCHANGED <<saved, current, harness, native, consumer, turnRuns, shown, blocked, line,
                 call, restoring, release, hostLife>>

\* A write or a projection fails: the consumer reads nothing more.
ConsumerFails(o) ==
  /\ consumer[o] = "reading" /\ harness[o] \in {"open", "closing"} /\ o = current
  /\ consumer' = [consumer EXCEPT ![o] = "failed"]
  /\ UNCHANGED <<saved, current, harness, native, turnRuns, askingUser, shown, answering, blocked, line,
                 call, restoring, release, hostLife>>

\* The Session ends its Turn and its interactions when it closes.
SessionGoes(o) ==
  /\ harness[o] = "closing"
  /\ harness' = [harness EXCEPT ![o] = "closed"]
  /\ askingUser' = askingUser \ {o}
  /\ UNCHANGED <<saved, current, native, consumer, turnRuns, shown, answering, blocked, line, call,
                 restoring, release, hostLife>>

\* The last outputs resolve what the Session dropped.
Resolved(o) == shown \ {o}
OutputsEnd(o) ==
  /\ harness[o] = "closed" /\ consumer[o] = "reading" /\ native[o] # 0
  /\ consumer' = [consumer EXCEPT ![o] = "ended"]
  /\ turnRuns' = turnRuns \ {o} /\ shown' = Resolved(o)
  /\ UNCHANGED <<saved, current, harness, native, askingUser, answering, blocked, line, call,
                 restoring, release, hostLife>>

-----------------------------------------------------------------------------
(* Release of an idle Thread. The age of its last activity is left open.    *)

EligibleDespiteRequests(o) ==
  /\ hostLife = "open" /\ current = o /\ ~ReleaseClosing
  /\ consumer[o] = "reading" /\ o \notin blocked \union turnRuns \union shown
  /\ saved.state = "ready"
Eligible(o) ==
  /\ hostLife = "open" /\ current = o /\ ~ReleaseClosing
  /\ consumer[o] = "reading" /\ o \notin blocked \union turnRuns \union shown
  /\ saved.state = "ready"
  /\ o \notin answering /\ \A r \in Calls : ~Admitted(r)

Check ==
  /\ release.step = "none" /\ current # NoObject /\ Eligible(current)
  /\ release' = [of |-> current, step |-> "queued"] /\ line' = Append(line, RELEASE)
  /\ UNCHANGED <<saved, current, ObjectsRest, call, restoring, hostLife>>

NotReleasing == [of |-> NoObject, step |-> "none"]

\* At the head of the queue the candidate is judged again.
ReleaseRuns ==
  /\ release.step = "queued" /\ line # <<>> /\ Head(line) = RELEASE
  /\ IF Eligible(release.of)
       THEN /\ release' = [release EXCEPT !.step = "closing"]
            /\ harness' = [harness EXCEPT ![release.of] = "closing"] /\ UNCHANGED line
       ELSE release' = NotReleasing /\ line' = Tail(line) /\ UNCHANGED harness
  /\ UNCHANGED <<saved, current, native, consumer, turnRuns, askingUser, shown, answering, blocked, call,
                 restoring, hostLife>>

\* The Session is closed, its outputs are read and its requests are resolved:
\* the Thread is removed when nothing was lost, and blocked otherwise.
Confirmed(o) == consumer[o] = "ended" /\ saved.state = "ready" /\ current = o
ReleaseEnds ==
  LET o == release.of IN
  /\ release.step = "closing" /\ harness[o] = "closed" /\ consumer[o] # "reading"
  /\ shown' = shown \ {o}
  /\ IF Confirmed(o) THEN current' = NoObject /\ UNCHANGED blocked
                     ELSE blocked' = blocked \union {o} /\ UNCHANGED current
  /\ release' = NotReleasing /\ line' = Tail(line)
  /\ UNCHANGED <<saved, harness, native, consumer, turnRuns, askingUser, answering, call, restoring, hostLife>>

ReleaseTimesOut ==
  /\ release.step = "closing"
  /\ blocked' = blocked \union {release.of}
  /\ release' = NotReleasing /\ line' = Tail(line)
  /\ UNCHANGED <<saved, current, harness, native, consumer, turnRuns, askingUser, shown, answering, call,
                 restoring, hostLife>>

-----------------------------------------------------------------------------
(* The end of the Host.                                                     *)

InputEnds ==
  /\ hostLife = "open" /\ hostLife' = "ended"
  /\ UNCHANGED <<saved, current, ObjectsRest, line, call, restoring, release>>

\* Requests are drained, then the loaded Sessions are closed.
Drained == line = <<>> /\ answering = {} /\ \A r \in Calls : At(r, "idle")
StopHost ==
  /\ hostLife = "ended" /\ Drained
  /\ hostLife' = "stopped"
  /\ harness' = [o \in Objects |-> IF o = current /\ harness[o] = "open"
                                     THEN "closing" ELSE harness[o]]
  /\ UNCHANGED <<saved, current, native, consumer, turnRuns, askingUser, shown, answering, blocked, line,
                 call, restoring, release>>
ClearHost ==
  /\ hostLife = "stopped"
  /\ current # NoObject => harness[current] = "closed" /\ consumer[current] # "reading"
  /\ hostLife' = "closed" /\ current' = NoObject /\ shown' = {}
  /\ UNCHANGED <<saved, harness, native, consumer, turnRuns, askingUser, answering, blocked, line, call,
                 restoring, release>>

-----------------------------------------------------------------------------
Handles(r) ==
  \/ StartOpens(r) \/ StartRegisters(r) \/ Admit(r) \/ Locate(r) \/ Find(r) \/ Refuse(r)
  \/ Use(r) \/ RollbackOpens(r) \/ Replace(r) \/ DeleteRecord(r) \/ DeleteEnds(r)
ClosesSession(o) == SessionGoes(o) \/ OutputsEnd(o) \/ AnswerEnds(o)
Releases == ReleaseRuns \/ ReleaseEnds
Restores == RestoreOpens \/ RestoreRegisters

NextRuntime ==
  \/ \E r \in Calls : StartThread(r) \/ Receive(r) \/ Handles(r)
  \/ \E o \in Objects :
       \/ TurnEnds(o) \/ AsksUser(o) \/ Shows(o) \/ Denies(o) \/ Answers(o) \/ ConsumerFails(o) \/ ClosesSession(o)
  \/ Restores \/ RestoreGivesUp
  \/ Check \/ Releases \/ ReleaseTimesOut
  \/ InputEnds \/ StopHost \/ ClearHost

\* Handlers, restores and closes are promises that settle, and a release is
\* bounded by its timer.
RuntimeFairness ==
  /\ \A r \in Calls : WF_runtimeVars(Handles(r))
  /\ \A o \in Objects : WF_runtimeVars(ClosesSession(o))
  /\ WF_runtimeVars(Releases) /\ WF_runtimeVars(ReleaseTimesOut) /\ WF_runtimeVars(Restores)

RuntimeSpec == InitRuntime /\ [][NextRuntime]_runtimeVars /\ RuntimeFairness

-----------------------------------------------------------------------------
RuntimeTypeOK ==
  /\ saved \in [state : {"none", "provisional", "ready"}, native : 0..MaxNatives]
  /\ current \in Objects \union {NoObject} /\ restoring \in Objects \union {NoObject}
  /\ harness \in [Objects -> {"unused", "opening", "open", "closing", "closed"}]
  /\ native \in [Objects -> 0..MaxNatives]
  /\ consumer \in [Objects -> {"reading", "failed", "ended"}]
  /\ {turnRuns, askingUser, shown, answering, blocked} \subseteq SUBSET Objects
  /\ release \in [of : Objects \union {NoObject}, step : {"none", "queued", "closing"}]
  /\ \A r \in Calls : call[r].with \in Objects \union {NoObject}
  /\ \A i \in DOMAIN line : line[i] \in Calls \union {RELEASE}
  /\ hostLife \in {"open", "ended", "stopped", "closed"}

\* Two Sessions never write one native Session at the same time, whatever
\* releases, restores and replacements overlap.
OneWriter ==
  \A o, p \in Objects :
    /\ {harness[o], harness[p]} \subseteq {"open", "closing"}
    /\ native[o] = native[p]
    => o = p

\* A release never closes the Session a request of the Thread is using.
ReleaseSparesRequests ==
  ReleaseClosing => /\ release.of \notin answering
             /\ \A r \in Calls : Admitted(r) => call[r].with # release.of

\* Every open Session is loaded, being restored, or in the hands of a handler.
NoSessionLeaks ==
  \A o \in Objects : harness[o] = "open" =>
    o \in {current, restoring} \/ \E r \in Calls : call[r].with = o

\* A loaded Thread has a stored record to be found by after a restart.
LoadedIsStored == current # NoObject /\ hostLife = "open" => saved.state = "ready"

\* A request Desktop shows belongs to a Thread that can take the answer, or is
\* about to be resolved; only a consumer that failed leaves one behind.
RequestsAnswerable ==
  \A o \in shown : (o = current /\ o \notin blocked) \/ consumer[o] # "ended"

\* Every request of the Thread is answered, also behind a release that hangs.
RequestsServed == \A r \in Calls : ~At(r, "idle") ~> At(r, "idle")
=============================================================================
