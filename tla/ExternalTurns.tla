---------------------------- MODULE ExternalTurns ----------------------------
(***************************************************************************)
(* The Turns of one external Thread: the Host's side of a Thread            *)
(* (packages/host-runtime/src/app-server-host.ts, with its message queue    *)
(* external-thread-queue.ts) composed with the Claude Session it drives     *)
(* (packages/adapters/claude-code/src/claude-code-adapter.ts) through one   *)
(* output channel.                                                          *)
(*                                                                          *)
(* A Desktop request is a fiber: it runs without interruption from one      *)
(* await to the next, and every await is a place where the other fibers,    *)
(* the output consumer and the Session may run.  A call that settles        *)
(* without any I/O (the Session refusing a second Turn, say) is part of the *)
(* step that makes it.                                                      *)
(*                                                                          *)
(* A Turn is named after what it carries: a turn/start, command or          *)
(* turn/steer request, a queued submission, or a segment the Session opened *)
(* on its own (Autos).                                                      *)
(***************************************************************************)
EXTENDS Naturals, Sequences, FiniteSets

CONSTANTS
    Requests,   \* Desktop requests that hold state across an await
    Subs,       \* queued submissions
    Autos,      \* Turns the Session opens on its own
    Contexts,   \* texts sent with thread/inject_items
    Capacity,   \* EXTERNAL_QUEUE_CAPACITY
    NoTurn,
    NoRequest

Turns == Requests \cup Subs \cup Autos

ASSUME TurnsAssumption ==
    /\ Requests \cap Subs = {} /\ Requests \cap Autos = {} /\ Subs \cap Autos = {}
    /\ NoTurn \notin Turns
    /\ NoRequest \notin Requests

ASSUME CapacityAssumption == Capacity \in Nat \ {0}

VARIABLES
    running,        \* thread.running
    activeTurn,     \* thread.activeTurnId
    projected,      \* keys of thread.projectedTurns
    gate,           \* thread.responseGates: the requests whose answer a Turn's output waits for
    ephemeral,      \* thread.ephemeralTurnIds
    pendingCommand, \* #pendingExternalCommandRequests.has(thread.id)
    queue,          \* ExternalThreadQueue
    steer,          \* request of the pending ExternalTurnSteering replacement
    steerTurn,      \* the Turn it replaces
    steerOutcome,   \* what pending.resolve was called with
    steerFault,     \* failureReason of the pending replacement
    pc,             \* where each Desktop request is
    starting,       \* the Turn whose session.execute(turn.start) is in flight
    context,        \* where each injected text is
    draining,       \* #attachmentDraining
    closeRequested, \* #closeRequested
    consumer,       \* where #consumeHarnessOutputs is; "overlap" and "unknown" are its two throws
    current,        \* the output it is projecting
    awaited,        \* the gate it read in #waitForTurnResponse
    phase,          \* Session: #phase
    active,         \* Session: #active
    cancelRequested,\* Session: #active.cancellationRequested
    hardCancel,     \* Session: #hardCancelTask is set
    transport,      \* Session: #transport is set
    chan,           \* HarnessOutputChannel
    accepted,       \* history: Turns the Session accepted or opened
    added,          \* history: submissions thread/queue/add accepted
    deleted,        \* history: submissions thread/queue/delete removed
    announced,      \* history: Turns whose turn/started reached Desktop
    kept            \* history: the queue has a reason to wait for the user

hostVars == <<running, activeTurn, projected, gate, ephemeral, pendingCommand>>
queueVars == <<queue, added, deleted>>
steerVars == <<steer, steerTurn, steerOutcome, steerFault>>
sessionVars == <<phase, active, cancelRequested, hardCancel, transport>>
consumerVars == <<consumer, current, awaited, announced>>
lifeVars == <<draining, closeRequested>>
vars == <<hostVars, queueVars, steerVars, pc, starting, context, lifeVars,
          consumerVars, sessionVars, chan, accepted, kept>>

Outcomes == {"succeeded", "failed", "cancelled"}
Event(type, t) == [type |-> type, turn |-> t, outcome |-> "none"]
Completed(t, outcome) == [type |-> "completed", turn |-> t, outcome |-> outcome]
Faulted == Event("faulted", NoTurn)
NoEvent == Event("none", NoTurn)
OpenEvents == [type : {"autonomous"}, turn : Turns, outcome : {"none"}]
StartEvents == [type : {"started"}, turn : Turns, outcome : {"none"}]
EndEvents == [type : {"completed"}, turn : Turns, outcome : Outcomes]
Events == OpenEvents \cup StartEvents \cup EndEvents \cup {Faulted}

\* Where a request can be: before it is sent, at one of its awaits, or answered.
Sites == {"unsent", "preparing", "catalog", "starting", "queueStarting", "responding",
          "steerCancel", "steerStop", "announcing", "interruptCancel", "interrupted",
          "rejecting", "done"}
ContextSites == {"absent", "pending", "starting", "delivered", "dropped"}

HostTypes ==
    /\ running \in BOOLEAN /\ activeTurn \in Turns \cup {NoTurn}
    /\ projected \subseteq Turns /\ gate \in [Turns -> SUBSET Requests]
    /\ ephemeral \subseteq Turns /\ pendingCommand \in BOOLEAN
QueueTypes == queue \in Seq(Subs) /\ added \subseteq Subs /\ deleted \subseteq Subs
SteerTypes ==
    /\ steer \in Requests \cup {NoRequest} /\ steerTurn \in Turns \cup {NoTurn}
    /\ steerOutcome \in Outcomes \cup {"none"} /\ steerFault \in BOOLEAN
RequestTypes ==
    /\ pc \in [Requests -> Sites] /\ starting \in Turns \cup {NoTurn}
    /\ context \in [Contexts -> ContextSites] /\ kept \in BOOLEAN
LifeTypes == draining \in BOOLEAN /\ closeRequested \in BOOLEAN
ConsumerTypes ==
    /\ consumer \in {"next", "gate", "persist", "settle", "ended", "overlap", "unknown"}
    /\ current \in IF consumer = "gate" THEN StartEvents \cup EndEvents
                   ELSE IF consumer \in {"persist", "settle"} THEN EndEvents
                   ELSE IF consumer = "overlap" THEN OpenEvents ELSE {NoEvent}
    /\ awaited \subseteq Requests /\ announced \subseteq Turns
SessionTypes ==
    /\ phase \in {"open", "closing", "closed", "faulted"}
    /\ active \in Turns \cup {NoTurn} /\ cancelRequested \in BOOLEAN
    /\ hardCancel \in BOOLEAN /\ transport \in BOOLEAN
    /\ chan \in Seq(Events) /\ accepted \subseteq Turns

TypeOK ==
    /\ HostTypes /\ QueueTypes /\ SteerTypes /\ RequestTypes
    /\ LifeTypes /\ ConsumerTypes /\ SessionTypes

Init ==
    /\ running = FALSE /\ activeTurn = NoTurn /\ projected = {}
    /\ gate = [t \in Turns |-> {}] /\ ephemeral = {} /\ pendingCommand = FALSE
    /\ queue = <<>> /\ added = {} /\ deleted = {}
    /\ steer = NoRequest /\ steerTurn = NoTurn
    /\ steerOutcome = "none" /\ steerFault = FALSE
    /\ pc = [r \in Requests |-> "unsent"] /\ starting = NoTurn
    /\ context = [c \in Contexts |-> "absent"]
    /\ draining = FALSE /\ closeRequested = FALSE
    /\ consumer = "next" /\ current = NoEvent /\ awaited = {} /\ announced = {}
    /\ phase = "open" /\ active = NoTurn /\ cancelRequested = FALSE
    /\ hardCancel = FALSE /\ transport = FALSE
    /\ chan = <<>> /\ accepted = {} /\ kept = FALSE

-----------------------------------------------------------------------------
(* #beginExternalTurn and the Session's execute(turn.start)                 *)

\* #externalThreadIdle
Idle == ~running /\ activeTurn = NoTurn /\ steer = NoRequest /\ ~pendingCommand

\* The guards of #beginExternalTurn that answer before it changes anything;
\* reserved says whether a command reserves the Thread at that point.
HostRefuses(reserved) ==
    closeRequested \/ running \/ activeTurn # NoTurn \/ reserved

\* execute(turn.start) answers at once: the Session is not open, or has a Turn.
SessionRefuses == phase # "open" \/ active # NoTurn

\* pendingInjectedContext.splice(0): begin takes the texts, whatever comes next.
ContextTo(site, from) ==
    [c \in Contexts |-> IF context[c] = from THEN site ELSE context[c]]

\* A start the Host or the Session refuses.  All the Turn's state is taken back
\* in the same step; the injected texts a refused execute was given are not.
BeginRefused(reserved) ==
    /\ HostRefuses(reserved) \/ SessionRefuses
    /\ context' = IF HostRefuses(reserved) THEN context ELSE ContextTo("dropped", "pending")
    /\ kept' = (kept \/ ~HostRefuses(reserved))
    /\ UNCHANGED <<running, activeTurn, projected, gate, sessionVars, starting, chan, accepted>>

SessionAccepts(t) ==
    /\ active' = t /\ cancelRequested' = FALSE /\ transport' = TRUE
    /\ chan' = Append(chan, Event("started", t))
    /\ accepted' = accepted \cup {t}
    /\ kept' = FALSE
    /\ UNCHANGED <<phase, hardCancel>>

\* A start the Host admits.  A Session whose transport is up accepts it at once;
\* otherwise the transport is started first and execute stays in flight.
BeginAdmitted(t, answers) ==
    /\ ~SessionRefuses
    /\ running' = TRUE /\ activeTurn' = t
    /\ projected' = projected \cup {t}
    /\ gate' = [gate EXCEPT ![t] = answers]
    /\ \/ /\ transport
          /\ SessionAccepts(t)
          /\ context' = ContextTo("delivered", "pending")
          /\ UNCHANGED starting
       \/ /\ ~transport
          /\ starting' = t
          /\ context' = ContextTo("starting", "pending")
          /\ UNCHANGED <<sessionVars, chan, accepted, kept>>

Goto(r, site) == pc' = [pc EXCEPT ![r] = site]

\* #beginExternalTurn called by request r, which answers, or waits at site for execute.
BeginFor(r, t, reserved, site) ==
    \/ BeginRefused(reserved) /\ Goto(r, "done")
    \/ /\ ~HostRefuses(reserved)
       /\ BeginAdmitted(t, {r})
       /\ Goto(r, IF transport THEN "responding" ELSE site)

\* Mutant of Restore: a submission that could not start is forgotten.
RestoreNothing(t, q) == q

\* ExternalThreadQueue.restore: a submission whose Turn did not begin is first again.
Restore(t, q) == IF t \in Subs THEN <<t>> \o q ELSE q

\* #startQueuedSubmission: the head of the queue on an idle Thread, put back when refused.
StartQueuedSubmission ==
    IF closeRequested \/ ~Idle \/ queue = <<>>
    THEN UNCHANGED <<running, activeTurn, projected, gate, queue, starting, context,
                     sessionVars, chan, accepted, kept>>
    ELSE \/ BeginRefused(FALSE) /\ UNCHANGED queue
         \/ BeginAdmitted(Head(queue), {}) /\ queue' = Tail(queue)

-----------------------------------------------------------------------------
(* turn/start, with a command or plain text                                 *)

\* DesktopRequestQueue: turn/interrupt is awaited in the Thread's routing queue, so the
\* requests behind it are not read before it is answered.
RouteFree == \A r \in Requests : pc[r] \notin {"interruptCancel", "interrupted"}

\* A request the drain admission of #handleDesktopRequest lets in.
Admitted(r) == pc[r] = "unsent" /\ ~closeRequested /\ RouteFree /\ ~draining

\* Nothing but the request's own place changes.
OnlyMoves(r, site) ==
    /\ Goto(r, site)
    /\ UNCHANGED <<hostVars, queueVars, steerVars, starting, context, lifeVars,
                   consumerVars, sessionVars, chan, accepted, kept>>

\* The guards of #startExternalTurn; it then awaits the native selection.
TurnStart(r) ==
    /\ Admitted(r)
    /\ OnlyMoves(r, IF running \/ steer # NoRequest \/ pendingCommand THEN "done" ELSE "preparing")

\* The last check of #startExternalTurn, then the Turn.
StartPlainTurn(r, reserved) ==
    /\ IF steer # NoRequest
       THEN /\ Goto(r, "done")
            /\ UNCHANGED <<running, activeTurn, projected, gate, sessionVars, starting,
                           context, chan, accepted, kept>>
       ELSE BeginFor(r, r, reserved, "starting")
    /\ UNCHANGED <<ephemeral, queueVars, steerVars, lifeVars, consumerVars>>

\* The native selection was applied and the text is not a command.
TurnPrepared(r) ==
    /\ pc[r] = "preparing"
    /\ StartPlainTurn(r, pendingCommand)
    /\ UNCHANGED pendingCommand

\* The native selection or the input was refused.
TurnRejected(r) == pc[r] = "preparing" /\ OnlyMoves(r, "done")

\* The text looks like a command: the Thread is reserved while its catalog is read.
CommandPrepared(r) ==
    /\ pc[r] = "preparing"
    /\ Goto(r, "catalog")
    /\ pendingCommand' = TRUE
    /\ UNCHANGED <<running, activeTurn, projected, gate, ephemeral, queueVars, steerVars,
                   starting, context, lifeVars, consumerVars, sessionVars, chan, accepted, kept>>

\* The catalog names no such command: the reservation ends and the text is sent as typed.
CommandUnmatched(r) ==
    /\ pc[r] = "catalog"
    /\ pendingCommand' = FALSE
    /\ StartPlainTurn(r, FALSE)

\* The catalog or #startExternalCommand failed, and the error was written.
CommandRejected(r) ==
    /\ pc[r] \in {"catalog", "rejecting"}
    /\ pendingCommand' = FALSE
    /\ Goto(r, "done")
    /\ kept' = TRUE
    /\ UNCHANGED <<running, activeTurn, projected, gate, ephemeral, queueVars, steerVars,
                   starting, context, lifeVars, consumerVars, sessionVars, chan, accepted>>

\* #startExternalCommand: an ephemeral Turn.  The Thread stays reserved until it answers.
CommandMatched(r) ==
    /\ pc[r] = "catalog"
    /\ ~running /\ steer = NoRequest /\ ~SessionRefuses
    /\ running' = TRUE /\ activeTurn' = r
    /\ projected' = projected \cup {r} /\ gate' = [gate EXCEPT ![r] = {r}]
    /\ ephemeral' = ephemeral \cup {r}
    /\ IF transport
       THEN SessionAccepts(r) /\ Goto(r, "responding") /\ UNCHANGED starting
       ELSE /\ starting' = r /\ Goto(r, "starting")
            /\ UNCHANGED <<sessionVars, chan, accepted, kept>>
    /\ UNCHANGED <<pendingCommand, queueVars, steerVars, context, lifeVars, consumerVars>>

\* The answer was written: gate.resolve(), and a command's reservation ends.
Respond(r) ==
    /\ pc[r] \in {"responding", "interrupted"}
    /\ Goto(r, "done")
    /\ pendingCommand' = (pendingCommand /\ r \notin ephemeral)
    /\ UNCHANGED <<running, activeTurn, projected, gate, ephemeral, queueVars, steerVars,
                   starting, context, lifeVars, consumerVars, sessionVars, chan, accepted, kept>>

-----------------------------------------------------------------------------
(* turn/steer: cancel the active Turn, wait for its end, start a replacement *)

\* session.execute(turn.cancel) on Turn t as far as its first await: it asks the
\* Session to abort, and a Turn held for background work ends at once.
SessionCancels(t) ==
    /\ phase = "open" /\ active = t
    /\ \/ cancelRequested' = TRUE /\ UNCHANGED <<active, chan>>
       \/ /\ ~cancelRequested
          /\ chan' = Append(chan, Completed(t, "cancelled"))
          /\ active' = NoTurn /\ UNCHANGED cancelRequested
    /\ UNCHANGED <<phase, hardCancel, transport>>

\* ExternalTurnSteering.run for a new message: the guards, then the pending
\* replacement is registered before the cancel is sent.
TurnSteer(r) ==
    /\ Admitted(r)
    /\ \/ /\ steer # NoRequest \/ ~running \/ activeTurn = NoTurn
          /\ Goto(r, "done")
          /\ UNCHANGED <<steerVars, sessionVars, chan, kept>>
       \/ /\ steer = NoRequest /\ running /\ activeTurn # NoTurn
          /\ \/ /\ SessionCancels(activeTurn)
                /\ steer' = r /\ steerTurn' = activeTurn
                /\ steerOutcome' = "none" /\ steerFault' = FALSE
                /\ Goto(r, "steerCancel")
                /\ UNCHANGED kept
             \/ /\ phase # "open" \/ active # activeTurn
                /\ Goto(r, "done")
                /\ kept' = TRUE
                /\ UNCHANGED <<steerVars, sessionVars, chan>>
    /\ UNCHANGED <<hostVars, queueVars, starting, context, lifeVars, consumerVars, accepted>>

\* The `finally` of #replace.
SteerEnds ==
    /\ steer' = NoRequest /\ steerTurn' = NoTurn
    /\ steerOutcome' = "none" /\ steerFault' = FALSE

\* Mutant of StopReceived: a stop that follows the terminal is dropped.
StopReceivedInTime(r) == pc[r] \in {"steerCancel", "steerStop"} /\ steerFault /\ steerOutcome = "none"

\* failure.promise settled while the replacement waits at one of its two races.
StopReceived(r) == pc[r] \in {"steerCancel", "steerStop"} /\ steerFault

\* Promise.race: failure.promise settled first, while the cancel or the Turn goes on.
SteerFails(r) ==
    /\ StopReceived(r)
    /\ SteerEnds /\ Goto(r, "done") /\ kept' = TRUE
    /\ UNCHANGED <<hostVars, queueVars, starting, context, lifeVars, consumerVars,
                   sessionVars, chan, accepted>>

\* The 20 second timer of #replace.
SteerTimeout(r) ==
    /\ pc[r] \in {"steerCancel", "steerStop"} /\ ~steerFault
    /\ steerFault' = TRUE
    /\ UNCHANGED <<hostVars, queueVars, steer, steerTurn, steerOutcome, pc, starting, context,
                   lifeVars, consumerVars, sessionVars, chan, accepted, kept>>

\* Mutant of ReplacementDue: Promise.race alone, which prefers the terminal that came first.
ReplacementDueDespiteStop(r) == pc[r] = "steerStop" /\ steerOutcome # "none"

\* Both promises of the second race of #replace, and the failureReason check after it.
ReplacementDue(r) == pc[r] = "steerStop" /\ steerOutcome # "none" /\ ~steerFault

\* The replaced Turn has ended: start the replacement unless something forbids it.
SteerResumes(r) ==
    /\ ReplacementDue(r)
    /\ IF steerOutcome = "failed" \/ running \/ activeTurn # NoTurn
       THEN /\ Goto(r, "done") /\ kept' = TRUE /\ SteerEnds
            /\ UNCHANGED <<running, activeTurn, projected, gate, sessionVars, starting,
                           context, chan, accepted>>
       ELSE /\ BeginFor(r, r, pendingCommand, "starting")
            /\ IF pc'[r] = "starting" THEN UNCHANGED steerVars ELSE SteerEnds
    /\ UNCHANGED <<ephemeral, pendingCommand, queueVars, lifeVars, consumerVars>>

-----------------------------------------------------------------------------
(* turn/interrupt                                                           *)

\* Stops a pending replacement of Turn t; then cancels t if it is the active Turn,
\* whose output waits for this answer from now on.
TurnInterrupt(r, t) ==
    /\ pc[r] = "unsent" /\ ~closeRequested /\ RouteFree /\ t # NoTurn
    /\ steerFault' = (steerFault \/ (steer # NoRequest /\ steerTurn = t))
    /\ IF ~running \/ activeTurn # t
       THEN Goto(r, "done") /\ UNCHANGED <<gate, sessionVars, chan>>
       ELSE /\ gate' = [gate EXCEPT ![t] = @ \cup {r}]
            /\ \/ SessionCancels(t) /\ Goto(r, "interruptCancel")
               \/ /\ phase # "open" \/ active # t
                  /\ Goto(r, "interrupted")
                  /\ UNCHANGED <<sessionVars, chan>>
    /\ UNCHANGED <<running, activeTurn, projected, ephemeral, pendingCommand, queueVars, steer,
                   steerTurn, steerOutcome, starting, context, lifeVars, consumerVars,
                   accepted, kept>>

\* The abort settled, or timed out and the Session is being stopped instead.
CancelSettles(r) ==
    /\ pc[r] \in {"steerCancel", "interruptCancel"}
    /\ Goto(r, IF pc[r] = "steerCancel" THEN "steerStop" ELSE "interrupted")
    /\ \/ UNCHANGED hardCancel
       \/ /\ active # NoTurn /\ cancelRequested
          /\ r \in gate[active] \/ (steer = r /\ steerTurn = active)
          /\ hardCancel' = TRUE
    /\ UNCHANGED <<hostVars, queueVars, steerVars, starting, context, lifeVars, consumerVars,
                   phase, active, cancelRequested, transport, chan, accepted, kept>>

-----------------------------------------------------------------------------
(* thread/queue/add, delete, reorder, start                                 *)

\* ExternalThreadQueue.add; the answer and thread/queue/changed are then written.
QueueAdd(r, s) ==
    /\ Admitted(r) /\ s \notin added
    /\ IF Len(queue) >= Capacity
       THEN OnlyMoves(r, "done")
       ELSE /\ queue' = Append(queue, s) /\ added' = added \cup {s}
            /\ Goto(r, "announcing")
            /\ UNCHANGED <<hostVars, deleted, steerVars, starting, context, lifeVars,
                           consumerVars, sessionVars, chan, accepted, kept>>

\* Mutant of QueueAddAnnounced: the submission only waits for the end of a Turn.
QueueAddOnly(r) == pc[r] = "announcing" /\ OnlyMoves(r, "done")

\* The writes are done: a submission queued on an idle Thread is dispatched at once.
QueueAddAnnounced(r) ==
    /\ pc[r] = "announcing"
    /\ Goto(r, "done")
    /\ StartQueuedSubmission
    /\ UNCHANGED <<ephemeral, pendingCommand, added, deleted, steerVars, lifeVars, consumerVars>>

\* splice(k, 1)
Without(q, k) == [i \in 1 .. Len(q) - 1 |-> IF i < k THEN q[i] ELSE q[i + 1]]

QueueDelete(k) ==
    /\ ~closeRequested /\ RouteFree
    /\ queue' = Without(queue, k) /\ deleted' = deleted \cup {queue[k]}
    /\ UNCHANGED <<hostVars, added, steerVars, pc, starting, context, lifeVars, consumerVars,
                   sessionVars, chan, accepted, kept>>

\* The ids must name every queued submission exactly once.
QueueReorder(p) ==
    /\ ~closeRequested /\ RouteFree
    /\ p \in [DOMAIN queue -> DOMAIN queue] /\ \A i, j \in DOMAIN queue : p[i] = p[j] => i = j
    /\ queue' = [i \in DOMAIN queue |-> queue[p[i]]]
    /\ UNCHANGED <<hostVars, added, deleted, steerVars, pc, starting, context, lifeVars,
                   consumerVars, sessionVars, chan, accepted, kept>>

\* thread/queue/start takes the named submission; restore puts a refused one at the head.
QueueStart(r, k) ==
    /\ Admitted(r)
    /\ IF Idle
       THEN /\ BeginFor(r, queue[k], pendingCommand, "queueStarting")
            /\ queue' = IF running' THEN Without(queue, k) ELSE Restore(queue[k], Without(queue, k))
       ELSE /\ Goto(r, "done")
            /\ UNCHANGED <<running, activeTurn, projected, gate, queue, sessionVars, starting,
                           context, chan, accepted, kept>>
    /\ UNCHANGED <<ephemeral, pendingCommand, added, deleted, steerVars, lifeVars, consumerVars>>

\* thread/inject_items: the text waits for the Thread's next Turn.
InjectItems(c) ==
    /\ ~closeRequested /\ RouteFree /\ context[c] = "absent"
    /\ context' = [context EXCEPT ![c] = "pending"]
    /\ UNCHANGED <<hostVars, queueVars, steerVars, pc, starting, lifeVars, consumerVars,
                   sessionVars, chan, accepted, kept>>

-----------------------------------------------------------------------------
(* The end of an execute(turn.start) that had to start the transport        *)

\* The request whose Turn is starting, if a request waits for it.
Starters == {r \in Requests : \/ pc[r] = "starting" /\ starting = r
                              \/ pc[r] = "queueStarting" /\ starting \in Subs}

StartAccepted ==
    /\ starting # NoTurn /\ phase = "open"
    /\ SessionAccepts(starting)
    /\ starting' = NoTurn
    /\ pc' = [r \in Requests |-> IF r \in Starters THEN "responding" ELSE pc[r]]
    /\ context' = ContextTo("delivered", "starting")
    /\ IF steer = starting THEN SteerEnds ELSE UNCHANGED steerVars
    /\ UNCHANGED <<hostVars, queueVars, lifeVars, consumerVars>>

\* The transport could not start: the Turn is taken back, a submission goes back to the head.
StartFailed ==
    /\ starting # NoTurn
    /\ running' = FALSE /\ activeTurn' = NoTurn
    /\ projected' = projected \ {starting}
    /\ gate' = [gate EXCEPT ![starting] = {}]
    /\ ephemeral' = ephemeral \ {starting}
    /\ starting' = NoTurn
    /\ queue' = Restore(starting, queue)
    /\ context' = ContextTo("dropped", "starting")
    /\ kept' = TRUE
    /\ pc' = [r \in Requests |-> IF r \in Starters
                                 THEN IF r \in ephemeral THEN "rejecting" ELSE "done"
                                 ELSE pc[r]]
    /\ IF steer = starting THEN SteerEnds ELSE UNCHANGED steerVars
    /\ UNCHANGED <<pendingCommand, added, deleted, lifeVars, consumerVars, sessionVars,
                   chan, accepted>>

-----------------------------------------------------------------------------
(* #consumeHarnessOutputs: one output at a time                             *)

Has(type) == chan # <<>> /\ Head(chan).type = type

\* The `finally` of the consumer, and session.faulted: steering.fault(thread).
FaultSteer == steerFault' = (steerFault \/ steer # NoRequest)

\* Left alone by every step that takes an output or waits with it.
TakesOnly == UNCHANGED <<ephemeral, pendingCommand, queueVars, steer, steerTurn, steerOutcome, pc,
                         starting, context, lifeVars, sessionVars, accepted>>

\* An autonomous Turn opens on a Thread without one; otherwise the consumer throws with
\* the opening in hand, and no output of this Session is ever read again.
ConsumeAutonomous ==
    /\ consumer = "next" /\ Has("autonomous")
    /\ chan' = Tail(chan)
    /\ IF running \/ activeTurn # NoTurn
       THEN /\ consumer' = "overlap" /\ current' = Head(chan) /\ FaultSteer
            /\ UNCHANGED <<running, activeTurn, projected, gate, kept>>
       ELSE LET t == Head(chan).turn IN
            /\ running' = TRUE /\ activeTurn' = t
            /\ projected' = projected \cup {t} /\ gate' = [gate EXCEPT ![t] = {}]
            /\ kept' = FALSE
            /\ UNCHANGED <<consumer, current, steerFault>>
    /\ UNCHANGED <<awaited, announced>>
    /\ TakesOnly

\* #projectedTurn and #waitForTurnResponse: the gate is read once, then awaited.
ConsumeTurnOutput ==
    /\ consumer = "next" /\ (Has("started") \/ Has("completed"))
    /\ chan' = Tail(chan)
    /\ IF Head(chan).turn \in projected
       THEN /\ consumer' = "gate" /\ current' = Head(chan)
            /\ awaited' = gate[Head(chan).turn]
            /\ UNCHANGED steerFault
       ELSE consumer' = "unknown" /\ FaultSteer /\ UNCHANGED <<awaited, current>>
    /\ UNCHANGED <<running, activeTurn, projected, gate, announced, kept>>
    /\ TakesOnly

\* session.faulted reaches the Host.
ConsumeFault ==
    /\ consumer = "next" /\ Has("faulted")
    /\ chan' = Tail(chan)
    /\ FaultSteer
    /\ UNCHANGED <<running, activeTurn, projected, gate, kept, consumer, current, awaited, announced>>
    /\ TakesOnly

\* Requests whose answer is not written yet.
Unanswered == {r \in Requests : pc[r] \in {"starting", "queueStarting", "responding",
                                          "steerCancel", "steerStop", "interruptCancel",
                                          "interrupted"}}

\* Mutant of AnswersWritten: outputs are projected as they come.
AnswersNotAwaited == TRUE

\* #waitForTurnResponse is over.
AnswersWritten == awaited \cap Unanswered = {}

\* The answers were written: turn/started is sent, turn/completed goes on to be persisted.
GateOpens ==
    /\ consumer = "gate" /\ AnswersWritten
    /\ awaited' = {}
    /\ IF current.type = "started"
       THEN /\ announced' = announced \cup {current.turn}
            /\ consumer' = "next" /\ current' = NoEvent
       ELSE consumer' = "persist" /\ UNCHANGED <<current, announced>>
    /\ UNCHANGED <<running, activeTurn, projected, gate, kept, steerFault, chan>>
    /\ TakesOnly

\* The identity was persisted, or the Turn becomes failed; the Turn leaves the Thread.
TurnCompletes(outcome) ==
    /\ consumer = "persist"
    /\ outcome = current.outcome \/ (outcome = "failed" /\ current.turn \notin ephemeral)
    /\ consumer' = "settle" /\ current' = Completed(current.turn, outcome)
    /\ running' = FALSE /\ activeTurn' = NoTurn
    /\ projected' = projected \ {current.turn}
    /\ gate' = [gate EXCEPT ![current.turn] = {}]
    /\ ephemeral' = ephemeral \ {current.turn}
    /\ kept' = (outcome # "succeeded")
    /\ UNCHANGED <<pendingCommand, queueVars, steerVars, pc, starting, context, lifeVars,
                   awaited, announced, sessionVars, chan, accepted>>

\* The notifications were written: steering.terminal, then a successful Turn drains the queue.
TurnSettles ==
    /\ consumer = "settle"
    /\ consumer' = "next" /\ current' = NoEvent
    /\ steerOutcome' = IF steer # NoRequest /\ steerTurn = current.turn
                       THEN current.outcome ELSE steerOutcome
    /\ IF current.outcome = "succeeded"
       THEN StartQueuedSubmission
       ELSE UNCHANGED <<running, activeTurn, projected, gate, queue, starting, context,
                        sessionVars, chan, accepted, kept>>
    /\ UNCHANGED <<ephemeral, pendingCommand, added, deleted, steer, steerTurn, steerFault, pc,
                   lifeVars, awaited, announced>>

\* The channel has ended: HarnessOutputChannel.end() after the last output.
ConsumerEnds ==
    /\ consumer = "next" /\ chan = <<>> /\ phase \in {"closed", "faulted"}
    /\ consumer' = "ended"
    /\ FaultSteer
    /\ UNCHANGED <<running, activeTurn, projected, gate, kept, current, awaited, announced, chan>>
    /\ TakesOnly

-----------------------------------------------------------------------------
(* The Session                                                              *)

HostKeeps == UNCHANGED <<hostVars, queueVars, steerVars, pc, starting, context, lifeVars,
                         consumerVars, kept>>

\* Mutant of SessionEndsTurn: #finish leaves #active as it was.
SessionKeepsTurn(outcome) ==
    /\ chan' = Append(chan, Completed(active, outcome))
    /\ UNCHANGED <<active, cancelRequested>>

\* #finish: the end is reported and the Session is free.
SessionEndsTurn(outcome) ==
    /\ chan' = Append(chan, Completed(active, outcome))
    /\ active' = NoTurn /\ cancelRequested' = FALSE

\* Mutant of Unfinished: a failed Turn is reported even when none is active.
UnfinishedAlways == <<Completed(active, "failed")>>

\* What #close and #fault report of a Turn that is not finished.
Unfinished == IF active = NoTurn THEN <<>> ELSE <<Completed(active, "failed")>>

\* #finishResult: the transport reports the end of the active Turn.
SessionFinishes(outcome) ==
    /\ phase \in {"open", "closing"} /\ active # NoTurn /\ ~hardCancel
    /\ outcome = "cancelled" => cancelRequested
    /\ SessionEndsTurn(outcome)
    /\ UNCHANGED <<phase, hardCancel, transport, accepted>>
    /\ HostKeeps

\* #startAutonomousTurn: Claude went on by itself.  It does not before the first
\* prompt of a process, that is, while execute is still starting the transport.
SessionContinues(t) ==
    /\ phase = "open" /\ active = NoTurn /\ transport /\ t \notin accepted
    /\ active' = t /\ cancelRequested' = FALSE
    /\ chan' = chan \o <<Event("autonomous", t), Event("started", t)>>
    /\ accepted' = accepted \cup {t}
    /\ UNCHANGED <<phase, hardCancel, transport>>
    /\ HostKeeps

\* #armCancelEscalation fired, or the transport failed after a cancel: stop the process.
CancelEscalates ==
    /\ phase = "open" /\ active # NoTurn /\ cancelRequested /\ ~hardCancel
    /\ hardCancel' = TRUE
    /\ UNCHANGED <<phase, active, cancelRequested, transport, chan, accepted>>
    /\ HostKeeps

\* #hardCancel: the process is gone; the Turn is cancelled and the next one resumes.
HardCancelDone ==
    /\ phase = "open" /\ hardCancel /\ active # NoTurn
    /\ SessionEndsTurn("cancelled")
    /\ hardCancel' = FALSE /\ transport' = FALSE
    /\ UNCHANGED <<phase, accepted>>
    /\ HostKeeps

\* #fault: the transport was lost, or could not be closed, whether or not a Turn is active.
SessionFaults ==
    /\ phase = "open"
    /\ transport \/ starting # NoTurn
    /\ cancelRequested => hardCancel
    /\ chan' = chan \o Unfinished \o <<Faulted>>
    /\ active' = NoTurn /\ cancelRequested' = FALSE /\ hardCancel' = FALSE
    /\ phase' = "faulted"
    /\ UNCHANGED <<transport, accepted>>
    /\ HostKeeps

-----------------------------------------------------------------------------
(* Draining and shutdown                                                    *)

\* setAttachmentDraining, called by the hot attachment.
SetDraining(on) ==
    /\ draining # on /\ ~closeRequested
    /\ draining' = on
    /\ UNCHANGED <<hostVars, queueVars, steerVars, pc, starting, context, closeRequested,
                   consumerVars, sessionVars, chan, accepted, kept>>

\* AppServerHost.close: no request is read any more and steering is closed.
HostCloses ==
    /\ ~closeRequested /\ closeRequested' = TRUE
    /\ FaultSteer
    /\ UNCHANGED <<hostVars, queueVars, steer, steerTurn, steerOutcome, pc, starting, context,
                   draining, consumerVars, sessionVars, chan, accepted, kept>>

\* Mutant of OperationsEnded: the close waits for Claude to finish its Turn as well.
TurnAndOperationsEnded ==
    active = NoTurn /\ starting = NoTurn /\ \A r \in Requests : pc[r] \in {"unsent", "done"}

\* idleRelease.drain: every tracked operation has ended.
OperationsEnded == starting = NoTurn /\ \A r \in Requests : pc[r] \in {"unsent", "done"}

\* The `finally` of run: when every tracked operation has ended, the Session is closed.
SessionCloses ==
    /\ closeRequested /\ phase = "open" /\ OperationsEnded
    /\ phase' = "closing"
    /\ UNCHANGED <<active, cancelRequested, hardCancel, transport, chan, accepted>>
    /\ HostKeeps

\* The end of the Session's #close: an unfinished Turn fails and the channel ends.
SessionClosed ==
    /\ phase = "closing"
    /\ phase' = "closed" /\ transport' = FALSE
    /\ chan' = chan \o Unfinished
    /\ active' = NoTurn /\ cancelRequested' = FALSE /\ hardCancel' = FALSE
    /\ UNCHANGED accepted
    /\ HostKeeps

-----------------------------------------------------------------------------

RequestArrives(r) ==
    \/ TurnStart(r) \/ TurnSteer(r)
    \/ \E t \in {activeTurn, steerTurn} : TurnInterrupt(r, t)
    \/ \E s \in Subs : QueueAdd(r, s)
    \/ \E k \in DOMAIN queue : QueueStart(r, k)

RequestContinues(r) ==
    \/ TurnPrepared(r) \/ TurnRejected(r)
    \/ CommandPrepared(r) \/ CommandUnmatched(r) \/ CommandRejected(r) \/ CommandMatched(r)
    \/ SteerFails(r) \/ SteerResumes(r) \/ CancelSettles(r)
    \/ QueueAddAnnounced(r) \/ Respond(r)

DesktopEdits ==
    \/ \E k \in DOMAIN queue : QueueDelete(k)
    \/ \E p \in [DOMAIN queue -> DOMAIN queue] : QueueReorder(p)
    \/ \E c \in Contexts : InjectItems(c)

Consume ==
    \/ ConsumeAutonomous \/ ConsumeTurnOutput \/ ConsumeFault \/ GateOpens
    \/ \E outcome \in Outcomes : TurnCompletes(outcome)
    \/ TurnSettles \/ ConsumerEnds

StartSettles == StartAccepted \/ StartFailed

SessionRuns ==
    \/ \E outcome \in Outcomes : SessionFinishes(outcome)
    \/ \E t \in Autos : SessionContinues(t)
    \/ CancelEscalates \/ HardCancelDone \/ SessionFaults

Next ==
    \/ \E r \in Requests : RequestArrives(r) \/ RequestContinues(r) \/ SteerTimeout(r)
    \/ DesktopEdits \/ StartSettles \/ Consume \/ SessionRuns
    \/ SetDraining(TRUE) \/ SetDraining(FALSE)
    \/ HostCloses \/ SessionCloses \/ SessionClosed

\* The promises of the Host and the Session settle and their timers fire; Claude may run a
\* Turn for ever, and nothing makes Desktop send or the user act.
Fairness ==
    /\ \A r \in Requests : WF_vars(RequestContinues(r)) /\ WF_vars(SteerTimeout(r))
    /\ WF_vars(StartSettles) /\ WF_vars(Consume)
    /\ WF_vars(CancelEscalates) /\ WF_vars(HardCancelDone)
    /\ WF_vars(SessionCloses) /\ WF_vars(SessionClosed)

Spec == Init /\ [][Next]_vars

FairSpec == Spec /\ Fairness
-----------------------------------------------------------------------------
(* Properties                                                               *)

\* What is not projected yet: the output in hand, also the one the consumer threw on, then
\* the channel.
Outputs == (IF consumer \in {"gate", "persist", "overlap"} THEN <<current>> ELSE <<>>) \o chan

\* The openings of autonomous Turns that Host has not seen yet.
Opens(i, t) == i \in DOMAIN Outputs /\ Outputs[i] = Event("autonomous", t)

\* The Host and the Session agree on who runs.  The Turn the Host shows as active is the
\* only one it projects; an output is about that Turn or follows the opening of its own;
\* the Session's Turn is the Host's, or its opening is not projected yet.  So #projectedTurn
\* never throws, and an opening that finds the Thread busy (AutonomousTurnFindsThreadFree)
\* is the one way the two come apart: it is then the first output not projected, for good.
TurnOwnership ==
    /\ running <=> activeTurn # NoTurn
    /\ projected = {activeTurn} \ {NoTurn}
    /\ \A i \in DOMAIN Outputs :
         \/ Outputs[i].turn \in projected \cup {NoTurn}
         \/ \E j \in 1 .. i : Opens(j, Outputs[i].turn)
    /\ active # NoTurn => active = activeTurn \/ \E i \in DOMAIN Outputs : Opens(i, active)
    /\ consumer # "unknown"

\* A message thread/queue/add took is in exactly one place until it is deleted or becomes
\* a Turn: queued once, being started, accepted by the Session, or deleted.  Taking the
\* head, refusing it, and restoring it around a start that fails neither loses nor repeats it.
SubmissionConserved ==
    /\ \A i, j \in DOMAIN queue : queue[i] = queue[j] => i = j
    /\ \A i \in DOMAIN queue : queue[i] \notin accepted \cup deleted \cup {starting}
    /\ starting \notin accepted \cup deleted
    /\ accepted \cap deleted = {}
    /\ \A s \in added : s \in accepted \cup deleted \cup {starting} \/ \E i \in DOMAIN queue : queue[i] = s

\* A start in flight is the Thread's active Turn, and never an autonomous one.
StartIsActive ==
    /\ running <=> activeTurn # NoTurn
    /\ projected = {activeTurn} \ {NoTurn}
    /\ starting \in Requests \cup Subs \cup {NoTurn}
    /\ starting # NoTurn => activeTurn = starting

\* A request waits for its own start, and is past it when the Session has accepted it.
StarterWaits ==
    /\ starting \in Requests => pc[starting] = "starting"
    /\ \A r \in Requests \cap accepted : pc[r] \in {"responding", "done"}

\* No output speaks of a Turn before the Session accepted it.
OutputsAccepted ==
    /\ active \in accepted \cup {NoTurn}
    /\ \A i \in DOMAIN chan : chan[i].turn \in accepted \cup {NoTurn}
    /\ consumer \in {"gate", "persist"} => current.turn \in accepted \cap projected
    /\ consumer = "overlap" => current.turn \in accepted

\* Only what thread/queue/add took is queued, started or deleted.
QueueAdded ==
    /\ \A i \in DOMAIN queue : queue[i] \in added
    /\ deleted \cup ((accepted \cup {starting}) \cap Subs) \subseteq added

\* The strengthening that makes SubmissionConserved inductive.
ConservationInv ==
    /\ TypeOK /\ StartIsActive /\ StarterWaits /\ OutputsAccepted
    /\ QueueAdded /\ SubmissionConserved

\* Desktop sees the answer to turn/start, turn/steer or a command before the first
\* notification of the Turn it began, whatever the Session emits while execute returns.
ResponseFirst == \A r \in Requests \cap announced : pc[r] = "done"

\* A queued message never waits on an idle Thread without a reason its user was told:
\* the last Turn or start there failed or was stopped.
IdleQueueHasReason ==
    /\ Idle /\ ~closeRequested
    /\ consumer = "next" /\ \A r \in Requests : pc[r] # "announcing"
    => queue = <<>> \/ kept

\* A stop, a fault or a timeout that comes before the replacement starts wins, even over
\* the end of the replaced Turn that came first.
StopWins ==
    [][\A r \in Requests : steer = r /\ steerFault /\ pc[r] = "steerStop"
          => pc'[r] \in {"steerStop", "done"} /\ r \notin accepted' /\ starting' # r]_vars

\* What the hot attachment waits for: attachmentState().busy and the unanswered requests.
\* Its timer does not run between the writes that end a Turn or follow a queue/add answer.
Drained ==
    /\ draining /\ ~running /\ activeTurn = NoTurn /\ steer = NoRequest
    /\ \A r \in Requests : pc[r] \in {"unsent", "done"}
    /\ consumer # "settle"

\* Once a drain is complete no Turn starts until it is cancelled, except Claude's own.
DrainHolds == [][Drained /\ draining' /\ running' => activeTurn' \in Autos]_vars

\* Every turn/steer is answered.
SteerSettles ==
    \A r \in Requests : pc[r] \in {"steerCancel", "steerStop"} ~> pc[r] = "done"

\* A Turn whose cancellation was asked ends for Desktop too, however long Claude goes on.
CancelledTurnEnds ==
    \A t \in Turns : active = t /\ cancelRequested ~> activeTurn # t \/ consumer = "overlap"

\* A close ends the consumer, whatever was in flight.
CloseCompletes == closeRequested ~> consumer \in {"ended", "overlap"}

\* external-thread-queue.ts:24: "Official Codex bounds the per-Thread queue; the Host keeps
\* the same defensive cap."
QueueWithinCapacity == Len(queue) <= Capacity

\* app-server-host.ts:1887: an injected text "waits for the Thread's next Turn".
ContextWaitsForATurn == \A c \in Contexts : context[c] # "dropped"

\* app-server-host.ts:3741, the assertion that an autonomous Turn finds its Thread free.
AutonomousTurnFindsThreadFree == consumer # "overlap"
=============================================================================
