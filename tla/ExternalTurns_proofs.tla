------------------------- MODULE ExternalTurns_proofs -------------------------
(***************************************************************************)
(* Proofs about ExternalTurns for every set of requests, submissions,       *)
(* autonomous Turns and injected texts, and every capacity.                 *)
(***************************************************************************)
EXTENDS ExternalTurns, SequenceTheorems, TLAPS

USE DEF hostVars, queueVars, steerVars, lifeVars, consumerVars, sessionVars

\* Events are well typed.
LEMMA EventTypes ==
    /\ \A t \in Turns : Event("started", t) \in StartEvents /\ Event("autonomous", t) \in OpenEvents
    /\ \A t \in Turns, o \in Outcomes : Completed(t, o) \in EndEvents
    /\ OpenEvents \subseteq Events /\ StartEvents \subseteq Events /\ EndEvents \subseteq Events
    /\ Faulted \in Events
<1>1. \A t \in Turns : Event("started", t) \in StartEvents
  BY DEF StartEvents, Event
<1>2. \A t \in Turns : Event("autonomous", t) \in OpenEvents
  BY DEF OpenEvents, Event
<1>3. \A t \in Turns, o \in Outcomes : Completed(t, o) \in EndEvents
  BY DEF EndEvents, Completed
<1> QED BY <1>1, <1>2, <1>3 DEF Events

\* What a type says of an output.
LEMMA EventKinds ==
  ASSUME NEW e \in Events
  PROVE  /\ e.type = "autonomous" => e \in OpenEvents /\ e.turn \in Turns
         /\ e.type = "started" => e \in StartEvents /\ e.turn \in Turns
         /\ e.type = "completed" => e \in EndEvents /\ e.turn \in Turns /\ e.outcome \in Outcomes
<1>1. CASE e \in OpenEvents
  BY <1>1 DEF OpenEvents
<1>2. CASE e \in StartEvents
  BY <1>2 DEF StartEvents
<1>3. CASE e \in EndEvents
  BY <1>3 DEF EndEvents
<1>4. CASE e = Faulted
  BY <1>4 DEF Faulted, Event
<1> QED BY <1>1, <1>2, <1>3, <1>4 DEF Events

\* Removing a member of a queue leaves a queue.
LEMMA WithoutTyped ==
  ASSUME NEW q \in Seq(Subs), NEW k \in DOMAIN q
  PROVE  /\ Without(q, k) \in Seq(Subs)
         /\ Len(Without(q, k)) = Len(q) - 1
         /\ \A i \in DOMAIN Without(q, k) : Without(q, k)[i] = IF i < k THEN q[i] ELSE q[i + 1]
<1>1. Len(q) - 1 \in Nat
  OBVIOUS
<1>2. Without(q, k) \in [1 .. Len(q) - 1 -> Subs]
  BY <1>1 DEF Without
<1>3. Without(q, k) \in Seq(Subs) /\ Len(Without(q, k)) = Len(q) - 1
  BY <1>1, <1>2, IsASeq, LenProperties
<1> QED BY <1>2, <1>3 DEF Without

\* Putting a submission back gives a queue.
LEMMA RestoreTyped ==
  ASSUME NEW q \in Seq(Subs), NEW t \in Turns
  PROVE  Restore(t, q) \in Seq(Subs)
BY DEF Restore

\* The initial state is well typed.
LEMMA TypeInit == Init => TypeOK
<1> SUFFICES ASSUME Init PROVE TypeOK
  OBVIOUS
<1>1. HostTypes
  <2>1. gate \in [Turns -> SUBSET Requests]
    BY DEF Init
  <2>2. running \in BOOLEAN /\ activeTurn \in Turns \cup {NoTurn}
        /\ projected \subseteq Turns /\ ephemeral \subseteq Turns /\ pendingCommand \in BOOLEAN
    BY DEF Init
  <2> QED BY <2>1, <2>2, Zenon DEF HostTypes
<1>2. QueueTypes /\ SteerTypes /\ LifeTypes /\ ConsumerTypes
  <2>1. QueueTypes
    BY DEF Init, QueueTypes
  <2>2. SteerTypes
    BY DEF Init, SteerTypes
  <2>3. LifeTypes
    BY DEF Init, LifeTypes
  <2>4. ConsumerTypes
    BY DEF Init, ConsumerTypes
  <2> QED BY <2>1, <2>2, <2>3, <2>4
<1>3. RequestTypes
  <2>1. pc \in [Requests -> Sites]
    BY DEF Init, Sites
  <2>2. context \in [Contexts -> ContextSites]
    BY DEF Init, ContextSites
  <2>3. starting \in Turns \cup {NoTurn} /\ kept \in BOOLEAN
    BY DEF Init
  <2> QED BY <2>1, <2>2, <2>3, Zenon DEF RequestTypes
<1>4. SessionTypes
  <2>1. chan \in Seq(Events) /\ accepted \subseteq Turns /\ active \in Turns \cup {NoTurn}
    BY DEF Init
  <2>2. phase \in {"open", "closing", "closed", "faulted"} /\ cancelRequested \in BOOLEAN
        /\ hardCancel \in BOOLEAN /\ transport \in BOOLEAN
    BY DEF Init
  <2> QED BY <2>1, <2>2 DEF SessionTypes
<1> QED BY <1>1, <1>2, <1>3, <1>4 DEF TypeOK

-----------------------------------------------------------------------------
(* Type correctness: one lemma per part of a step, then one step per action *)

\* A part of the type invariant whose variables do not change still holds.
LEMMA Undisturbed ==
  ASSUME TypeOK
  PROVE  /\ UNCHANGED hostVars => HostTypes'
         /\ UNCHANGED queueVars => QueueTypes'
         /\ UNCHANGED steerVars => SteerTypes'
         /\ UNCHANGED <<pc, starting, context, kept>> => RequestTypes'
         /\ UNCHANGED lifeVars => LifeTypes'
         /\ UNCHANGED consumerVars => ConsumerTypes'
         /\ UNCHANGED <<sessionVars, chan, accepted>> => SessionTypes'
<1>1. UNCHANGED hostVars => HostTypes'
  BY DEF TypeOK, HostTypes
<1>2. UNCHANGED queueVars => QueueTypes'
  BY DEF TypeOK, QueueTypes
<1>3. UNCHANGED steerVars => SteerTypes'
  BY DEF TypeOK, SteerTypes
<1>4. UNCHANGED <<pc, starting, context, kept>> => RequestTypes'
  BY DEF TypeOK, RequestTypes
<1>5. UNCHANGED lifeVars => LifeTypes'
  BY DEF TypeOK, LifeTypes
<1>6. UNCHANGED consumerVars => ConsumerTypes'
  BY DEF TypeOK, ConsumerTypes
<1>7. UNCHANGED <<sessionVars, chan, accepted>> => SessionTypes'
  BY DEF TypeOK, SessionTypes
<1> QED BY <1>1, <1>2, <1>3, <1>4, <1>5, <1>6, <1>7

\* The context a Turn takes is a set of texts.
LEMMA ContextTyped ==
  ASSUME TypeOK, NEW site \in ContextSites, NEW from
  PROVE  ContextTo(site, from) \in [Contexts -> ContextSites]
BY DEF TypeOK, RequestTypes, ContextTo

\* Moving a request on keeps the program counters typed.
LEMMA GotoTyped ==
  ASSUME TypeOK, NEW r \in Requests, NEW site \in Sites, Goto(r, site)
  PROVE  pc' \in [Requests -> Sites]
BY DEF TypeOK, RequestTypes, Goto

\* What a begin, accepted or refused, changes besides ephemeral, pendingCommand and pc.
BeginTyped ==
    /\ running' \in BOOLEAN /\ activeTurn' \in Turns \cup {NoTurn}
    /\ projected' \subseteq Turns /\ gate' \in [Turns -> SUBSET Requests]
    /\ starting' \in Turns \cup {NoTurn} /\ context' \in [Contexts -> ContextSites]
    /\ kept' \in BOOLEAN /\ SessionTypes'

\* What the Session accepts is well typed.
LEMMA AcceptTyped ==
  ASSUME TypeOK, NEW t \in Turns, SessionAccepts(t)
  PROVE  SessionTypes' /\ kept' \in BOOLEAN
<1>1. chan' \in Seq(Events)
  BY EventTypes DEF SessionAccepts, TypeOK, SessionTypes
<1> QED BY <1>1 DEF SessionAccepts, TypeOK, SessionTypes

\* A refused start leaves typed state.
LEMMA RefusedTyped ==
  ASSUME TypeOK, NEW reserved, BeginRefused(reserved)
  PROVE  BeginTyped
<1>1. context' \in [Contexts -> ContextSites]
  BY ContextTyped DEF BeginRefused, TypeOK, RequestTypes, ContextSites
<1>2. kept' \in BOOLEAN
  BY Zenon DEF BeginRefused
<1>3. SessionTypes'
  BY Undisturbed DEF BeginRefused
<1> QED BY <1>1, <1>2, <1>3 DEF BeginRefused, TypeOK, HostTypes, RequestTypes, BeginTyped

\* An admitted start leaves typed state.
LEMMA AdmittedTyped ==
  ASSUME TypeOK, NEW t \in Turns, NEW answers \in SUBSET Requests, BeginAdmitted(t, answers)
  PROVE  BeginTyped
<1>1. /\ running' \in BOOLEAN /\ activeTurn' \in Turns \cup {NoTurn}
      /\ projected' \subseteq Turns /\ gate' \in [Turns -> SUBSET Requests]
  BY DEF BeginAdmitted, TypeOK, HostTypes
<1>2. CASE transport /\ SessionAccepts(t) /\ context' = ContextTo("delivered", "pending") /\ UNCHANGED starting
  <2>1. context' \in [Contexts -> ContextSites]
    BY <1>2, ContextTyped DEF ContextSites
  <2> QED BY <1>1, <1>2, <2>1, AcceptTyped DEF BeginTyped, TypeOK, RequestTypes
<1>3. CASE /\ starting' = t /\ context' = ContextTo("starting", "pending")
           /\ UNCHANGED <<sessionVars, chan, accepted, kept>>
  <2>1. context' \in [Contexts -> ContextSites]
    BY <1>3, ContextTyped DEF ContextSites
  <2> QED BY <1>1, <1>3, <2>1, Undisturbed DEF BeginTyped, TypeOK, RequestTypes
<1> QED BY <1>2, <1>3 DEF BeginAdmitted

\* Beginning a Turn for a request, refused or admitted, leaves typed state.
LEMMA BeginForTyped ==
  ASSUME TypeOK, NEW r \in Requests, NEW t \in Turns, NEW reserved, NEW site \in Sites,
         BeginFor(r, t, reserved, site)
  PROVE  BeginTyped /\ pc' \in [Requests -> Sites]
<1>1. CASE BeginRefused(reserved) /\ Goto(r, "done")
  BY <1>1, RefusedTyped, GotoTyped DEF Sites
<1>2. CASE BeginAdmitted(t, {r}) /\ Goto(r, IF transport THEN "responding" ELSE site)
  <2>1. (IF transport THEN "responding" ELSE site) \in Sites
    BY DEF Sites
  <2> QED BY <1>2, <2>1, AdmittedTyped, GotoTyped
<1> QED BY <1>1, <1>2 DEF BeginFor

\* A request that begins no Turn leaves the Thread typed.
LEMMA NoBeginTyped ==
  ASSUME TypeOK,
         UNCHANGED <<running, activeTurn, projected, gate, starting, context, sessionVars,
                     chan, accepted>>,
         kept' \in BOOLEAN
  PROVE  BeginTyped
<1>1. SessionTypes'
  BY Undisturbed
<1> QED BY <1>1 DEF BeginTyped, TypeOK, HostTypes, RequestTypes

\* Beginning a queued submission leaves typed state.
LEMMA QueuedBeginTyped ==
  ASSUME TypeOK, StartQueuedSubmission
  PROVE  BeginTyped /\ queue' \in Seq(Subs)
<1> USE DEF TypeOK, QueueTypes
<1>1. CASE closeRequested \/ ~Idle \/ queue = <<>>
  BY <1>1, NoBeginTyped DEF StartQueuedSubmission, RequestTypes
<1>2. CASE BeginRefused(FALSE) /\ UNCHANGED queue
  BY <1>2, RefusedTyped
<1>3. CASE queue # <<>> /\ BeginAdmitted(Head(queue), {}) /\ queue' = Tail(queue)
  <2>1. Head(queue) \in Turns /\ Tail(queue) \in Seq(Subs)
    BY <1>3 DEF Turns
  <2> QED BY <1>3, <2>1, AdmittedTyped
<1> QED BY <1>1, <1>2, <1>3 DEF StartQueuedSubmission

\* Asking the Session to cancel leaves typed state.
LEMMA CancelTyped ==
  ASSUME TypeOK, NEW t \in Turns, SessionCancels(t), UNCHANGED accepted
  PROVE  SessionTypes'
<1>1. Completed(t, "cancelled") \in Events
  BY EventTypes DEF Outcomes
<1> USE DEF TypeOK, SessionTypes
<1>2. CASE UNCHANGED <<active, chan>> /\ cancelRequested' = TRUE
  BY <1>2 DEF SessionCancels
<1>3. CASE chan' = Append(chan, Completed(t, "cancelled")) /\ active' = NoTurn /\ UNCHANGED cancelRequested
  BY <1>1, <1>3 DEF SessionCancels
<1> QED BY <1>2, <1>3 DEF SessionCancels

\* Failing the steering request leaves its fault a Boolean.
LEMMA FaultTyped == FaultSteer => steerFault' \in BOOLEAN
BY Zenon DEF FaultSteer

\* Every step of a Desktop request preserves the type invariant.
LEMMA TypeRequests ==
  ASSUME TypeOK, NEW r \in Requests,
         RequestArrives(r) \/ RequestContinues(r) \/ SteerTimeout(r)
  PROVE  TypeOK'
<1> USE DEF Sites
<1>m. ASSUME NEW site \in Sites, OnlyMoves(r, site)
      PROVE  TypeOK'
  <2>1. RequestTypes'
    BY <1>m, GotoTyped DEF OnlyMoves, TypeOK, RequestTypes
  <2> QED BY <1>m, <2>1, Undisturbed DEF OnlyMoves, TypeOK
<1>1. CASE TurnStart(r)
  BY <1>1, <1>m DEF TurnStart
<1>2. CASE TurnSteer(r)
  <2>1. SessionTypes'
    BY <1>2, CancelTyped, Undisturbed DEF TurnSteer, TypeOK, HostTypes
  <2>2. RequestTypes'
    BY <1>2 DEF TurnSteer, TypeOK, RequestTypes, Goto
  <2>3. SteerTypes'
    BY <1>2 DEF TurnSteer, TypeOK, SteerTypes, HostTypes
  <2> QED BY <1>2, <2>1, <2>2, <2>3, Undisturbed DEF TurnSteer, TypeOK
<1>3. ASSUME NEW t \in {activeTurn, steerTurn}, TurnInterrupt(r, t)
      PROVE  TypeOK'
  <2>1. t \in Turns
    BY <1>3 DEF TurnInterrupt, TypeOK, HostTypes, SteerTypes
  <2>2. SessionTypes'
    BY <1>3, <2>1, CancelTyped, Undisturbed DEF TurnInterrupt
  <2>3. RequestTypes'
    BY <1>3 DEF TurnInterrupt, TypeOK, RequestTypes, Goto
  <2>4. HostTypes'
    BY <1>3, <2>1 DEF TurnInterrupt, TypeOK, HostTypes
  <2>5. steerFault' \in BOOLEAN
    BY <1>3, Zenon DEF TurnInterrupt
  <2>6. SteerTypes'
    BY <1>3, <2>5 DEF TurnInterrupt, TypeOK, SteerTypes
  <2> QED BY <1>3, <2>2, <2>3, <2>4, <2>6, Undisturbed DEF TurnInterrupt, TypeOK
<1>4. ASSUME NEW s \in Subs, QueueAdd(r, s)
      PROVE  TypeOK'
  <2>1. CASE Len(queue) >= Capacity
    BY <1>4, <1>m, <2>1 DEF QueueAdd
  <2>2. CASE ~(Len(queue) >= Capacity)
    <3>1. QueueTypes'
      BY <1>4, <2>2 DEF QueueAdd, TypeOK, QueueTypes
    <3>2. RequestTypes'
      BY <1>4, <2>2, GotoTyped DEF QueueAdd, TypeOK, RequestTypes
    <3> QED BY <1>4, <2>2, <3>1, <3>2, Undisturbed DEF QueueAdd, TypeOK
  <2> QED BY <2>1, <2>2
<1>5. ASSUME NEW k \in DOMAIN queue, QueueStart(r, k)
      PROVE  TypeOK'
  <2>1. queue \in Seq(Subs) /\ queue[k] \in Subs /\ queue[k] \in Turns
    BY DEF TypeOK, QueueTypes, Turns
  <2>2. Without(queue, k) \in Seq(Subs) /\ Restore(queue[k], Without(queue, k)) \in Seq(Subs)
    BY <2>1, WithoutTyped, RestoreTyped
  <2>3. BeginTyped /\ pc' \in [Requests -> Sites] /\ queue' \in Seq(Subs)
    <3>1. CASE Idle
      BY <1>5, <2>1, <2>2, <3>1, BeginForTyped DEF QueueStart
    <3>2. CASE ~Idle
      BY <1>5, <2>1, <3>2, GotoTyped, NoBeginTyped DEF QueueStart, TypeOK, RequestTypes
    <3> QED BY <3>1, <3>2
  <2>4. UNCHANGED <<ephemeral, pendingCommand, added, deleted, steerVars, lifeVars, consumerVars>>
    BY <1>5 DEF QueueStart
  <2>5. HostTypes' /\ QueueTypes' /\ RequestTypes' /\ SessionTypes'
    BY <2>3, <2>4 DEF BeginTyped, TypeOK, HostTypes, QueueTypes, RequestTypes
  <2> QED BY <2>4, <2>5, Undisturbed DEF TypeOK
<1>6. ASSUME NEW reserved, StartPlainTurn(r, reserved), pendingCommand' \in BOOLEAN
      PROVE  TypeOK'
  <2>1. BeginTyped /\ pc' \in [Requests -> Sites]
    <3>1. CASE steer # NoRequest
      BY <1>6, <3>1, GotoTyped, NoBeginTyped DEF StartPlainTurn, TypeOK, RequestTypes
    <3>2. CASE steer = NoRequest
      BY <1>6, <3>2, BeginForTyped DEF StartPlainTurn, Turns
    <3> QED BY <3>1, <3>2
  <2>2. UNCHANGED <<ephemeral, queueVars, steerVars, lifeVars, consumerVars>>
    BY <1>6 DEF StartPlainTurn
  <2>3. HostTypes' /\ RequestTypes' /\ SessionTypes'
    BY <1>6, <2>1, <2>2 DEF BeginTyped, TypeOK, HostTypes, RequestTypes
  <2> QED BY <2>2, <2>3, Undisturbed DEF TypeOK
<1>7. CASE TurnPrepared(r)
  BY <1>6, <1>7 DEF TurnPrepared, TypeOK, HostTypes
<1>8. CASE CommandUnmatched(r)
  BY <1>6, <1>8 DEF CommandUnmatched
<1>9. CASE TurnRejected(r)
  BY <1>9, <1>m DEF TurnRejected
<1>10. ASSUME CommandPrepared(r) \/ CommandRejected(r) \/ Respond(r)
       PROVE  TypeOK'
  <2>1. pendingCommand' \in BOOLEAN
    BY <1>10, Zenon DEF CommandPrepared, CommandRejected, Respond
  <2>2. UNCHANGED <<running, activeTurn, projected, gate, ephemeral, queueVars, steerVars,
                    starting, context, lifeVars, consumerVars, sessionVars, chan, accepted>>
    BY <1>10 DEF CommandPrepared, CommandRejected, Respond
  <2>3. pc' \in [Requests -> Sites] /\ kept' \in BOOLEAN
    BY <1>10, GotoTyped DEF CommandPrepared, CommandRejected, Respond, TypeOK, RequestTypes
  <2>4. HostTypes' /\ RequestTypes'
    BY <2>1, <2>2, <2>3 DEF TypeOK, HostTypes, RequestTypes
  <2> QED BY <2>2, <2>4, Undisturbed DEF TypeOK
<1>11. CASE CommandMatched(r)
  <2>1. r \in Turns
    BY DEF Turns
  <2>2. HostTypes'
    BY <1>11, <2>1 DEF CommandMatched, TypeOK, HostTypes
  <2>3. SessionTypes' /\ kept' \in BOOLEAN /\ pc' \in [Requests -> Sites] /\ starting' \in Turns \cup {NoTurn}
    <3>1. CASE transport
      BY <1>11, <2>1, <3>1, AcceptTyped, GotoTyped DEF CommandMatched, TypeOK, RequestTypes
    <3>2. CASE ~transport
      BY <1>11, <2>1, <3>2, Undisturbed, GotoTyped DEF CommandMatched, TypeOK, RequestTypes
    <3> QED BY <3>1, <3>2
  <2>4. RequestTypes'
    BY <1>11, <2>3 DEF CommandMatched, TypeOK, RequestTypes
  <2> QED BY <1>11, <2>2, <2>3, <2>4, Undisturbed DEF CommandMatched, TypeOK
<1>12. CASE SteerFails(r)
  <2>1. SteerTypes'
    BY <1>12 DEF SteerFails, SteerEnds, SteerTypes
  <2>2. RequestTypes'
    BY <1>12, GotoTyped DEF SteerFails, TypeOK, RequestTypes
  <2> QED BY <1>12, <2>1, <2>2, Undisturbed DEF SteerFails, TypeOK
<1>13. CASE SteerTimeout(r)
  <2>1. SteerTypes'
    BY <1>13 DEF SteerTimeout, TypeOK, SteerTypes
  <2> QED BY <1>13, <2>1, Undisturbed DEF SteerTimeout, TypeOK
<1>14. CASE SteerResumes(r)
  <2>1. BeginTyped /\ pc' \in [Requests -> Sites] /\ (SteerEnds \/ UNCHANGED steerVars)
    <3>1. CASE steerOutcome = "failed" \/ running \/ activeTurn # NoTurn
      BY <1>14, <3>1, GotoTyped, NoBeginTyped DEF SteerResumes
    <3>2. CASE ~(steerOutcome = "failed" \/ running \/ activeTurn # NoTurn)
      BY <1>14, <3>2, BeginForTyped DEF SteerResumes, Turns
    <3> QED BY <3>1, <3>2
  <2>2. UNCHANGED <<ephemeral, pendingCommand, queueVars, lifeVars, consumerVars>>
    BY <1>14 DEF SteerResumes
  <2>3. HostTypes' /\ RequestTypes' /\ SessionTypes'
    BY <2>1, <2>2 DEF BeginTyped, TypeOK, HostTypes, RequestTypes
  <2>4. SteerTypes'
    BY <2>1 DEF SteerEnds, TypeOK, SteerTypes
  <2> QED BY <2>2, <2>3, <2>4, Undisturbed DEF TypeOK
<1>15. CASE CancelSettles(r)
  <2>1. RequestTypes'
    BY <1>15 DEF CancelSettles, TypeOK, RequestTypes, Goto
  <2>2. SessionTypes'
    BY <1>15 DEF CancelSettles, TypeOK, SessionTypes
  <2> QED BY <1>15, <2>1, <2>2, Undisturbed DEF CancelSettles, TypeOK
<1>16. CASE QueueAddAnnounced(r)
  <2>1. UNCHANGED <<ephemeral, pendingCommand, added, deleted, steerVars, lifeVars, consumerVars>>
    BY <1>16 DEF QueueAddAnnounced
  <2>2. BeginTyped /\ queue' \in Seq(Subs) /\ pc' \in [Requests -> Sites]
    BY <1>16, QueuedBeginTyped, GotoTyped DEF QueueAddAnnounced
  <2>3. HostTypes' /\ QueueTypes' /\ RequestTypes' /\ SessionTypes'
    BY <2>1, <2>2 DEF BeginTyped, TypeOK, HostTypes, QueueTypes, RequestTypes
  <2> QED BY <2>1, <2>3, Undisturbed DEF TypeOK
<1> QED BY <1>1, <1>2, <1>3, <1>4, <1>5, <1>7, <1>8, <1>9, <1>10, <1>11, <1>12, <1>13, <1>14,
           <1>15, <1>16 DEF RequestArrives, RequestContinues

\* The output consumer preserves it.
LEMMA TypeConsumer == ASSUME TypeOK, Consume PROVE TypeOK'
<1>1. CASE ConsumeAutonomous
  <2>1. Head(chan) \in Events /\ Head(chan).type = "autonomous" /\ Tail(chan) \in Seq(Events)
    BY <1>1 DEF ConsumeAutonomous, Has, TypeOK, SessionTypes
  <2>2. Head(chan).turn \in Turns
    BY <2>1, EventKinds
  <2>3. SessionTypes'
    BY <1>1, <2>1 DEF ConsumeAutonomous, TakesOnly, TypeOK, SessionTypes
  <2>4. HostTypes' /\ kept' \in BOOLEAN
    BY <1>1, <2>2 DEF ConsumeAutonomous, TakesOnly, TypeOK, HostTypes, RequestTypes
  <2>5. RequestTypes'
    BY <1>1, <2>4 DEF ConsumeAutonomous, TakesOnly, TypeOK, RequestTypes
  <2>6. ConsumerTypes'
    <3>1. consumer = "next" /\ UNCHANGED <<awaited, announced>>
      BY <1>1 DEF ConsumeAutonomous
    <3>2. CASE consumer' = "overlap" /\ current' = Head(chan)
      <4>1. Head(chan) \in OpenEvents
        BY <2>1, EventKinds
      <4> QED BY <3>1, <3>2, <4>1 DEF TypeOK, ConsumerTypes
    <3>3. CASE UNCHANGED <<consumer, current>>
      BY <3>1, <3>3 DEF TypeOK, ConsumerTypes
    <3> QED BY <1>1, <3>2, <3>3 DEF ConsumeAutonomous
  <2>7. SteerTypes'
    BY <1>1, FaultTyped DEF ConsumeAutonomous, TakesOnly, TypeOK, SteerTypes
  <2> QED BY <1>1, <2>3, <2>4, <2>5, <2>6, <2>7, Undisturbed DEF TakesOnly, ConsumeAutonomous, TypeOK
<1>2. CASE ConsumeTurnOutput
  <2>1. /\ Head(chan) \in Events /\ Tail(chan) \in Seq(Events)
        /\ Head(chan).type = "started" \/ Head(chan).type = "completed"
    BY <1>2 DEF ConsumeTurnOutput, Has, TypeOK, SessionTypes
  <2>2. Head(chan) \in StartEvents \cup EndEvents /\ Head(chan).turn \in Turns
    BY <2>1, EventKinds
  <2>3. SessionTypes'
    BY <1>2, <2>1 DEF ConsumeTurnOutput, TakesOnly, TypeOK, SessionTypes
  <2>4. ConsumerTypes'
    BY <1>2, <2>2 DEF ConsumeTurnOutput, TypeOK, ConsumerTypes, HostTypes
  <2>5. SteerTypes'
    BY <1>2, FaultTyped DEF ConsumeTurnOutput, TakesOnly, TypeOK, SteerTypes
  <2> QED BY <1>2, <2>3, <2>4, <2>5, Undisturbed DEF ConsumeTurnOutput, TakesOnly, TypeOK
<1>3. ASSUME ConsumeFault \/ ConsumerEnds
      PROVE  TypeOK'
  <2>1. chan' \in Seq(Events)
    BY <1>3 DEF ConsumeFault, ConsumerEnds, Has, TypeOK, SessionTypes
  <2>2. SessionTypes'
    BY <1>3, <2>1 DEF ConsumeFault, ConsumerEnds, TakesOnly, TypeOK, SessionTypes
  <2>3. ConsumerTypes'
    BY <1>3 DEF ConsumeFault, ConsumerEnds, TypeOK, ConsumerTypes
  <2>4. SteerTypes'
    BY <1>3, FaultTyped DEF ConsumeFault, ConsumerEnds, TakesOnly, TypeOK, SteerTypes
  <2> QED BY <1>3, <2>2, <2>3, <2>4, Undisturbed DEF ConsumeFault, ConsumerEnds, TakesOnly, TypeOK
<1>4. CASE GateOpens
  <2>1. current \in StartEvents \cup EndEvents
    BY <1>4 DEF GateOpens, TypeOK, ConsumerTypes
  <2>2. ConsumerTypes'
    <3>1. CASE current.type = "started"
      <4>1. current.turn \in Turns
        BY <2>1 DEF StartEvents, EndEvents
      <4> QED BY <1>4, <3>1, <4>1 DEF GateOpens, TypeOK, ConsumerTypes
    <3>2. CASE current.type # "started"
      <4>1. current \in EndEvents
        BY <2>1, <3>2 DEF StartEvents
      <4> QED BY <1>4, <3>2, <4>1 DEF GateOpens, TypeOK, ConsumerTypes
    <3> QED BY <3>1, <3>2
  <2> QED BY <1>4, <2>2, Undisturbed DEF GateOpens, TakesOnly, TypeOK
<1>5. ASSUME NEW outcome \in Outcomes, TurnCompletes(outcome)
      PROVE  TypeOK'
  <2>1. current.turn \in Turns
    BY <1>5 DEF TurnCompletes, TypeOK, ConsumerTypes, EndEvents
  <2>2. ConsumerTypes'
    BY <1>5, <2>1, EventTypes DEF TurnCompletes, TypeOK, ConsumerTypes
  <2>3. HostTypes'
    BY <1>5, <2>1 DEF TurnCompletes, TypeOK, HostTypes
  <2>4. kept' \in BOOLEAN
    BY <1>5, Zenon DEF TurnCompletes
  <2>5. RequestTypes'
    BY <1>5, <2>4 DEF TurnCompletes, TypeOK, RequestTypes
  <2> QED BY <1>5, <2>2, <2>3, <2>5, Undisturbed DEF TurnCompletes, TypeOK
<1>6. CASE TurnSettles
  <2>1. current.outcome \in Outcomes
    BY <1>6 DEF TurnSettles, TypeOK, ConsumerTypes, EndEvents
  <2>2. BeginTyped /\ queue' \in Seq(Subs)
    <3>1. CASE current.outcome = "succeeded"
      BY <1>6, <3>1, QueuedBeginTyped DEF TurnSettles
    <3>2. CASE current.outcome # "succeeded"
      BY <1>6, <3>2, NoBeginTyped DEF TurnSettles, TypeOK, RequestTypes, QueueTypes
    <3> QED BY <3>1, <3>2
  <2>3. HostTypes' /\ QueueTypes' /\ RequestTypes' /\ SessionTypes'
    BY <1>6, <2>2 DEF TurnSettles, BeginTyped, TypeOK, HostTypes, QueueTypes, RequestTypes
  <2>4. SteerTypes'
    BY <1>6, <2>1 DEF TurnSettles, TypeOK, SteerTypes
  <2>5. ConsumerTypes'
    BY <1>6 DEF TurnSettles, TypeOK, ConsumerTypes
  <2> QED BY <1>6, <2>3, <2>4, <2>5, Undisturbed DEF TurnSettles, TypeOK
<1> QED BY <1>1, <1>2, <1>3, <1>4, <1>5, <1>6 DEF Consume

\* Edits of the queue preserve it.
LEMMA TypeEdits == ASSUME TypeOK, DesktopEdits PROVE TypeOK'
<1>1. ASSUME NEW k \in DOMAIN queue, QueueDelete(k)
      PROVE  TypeOK'
  <2>1. QueueTypes'
    BY <1>1, WithoutTyped DEF QueueDelete, TypeOK, QueueTypes
  <2> QED BY <1>1, <2>1, Undisturbed DEF QueueDelete, TypeOK
<1>2. ASSUME NEW p \in [DOMAIN queue -> DOMAIN queue], QueueReorder(p)
      PROVE  TypeOK'
  <2>1. queue' \in [1 .. Len(queue) -> Subs] /\ Len(queue) \in Nat
    BY <1>2 DEF QueueReorder, TypeOK, QueueTypes
  <2>2. queue' \in Seq(Subs)
    BY <2>1, IsASeq
  <2>3. QueueTypes'
    BY <1>2, <2>2 DEF QueueReorder, TypeOK, QueueTypes
  <2> QED BY <1>2, <2>3, Undisturbed DEF QueueReorder, TypeOK
<1>3. ASSUME NEW c \in Contexts, InjectItems(c)
      PROVE  TypeOK'
  <2>1. RequestTypes'
    BY <1>3 DEF InjectItems, TypeOK, RequestTypes, ContextSites
  <2> QED BY <1>3, <2>1, Undisturbed DEF InjectItems, TypeOK
<1> QED BY <1>1, <1>2, <1>3 DEF DesktopEdits

\* The settling of a start preserves it.
LEMMA TypeStarts == ASSUME TypeOK, StartSettles PROVE TypeOK'
<1> USE DEF Sites
<1>1. CASE StartAccepted
  <2>1. starting \in Turns /\ SessionAccepts(starting)
    BY <1>1 DEF StartAccepted, TypeOK, RequestTypes
  <2>2. context' \in [Contexts -> ContextSites]
    BY <1>1, ContextTyped DEF StartAccepted, ContextSites
  <2>3. RequestTypes'
    BY <1>1, <2>1, <2>2, AcceptTyped DEF StartAccepted, TypeOK, RequestTypes
  <2>4. SteerTypes'
    BY <1>1 DEF StartAccepted, SteerEnds, TypeOK, SteerTypes
  <2> QED BY <1>1, <2>1, <2>3, <2>4, AcceptTyped, Undisturbed DEF StartAccepted, TypeOK
<1>2. CASE StartFailed
  <2>1. starting \in Turns
    BY <1>2 DEF StartFailed, TypeOK, RequestTypes
  <2>2. context' \in [Contexts -> ContextSites]
    BY <1>2, ContextTyped DEF StartFailed, ContextSites
  <2>3. RequestTypes'
    BY <1>2, <2>2 DEF StartFailed, TypeOK, RequestTypes
  <2>4. SteerTypes'
    BY <1>2 DEF StartFailed, SteerEnds, TypeOK, SteerTypes
  <2>5. HostTypes'
    BY <1>2, <2>1 DEF StartFailed, TypeOK, HostTypes
  <2>6. QueueTypes'
    BY <1>2, <2>1, RestoreTyped DEF StartFailed, TypeOK, QueueTypes
  <2> QED BY <1>2, <2>3, <2>4, <2>5, <2>6, Undisturbed DEF StartFailed, TypeOK
<1> QED BY <1>1, <1>2 DEF StartSettles

\* The steps of the Session preserve it.
LEMMA TypeSession ==
  ASSUME TypeOK, SessionRuns \/ SessionCloses \/ SessionClosed
  PROVE  TypeOK'
<1>1. Unfinished \in Seq(Events) /\ <<Faulted>> \in Seq(Events)
  <2>1. active # NoTurn => Completed(active, "failed") \in Events
    BY EventTypes DEF TypeOK, SessionTypes, Outcomes
  <2> QED BY <2>1, EventTypes DEF Unfinished
<1>2. ASSUME NEW outcome \in Outcomes, active # NoTurn
      PROVE  Append(chan, Completed(active, outcome)) \in Seq(Events)
  BY <1>2, EventTypes DEF TypeOK, SessionTypes
<1>3. chan \in Seq(Events) /\ accepted \subseteq Turns /\ active \in Turns \cup {NoTurn}
      /\ phase \in {"open", "closing", "closed", "faulted"}
      /\ cancelRequested \in BOOLEAN /\ hardCancel \in BOOLEAN /\ transport \in BOOLEAN
  BY DEF TypeOK, SessionTypes
<1>4. ASSUME NEW outcome \in Outcomes, SessionFinishes(outcome)
      PROVE  SessionTypes'
  <2>1. chan' \in Seq(Events)
    BY <1>2, <1>4 DEF SessionFinishes, SessionEndsTurn
  <2> QED BY <1>3, <1>4, <2>1 DEF SessionFinishes, SessionEndsTurn, SessionTypes
<1>5. ASSUME NEW t \in Autos, SessionContinues(t)
      PROVE  SessionTypes'
  <2>1. t \in Turns
    BY DEF Turns
  <2>2. <<Event("autonomous", t), Event("started", t)>> \in Seq(Events)
    BY <2>1, EventTypes
  <2>3. chan' \in Seq(Events)
    BY <1>3, <1>5, <2>2, ConcatProperties DEF SessionContinues
  <2> QED BY <1>3, <1>5, <2>1, <2>3 DEF SessionContinues, SessionTypes
<1>6. ASSUME CancelEscalates
      PROVE  SessionTypes'
  <2>1. chan' \in Seq(Events)
    BY <1>3, <1>6 DEF CancelEscalates
  <2>2. cancelRequested' \in BOOLEAN /\ hardCancel' \in BOOLEAN /\ transport' \in BOOLEAN
    BY <1>3, <1>6, Zenon DEF CancelEscalates
  <2>3. active' \in Turns \cup {NoTurn} /\ accepted' \subseteq Turns
        /\ phase' \in {"open", "closing", "closed", "faulted"}
    BY <1>3, <1>6 DEF CancelEscalates
  <2> QED BY <2>1, <2>2, <2>3, Zenon DEF SessionTypes
<1>7. ASSUME HardCancelDone
      PROVE  SessionTypes'
  <2>1. chan' \in Seq(Events)
    BY <1>2, <1>7 DEF HardCancelDone, SessionEndsTurn, Outcomes
  <2>2. cancelRequested' \in BOOLEAN /\ hardCancel' \in BOOLEAN /\ transport' \in BOOLEAN
    BY <1>3, <1>7, Zenon DEF HardCancelDone, SessionEndsTurn
  <2>3. active' \in Turns \cup {NoTurn} /\ accepted' \subseteq Turns
        /\ phase' \in {"open", "closing", "closed", "faulted"}
    BY <1>3, <1>7 DEF HardCancelDone, SessionEndsTurn
  <2> QED BY <2>1, <2>2, <2>3, Zenon DEF SessionTypes
<1>8. ASSUME SessionFaults
      PROVE  SessionTypes'
  <2>1. chan' \in Seq(Events)
    BY <1>1, <1>3, <1>8, ConcatProperties DEF SessionFaults
  <2>2. cancelRequested' \in BOOLEAN /\ hardCancel' \in BOOLEAN /\ transport' \in BOOLEAN
    BY <1>3, <1>8, Zenon DEF SessionFaults
  <2>3. active' \in Turns \cup {NoTurn} /\ accepted' \subseteq Turns
        /\ phase' \in {"open", "closing", "closed", "faulted"}
    BY <1>3, <1>8 DEF SessionFaults
  <2> QED BY <2>1, <2>2, <2>3, Zenon DEF SessionTypes
<1>9. ASSUME SessionCloses
      PROVE  SessionTypes'
  <2>1. chan' \in Seq(Events)
    BY <1>1, <1>3, <1>9, ConcatProperties DEF SessionCloses
  <2>2. cancelRequested' \in BOOLEAN /\ hardCancel' \in BOOLEAN /\ transport' \in BOOLEAN
    BY <1>3, <1>9, Zenon DEF SessionCloses
  <2>3. active' \in Turns \cup {NoTurn} /\ accepted' \subseteq Turns
        /\ phase' \in {"open", "closing", "closed", "faulted"}
    BY <1>3, <1>9 DEF SessionCloses
  <2> QED BY <2>1, <2>2, <2>3, Zenon DEF SessionTypes
<1>10. ASSUME SessionClosed
      PROVE  SessionTypes'
  <2>1. chan' \in Seq(Events)
    BY <1>1, <1>3, <1>10, ConcatProperties DEF SessionClosed
  <2>2. cancelRequested' \in BOOLEAN /\ hardCancel' \in BOOLEAN /\ transport' \in BOOLEAN
    BY <1>3, <1>10, Zenon DEF SessionClosed
  <2>3. active' \in Turns \cup {NoTurn} /\ accepted' \subseteq Turns
        /\ phase' \in {"open", "closing", "closed", "faulted"}
    BY <1>3, <1>10 DEF SessionClosed
  <2> QED BY <2>1, <2>2, <2>3, Zenon DEF SessionTypes
<1>11. SessionTypes'
  BY <1>4, <1>5, <1>6, <1>7, <1>8, <1>9, <1>10, Zenon DEF SessionRuns
<1>12. HostKeeps
  BY DEF SessionRuns, SessionFinishes, SessionContinues, CancelEscalates, HardCancelDone,
         SessionFaults, SessionCloses, SessionClosed
<1> QED BY <1>11, <1>12, Undisturbed DEF HostKeeps, TypeOK

\* Draining and close preserve it.
LEMMA TypeLife ==
  ASSUME TypeOK, SetDraining(TRUE) \/ SetDraining(FALSE) \/ HostCloses
  PROVE  TypeOK'
<1>1. ASSUME NEW on \in BOOLEAN, SetDraining(on)
      PROVE  TypeOK'
  <2>1. LifeTypes'
    BY <1>1 DEF SetDraining, TypeOK, LifeTypes
  <2> QED BY <1>1, <2>1, Undisturbed DEF SetDraining, TypeOK
<1>2. CASE HostCloses
  <2>1. LifeTypes'
    BY <1>2 DEF HostCloses, TypeOK, LifeTypes
  <2>2. SteerTypes'
    BY <1>2, FaultTyped DEF HostCloses, TypeOK, SteerTypes
  <2> QED BY <1>2, <2>1, <2>2, Undisturbed DEF HostCloses, TypeOK
<1> QED BY <1>1, <1>2

\* The type invariant is inductive.
LEMMA TypeNext == TypeOK /\ [Next]_vars => TypeOK'
<1>1. ASSUME TypeOK, UNCHANGED vars
      PROVE  TypeOK'
  BY <1>1, Undisturbed DEF vars, TypeOK
<1> QED BY <1>1, TypeRequests, TypeConsumer, TypeEdits, TypeStarts, TypeSession, TypeLife DEF Next

\* Every variable keeps its type, and the consumer always holds the kind of output that its
\* place requires: a completion while it persists or settles a Turn, nothing between outputs.
THEOREM TypeCorrect == Spec => []TypeOK
<1>1. Init => TypeOK
  BY TypeInit
<1>2. TypeOK /\ [Next]_vars => TypeOK'
  BY TypeNext
<1> QED BY <1>1, <1>2, PTL DEF Spec
=============================================================================
