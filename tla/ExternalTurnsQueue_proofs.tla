---------------------- MODULE ExternalTurnsQueue_proofs ----------------------
(***************************************************************************)
(* The safety of ExternalTurns, for every value of its constants.  First    *)
(* SubmissionConserved: no message of the queue is lost or started twice;   *)
(* the invariant is ConservationInv, one lemma per part.  On it rest        *)
(* TurnOwnership, with an invariant on the order of the outputs             *)
(* (OwnershipInv), ResponseFirst (AnswerInv), StopWins and                  *)
(* IdleQueueHasReason (ReasonInv).                                          *)
(***************************************************************************)
EXTENDS ExternalTurns_proofs, FiniteSetTheorems

USE DEF hostVars, queueVars, steerVars, lifeVars, consumerVars, sessionVars

-----------------------------------------------------------------------------
(* Sequences of submissions *)

\* restore: the Turn comes first, the others keep their order.
LEMMA RestoreIndexed ==
  ASSUME NEW q \in Seq(Subs), NEW t \in Subs
  PROVE  /\ Restore(t, q) \in Seq(Subs) /\ Len(Restore(t, q)) = Len(q) + 1
         /\ Restore(t, q)[1] = t
         /\ \A i \in DOMAIN q : i + 1 \in DOMAIN Restore(t, q) /\ Restore(t, q)[i + 1] = q[i]
         /\ \A i \in DOMAIN Restore(t, q) : i = 1 \/ (i - 1 \in DOMAIN q /\ Restore(t, q)[i] = q[i - 1])
<1>1. <<t>> \in Seq(Subs) /\ Len(<<t>>) = 1 /\ <<t>>[1] = t
  OBVIOUS
<1>2. Restore(t, q) = <<t>> \o q
  BY DEF Restore
<1>3. /\ <<t>> \o q \in Seq(Subs) /\ Len(<<t>> \o q) = 1 + Len(q)
      /\ \A i \in 1 .. Len(q) + 1 : (<<t>> \o q)[i] = IF i <= 1 THEN <<t>>[i] ELSE q[i - 1]
  BY <1>1, ConcatProperties
<1> QED BY <1>1, <1>2, <1>3

\* Taking the first submission is removing the index 1.
LEMMA TailIsWithout ==
  ASSUME NEW q \in Seq(Subs), q # <<>>
  PROVE  Tail(q) = Without(q, 1) /\ Head(q) = q[1] /\ 1 \in DOMAIN q
<1>1. 1 \in DOMAIN q /\ Head(q) = q[1]
  OBVIOUS
<1>2. /\ Tail(q) \in Seq(Subs) /\ Len(Tail(q)) = Len(q) - 1
      /\ \A i \in 1 .. Len(Tail(q)) : Tail(q)[i] = q[i + 1]
  BY HeadTailProperties
<1>3. /\ Without(q, 1) \in Seq(Subs) /\ Len(Without(q, 1)) = Len(q) - 1
      /\ \A i \in DOMAIN Without(q, 1) : Without(q, 1)[i] = q[i + 1]
  BY <1>1, WithoutTyped
<1>4. Tail(q) = Without(q, 1)
  BY <1>2, <1>3, SeqEqual
<1> QED BY <1>1, <1>4

\* An injection of the places of a sequence reaches every place.
LEMMA ReorderReaches ==
  ASSUME NEW n \in Nat, NEW p \in [1 .. n -> 1 .. n], \A i, j \in 1 .. n : p[i] = p[j] => i = j
  PROVE  \A k \in 1 .. n : \E i \in 1 .. n : p[i] = k
<1>1. p \in Injection(1 .. n, 1 .. n)
  BY DEF Injection, IsInjective
<1>2. IsFiniteSet(1 .. n)
  BY FS_Interval
<1>3. p \in Surjection(1 .. n, 1 .. n)
  BY <1>1, <1>2, FS_Injection
<1> QED BY <1>3 DEF Surjection

-----------------------------------------------------------------------------
(* The parts of ConservationInv that a step leaves alone *)

\* A step that leaves the queue, its starter and the accepted Turns alone conserves every submission.
LEMMA Still ==
  ASSUME ConservationInv
  PROVE  /\ UNCHANGED <<running, activeTurn, projected, starting>> => StartIsActive'
         /\ UNCHANGED <<starting, pc, accepted>> => StarterWaits'
         /\ UNCHANGED <<projected, accepted, active, chan, consumer, current>> => OutputsAccepted'
         /\ UNCHANGED <<queue, added, deleted, starting, accepted>> => QueueAdded' /\ SubmissionConserved'
<1>1. UNCHANGED <<running, activeTurn, projected, starting>> => StartIsActive'
  BY DEF ConservationInv, StartIsActive
<1>2. UNCHANGED <<starting, pc, accepted>> => StarterWaits'
  BY DEF ConservationInv, StarterWaits
<1>3. UNCHANGED <<projected, accepted, active, chan, consumer, current>> => OutputsAccepted'
  BY DEF ConservationInv, OutputsAccepted
<1>4. UNCHANGED <<queue, added, deleted, starting, accepted>> => QueueAdded' /\ SubmissionConserved'
  BY DEF ConservationInv, QueueAdded, SubmissionConserved
<1> QED BY <1>1, <1>2, <1>3, <1>4

\* A request that no start waits for may move, to its answer if its Turn was accepted.
LEMMA RequestMoves ==
  ASSUME ConservationInv, NEW r \in Requests, NEW site, Goto(r, site), starting # r,
         r \in accepted => site \in {"responding", "done"}, UNCHANGED <<starting, accepted>>
  PROVE  StarterWaits'
BY DEF ConservationInv, StarterWaits, Goto, TypeOK, RequestTypes

-----------------------------------------------------------------------------
(* Beginning a Turn *)

\* What a Turn that begins changes of the Thread, the start and the Session.
Begins(t) ==
    /\ running' = TRUE /\ activeTurn' = t /\ projected' = projected \cup {t}
    /\ \/ transport /\ SessionAccepts(t) /\ UNCHANGED starting
       \/ ~transport /\ starting' = t /\ UNCHANGED <<sessionVars, chan, accepted>>

\* An admitted start marks the Thread as running.
LEMMA AdmittedBegins ==
  ASSUME NEW t, NEW answers, BeginAdmitted(t, answers)
  PROVE  Begins(t)
BY DEF BeginAdmitted, Begins

\* Beginning a Turn moves no submission but the one it was begun for.
LEMMA BeginConserves ==
  ASSUME ConservationInv, NEW t \in Requests \cup Subs, t \notin accepted,
         ~running, activeTurn = NoTurn, Begins(t),
         consumer' \notin {"gate", "persist", "overlap"} \/ UNCHANGED <<consumer, current>>
  PROVE  /\ StartIsActive' /\ OutputsAccepted' /\ starting = NoTurn
         /\ \/ transport /\ accepted' = accepted \cup {t} /\ starting' = NoTurn
            \/ ~transport /\ accepted' = accepted /\ starting' = t
<1>1. t \in Turns /\ t # NoTurn /\ projected = {} /\ starting = NoTurn
      /\ consumer \notin {"gate", "persist"} /\ consumer' \notin {"gate", "persist"}
  BY TurnsAssumption DEF ConservationInv, StartIsActive, OutputsAccepted, Turns
<1>2. \/ transport /\ SessionAccepts(t) /\ UNCHANGED starting
      \/ ~transport /\ starting' = t /\ UNCHANGED <<sessionVars, chan, accepted>>
  BY DEF Begins
<1>3. StartIsActive'
  <2>1. running' /\ activeTurn' = t /\ projected' = {t}
    BY <1>1 DEF Begins
  <2>2. starting' \in {t, NoTurn}
    BY <1>1, <1>2
  <2> QED BY <1>1, <2>1, <2>2 DEF StartIsActive
<1>4. OutputsAccepted'
  <2>1. chan \in Seq(Events)
    BY DEF ConservationInv, TypeOK, SessionTypes
  <2>2. CASE SessionAccepts(t)
    <3>1. Event("started", t) \in Events /\ Event("started", t).turn = t
      BY <1>1, EventTypes DEF Event
    <3>2. \A i \in DOMAIN chan' : chan'[i] = Event("started", t) \/ (i \in DOMAIN chan /\ chan'[i] = chan[i])
      BY <2>1, <2>2, <3>1 DEF SessionAccepts
    <3>3. consumer' = "overlap" => current'.turn \in accepted
      BY DEF ConservationInv, OutputsAccepted
    <3> QED BY <1>1, <2>2, <3>1, <3>2, <3>3 DEF SessionAccepts, ConservationInv, OutputsAccepted
  <2>3. CASE UNCHANGED <<sessionVars, chan, accepted>>
    BY <1>1, <2>3 DEF sessionVars, ConservationInv, OutputsAccepted
  <2> QED BY <1>2, <2>2, <2>3
<1> QED BY <1>1, <1>2, <1>3, <1>4 DEF SessionAccepts

\* A Turn of a request leaves the queue alone.
LEMMA RequestTurnConserves ==
  ASSUME ConservationInv, NEW r \in Requests, r \notin accepted, starting = NoTurn,
         UNCHANGED <<queue, added, deleted>>,
         \/ accepted' = accepted \cup {r} /\ starting' = NoTurn
         \/ accepted' = accepted /\ starting' = r
  PROVE  QueueAdded' /\ SubmissionConserved'
<1>1. r # NoTurn /\ r \notin Subs /\ r \notin deleted /\ NoTurn \notin Subs /\ NoTurn \notin accepted /\ NoTurn \notin deleted
  BY TurnsAssumption DEF ConservationInv, TypeOK, QueueTypes, SessionTypes, Turns
<1>2. queue \in Seq(Subs)
  BY DEF ConservationInv, TypeOK, QueueTypes
<1>3. QueueAdded'
  BY <1>1, <1>2 DEF ConservationInv, QueueAdded
<1>4. /\ \A i, j \in DOMAIN queue' : queue'[i] = queue'[j] => i = j
      /\ \A i \in DOMAIN queue' : queue'[i] \notin accepted' \cup deleted' \cup {starting'}
  BY <1>1, <1>2 DEF ConservationInv, SubmissionConserved
<1>5. starting' \notin accepted' \cup deleted' /\ accepted' \cap deleted' = {}
  BY <1>1 DEF ConservationInv, SubmissionConserved
<1>6. \A s \in added' : s \in accepted' \cup deleted' \cup {starting'} \/ \E i \in DOMAIN queue' : queue'[i] = s
  <2>1. \A s \in added : s # NoTurn
    BY <1>1 DEF ConservationInv, TypeOK, QueueTypes
  <2> QED BY <2>1 DEF ConservationInv, SubmissionConserved
<1> QED BY <1>3, <1>4, <1>5, <1>6 DEF SubmissionConserved

\* What is left of a queue without its k-th submission.
LEMMA WithoutKeepsRest ==
  ASSUME ConservationInv, NEW k \in DOMAIN queue, queue' = Without(queue, k)
  PROVE  /\ \A i \in DOMAIN queue' : \E j \in DOMAIN queue : j # k /\ queue'[i] = queue[j]
         /\ \A i, j \in DOMAIN queue' : queue'[i] = queue'[j] => i = j
         /\ \A j \in DOMAIN queue : j # k => \E i \in DOMAIN queue' : queue'[i] = queue[j]
<1>1. queue \in Seq(Subs)
  BY DEF ConservationInv, TypeOK, QueueTypes
<1>2. /\ Without(queue, k) \in Seq(Subs) /\ Len(Without(queue, k)) = Len(queue) - 1
      /\ \A i \in DOMAIN Without(queue, k) : Without(queue, k)[i] = IF i < k THEN queue[i] ELSE queue[i + 1]
  BY <1>1, WithoutTyped
<1>3. \A i, j \in DOMAIN queue : queue[i] = queue[j] => i = j
  BY DEF ConservationInv, SubmissionConserved
<1>4. \A i \in DOMAIN queue' : \E j \in DOMAIN queue : j # k /\ queue'[i] = queue[j]
  BY <1>1, <1>2
<1>5. \A i, j \in DOMAIN queue' : queue'[i] = queue'[j] => i = j
  <2>1. TAKE i, j \in DOMAIN queue'
  <2>2. HAVE queue'[i] = queue'[j]
  <2>3. /\ i \in DOMAIN queue /\ i + 1 \in DOMAIN queue /\ j \in DOMAIN queue /\ j + 1 \in DOMAIN queue
        /\ i \in Nat /\ j \in Nat /\ k \in Nat
    BY <1>1, <1>2
  <2>4. (IF i < k THEN i ELSE i + 1) = (IF j < k THEN j ELSE j + 1)
    BY <1>2, <1>3, <2>2, <2>3
  <2> QED BY <2>3, <2>4
<1>6. \A j \in DOMAIN queue : j # k => \E i \in DOMAIN queue' : queue'[i] = queue[j]
  <2>1. TAKE j \in DOMAIN queue
  <2>2. HAVE j # k
  <2>3. CASE j < k
    BY <1>1, <1>2, <2>3
  <2>4. CASE j > k
    <3>1. j - 1 \in DOMAIN queue' /\ ~(j - 1 < k) /\ (j - 1) + 1 = j
      BY <1>1, <1>2, <2>4
    <3> QED BY <1>2, <3>1
  <2> QED BY <1>1, <2>2, <2>3, <2>4
<1> QED BY <1>4, <1>5, <1>6

\* A submission that begins is taken from its place in the queue.
LEMMA SubmissionTaken ==
  ASSUME ConservationInv, NEW k \in DOMAIN queue, starting = NoTurn,
         queue' = Without(queue, k), UNCHANGED <<added, deleted>>,
         \/ accepted' = accepted \cup {queue[k]} /\ starting' = NoTurn
         \/ accepted' = accepted /\ starting' = queue[k]
  PROVE  QueueAdded' /\ SubmissionConserved'
<1>1. queue \in Seq(Subs) /\ queue[k] \in Subs /\ queue[k] \in added /\ queue[k] \notin accepted \cup deleted
  BY DEF ConservationInv, TypeOK, QueueTypes, QueueAdded, SubmissionConserved
<1>3. \A i, j \in DOMAIN queue : queue[i] = queue[j] => i = j
  BY DEF ConservationInv, SubmissionConserved
<1>4. \A i \in DOMAIN queue' : \E j \in DOMAIN queue : j # k /\ queue'[i] = queue[j]
  BY WithoutKeepsRest
<1>5. \A i, j \in DOMAIN queue' : queue'[i] = queue'[j] => i = j
  BY WithoutKeepsRest
<1>6. \A j \in DOMAIN queue : j # k => \E i \in DOMAIN queue' : queue'[i] = queue[j]
  BY WithoutKeepsRest
<1>7. NoTurn \notin Subs /\ NoTurn \notin accepted \cup deleted
  BY TurnsAssumption DEF ConservationInv, TypeOK, QueueTypes, SessionTypes, Turns
<1>8. QueueAdded'
  BY <1>1, <1>4, <1>7 DEF ConservationInv, QueueAdded
<1>9. \A i \in DOMAIN queue' : queue'[i] \notin accepted' \cup deleted' \cup {starting'}
  BY <1>3, <1>4, <1>7 DEF ConservationInv, SubmissionConserved, TypeOK, QueueTypes
<1>10. \A s \in added' : s \in accepted' \cup deleted' \cup {starting'} \/ \E i \in DOMAIN queue' : queue'[i] = s
  <2>1. \A s \in added : s # NoTurn
    BY <1>7 DEF ConservationInv, TypeOK, QueueTypes
  <2> QED BY <1>6, <2>1 DEF ConservationInv, SubmissionConserved
<1> QED BY <1>1, <1>5, <1>7, <1>8, <1>9, <1>10 DEF ConservationInv, SubmissionConserved

\* A submission that is refused comes first, and is still there once.
LEMMA SubmissionRestored ==
  ASSUME ConservationInv, NEW k \in DOMAIN queue,
         queue' = Restore(queue[k], Without(queue, k)),
         UNCHANGED <<added, deleted, starting, accepted>>
  PROVE  QueueAdded' /\ SubmissionConserved'
<1>1. queue \in Seq(Subs) /\ queue[k] \in Subs
  BY DEF ConservationInv, TypeOK, QueueTypes
<1>2. /\ Without(queue, k) \in Seq(Subs) /\ Len(Without(queue, k)) = Len(queue) - 1
      /\ \A i \in DOMAIN Without(queue, k) : Without(queue, k)[i] = IF i < k THEN queue[i] ELSE queue[i + 1]
  BY <1>1, WithoutTyped
<1>3. /\ queue' \in Seq(Subs) /\ Len(queue') = Len(queue) /\ queue'[1] = queue[k]
      /\ \A i \in DOMAIN queue' : i = 1 \/ (i - 1 \in DOMAIN Without(queue, k) /\ queue'[i] = Without(queue, k)[i - 1])
  <2> DEFINE rest == Without(queue, k)
  <2>1. rest \in Seq(Subs) /\ Len(rest) = Len(queue) - 1 /\ queue' = Restore(queue[k], rest)
    BY <1>2
  <2> HIDE DEF rest
  <2>2. /\ queue' \in Seq(Subs) /\ Len(queue') = Len(rest) + 1 /\ queue'[1] = queue[k]
        /\ \A i \in DOMAIN queue' : i = 1 \/ (i - 1 \in DOMAIN rest /\ queue'[i] = rest[i - 1])
    <3>1. /\ Restore(queue[k], rest) \in Seq(Subs) /\ Len(Restore(queue[k], rest)) = Len(rest) + 1
          /\ Restore(queue[k], rest)[1] = queue[k]
          /\ \A i \in DOMAIN Restore(queue[k], rest) :
               i = 1 \/ (i - 1 \in DOMAIN rest /\ Restore(queue[k], rest)[i] = rest[i - 1])
      BY <1>1, <2>1, RestoreIndexed
    <3> QED BY <2>1, <3>1
  <2>3. Len(queue) \in Nat
    BY <1>1
  <2> QED BY <2>1, <2>2, <2>3 DEF rest
<1> DEFINE Old(i) == IF i = 1 THEN k ELSE IF i - 1 < k THEN i - 1 ELSE i
<1>4. \A i \in DOMAIN queue' : Old(i) \in DOMAIN queue /\ queue'[i] = queue[Old(i)]
  <2>1. /\ DOMAIN queue = 1 .. Len(queue) /\ DOMAIN queue' = 1 .. Len(queue) /\ Len(queue) \in Nat
        /\ DOMAIN Without(queue, k) = 1 .. Len(queue) - 1
    BY <1>1, <1>2, <1>3
  <2>2. ASSUME NEW i \in DOMAIN queue', i # 1
        PROVE  Old(i) \in DOMAIN queue /\ queue'[i] = queue[Old(i)]
    <3>1. i - 1 \in DOMAIN Without(queue, k) /\ queue'[i] = Without(queue, k)[i - 1] /\ i \in 1 .. Len(queue)
      BY <1>3, <2>1, <2>2
    <3>2. Without(queue, k)[i - 1] = IF i - 1 < k THEN queue[i - 1] ELSE queue[i - 1 + 1]
      BY <1>2, <3>1
    <3> QED BY <2>1, <2>2, <3>1, <3>2
  <2> QED BY <1>3, <2>2
<1>5. \A i, j \in DOMAIN queue' : Old(i) = Old(j) => i = j
  BY <1>1, <1>3
<1>6. \A j \in DOMAIN queue : \E i \in DOMAIN queue' : Old(i) = j
  <2>1. TAKE j \in DOMAIN queue
  <2>2. DOMAIN queue' = DOMAIN queue /\ DOMAIN queue = 1 .. Len(queue) /\ Len(queue) \in Nat
    BY <1>1, <1>3
  <2>3. CASE j < k
    <3>1. j + 1 \in DOMAIN queue' /\ Old(j + 1) = j
      BY <2>2, <2>3
    <3> QED BY <3>1
  <2>4. CASE j = k
    <3>1. 1 \in DOMAIN queue' /\ Old(1) = j
      BY <2>2, <2>4
    <3> QED BY <3>1
  <2>5. CASE j > k
    <3>1. j \in DOMAIN queue' /\ Old(j) = j
      BY <2>2, <2>5
    <3> QED BY <3>1
  <2> QED BY <2>2, <2>3, <2>4, <2>5
<1> HIDE DEF Old
<1>7. \A j \in DOMAIN queue : \E i \in DOMAIN queue' : queue'[i] = queue[j]
  BY <1>4, <1>6
<1>8. QueueAdded'
  BY <1>4 DEF ConservationInv, QueueAdded
<1>9. \A i, j \in DOMAIN queue' : queue'[i] = queue'[j] => i = j
  BY <1>4, <1>5 DEF ConservationInv, SubmissionConserved
<1>10. \A i \in DOMAIN queue' : queue'[i] \notin accepted' \cup deleted' \cup {starting'}
  BY <1>4 DEF ConservationInv, SubmissionConserved
<1>11. \A s \in added' : s \in accepted' \cup deleted' \cup {starting'} \/ \E i \in DOMAIN queue' : queue'[i] = s
  BY <1>7 DEF ConservationInv, SubmissionConserved
<1> QED BY <1>8, <1>9, <1>10, <1>11 DEF ConservationInv, SubmissionConserved

\* A submission that is deleted leaves the queue.
LEMMA SubmissionDeleted ==
  ASSUME ConservationInv, NEW k \in DOMAIN queue,
         queue' = Without(queue, k), deleted' = deleted \cup {queue[k]},
         UNCHANGED <<added, starting, accepted>>
  PROVE  QueueAdded' /\ SubmissionConserved'
<1>1. queue \in Seq(Subs) /\ queue[k] \in added /\ queue[k] \notin accepted \cup {starting}
  BY DEF ConservationInv, TypeOK, QueueTypes, QueueAdded, SubmissionConserved
<1>2. /\ \A i \in DOMAIN queue' : \E j \in DOMAIN queue : j # k /\ queue'[i] = queue[j]
      /\ \A i, j \in DOMAIN queue' : queue'[i] = queue'[j] => i = j
      /\ \A j \in DOMAIN queue : j # k => \E i \in DOMAIN queue' : queue'[i] = queue[j]
  BY WithoutKeepsRest
<1>3. QueueAdded'
  BY <1>1, <1>2 DEF ConservationInv, QueueAdded
<1>4. \A i \in DOMAIN queue' : queue'[i] \notin accepted' \cup deleted' \cup {starting'}
  BY <1>1, <1>2 DEF ConservationInv, SubmissionConserved
<1>5. \A s \in added' : s \in accepted' \cup deleted' \cup {starting'} \/ \E i \in DOMAIN queue' : queue'[i] = s
  BY <1>2 DEF ConservationInv, SubmissionConserved
<1> QED BY <1>1, <1>2, <1>3, <1>4, <1>5 DEF ConservationInv, SubmissionConserved

\* A Turn that could not start is taken back: a submission is first in the queue again.
LEMMA StartRestored ==
  ASSUME ConservationInv, starting \in Requests \cup Subs, starting \notin accepted \cup deleted,
         NoTurn \notin accepted \cup deleted,
         queue' = Restore(starting, queue), starting' = NoTurn, UNCHANGED <<added, deleted, accepted>>
  PROVE  QueueAdded' /\ SubmissionConserved'
<1>1. queue \in Seq(Subs) /\ NoTurn \notin Subs /\ added \subseteq Subs
  BY TurnsAssumption DEF ConservationInv, TypeOK, QueueTypes, Turns
<1>2. CASE starting \notin Subs
  <2>1. queue' = queue
    BY <1>2 DEF Restore
  <2>2. QueueAdded'
    BY <1>1, <2>1 DEF ConservationInv, QueueAdded
  <2>3. \A i \in DOMAIN queue : queue[i] # NoTurn
    BY <1>1
  <2> QED BY <1>1, <1>2, <2>1, <2>2, <2>3 DEF ConservationInv, SubmissionConserved
<1>3. CASE starting \in Subs
  <2>1. /\ queue' \in Seq(Subs) /\ Len(queue') = Len(queue) + 1 /\ queue'[1] = starting
        /\ \A i \in DOMAIN queue : i + 1 \in DOMAIN queue' /\ queue'[i + 1] = queue[i]
        /\ \A i \in DOMAIN queue' : i = 1 \/ (i - 1 \in DOMAIN queue /\ queue'[i] = queue[i - 1])
    <3>1. /\ Restore(starting, queue) \in Seq(Subs) /\ Len(Restore(starting, queue)) = Len(queue) + 1
          /\ Restore(starting, queue)[1] = starting
          /\ \A i \in DOMAIN queue : /\ i + 1 \in DOMAIN Restore(starting, queue)
                                   /\ Restore(starting, queue)[i + 1] = queue[i]
          /\ \A i \in DOMAIN Restore(starting, queue) :
               i = 1 \/ (i - 1 \in DOMAIN queue /\ Restore(starting, queue)[i] = queue[i - 1])
      BY <1>1, <1>3, RestoreIndexed
    <3> QED BY <3>1
  <2>2. 1 \in DOMAIN queue' /\ DOMAIN queue' = 1 .. Len(queue) + 1 /\ DOMAIN queue = 1 .. Len(queue) /\ Len(queue) \in Nat
    BY <1>1, <2>1
  <2>3. starting \in added /\ \A i \in DOMAIN queue : queue[i] # starting
    BY <1>3 DEF ConservationInv, QueueAdded, SubmissionConserved
  <2>4. QueueAdded'
    BY <1>1, <2>1, <2>3 DEF ConservationInv, QueueAdded
  <2>5. \A i, j \in DOMAIN queue' : queue'[i] = queue'[j] => i = j
    <3>1. TAKE i, j \in DOMAIN queue'
    <3>2. HAVE queue'[i] = queue'[j]
    <3>3. i = 1 \/ j = 1 => i = j
      BY <2>1, <2>3, <3>2
    <3>4. i # 1 /\ j # 1 => i - 1 = j - 1
      BY <2>1, <3>2 DEF ConservationInv, SubmissionConserved
    <3> QED BY <2>2, <3>3, <3>4
  <2>6. \A i \in DOMAIN queue' : queue'[i] \notin accepted' \cup deleted' \cup {starting'}
    BY <1>1, <1>3, <2>1 DEF ConservationInv, SubmissionConserved
  <2>7. \A s \in added' : s \in accepted' \cup deleted' \cup {starting'} \/ \E i \in DOMAIN queue' : queue'[i] = s
    BY <2>1, <2>2 DEF ConservationInv, SubmissionConserved
  <2> QED BY <2>4, <2>5, <2>6, <2>7 DEF ConservationInv, SubmissionConserved
<1> QED BY <1>2, <1>3

\* #startQueuedSubmission, whatever it comes to.
LEMMA QueuedStartConserves ==
  ASSUME ConservationInv, StartQueuedSubmission, UNCHANGED <<added, deleted>>,
         consumer' \notin {"gate", "persist", "overlap"} \/ UNCHANGED <<consumer, current>>
  PROVE  /\ StartIsActive' /\ OutputsAccepted' /\ QueueAdded' /\ SubmissionConserved'
         /\ starting' # starting => starting = NoTurn /\ (starting' \in Subs \/ starting' = NoTurn)
         /\ accepted' \subseteq accepted \cup Subs
<1>1. CASE UNCHANGED <<running, activeTurn, projected, queue, starting, sessionVars, chan, accepted>>
  <2>1. OutputsAccepted'
    BY <1>1 DEF sessionVars, ConservationInv, OutputsAccepted
  <2> QED BY <1>1, <2>1, Still
<1>2. CASE Idle /\ queue # <<>> /\ BeginAdmitted(Head(queue), {}) /\ queue' = Tail(queue)
  <2>1. queue \in Seq(Subs)
    BY DEF ConservationInv, TypeOK, QueueTypes
  <2>2. Tail(queue) = Without(queue, 1) /\ Head(queue) = queue[1] /\ 1 \in DOMAIN queue
    BY <1>2, <2>1, TailIsWithout
  <2>3. queue[1] \in Subs /\ queue[1] \notin accepted
    BY <2>1, <2>2 DEF ConservationInv, SubmissionConserved
  <2>4. /\ StartIsActive' /\ OutputsAccepted' /\ starting = NoTurn
        /\ \/ accepted' = accepted \cup {queue[1]} /\ starting' = NoTurn
           \/ accepted' = accepted /\ starting' = queue[1]
    BY <1>2, <2>2, <2>3, AdmittedBegins, BeginConserves DEF Idle
  <2>5. QueueAdded' /\ SubmissionConserved'
    BY <1>2, <2>2, <2>4, SubmissionTaken
  <2> QED BY <2>3, <2>4, <2>5
<1> QED BY <1>1, <1>2 DEF StartQueuedSubmission, BeginRefused

\* The request of a Turn that begins goes where StarterWaits wants it.
LEMMA StarterBegins ==
  ASSUME ConservationInv, NEW r \in Requests, Goto(r, IF transport THEN "responding" ELSE "starting"),
         starting = NoTurn,
         \/ transport /\ accepted' = accepted \cup {r} /\ starting' = NoTurn
         \/ ~transport /\ accepted' = accepted /\ starting' = r,
         r \notin accepted
  PROVE  StarterWaits'
<1>1. NoTurn \notin Requests
  BY TurnsAssumption DEF Turns
<1>2. /\ pc'[r] = IF transport THEN "responding" ELSE "starting"
      /\ \A x \in Requests : x # r => pc'[x] = pc[x]
  BY DEF Goto, ConservationInv, TypeOK, RequestTypes
<1> QED BY <1>1, <1>2 DEF ConservationInv, StarterWaits

\* #beginExternalTurn for the Turn of a request that is not accepted yet.
LEMMA BeginForConserves ==
  ASSUME ConservationInv, NEW r \in Requests, NEW reserved, BeginFor(r, r, reserved, "starting"),
         r \notin accepted, starting # r, UNCHANGED <<queue, added, deleted, consumer, current>>
  PROVE  StartIsActive' /\ StarterWaits' /\ OutputsAccepted' /\ QueueAdded' /\ SubmissionConserved'
<1>1. CASE BeginRefused(reserved) /\ Goto(r, "done")
  <2>1. UNCHANGED <<running, activeTurn, projected, starting, accepted, active, chan>>
    BY <1>1 DEF BeginRefused
  <2>2. StarterWaits'
    BY <1>1, <2>1, RequestMoves
  <2> QED BY <2>1, <2>2, Still
<1>2. CASE /\ ~HostRefuses(reserved) /\ BeginAdmitted(r, {r})
           /\ Goto(r, IF transport THEN "responding" ELSE "starting")
  <2>1. /\ StartIsActive' /\ OutputsAccepted' /\ starting = NoTurn
        /\ \/ transport /\ accepted' = accepted \cup {r} /\ starting' = NoTurn
           \/ ~transport /\ accepted' = accepted /\ starting' = r
    BY <1>2, AdmittedBegins, BeginConserves DEF HostRefuses
  <2>2. QueueAdded' /\ SubmissionConserved'
    BY <2>1, RequestTurnConserves
  <2>3. StarterWaits'
    BY <1>2, <2>1, StarterBegins
  <2> QED BY <2>1, <2>2, <2>3
<1> QED BY <1>1, <1>2 DEF BeginFor

-----------------------------------------------------------------------------
(* One lemma per part of Next *)

\* #sessionCancels only ends a Turn that the Session had accepted.
LEMMA CancelConserves ==
  ASSUME ConservationInv, NEW t \in Turns, SessionCancels(t),
         UNCHANGED <<projected, accepted, consumer, current>>
  PROVE  OutputsAccepted'
<1>1. chan \in Seq(Events) /\ t \in accepted
  BY TurnsAssumption DEF SessionCancels, ConservationInv, OutputsAccepted, TypeOK, SessionTypes
<1>2. CASE UNCHANGED <<active, chan>>
  BY <1>2, Still
<1>3. CASE chan' = Append(chan, Completed(t, "cancelled")) /\ active' = NoTurn
  <2>1. Completed(t, "cancelled") \in Events /\ Completed(t, "cancelled").turn = t
    BY EventTypes DEF Completed, Outcomes
  <2>2. \A i \in DOMAIN chan' : chan'[i] = Completed(t, "cancelled") \/ (i \in DOMAIN chan /\ chan'[i] = chan[i])
    BY <1>1, <1>3, <2>1
  <2> QED BY <1>1, <1>3, <2>1, <2>2 DEF ConservationInv, OutputsAccepted
<1> QED BY <1>2, <1>3 DEF SessionCancels

\* Every step of a Desktop request conserves the submissions.
LEMMA RequestsConserve ==
  ASSUME ConservationInv, NEW r \in Requests,
         RequestArrives(r) \/ RequestContinues(r) \/ SteerTimeout(r)
  PROVE  StartIsActive' /\ StarterWaits' /\ OutputsAccepted' /\ QueueAdded' /\ SubmissionConserved'
<1> DEFINE Rest == StartIsActive' /\ StarterWaits' /\ OutputsAccepted' /\ QueueAdded' /\ SubmissionConserved'
\* Before it is answered or waits for its answer, a request's Turn is neither accepted nor started.
<1>f. ASSUME pc[r] \notin {"starting", "responding", "done"}
      PROVE  r \notin accepted /\ starting # r
  BY <1>f DEF ConservationInv, StarterWaits
<1>m. ASSUME NEW site, OnlyMoves(r, site), pc[r] \notin {"starting", "responding", "done"}
      PROVE  Rest
  <2>1. StarterWaits'
    BY <1>f, <1>m, RequestMoves DEF OnlyMoves
  <2> QED BY <1>m, <2>1, Still DEF OnlyMoves
<1>1. CASE TurnStart(r)
  BY <1>1, <1>m DEF TurnStart, Admitted
<1>2. CASE TurnSteer(r)
  <2>1. UNCHANGED <<running, activeTurn, projected, starting, accepted, queue, added, deleted, consumer, current>>
        /\ pc[r] = "unsent"
    BY <1>2 DEF TurnSteer, Admitted
  <2>2. OutputsAccepted'
    <3>1. CASE SessionCancels(activeTurn) /\ activeTurn # NoTurn
      BY <2>1, <3>1, CancelConserves DEF ConservationInv, TypeOK, HostTypes
    <3>2. CASE UNCHANGED <<sessionVars, chan>>
      BY <2>1, <3>2, Still
    <3> QED BY <1>2, <3>1, <3>2 DEF TurnSteer
  <2>3. \E site : Goto(r, site)
    BY <1>2 DEF TurnSteer
  <2>4. StarterWaits'
    BY <1>f, <2>1, <2>3, RequestMoves
  <2> QED BY <2>1, <2>2, <2>4, Still
<1>3. ASSUME NEW t \in {activeTurn, steerTurn}, TurnInterrupt(r, t)
      PROVE  Rest
  <2>1. UNCHANGED <<running, activeTurn, projected, starting, accepted, queue, added, deleted, consumer, current>>
        /\ pc[r] = "unsent" /\ t # NoTurn
    BY <1>3 DEF TurnInterrupt
  <2>2. OutputsAccepted'
    <3>1. CASE SessionCancels(t)
      BY <2>1, <3>1, CancelConserves DEF ConservationInv, TypeOK, HostTypes, SteerTypes
    <3>2. CASE UNCHANGED <<sessionVars, chan>>
      BY <2>1, <3>2, Still
    <3> QED BY <1>3, <3>1, <3>2 DEF TurnInterrupt
  <2>3. \E site : Goto(r, site)
    BY <1>3 DEF TurnInterrupt
  <2>4. StarterWaits'
    BY <1>f, <2>1, <2>3, RequestMoves
  <2> QED BY <2>1, <2>2, <2>4, Still
<1>4. ASSUME NEW s \in Subs, QueueAdd(r, s)
      PROVE  Rest
  <2>1. pc[r] = "unsent" /\ s \notin added
    BY <1>4 DEF QueueAdd, Admitted
  <2>2. CASE Len(queue) >= Capacity
    BY <1>4, <1>m, <2>1, <2>2 DEF QueueAdd
  <2>3. CASE ~(Len(queue) >= Capacity)
    <3>1. /\ queue' = Append(queue, s) /\ added' = added \cup {s} /\ Goto(r, "announcing")
          /\ UNCHANGED <<running, activeTurn, projected, starting, accepted, active, chan, deleted,
                         consumer, current>>
      BY <1>4, <2>3 DEF QueueAdd
    <3>2. StarterWaits'
      BY <1>f, <2>1, <3>1, RequestMoves
    <3>3. queue \in Seq(Subs) /\ s \notin accepted \cup deleted \cup {starting}
          /\ \A i \in DOMAIN queue : queue[i] # s
      BY <2>1 DEF ConservationInv, TypeOK, QueueTypes, QueueAdded
    <3>4. /\ \A i \in DOMAIN queue' : \/ i = Len(queue) + 1 /\ queue'[i] = s
                                      \/ i \in DOMAIN queue /\ queue'[i] = queue[i]
          /\ Len(queue) + 1 \in DOMAIN queue' /\ queue'[Len(queue) + 1] = s
          /\ \A i \in DOMAIN queue : i \in DOMAIN queue' /\ queue'[i] = queue[i]
      BY <3>1, <3>3
    <3>5. QueueAdded'
      BY <3>1, <3>4 DEF ConservationInv, QueueAdded
    <3>6. SubmissionConserved'
      BY <3>1, <3>3, <3>4 DEF ConservationInv, SubmissionConserved
    <3> QED BY <3>1, <3>2, <3>5, <3>6, Still
  <2> QED BY <2>2, <2>3
<1>5. ASSUME NEW k \in DOMAIN queue, QueueStart(r, k)
      PROVE  Rest
  <2>1. pc[r] = "unsent" /\ r \notin accepted /\ starting # r
        /\ UNCHANGED <<added, deleted, consumer, current>>
    BY <1>5, <1>f DEF QueueStart, Admitted
  <2>2. queue[k] \in Subs /\ queue[k] \notin accepted /\ Subs \cap Requests = {} /\ NoTurn \notin Requests
    BY TurnsAssumption DEF ConservationInv, TypeOK, QueueTypes, SubmissionConserved, Turns
  <2>3. CASE ~Idle
    <3>1. Goto(r, "done") /\ UNCHANGED <<running, activeTurn, projected, queue, starting, accepted, active, chan>>
      BY <1>5, <2>3 DEF QueueStart
    <3>2. StarterWaits'
      BY <2>1, <3>1, RequestMoves
    <3> QED BY <2>1, <3>1, <3>2, Still
  <2>4. CASE Idle /\ BeginRefused(pendingCommand) /\ Goto(r, "done")
    <3>1. UNCHANGED <<running, activeTurn, projected, starting, accepted, active, chan>> /\ ~running'
      BY <2>4 DEF BeginRefused, Idle
    <3>2. queue' = Restore(queue[k], Without(queue, k))
      BY <1>5, <2>4, <3>1 DEF QueueStart
    <3>3. StarterWaits'
      BY <2>1, <2>4, <3>1, RequestMoves
    <3> QED BY <2>1, <3>1, <3>2, <3>3, Still, SubmissionRestored
  <2>5. CASE /\ Idle /\ BeginAdmitted(queue[k], {r})
             /\ Goto(r, IF transport THEN "responding" ELSE "queueStarting")
    <3>1. queue' = Without(queue, k)
      BY <1>5, <2>5 DEF QueueStart, BeginAdmitted
    <3>2. /\ StartIsActive' /\ OutputsAccepted' /\ starting = NoTurn
          /\ \/ accepted' = accepted \cup {queue[k]} /\ starting' = NoTurn
             \/ accepted' = accepted /\ starting' = queue[k]
      BY <2>1, <2>2, <2>5, AdmittedBegins, BeginConserves DEF Idle
    <3>3. QueueAdded' /\ SubmissionConserved'
      BY <2>1, <3>1, <3>2, SubmissionTaken
    <3>4. \A x \in Requests : x # r => pc'[x] = pc[x]
      BY <2>5 DEF Goto, ConservationInv, TypeOK, RequestTypes
    <3>5. StarterWaits'
      BY <2>1, <2>2, <3>2, <3>4 DEF ConservationInv, StarterWaits
    <3> QED BY <3>2, <3>3, <3>5
  <2> QED BY <1>5, <2>3, <2>4, <2>5 DEF QueueStart, BeginFor
<1>6. ASSUME NEW reserved, StartPlainTurn(r, reserved), pc[r] \notin {"starting", "responding", "done"}
      PROVE  Rest
  <2>1. r \notin accepted /\ starting # r /\ UNCHANGED <<queue, added, deleted, consumer, current>>
    BY <1>f, <1>6 DEF StartPlainTurn
  <2>2. CASE steer # NoRequest
    <3>1. Goto(r, "done") /\ UNCHANGED <<running, activeTurn, projected, starting, accepted, active, chan>>
      BY <1>6, <2>2 DEF StartPlainTurn
    <3>2. StarterWaits'
      BY <2>1, <3>1, RequestMoves
    <3> QED BY <2>1, <3>1, <3>2, Still
  <2>3. CASE BeginFor(r, r, reserved, "starting")
    BY <2>1, <2>3, BeginForConserves
  <2> QED BY <1>6, <2>2, <2>3 DEF StartPlainTurn
<1>7. CASE TurnPrepared(r) \/ CommandUnmatched(r)
  BY <1>6, <1>7 DEF TurnPrepared, CommandUnmatched
<1>8. CASE TurnRejected(r)
  BY <1>m, <1>8 DEF TurnRejected
<1>9. CASE CommandPrepared(r) \/ CommandRejected(r) \/ SteerFails(r) \/ CancelSettles(r)
  <2>1. /\ pc[r] \notin {"starting", "responding", "done"} /\ \E site : Goto(r, site)
        /\ UNCHANGED <<running, activeTurn, projected, starting, accepted, active, chan,
                       queue, added, deleted, consumer, current>>
    BY <1>9 DEF CommandPrepared, CommandRejected, SteerFails, StopReceived, CancelSettles
  <2>2. StarterWaits'
    BY <1>f, <2>1, RequestMoves
  <2> QED BY <2>1, <2>2, Still
<1>10. CASE CommandMatched(r)
  <2>1. /\ r \notin accepted /\ starting # r /\ UNCHANGED <<queue, added, deleted, consumer, current>>
        /\ ~running /\ activeTurn = NoTurn
    BY <1>f, <1>10 DEF CommandMatched, ConservationInv, StartIsActive
  <2>2. Begins(r) /\ Goto(r, IF transport THEN "responding" ELSE "starting")
    BY <1>10 DEF CommandMatched, Begins
  <2>3. /\ StartIsActive' /\ OutputsAccepted' /\ starting = NoTurn
        /\ \/ transport /\ accepted' = accepted \cup {r} /\ starting' = NoTurn
           \/ ~transport /\ accepted' = accepted /\ starting' = r
    BY <2>1, <2>2, BeginConserves
  <2>4. QueueAdded' /\ SubmissionConserved'
    BY <2>1, <2>3, RequestTurnConserves
  <2>5. StarterWaits'
    BY <2>1, <2>2, <2>3, StarterBegins
  <2> QED BY <2>3, <2>4, <2>5
<1>11. CASE SteerResumes(r)
  <2>1. pc[r] = "steerStop" /\ UNCHANGED <<queue, added, deleted, consumer, current>>
    BY <1>11 DEF SteerResumes, ReplacementDue
  <2>2. CASE Goto(r, "done") /\ UNCHANGED <<running, activeTurn, projected, starting, accepted, active, chan>>
    <3>1. StarterWaits'
      BY <1>f, <2>1, <2>2, RequestMoves
    <3> QED BY <2>1, <2>2, <3>1, Still
  <2>3. CASE BeginFor(r, r, pendingCommand, "starting")
    BY <1>f, <2>1, <2>3, BeginForConserves
  <2> QED BY <1>11, <2>2, <2>3 DEF SteerResumes
<1>12. CASE QueueAddAnnounced(r)
  <2>1. /\ pc[r] = "announcing" /\ Goto(r, "done") /\ StartQueuedSubmission
        /\ UNCHANGED <<added, deleted, consumer, current>>
    BY <1>12 DEF QueueAddAnnounced
  <2>2. /\ StartIsActive' /\ OutputsAccepted' /\ QueueAdded' /\ SubmissionConserved'
        /\ starting' # starting => starting = NoTurn /\ (starting' \in Subs \/ starting' = NoTurn)
        /\ accepted' \subseteq accepted \cup Subs
    BY <2>1, QueuedStartConserves
  <2>3. Subs \cap Requests = {} /\ NoTurn \notin Requests
    BY TurnsAssumption DEF Turns
  <2>4. pc'[r] = "done" /\ \A x \in Requests : x # r => pc'[x] = pc[x]
    BY <2>1 DEF Goto, ConservationInv, TypeOK, RequestTypes
  <2>5. StarterWaits'
    BY <1>f, <2>1, <2>2, <2>3, <2>4 DEF ConservationInv, StarterWaits
  <2> QED BY <2>2, <2>5
<1>13. CASE Respond(r)
  <2>1. /\ pc[r] \in {"responding", "interrupted"} /\ Goto(r, "done")
        /\ UNCHANGED <<running, activeTurn, projected, starting, accepted, active, chan,
                       queue, added, deleted, consumer, current>>
    BY <1>13 DEF Respond
  <2>2. starting # r
    BY <2>1 DEF ConservationInv, StarterWaits
  <2>3. StarterWaits'
    BY <2>1, <2>2, RequestMoves
  <2> QED BY <2>1, <2>3, Still
<1>14. CASE SteerTimeout(r)
  BY <1>14, Still DEF SteerTimeout
<1> QED BY <1>1, <1>2, <1>3, <1>4, <1>5, <1>7, <1>8, <1>9, <1>10, <1>11, <1>12, <1>13, <1>14
        DEF RequestArrives, RequestContinues

\* Editing the queue conserves them: what leaves it is deleted.
LEMMA EditsConserve ==
  ASSUME ConservationInv, DesktopEdits
  PROVE  StartIsActive' /\ StarterWaits' /\ OutputsAccepted' /\ QueueAdded' /\ SubmissionConserved'
<1> DEFINE Rest == StartIsActive' /\ StarterWaits' /\ OutputsAccepted' /\ QueueAdded' /\ SubmissionConserved'
<1>q. queue \in Seq(Subs)
  BY DEF ConservationInv, TypeOK, QueueTypes
<1>1. ASSUME NEW k \in DOMAIN queue, QueueDelete(k)
      PROVE  Rest
  <2>1. /\ queue' = Without(queue, k) /\ deleted' = deleted \cup {queue[k]}
        /\ UNCHANGED <<running, activeTurn, projected, pc, starting, accepted, active, chan,
                       added, consumer, current>>
    BY <1>1 DEF QueueDelete
  <2>2. QueueAdded' /\ SubmissionConserved'
    BY <2>1, SubmissionDeleted
  <2> QED BY <2>1, <2>2, Still
<1>2. ASSUME NEW p \in [DOMAIN queue -> DOMAIN queue], QueueReorder(p)
      PROVE  Rest
  <2>1. /\ queue' = [i \in DOMAIN queue |-> queue[p[i]]]
        /\ \A i, j \in DOMAIN queue : p[i] = p[j] => i = j
        /\ UNCHANGED <<running, activeTurn, projected, pc, starting, accepted, active, chan,
                       added, deleted, consumer, current>>
    BY <1>2 DEF QueueReorder
  <2>2. DOMAIN queue = 1 .. Len(queue) /\ Len(queue) \in Nat
    BY <1>q
  <2>3. \A k \in DOMAIN queue : \E i \in DOMAIN queue : p[i] = k
    <3>1. p \in [1 .. Len(queue) -> 1 .. Len(queue)] /\ \A i, j \in 1 .. Len(queue) : p[i] = p[j] => i = j
      BY <2>1, <2>2
    <3>2. \A k \in 1 .. Len(queue) : \E i \in 1 .. Len(queue) : p[i] = k
      <4> DEFINE n == Len(queue)
      <4>1. n \in Nat /\ p \in [1 .. n -> 1 .. n] /\ \A i, j \in 1 .. n : p[i] = p[j] => i = j
        BY <2>2, <3>1
      <4> HIDE DEF n
      <4>2. \A k \in 1 .. n : \E i \in 1 .. n : p[i] = k
        BY <4>1, ReorderReaches
      <4> QED BY <4>2 DEF n
    <3> QED BY <2>2, <3>2
  <2>4. /\ DOMAIN queue' = DOMAIN queue
        /\ \A i \in DOMAIN queue' : p[i] \in DOMAIN queue /\ queue'[i] = queue[p[i]]
        /\ \A k \in DOMAIN queue : \E i \in DOMAIN queue' : queue'[i] = queue[k]
    BY <2>1, <2>3
  <2>5. QueueAdded'
    BY <2>1, <2>4 DEF ConservationInv, QueueAdded
  <2>6. \A i, j \in DOMAIN queue' : queue'[i] = queue'[j] => i = j
    BY <2>1, <2>4 DEF ConservationInv, SubmissionConserved
  <2>7. \A i \in DOMAIN queue' : queue'[i] \notin accepted' \cup deleted' \cup {starting'}
    BY <2>1, <2>4 DEF ConservationInv, SubmissionConserved
  <2>8. \A s \in added' : s \in accepted' \cup deleted' \cup {starting'} \/ \E i \in DOMAIN queue' : queue'[i] = s
    BY <2>1, <2>4 DEF ConservationInv, SubmissionConserved
  <2>9. SubmissionConserved'
    BY <2>1, <2>6, <2>7, <2>8 DEF ConservationInv, SubmissionConserved
  <2> QED BY <2>1, <2>5, <2>9, Still
<1>3. ASSUME NEW c \in Contexts, InjectItems(c)
      PROVE  Rest
  BY <1>3, Still DEF InjectItems
<1> QED BY <1>1, <1>2, <1>3 DEF DesktopEdits

\* The settling of a start conserves them: accepted, or put back.
LEMMA StartsConserve ==
  ASSUME ConservationInv, StartSettles
  PROVE  StartIsActive' /\ StarterWaits' /\ OutputsAccepted' /\ QueueAdded' /\ SubmissionConserved'
<1>1. /\ starting \in Requests \cup Subs /\ starting # NoTurn /\ activeTurn = starting
      /\ starting \notin accepted \cup deleted /\ projected = {starting}
      /\ NoTurn \notin Requests /\ Requests \cap Subs = {} /\ NoTurn \notin accepted \cup deleted \cup Subs
  BY TurnsAssumption DEF StartSettles, StartAccepted, StartFailed, ConservationInv, StartIsActive,
                         SubmissionConserved, TypeOK, QueueTypes, SessionTypes, Turns
<1>2. consumer \notin {"gate", "persist"}
  BY <1>1 DEF ConservationInv, OutputsAccepted
<1>3. starting \in Requests => starting \in Starters
  BY DEF ConservationInv, StarterWaits, Starters
<1>4. \A r \in Requests \ {starting} : r \in Starters => pc[r] = "queueStarting" /\ starting \in Subs
  BY DEF Starters
<1>5. CASE StartAccepted
  <2>1. /\ SessionAccepts(starting) /\ starting' = NoTurn
        /\ pc' = [r \in Requests |-> IF r \in Starters THEN "responding" ELSE pc[r]]
        /\ UNCHANGED <<running, activeTurn, projected, queue, added, deleted, consumer, current>>
    BY <1>5 DEF StartAccepted
  <2>2. accepted' = accepted \cup {starting} /\ active' = starting /\ chan' = Append(chan, Event("started", starting))
    BY <2>1 DEF SessionAccepts
  <2>3. StartIsActive'
    BY <1>1, <2>1 DEF ConservationInv, StartIsActive
  <2>4. StarterWaits'
    BY <1>1, <1>3, <2>1, <2>2 DEF ConservationInv, StarterWaits
  <2>5. OutputsAccepted'
    <3>1. Event("started", starting) \in Events /\ Event("started", starting).turn = starting /\ chan \in Seq(Events)
      BY <1>1, EventTypes DEF Event, ConservationInv, TypeOK, SessionTypes, Turns
    <3>2. \A i \in DOMAIN chan' : chan'[i] = Event("started", starting) \/ (i \in DOMAIN chan /\ chan'[i] = chan[i])
      BY <2>2, <3>1
    <3> QED BY <1>2, <2>1, <2>2, <3>1, <3>2 DEF ConservationInv, OutputsAccepted
  <2>6. QueueAdded'
    BY <1>1, <2>1, <2>2 DEF ConservationInv, QueueAdded
  <2>7. SubmissionConserved'
    <3>1. queue \in Seq(Subs) /\ added \subseteq Subs /\ \A i \in DOMAIN queue : queue[i] # NoTurn
      BY <1>1 DEF ConservationInv, TypeOK, QueueTypes
    <3>2. \A i \in DOMAIN queue' : queue'[i] \notin accepted' \cup deleted' \cup {starting'}
      BY <2>1, <2>2, <3>1 DEF ConservationInv, SubmissionConserved
    <3>3. \A s \in added' : s \in accepted' \cup deleted' \cup {starting'} \/ \E i \in DOMAIN queue' : queue'[i] = s
      BY <2>1, <2>2 DEF ConservationInv, SubmissionConserved
    <3> QED BY <1>1, <2>1, <2>2, <3>2, <3>3 DEF ConservationInv, SubmissionConserved
  <2> QED BY <2>3, <2>4, <2>5, <2>6, <2>7
<1>6. CASE StartFailed
  <2>1. /\ ~running' /\ activeTurn' = NoTurn /\ projected' = projected \ {starting}
        /\ starting' = NoTurn /\ queue' = Restore(starting, queue)
        /\ UNCHANGED <<accepted, active, chan, added, deleted, consumer, current>>
    BY <1>6 DEF StartFailed
  <2>2. StartIsActive'
    BY <1>1, <2>1 DEF StartIsActive
  <2>3. StarterWaits'
    <3>1. \A r \in Requests \cap accepted : r \notin Starters
      BY <1>1, <1>4 DEF ConservationInv, StarterWaits
    <3>2. \A r \in Requests : r \notin Starters => pc'[r] = pc[r]
      BY <1>6 DEF StartFailed
    <3> QED BY <1>1, <2>1, <3>1, <3>2 DEF ConservationInv, StarterWaits
  <2>4. OutputsAccepted'
    BY <1>2, <2>1 DEF ConservationInv, OutputsAccepted
  <2>5. QueueAdded' /\ SubmissionConserved'
    BY <1>1, <2>1, StartRestored
  <2> QED BY <2>2, <2>3, <2>4, <2>5
<1> QED BY <1>5, <1>6 DEF StartSettles

\* The output consumer conserves them, also when it starts the next one.
LEMMA ConsumerConserves ==
  ASSUME ConservationInv, Consume
  PROVE  StartIsActive' /\ StarterWaits' /\ OutputsAccepted' /\ QueueAdded' /\ SubmissionConserved'
<1> DEFINE Rest == StartIsActive' /\ StarterWaits' /\ OutputsAccepted' /\ QueueAdded' /\ SubmissionConserved'
<1>q. chan \in Seq(Events) /\ projected \subseteq Turns /\ NoTurn \notin Turns
  BY TurnsAssumption DEF ConservationInv, TypeOK, SessionTypes, HostTypes
\* Taking the first output leaves outputs of accepted Turns.
<1>t. ASSUME chan # <<>>, chan' = Tail(chan), UNCHANGED <<active, accepted>>,
             consumer' \in {"gate", "persist"} => current'.turn \in accepted \cap projected',
             consumer' = "overlap" => current'.turn \in accepted
      PROVE  OutputsAccepted'
  <2>1. \A i \in DOMAIN chan' : i + 1 \in DOMAIN chan /\ chan'[i] = chan[i + 1]
    BY <1>q, <1>t, HeadTailProperties
  <2> QED BY <1>t, <2>1 DEF ConservationInv, OutputsAccepted
<1>h. chan # <<>> => Head(chan) \in Events /\ Head(chan).turn \in accepted \cup {NoTurn}
  <2>1. SUFFICES ASSUME chan # <<>> PROVE Head(chan) \in Events /\ Head(chan).turn \in accepted \cup {NoTurn}
    OBVIOUS
  <2>2. 1 \in DOMAIN chan /\ Head(chan) = chan[1] /\ Head(chan) \in Events
    BY <1>q, <2>1
  <2> QED BY <2>2 DEF ConservationInv, OutputsAccepted
<1>1. CASE ConsumeAutonomous
  <2>1. /\ Has("autonomous") /\ consumer = "next" /\ chan' = Tail(chan)
        /\ UNCHANGED <<queue, added, deleted, pc, starting, accepted, active>>
        /\ \/ consumer' = "next"
           \/ consumer' = "overlap" /\ current' = Head(chan)
    BY <1>1 DEF ConsumeAutonomous, TakesOnly
  <2>2. OutputsAccepted'
    <3>1. chan # <<>> /\ Head(chan).turn # NoTurn
      BY <1>h, <1>q, <2>1, EventKinds DEF Has
    <3> QED BY <1>h, <1>t, <2>1, <3>1
  <2>3. CASE UNCHANGED <<running, activeTurn, projected>>
    BY <2>1, <2>2, <2>3, Still
  <2>4. CASE /\ ~running /\ activeTurn = NoTurn
             /\ running' = TRUE /\ activeTurn' = Head(chan).turn
             /\ projected' = projected \cup {Head(chan).turn}
    <3>1. Head(chan).turn # NoTurn /\ starting = NoTurn /\ projected = {}
      BY <1>h, <1>q, <2>1, <2>4, EventKinds DEF Has, ConservationInv, StartIsActive
    <3>2. StartIsActive'
      BY <2>1, <2>4, <3>1 DEF StartIsActive
    <3> QED BY <2>1, <2>2, <3>2, Still
  <2> QED BY <1>1, <2>3, <2>4 DEF ConsumeAutonomous
<1>2. CASE ConsumeTurnOutput
  <2>1. /\ chan # <<>> /\ chan' = Tail(chan)
        /\ UNCHANGED <<running, activeTurn, projected, queue, added, deleted, pc, starting, accepted, active>>
        /\ consumer' \in {"gate", "persist"} => current' = Head(chan) /\ Head(chan).turn \in projected
        /\ consumer' # "overlap"
    BY <1>2 DEF ConsumeTurnOutput, TakesOnly, Has
  <2>2. OutputsAccepted'
    BY <1>h, <1>q, <1>t, <2>1
  <2> QED BY <2>1, <2>2, Still
<1>3. CASE ConsumeFault
  <2>1. /\ chan # <<>> /\ chan' = Tail(chan) /\ consumer' = "next"
        /\ UNCHANGED <<running, activeTurn, projected, queue, added, deleted, pc, starting, accepted, active>>
    BY <1>3 DEF ConsumeFault, TakesOnly, Has
  <2>2. OutputsAccepted'
    BY <1>t, <2>1
  <2> QED BY <2>1, <2>2, Still
<1>4. CASE GateOpens \/ ConsumerEnds
  <2>1. /\ consumer' \in {"gate", "persist"} => consumer = "gate" /\ UNCHANGED current
        /\ consumer' # "overlap"
        /\ UNCHANGED <<running, activeTurn, projected, queue, added, deleted, pc, starting, accepted,
                       active, chan>>
    BY <1>4 DEF GateOpens, ConsumerEnds, TakesOnly
  <2>2. OutputsAccepted'
    BY <2>1 DEF ConservationInv, OutputsAccepted
  <2> QED BY <2>1, <2>2, Still
<1>5. ASSUME NEW outcome \in Outcomes, TurnCompletes(outcome)
      PROVE  Rest
  <2>1. /\ consumer = "persist" /\ consumer' = "settle"
        /\ ~running' /\ activeTurn' = NoTurn /\ projected' = projected \ {current.turn}
        /\ UNCHANGED <<queue, added, deleted, pc, starting, accepted, active, chan>>
    BY <1>5 DEF TurnCompletes
  <2>2. current.turn = activeTurn /\ projected = {activeTurn} /\ activeTurn \in accepted
    BY <2>1 DEF ConservationInv, OutputsAccepted, StartIsActive
  <2>3. starting = NoTurn
    BY <2>2 DEF ConservationInv, StartIsActive, SubmissionConserved
  <2>4. StartIsActive'
    BY <2>1, <2>2, <2>3 DEF StartIsActive
  <2>5. OutputsAccepted'
    BY <2>1 DEF ConservationInv, OutputsAccepted
  <2> QED BY <2>1, <2>4, <2>5, Still
<1>6. CASE TurnSettles
  <2>1. consumer = "settle" /\ consumer' = "next" /\ UNCHANGED <<added, deleted, pc>>
    BY <1>6 DEF TurnSettles
  <2>2. CASE StartQueuedSubmission
    <3>1. /\ StartIsActive' /\ OutputsAccepted' /\ QueueAdded' /\ SubmissionConserved'
          /\ starting' # starting => starting = NoTurn /\ (starting' \in Subs \/ starting' = NoTurn)
          /\ accepted' \subseteq accepted \cup Subs
      BY <2>1, <2>2, QueuedStartConserves
    <3>2. Subs \cap Requests = {} /\ NoTurn \notin Requests
      BY TurnsAssumption DEF Turns
    <3>3. StarterWaits'
      BY <2>1, <3>1, <3>2 DEF ConservationInv, StarterWaits
    <3> QED BY <3>1, <3>3
  <2>3. CASE UNCHANGED <<running, activeTurn, projected, queue, starting, sessionVars, chan, accepted>>
    <3>1. OutputsAccepted'
      BY <2>1, <2>3 DEF ConservationInv, OutputsAccepted
    <3> QED BY <2>1, <2>3, <3>1, Still
  <2> QED BY <1>6, <2>2, <2>3 DEF TurnSettles
<1> QED BY <1>1, <1>2, <1>3, <1>4, <1>5, <1>6 DEF Consume

\* The Session and the life of the Host conserve them.
LEMMA SessionConserves ==
  ASSUME ConservationInv, SessionRuns \/ SessionCloses \/ SessionClosed
  PROVE  StartIsActive' /\ StarterWaits' /\ OutputsAccepted' /\ QueueAdded' /\ SubmissionConserved'
<1>1. UNCHANGED <<running, activeTurn, projected, pc, starting, queue, added, deleted, consumer, current>>
  BY DEF SessionRuns, SessionFinishes, SessionContinues, CancelEscalates, HardCancelDone,
         SessionFaults, SessionCloses, SessionClosed, HostKeeps
<1>2. chan \in Seq(Events) /\ active \in Turns \cup {NoTurn}
  BY DEF ConservationInv, TypeOK, SessionTypes
\* Outputs about the Session's own Turn may follow.
<1>3. ASSUME NEW more \in Seq(Events), \A i \in DOMAIN more : more[i].turn \in accepted' \cup {NoTurn},
             chan' = chan \o more, active' \in accepted' \cup {NoTurn}, accepted \subseteq accepted'
      PROVE  OutputsAccepted'
  <2>1. \A i \in DOMAIN chan' : \/ i \in DOMAIN chan /\ chan'[i] = chan[i]
                                \/ i - Len(chan) \in DOMAIN more /\ chan'[i] = more[i - Len(chan)]
    <3> DEFINE all == chan \o more
    <3>1. /\ all \in Seq(Events) /\ Len(all) = Len(chan) + Len(more) /\ chan' = all
          /\ \A i \in 1 .. Len(chan) + Len(more) : all[i] = IF i <= Len(chan) THEN chan[i] ELSE more[i - Len(chan)]
      BY <1>2, <1>3, ConcatProperties
    <3> HIDE DEF all
    <3>2. Len(chan) \in Nat /\ Len(more) \in Nat /\ DOMAIN chan = 1 .. Len(chan) /\ DOMAIN more = 1 .. Len(more)
          /\ DOMAIN all = 1 .. Len(chan) + Len(more)
      BY <1>2, <1>3, <3>1
    <3>3. \A i \in 1 .. Len(chan) + Len(more) : i \in 1 .. Len(chan) \/ (~(i <= Len(chan)) /\ i - Len(chan) \in 1 .. Len(more))
      BY <3>2
    <3>4. \A i \in DOMAIN all : \/ i \in DOMAIN chan /\ all[i] = chan[i]
                                \/ i - Len(chan) \in DOMAIN more /\ all[i] = more[i - Len(chan)]
      <4>1. TAKE i \in DOMAIN all
      <4>2. CASE i \in 1 .. Len(chan)
        BY <3>1, <3>2, <4>2
      <4>3. CASE ~(i <= Len(chan)) /\ i - Len(chan) \in 1 .. Len(more)
        BY <3>1, <3>2, <4>3
      <4> QED BY <3>2, <3>3, <4>2, <4>3
    <3> QED BY <3>1, <3>4
  <2> QED BY <1>1, <1>3, <2>1 DEF ConservationInv, OutputsAccepted
<1>4. ASSUME NEW outcome \in Outcomes, active # NoTurn
      PROVE  /\ <<Completed(active, outcome)>> \in Seq(Events)
             /\ Append(chan, Completed(active, outcome)) = chan \o <<Completed(active, outcome)>>
             /\ \A i \in DOMAIN <<Completed(active, outcome)>> :
                  <<Completed(active, outcome)>>[i].turn \in accepted
  <2>1. Completed(active, outcome) \in Events /\ Completed(active, outcome).turn = active
    BY <1>2, <1>4, EventTypes DEF Completed
  <2>2. active \in accepted
    BY <1>4 DEF ConservationInv, OutputsAccepted
  <2> QED BY <1>2, <2>1, <2>2, AppendIsConcat
<1>5. CASE \E outcome \in Outcomes : SessionFinishes(outcome) \/ (HardCancelDone /\ outcome = "cancelled")
  <2>1. PICK outcome \in Outcomes : SessionFinishes(outcome) \/ (HardCancelDone /\ outcome = "cancelled")
    BY <1>5
  <2>2. /\ active # NoTurn /\ chan' = Append(chan, Completed(active, outcome)) /\ active' = NoTurn
        /\ accepted' = accepted
    BY <2>1 DEF SessionFinishes, HardCancelDone, SessionEndsTurn
  <2>3. OutputsAccepted'
    BY <1>3, <1>4, <2>2
  <2> QED BY <1>1, <2>2, <2>3, Still
<1>6. ASSUME NEW t \in Autos, SessionContinues(t)
      PROVE  StartIsActive' /\ StarterWaits' /\ OutputsAccepted' /\ QueueAdded' /\ SubmissionConserved'
  <2> DEFINE more == <<Event("autonomous", t), Event("started", t)>>
  <2>1. /\ chan' = chan \o more /\ active' = t /\ accepted' = accepted \cup {t}
    BY <1>6 DEF SessionContinues
  <2>2. t \in Turns /\ t \notin Requests /\ t \notin Subs /\ t # NoTurn /\ t # starting
    BY TurnsAssumption DEF Turns, ConservationInv, StartIsActive
  <2>3. /\ Event("autonomous", t) \in Events /\ Event("started", t) \in Events
        /\ Event("autonomous", t).turn = t /\ Event("started", t).turn = t
    BY <2>2, EventTypes DEF Event
  <2>4. more \in Seq(Events) /\ \A i \in DOMAIN more : more[i].turn = t
    BY <2>3
  <2> HIDE DEF more
  <2>5. OutputsAccepted'
    BY <1>3, <2>1, <2>4
  <2>6. StarterWaits'
    BY <1>1, <2>1, <2>2 DEF ConservationInv, StarterWaits
  <2>7. queue \in Seq(Subs) /\ deleted \subseteq Subs
    BY DEF ConservationInv, TypeOK, QueueTypes
  <2>8. QueueAdded'
    BY <1>1, <2>1, <2>2 DEF ConservationInv, QueueAdded
  <2>9. SubmissionConserved'
    BY <1>1, <2>1, <2>2, <2>7 DEF ConservationInv, SubmissionConserved
  <2> QED BY <1>1, <2>5, <2>6, <2>8, <2>9, Still
<1>7. CASE CancelEscalates \/ SessionCloses
  <2>1. UNCHANGED <<active, chan, accepted>>
    BY <1>7 DEF CancelEscalates, SessionCloses
  <2> QED BY <1>1, <2>1, Still
<1>8. Unfinished \in Seq(Events) /\ \A i \in DOMAIN Unfinished : Unfinished[i].turn \in accepted \cup {NoTurn}
  <2>1. CASE active = NoTurn
    BY <2>1 DEF Unfinished
  <2>2. CASE active # NoTurn
    <3>1. Unfinished = <<Completed(active, "failed")>> /\ "failed" \in Outcomes
      BY <2>2 DEF Unfinished, Outcomes
    <3> QED BY <1>4, <2>2, <3>1
  <2> QED BY <2>1, <2>2
<1>9. CASE SessionClosed
  <2>1. chan' = chan \o Unfinished /\ active' = NoTurn /\ accepted' = accepted
    BY <1>9 DEF SessionClosed
  <2>2. OutputsAccepted'
    BY <1>3, <1>8, <2>1
  <2> QED BY <1>1, <2>1, <2>2, Still
<1>10. CASE SessionFaults
  <2>1. chan' = (chan \o Unfinished) \o <<Faulted>> /\ active' = NoTurn /\ accepted' = accepted
    BY <1>10 DEF SessionFaults
  <2>2. <<Faulted>> \in Seq(Events) /\ Len(<<Faulted>>) = 1 /\ <<Faulted>>[1].turn = NoTurn
    BY EventTypes DEF Faulted, Event
  <2> DEFINE more == Unfinished \o <<Faulted>>
  <2>3. chan' = chan \o more
    BY <1>2, <1>8, <2>1, <2>2, ConcatAssociative
  <2>4. more \in Seq(Events) /\ \A i \in DOMAIN more : more[i].turn \in accepted \cup {NoTurn}
    BY <1>8, <2>2, ConcatProperties
  <2> HIDE DEF more
  <2>5. OutputsAccepted'
    BY <1>3, <2>1, <2>3, <2>4
  <2> QED BY <1>1, <2>1, <2>5, Still
<1> QED BY <1>5, <1>6, <1>7, <1>9, <1>10 DEF SessionRuns, Outcomes

-----------------------------------------------------------------------------

\* Initially nothing has been submitted.
LEMMA ConservationInit == Init => ConservationInv
<1> SUFFICES ASSUME Init PROVE ConservationInv
  OBVIOUS
<1>1. TypeOK
  BY TypeInit
<1>2. ~running /\ activeTurn = NoTurn /\ projected = {} /\ starting = NoTurn /\ consumer = "next"
  BY DEF Init
<1>3. queue = <<>> /\ added = {} /\ deleted = {} /\ active = NoTurn /\ chan = <<>> /\ accepted = {}
  BY DEF Init
<1>4. NoTurn \notin Requests /\ NoTurn \notin Subs
  BY TurnsAssumption DEF Turns
<1>5. StartIsActive
  BY <1>2 DEF StartIsActive
<1>6. StarterWaits
  BY <1>2, <1>3, <1>4 DEF StarterWaits
<1>7. OutputsAccepted
  BY <1>2, <1>3 DEF OutputsAccepted
<1>8. QueueAdded /\ SubmissionConserved
  BY <1>2, <1>3, <1>4 DEF QueueAdded, SubmissionConserved
<1> QED BY <1>1, <1>5, <1>6, <1>7, <1>8 DEF ConservationInv

\* The invariant is inductive.
LEMMA ConservationNext == ConservationInv /\ [Next]_vars => ConservationInv'
<1> SUFFICES ASSUME ConservationInv, [Next]_vars PROVE ConservationInv'
  OBVIOUS
<1>1. TypeOK'
  BY TypeNext DEF ConservationInv
<1>2. CASE UNCHANGED vars
  BY <1>1, <1>2, Still DEF ConservationInv, vars
<1>3. CASE SetDraining(TRUE) \/ SetDraining(FALSE) \/ HostCloses
  BY <1>1, <1>3, Still DEF ConservationInv, SetDraining, HostCloses
<1>4. CASE Next /\ ~(SetDraining(TRUE) \/ SetDraining(FALSE) \/ HostCloses)
  BY <1>1, <1>4, RequestsConserve, EditsConserve, StartsConserve, ConsumerConserves, SessionConserves
     DEF Next, ConservationInv
<1> QED BY <1>2, <1>3, <1>4

\* A message that thread/queue/add took is queued once, being started, accepted by the Session
\* or deleted: taking it, refusing it and restoring it around a failed start never lose or
\* repeat it (external-thread-queue.ts take and restore, #startQueuedSubmission).
THEOREM Conservation == Spec => []SubmissionConserved
<1>1. Init => ConservationInv
  BY ConservationInit
<1>2. ConservationInv /\ [Next]_vars => ConservationInv'
  BY ConservationNext
<1>3. ConservationInv => SubmissionConserved
  BY DEF ConservationInv
<1> QED BY <1>1, <1>2, <1>3, PTL DEF Spec
-----------------------------------------------------------------------------
(* Streams of outputs: what is still to be projected                        *)

\* The end of a Turn is the last output about it.
EndsLast(o) == \A i, j \in DOMAIN o : i < j /\ o[i].type = "completed" => o[j].turn # o[i].turn
\* A Turn whose end was put out is not the Session's.
EndsOther(o, t) == \A i \in DOMAIN o : o[i].type = "completed" => o[i].turn # t
\* The Session opens Turns of its own only.
OpensAutos(o) == \A i \in DOMAIN o : o[i].type = "autonomous" => o[i].turn \in Autos
\* Each output is about a projected Turn, or follows the opening of its own.
FollowsOpening(o, shown) ==
    \A i \in DOMAIN o : \/ o[i].turn \in shown \cup {NoTurn}
                        \/ \E j \in 1 .. i : o[j] = Event("autonomous", o[i].turn)
\* The Session's Turn is the one shown, or its opening is on the way.
ShownOrOpening(o, t, shown) ==
    t # NoTurn => t = shown \/ \E i \in DOMAIN o : o[i] = Event("autonomous", t)

\* The strengthening of TurnOwnership: the outputs are in the order the Session ran its Turns.
OwnershipInv ==
    /\ EndsLast(Outputs) /\ EndsOther(Outputs, active) /\ OpensAutos(Outputs)
    /\ FollowsOpening(Outputs, projected) /\ ShownOrOpening(Outputs, active, activeTurn)
    /\ consumer # "unknown"

\* Where the outputs of a stream are when others follow.
LEMMA GrownStream ==
  ASSUME NEW o \in Seq(Events), NEW more \in Seq(Events)
  PROVE  LET all == o \o more IN
         /\ \A i \in DOMAIN o : i \in DOMAIN all /\ all[i] = o[i]
         /\ \A k \in DOMAIN more : Len(o) + k \in DOMAIN all /\ all[Len(o) + k] = more[k]
         /\ \A i \in DOMAIN all : i \in DOMAIN o \/ \E k \in DOMAIN more : i = Len(o) + k
<1> DEFINE all == o \o more
<1>1. /\ all \in Seq(Events) /\ Len(all) = Len(o) + Len(more)
      /\ \A i \in 1 .. Len(o) + Len(more) : all[i] = IF i <= Len(o) THEN o[i] ELSE more[i - Len(o)]
  BY ConcatProperties
<1> HIDE DEF all
<1>2. Len(o) \in Nat /\ Len(more) \in Nat /\ DOMAIN o = 1 .. Len(o) /\ DOMAIN more = 1 .. Len(more)
      /\ DOMAIN all = 1 .. Len(o) + Len(more)
  BY <1>1
<1>3. \A i \in DOMAIN o : i \in DOMAIN all /\ all[i] = o[i]
  BY <1>1, <1>2
<1>4. ASSUME NEW k \in DOMAIN more PROVE Len(o) + k \in DOMAIN all /\ all[Len(o) + k] = more[k]
  <2>1. k \in 1 .. Len(more) /\ Len(o) + k \in 1 .. Len(o) + Len(more) /\ ~(Len(o) + k <= Len(o))
        /\ (Len(o) + k) - Len(o) = k
    BY <1>2
  <2> QED BY <1>1, <1>2, <2>1
<1>5. ASSUME NEW i \in DOMAIN all PROVE i \in DOMAIN o \/ \E k \in DOMAIN more : i = Len(o) + k
  <2>1. CASE i <= Len(o)
    BY <1>2, <2>1
  <2>2. CASE ~(i <= Len(o))
    <3>1. i - Len(o) \in DOMAIN more /\ i = Len(o) + (i - Len(o))
      BY <1>2, <2>2
    <3> QED BY <3>1
  <2> QED BY <2>1, <2>2
<1> QED BY <1>3, <1>4, <1>5 DEF all

\* Outputs that follow are about the Session's Turn or about one it had not accepted before.
LEMMA GrownInOrder ==
  ASSUME NEW o \in Seq(Events), NEW more \in Seq(Events), NEW t, NEW u, NEW seen \in SUBSET Turns,
         \A i \in DOMAIN o : o[i].turn \in seen \cup {NoTurn},
         EndsLast(o), EndsOther(o, t), OpensAutos(o),
         EndsLast(more), EndsOther(more, u), OpensAutos(more),
         \A k \in DOMAIN more : more[k].turn \in {t, NoTurn} \/ more[k].turn \notin seen,
         u \in {t, NoTurn} \/ u \notin seen
  PROVE  EndsLast(o \o more) /\ EndsOther(o \o more, u) /\ OpensAutos(o \o more)
<1> DEFINE all == o \o more
<1>1. /\ \A i \in DOMAIN o : i \in DOMAIN all /\ all[i] = o[i]
      /\ \A k \in DOMAIN more : Len(o) + k \in DOMAIN all /\ all[Len(o) + k] = more[k]
      /\ \A i \in DOMAIN all : i \in DOMAIN o \/ \E k \in DOMAIN more : i = Len(o) + k
  BY GrownStream
<1> HIDE DEF all
<1>2. \A i \in DOMAIN o : o[i].type = "completed" => o[i].turn \in seen /\ o[i].turn # NoTurn
  <2>1. \A i \in DOMAIN o : o[i] \in Events
    OBVIOUS
  <2>2. NoTurn \notin Turns
    BY TurnsAssumption
  <2> QED BY <2>1, <2>2, EventKinds
<1>3. Len(o) \in Nat /\ DOMAIN o = 1 .. Len(o) /\ DOMAIN more = 1 .. Len(more) /\ Len(more) \in Nat
  OBVIOUS
<1>4. EndsLast(all)
  <2> SUFFICES ASSUME NEW i \in DOMAIN all, NEW j \in DOMAIN all, i < j, all[i].type = "completed"
               PROVE  all[j].turn # all[i].turn
    BY DEF EndsLast
  <2>1. CASE i \in DOMAIN o /\ j \in DOMAIN o
    BY <1>1, <2>1 DEF EndsLast
  <2>2. CASE i \in DOMAIN o /\ \E k \in DOMAIN more : j = Len(o) + k
    <3>1. PICK k \in DOMAIN more : j = Len(o) + k
      BY <2>2
    <3>2. all[i] = o[i] /\ all[j] = more[k]
      BY <1>1, <2>2, <3>1
    <3>3. all[i].turn \in seen /\ all[i].turn # NoTurn /\ all[i].turn # t
      BY <1>2, <2>2, <3>2 DEF EndsOther
    <3> QED BY <3>2, <3>3
  <2>3. CASE (\E k \in DOMAIN more : i = Len(o) + k) /\ (\E k \in DOMAIN more : j = Len(o) + k)
    <3>1. PICK k \in DOMAIN more : i = Len(o) + k
      BY <2>3
    <3>2. PICK l \in DOMAIN more : j = Len(o) + l
      BY <2>3
    <3>3. k < l
      BY <1>3, <3>1, <3>2
    <3>4. all[i] = more[k] /\ all[j] = more[l]
      BY <1>1, <3>1, <3>2
    <3> QED BY <3>3, <3>4 DEF EndsLast
  <2>4. CASE (\E k \in DOMAIN more : i = Len(o) + k) /\ j \in DOMAIN o
    BY <1>3, <2>4
  <2> QED BY <1>1, <2>1, <2>2, <2>3, <2>4
<1>5. EndsOther(all, u)
  <2> SUFFICES ASSUME NEW i \in DOMAIN all, all[i].type = "completed"
               PROVE  all[i].turn # u
    BY DEF EndsOther
  <2>1. CASE i \in DOMAIN o
    <3>1. all[i] = o[i]
      BY <1>1, <2>1
    <3>2. o[i].turn \in seen /\ o[i].turn # NoTurn /\ o[i].turn # t
      BY <1>2, <2>1, <3>1 DEF EndsOther
    <3> QED BY <3>1, <3>2
  <2>2. CASE \E k \in DOMAIN more : i = Len(o) + k
    BY <1>1, <2>2 DEF EndsOther
  <2> QED BY <1>1, <2>1, <2>2
<1>6. OpensAutos(all)
  BY <1>1 DEF OpensAutos
<1> QED BY <1>4, <1>5, <1>6 DEF all

\* A stream that grows still follows the openings, and the Session's Turn is still announced.
LEMMA GrownFollows ==
  ASSUME NEW o \in Seq(Events), NEW more \in Seq(Events), NEW t, NEW u, NEW shown, NEW a,
         NEW then, NEW b,
         FollowsOpening(o, shown), ShownOrOpening(o, t, a),
         \A i \in DOMAIN o : o[i].turn \in shown => o[i].turn \in then,
         t = a /\ t # NoTurn => t \in then,
         \A k \in DOMAIN more : \/ more[k].turn \in then \cup {NoTurn, t}
                                \/ \E j \in 1 .. k : more[j] = Event("autonomous", more[k].turn),
         \/ u = NoTurn
         \/ u = t /\ (t = a => b = a)
         \/ u = b
         \/ \E k \in DOMAIN more : more[k] = Event("autonomous", u)
  PROVE  FollowsOpening(o \o more, then) /\ ShownOrOpening(o \o more, u, b)
<1> DEFINE all == o \o more
<1>1. /\ \A i \in DOMAIN o : i \in DOMAIN all /\ all[i] = o[i]
      /\ \A k \in DOMAIN more : Len(o) + k \in DOMAIN all /\ all[Len(o) + k] = more[k]
      /\ \A i \in DOMAIN all : i \in DOMAIN o \/ \E k \in DOMAIN more : i = Len(o) + k
  BY GrownStream
<1> HIDE DEF all
<1>2. Len(o) \in Nat /\ DOMAIN o = 1 .. Len(o) /\ DOMAIN more = 1 .. Len(more) /\ Len(more) \in Nat
  OBVIOUS
<1>3. ShownOrOpening(all, u, b)
  <2>1. SUFFICES ASSUME u # NoTurn, u # b PROVE \E i \in DOMAIN all : all[i] = Event("autonomous", u)
    BY DEF ShownOrOpening
  <2>2. CASE u = t /\ (t = a => b = a)
    <3>1. PICK i \in DOMAIN o : o[i] = Event("autonomous", t)
      BY <2>1, <2>2 DEF ShownOrOpening
    <3> QED BY <1>1, <2>2, <3>1
  <2>3. CASE \E k \in DOMAIN more : more[k] = Event("autonomous", u)
    BY <1>1, <2>3
  <2> QED BY <2>1, <2>2, <2>3
<1>4. ASSUME NEW i \in DOMAIN all
      PROVE  \/ all[i].turn \in then \cup {NoTurn}
             \/ \E j \in 1 .. i : all[j] = Event("autonomous", all[i].turn)
  <2>1. CASE i \in DOMAIN o
    <3>1. all[i] = o[i] /\ i \in Nat /\ \A j \in 1 .. i : j \in DOMAIN o
      BY <1>1, <1>2, <2>1
    <3>2. CASE o[i].turn \in shown \cup {NoTurn}
      BY <2>1, <3>1, <3>2
    <3>3. CASE \E j \in 1 .. i : o[j] = Event("autonomous", o[i].turn)
      BY <1>1, <3>1, <3>3
    <3> QED BY <2>1, <3>2, <3>3 DEF FollowsOpening
  <2>2. CASE \E k \in DOMAIN more : i = Len(o) + k
    <3>1. PICK k \in DOMAIN more : i = Len(o) + k
      BY <2>2
    <3>2. all[i] = more[k]
      BY <1>1, <3>1
    <3>3. CASE more[k].turn \in then \cup {NoTurn}
      BY <3>2, <3>3
    <3>4. CASE more[k].turn = t /\ t # NoTurn /\ t # a
      <4>1. PICK j \in DOMAIN o : o[j] = Event("autonomous", t)
        BY <3>4 DEF ShownOrOpening
      <4>2. j \in 1 .. i /\ all[j] = o[j]
        BY <1>1, <1>2, <3>1, <4>1
      <4> QED BY <3>2, <3>4, <4>1, <4>2
    <3>5. CASE \E j \in 1 .. k : more[j] = Event("autonomous", more[k].turn)
      <4>1. PICK j \in 1 .. k : more[j] = Event("autonomous", more[k].turn)
        BY <3>5
      <4>2. j \in DOMAIN more /\ Len(o) + j \in 1 .. i
        BY <1>2, <3>1, <4>1
      <4> QED BY <1>1, <3>2, <4>1, <4>2
    <3> QED BY <3>3, <3>4, <3>5
  <2> QED BY <1>1, <2>1, <2>2
<1> QED BY <1>3, <1>4 DEF all, FollowsOpening

\* What is left of a stream without its first output.
LEMMA TakenInOrder ==
  ASSUME NEW o \in Seq(Events), o # <<>>, NEW t, EndsLast(o), EndsOther(o, t), OpensAutos(o)
  PROVE  /\ EndsLast(Tail(o)) /\ EndsOther(Tail(o), t) /\ OpensAutos(Tail(o))
         /\ Head(o) = o[1] /\ 1 \in DOMAIN o
         /\ \A i \in DOMAIN Tail(o) : i + 1 \in DOMAIN o /\ Tail(o)[i] = o[i + 1] /\ i \in Nat /\ i >= 1
         /\ \A i \in DOMAIN o : i = 1 \/ (i - 1 \in DOMAIN Tail(o) /\ i \in Nat)
         /\ Head(o).type = "completed" => \A i \in DOMAIN Tail(o) : Tail(o)[i].turn # Head(o).turn
<1> DEFINE rest == Tail(o)
<1>1. rest \in Seq(Events) /\ Len(rest) = Len(o) - 1 /\ \A i \in 1 .. Len(rest) : rest[i] = o[i + 1]
  BY HeadTailProperties
<1>2. Head(o) = o[1] /\ 1 \in DOMAIN o /\ Len(o) \in Nat /\ DOMAIN o = 1 .. Len(o)
  OBVIOUS
<1> HIDE DEF rest
<1>3. DOMAIN rest = 1 .. Len(o) - 1
  BY <1>1
<1>4. \A i \in DOMAIN rest : i + 1 \in DOMAIN o /\ rest[i] = o[i + 1] /\ i \in Nat /\ i >= 1 /\ 1 < i + 1
  BY <1>1, <1>2, <1>3
<1>5. \A i \in DOMAIN o : i = 1 \/ (i - 1 \in DOMAIN rest /\ i \in Nat)
  BY <1>1, <1>2, <1>3
<1>6. EndsLast(rest)
  <2> SUFFICES ASSUME NEW i \in DOMAIN rest, NEW j \in DOMAIN rest, i < j, rest[i].type = "completed"
               PROVE  rest[j].turn # rest[i].turn
    BY DEF EndsLast
  <2>1. i + 1 < j + 1
    BY <1>4
  <2> QED BY <1>4, <2>1 DEF EndsLast
<1>7. EndsOther(rest, t) /\ OpensAutos(rest)
  BY <1>4 DEF EndsOther, OpensAutos
<1>8. Head(o).type = "completed" => \A i \in DOMAIN rest : rest[i].turn # Head(o).turn
  BY <1>2, <1>4 DEF EndsLast
<1> QED BY <1>2, <1>4, <1>5, <1>6, <1>7, <1>8 DEF rest

\* Taking an opening shows its Turn, taking an end takes its Turn away, taking another output
\* changes nothing.
LEMMA TakenFollows ==
  ASSUME NEW o \in Seq(Events), o # <<>>, NEW t, NEW shown, NEW a, NEW then, NEW b,
         EndsLast(o), EndsOther(o, t), OpensAutos(o),
         FollowsOpening(o, shown), ShownOrOpening(o, t, a),
         \/ Head(o).type # "autonomous" /\ then = shown /\ b = a
         \/ shown \subseteq then /\ Head(o).turn \in then /\ b = Head(o).turn /\ a = NoTurn
         \/ Head(o).type = "completed" /\ then = shown \ {Head(o).turn} /\ a = Head(o).turn
  PROVE  FollowsOpening(Tail(o), then) /\ ShownOrOpening(Tail(o), t, b)
<1> DEFINE rest == Tail(o)
<1>1. /\ Head(o) = o[1] /\ 1 \in DOMAIN o
      /\ \A i \in DOMAIN rest : i + 1 \in DOMAIN o /\ rest[i] = o[i + 1] /\ i \in Nat /\ i >= 1
      /\ \A i \in DOMAIN o : i = 1 \/ (i - 1 \in DOMAIN rest /\ i \in Nat)
      /\ Head(o).type = "completed" => \A i \in DOMAIN rest : rest[i].turn # Head(o).turn
  BY TakenInOrder
<1> HIDE DEF rest
<1>2. \A x : Event("autonomous", x).type = "autonomous" /\ Event("autonomous", x).turn = x
  BY DEF Event
<1>3. ShownOrOpening(rest, t, b)
  <2>1. SUFFICES ASSUME t # NoTurn, t # b PROVE \E i \in DOMAIN rest : rest[i] = Event("autonomous", t)
    BY DEF ShownOrOpening
  <2>2. CASE t = a
    <3>1. Head(o).type = "completed" /\ a = Head(o).turn
      BY <2>1, <2>2
    <3> QED BY <1>1, <2>2, <3>1 DEF EndsOther
  <2>3. CASE t # a
    <3>1. PICK i \in DOMAIN o : o[i] = Event("autonomous", t)
      BY <2>1, <2>3 DEF ShownOrOpening
    <3>2. i # 1
      <4>1. SUFFICES ASSUME i = 1 PROVE FALSE
        OBVIOUS
      <4>2. Head(o).type = "autonomous" /\ Head(o).turn = t
        BY <1>1, <1>2, <3>1, <4>1
      <4> QED BY <2>1, <4>2
    <3>3. i - 1 \in DOMAIN rest /\ (i - 1) + 1 = i
      BY <1>1, <3>2
    <3> QED BY <1>1, <3>1, <3>3
  <2> QED BY <2>2, <2>3
<1>4. ASSUME NEW i \in DOMAIN rest, rest[i].turn \notin then \cup {NoTurn}
      PROVE  \E j \in 1 .. i : rest[j] = Event("autonomous", rest[i].turn)
  <2>1. rest[i] = o[i + 1] /\ i + 1 \in DOMAIN o /\ i \in Nat /\ i >= 1
    BY <1>1
  <2>2. rest[i].turn \notin shown
    BY <1>1, <1>4
  <2>3. PICK j \in 1 .. i + 1 : o[j] = Event("autonomous", o[i + 1].turn)
    BY <1>4, <2>1, <2>2 DEF FollowsOpening
  <2>4. j # 1
    <3>1. SUFFICES ASSUME j = 1 PROVE FALSE
      OBVIOUS
    <3>2. Head(o).type = "autonomous" /\ Head(o).turn = rest[i].turn
      BY <1>1, <1>2, <2>1, <2>3, <3>1
    <3> QED BY <1>4, <2>2, <3>2
  <2>5. j \in DOMAIN o
    <3>1. DOMAIN o = 1 .. Len(o) /\ Len(o) \in Nat
      OBVIOUS
    <3> QED BY <2>1, <2>3, <3>1
  <2>6. j - 1 \in DOMAIN rest /\ (j - 1) + 1 = j /\ j - 1 \in 1 .. i
    BY <1>1, <2>1, <2>3, <2>4, <2>5
  <2> QED BY <1>1, <2>1, <2>3, <2>6
<1> QED BY <1>3, <1>4 DEF rest, FollowsOpening

-----------------------------------------------------------------------------
(* How a step moves the outputs                                             *)

\* The outputs are outputs of accepted Turns.
LEMMA OutputsKnown ==
  ASSUME ConservationInv
  PROVE  /\ Outputs \in Seq(Events) /\ \A i \in DOMAIN Outputs : Outputs[i].turn \in accepted \cup {NoTurn}
         /\ chan \in Seq(Events) /\ accepted \in SUBSET Turns /\ NoTurn \notin accepted
<1>1. chan \in Seq(Events) /\ accepted \in SUBSET Turns /\ NoTurn \notin accepted
  BY TurnsAssumption DEF ConservationInv, TypeOK, SessionTypes
<1>2. \A i \in DOMAIN chan : chan[i].turn \in accepted \cup {NoTurn}
  BY DEF ConservationInv, OutputsAccepted
<1>3. CASE consumer \in {"gate", "persist", "overlap"}
  <2>1. current \in Events /\ current.turn \in accepted
    <3>1. current \in StartEvents \cup EndEvents \cup OpenEvents
      BY <1>3 DEF ConservationInv, TypeOK, ConsumerTypes
    <3> QED BY <1>3, <3>1, EventTypes DEF ConservationInv, OutputsAccepted
  <2>2. <<current>> \in Seq(Events) /\ Len(<<current>>) = 1 /\ <<current>>[1] = current
    BY <2>1
  <2>3. Outputs = <<current>> \o chan
    BY <1>3 DEF Outputs
  <2>4. /\ <<current>> \o chan \in Seq(Events)
        /\ \A i \in DOMAIN (<<current>> \o chan) : i \in DOMAIN <<current>> \/ \E k \in DOMAIN chan : i = Len(<<current>>) + k
        /\ \A i \in DOMAIN <<current>> : (<<current>> \o chan)[i] = <<current>>[i]
        /\ \A k \in DOMAIN chan : (<<current>> \o chan)[Len(<<current>>) + k] = chan[k]
    BY <1>1, <2>2, GrownStream, ConcatProperties
  <2>5. \A i \in DOMAIN <<current>> : <<current>>[i] = current
    BY <2>2
  <2> QED BY <1>1, <1>2, <2>1, <2>3, <2>4, <2>5
<1>4. CASE consumer \notin {"gate", "persist", "overlap"}
  <2>1. Outputs = chan
    BY <1>1, <1>4, ConcatEmptySeq DEF Outputs
  <2> QED BY <1>1, <1>2, <2>1
<1> QED BY <1>3, <1>4

\* While no output is in hand, the outputs are the channel.
LEMMA OutputsOfChannel ==
  ASSUME chan \in Seq(Events), consumer \notin {"gate", "persist", "overlap"}
  PROVE  Outputs = chan
BY ConcatEmptySeq DEF Outputs

\* What follows in the channel follows in the outputs.
LEMMA OutputsGrow ==
  ASSUME ConservationInv, TypeOK', NEW more \in Seq(Events), chan' = chan \o more,
         \/ UNCHANGED <<consumer, current>>
         \/ {consumer, consumer'} \cap {"gate", "persist", "overlap"} = {}
  PROVE  Outputs' = Outputs \o more
<1>1. chan \in Seq(Events) /\ chan' \in Seq(Events)
  BY DEF ConservationInv, TypeOK, SessionTypes
<1>2. CASE {consumer, consumer'} \cap {"gate", "persist", "overlap"} = {}
  <2>1. Outputs = chan
    BY <1>1, <1>2, OutputsOfChannel
  <2>2. Outputs' = chan'
    <3>1. consumer' \notin {"gate", "persist", "overlap"}
      BY <1>2
    <3>2. Outputs' = <<>> \o chan'
      BY <3>1 DEF Outputs
    <3> QED BY <1>1, <3>2, ConcatEmptySeq
  <2> QED BY <2>1, <2>2
<1>3. CASE UNCHANGED <<consumer, current>> /\ consumer \in {"gate", "persist", "overlap"}
  <2>1. current \in Events
    <3>1. current \in StartEvents \cup EndEvents \cup OpenEvents
      BY <1>3 DEF ConservationInv, TypeOK, ConsumerTypes
    <3> QED BY <3>1, EventTypes
  <2>2. Outputs = <<current>> \o chan /\ Outputs' = <<current>> \o (chan \o more)
    BY <1>3 DEF Outputs
  <2> QED BY <1>1, <2>1, <2>2, ConcatAssociative
<1> QED BY <1>2, <1>3

\* The outputs grow: by nothing, a start, an opening or an end.
LEMMA StreamGrows ==
  ASSUME ConservationInv, OwnershipInv, TypeOK', NEW more \in Seq(Events), chan' = chan \o more,
         \/ UNCHANGED <<consumer, current>>
         \/ {consumer, consumer'} \cap {"gate", "persist", "overlap", "unknown"} = {},
         EndsLast(more), EndsOther(more, active'), OpensAutos(more),
         \A k \in DOMAIN more : more[k].turn \in {active, NoTurn} \/ more[k].turn \notin accepted,
         active' \in {active, NoTurn} \/ active' \notin accepted,
         \A x \in projected \cap accepted : x \in projected',
         \A k \in DOMAIN more : \/ more[k].turn \in projected' \cup {NoTurn, active}
                                \/ \E j \in 1 .. k : more[j] = Event("autonomous", more[k].turn),
         \/ active' = NoTurn
         \/ active' = active /\ (activeTurn \in accepted => activeTurn' = activeTurn)
         \/ active' = activeTurn'
         \/ \E k \in DOMAIN more : more[k] = Event("autonomous", active')
  PROVE  OwnershipInv'
<1>1. Outputs' = Outputs \o more
  BY OutputsGrow
<1>2. /\ Outputs \in Seq(Events) /\ \A i \in DOMAIN Outputs : Outputs[i].turn \in accepted \cup {NoTurn}
      /\ accepted \in SUBSET Turns /\ NoTurn \notin accepted
  BY OutputsKnown
<1>3. active \in accepted \cup {NoTurn} /\ projected = {activeTurn} \ {NoTurn}
  BY DEF ConservationInv, OutputsAccepted, StartIsActive
<1> DEFINE o == Outputs
<1>4. o \in Seq(Events) /\ EndsLast(o) /\ EndsOther(o, active) /\ OpensAutos(o)
      /\ \A i \in DOMAIN o : o[i].turn \in accepted \cup {NoTurn}
  BY <1>2 DEF OwnershipInv
<1>5. FollowsOpening(o, projected) /\ ShownOrOpening(o, active, activeTurn)
  BY DEF OwnershipInv
<1> HIDE DEF o
<1>6. EndsLast(o \o more) /\ EndsOther(o \o more, active') /\ OpensAutos(o \o more)
  BY <1>2, <1>4, GrownInOrder
<1>7. FollowsOpening(o \o more, projected') /\ ShownOrOpening(o \o more, active', activeTurn')
  <2>1. NoTurn \notin projected
    BY <1>3
  <2>2. \A i \in DOMAIN o : o[i].turn \in projected => o[i].turn \in projected'
    BY <1>4, <2>1
  <2>3. active = activeTurn /\ active # NoTurn => active \in projected'
    BY <1>3
  <2>4. \/ active' = NoTurn
        \/ active' = active /\ (active = activeTurn => activeTurn' = activeTurn)
        \/ active' = activeTurn'
        \/ \E k \in DOMAIN more : more[k] = Event("autonomous", active')
    BY <1>3
  <2>5. FollowsOpening(o, projected) /\ ShownOrOpening(o, active, activeTurn)
    BY <1>5
  <2>6. \A k \in DOMAIN more : \/ more[k].turn \in projected' \cup {NoTurn, active}
                               \/ \E j \in 1 .. k : more[j] = Event("autonomous", more[k].turn)
    OBVIOUS
  <2> QED BY <1>4, <2>2, <2>3, <2>4, <2>5, <2>6, GrownFollows
<1>8. consumer' # "unknown"
  BY DEF OwnershipInv
<1>9. EndsLast(Outputs') /\ EndsOther(Outputs', active') /\ OpensAutos(Outputs')
  BY <1>1, <1>6 DEF o
<1>10. FollowsOpening(Outputs', projected') /\ ShownOrOpening(Outputs', active', activeTurn')
  BY <1>1, <1>7 DEF o
<1> QED BY <1>8, <1>9, <1>10 DEF OwnershipInv, EndsLast, EndsOther, OpensAutos, FollowsOpening, ShownOrOpening

\* A step that puts nothing out.
LEMMA StreamStays ==
  ASSUME ConservationInv, OwnershipInv, TypeOK', UNCHANGED <<chan, active>>,
         \/ UNCHANGED <<consumer, current>>
         \/ {consumer, consumer'} \cap {"gate", "persist", "overlap", "unknown"} = {},
         \A x \in projected \cap accepted : x \in projected',
         activeTurn \in accepted => activeTurn' = activeTurn
  PROVE  OwnershipInv'
<1> DEFINE more == <<>>
<1>1. more \in Seq(Events) /\ DOMAIN more = {}
  OBVIOUS
<1>2. chan' = chan \o more
  BY OutputsKnown, ConcatEmptySeq
<1> HIDE DEF more
<1>3. EndsLast(more) /\ EndsOther(more, active') /\ OpensAutos(more)
  BY <1>1 DEF EndsLast, EndsOther, OpensAutos
<1> QED BY <1>1, <1>2, <1>3, StreamGrows

\* The Session accepts a Turn: its start is put out, and it is the one shown.
LEMMA StreamStarts ==
  ASSUME ConservationInv, OwnershipInv, TypeOK', NEW t \in Turns \ accepted, SessionAccepts(t),
         \/ UNCHANGED <<consumer, current>>
         \/ {consumer, consumer'} \cap {"gate", "persist", "overlap", "unknown"} = {},
         \A x \in projected \cap accepted : x \in projected', activeTurn' = t, t \in projected'
  PROVE  OwnershipInv'
<1> DEFINE more == <<Event("started", t)>>
<1>1. Event("started", t) \in Events /\ Event("started", t).turn = t /\ Event("started", t).type = "started"
  BY EventTypes DEF Event
<1>2. more \in Seq(Events) /\ \A k \in DOMAIN more : more[k].turn = t /\ more[k].type = "started"
  BY <1>1
<1>3. chan' = chan \o more /\ active' = t
  BY <1>1, OutputsKnown, AppendIsConcat DEF SessionAccepts
<1> HIDE DEF more
<1>4. EndsLast(more) /\ EndsOther(more, active') /\ OpensAutos(more)
  BY <1>2 DEF EndsLast, EndsOther, OpensAutos
<1> QED BY <1>2, <1>3, <1>4, StreamGrows

\* A Turn that begins is the one shown.
LEMMA StreamBegins ==
  ASSUME ConservationInv, OwnershipInv, TypeOK', NEW t \in Turns \ accepted, Begins(t), activeTurn = NoTurn,
         \/ UNCHANGED <<consumer, current>>
         \/ {consumer, consumer'} \cap {"gate", "persist", "overlap", "unknown"} = {}
  PROVE  OwnershipInv'
<1>1. activeTurn' = t /\ projected' = projected \cup {t} /\ NoTurn \notin accepted
  BY OutputsKnown DEF Begins
<1>2. CASE SessionAccepts(t)
  BY <1>1, <1>2, StreamStarts
<1>3. CASE UNCHANGED <<sessionVars, chan, accepted>>
  BY <1>1, <1>3, StreamStays
<1> QED BY <1>2, <1>3 DEF Begins

\* The Session ends its Turn.
LEMMA StreamEnds ==
  ASSUME ConservationInv, OwnershipInv, TypeOK', NEW outcome \in Outcomes, active # NoTurn,
         chan' = Append(chan, Completed(active, outcome)), active' = NoTurn,
         UNCHANGED <<consumer, current, projected, activeTurn>>
  PROVE  OwnershipInv'
<1> DEFINE more == <<Completed(active, outcome)>>
<1>1. /\ Completed(active, outcome) \in Events /\ Completed(active, outcome).turn = active
      /\ Completed(active, outcome).type = "completed"
  BY EventTypes DEF Completed, ConservationInv, TypeOK, SessionTypes
<1>2. more \in Seq(Events) /\ Len(more) = 1 /\ DOMAIN more = 1 .. 1
      /\ \A k \in DOMAIN more : more[k].turn = active /\ more[k].type = "completed"
  BY <1>1
<1>3. chan' = chan \o more
  BY <1>1, OutputsKnown, AppendIsConcat
<1> HIDE DEF more
<1>4. EndsLast(more) /\ EndsOther(more, active') /\ OpensAutos(more)
  BY <1>2 DEF EndsLast, EndsOther, OpensAutos
<1> QED BY <1>2, <1>3, <1>4, StreamGrows

\* A cancel ends the Turn or leaves it running.
LEMMA StreamCancels ==
  ASSUME ConservationInv, OwnershipInv, TypeOK', NEW t \in Turns, SessionCancels(t),
         UNCHANGED <<consumer, current, projected, activeTurn>>
  PROVE  OwnershipInv'
<1>1. active = t /\ t # NoTurn /\ "cancelled" \in Outcomes
  BY TurnsAssumption DEF SessionCancels, Outcomes
<1>2. CASE UNCHANGED <<active, chan>>
  BY <1>2, StreamStays
<1>3. CASE chan' = Append(chan, Completed(t, "cancelled")) /\ active' = NoTurn
  BY <1>1, <1>3, StreamEnds
<1> QED BY <1>2, <1>3 DEF SessionCancels

-----------------------------------------------------------------------------
(* One lemma per part of Next *)

\* #beginExternalTurn for a Turn that was not accepted yet.
LEMMA BeginForOwned ==
  ASSUME ConservationInv, OwnershipInv, TypeOK', NEW r \in Requests, NEW t \in Turns \ accepted, NEW reserved,
         NEW site, BeginFor(r, t, reserved, site), UNCHANGED <<consumer, current>>
  PROVE  OwnershipInv'
<1>1. CASE BeginRefused(reserved)
  BY <1>1, StreamStays DEF BeginRefused
<1>2. CASE ~HostRefuses(reserved) /\ BeginAdmitted(t, {r})
  BY <1>2, AdmittedBegins, StreamBegins DEF HostRefuses
<1> QED BY <1>1, <1>2 DEF BeginFor

\* The queue's next submission, or none.
LEMMA QueuedStartOwned ==
  ASSUME ConservationInv, OwnershipInv, TypeOK', StartQueuedSubmission,
         \/ UNCHANGED <<consumer, current>>
         \/ {consumer, consumer'} \cap {"gate", "persist", "overlap", "unknown"} = {}
  PROVE  OwnershipInv'
<1>1. CASE UNCHANGED <<activeTurn, projected, sessionVars, chan>>
  BY <1>1, StreamStays
<1>2. CASE Idle /\ queue # <<>> /\ BeginAdmitted(Head(queue), {})
  <2>1. queue \in Seq(Subs)
    BY DEF ConservationInv, TypeOK, QueueTypes
  <2>2. Head(queue) = queue[1] /\ 1 \in DOMAIN queue
    BY <1>2, <2>1, TailIsWithout
  <2>3. Head(queue) \in Turns \ accepted
    BY <2>1, <2>2 DEF ConservationInv, SubmissionConserved, Turns
  <2> QED BY <1>2, <2>3, AdmittedBegins, StreamBegins DEF Idle
<1> QED BY <1>1, <1>2 DEF StartQueuedSubmission, BeginRefused

\* Every step of a request keeps the Host and the Session agreed.
LEMMA RequestsOwned ==
  ASSUME ConservationInv, OwnershipInv, TypeOK', NEW r \in Requests,
         RequestArrives(r) \/ RequestContinues(r) \/ SteerTimeout(r)
  PROVE  OwnershipInv'
<1>f. r \in Turns /\ (pc[r] \notin {"responding", "done"} => r \notin accepted)
  BY DEF Turns, ConservationInv, StarterWaits
<1>m. ASSUME UNCHANGED <<activeTurn, projected, consumer, current, active, chan>>
      PROVE  OwnershipInv'
  BY <1>m, StreamStays
<1>1. CASE \/ TurnStart(r) \/ TurnRejected(r) \/ CommandPrepared(r) \/ CommandRejected(r)
           \/ Respond(r) \/ SteerFails(r) \/ SteerTimeout(r) \/ CancelSettles(r) \/ \E s \in Subs : QueueAdd(r, s)
  BY <1>1, <1>m DEF TurnStart, TurnRejected, CommandPrepared, CommandRejected, Respond, SteerFails, SteerTimeout,
                    CancelSettles, QueueAdd, OnlyMoves
<1>2. CASE TurnSteer(r)
  <2>1. UNCHANGED <<activeTurn, projected, consumer, current>>
    BY <1>2 DEF TurnSteer
  <2>2. CASE SessionCancels(activeTurn) /\ activeTurn # NoTurn
    <3>1. activeTurn \in Turns
      BY <2>2 DEF ConservationInv, TypeOK, HostTypes
    <3> QED BY <2>1, <2>2, <3>1, StreamCancels
  <2>3. CASE UNCHANGED <<sessionVars, chan>>
    BY <1>m, <2>1, <2>3
  <2> QED BY <1>2, <2>2, <2>3 DEF TurnSteer
<1>3. ASSUME NEW t \in {activeTurn, steerTurn}, TurnInterrupt(r, t)
      PROVE  OwnershipInv'
  <2>1. UNCHANGED <<activeTurn, projected, consumer, current>> /\ t \in Turns
    BY <1>3 DEF TurnInterrupt, ConservationInv, TypeOK, HostTypes, SteerTypes
  <2>2. CASE SessionCancels(t)
    BY <2>1, <2>2, StreamCancels
  <2>3. CASE UNCHANGED <<sessionVars, chan>>
    BY <1>m, <2>1, <2>3
  <2> QED BY <1>3, <2>2, <2>3 DEF TurnInterrupt
<1>4. ASSUME pc[r] \notin {"responding", "done"}, NEW reserved, StartPlainTurn(r, reserved)
      PROVE  OwnershipInv'
  <2>1. UNCHANGED <<consumer, current>>
    BY <1>4 DEF StartPlainTurn
  <2>2. CASE BeginFor(r, r, reserved, "starting")
    BY <1>f, <1>4, <2>1, <2>2, BeginForOwned
  <2>3. CASE UNCHANGED <<activeTurn, projected, sessionVars, chan>>
    BY <1>m, <2>1, <2>3
  <2> QED BY <1>4, <2>2, <2>3 DEF StartPlainTurn
<1>5. CASE TurnPrepared(r) \/ CommandUnmatched(r)
  BY <1>4, <1>5 DEF TurnPrepared, CommandUnmatched
<1>6. CASE CommandMatched(r)
  <2>1. pc[r] = "catalog" /\ ~running /\ activeTurn = NoTurn /\ UNCHANGED <<consumer, current>>
    BY <1>6 DEF CommandMatched, ConservationInv, StartIsActive
  <2>2. Begins(r)
    BY <1>6 DEF CommandMatched, Begins
  <2> QED BY <1>f, <2>1, <2>2, StreamBegins
<1>7. CASE SteerResumes(r)
  <2>1. pc[r] = "steerStop" /\ UNCHANGED <<consumer, current>>
    BY <1>7 DEF SteerResumes, ReplacementDue
  <2>2. CASE BeginFor(r, r, pendingCommand, "starting")
    BY <1>f, <2>1, <2>2, BeginForOwned
  <2>3. CASE UNCHANGED <<activeTurn, projected, sessionVars, chan>>
    BY <1>m, <2>1, <2>3
  <2> QED BY <1>7, <2>2, <2>3 DEF SteerResumes
<1>8. CASE QueueAddAnnounced(r)
  BY <1>8, QueuedStartOwned DEF QueueAddAnnounced
<1>9. ASSUME NEW k \in DOMAIN queue, QueueStart(r, k)
      PROVE  OwnershipInv'
  <2>1. UNCHANGED <<consumer, current>>
    BY <1>9 DEF QueueStart
  <2>2. queue[k] \in Turns \ accepted
    BY DEF ConservationInv, TypeOK, QueueTypes, SubmissionConserved, Turns
  <2>3. CASE BeginFor(r, queue[k], pendingCommand, "queueStarting")
    BY <2>1, <2>2, <2>3, BeginForOwned
  <2>4. CASE UNCHANGED <<activeTurn, projected, sessionVars, chan>>
    BY <1>m, <2>1, <2>4
  <2> QED BY <1>9, <2>3, <2>4 DEF QueueStart
<1> QED BY <1>1, <1>2, <1>3, <1>5, <1>6, <1>7, <1>8, <1>9 DEF RequestArrives, RequestContinues

\* So does the end of a start.
LEMMA StartsOwned ==
  ASSUME ConservationInv, OwnershipInv, TypeOK', StartSettles
  PROVE  OwnershipInv'
<1>1. starting \in Turns \ accepted /\ activeTurn = starting /\ starting \in projected
  BY DEF StartSettles, StartAccepted, StartFailed, ConservationInv, StartIsActive, SubmissionConserved, TypeOK, RequestTypes
<1>2. CASE StartAccepted
  <2>1. SessionAccepts(starting) /\ UNCHANGED <<consumer, current, projected, activeTurn>>
    BY <1>2 DEF StartAccepted
  <2> QED BY <1>1, <2>1, StreamStarts
<1>3. CASE StartFailed
  <2>1. projected' = projected \ {starting} /\ UNCHANGED <<consumer, current, active, chan>>
    BY <1>3 DEF StartFailed
  <2> QED BY <1>1, <2>1, StreamStays
<1> QED BY <1>2, <1>3 DEF StartSettles

\* Taking an output from the outputs.
LEMMA StreamTaken ==
  ASSUME ConservationInv, OwnershipInv, Outputs # <<>>, Outputs' = Tail(Outputs), active' = active,
         consumer # "unknown", consumer' # "unknown",
         \/ Head(Outputs).type # "autonomous" /\ UNCHANGED <<projected, activeTurn>>
         \/ /\ projected \subseteq projected' /\ Head(Outputs).turn \in projected'
            /\ activeTurn' = Head(Outputs).turn /\ activeTurn = NoTurn
         \/ /\ Head(Outputs).type = "completed" /\ projected' = projected \ {Head(Outputs).turn}
            /\ activeTurn = Head(Outputs).turn
  PROVE  OwnershipInv'
<1> DEFINE o == Outputs
<1>1. /\ o \in Seq(Events) /\ o # <<>> /\ EndsLast(o) /\ EndsOther(o, active) /\ OpensAutos(o)
      /\ FollowsOpening(o, projected) /\ ShownOrOpening(o, active, activeTurn)
  BY OutputsKnown DEF OwnershipInv
<1>2. \/ Head(o).type # "autonomous" /\ projected' = projected /\ activeTurn' = activeTurn
      \/ /\ projected \subseteq projected' /\ Head(o).turn \in projected'
         /\ activeTurn' = Head(o).turn /\ activeTurn = NoTurn
      \/ /\ Head(o).type = "completed" /\ projected' = projected \ {Head(o).turn}
         /\ activeTurn = Head(o).turn
  OBVIOUS
<1> HIDE DEF o
<1>3. EndsLast(Tail(o)) /\ EndsOther(Tail(o), active) /\ OpensAutos(Tail(o))
  BY <1>1, TakenInOrder
<1>4. FollowsOpening(Tail(o), projected') /\ ShownOrOpening(Tail(o), active, activeTurn')
  BY <1>1, <1>2, TakenFollows
<1>5. Outputs' = Tail(o)
  BY DEF o
<1> QED BY <1>3, <1>4, <1>5 DEF OwnershipInv, EndsLast, EndsOther, OpensAutos, FollowsOpening, ShownOrOpening

\* The first output is about a projected Turn or is an opening.
LEMMA FirstOutput ==
  ASSUME ConservationInv, OwnershipInv, Outputs # <<>>
  PROVE  \/ Head(Outputs).turn \in projected \cup {NoTurn}
         \/ Head(Outputs).type = "autonomous"
<1> DEFINE o == Outputs
<1>1. o \in Seq(Events) /\ o # <<>> /\ FollowsOpening(o, projected)
  BY OutputsKnown DEF OwnershipInv
<1> HIDE DEF o
<1>2. Head(o) = o[1] /\ 1 \in DOMAIN o
  BY <1>1
<1>3. \A j \in 1 .. 1 : j = 1
  OBVIOUS
<1>4. o[1].turn \in projected \cup {NoTurn} \/ \E j \in 1 .. 1 : o[j] = Event("autonomous", o[1].turn)
  BY <1>1, <1>2 DEF FollowsOpening
<1>5. \A x : Event("autonomous", x).type = "autonomous"
  BY DEF Event
<1> QED BY <1>2, <1>3, <1>4, <1>5 DEF o

\* Every step of the output consumer keeps them agreed; it never meets an unknown Turn.
LEMMA ConsumerOwned ==
  ASSUME ConservationInv, OwnershipInv, TypeOK', Consume
  PROVE  OwnershipInv'
<1>q. chan \in Seq(Events)
  BY OutputsKnown
\* The consumer takes the first of the channel.
<1>t. ASSUME consumer = "next", chan # <<>>
      PROVE  Outputs = chan /\ Head(chan) \in Events
  BY <1>q, <1>t, OutputsOfChannel
<1>n. ASSUME consumer' \notin {"gate", "persist", "overlap"}
      PROVE  Outputs' = chan'
  <2>1. chan' \in Seq(Events)
    BY DEF TypeOK, SessionTypes
  <2>2. Outputs' = <<>> \o chan'
    BY <1>n DEF Outputs
  <2> QED BY <2>1, <2>2, ConcatEmptySeq
<1>1. CASE ConsumeAutonomous
  <2>1. /\ consumer = "next" /\ chan # <<>> /\ Head(chan).type = "autonomous" /\ chan' = Tail(chan)
        /\ active' = active
    BY <1>1 DEF ConsumeAutonomous, TakesOnly, Has
  <2>2. Outputs = chan
    BY <1>t, <2>1
\* The opening it throws on stays in its hand.
  <2>3. CASE consumer' = "overlap" /\ current' = Head(chan) /\ UNCHANGED <<projected, activeTurn>>
    <3>1. Outputs' = <<Head(chan)>> \o Tail(chan)
      BY <2>1, <2>3 DEF Outputs
    <3>2. <<Head(chan)>> \o Tail(chan) = chan
      BY <1>q, <2>1
    <3>3. Outputs' = Outputs
      BY <2>2, <3>1, <3>2
    <3> QED BY <2>1, <2>3, <3>3
            DEF OwnershipInv, EndsLast, EndsOther, OpensAutos, FollowsOpening, ShownOrOpening
  <2>4. CASE /\ consumer' = consumer /\ projected' = projected \cup {Head(chan).turn}
             /\ activeTurn' = Head(chan).turn /\ activeTurn = NoTurn
    <3>1. Outputs' = Tail(chan)
      BY <1>n, <2>1, <2>4
    <3> QED BY <2>1, <2>2, <2>4, <3>1, StreamTaken
  <2> QED BY <1>1, <2>3, <2>4 DEF ConsumeAutonomous
<1>2. CASE ConsumeTurnOutput
  <2>1. /\ consumer = "next" /\ chan # <<>> /\ chan' = Tail(chan) /\ Head(chan).type \in {"started", "completed"}
        /\ UNCHANGED <<active, projected, activeTurn>>
    BY <1>2 DEF ConsumeTurnOutput, TakesOnly, Has
  <2>2. Outputs = chan /\ Head(chan) \in Events
    BY <1>t, <2>1
  <2>3. Head(chan).turn \in projected
    <3>1. Head(chan).turn # NoTurn
      BY <2>1, <2>2, EventKinds, TurnsAssumption
    <3> QED BY <2>1, <2>2, <3>1, FirstOutput
  <2>4. consumer' = "gate" /\ current' = Head(chan)
    BY <1>2, <2>3 DEF ConsumeTurnOutput
  <2>5. Outputs' = <<Head(chan)>> \o Tail(chan)
    BY <2>1, <2>4 DEF Outputs
  <2>6. <<Head(chan)>> \o Tail(chan) = chan
    BY <1>q, <2>1
  <2>7. Outputs' = Outputs
    BY <2>1, <2>2, <2>5, <2>6
  <2> QED BY <2>1, <2>4, <2>7
          DEF OwnershipInv, EndsLast, EndsOther, OpensAutos, FollowsOpening, ShownOrOpening
<1>3. CASE ConsumeFault
  <2>1. /\ consumer = "next" /\ chan # <<>> /\ Head(chan).type # "autonomous" /\ chan' = Tail(chan)
        /\ consumer' = "next" /\ UNCHANGED <<active, projected, activeTurn>>
    BY <1>3 DEF ConsumeFault, TakesOnly, Has
  <2>2. Outputs = chan /\ Outputs' = Tail(chan)
    BY <1>t, <1>n, <2>1
  <2> QED BY <2>1, <2>2, StreamTaken
\* The output in hand is the first of the outputs.
<1>h. ASSUME consumer \in {"gate", "persist"}
      PROVE  Outputs # <<>> /\ Head(Outputs) = current /\ Tail(Outputs) = chan
  <2>1. current \in Events
    <3>1. current \in StartEvents \cup EndEvents
      BY <1>h DEF ConservationInv, TypeOK, ConsumerTypes
    <3> QED BY <3>1, EventTypes
  <2>2. Outputs = <<current>> \o chan
    BY <1>h DEF Outputs
  <2> QED BY <1>q, <2>1, <2>2
<1>4. CASE GateOpens
  <2>1. consumer = "gate" /\ UNCHANGED <<active, projected, activeTurn, chan>>
    BY <1>4 DEF GateOpens, TakesOnly
  <2>2. CASE current.type = "started"
    <3>1. consumer' = "next"
      BY <1>4, <2>2 DEF GateOpens
    <3>2. Outputs' = Tail(Outputs)
      BY <1>h, <1>n, <2>1, <3>1
    <3> QED BY <1>h, <2>1, <2>2, <3>1, <3>2, StreamTaken
  <2>3. CASE current.type # "started"
    <3>1. consumer' = "persist" /\ current' = current
      BY <1>4, <2>3 DEF GateOpens
    <3>2. Outputs' = Outputs
      BY <2>1, <3>1 DEF Outputs
    <3> QED BY <2>1, <3>1, <3>2
            DEF OwnershipInv, EndsLast, EndsOther, OpensAutos, FollowsOpening, ShownOrOpening
  <2> QED BY <2>2, <2>3
<1>5. ASSUME NEW outcome \in Outcomes, TurnCompletes(outcome)
      PROVE  OwnershipInv'
  <2>1. /\ consumer = "persist" /\ consumer' = "settle" /\ projected' = projected \ {current.turn}
        /\ UNCHANGED <<active, chan>>
    BY <1>5 DEF TurnCompletes
  <2>2. current.type = "completed" /\ current.turn = activeTurn
    <3>1. current \in EndEvents
      BY <2>1 DEF ConservationInv, TypeOK, ConsumerTypes
    <3> QED BY <2>1, <3>1 DEF EndEvents, ConservationInv, OutputsAccepted, StartIsActive
  <2>3. Outputs' = Tail(Outputs)
    BY <1>h, <1>n, <2>1
  <2> QED BY <1>h, <2>1, <2>2, <2>3, StreamTaken
<1>6. CASE TurnSettles
  <2>1. {consumer, consumer'} \cap {"gate", "persist", "overlap", "unknown"} = {}
    BY <1>6 DEF TurnSettles
  <2>2. CASE StartQueuedSubmission
    BY <2>1, <2>2, QueuedStartOwned
  <2>3. CASE UNCHANGED <<activeTurn, projected, sessionVars, chan>>
    BY <2>1, <2>3, StreamStays
  <2> QED BY <1>6, <2>2, <2>3 DEF TurnSettles
<1>7. CASE ConsumerEnds
  <2>1. {consumer, consumer'} \cap {"gate", "persist", "overlap", "unknown"} = {}
        /\ UNCHANGED <<activeTurn, projected, active, chan>>
    BY <1>7 DEF ConsumerEnds, TakesOnly
  <2> QED BY <2>1, StreamStays
<1> QED BY <1>1, <1>2, <1>3, <1>4, <1>5, <1>6, <1>7 DEF Consume

\* The Session's own steps.
LEMMA SessionOwned ==
  ASSUME ConservationInv, OwnershipInv, TypeOK', SessionRuns \/ SessionCloses \/ SessionClosed
  PROVE  OwnershipInv'
<1>1. UNCHANGED <<activeTurn, projected, consumer, current>>
  BY DEF SessionRuns, SessionFinishes, SessionContinues, CancelEscalates, HardCancelDone,
         SessionFaults, SessionCloses, SessionClosed, HostKeeps
<1>2. CASE \E outcome \in Outcomes : SessionFinishes(outcome) \/ (HardCancelDone /\ outcome = "cancelled")
  <2>1. PICK outcome \in Outcomes : SessionFinishes(outcome) \/ (HardCancelDone /\ outcome = "cancelled")
    BY <1>2
  <2>2. active # NoTurn /\ chan' = Append(chan, Completed(active, outcome)) /\ active' = NoTurn
    BY <2>1 DEF SessionFinishes, HardCancelDone, SessionEndsTurn
  <2> QED BY <1>1, <2>2, StreamEnds
<1>3. ASSUME NEW t \in Autos, SessionContinues(t)
      PROVE  OwnershipInv'
  <2> DEFINE more == <<Event("autonomous", t), Event("started", t)>>
  <2>1. chan' = chan \o more /\ active' = t /\ t \notin accepted /\ t \in Turns
    BY <1>3 DEF SessionContinues, Turns
  <2>2. /\ Event("autonomous", t) \in Events /\ Event("started", t) \in Events
        /\ Event("autonomous", t).type = "autonomous" /\ Event("started", t).type = "started"
        /\ Event("autonomous", t).turn = t /\ Event("started", t).turn = t
    BY <2>1, EventTypes DEF Event
  <2>3. /\ more \in Seq(Events) /\ DOMAIN more = 1 .. 2 /\ more[1] = Event("autonomous", t)
        /\ \A k \in DOMAIN more : more[k].turn = t /\ more[k].type # "completed"
    BY <2>2
  <2> HIDE DEF more
  <2>4. EndsLast(more) /\ EndsOther(more, active') /\ OpensAutos(more)
    BY <2>3 DEF EndsLast, EndsOther, OpensAutos
  <2>5. \A k \in DOMAIN more : \E j \in 1 .. k : more[j] = Event("autonomous", more[k].turn)
    BY <2>3
  <2>6. \E k \in DOMAIN more : more[k] = Event("autonomous", active')
    BY <2>1, <2>3
  <2> QED BY <1>1, <2>1, <2>3, <2>4, <2>5, <2>6, StreamGrows
<1>4. CASE CancelEscalates \/ SessionCloses
  <2>1. UNCHANGED <<active, chan>>
    BY <1>4 DEF CancelEscalates, SessionCloses
  <2> QED BY <1>1, <2>1, StreamStays
<1>5. active \in Turns \cup {NoTurn} /\ chan \in Seq(Events)
  BY OutputsKnown DEF ConservationInv, TypeOK, SessionTypes
\* What #close and #fault put out ends the Turn, and nothing about it follows.
<1>6. ASSUME NEW last \in Seq(Events), \A k \in DOMAIN last : last[k].type \notin {"autonomous", "completed"} /\ last[k].turn = NoTurn,
             chan' = chan \o (Unfinished \o last), active' = NoTurn
      PROVE  OwnershipInv'
  <2> DEFINE more == Unfinished \o last
  <2>1. CASE active = NoTurn
    <3>1. more = last
      BY <1>6, <2>1, ConcatEmptySeq DEF Unfinished
    <3>2. EndsLast(last) /\ EndsOther(last, active') /\ OpensAutos(last)
      BY <1>6 DEF EndsLast, EndsOther, OpensAutos
    <3> QED BY <1>1, <1>6, <3>1, <3>2, StreamGrows
  <2>2. CASE active # NoTurn
    <3>1. /\ Completed(active, "failed") \in Events /\ Completed(active, "failed").turn = active
          /\ Completed(active, "failed").type = "completed"
      BY <1>5, <2>2, EventTypes DEF Completed, Outcomes
    <3>2. Unfinished = <<Completed(active, "failed")>>
      BY <2>2 DEF Unfinished
    <3>3. Unfinished \in Seq(Events) /\ DOMAIN Unfinished = 1 .. 1 /\ Len(Unfinished) = 1 /\ Unfinished[1] = Completed(active, "failed")
      BY <3>1, <3>2
    <3>4. /\ more \in Seq(Events)
          /\ \A k \in DOMAIN last : Len(Unfinished) + k \in DOMAIN more /\ more[Len(Unfinished) + k] = last[k]
          /\ \A i \in DOMAIN Unfinished : i \in DOMAIN more /\ more[i] = Unfinished[i]
          /\ \A i \in DOMAIN more : i \in DOMAIN Unfinished \/ \E k \in DOMAIN last : i = Len(Unfinished) + k
      BY <1>6, <3>3, GrownStream, ConcatProperties
    <3>5. \A i \in DOMAIN more : i = 1 \/ (i > 1 /\ \E k \in DOMAIN last : more[i] = last[k])
      BY <1>6, <3>3, <3>4
    <3>6. more[1] = Completed(active, "failed") /\ chan' = chan \o more
      BY <1>6, <3>3, <3>4
    <3> HIDE DEF more
    <3>7. \A i \in DOMAIN more : more[i].type # "autonomous" /\ more[i].turn \in {active, NoTurn}
                                 /\ (more[i].type = "completed" => i = 1 /\ more[i].turn = active)
                                 /\ (i > 1 => more[i].turn = NoTurn) /\ i \in Nat
      BY <1>6, <3>1, <3>4, <3>5, <3>6
    <3>8. EndsLast(more) /\ EndsOther(more, active') /\ OpensAutos(more)
      BY <1>6, <2>2, <3>7 DEF EndsLast, EndsOther, OpensAutos
    <3> QED BY <1>1, <1>6, <3>4, <3>6, <3>7, <3>8, StreamGrows
  <2> QED BY <2>1, <2>2
<1>7. Unfinished \in Seq(Events)
  BY <1>5, EventTypes DEF Unfinished, Outcomes
<1>8. CASE SessionClosed
  <2>1. chan' = chan \o Unfinished /\ active' = NoTurn
    BY <1>8 DEF SessionClosed
  <2>2. Unfinished \o <<>> = Unfinished
    BY <1>7, ConcatEmptySeq
  <2>3. <<>> \in Seq(Events) /\ \A k \in DOMAIN <<>> : FALSE
    OBVIOUS
  <2>4. chan' = chan \o (Unfinished \o <<>>)
    BY <2>1, <2>2
  <2> QED BY <1>6, <2>1, <2>3, <2>4
<1>9. CASE SessionFaults
  <2>1. chan' = (chan \o Unfinished) \o <<Faulted>> /\ active' = NoTurn
    BY <1>9 DEF SessionFaults
  <2>2. /\ <<Faulted>> \in Seq(Events)
        /\ \A k \in DOMAIN <<Faulted>> : /\ <<Faulted>>[k].type \notin {"autonomous", "completed"}
                                         /\ <<Faulted>>[k].turn = NoTurn
    BY EventTypes DEF Faulted, Event
  <2>3. chan' = chan \o (Unfinished \o <<Faulted>>)
    BY <1>5, <1>7, <2>1, <2>2, ConcatAssociative
  <2> QED BY <1>6, <2>1, <2>2, <2>3
<1> QED BY <1>2, <1>3, <1>4, <1>8, <1>9 DEF SessionRuns, Outcomes

\* Initially there is nothing to agree on.
LEMMA OwnershipInit == Init => OwnershipInv
<1> SUFFICES ASSUME Init PROVE OwnershipInv
  OBVIOUS
<1>1. Outputs = <<>> /\ active = NoTurn /\ consumer = "next"
  BY DEF Init, Outputs
<1> QED BY <1>1 DEF OwnershipInv, EndsLast, EndsOther, OpensAutos, FollowsOpening, ShownOrOpening

\* The invariant is inductive beside ConservationInv.
LEMMA OwnershipNext ==
  ASSUME ConservationInv, OwnershipInv, TypeOK', [Next]_vars
  PROVE  OwnershipInv'
<1>1. CASE UNCHANGED vars \/ DesktopEdits \/ SetDraining(TRUE) \/ SetDraining(FALSE) \/ HostCloses
  <2>1. UNCHANGED <<activeTurn, projected, consumer, current, active, chan>>
    BY <1>1 DEF vars, DesktopEdits, QueueDelete, QueueReorder, InjectItems, SetDraining, HostCloses
  <2> QED BY <2>1, StreamStays
<1> QED BY <1>1, RequestsOwned, StartsOwned, ConsumerOwned, SessionOwned DEF Next

\* The strengthened invariant, for the theorems below.
LEMMA OwnershipInvariant == Spec => [](ConservationInv /\ OwnershipInv)
<1>1. ConservationInv /\ OwnershipInv /\ [Next]_vars => ConservationInv' /\ OwnershipInv'
  <2> SUFFICES ASSUME ConservationInv, OwnershipInv, [Next]_vars PROVE ConservationInv' /\ OwnershipInv'
    OBVIOUS
  <2>1. ConservationInv' /\ TypeOK'
    BY ConservationNext DEF ConservationInv
  <2> QED BY <2>1, OwnershipNext
<1> QED BY <1>1, ConservationInit, OwnershipInit, PTL DEF Spec

\* The Host and the Session agree on who runs, for any number of requests, submissions and Turns
\* the Session opens itself, and however far the Host's reading of the outputs lags behind:
\* every output not projected yet is about the Turn shown or follows the opening of its own, so
\* #projectedTurn never throws.  That an opening finds the Thread free is not claimed: it may
\* not, and the consumer then keeps the opening in hand for good.
THEOREM OwnersAgree == Spec => []TurnOwnership
<1>1. ConservationInv /\ OwnershipInv => TurnOwnership
  <2> SUFFICES ASSUME ConservationInv, OwnershipInv PROVE TurnOwnership
    OBVIOUS
  <2>1. (running <=> activeTurn # NoTurn) /\ projected = {activeTurn} \ {NoTurn}
    BY DEF ConservationInv, StartIsActive
  <2>2. ASSUME NEW i \in DOMAIN Outputs, NEW j \in 1 .. i PROVE j \in DOMAIN Outputs
    <3>1. DOMAIN Outputs = 1 .. Len(Outputs) /\ Len(Outputs) \in Nat
      BY OutputsKnown
    <3> QED BY <3>1
  <2>3. \A i \in DOMAIN Outputs : \/ Outputs[i].turn \in projected \cup {NoTurn}
                                  \/ \E j \in 1 .. i : Opens(j, Outputs[i].turn)
    BY <2>2 DEF OwnershipInv, FollowsOpening, Opens
  <2>4. (active # NoTurn => active = activeTurn \/ \E i \in DOMAIN Outputs : Opens(i, active))
    BY DEF OwnershipInv, ShownOrOpening, Opens
  <2> QED BY <2>1, <2>3, <2>4 DEF TurnOwnership, OwnershipInv
<1> QED BY <1>1, OwnershipInvariant, PTL

-----------------------------------------------------------------------------
(* The answers and the outputs of a Turn                                    *)

\* A Turn is announced after its answer: until it is written, it is among those the
\* Turn's outputs wait for, and among those the output in hand waits for.
AnswerInv ==
    /\ ResponseFirst
    /\ \A q \in Requests \cap projected : pc[q] = "done" \/ q \in gate[q]
    /\ consumer = "gate" /\ current.turn \in Requests
       => pc[current.turn] = "done" \/ current.turn \in awaited

\* A request alone moves itself; a stopped steering only ends.
LEMMA RequestMovesAlone ==
  ASSUME TypeOK, NEW r \in Requests, RequestArrives(r) \/ RequestContinues(r) \/ SteerTimeout(r)
  PROVE  /\ \A q \in Requests : pc[q] = "done" => pc'[q] = "done"
         /\ \A q \in Requests : pc[q] = "steerStop" /\ steerFault => pc'[q] = "steerStop" \/ SteerFails(q)
<1>1. pc \in [Requests -> Sites]
  BY DEF TypeOK, RequestTypes
<1>m. ASSUME NEW site, Goto(r, site), pc[r] # "done", pc[r] # "steerStop" \/ ~steerFault
      PROVE  /\ \A q \in Requests : pc[q] = "done" => pc'[q] = "done"
             /\ \A q \in Requests : pc[q] = "steerStop" /\ steerFault => pc'[q] = "steerStop"
  BY <1>1, <1>m DEF Goto
<1>2. CASE RequestArrives(r)
  <2>1. pc[r] = "unsent" /\ \E site : Goto(r, site)
    BY <1>2 DEF RequestArrives, TurnStart, TurnSteer, TurnInterrupt, QueueAdd, QueueStart, OnlyMoves, Admitted, BeginFor
  <2> QED BY <1>m, <2>1
<1>3. CASE \/ TurnPrepared(r) \/ TurnRejected(r) \/ CommandPrepared(r) \/ CommandUnmatched(r)
           \/ CommandRejected(r) \/ CommandMatched(r) \/ CancelSettles(r) \/ QueueAddAnnounced(r) \/ Respond(r)
  <2>1. pc[r] \notin {"done", "steerStop"} /\ \E site : Goto(r, site)
    BY <1>3 DEF TurnPrepared, TurnRejected, CommandPrepared, CommandUnmatched, CommandRejected, CommandMatched,
                CancelSettles, QueueAddAnnounced, Respond, OnlyMoves, StartPlainTurn, BeginFor
  <2> QED BY <1>m, <2>1
<1>4. CASE SteerResumes(r)
  <2>1. pc[r] = "steerStop" /\ ~steerFault /\ \E site : Goto(r, site)
    BY <1>4 DEF SteerResumes, ReplacementDue, BeginFor
  <2> QED BY <1>m, <2>1
<1>5. CASE SteerFails(r)
  BY <1>1, <1>5 DEF SteerFails, StopReceived, Goto
<1>6. CASE SteerTimeout(r)
  BY <1>6 DEF SteerTimeout
<1> QED BY <1>2, <1>3, <1>4, <1>5, <1>6 DEF RequestContinues

\* An answered request stays so, and a stopped steering only ends.
LEMMA AnsweredStays ==
  ASSUME ConservationInv, [Next]_vars
  PROVE  /\ \A q \in Requests : pc[q] = "done" => pc'[q] = "done"
         /\ \A q \in Requests : pc[q] = "steerStop" /\ steerFault => pc'[q] = "steerStop" \/ SteerFails(q)
<1>1. CASE StartSettles
  <2>1. \A q \in Requests : pc[q] \in {"done", "steerStop"} => q \notin Starters
    BY DEF Starters
  <2> QED BY <1>1, <2>1 DEF StartSettles, StartAccepted, StartFailed
<1>2. CASE \/ UNCHANGED vars \/ DesktopEdits \/ Consume \/ SessionRuns \/ SetDraining(TRUE) \/ SetDraining(FALSE)
           \/ HostCloses \/ SessionCloses \/ SessionClosed
  <2>1. UNCHANGED pc
    <3>1. CASE Consume
      BY <3>1 DEF Consume, ConsumeAutonomous, ConsumeTurnOutput, ConsumeFault, GateOpens, TurnCompletes, TurnSettles,
                  ConsumerEnds, TakesOnly
    <3>2. CASE SessionRuns \/ SessionCloses \/ SessionClosed
      BY <3>2 DEF SessionRuns, SessionFinishes, SessionContinues, CancelEscalates, HardCancelDone,
                  SessionFaults, SessionCloses, SessionClosed, HostKeeps
    <3>3. CASE UNCHANGED vars \/ DesktopEdits \/ SetDraining(TRUE) \/ SetDraining(FALSE) \/ HostCloses
      BY <3>3 DEF vars, DesktopEdits, QueueDelete, QueueReorder, InjectItems, SetDraining, HostCloses
    <3> QED BY <1>2, <3>1, <3>2, <3>3
  <2> QED BY <2>1
<1> QED BY <1>1, <1>2, RequestMovesAlone DEF Next, ConservationInv

\* A Turn that is shown has the gate it had, or one with its own request.
GatesKept == \A q \in Requests \cap projected' : q \in gate'[q] \/ (q \in projected /\ gate[q] \subseteq gate'[q])

\* A Turn that begins for a request waits for its answer.
LEMMA BeginKeepsGates ==
  ASSUME TypeOK, NEW t \in Requests \cup Subs, NEW answers, BeginAdmitted(t, answers), t \in Requests => t \in answers
  PROVE  GatesKept
<1>1. gate \in [Turns -> SUBSET Requests] /\ Requests \subseteq Turns /\ Subs \subseteq Turns
  BY DEF TypeOK, HostTypes, Turns
<1>2. projected' = projected \cup {t} /\ gate' = [gate EXCEPT ![t] = answers]
  BY DEF BeginAdmitted
<1>3. \A q \in Requests : IF q = t THEN gate'[q] = answers ELSE gate'[q] = gate[q]
  BY <1>1, <1>2
<1>4. Requests \cap Subs = {}
  BY TurnsAssumption
<1> QED BY <1>2, <1>3, <1>4 DEF GatesKept

\* A submission's Turn is no request's.
LEMMA QueuedStartKeepsGates ==
  ASSUME TypeOK, StartQueuedSubmission
  PROVE  GatesKept
<1>1. CASE UNCHANGED <<projected, gate>>
  BY <1>1 DEF GatesKept
<1>2. CASE queue # <<>> /\ BeginAdmitted(Head(queue), {})
  <2>1. queue \in Seq(Subs) /\ Requests \cap Subs = {}
    BY TurnsAssumption DEF TypeOK, QueueTypes
  <2>2. Head(queue) \in Subs
    BY <1>2, <2>1, TailIsWithout
  <2> QED BY <1>2, <2>1, <2>2, BeginKeepsGates
<1> QED BY <1>1, <1>2 DEF StartQueuedSubmission, BeginRefused

\* No step of a request opens a gate before its time.
LEMMA RequestsKeepGates ==
  ASSUME TypeOK, NEW r \in Requests, RequestArrives(r) \/ RequestContinues(r) \/ SteerTimeout(r)
  PROVE  GatesKept
<1>0. gate \in [Turns -> SUBSET Requests] /\ Requests \subseteq Turns /\ Subs \subseteq Turns /\ Requests \cap Subs = {}
  BY TurnsAssumption DEF TypeOK, HostTypes, Turns
<1>m. ASSUME UNCHANGED <<projected, gate>> PROVE GatesKept
  BY <1>m DEF GatesKept
<1>b. ASSUME NEW t \in Subs \cup {r}, NEW reserved, NEW site, BeginFor(r, t, reserved, site) PROVE GatesKept
  <2>1. CASE BeginRefused(reserved)
    BY <1>m, <2>1 DEF BeginRefused
  <2>2. CASE BeginAdmitted(t, {r})
    BY <1>0, <2>2, BeginKeepsGates
  <2> QED BY <1>b, <2>1, <2>2 DEF BeginFor
<1>1. CASE \/ TurnStart(r) \/ TurnRejected(r) \/ CommandPrepared(r) \/ CommandRejected(r) \/ TurnSteer(r)
           \/ Respond(r) \/ SteerFails(r) \/ SteerTimeout(r) \/ CancelSettles(r) \/ \E s \in Subs : QueueAdd(r, s)
  BY <1>1, <1>m DEF TurnStart, TurnRejected, CommandPrepared, CommandRejected, Respond, SteerFails, SteerTimeout,
                    TurnSteer, CancelSettles, QueueAdd, OnlyMoves
<1>2. ASSUME NEW t \in {activeTurn, steerTurn}, TurnInterrupt(r, t) PROVE GatesKept
  <2>1. CASE UNCHANGED <<projected, gate>>
    BY <1>m, <2>1
  <2>2. CASE projected' = projected /\ gate' = [gate EXCEPT ![t] = @ \cup {r}]
    <3>1. \A q \in Requests : gate[q] \subseteq gate'[q]
      BY <1>0, <2>2
    <3> QED BY <2>2, <3>1 DEF GatesKept
  <2> QED BY <1>2, <2>1, <2>2 DEF TurnInterrupt
<1>3. CASE TurnPrepared(r) \/ CommandUnmatched(r)
  BY <1>3, <1>b, <1>m DEF TurnPrepared, CommandUnmatched, StartPlainTurn
<1>4. CASE CommandMatched(r)
  <2>1. projected' = projected \cup {r} /\ gate' = [gate EXCEPT ![r] = {r}]
    BY <1>4 DEF CommandMatched
  <2>2. \A q \in Requests : IF q = r THEN gate'[q] = {r} ELSE gate'[q] = gate[q]
    BY <1>0, <2>1
  <2> QED BY <2>1, <2>2 DEF GatesKept
<1>5. CASE SteerResumes(r)
  BY <1>5, <1>b, <1>m DEF SteerResumes
<1>6. CASE QueueAddAnnounced(r)
  BY <1>6, QueuedStartKeepsGates DEF QueueAddAnnounced
<1>7. ASSUME NEW k \in DOMAIN queue, QueueStart(r, k) PROVE GatesKept
  <2>1. queue[k] \in Subs
    BY DEF TypeOK, QueueTypes
  <2>2. CASE UNCHANGED <<projected, gate>>
    BY <1>m, <2>2
  <2>3. CASE BeginFor(r, queue[k], pendingCommand, "queueStarting")
    BY <1>b, <2>1, <2>3
  <2> QED BY <1>7, <2>2, <2>3 DEF QueueStart
<1> QED BY <1>1, <1>2, <1>3, <1>4, <1>5, <1>6, <1>7 DEF RequestArrives, RequestContinues

\* No other step does: what empties a gate takes its Turn off the Thread or opens one of the Session's own.
LEMMA OthersKeepGates ==
  ASSUME ConservationInv, OwnershipInv,
         \/ UNCHANGED vars \/ DesktopEdits \/ StartSettles \/ Consume \/ SessionRuns
         \/ SetDraining(TRUE) \/ SetDraining(FALSE) \/ HostCloses \/ SessionCloses \/ SessionClosed
  PROVE  GatesKept
<1>0. gate \in [Turns -> SUBSET Requests] /\ Requests \subseteq Turns /\ TypeOK
  BY DEF ConservationInv, TypeOK, HostTypes, Turns
<1>m. ASSUME UNCHANGED <<projected, gate>> PROVE GatesKept
  BY <1>m DEF GatesKept
<1>1. CASE StartSettles
  <2>1. CASE StartAccepted
    BY <1>m, <2>1 DEF StartAccepted
  <2>2. CASE StartFailed
    <3>1. projected' = projected \ {starting} /\ gate' = [gate EXCEPT ![starting] = {}]
      BY <2>2 DEF StartFailed
    <3>2. \A q \in Requests : q # starting => gate'[q] = gate[q]
      BY <1>0, <3>1
    <3> QED BY <3>1, <3>2 DEF GatesKept
  <2> QED BY <1>1, <2>1, <2>2 DEF StartSettles
<1>2. CASE ConsumeAutonomous
  <2>1. consumer = "next" /\ chan # <<>> /\ Head(chan).type = "autonomous"
    BY <1>2 DEF ConsumeAutonomous, Has
  <2>2. chan \in Seq(Events) /\ Outputs = chan
    BY <2>1, OutputsKnown, OutputsOfChannel
  <2>3. 1 \in DOMAIN chan /\ Head(chan) = chan[1]
    BY <2>1, <2>2
  <2>4. Head(chan).turn \in Autos
    BY <2>1, <2>2, <2>3 DEF OwnershipInv, OpensAutos
  <2>5. CASE UNCHANGED <<projected, gate>>
    BY <1>m, <2>5
  <2>6. CASE projected' = projected \cup {Head(chan).turn} /\ gate' = [gate EXCEPT ![Head(chan).turn] = {}]
    <3>1. \A q \in Requests : q # Head(chan).turn
      BY <2>4, TurnsAssumption
    <3>2. \A q \in Requests : gate'[q] = gate[q]
      BY <1>0, <2>6, <3>1
    <3> QED BY <2>6, <3>1, <3>2 DEF GatesKept
  <2> QED BY <1>2, <2>5, <2>6 DEF ConsumeAutonomous
<1>3. ASSUME NEW outcome \in Outcomes, TurnCompletes(outcome) PROVE GatesKept
  <2>1. projected' = projected \ {current.turn} /\ gate' = [gate EXCEPT ![current.turn] = {}]
    BY <1>3 DEF TurnCompletes
  <2>2. \A q \in Requests : q # current.turn => gate'[q] = gate[q]
    BY <1>0, <2>1
  <2> QED BY <2>1, <2>2 DEF GatesKept
<1>4. CASE TurnSettles
  BY <1>0, <1>4, <1>m, QueuedStartKeepsGates DEF TurnSettles
<1>5. CASE ConsumeTurnOutput \/ ConsumeFault \/ GateOpens \/ ConsumerEnds
  BY <1>5, <1>m DEF ConsumeTurnOutput, ConsumeFault, GateOpens, ConsumerEnds
<1>6. CASE SessionRuns \/ SessionCloses \/ SessionClosed
  BY <1>6, <1>m DEF SessionRuns, SessionFinishes, SessionContinues, CancelEscalates, HardCancelDone,
              SessionFaults, SessionCloses, SessionClosed, HostKeeps
<1>7. CASE UNCHANGED vars \/ DesktopEdits \/ SetDraining(TRUE) \/ SetDraining(FALSE) \/ HostCloses
  BY <1>7, <1>m DEF vars, DesktopEdits, QueueDelete, QueueReorder, InjectItems, SetDraining, HostCloses
<1> QED BY <1>1, <1>2, <1>3, <1>4, <1>5, <1>6, <1>7 DEF Consume

\* Only GateOpens announces, and only ConsumeTurnOutput takes an output to its gate.
LEMMA ConsumerWaits ==
  ASSUME [Next]_vars
  PROVE  \/ UNCHANGED announced /\ (consumer' = "gate" => UNCHANGED <<consumer, current, awaited>>)
         \/ ConsumeTurnOutput
         \/ GateOpens
<1>1. CASE \E r \in Requests : RequestArrives(r) \/ RequestContinues(r) \/ SteerTimeout(r)
  <2>1. PICK r \in Requests : RequestArrives(r) \/ RequestContinues(r) \/ SteerTimeout(r)
    BY <1>1
  <2>2. CASE RequestArrives(r)
    BY <2>2 DEF RequestArrives, TurnStart, TurnSteer, TurnInterrupt, QueueAdd, QueueStart, OnlyMoves
  <2>3. CASE RequestContinues(r) \/ SteerTimeout(r)
    BY <2>3 DEF RequestContinues, TurnPrepared, TurnRejected, CommandPrepared, CommandUnmatched, CommandRejected,
                CommandMatched, CancelSettles, QueueAddAnnounced, Respond, OnlyMoves, StartPlainTurn, SteerResumes,
                SteerFails, SteerTimeout
  <2> QED BY <2>1, <2>2, <2>3
<1>2. CASE StartSettles
  BY <1>2 DEF StartSettles, StartAccepted, StartFailed
<1>3. CASE Consume
  BY <1>3 DEF Consume, ConsumeAutonomous, ConsumeFault, TurnCompletes, TurnSettles, ConsumerEnds
<1>4. CASE SessionRuns \/ SessionCloses \/ SessionClosed
  BY <1>4 DEF SessionRuns, SessionFinishes, SessionContinues, CancelEscalates, HardCancelDone,
              SessionFaults, SessionCloses, SessionClosed, HostKeeps
<1>5. CASE UNCHANGED vars \/ DesktopEdits \/ SetDraining(TRUE) \/ SetDraining(FALSE) \/ HostCloses
  BY <1>5 DEF vars, DesktopEdits, QueueDelete, QueueReorder, InjectItems, SetDraining, HostCloses
<1> QED BY <1>1, <1>2, <1>3, <1>4, <1>5 DEF Next

\* The invariant is inductive beside the two others.
LEMMA AnswerNext ==
  ASSUME ConservationInv, OwnershipInv, AnswerInv, [Next]_vars
  PROVE  AnswerInv'
<1>1. GatesKept
  BY RequestsKeepGates, OthersKeepGates DEF Next, ConservationInv
<1>2. \A q \in Requests : pc[q] = "done" => pc'[q] = "done"
  BY AnsweredStays
<1>3. (\A q \in Requests \cap projected : pc[q] = "done" \/ q \in gate[q])'
  BY <1>1, <1>2 DEF AnswerInv, GatesKept
<1>4. CASE UNCHANGED announced /\ (consumer' = "gate" => UNCHANGED <<consumer, current, awaited>>)
  BY <1>2, <1>3, <1>4 DEF AnswerInv, ResponseFirst
<1>5. CASE ConsumeTurnOutput
  <2>1. UNCHANGED <<announced, pc>> /\ (consumer' = "gate" => /\ current' = Head(chan) /\ Head(chan).turn \in projected
                                                             /\ awaited' = gate[Head(chan).turn])
    BY <1>5 DEF ConsumeTurnOutput, TakesOnly
  <2> QED BY <1>2, <1>3, <2>1 DEF AnswerInv, ResponseFirst
<1>6. CASE GateOpens
  <2>1. consumer = "gate" /\ AnswersWritten /\ consumer' # "gate" /\ UNCHANGED pc
        /\ announced' \subseteq announced \cup {current.turn}
    BY <1>6 DEF GateOpens, TakesOnly
  <2>2. current.turn \in Requests => pc[current.turn] \in {"responding", "done"}
    BY <2>1 DEF ConservationInv, OutputsAccepted, StarterWaits
  <2>3. current.turn \in Requests => pc[current.turn] = "done"
    BY <2>1, <2>2 DEF AnswerInv, AnswersWritten, Unanswered
  <2> QED BY <1>3, <2>1, <2>3 DEF AnswerInv, ResponseFirst
<1> QED BY <1>4, <1>5, <1>6, ConsumerWaits

\* Desktop reads the answer to the request that began a Turn before it hears of the Turn
\* (#waitForTurnResponse reads its gate once; the answer is written while it waits).
THEOREM AnswersComeFirst == Spec => []ResponseFirst
<1>1. Init => AnswerInv
  BY DEF Init, AnswerInv, ResponseFirst
<1>2. ConservationInv /\ OwnershipInv /\ AnswerInv /\ [Next]_vars => AnswerInv'
  BY AnswerNext
<1>3. AnswerInv => ResponseFirst
  BY DEF AnswerInv
<1> QED BY <1>1, <1>2, <1>3, OwnershipInvariant, PTL DEF Spec

\* A steering that was stopped, faulted or timed out ends without its replacement, whatever
\* comes in the same step.
THEOREM StopsWin == Spec => StopWins
<1>1. ConservationInv /\ ConservationInv' /\ [Next]_vars
      => [\A r \in Requests : steer = r /\ steerFault /\ pc[r] = "steerStop"
            => pc'[r] \in {"steerStop", "done"} /\ r \notin accepted' /\ starting' # r]_vars
  <2> SUFFICES ASSUME ConservationInv, ConservationInv', [Next]_vars, NEW r \in Requests,
                      steerFault, pc[r] = "steerStop"
               PROVE  pc'[r] \in {"steerStop", "done"} /\ r \notin accepted' /\ starting' # r
    OBVIOUS
  <2>1. pc'[r] = "steerStop" \/ SteerFails(r)
    BY AnsweredStays
  <2>2. CASE pc'[r] = "steerStop"
    BY <2>2 DEF ConservationInv, StarterWaits
  <2>3. CASE SteerFails(r)
    <3>1. pc'[r] = "done" /\ accepted' = accepted
      BY <2>3 DEF SteerFails, Goto, ConservationInv, TypeOK, RequestTypes
    <3> QED BY <3>1 DEF ConservationInv, StarterWaits
  <2> QED BY <2>1, <2>2, <2>3
<1> QED BY <1>1, OwnershipInvariant, PTL DEF Spec, StopWins

-----------------------------------------------------------------------------
(* Why a queued message waits                                               *)

\* The Thread is idle, no message is being announced, and no completion that will look at
\* the queue is under way.
Rests == /\ Idle /\ ~closeRequested /\ \A q \in Requests : pc[q] # "announcing"
         /\ consumer = "next" \/ (consumer = "settle" /\ current.outcome # "succeeded")

\* The strengthening: also while an unsuccessful Turn settles, and a command's Turn is one the Thread shows.
ReasonInv == ephemeral \subseteq projected /\ (Rests => queue = <<>> \/ kept)

\* While an output waits for its answers or its end, the Thread is not idle.
LEMMA OutputKeepsBusy ==
  ASSUME ConservationInv, consumer \in {"gate", "persist"}
  PROVE  ~Idle
<1>1. current.turn \in projected
  BY DEF ConservationInv, OutputsAccepted
<1> QED BY <1>1 DEF Idle, ConservationInv, StartIsActive

\* Beginning a Turn, a refused one included, leaves a reason, a Turn that runs, or what was there.
LEMMA BeginReasoned ==
  ASSUME ConservationInv, NEW t \in Turns, NEW answers, NEW reserved,
         BeginRefused(reserved) \/ BeginAdmitted(t, answers)
  PROVE  /\ projected \subseteq projected'
         /\ \/ kept'
            \/ running'
            \/ HostRefuses(reserved) /\ UNCHANGED <<running, activeTurn, kept>>
<1>1. CASE BeginRefused(reserved)
  <2>1. UNCHANGED <<running, activeTurn, projected>> /\ kept' = (kept \/ ~HostRefuses(reserved))
    BY <1>1 DEF BeginRefused
  <2>2. kept \in BOOLEAN
    BY DEF ConservationInv, TypeOK, RequestTypes
  <2>3. HostRefuses(reserved) => kept' = kept
    BY <2>1, <2>2
  <2> QED BY <2>1, <2>3
<1>2. CASE BeginAdmitted(t, answers)
  BY <1>2 DEF BeginAdmitted
<1> QED BY <1>1, <1>2

\* A start from the queue, when nothing else changes whether the Thread is idle.
LEMMA QueuedStartReasoned ==
  ASSUME ConservationInv, StartQueuedSubmission, UNCHANGED <<steer, pendingCommand, closeRequested>>
  PROVE  /\ projected \subseteq projected'
         /\ Idle' /\ ~closeRequested' => queue' = <<>> \/ kept'
<1>1. CASE closeRequested \/ ~Idle \/ queue = <<>>
  BY <1>1 DEF StartQueuedSubmission, Idle
<1>2. CASE ~(closeRequested \/ ~Idle \/ queue = <<>>)
  <2>1. BeginRefused(FALSE) \/ BeginAdmitted(Head(queue), {})
    BY <1>2 DEF StartQueuedSubmission
  <2>2. ~HostRefuses(FALSE)
    BY <1>2 DEF HostRefuses, Idle
  <2>3. CASE BeginRefused(FALSE)
    BY <2>2, <2>3 DEF BeginRefused
  <2>4. CASE BeginAdmitted(Head(queue), {})
    BY <2>4 DEF BeginAdmitted, Idle
  <2> QED BY <2>1, <2>3, <2>4
<1> QED BY <1>1, <1>2

\* Every step of a request leaves a reason.
LEMMA RequestsReasoned ==
  ASSUME ConservationInv, ReasonInv, NEW r \in Requests,
         RequestArrives(r) \/ RequestContinues(r) \/ SteerTimeout(r)
  PROVE  ReasonInv'
<1>0. /\ pc \in [Requests -> Sites] /\ queue \in Seq(Subs) /\ ephemeral \subseteq projected
      /\ (running <=> activeTurn # NoTurn) /\ projected = {activeTurn} \ {NoTurn}
  BY DEF ConservationInv, TypeOK, RequestTypes, QueueTypes, StartIsActive, ReasonInv
\* Moving a request past the announcement, or leaving all else alone.
<1>m. ASSUME NEW site, Goto(r, site), pc[r] # "announcing",
             UNCHANGED <<running, activeTurn, projected, ephemeral, pendingCommand, steer, closeRequested,
                         consumer, current, queue, kept>>
      PROVE  ReasonInv'
  <2>1. \A q \in Requests : pc'[q] # "announcing" => pc[q] # "announcing"
    BY <1>0, <1>m DEF Goto
  <2>2. Rests' => Rests
    BY <1>m, <2>1 DEF Rests, Idle
  <2> QED BY <1>m, <2>2 DEF ReasonInv
\* A step that leaves a reason.
<1>k. ASSUME kept', ephemeral' \subseteq projected' PROVE ReasonInv'
  BY <1>k DEF ReasonInv
\* A step after which a Turn runs or the Thread is reserved.
<1>i. ASSUME ~Idle', ephemeral' \subseteq projected' PROVE ReasonInv'
  BY <1>i DEF ReasonInv, Rests
\* A Turn of the request's own; the Thread may be free of a reservation after it.
<1>b. ASSUME NEW t \in Turns, NEW reserved \in BOOLEAN, NEW site, BeginFor(r, t, reserved, site), UNCHANGED ephemeral,
             HostRefuses(reserved) => closeRequested' \/ running' \/ activeTurn' # NoTurn \/ pendingCommand'
      PROVE  ReasonInv'
  <2>1. BeginRefused(reserved) \/ BeginAdmitted(t, {r})
    BY <1>b DEF BeginFor
  <2>2. projected \subseteq projected' /\ (kept' \/ running' \/ HostRefuses(reserved))
    BY <2>1, BeginReasoned
  <2> QED BY <1>0, <1>b, <2>2 DEF ReasonInv, Rests, Idle
<1>1. CASE \/ TurnStart(r) \/ TurnRejected(r)
  BY <1>1, <1>m DEF TurnStart, TurnRejected, OnlyMoves, Admitted
<1>2. CASE CommandPrepared(r)
  BY <1>0, <1>2, <1>i DEF CommandPrepared, Idle
<1>3. CASE CommandRejected(r)
  BY <1>0, <1>3, <1>k DEF CommandRejected
<1>4. CASE Respond(r)
  <2>1. pc[r] # "announcing" /\ Goto(r, "done")
        /\ UNCHANGED <<running, activeTurn, projected, ephemeral, steer, closeRequested, consumer, current, queue, kept>>
    BY <1>4 DEF Respond
  <2>2. CASE r \in ephemeral
    <3>1. activeTurn # NoTurn
      BY <1>0, <2>2
    <3> QED BY <1>0, <1>i, <2>1, <3>1 DEF Idle
  <2>3. CASE r \notin ephemeral
    <3>1. pendingCommand' = pendingCommand
      BY <1>4, <2>3 DEF Respond, ConservationInv, TypeOK, HostTypes
    <3> QED BY <1>m, <2>1, <3>1
  <2> QED BY <2>2, <2>3
<1>5. CASE TurnSteer(r)
  <2>1. CASE UNCHANGED <<steer, kept>>
    BY <1>5, <1>m, <2>1 DEF TurnSteer, Admitted
  <2>2. CASE kept'
    BY <1>0, <1>5, <1>k, <2>2 DEF TurnSteer
  <2>3. CASE activeTurn # NoTurn
    BY <1>0, <1>5, <1>i, <2>3 DEF TurnSteer, Idle
  <2> QED BY <1>5, <2>1, <2>2, <2>3 DEF TurnSteer
<1>6. CASE SteerFails(r)
  BY <1>0, <1>6, <1>k DEF SteerFails
<1>7. CASE SteerTimeout(r)
  BY <1>7 DEF SteerTimeout, ReasonInv, Rests, Idle
<1>8. CASE CancelSettles(r)
  BY <1>8, <1>m DEF CancelSettles
<1>9. ASSUME NEW s \in Subs, QueueAdd(r, s) PROVE ReasonInv'
  <2>1. pc[r] = "unsent"
    BY <1>9 DEF QueueAdd, Admitted
  <2>2. CASE OnlyMoves(r, "done")
    BY <1>m, <2>1, <2>2 DEF OnlyMoves
  <2>3. CASE Goto(r, "announcing") /\ UNCHANGED hostVars
    <3>1. pc'[r] = "announcing"
      BY <1>0, <2>3 DEF Goto
    <3> QED BY <1>0, <2>3, <3>1 DEF ReasonInv, Rests
  <2> QED BY <1>9, <2>2, <2>3 DEF QueueAdd
<1>10. ASSUME NEW t \in {activeTurn, steerTurn}, TurnInterrupt(r, t) PROVE ReasonInv'
  <2>1. pc[r] = "unsent" /\ \E site : Goto(r, site)
    BY <1>10 DEF TurnInterrupt
  <2> QED BY <1>10, <1>m, <2>1 DEF TurnInterrupt
<1>11. ASSUME pc[r] # "announcing", NEW reserved \in BOOLEAN, StartPlainTurn(r, reserved), pendingCommand' = reserved
       PROVE  ReasonInv'
  <2>1. UNCHANGED <<ephemeral, steer, closeRequested, consumer, current, queue>> /\ r \in Turns
    BY <1>11 DEF StartPlainTurn, Turns
  <2>2. CASE steer # NoRequest
    <3>1. ~Idle' /\ projected' = projected
      BY <1>11, <2>1, <2>2 DEF StartPlainTurn, Idle
    <3> QED BY <1>0, <1>i, <2>1, <3>1
  <2>3. CASE BeginFor(r, r, reserved, "starting")
    <3>1. HostRefuses(reserved) => closeRequested' \/ running' \/ activeTurn' # NoTurn \/ pendingCommand'
      <4>1. CASE BeginRefused(reserved)
        BY <1>11, <2>1, <4>1 DEF BeginRefused, HostRefuses
      <4>2. CASE BeginAdmitted(r, {r})
        BY <4>2 DEF BeginAdmitted
      <4> QED BY <2>3, <4>1, <4>2 DEF BeginFor
    <3> QED BY <1>b, <2>1, <2>3, <3>1
  <2> QED BY <1>11, <2>2, <2>3 DEF StartPlainTurn
<1>12. CASE TurnPrepared(r)
  BY <1>11, <1>12 DEF TurnPrepared, ConservationInv, TypeOK, HostTypes
<1>13. CASE CommandUnmatched(r)
  BY <1>11, <1>13 DEF CommandUnmatched
<1>14. CASE CommandMatched(r)
  <2>1. running' /\ projected' = projected \cup {r} /\ ephemeral' = ephemeral \cup {r}
    BY <1>14 DEF CommandMatched
  <2> QED BY <1>0, <1>i, <2>1 DEF Idle
<1>15. CASE SteerResumes(r)
  <2>1. UNCHANGED <<ephemeral, pendingCommand, closeRequested>> /\ r \in Turns
    BY <1>15 DEF SteerResumes, Turns
  <2>2. CASE kept' /\ projected' = projected
    BY <1>0, <1>k, <2>1, <2>2
  <2>3. CASE BeginFor(r, r, pendingCommand, "starting")
    <3>1. HostRefuses(pendingCommand) => closeRequested' \/ running' \/ activeTurn' # NoTurn \/ pendingCommand'
      <4>1. CASE BeginRefused(pendingCommand)
        BY <2>1, <4>1 DEF BeginRefused, HostRefuses
      <4>2. CASE BeginAdmitted(r, {r})
        BY <4>2 DEF BeginAdmitted
      <4> QED BY <2>3, <4>1, <4>2 DEF BeginFor
    <3> QED BY <1>b, <2>1, <2>3, <3>1 DEF ConservationInv, TypeOK, HostTypes
  <2> QED BY <1>15, <2>2, <2>3 DEF SteerResumes
<1>16. CASE QueueAddAnnounced(r)
  <2>1. StartQueuedSubmission /\ UNCHANGED <<steer, pendingCommand, closeRequested, ephemeral>>
    BY <1>16 DEF QueueAddAnnounced
  <2>2. projected \subseteq projected' /\ (Idle' /\ ~closeRequested' => queue' = <<>> \/ kept')
    BY <2>1, QueuedStartReasoned
  <2> QED BY <1>0, <2>1, <2>2 DEF ReasonInv, Rests
<1>17. ASSUME NEW k \in DOMAIN queue, QueueStart(r, k) PROVE ReasonInv'
  <2>1. UNCHANGED <<ephemeral, pendingCommand, steer, closeRequested, consumer, current>> /\ queue[k] \in Turns
        /\ pc[r] = "unsent" /\ ~closeRequested
    BY <1>0, <1>17 DEF QueueStart, Admitted, Turns
  <2>2. CASE ~Idle
    <3>1. UNCHANGED <<running, activeTurn, projected>>
      BY <1>17, <2>2 DEF QueueStart
    <3> QED BY <1>0, <1>i, <2>1, <2>2, <3>1 DEF Idle
  <2>3. CASE Idle
    <3>1. BeginFor(r, queue[k], pendingCommand, "queueStarting") /\ ~HostRefuses(pendingCommand)
      BY <1>17, <2>1, <2>3 DEF QueueStart, HostRefuses, Idle
    <3> QED BY <1>b, <2>1, <3>1 DEF ConservationInv, TypeOK, HostTypes
  <2> QED BY <2>2, <2>3
<1> QED BY <1>1, <1>2, <1>3, <1>4, <1>5, <1>6, <1>7, <1>8, <1>9, <1>10, <1>12, <1>13, <1>14, <1>15, <1>16, <1>17
        DEF RequestArrives, RequestContinues

\* So does every other step.
LEMMA OthersReasoned ==
  ASSUME ConservationInv, ReasonInv,
         \/ UNCHANGED vars \/ DesktopEdits \/ StartSettles \/ Consume \/ SessionRuns
         \/ SetDraining(TRUE) \/ SetDraining(FALSE) \/ HostCloses \/ SessionCloses \/ SessionClosed
  PROVE  ReasonInv'
<1>0. /\ queue \in Seq(Subs) /\ ephemeral \subseteq projected
      /\ (running <=> activeTurn # NoTurn) /\ projected = {activeTurn} \ {NoTurn}
  BY DEF ConservationInv, TypeOK, QueueTypes, StartIsActive, ReasonInv
<1>s. ASSUME UNCHANGED <<running, activeTurn, projected, ephemeral, pendingCommand, steer, pc, kept, consumer, current>>,
             closeRequested => closeRequested', queue = <<>> => queue' = <<>>
      PROVE  ReasonInv'
  BY <1>s DEF ReasonInv, Rests, Idle
<1>1. CASE UNCHANGED vars \/ SetDraining(TRUE) \/ SetDraining(FALSE) \/ HostCloses
  <2>1. UNCHANGED <<hostVars, steer, pc, kept, consumer, current, queue>>
    BY <1>1 DEF vars, SetDraining, HostCloses
  <2>2. closeRequested => closeRequested'
    BY <1>1 DEF vars, SetDraining, HostCloses
  <2> QED BY <1>s, <2>1, <2>2
<1>2. CASE SessionRuns \/ SessionCloses \/ SessionClosed
  <2>1. HostKeeps
    BY <1>2 DEF SessionRuns, SessionFinishes, SessionContinues, CancelEscalates, HardCancelDone,
                SessionFaults, SessionCloses, SessionClosed
  <2>2. UNCHANGED <<hostVars, steer, pc, kept, consumer, current, queue, closeRequested>>
    BY <2>1 DEF HostKeeps
  <2> QED BY <1>s, <2>2
<1>3. CASE DesktopEdits
  <2>1. UNCHANGED <<hostVars, steer, pc, kept, consumer, current, closeRequested>>
    BY <1>3 DEF DesktopEdits, QueueDelete, QueueReorder, InjectItems
  <2>2. queue = <<>> => queue' = <<>>
    <3>1. SUFFICES ASSUME queue = <<>> PROVE queue' = <<>>
      OBVIOUS
    <3>2. DOMAIN queue = {}
      BY <3>1
    <3>3. CASE \E p \in [DOMAIN queue -> DOMAIN queue] : QueueReorder(p)
      <4>1. PICK p \in [DOMAIN queue -> DOMAIN queue] : queue' = [i \in DOMAIN queue |-> queue[p[i]]]
        BY <3>3 DEF QueueReorder
      <4>2. DOMAIN queue' = {}
        BY <3>2, <4>1
      <4>3. queue' = [i \in {} |-> queue[p[i]]]
        BY <3>2, <4>1
      <4>4. queue' \in [1 .. 0 -> Subs]
        BY <4>3
      <4>5. queue' \in Seq(Subs) /\ Len(queue') = 0
        BY <4>4, IsASeq, LenProperties
      <4> QED BY <4>5
    <3> QED BY <1>3, <3>1, <3>2, <3>3 DEF DesktopEdits, QueueDelete, InjectItems
  <2> QED BY <1>s, <2>1, <2>2
<1>4. CASE StartAccepted
  <2>1. starting # NoTurn /\ UNCHANGED hostVars
    BY <1>4 DEF StartAccepted
  <2>2. running
    BY <2>1 DEF ConservationInv, StartIsActive
  <2> QED BY <1>0, <2>1, <2>2 DEF ReasonInv, Rests, Idle
<1>5. CASE StartFailed
  BY <1>0, <1>5 DEF StartFailed, ReasonInv
<1>6. CASE ConsumeAutonomous
  <2>1. UNCHANGED <<ephemeral, pendingCommand, steer, pc, queue, closeRequested>> /\ consumer = "next"
    BY <1>6 DEF ConsumeAutonomous, TakesOnly
  <2>2. CASE consumer' = "overlap" /\ projected' = projected
    BY <1>0, <2>1, <2>2 DEF ReasonInv, Rests
  <2>3. CASE running' /\ projected \subseteq projected' /\ UNCHANGED current
    BY <1>0, <2>1, <2>3 DEF ReasonInv, Rests, Idle
  <2> QED BY <1>6, <2>2, <2>3 DEF ConsumeAutonomous
<1>7. CASE ConsumeTurnOutput \/ ConsumeFault \/ ConsumerEnds
  <2>1. UNCHANGED <<running, activeTurn, projected, ephemeral, pendingCommand, steer, pc, queue, closeRequested, kept>>
        /\ consumer = "next" /\ consumer' \in {"next", "gate", "unknown", "ended"}
    BY <1>7 DEF ConsumeTurnOutput, ConsumeFault, ConsumerEnds, TakesOnly
  <2> QED BY <1>0, <2>1 DEF ReasonInv, Rests, Idle
<1>8. CASE GateOpens
  <2>1. UNCHANGED <<running, activeTurn, projected, ephemeral, pendingCommand, steer>> /\ consumer = "gate"
    BY <1>8 DEF GateOpens, TakesOnly
  <2>2. ~Idle
    BY <2>1, OutputKeepsBusy
  <2> QED BY <1>0, <2>1, <2>2 DEF ReasonInv, Rests, Idle
<1>9. ASSUME NEW outcome \in Outcomes, TurnCompletes(outcome) PROVE ReasonInv'
  <2>1. /\ consumer' = "settle" /\ current' = Completed(current.turn, outcome) /\ kept' = (outcome # "succeeded")
        /\ projected' = projected \ {current.turn} /\ ephemeral' = ephemeral \ {current.turn}
    BY <1>9 DEF TurnCompletes
  <2>2. current'.outcome = outcome
    BY <2>1 DEF Completed
  <2> QED BY <1>0, <2>1, <2>2 DEF ReasonInv, Rests
<1>10. CASE TurnSettles
  <2>1. /\ consumer = "settle" /\ consumer' = "next"
        /\ UNCHANGED <<ephemeral, pendingCommand, steer, pc, closeRequested>>
    BY <1>10 DEF TurnSettles
  <2>2. CASE StartQueuedSubmission
    <3>1. projected \subseteq projected' /\ (Idle' /\ ~closeRequested' => queue' = <<>> \/ kept')
      BY <2>1, <2>2, QueuedStartReasoned
    <3> QED BY <1>0, <2>1, <3>1 DEF ReasonInv, Rests
  <2>3. CASE current.outcome # "succeeded" /\ UNCHANGED <<running, activeTurn, projected, queue, kept>>
    BY <2>1, <2>3 DEF ReasonInv, Rests, Idle
  <2> QED BY <1>10, <2>2, <2>3 DEF TurnSettles
<1> QED BY <1>1, <1>2, <1>3, <1>4, <1>5, <1>6, <1>7, <1>8, <1>9, <1>10 DEF StartSettles, Consume

\* A queued message that waits on an idle Thread waits for a reason its user was told: every end,
\* refusal and failure that could leave it there says so, and every success takes the next one.
THEOREM WaitingHasReason == Spec => []IdleQueueHasReason
<1>1. Init => ReasonInv
  BY DEF Init, ReasonInv
<1>2. ConservationInv /\ ReasonInv /\ [Next]_vars => ReasonInv'
  BY RequestsReasoned, OthersReasoned DEF Next
<1>3. ReasonInv => IdleQueueHasReason
  BY DEF ReasonInv, Rests, IdleQueueHasReason
<1> QED BY <1>1, <1>2, <1>3, OwnershipInvariant, PTL DEF Spec
=============================================================================
