--------------------------- MODULE HotAttach_proofs ---------------------------
(***************************************************************************)
(* The attachment controller, for any number of sessions, Hosts that fail   *)
(* to close and menu commands in any order, and the bridge of an attachment *)
(* for any number of requests, contexts and messages.                       *)
(***************************************************************************)
EXTENDS HotAttach, DesktopBridge, FiniteSetTheorems, TLAPS

\* A process starts detached.
LEMMA TypeInit == Init => TypeOK
  <1> SUFFICES ASSUME Init PROVE TypeOK
    OBVIOUS
  <1>1. /\ host \in [Sessions -> {"unused", "running", "ended", "failed"}]
        /\ shut \in [Sessions -> {"open", "closing", "closed"}]
        /\ wire \in [Sessions -> BOOLEAN]
        /\ link \in [Sessions -> {"never", "attached", "gone"}]
    BY DEF Init
  <1>2. phase \in Phases /\ operation \in OperationStages /\ detachment \in DetachmentStages
    BY DEF Init, Phases, OperationStages, DetachmentStages
  <1>3. {force, stale, attachWaits, quitting, ownerGone, finished, forced} \subseteq BOOLEAN
    BY DEF Init
  <1> QED
    BY <1>1, <1>2, <1>3 DEF Init, TypeOK

\* Every step keeps the state well typed; in particular a Host that returned has no work left.
LEMMA TypeNext == TypeOK /\ [Next]_vars => TypeOK'
  <1> SUFFICES ASSUME TypeOK, [Next]_vars PROVE TypeOK'
    OBVIOUS
  <1> USE SessionsAssumption
  <1> USE DEF TypeOK, controlVars, sessionVars, menuVars
  <1>1. CASE UNCHANGED vars
    BY <1>1 DEF vars
  <1>2. CASE Attach
    BY <1>2 DEF OperationStages, Attach
  <1>3. CASE Prepared
    BY <1>3 DEF Phases, OperationStages, Prepared
  <1>4. CASE Connected
    BY <1>4 DEF OperationStages, Connected
  <1>5. CASE TimesOut
    BY <1>5 DEF OperationStages, TimesOut
  <1>6. CASE OperationCleans
    BY <1>6 DEF OperationStages, OperationCleans, StartCleanup, Closing
  <1>7. CASE OperationFails
    BY <1>7 DEF Phases, OperationStages, OperationFails
  <1>8. ASSUME NEW s \in Sessions, Hello(s) PROVE TypeOK'
    BY <1>8 DEF Hello
  <1>9. ASSUME NEW s \in Sessions, AgentAttached(s) PROVE TypeOK'
    BY <1>9 DEF Phases, OperationStages, AgentAttached
  <1>10. ASSUME NEW s \in Sessions, HostEnds(s) PROVE TypeOK'
    BY <1>10 DEF OperationStages, HostEnds, ClearsThreads
  <1>11. ASSUME NEW s \in Sessions, SessionClosed(s) PROVE TypeOK'
    BY <1>11 DEF SessionClosed
  <1>12. ASSUME NEW s \in Sessions, WorkChanges(s) PROVE TypeOK'
    BY <1>12 DEF WorkChanges
  <1>13. ASSUME NEW s \in Sessions, SocketClosed(s) PROVE TypeOK'
    BY <1>13 DEF DetachmentStages, SocketClosed, Detach, Closing
  <1>14. CASE DetachProceeds
    BY <1>14 DEF Phases, DetachmentStages, DetachProceeds, StartCleanup, Closing
  <1>15. CASE DrainPoll
    BY <1>15 DEF Phases, OperationStages, DetachmentStages, DrainPoll,
       DetachSettles, ForceEnds, StartCleanup, Closing
  <1>16. CASE DetachCleaned
    BY <1>16 DEF Phases, OperationStages, DetachmentStages, DetachCleaned, DetachSettles,
       ForceEnds
  <1>17. ASSUME NEW forcing \in BOOLEAN, CmdDetach(forcing) PROVE TypeOK'
    BY <1>17 DEF DetachmentStages, CmdDetach, Detach
  <1>18. CASE CmdCancelDrain
    BY <1>18 DEF Phases, CmdCancelDrain, CancelDrain, Readmit
  <1>19. ASSUME NEW by \in {"menu", "signal"}, Quit(by) PROVE TypeOK'
    BY <1>19 DEF DetachmentStages, Quit, Detach
  <1>20. CASE OwnerLost
    BY <1>20 DEF DetachmentStages, OwnerLost, Detach
  <1> QED
    BY <1>1, <1>2, <1>3, <1>4, <1>5, <1>6, <1>7, <1>8, <1>9, <1>10, <1>11,
       <1>12, <1>13, <1>14, <1>15, <1>16, <1>17, <1>18, <1>19, <1>20 DEF Next

\* Every reachable state of the controller and its sessions is well typed, and only a Host
\* that has not cleared its Threads has work.
THEOREM AttachTypeCorrect == Spec => []TypeOK
  <1>1. Init => TypeOK
    BY TypeInit
  <1>2. TypeOK /\ [Next]_vars => TypeOK'
    BY TypeNext
  <1> QED
    BY <1>1, <1>2, PTL DEF Spec

-----------------------------------------------------------------------------
(* attach() and detach() *)

\* An attach() that got past the wait for #detachment keeps detach() waiting, and the
\* other way round.
Alternates == operation # "none" => detachment \in {"none", "awaiting"}

\* The controller shows the drain only while detach() drains in the current generation.
Drains == phase = "draining" => detachment = "draining" /\ ~stale

\* A session is closed by one of the two, which has taken it from #session.
Cleans ==
    /\ operation = "cleaning" \/ detachment = "cleaning" => session = NoSession
    /\ cleaning # NoSession => operation = "cleaning" \/ detachment = "cleaning"

\* What the two coroutines know of each other.
Control == Alternates /\ Drains /\ Cleans

\* Initially neither runs.
LEMMA ControlInit == Init => Control
  BY DEF Init, Control, Alternates, Drains, Cleans

\* attach() starts only while no detach() runs, and detach() goes on only when no attach() does.
LEMMA ControlNext == TypeOK /\ Control /\ [Next]_vars => Control'
  <1> SUFFICES ASSUME TypeOK, Control, [Next]_vars PROVE Control'
    OBVIOUS
  <1> USE SessionsAssumption
  <1> USE DEF Control, Alternates, Drains, Cleans, controlVars, sessionVars, menuVars
  <1>1. CASE UNCHANGED vars
    BY <1>1 DEF vars
  <1>2. CASE Attach
    BY <1>2 DEF Attach, AttachStarts
  <1>3. CASE Prepared
    BY <1>3 DEF Prepared
  <1>4. CASE Connected
    BY <1>4 DEF Connected
  <1>5. CASE TimesOut
    BY <1>5 DEF TimesOut
  <1>6. CASE OperationCleans
    BY <1>6 DEF OperationCleans, StartCleanup
  <1>7. CASE OperationFails
    BY <1>7 DEF OperationFails
  <1>8. ASSUME NEW s \in Sessions, Hello(s) PROVE Control'
    BY <1>8 DEF Hello
  <1>9. ASSUME NEW s \in Sessions, AgentAttached(s) PROVE Control'
    BY <1>9 DEF AgentAttached
  <1>10. ASSUME NEW s \in Sessions, HostEnds(s) PROVE Control'
    BY <1>10 DEF HostEnds
  <1>11. ASSUME NEW s \in Sessions, SessionClosed(s) PROVE Control'
    BY <1>11 DEF SessionClosed
  <1>12. ASSUME NEW s \in Sessions, WorkChanges(s) PROVE Control'
    BY <1>12 DEF WorkChanges
  <1>13. ASSUME NEW s \in Sessions, SocketClosed(s) PROVE Control'
    BY <1>13 DEF SocketClosed, Detach
  <1>14. CASE DetachProceeds
    BY <1>14 DEF DetachProceeds, ResumeDue, StartCleanup
  <1>15. CASE DrainPoll
    BY <1>15 DEF DrainPoll, DetachSettles, StartCleanup
  <1>16. CASE DetachCleaned
    BY <1>16 DEF DetachCleaned, DetachSettles
  <1>17. ASSUME NEW forcing \in BOOLEAN, CmdDetach(forcing) PROVE Control'
    BY <1>17 DEF CmdDetach, Detach
  <1>18. CASE CmdCancelDrain
    BY <1>18 DEF CmdCancelDrain, CancelDrain
  <1>19. ASSUME NEW by \in {"menu", "signal"}, Quit(by) PROVE Control'
    BY <1>19 DEF Quit, Detach
  <1>20. CASE OwnerLost
    BY <1>20 DEF OwnerLost, Detach
  <1> QED
    BY <1>1, <1>2, <1>3, <1>4, <1>5, <1>6, <1>7, <1>8, <1>9, <1>10, <1>11,
       <1>12, <1>13, <1>14, <1>15, <1>16, <1>17, <1>18, <1>19, <1>20 DEF Next

-----------------------------------------------------------------------------
(* The Hosts of the sessions *)

\* A Host that runs is the current one or the one being closed; one whose session was
\* closed has ended.
Hosts ==
    /\ \A s \in Sessions : host[s] = "running" => s = session \/ s = cleaning
    /\ \A s \in Sessions : shut[s] = "closed" => host[s] \in {"ended", "failed"}
    /\ session # NoSession => host[session] # "unused"
    /\ \A s \in draining : host[s] # "unused"

\* Initially no Host was created.
LEMMA HostsInit == Init => Hosts
  BY DEF Init, Hosts

\* A Host leaves #session only to be closed, and a new one comes only after that.
LEMMA HostsNext == TypeOK /\ Control /\ Hosts /\ [Next]_vars => Hosts'
  <1> SUFFICES ASSUME TypeOK, Control, Hosts, [Next]_vars PROVE Hosts'
    OBVIOUS
  <1> USE SessionsAssumption
  <1> USE DEF Hosts, controlVars, sessionVars, menuVars
  <1>1. CASE UNCHANGED vars
    BY <1>1 DEF vars
  <1>2. CASE Attach
    BY <1>2 DEF Attach
  <1>3. CASE Prepared
    BY <1>3 DEF Prepared
  <1>4. CASE Connected
    BY <1>4 DEF Connected
  <1>5. CASE TimesOut
    BY <1>5 DEF TimesOut
  <1>6. CASE OperationCleans
    BY <1>6 DEF Control, Alternates, Cleans, OperationCleans, StartCleanup, Closing
  <1>7. CASE OperationFails
    BY <1>7 DEF OperationFails, CleanupDone
  <1>8. ASSUME NEW s \in Sessions, Hello(s) PROVE Hosts'
    BY <1>8 DEF TypeOK, Hello
  <1>9. ASSUME NEW s \in Sessions, AgentAttached(s) PROVE Hosts'
    BY <1>9 DEF AgentAttached
  <1>10. ASSUME NEW s \in Sessions, HostEnds(s) PROVE Hosts'
    BY <1>10 DEF HostEnds
  <1>11. ASSUME NEW s \in Sessions, SessionClosed(s) PROVE Hosts'
    BY <1>11 DEF SessionClosed
  <1>12. ASSUME NEW s \in Sessions, WorkChanges(s) PROVE Hosts'
    BY <1>12 DEF WorkChanges
  <1>13. ASSUME NEW s \in Sessions, SocketClosed(s) PROVE Hosts'
    BY <1>13 DEF SocketClosed, Closing
  <1>14. CASE DetachProceeds
    BY <1>14 DEF Control, Cleans, TypeOK, DetachProceeds, ResumeDue, StartCleanup, Closing
  <1>15. CASE DrainPoll
    BY <1>15 DEF Control, Alternates, Cleans, TypeOK, DrainPoll, StartCleanup, Closing
  <1>16. CASE DetachCleaned
    BY <1>16 DEF DetachCleaned, CleanupDone
  <1>17. ASSUME NEW forcing \in BOOLEAN, CmdDetach(forcing) PROVE Hosts'
    BY <1>17 DEF CmdDetach
  <1>18. CASE CmdCancelDrain
    BY <1>18 DEF CmdCancelDrain, CancelDrain, Readmit
  <1>19. ASSUME NEW by \in {"menu", "signal"}, Quit(by) PROVE Hosts'
    BY <1>19 DEF Quit
  <1>20. CASE OwnerLost
    BY <1>20 DEF OwnerLost
  <1> QED
    BY <1>1, <1>2, <1>3, <1>4, <1>5, <1>6, <1>7, <1>8, <1>9, <1>10, <1>11,
       <1>12, <1>13, <1>14, <1>15, <1>16, <1>17, <1>18, <1>19, <1>20 DEF Next

\* The new work of the current Host is refused while the drain is shown, initially.
LEMMA AdmissionInit == Init => DrainAdmission
  BY DEF Init, DrainAdmission

\* Admission and the phase change in the same step.
LEMMA AdmissionNext ==
    TypeOK /\ Control /\ Hosts /\ DrainAdmission /\ [Next]_vars => DrainAdmission'
  <1> SUFFICES ASSUME TypeOK, Control, Hosts, DrainAdmission, [Next]_vars PROVE DrainAdmission'
    OBVIOUS
  <1> USE SessionsAssumption
  <1> USE DEF DrainAdmission, controlVars, sessionVars, menuVars
  <1>1. CASE UNCHANGED vars
    BY <1>1 DEF vars
  <1>2. CASE Attach
    BY <1>2 DEF Attach
  <1>3. CASE Prepared
    BY <1>3 DEF Control, Alternates, Drains, Prepared
  <1>4. CASE Connected
    BY <1>4 DEF Connected
  <1>5. CASE TimesOut
    BY <1>5 DEF TimesOut
  <1>6. CASE OperationCleans
    BY <1>6 DEF OperationCleans, StartCleanup
  <1>7. CASE OperationFails
    BY <1>7 DEF Control, Cleans, OperationFails
  <1>8. ASSUME NEW s \in Sessions, Hello(s) PROVE DrainAdmission'
    BY <1>8 DEF Hosts, Control, Alternates, Drains, Hello
  <1>9. ASSUME NEW s \in Sessions, AgentAttached(s) PROVE DrainAdmission'
    BY <1>9 DEF Control, Alternates, Drains, AgentAttached
  <1>10. ASSUME NEW s \in Sessions, HostEnds(s) PROVE DrainAdmission'
    BY <1>10 DEF HostEnds
  <1>11. ASSUME NEW s \in Sessions, SessionClosed(s) PROVE DrainAdmission'
    BY <1>11 DEF SessionClosed
  <1>12. ASSUME NEW s \in Sessions, WorkChanges(s) PROVE DrainAdmission'
    BY <1>12 DEF WorkChanges
  <1>13. ASSUME NEW s \in Sessions, SocketClosed(s) PROVE DrainAdmission'
    BY <1>13 DEF SocketClosed
  <1>14. CASE DetachProceeds
    BY <1>14 DEF DetachProceeds, StartCleanup
  <1>15. CASE DrainPoll
    BY <1>15 DEF DrainPoll, DetachSettles, StartCleanup
  <1>16. CASE DetachCleaned
    BY <1>16 DEF Control, Cleans, DetachCleaned
  <1>17. ASSUME NEW forcing \in BOOLEAN, CmdDetach(forcing) PROVE DrainAdmission'
    BY <1>17 DEF CmdDetach
  <1>18. CASE CmdCancelDrain
    BY <1>18 DEF CmdCancelDrain, CancelDrain, Readmit
  <1>19. ASSUME NEW by \in {"menu", "signal"}, Quit(by) PROVE DrainAdmission'
    BY <1>19 DEF Quit
  <1>20. CASE OwnerLost
    BY <1>20 DEF OwnerLost
  <1> QED
    BY <1>1, <1>2, <1>3, <1>4, <1>5, <1>6, <1>7, <1>8, <1>9, <1>10, <1>11,
       <1>12, <1>13, <1>14, <1>15, <1>16, <1>17, <1>18, <1>19, <1>20 DEF Next

\* What the four properties rest on.
AttachInv == TypeOK /\ Control /\ Hosts /\ DrainAdmission

\* The invariant is inductive.
LEMMA AttachInvariant == Spec => []AttachInv
  <1>1. Init => AttachInv
    BY TypeInit, ControlInit, HostsInit, AdmissionInit DEF AttachInv
  <1>2. AttachInv /\ [Next]_vars => AttachInv'
    BY TypeNext, ControlNext, HostsNext, AdmissionNext DEF AttachInv
  <1> QED
    BY <1>1, <1>2, PTL DEF Spec

\* attach() and detach() never work on the session at the same time, although each may be
\* called at any moment of the other.
THEOREM CoroutinesAlternate == Spec => []CoroutinesExclude
  <1>1. AttachInv => CoroutinesExclude
    BY DEF AttachInv, Control, Alternates, CoroutinesExclude
  <1> QED
    BY <1>1, AttachInvariant, PTL

\* The Host of the current session refuses new work exactly while the drain is shown.
THEOREM AdmissionFollowsDrain == Spec => []DrainAdmission
  <1>1. AttachInv => DrainAdmission
    BY DEF AttachInv
  <1> QED
    BY <1>1, AttachInvariant, PTL

\* However many sessions come and go, at most one has a running Host.
THEOREM SingleHost == Spec => []OneHost
  <1>1. AttachInv => OneHost
    <2> SUFFICES ASSUME AttachInv PROVE OneHost
      OBVIOUS
    <2> DEFINE Running == {s \in Sessions : host[s] = "running"}
    <2>1. PICK x : Running \subseteq {x}
      <3>1. CASE cleaning = NoSession
        BY <3>1, SessionsAssumption DEF AttachInv, Hosts
      <3>2. CASE cleaning # NoSession
        BY <3>2, SessionsAssumption DEF AttachInv, Control, Cleans, Hosts
      <3> QED
        BY <3>1, <3>2
    <2>2. IsFiniteSet({x}) /\ Cardinality({x}) = 1
      BY FS_Singleton
    <2>3. Cardinality(Running) <= Cardinality({x})
      BY <2>1, <2>2, FS_Subset
    <2> QED
      BY <2>2, <2>3 DEF OneHost
  <1> QED
    BY <1>1, AttachInvariant, PTL

-----------------------------------------------------------------------------
(* Force *)

\* The force belongs to the detachment in progress, and one of its callers asked for it.
Forces == force => forced /\ detachment # "none"

\* When detach() settles the force goes with it; the next one starts without.
LEMMA ForcesNext == Forces /\ [Next]_vars => Forces'
  <1> SUFFICES ASSUME Forces, [Next]_vars PROVE Forces'
    OBVIOUS
  <1> USE SessionsAssumption
  <1> USE DEF Forces, controlVars, sessionVars, menuVars
  <1>1. CASE UNCHANGED vars
    BY <1>1 DEF vars
  <1>2. CASE Attach
    BY <1>2 DEF Attach
  <1>3. CASE Prepared
    BY <1>3 DEF Prepared
  <1>4. CASE Connected
    BY <1>4 DEF Connected
  <1>5. CASE TimesOut
    BY <1>5 DEF TimesOut
  <1>6. CASE OperationCleans
    BY <1>6 DEF OperationCleans
  <1>7. CASE OperationFails
    BY <1>7 DEF OperationFails
  <1>8. ASSUME NEW s \in Sessions, Hello(s) PROVE Forces'
    BY <1>8 DEF Hello
  <1>9. ASSUME NEW s \in Sessions, AgentAttached(s) PROVE Forces'
    BY <1>9 DEF AgentAttached
  <1>10. ASSUME NEW s \in Sessions, HostEnds(s) PROVE Forces'
    BY <1>10 DEF HostEnds
  <1>11. ASSUME NEW s \in Sessions, SessionClosed(s) PROVE Forces'
    BY <1>11 DEF SessionClosed
  <1>12. ASSUME NEW s \in Sessions, WorkChanges(s) PROVE Forces'
    BY <1>12 DEF WorkChanges
  <1>13. ASSUME NEW s \in Sessions, SocketClosed(s) PROVE Forces'
    BY <1>13 DEF SocketClosed, Detach
  <1>14. CASE DetachProceeds
    BY <1>14 DEF DetachProceeds
  <1>15. CASE DrainPoll
    <2>1. CASE DetachSettles(phase, TRUE)
      BY <2>1 DEF DetachSettles, ForceEnds
    <2>2. CASE detachment' = "cleaning" /\ UNCHANGED <<force, menuVars>>
      BY <1>15, <2>2
    <2> QED
      BY <1>15, <2>1, <2>2 DEF DrainPoll
  <1>16. CASE DetachCleaned
    BY <1>16 DEF DetachCleaned, DetachSettles, ForceEnds
  <1>17. ASSUME NEW forcing \in BOOLEAN, CmdDetach(forcing) PROVE Forces'
    BY <1>17 DEF CmdDetach, Detach
  <1>18. CASE CmdCancelDrain
    BY <1>18 DEF CmdCancelDrain, CancelDrain
  <1>19. ASSUME NEW by \in {"menu", "signal"}, Quit(by) PROVE Forces'
    BY <1>19 DEF Quit, Detach
  <1>20. CASE OwnerLost
    BY <1>20 DEF OwnerLost, Detach
  <1> QED
    BY <1>1, <1>2, <1>3, <1>4, <1>5, <1>6, <1>7, <1>8, <1>9, <1>10, <1>11,
       <1>12, <1>13, <1>14, <1>15, <1>16, <1>17, <1>18, <1>19, <1>20 DEF Next

\* Work that goes on is cut off only in a detachment of which a caller asked for force.
LEMMA CutsAreForced == Forces /\ [Next]_vars => [CutsOff => forced]_vars
  <1> SUFFICES ASSUME Forces, Next, CutsOff PROVE forced
    OBVIOUS
  <1>1. CASE DetachProceeds
    BY <1>1 DEF DetachProceeds, MustWait, ResumeDue, CutsOff, Forces
  <1>2. CASE DrainPoll
    BY <1>2 DEF DrainPoll, DetachSettles, MustWait, CutsOff, Forces
  <1>3. detachment' = detachment \/ detachment' # "cleaning" \/ DetachProceeds \/ DrainPoll
    BY DEF Next, Attach, Prepared, Connected, TimesOut, OperationCleans, OperationFails, Hello,
       AgentAttached, HostEnds, SessionClosed, WorkChanges, SocketClosed, DetachCleaned,
       DetachSettles, CmdDetach, CmdCancelDrain, CancelDrain, Quit, OwnerLost, Detach,
       controlVars
  <1> QED
    BY <1>1, <1>2, <1>3 DEF CutsOff

\* A force that an earlier detachment was asked for never cuts off the work of a later one.
THEOREM ForceIsOfThisDetachment == Spec => WorkIsCutOnlyByForce
  <1>1. Init => Forces
    BY DEF Init, Forces
  <1>2. Forces /\ [Next]_vars => Forces'
    BY ForcesNext
  <1>3. Forces /\ [Next]_vars => [CutsOff => forced]_vars
    BY CutsAreForced
  <1> QED
    BY <1>1, <1>2, <1>3, PTL DEF Spec, WorkIsCutOnlyByForce

(***************************************************************************)
(* The bridge of one attachment.  A request the Desktop waits for is in one *)
(* place: on its way to the Host, with the Host, or answered on the way     *)
(* down; and as long as the agent is not detached it has no answer there.   *)
(* Detaching empties the list of what the agent would fail, and nothing is  *)
(* delivered from then on, so that a late answer meets no waiting request.  *)
(***************************************************************************)

\* An answer to r is on its way down.
Carries(s, r) == \E i \in 1..Len(s) : s[i].type = "answer" /\ s[i].of = r
AnswersDiffer(s) ==
    \A i, j \in 1..Len(s) :
        s[i].type = "answer" /\ s[j].type = "answer" /\ s[i].of = s[j].of => i = j
\* Request r is on its way up.
Asks(s, r) == \E i \in 1..Len(s) : s[i] = r
AsksDiffer(s) == \A i, j \in 1..Len(s) : s[i] = s[j] => i = j

\* The one place a request is at: on its way up, with the Host, or answered on the way down.
InOnePlace(r) ==
    /\ Asks(up, r) => r \notin requests /\ ~Carries(down, r)
    /\ r \in requests => ~Carries(down, r)
\* An answer of r, or its failure, may still come.
Answerable(r) == Asks(up, r) \/ r \in requests \/ Carries(down, r) \/ r \in desktopPending

BridgeShape ==
    /\ up \in Seq(Requests) /\ down \in Seq(Messages)
    /\ answers \in [Requests -> {0, 1}]
    /\ desktopPending \subseteq asked /\ asked \subseteq Requests
    /\ channel \in [Contexts -> {"none", "open", "closed"}]

AnswerInv ==
    /\ BridgeShape
    /\ AsksDiffer(up) /\ AnswersDiffer(down)
    /\ \A r \in Requests :
         /\ InOnePlace(r)
         /\ r \notin asked => ~Answerable(r) /\ answers[r] = 0
         /\ agent # "detached" /\ Answerable(r) => answers[r] = 0

(***************************************************************************)
(* What taking, adding and cutting messages leaves                          *)
(***************************************************************************)
LEMMA AsksTail ==
    ASSUME NEW s \in Seq(Requests), s # <<>>, AsksDiffer(s)
    PROVE  /\ Tail(s) \in Seq(Requests) /\ AsksDiffer(Tail(s))
           /\ \A r : Asks(Tail(s), r) => Asks(s, r) /\ r # Head(s)
           /\ Head(s) \in Requests /\ Asks(s, Head(s))
<1>1. /\ Tail(s) \in Seq(Requests) /\ Head(s) \in Requests /\ Head(s) = s[1] /\ 1 \in 1..Len(s)
      /\ \A k \in 1..Len(Tail(s)) : k + 1 \in 1..Len(s) /\ k + 1 # 1 /\ Tail(s)[k] = s[k + 1]
    OBVIOUS
<1>2. AsksDiffer(Tail(s))
    BY <1>1 DEF AsksDiffer
<1>3. \A r : Asks(Tail(s), r) => Asks(s, r) /\ r # Head(s)
    BY <1>1 DEF Asks, AsksDiffer
<1> QED BY <1>1, <1>2, <1>3 DEF Asks

LEMMA AsksAppend ==
    ASSUME NEW s \in Seq(Requests), NEW q \in Requests
    PROVE  /\ Append(s, q) \in Seq(Requests)
           /\ AsksDiffer(s) /\ ~Asks(s, q) => AsksDiffer(Append(s, q))
           /\ \A r : Asks(Append(s, q), r) => Asks(s, r) \/ r = q
<1>1. /\ Append(s, q) \in Seq(Requests) /\ Len(Append(s, q)) = Len(s) + 1 /\ Len(s) \in Nat
      /\ Append(s, q)[Len(s) + 1] = q
      /\ \A k \in 1..Len(s) : Append(s, q)[k] = s[k]
    OBVIOUS
<1>2. \A k \in 1..Len(Append(s, q)) : k \in 1..Len(s) \/ k = Len(s) + 1
    BY <1>1
<1> QED BY <1>1, <1>2 DEF Asks, AsksDiffer

LEMMA AnswersTail ==
    ASSUME NEW s \in Seq(Messages), s # <<>>, AnswersDiffer(s)
    PROVE  /\ Tail(s) \in Seq(Messages) /\ AnswersDiffer(Tail(s))
           /\ \A r : Carries(Tail(s), r) => Carries(s, r)
           /\ Head(s).type = "answer" => Carries(s, Head(s).of) /\ ~Carries(Tail(s), Head(s).of)
<1>1. /\ Tail(s) \in Seq(Messages) /\ Head(s) = s[1] /\ 1 \in 1..Len(s)
      /\ \A k \in 1..Len(Tail(s)) : k + 1 \in 1..Len(s) /\ k + 1 # 1 /\ Tail(s)[k] = s[k + 1]
    OBVIOUS
<1>2. AnswersDiffer(Tail(s))
    BY <1>1 DEF AnswersDiffer
<1>3. \A r : Carries(Tail(s), r) => Carries(s, r)
    BY <1>1 DEF Carries
<1>4. Head(s).type = "answer" => Carries(s, Head(s).of) /\ ~Carries(Tail(s), Head(s).of)
    BY <1>1 DEF Carries, AnswersDiffer
<1> QED BY <1>1, <1>2, <1>3, <1>4

LEMMA AnswersAppend ==
    ASSUME NEW s \in Seq(Messages), NEW m \in Messages
    PROVE  /\ Append(s, m) \in Seq(Messages)
           /\ AnswersDiffer(s) /\ (m.type = "answer" => ~Carries(s, m.of)) => AnswersDiffer(Append(s, m))
           /\ \A r : Carries(Append(s, m), r) => Carries(s, r) \/ (m.type = "answer" /\ r = m.of)
<1>1. /\ Append(s, m) \in Seq(Messages) /\ Len(Append(s, m)) = Len(s) + 1 /\ Len(s) \in Nat
      /\ Append(s, m)[Len(s) + 1] = m
      /\ \A k \in 1..Len(s) : Append(s, m)[k] = s[k]
    OBVIOUS
<1>2. \A k \in 1..Len(Append(s, m)) : k \in 1..Len(s) \/ k = Len(s) + 1
    BY <1>1
<1>3. AnswersDiffer(s) /\ (m.type = "answer" => ~Carries(s, m.of)) => AnswersDiffer(Append(s, m))
    BY <1>1, <1>2 DEF AnswersDiffer, Carries
<1>4. \A r : Carries(Append(s, m), r) => Carries(s, r) \/ (m.type = "answer" /\ r = m.of)
    BY <1>1, <1>2 DEF Carries
<1> QED BY <1>1, <1>3, <1>4

\* Messages none of which is an answer
Silent(t) == \A k \in 1..Len(t) : t[k].type # "answer"

LEMMA AnswersConcat ==
    ASSUME NEW s \in Seq(Messages), NEW t \in Seq(Messages), Silent(t)
    PROVE  /\ s \o t \in Seq(Messages)
           /\ AnswersDiffer(s) => AnswersDiffer(s \o t)
           /\ \A r : Carries(s \o t, r) => Carries(s, r)
           /\ Silent(s) => Silent(s \o t)
<1>1. /\ s \o t \in Seq(Messages) /\ Len(s \o t) = Len(s) + Len(t) /\ Len(s) \in Nat /\ Len(t) \in Nat
      /\ \A k \in 1..Len(s) : (s \o t)[k] = s[k]
      /\ \A k \in 1..(Len(s) + Len(t)) : k \notin 1..Len(s) => k - Len(s) \in 1..Len(t) /\ (s \o t)[k] = t[k - Len(s)]
    OBVIOUS
<1>2. \A k \in 1..Len(s \o t) : (s \o t)[k].type = "answer" => k \in 1..Len(s) /\ (s \o t)[k] = s[k]
    BY <1>1 DEF Silent
<1>3. AnswersDiffer(s) => AnswersDiffer(s \o t)
    BY <1>2 DEF AnswersDiffer
<1>4. \A r : Carries(s \o t, r) => Carries(s, r)
    BY <1>2 DEF Carries
<1>5. Silent(s) => Silent(s \o t)
    BY <1>2 DEF Silent
<1> QED BY <1>1, <1>3, <1>4, <1>5

LEMMA AnswersCut ==
    ASSUME NEW s \in Seq(Messages), NEW n \in 0..Len(s), AnswersDiffer(s)
    PROVE  /\ SubSeq(s, 1, n) \in Seq(Messages) /\ AnswersDiffer(SubSeq(s, 1, n))
           /\ \A r : Carries(SubSeq(s, 1, n), r) => Carries(s, r)
<1>1. /\ SubSeq(s, 1, n) \in Seq(Messages)
      /\ \A k \in 1..Len(SubSeq(s, 1, n)) : k \in 1..Len(s) /\ SubSeq(s, 1, n)[k] = s[k]
    OBVIOUS
<1> QED BY <1>1 DEF AnswersDiffer, Carries

LEMMA SetToSeqIsSeq ==
    ASSUME NEW S, IsFiniteSet(S)
    PROVE  SetToSeq(S) \in Seq(S)
<1>1. Cardinality(S) \in Nat /\ ExistsBijection(1..Cardinality(S), S)
    BY FS_CardinalityType
<1>2. PICK f \in [1..Cardinality(S) -> S] : \A a, b \in 1..Cardinality(S) : f[a] = f[b] => a = b
    BY <1>1 DEF ExistsBijection, Bijection, Injection, IsInjective
<1>3. \E g \in [1..Cardinality(S) -> S] : IsInjective(g)
    BY <1>2 DEF IsInjective
<1>4. SetToSeq(S) \in [1..Cardinality(S) -> S]
    BY <1>3 DEF SetToSeq
<1> QED BY <1>1, <1>4

LEMMA ClosesAreFinite ==
    ASSUME NEW C \in SUBSET Contexts
    PROVE  IsFiniteSet({[type |-> "close", of |-> c] : c \in C})
<1> DEFINE T == {[type |-> "close", of |-> c] : c \in C}
           f == [c \in C |-> [type |-> "close", of |-> c]]
<1>1. IsFiniteSet(C)
    BY BridgeAssumption, FS_Subset
<1>2. f \in Surjection(C, T)
    BY DEF Surjection
<1> QED BY <1>1, <1>2, FS_Surjection

\* The messages are of the types the Host writes.
LEMMA HostWrites ==
    /\ \A r \in Requests : /\ [type |-> "answer", of |-> r] \in Messages
                           /\ [type |-> "completed", of |-> r] \in Messages
    /\ \A c \in Contexts : /\ [type |-> "open", of |-> c] \in Messages
                           /\ [type |-> "start", of |-> c] \in Messages
                           /\ [type |-> "close", of |-> c] \in Messages
    /\ \A a \in SUBSET Requests : [type |-> "heartbeat", active |-> a] \in Messages
    /\ [type |-> "detach"] \in Messages /\ [type |-> "activate"] \in Messages
BY DEF Messages

LEMMA AnswersRequests ==
    ASSUME NEW s \in Seq(Messages), s # <<>>, Head(s).type = "answer"
    PROVE  Head(s).of \in Requests
<1>1. Head(s) \in Messages
    OBVIOUS
<1> QED BY <1>1 DEF Messages

\* Nothing new is on its way, and what is delivered or failed was outstanding.
LEMMA LessOutstanding ==
    ASSUME AnswerInv, BridgeShape', AsksDiffer(up'), AnswersDiffer(down'), asked' = asked,
           requests' \subseteq requests, desktopPending' \subseteq desktopPending, answers' = answers,
           agent = "detached" => agent' = "detached",
           \A r \in Requests : Asks(up', r) => Asks(up, r),
           \A r \in Requests : Carries(down', r) => Carries(down, r)
    PROVE  AnswerInv'
<1>1. \A r \in Requests : InOnePlace(r)'
    BY DEF AnswerInv, InOnePlace
<1>2. \A r \in Requests : Answerable(r)' => Answerable(r)
    BY DEF Answerable
<1> QED BY <1>1, <1>2 DEF AnswerInv

LEMMA BridgeInit == InitBridge => AnswerInv
<1> SUFFICES ASSUME InitBridge PROVE AnswerInv
    OBVIOUS
<1>1. /\ up \in Seq(Requests) /\ Len(up) = 0 /\ \A k \in 1..Len(up) : FALSE
    BY DEF InitBridge
<1>2. /\ down \in Seq(Messages) /\ Len(down) = 1 /\ \A k \in 1..Len(down) : k = 1 /\ down[k].type = "activate"
    BY HostWrites DEF InitBridge
<1>3. BridgeShape
    BY <1>1, <1>2 DEF InitBridge, BridgeShape
<1>4. AsksDiffer(up) /\ AnswersDiffer(down) /\ \A r \in Requests : ~Asks(up, r) /\ ~Carries(down, r)
    BY <1>1, <1>2 DEF AsksDiffer, AnswersDiffer, Asks, Carries
<1> QED BY <1>3, <1>4 DEF InitBridge, AnswerInv, InOnePlace, Answerable

\* A message that is no answer
LEMMA SendsOther ==
    ASSUME AnswerInv, NEW m \in Messages, m.type # "answer", Send(m), BridgeShape /\ channel' \in [Contexts -> {"none", "open", "closed"}],
           UNCHANGED <<agent, asked, requests, desktopPending, answers, up>>
    PROVE  AnswerInv'
<1>1. /\ down' \in Seq(Messages) /\ AnswersDiffer(down') /\ \A r \in Requests : Carries(down', r) => Carries(down, r)
    BY AnswersAppend DEF Send, AnswerInv, BridgeShape
<1>2. BridgeShape'
    BY <1>1 DEF BridgeShape
<1>3. AsksDiffer(up')
    BY DEF AnswerInv
<1> QED BY <1>1, <1>2, <1>3, LessOutstanding

LEMMA HostStep ==
    ASSUME AnswerInv,
           \/ HostReceives \/ Heartbeat \/ SessionCloses \/ SessionAsksDetach \/ SessionEnds
           \/ HostLost \/ HostStalls
    PROVE  AnswerInv'
<1>0. AsksDiffer(up) /\ AnswersDiffer(down) /\ BridgeShape
    BY DEF AnswerInv
<1>1. CASE HostReceives
    <2>1. /\ up' \in Seq(Requests) /\ AsksDiffer(up')
          /\ \A r : Asks(up', r) => Asks(up, r) /\ r # Head(up)
          /\ Head(up) \in Requests /\ Asks(up, Head(up))
        BY <1>0, <1>1, AsksTail DEF HostReceives, BridgeShape
    <2>2. /\ requests' \subseteq requests \cup {Head(up)}
          /\ UNCHANGED <<agent, asked, desktopPending, answers, down, channel>>
        BY <1>1 DEF HostReceives, agentVars, desktopVars
    <2>3. BridgeShape'
        BY <1>0, <2>1, <2>2 DEF BridgeShape
    <2>4. ASSUME NEW r \in Requests PROVE InOnePlace(r)' /\ (Answerable(r)' => Answerable(r))
        BY <2>1, <2>2 DEF AnswerInv, InOnePlace, Answerable
    <2> QED BY <1>0, <2>1, <2>2, <2>3, <2>4 DEF AnswerInv
<1>2. CASE Heartbeat
    <2>1. [type |-> "heartbeat", active |-> {r \in Requests : Current(r)}] \in Messages
        BY HostWrites
    <2> DEFINE m == [type |-> "heartbeat", active |-> {r \in Requests : Current(r)}]
    <2>2. m.type # "answer" /\ m \in Messages
        BY <2>1
    <2>3. Send(m) /\ UNCHANGED <<agent, asked, requests, desktopPending, answers, up, channel>>
        BY <1>2 DEF Heartbeat, agentVars, desktopVars, hostVars
    <2> HIDE DEF m
    <2> QED BY <1>0, <2>2, <2>3, SendsOther DEF BridgeShape
<1>3. CASE SessionCloses \/ SessionEnds \/ HostStalls
    <2>1. UNCHANGED <<agent, asked, requests, desktopPending, answers, up, down, channel>>
        BY <1>3 DEF SessionCloses, SessionEnds, HostStalls, agentVars, desktopVars
    <2> QED BY <1>0, <2>1, LessOutstanding DEF BridgeShape
<1>4. CASE HostLost
    <2>1. /\ UNCHANGED <<agent, asked, requests, desktopPending, answers, up, channel>>
          /\ \E n \in 0..Len(down) : down' = SubSeq(down, 1, n)
        BY <1>4 DEF HostLost, agentVars, desktopVars
    <2>2. /\ down' \in Seq(Messages) /\ AnswersDiffer(down') /\ \A r : Carries(down', r) => Carries(down, r)
        BY <1>0, <2>1, AnswersCut DEF BridgeShape
    <2> QED BY <1>0, <2>1, <2>2, LessOutstanding DEF BridgeShape
<1>5. CASE SessionAsksDetach
    <2> DEFINE open == {c \in Contexts : channel[c] = "open"}
               closes == {[type |-> "close", of |-> c] : c \in open}
    <2>1. /\ channel' = [c \in Contexts |-> IF c \in open THEN "closed" ELSE channel[c]]
          /\ down' = (down \o SetToSeq(closes)) \o <<[type |-> "detach"]>>
          /\ UNCHANGED <<agent, asked, requests, desktopPending, answers, up>>
        BY <1>5 DEF SessionAsksDetach, agentVars, desktopVars
    <2>2. channel' \in [Contexts -> {"none", "open", "closed"}]
        BY <1>0, <2>1 DEF BridgeShape
    <2>3. /\ closes \subseteq Messages /\ IsFiniteSet(closes)
          /\ \A m \in closes : m.type # "answer"
        <3>1. open \in SUBSET Contexts
            OBVIOUS
        <3>2. IsFiniteSet(closes)
            BY <3>1, ClosesAreFinite
        <3>3. ASSUME NEW m \in closes PROVE m \in Messages /\ m.type # "answer"
            <4>1. PICK c \in Contexts : m = [type |-> "close", of |-> c]
                OBVIOUS
            <4> QED BY <4>1, HostWrites
        <3> QED BY <3>2, <3>3
    <2> HIDE DEF closes
    <2>4. SetToSeq(closes) \in Seq(closes)
        BY <2>3, SetToSeqIsSeq
    <2>5. SetToSeq(closes) \in Seq(Messages) /\ Silent(SetToSeq(closes))
        BY <2>3, <2>4 DEF Silent
    <2>6. <<[type |-> "detach"]>> \in Seq(Messages) /\ Silent(<<[type |-> "detach"]>>)
        BY HostWrites DEF Silent
    <2>7. /\ down \o SetToSeq(closes) \in Seq(Messages) /\ AnswersDiffer(down \o SetToSeq(closes))
          /\ \A r : Carries(down \o SetToSeq(closes), r) => Carries(down, r)
        BY <1>0, <2>5, AnswersConcat DEF BridgeShape
    <2>8. /\ down' \in Seq(Messages) /\ AnswersDiffer(down') /\ \A r : Carries(down', r) => Carries(down, r)
        BY <2>1, <2>6, <2>7, AnswersConcat
    <2>9. BridgeShape'
        BY <1>0, <2>1, <2>2, <2>8 DEF BridgeShape
    <2> QED BY <1>0, <2>1, <2>8, <2>9, LessOutstanding
<1> QED BY <1>1, <1>2, <1>3, <1>4, <1>5

LEMMA TurnMoves ==
    ASSUME AnswerInv, NEW r \in Requests,
           HostBeginsTurn(r) \/ HostAnswers(r) \/ HostEndsTurn(r) \/ HostCompletes(r)
    PROVE  AnswerInv'
<1>0. AsksDiffer(up) /\ AnswersDiffer(down) /\ BridgeShape
    BY DEF AnswerInv
<1>1. CASE HostBeginsTurn(r) \/ HostEndsTurn(r)
    <2>1. UNCHANGED <<agent, asked, requests, desktopPending, answers, up, down, channel>>
        BY <1>1 DEF HostBeginsTurn, HostEndsTurn, agentVars, desktopVars
    <2> QED BY <1>0, <2>1, LessOutstanding DEF BridgeShape
<1>2. CASE HostAnswers(r)
    <2> DEFINE m == [type |-> "answer", of |-> r]
    <2>1. m \in Messages /\ m.type = "answer" /\ m.of = r
        BY HostWrites
    <2>2. /\ down' = Append(down, m) /\ r \in requests /\ requests' = requests \ {r}
          /\ UNCHANGED <<agent, asked, desktopPending, answers, up, channel>>
        BY <1>2 DEF HostAnswers, Send, agentVars, desktopVars
    <2> HIDE DEF m
    <2>3. ~Carries(down, r)
        BY <2>2 DEF AnswerInv, InOnePlace
    <2>4. /\ down' \in Seq(Messages) /\ AnswersDiffer(down')
          /\ \A q \in Requests : Carries(down', q) => Carries(down, q) \/ q = r
        BY <1>0, <2>1, <2>2, <2>3, AnswersAppend DEF BridgeShape
    <2>5. BridgeShape'
        BY <1>0, <2>2, <2>4 DEF BridgeShape
    <2>6. \A q \in Requests : InOnePlace(q)'
        BY <2>2, <2>4 DEF AnswerInv, InOnePlace
    <2>7. \A q \in Requests : Answerable(q)' => Answerable(q)
        BY <2>2, <2>4 DEF Answerable
    <2> QED BY <1>0, <2>2, <2>4, <2>5, <2>6, <2>7 DEF AnswerInv
<1>3. CASE HostCompletes(r)
    <2> DEFINE m == [type |-> "completed", of |-> r]
    <2>1. m \in Messages /\ m.type # "answer"
        BY HostWrites
    <2>2. Send(m) /\ UNCHANGED <<agent, asked, requests, desktopPending, answers, up, channel>>
        BY <1>3 DEF HostCompletes, agentVars, desktopVars
    <2> HIDE DEF m
    <2> QED BY <1>0, <2>1, <2>2, SendsOther DEF BridgeShape
<1> QED BY <1>1, <1>2, <1>3

LEMMA ContextMoves ==
    ASSUME AnswerInv, NEW c \in Contexts, OpenContext(c) \/ CloseContext(c) \/ NativeAnswers(c)
    PROVE  AnswerInv'
<1>0. AsksDiffer(up) /\ AnswersDiffer(down) /\ BridgeShape
    BY DEF AnswerInv
<1>1. CASE OpenContext(c)
    <2> DEFINE two == <<[type |-> "open", of |-> c], [type |-> "start", of |-> c]>>
    <2>1. two \in Seq(Messages) /\ Silent(two)
        <3>1. two \in Seq(Messages) /\ Len(two) = 2
            <4>1. \A a, b \in Messages : <<a, b>> \in Seq(Messages) /\ Len(<<a, b>>) = 2
                OBVIOUS
            <4> QED BY <4>1, HostWrites
        <3>2. two[1].type = "open" /\ two[2].type = "start"
            OBVIOUS
        <3>3. \A k \in 1..Len(two) : k = 1 \/ k = 2
            BY <3>1
        <3> HIDE DEF two
        <3> QED BY <3>1, <3>2, <3>3 DEF Silent
    <2>2. /\ down' = down \o two /\ channel' = [channel EXCEPT ![c] = "open"]
          /\ UNCHANGED <<agent, asked, requests, desktopPending, answers, up>>
        BY <1>1 DEF OpenContext, agentVars, desktopVars
    <2> HIDE DEF two
    <2>3. /\ down' \in Seq(Messages) /\ AnswersDiffer(down') /\ \A r : Carries(down', r) => Carries(down, r)
        BY <1>0, <2>1, <2>2, AnswersConcat DEF BridgeShape
    <2>4. BridgeShape'
        BY <1>0, <2>2, <2>3 DEF BridgeShape
    <2> QED BY <1>0, <2>2, <2>3, <2>4, LessOutstanding
<1>2. CASE CloseContext(c)
    <2> DEFINE m == [type |-> "close", of |-> c]
    <2>1. m \in Messages /\ m.type # "answer"
        BY HostWrites
    <2>2. /\ Send(m) /\ channel' = [channel EXCEPT ![c] = "closed"]
          /\ UNCHANGED <<agent, asked, requests, desktopPending, answers, up>>
        BY <1>2 DEF CloseContext, agentVars, desktopVars
    <2> HIDE DEF m
    <2>3. channel' \in [Contexts -> {"none", "open", "closed"}]
        BY <1>0, <2>2 DEF BridgeShape
    <2> QED BY <1>0, <2>1, <2>2, <2>3, SendsOther
<1>3. CASE NativeAnswers(c)
    <2>1. UNCHANGED <<agent, asked, requests, desktopPending, answers, up, down, channel>>
        BY <1>3 DEF NativeAnswers, desktopVars, hostVars
    <2> QED BY <1>0, <2>1, LessOutstanding DEF BridgeShape
<1> QED BY <1>1, <1>2, <1>3

\* The agent, when it detaches, fails what is outstanding, and delivers nothing from then on.
LEMMA Fails ==
    ASSUME AnswerInv, NEW pending \in SUBSET Requests, NEW reason, AgentDetaches(reason, pending),
           \A r \in pending : answers[r] = 0 /\ r \in asked',
           asked \subseteq asked', asked' \subseteq Requests,
           up' = up, AnswersDiffer(down'), down' \in Seq(Messages), UNCHANGED <<requests, channel>>,
           \A r \in Requests : Carries(down', r) => Carries(down, r)
    PROVE  AnswerInv'
<1>1. /\ agent' = "detached" /\ desktopPending' = {}
      /\ answers' = [r \in Requests |-> IF r \in pending THEN answers[r] + 1 ELSE answers[r]]
    BY DEF AgentDetaches, AnswersFailed
<1>2. answers' \in [Requests -> {0, 1}]
    BY <1>1 DEF AnswerInv, BridgeShape
<1>3. BridgeShape'
    BY <1>1, <1>2 DEF AnswerInv, BridgeShape
<1>4. ASSUME NEW r \in Requests PROVE InOnePlace(r)' /\ (r \notin asked' => ~Answerable(r)' /\ answers'[r] = 0)
    BY <1>1 DEF AnswerInv, InOnePlace, Answerable
<1> QED BY <1>1, <1>3, <1>4 DEF AnswerInv

LEMMA MayDetach ==
    ASSUME AnswerInv, NEW reason, Detaches(reason),
           UNCHANGED <<asked, up, requests, channel>>, AnswersDiffer(down'), down' \in Seq(Messages),
           \A r \in Requests : Carries(down', r) => Carries(down, r)
    PROVE  AnswerInv'
<1>1. CASE agent = "detached"
    <2>1. UNCHANGED <<agent, answers, desktopPending>>
        BY <1>1 DEF Detaches
    <2> QED BY <1>1, <2>1, LessOutstanding DEF AnswerInv, BridgeShape
<1>2. CASE agent # "detached"
    <2>1. AgentDetaches(reason, desktopPending)
        BY <1>2 DEF Detaches
    <2>2. /\ desktopPending \in SUBSET Requests /\ asked' \subseteq Requests
          /\ asked \subseteq asked' /\ up' = up /\ UNCHANGED <<requests, channel>>
        BY DEF AnswerInv, BridgeShape
    <2>3. \A r \in desktopPending : answers[r] = 0 /\ r \in asked'
        BY <1>2, <2>2 DEF AnswerInv, BridgeShape, Answerable
    <2> QED BY <2>1, <2>2, <2>3, Fails
<1> QED BY <1>1, <1>2

LEMMA AgentStep ==
    ASSUME AnswerInv, AgentReceives
    PROVE  AnswerInv'
<1>0. AsksDiffer(up) /\ AnswersDiffer(down) /\ BridgeShape /\ down # <<>>
    BY DEF AnswerInv, AgentReceives
<1>1. /\ down' = Tail(down) /\ UNCHANGED <<up, requests, channel>>
    BY DEF AgentReceives, hostVars
<1>2. /\ down' \in Seq(Messages) /\ AnswersDiffer(down')
      /\ \A r : Carries(down', r) => Carries(down, r)
      /\ Message.type = "answer" => Carries(down, Message.of) /\ ~Carries(down', Message.of)
    BY <1>0, <1>1, AnswersTail DEF BridgeShape, Message
<1>3. CASE ReceivesAnswer
    <2>1. CASE Delivers
        <3>0. PICK q : q = Message.of
            OBVIOUS
        <3>1. q \in Requests /\ Carries(down, q) /\ ~Carries(down', q)
            BY <3>0, <1>0, <1>2, <1>3, AnswersRequests DEF ReceivesAnswer, Message, BridgeShape
        <3>2. /\ desktopPending' = desktopPending \ {q}
              /\ answers' = [answers EXCEPT ![q] = answers[q] + 1]
              /\ UNCHANGED <<agent, asked>>
            BY <3>0, <1>3, <2>1 DEF ReceivesAnswer, NoLongerPending
        <3>3. agent # "detached" /\ Answerable(q) /\ q \in asked
            BY <2>1, <3>1 DEF Delivers, Answerable, AnswerInv
        <3>4. answers[q] = 0
            BY <3>1, <3>3 DEF AnswerInv
        <3>5. /\ answers' \in [Requests -> {0, 1}]
              /\ \A r \in Requests : r # q => answers'[r] = answers[r]
            BY <1>0, <3>1, <3>2, <3>4 DEF BridgeShape
        <3>6. BridgeShape'
            BY <1>0, <1>1, <1>2, <3>2, <3>5 DEF BridgeShape
        <3>7. \A r \in Requests : InOnePlace(r)'
            BY <1>1, <1>2 DEF AnswerInv, InOnePlace
        <3>8. ~Answerable(q)'
            BY <1>1, <3>1, <3>2 DEF AnswerInv, InOnePlace, Answerable
        <3>9. \A r \in Requests : Answerable(r)' => Answerable(r)
            BY <1>1, <1>2, <3>2 DEF Answerable
        <3> QED BY <1>0, <1>1, <1>2, <3>2, <3>3, <3>5, <3>6, <3>7, <3>8, <3>9 DEF AnswerInv
    <2>2. CASE ~Delivers
        <3>1. UNCHANGED <<agent, asked, desktopPending, answers>>
            BY <1>3, <2>2 DEF ReceivesAnswer
        <3> QED BY <1>0, <1>1, <1>2, <3>1, LessOutstanding DEF BridgeShape
    <2> QED BY <2>1, <2>2
<1>4. CASE ReceivesCompletion \/ ReceivesHeartbeat \/ ReceivesNative
    <2>1. UNCHANGED <<agent, asked, desktopPending, answers>>
        BY <1>4 DEF ReceivesCompletion, ReceivesHeartbeat, ReceivesNative, desktopVars
    <2> QED BY <1>0, <1>1, <1>2, <2>1, LessOutstanding DEF BridgeShape
<1>5. CASE ReceivesActivate
    <2>1. CASE agent = "connecting"
        <3>1. agent' = "attached" /\ UNCHANGED <<asked, desktopPending, answers>>
            BY <1>5, <2>1 DEF ReceivesActivate
        <3> QED BY <1>0, <1>1, <1>2, <2>1, <3>1, LessOutstanding DEF BridgeShape
    <2>2. CASE agent # "connecting"
        <3>1. Detaches("lost") /\ UNCHANGED asked
            BY <1>5, <2>2 DEF ReceivesActivate
        <3> QED BY <1>1, <1>2, <3>1, MayDetach
    <2> QED BY <2>1, <2>2
<1>6. CASE ReceivesDetach
    <2>1. Detaches("requested") /\ UNCHANGED asked
        BY <1>6 DEF ReceivesDetach
    <2> QED BY <1>1, <1>2, <2>1, MayDetach
<1> QED BY <1>3, <1>4, <1>5, <1>6 DEF AgentReceives

LEMMA AgentEnds ==
    ASSUME AnswerInv, AgentSocketCloses \/ LeaseExpires
    PROVE  AnswerInv'
<1>1. Detaches("lost") /\ UNCHANGED <<asked, up, down, requests, channel>>
    BY DEF AgentSocketCloses, LeaseExpires, hostVars
<1> QED BY <1>1, MayDetach DEF AnswerInv, BridgeShape

LEMMA DesktopStep ==
    ASSUME AnswerInv, NEW r \in Requests, DesktopSends(r)
    PROVE  AnswerInv'
<1>0. AsksDiffer(up) /\ AnswersDiffer(down) /\ BridgeShape
    BY DEF AnswerInv
<1>1. /\ agent = "attached" /\ r \notin asked /\ asked' = asked \cup {r}
      /\ UNCHANGED <<requests, channel, down>>
    BY DEF DesktopSends, hostVars
<1>2. answers[r] = 0 /\ ~Answerable(r)
    BY <1>1 DEF AnswerInv
<1>3. CASE desktopPending' = desktopPending \cup {r} /\ up' = Append(up, r) /\ UNCHANGED <<agent, answers>>
    <2>1. /\ up' \in Seq(Requests) /\ AsksDiffer(up')
          /\ \A q \in Requests : Asks(up', q) => Asks(up, q) \/ q = r
        BY <1>0, <1>2, <1>3, AsksAppend DEF BridgeShape, Answerable
    <2>2. BridgeShape'
        BY <1>0, <1>1, <1>3, <2>1 DEF BridgeShape
    <2>3. \A q \in Requests : InOnePlace(q)'
        BY <1>1, <1>2, <2>1 DEF AnswerInv, InOnePlace, Answerable
    <2>4. \A q \in Requests : Answerable(q)' => Answerable(q) \/ q = r
        BY <1>1, <1>3, <2>1 DEF Answerable
    <2> QED BY <1>0, <1>1, <1>2, <1>3, <2>1, <2>2, <2>3, <2>4 DEF AnswerInv
<1>4. CASE AgentDetaches("lost", desktopPending \cup {r}) /\ UNCHANGED up
    <2> DEFINE pending == desktopPending \cup {r}
    <2>1. pending \in SUBSET Requests /\ \A q \in pending : answers[q] = 0 /\ q \in asked'
        BY <1>0, <1>1, <1>2 DEF AnswerInv, BridgeShape, Answerable
    <2>2. AgentDetaches("lost", pending)
        BY <1>4
    <2>3. asked \subseteq asked' /\ asked' \subseteq Requests
        BY <1>0, <1>1 DEF BridgeShape
    <2> HIDE DEF pending
    <2>4. down' = down /\ down \in Seq(Messages) /\ up' = up
        BY <1>0, <1>1, <1>4 DEF BridgeShape
    <2> QED BY <1>0, <1>1, <2>1, <2>2, <2>3, <2>4, Fails
<1> QED BY <1>3, <1>4 DEF DesktopSends

LEMMA BridgeStep ==
    ASSUME AnswerInv, [NextBridge]_bridgeVars
    PROVE  AnswerInv'
<1>1. CASE UNCHANGED bridgeVars
    <2>1. UNCHANGED <<agent, asked, requests, desktopPending, answers, up, down, channel>>
        BY <1>1 DEF bridgeVars, agentVars, desktopVars, hostVars
    <2> QED BY <2>1, LessOutstanding DEF AnswerInv, BridgeShape
<1>2. CASE \/ HostReceives \/ Heartbeat \/ SessionCloses \/ SessionAsksDetach \/ SessionEnds
           \/ HostLost \/ HostStalls
    BY <1>2, HostStep
<1>3. ASSUME NEW r \in Requests,
             HostBeginsTurn(r) \/ HostAnswers(r) \/ HostEndsTurn(r) \/ HostCompletes(r)
      PROVE  AnswerInv'
    BY <1>3, TurnMoves
<1>4. ASSUME NEW c \in Contexts, OpenContext(c) \/ CloseContext(c) \/ NativeAnswers(c)
      PROVE  AnswerInv'
    BY <1>4, ContextMoves
<1>5. CASE AgentReceives \/ AgentSocketCloses \/ LeaseExpires
    BY <1>5, AgentStep, AgentEnds
<1>6. ASSUME NEW r \in Requests, DesktopSends(r) PROVE AnswerInv'
    BY <1>6, DesktopStep
<1> QED BY <1>1, <1>2, <1>3, <1>4, <1>5, <1>6 DEF NextBridge

\* Whatever the numbers of requests and contexts, and however long the queues of both directions:
\* a request of the Desktop is answered at most once, by the Host or, when the agent detaches,
\* stalls or loses its Host, by the agent's failure, never by both.
THEOREM RequestHasOneAnswer == BridgeSpec => []AnsweredOnce
<1>1. AnswerInv => AnsweredOnce
    BY DEF AnswerInv, BridgeShape, AnsweredOnce
<1>2. AnswerInv /\ [NextBridge]_bridgeVars => AnswerInv'
    BY BridgeStep
<1> QED BY BridgeInit, <1>1, <1>2, PTL DEF BridgeSpec

=============================================================================
