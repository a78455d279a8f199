----------------------------- MODULE HotAttach -----------------------------
(***************************************************************************)
(* The attachment of the Host to a running Codex App: the controller       *)
(* (hot-attach/controller.ts), the menu commands that drive it             *)
(* (hot-attach/main.ts) and the life of one attachment session             *)
(* (hot-attach/session.ts).                                                *)
(*                                                                         *)
(* The process is single threaded.  An action is what runs between two     *)
(* awaits; a continuation that is due as soon as a promise settles runs    *)
(* before the next event (ResumeDue).  At most one attach() and one        *)
(* detach() coroutine exist: later calls join the promise in #operation    *)
(* or #detachment, which the stages below stand for.                       *)
(***************************************************************************)
EXTENDS Naturals, FiniteSets

CONSTANTS
    Sessions,   \* the attachment sessions one process may create
    NoSession

ASSUME SessionsAssumption == NoSession \notin Sessions /\ IsFiniteSet(Sessions)

VARIABLES
    phase,        \* controller #phase
    operation,    \* stage of the attach() in #operation
    accepted,     \* the session that attach() accepted, or NoSession
    detachment,   \* stage of the detach() in #detachment
    force,        \* controller #forceDetach
    stale,        \* the drain's generation is no longer #drainGeneration
    session,      \* controller #session, or NoSession
    cleaning,     \* the session #cleanup is closing, or NoSession
    host,         \* per session: its AppServerHost's run()
    shut,         \* per session: its close()
    wire,         \* per session: its socket is open
    link,         \* per session: never attached, attached, gone
    draining,     \* sessions whose Host does not admit new work
    busy,         \* sessions with work: state().busy or state().pending > 0
    attachWaits,  \* an attach() waits for #detachment
    waiters,      \* quit and ownerLost calls that wait for #detachment
    quitting,     \* main.ts quitting
    ownerGone,    \* main.ts ownerGone
    finished,     \* main.ts finished: the process ends
    forced        \* history: a caller of this detach() asked for force

controlVars == <<phase, operation, accepted, detachment, force, stale>>
sessionVars == <<session, cleaning, host, shut, wire, link, draining, busy>>
menuVars    == <<attachWaits, waiters, quitting, ownerGone, finished, forced>>
vars        == <<controlVars, sessionVars, menuVars>>

Phases == {"detached", "attaching", "attached", "draining", "detaching", "error"}
OperationStages == {"none", "preparing", "connecting", "waiting", "failing", "cleaning"}
DetachmentStages == {"none", "awaiting", "draining", "cleaning"}

TypeOK ==
    /\ phase \in Phases
    /\ operation \in OperationStages
    /\ detachment \in DetachmentStages
    /\ accepted \in Sessions \cup {NoSession}
    /\ session \in Sessions \cup {NoSession}
    /\ cleaning \in Sessions \cup {NoSession}
    /\ host \in [Sessions -> {"unused", "running", "ended", "failed"}]
    /\ shut \in [Sessions -> {"open", "closing", "closed"}]
    /\ wire \in [Sessions -> BOOLEAN]
    /\ link \in [Sessions -> {"never", "attached", "gone"}]
    /\ draining \subseteq Sessions
    /\ busy \subseteq {s \in Sessions : host[s] \in {"running", "failed"}}
    /\ waiters \subseteq {"menu", "signal", "owner"}
    /\ {force, stale, attachWaits, quitting, ownerGone, finished, forced} \subseteq BOOLEAN

Init ==
    /\ phase = "detached" /\ operation = "none" /\ accepted = NoSession
    /\ detachment = "none" /\ force = FALSE /\ stale = FALSE
    /\ session = NoSession /\ cleaning = NoSession
    /\ host = [s \in Sessions |-> "unused"]
    /\ shut = [s \in Sessions |-> "open"]
    /\ wire = [s \in Sessions |-> FALSE]
    /\ link = [s \in Sessions |-> "never"]
    /\ draining = {} /\ busy = {}
    /\ attachWaits = FALSE /\ waiters = {} /\ quitting = FALSE
    /\ ownerGone = FALSE /\ finished = FALSE /\ forced = FALSE

\* #detach continues as soon as no attachment is in progress.
ResumeDue == detachment = "awaiting" /\ operation = "none"

\* The process may take its next event.
Quiet == ~finished /\ ~ResumeDue

-----------------------------------------------------------------------------
(* attach() *)

SessionAttached == session # NoSession /\ link[session] = "attached"

\* attach() with no detachment in the way, as its effect on #operation.
AttachStarts == operation = "none" /\ ~SessionAttached

\* The menu's attach command, and the attach at start-up.
Attach ==
    /\ Quiet
    /\ ~ownerGone
    /\ IF detachment # "none"
         THEN attachWaits' = TRUE /\ UNCHANGED operation
         ELSE AttachStarts /\ operation' = "preparing" /\ UNCHANGED attachWaits
    /\ UNCHANGED <<phase, accepted, detachment, force, stale, sessionVars,
                   waiters, quitting, ownerGone, finished, forced>>

\* prepare() moves legacy data; when it fails no attachment is tried.
Prepared ==
    /\ Quiet
    /\ operation = "preparing"
    /\ \/ phase' = "attaching" /\ operation' = "connecting"
       \/ phase' = "error" /\ operation' = "none"
    /\ UNCHANGED <<accepted, detachment, force, stale, sessionVars, menuVars>>

\* The Desktop is verified, its inspector opened, the bridge server started and
\* the agent installed, or one of these fails.
Connected ==
    /\ Quiet
    /\ operation = "connecting"
    /\ operation' \in {"waiting", "failing"}
    /\ accepted' = NoSession
    /\ UNCHANGED <<phase, detachment, force, stale, sessionVars, menuVars>>

\* The agent's hello arrives; the server refuses it while a session is set.
Hello(s) ==
    /\ Quiet
    /\ operation = "waiting" /\ accepted = NoSession /\ session = NoSession
    /\ host[s] = "unused"
    /\ session' = s /\ accepted' = s
    /\ host' = [host EXCEPT ![s] = "running"]
    /\ wire' = [wire EXCEPT ![s] = TRUE]
    /\ UNCHANGED <<phase, operation, detachment, force, stale, cleaning, shut,
                   link, draining, busy, menuVars>>

\* The agent reports that it has taken over the Desktop's transport.
AgentAttached(s) ==
    /\ Quiet
    /\ host[s] = "running" /\ wire[s] /\ link[s] = "never" /\ shut[s] # "closed"
    /\ link' = [link EXCEPT ![s] = "attached"]
    /\ IF operation = "waiting" /\ accepted = s
         THEN phase' = "attached" /\ operation' = "none"
         ELSE UNCHANGED <<phase, operation>>
    /\ UNCHANGED <<accepted, detachment, force, stale, session, cleaning, host,
                   shut, wire, draining, busy, menuVars>>

\* 12 s for the hello and 20 s for the Host's initialization.
TimesOut ==
    /\ Quiet
    /\ operation = "waiting"
    /\ operation' = "failing"
    /\ UNCHANGED <<phase, accepted, detachment, force, stale, sessionVars, menuVars>>

-----------------------------------------------------------------------------
(* #cleanup and the sessions it closes *)

\* session.close(): memoized in #closing.
Closing(s) == [shut EXCEPT ![s] = IF @ = "open" THEN "closing" ELSE @]

StartCleanup ==
    /\ cleaning' = session
    /\ session' = NoSession
    /\ shut' = IF session = NoSession THEN shut ELSE Closing(session)

\* Mutant: #cleanup does not wait for session.close().
CleanupAtOnce == TRUE

\* close() has returned or thrown and the bridge server has no connection left.
CleanupDone ==
    cleaning # NoSession => shut[cleaning] = "closed" /\ ~wire[cleaning]

CleanupThrows == cleaning # NoSession /\ host[cleaning] = "failed"

\* A failed attachment detaches the agent and cleans up.
OperationCleans ==
    /\ Quiet
    /\ operation = "failing"
    /\ operation' = "cleaning"
    /\ StartCleanup
    /\ UNCHANGED <<phase, accepted, detachment, force, stale, host, wire, link,
                   draining, busy, menuVars>>

\* When the cleanup itself throws, the phase is left as it was.
OperationFails ==
    /\ Quiet
    /\ operation = "cleaning" /\ CleanupDone
    /\ phase' = IF CleanupThrows THEN phase ELSE "error"
    /\ operation' = "none"
    /\ cleaning' = NoSession
    /\ UNCHANGED <<accepted, detachment, force, stale, session, host, shut, wire,
                   link, draining, busy, menuVars>>

\* run() clears the Threads, unless it rejects before it gets there.
ClearsThreads(s, how) == busy' \in {busy \ {s}} \cup (IF how = "failed" THEN {busy} ELSE {})

\* run() returns, or rejects with an exit it could not confirm, after close() or
\* on its own.  The session rejects ready and destroys the socket, except after
\* a close that ended well.  "failed" also stands for a scope that throws on close.
HostEnds(s) ==
    /\ Quiet
    /\ host[s] = "running"
    /\ \E how \in {"ended", "failed"} :
         /\ host' = [host EXCEPT ![s] = how]
         /\ operation' = IF operation = "waiting" /\ accepted = s
                            /\ (shut[s] = "open" \/ how = "failed")
                           THEN "failing" ELSE operation
         /\ ClearsThreads(s, how)
    /\ UNCHANGED <<phase, accepted, detachment, force, stale, session, cleaning,
                   shut, wire, link, draining, menuVars>>

\* The rest of session.close() once run() has settled; the agent has been asked
\* to detach and waited for at most 3 s.
SessionClosed(s) ==
    /\ Quiet
    /\ shut[s] = "closing" /\ host[s] \in {"ended", "failed"}
    /\ shut' = [shut EXCEPT ![s] = "closed"]
    /\ link' = [link EXCEPT ![s] = "gone"]
    /\ UNCHANGED <<controlVars, session, cleaning, host, wire, draining, busy, menuVars>>

\* Work of the Host and requests of the Desktop come and go.
WorkChanges(s) ==
    /\ Quiet
    /\ host[s] = "running"
    /\ busy' = IF s \in busy THEN busy \ {s} ELSE busy \cup {s}
    /\ UNCHANGED <<controlVars, session, cleaning, host, shut, wire, link, draining, menuVars>>

-----------------------------------------------------------------------------
(* detach() and the drain *)

\* detach(): its effect on #forceDetach and #detachment.
Detach(forcing) ==
    /\ force' = (force \/ forcing)
    /\ detachment' = IF detachment = "none" THEN "awaiting" ELSE detachment
    /\ forced' = ((detachment # "none" /\ forced) \/ forcing)

\* The Desktop or its agent closes the connection, at any time, possibly after a
\* last "detached" message.  The session closes itself, and the controller
\* detaches by force unless it is attaching or detaching already.
SocketClosed(s) ==
    /\ Quiet
    /\ wire[s]
    /\ wire' = [wire EXCEPT ![s] = FALSE]
    /\ shut' = Closing(s)
    /\ \E left \in {link[s], "gone"} : link' = [link EXCEPT ![s] = left]
    /\ IF phase \in {"attached", "draining"}
         THEN Detach(TRUE)
         ELSE UNCHANGED <<force, detachment, forced>>
    /\ UNCHANGED <<phase, operation, accepted, stale, session, cleaning, host,
                   draining, busy, attachWaits, waiters, quitting, ownerGone, finished>>

\* Mutant: the drain's loop does not look at the force.
MustWaitAlways == session \in busy

MustWait == ~force /\ session \in busy

DetachProceeds ==
    /\ ~finished /\ ResumeDue
    /\ stale' = FALSE
    /\ draining' = draining \cup ({session} \ {NoSession})
    /\ IF MustWait
         THEN /\ phase' = "draining" /\ detachment' = "draining"
              /\ UNCHANGED <<session, cleaning, shut>>
         ELSE /\ phase' = "detaching" /\ detachment' = "cleaning"
              /\ StartCleanup
    /\ UNCHANGED <<operation, accepted, force, host, wire, link, busy, menuVars>>

\* Mutant: the force is not reset when the detachment settles.
ForceStays == force' = force

ForceEnds == force' = FALSE

\* detach() settles, with the phase it leaves: the promise and the force are
\* reset, then the calls that waited for it go on.
DetachSettles(left, ok) ==
    /\ phase' = left
    /\ detachment' = "none"
    /\ ForceEnds
    /\ attachWaits' = FALSE
    /\ operation' = IF attachWaits /\ ok /\ AttachStarts THEN "preparing" ELSE operation
    /\ waiters' = {}
    /\ finished' = \/ "owner" \in waiters
                   \/ ok /\ waiters # {} /\ quitting /\ left = "detached"
                   \/ ~ok /\ "signal" \in waiters
    /\ UNCHANGED <<quitting, ownerGone, forced>>

\* The drain wakes up every 200 ms; a generation that is no longer current ends
\* it without detaching.
DrainPoll ==
    /\ Quiet
    /\ detachment = "draining"
    /\ \/ /\ stale
          /\ DetachSettles(phase, TRUE)
          /\ UNCHANGED <<accepted, stale, sessionVars>>
       \/ /\ ~stale /\ ~MustWait
          /\ phase' = "detaching" /\ detachment' = "cleaning"
          /\ StartCleanup
          /\ UNCHANGED <<operation, accepted, force, stale, host, wire, link,
                         draining, busy, menuVars>>

\* When the cleanup throws, the phase stays "detaching" and the promise rejects.
DetachCleaned ==
    /\ Quiet
    /\ detachment = "cleaning" /\ CleanupDone
    /\ DetachSettles(IF CleanupThrows THEN phase ELSE "detached", ~CleanupThrows)
    /\ cleaning' = NoSession
    /\ UNCHANGED <<accepted, stale, session, host, shut, wire, link, draining, busy>>

\* cancelDrain()
DrainCancels == phase = "draining" /\ ~force

Readmit == draining' = draining \ {session}

CancelDrain ==
    /\ IF DrainCancels
         THEN stale' = TRUE /\ phase' = "attached" /\ Readmit
         ELSE UNCHANGED <<stale, phase, draining>>
    /\ UNCHANGED <<operation, accepted, detachment, force, session, cleaning,
                   host, shut, wire, link, busy>>

-----------------------------------------------------------------------------
(* Menu commands *)

CmdDetach(forcing) ==
    /\ Quiet
    /\ ~ownerGone
    /\ Detach(forcing)
    /\ UNCHANGED <<phase, operation, accepted, stale, sessionVars, attachWaits,
                   waiters, quitting, ownerGone, finished>>

CmdCancelDrain ==
    /\ Quiet
    /\ ~ownerGone
    /\ CancelDrain
    /\ quitting' = FALSE
    /\ UNCHANGED <<attachWaits, waiters, ownerGone, finished, forced>>

\* The quit command, and SIGTERM and SIGINT.  A second quit is ignored.
Quit(by) ==
    /\ Quiet
    /\ by = "menu" => ~ownerGone
    /\ ~quitting
    /\ quitting' = TRUE
    /\ waiters' = waiters \cup {by}
    /\ Detach(FALSE)
    /\ UNCHANGED <<phase, operation, accepted, stale, sessionVars, attachWaits,
                   ownerGone, finished>>

\* The native app's control pipe is lost.
OwnerLost ==
    /\ Quiet
    /\ ~ownerGone
    /\ ownerGone' = TRUE /\ quitting' = TRUE
    /\ waiters' = waiters \cup {"owner"}
    /\ Detach(TRUE)
    /\ UNCHANGED <<phase, operation, accepted, stale, sessionVars, attachWaits, finished>>

-----------------------------------------------------------------------------

Next ==
    \/ Attach \/ Prepared \/ Connected \/ TimesOut
    \/ OperationCleans \/ OperationFails
    \/ \E s \in Sessions : Hello(s)
    \/ \E s \in Sessions : AgentAttached(s)
    \/ \E s \in Sessions : HostEnds(s)
    \/ \E s \in Sessions : SessionClosed(s)
    \/ \E s \in Sessions : WorkChanges(s)
    \/ \E s \in Sessions : SocketClosed(s)
    \/ DetachProceeds \/ DrainPoll \/ DetachCleaned
    \/ \E forcing \in BOOLEAN : CmdDetach(forcing)
    \/ CmdCancelDrain
    \/ \E by \in {"menu", "signal"} : Quit(by)
    \/ OwnerLost

Spec == Init /\ [][Next]_vars

\* Promises settle and timers fire: the steps of an attachment, of a cleanup and
\* of a drain that may go on happen, a Host that was told to close ends, and a
\* socket that was ended or destroyed closes.  Nothing makes the Desktop say
\* hello, work end by itself, or the user act.
Settles ==
    \/ Prepared \/ Connected \/ TimesOut \/ OperationCleans \/ OperationFails
    \/ DrainPoll \/ DetachCleaned

Fairness ==
    /\ WF_vars(DetachProceeds)
    /\ WF_vars(Settles)
    /\ \A s \in Sessions :
         /\ WF_vars(shut[s] = "closing" /\ HostEnds(s))
         /\ WF_vars(SessionClosed(s))
         /\ WF_vars((shut[s] = "closed" \/ host[s] = "failed") /\ SocketClosed(s))

FairSpec == Spec /\ Fairness

-----------------------------------------------------------------------------
(* Properties *)

\* At most one Host runs at a time, although an attachment may be asked for while
\* the previous one is still being closed: attach() waits for #detachment, and a
\* failed attach() cleans up before it settles.
OneHost == Cardinality({s \in Sessions : host[s] = "running"}) <= 1

\* The Host of the current session refuses new work exactly while the controller
\* shows the drain: a cancelled drain reopens admission, and nothing else does.
DrainAdmission == session # NoSession => (session \in draining <=> phase = "draining")

\* attach() and detach() never work on the session at the same time.
CoroutinesExclude ==
    operation \notin {"none", "preparing"} => detachment \in {"none", "awaiting"}

\* Work that is going on is cut off only when a caller of this very detachment
\* asked for force; a force that an earlier detachment left behind does not count.
CutsOff == detachment' = "cleaning" /\ detachment # "cleaning" /\ session \in busy
WorkIsCutOnlyByForce == [][CutsOff => forced]_vars

\* A process that lost the native app ends, even when the work of its Host never
\* ends, and whatever else was going on.
OwnerLossEnds == ownerGone ~> finished

\* An attachment is established or given up: the Desktop may never answer.
AttachSettles == (operation # "none") ~> (operation = "none" \/ finished)

\* Stated by docs/architecture.md: losing the control pipe forces cleanup, so the
\* process does not end with an integration still active.
OwnerLossDetaches == finished /\ ownerGone => session = NoSession

\* Stated by docs/architecture.md: an ordinary quit waits for the drain, so while
\* the attachment is up a quit has a detachment to wait for.
QuitIsUnderway ==
    quitting /\ phase = "attached" /\ ~finished => detachment # "none"

\* Stated by docs/architecture.md: the phase after "detaching" is "detached".
DetachingIsUnderway == phase = "detaching" => detachment # "none"

=============================================================================
