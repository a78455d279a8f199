--------------------------- MODULE DesktopBridge ---------------------------
(***************************************************************************)
(* The bridge of one attachment: the agent inside the Codex App            *)
(* (hot-attach/desktop-agent.ts) and the Host's session                    *)
(* (hot-attach/session.ts, borrowed-backend.ts) at the two ends of a       *)
(* socket.  The agent diverts the requests of the Desktop to the Host,     *)
(* delivers answers and notifications, starts native tool contexts for the *)
(* Host's virtual clients, and restores the Desktop when it detaches.      *)
(*                                                                         *)
(* A request of the Desktop may start one external Turn, which carries the *)
(* request's name.  A native context is started on a channel of its own.   *)
(***************************************************************************)
EXTENDS Naturals, FiniteSets, SequencesExt

CONSTANTS
    Requests,   \* requests the Desktop may send
    Contexts,   \* native tool contexts the Host may start
    MaxWire     \* bound: a heartbeat is sent only while fewer messages are under way

ASSUME BridgeAssumption == IsFiniteSet(Requests) /\ IsFiniteSet(Contexts) /\ MaxWire \in Nat

VARIABLES
    agent,          \* phase of the agent
    socket,         \* the agent's end of the socket is not destroyed
    desktopPending, \* requests the agent has diverted and not seen answered
    activeExternal, \* the Turns of the last heartbeat, less those completed since
    context,        \* per context: its thread in the native backend
    asked,          \* requests the Desktop has diverted
    answers,        \* per request: answers delivered to the Desktop
    told,           \* Turns the Desktop has learned of
    completions,    \* per Turn: turn/completed delivered to the Desktop
    up,             \* messages from the agent to the Host
    down,           \* messages from the Host to the agent
    bridgeHost,           \* state of the Host's session
    requests,       \* session #requests: requests the Host has to answer
    turn,           \* per request: the Turn it started in the Host
    channel,        \* per context: the virtual client in the Host
    why             \* reason of the agent's detach

agentVars   == <<agent, socket, desktopPending, activeExternal, context, why>>
desktopVars == <<asked, answers, told, completions>>
hostVars    == <<bridgeHost, requests, turn, channel>>
bridgeVars        == <<agentVars, desktopVars, hostVars, up, down>>

Messages ==
    [type : {"answer", "completed"}, of : Requests]
      \cup [type : {"open", "start", "close"}, of : Contexts]
      \cup [type : {"heartbeat"}, active : SUBSET Requests]
      \cup [type : {"activate", "detach"}]

BridgeTypeOK ==
    /\ agent \in {"connecting", "attached", "detached"}
    /\ socket \in BOOLEAN
    /\ asked \subseteq Requests
    /\ desktopPending \subseteq {r \in asked : answers[r] = 0}
    /\ activeExternal \subseteq Requests
    /\ context \in [Contexts -> {"none", "open", "starting", "held", "released", "stray"}]
    /\ answers \in [Requests -> Nat]
    /\ told \subseteq asked
    /\ completions \in [Requests -> Nat]
    /\ up \in Seq(Requests)
    /\ down \in Seq(Messages)
    /\ bridgeHost \in {"running", "closing", "detaching", "stalled", "gone"}
    /\ requests \subseteq asked
    /\ turn \in [Requests -> {"none", "active", "ending", "ended"}]
    /\ channel \in [Contexts -> {"none", "open", "closed"}]
    /\ why \in {"none", "requested", "lost"}

InitBridge ==
    /\ agent = "connecting" /\ socket = TRUE
    /\ desktopPending = {} /\ activeExternal = {} /\ why = "none"
    /\ context = [c \in Contexts |-> "none"]
    /\ asked = {} /\ told = {}
    /\ answers = [r \in Requests |-> 0]
    /\ completions = [r \in Requests |-> 0]
    /\ up = <<>> /\ down = <<[type |-> "activate"]>>
    /\ bridgeHost = "running" /\ requests = {}
    /\ turn = [r \in Requests |-> "none"]
    /\ channel = [c \in Contexts |-> "none"]

-----------------------------------------------------------------------------
(* The Host's session *)

HostWorks == bridgeHost \in {"running", "closing"}

Send(message) == down' = Append(down, message)

\* receive(): a request is noted and handed to the Host, whose input is gone once
\* it closes.
HostReceives ==
    /\ HostWorks /\ up # <<>>
    /\ up' = Tail(up)
    /\ requests' = IF bridgeHost = "running" THEN requests \cup {Head(up)} ELSE requests
    /\ UNCHANGED <<agentVars, desktopVars, down, bridgeHost, turn, channel>>

\* turn/start sets activeTurnId before its answer is written.
HostBeginsTurn(r) ==
    /\ HostWorks /\ r \in requests /\ turn[r] = "none"
    /\ turn' = [turn EXCEPT ![r] = "active"]
    /\ UNCHANGED <<agentVars, desktopVars, up, down, bridgeHost, requests, channel>>

HostAnswers(r) ==
    /\ HostWorks /\ r \in requests
    /\ requests' = requests \ {r}
    /\ Send([type |-> "answer", of |-> r])
    /\ UNCHANGED <<agentVars, desktopVars, up, bridgeHost, turn, channel>>

\* The terminal clears activeTurnId, and turn/completed is written after awaits.
Current(r) == turn[r] = "active"

HostEndsTurn(r) ==
    /\ HostWorks /\ turn[r] = "active" /\ r \notin requests
    /\ turn' = [turn EXCEPT ![r] = "ending"]
    /\ UNCHANGED <<agentVars, desktopVars, up, down, bridgeHost, requests, channel>>

HostCompletes(r) ==
    /\ HostWorks /\ turn[r] = "ending"
    /\ turn' = [turn EXCEPT ![r] = "ended"]
    /\ Send([type |-> "completed", of |-> r])
    /\ UNCHANGED <<agentVars, desktopVars, up, bridgeHost, requests, channel>>

\* Every second, and until the close has settled.
Heartbeat ==
    /\ HostWorks /\ Len(down) < MaxWire
    /\ Send([type |-> "heartbeat", active |-> {r \in Requests : Current(r)}])
    /\ UNCHANGED <<agentVars, desktopVars, hostVars, up>>

\* A virtual client connects and starts an ephemeral native thread.
OpenContext(c) ==
    /\ bridgeHost = "running" /\ channel[c] = "none"
    /\ channel' = [channel EXCEPT ![c] = "open"]
    /\ down' = down \o <<[type |-> "open", of |-> c], [type |-> "start", of |-> c]>>
    /\ UNCHANGED <<agentVars, desktopVars, up, bridgeHost, requests, turn>>

CloseContext(c) ==
    /\ HostWorks /\ channel[c] = "open"
    /\ channel' = [channel EXCEPT ![c] = "closed"]
    /\ Send([type |-> "close", of |-> c])
    /\ UNCHANGED <<agentVars, desktopVars, up, bridgeHost, requests, turn>>

\* session.close(): the Host is closed, and its run() awaited.
SessionCloses ==
    /\ bridgeHost = "running" /\ bridgeHost' = "closing"
    /\ UNCHANGED <<agentVars, desktopVars, up, down, requests, turn, channel>>

HostClosed == requests = {} /\ \A r \in Requests : turn[r] \in {"none", "ended"}

\* Then the virtual clients are closed and the agent is asked to detach.
SessionAsksDetach ==
    /\ bridgeHost = "closing" /\ HostClosed
    /\ bridgeHost' = "detaching"
    /\ LET open == {c \in Contexts : channel[c] = "open"}
       IN  /\ channel' = [c \in Contexts |-> IF c \in open THEN "closed" ELSE channel[c]]
           /\ down' = down \o SetToSeq({[type |-> "close", of |-> c] : c \in open})
                           \o <<[type |-> "detach"]>>
    /\ UNCHANGED <<agentVars, desktopVars, up, requests, turn>>

\* The agent has detached, or 3 s have passed: the socket is ended, not destroyed.
SessionEnds ==
    /\ bridgeHost = "detaching" /\ bridgeHost' = "gone"
    /\ UNCHANGED <<agentVars, desktopVars, up, down, requests, turn, channel>>

\* The Host crashes, or ends on its own and destroys the socket: what it has not
\* flushed is lost.
HostLost ==
    /\ bridgeHost \in {"running", "closing", "detaching", "stalled"}
    /\ bridgeHost' = "gone"
    /\ \E n \in 0..Len(down) : down' = SubSeq(down, 1, n)
    /\ UNCHANGED <<agentVars, desktopVars, up, requests, turn, channel>>

\* The Host stops taking steps for good, with its socket open.
HostStalls ==
    /\ HostWorks /\ bridgeHost' = "stalled"
    /\ UNCHANGED <<agentVars, desktopVars, up, down, requests, turn, channel>>

-----------------------------------------------------------------------------
(* The agent *)

\* Mutant: detach() that leaves the diverted requests unanswered.
AnswersKept(pending) == answers

\* A diverted request fails explicitly and is never replayed.
AnswersFailed(pending) ==
    [r \in Requests |-> IF r \in pending THEN answers[r] + 1 ELSE answers[r]]

ContextsReleased ==
    [c \in Contexts |-> IF context[c] = "held" THEN "released" ELSE context[c]]

\* detach(): pending requests fail and the Turns of the last heartbeat are
\* reported as interrupted.
AgentDetaches(reason, pending) ==
    /\ agent' = "detached" /\ why' = reason
    /\ answers' = AnswersFailed(pending)
    /\ desktopPending' = {}
    /\ context' = ContextsReleased
    /\ completions' = [r \in Requests |->
                         IF r \in activeExternal THEN completions[r] + 1 ELSE completions[r]]

Detaches(reason) ==
    IF agent = "detached"
      THEN UNCHANGED <<agent, why, answers, desktopPending, context, completions>>
      ELSE AgentDetaches(reason, desktopPending)

\* Mutant: the agent delivers what arrives after it has detached.
DeliversAlways == TRUE

Delivers == agent = "attached"

NoLongerActive(r) == activeExternal \ {r}

Message == Head(down)

NoLongerPending(r) == desktopPending \ {r}

ReceivesAnswer ==
    /\ Message.type = "answer"
    /\ IF Delivers
         THEN /\ desktopPending' = NoLongerPending(Message.of)
              /\ answers' = [answers EXCEPT ![Message.of] = @ + 1]
              /\ told' = IF turn[Message.of] = "none" THEN told ELSE told \cup {Message.of}
         ELSE UNCHANGED <<desktopPending, answers, told>>
    /\ UNCHANGED <<agent, socket, activeExternal, context, why, asked, completions>>

ReceivesCompletion ==
    /\ Message.type = "completed"
    /\ IF Delivers
         THEN /\ activeExternal' = NoLongerActive(Message.of)
              /\ completions' = [completions EXCEPT ![Message.of] = @ + 1]
         ELSE UNCHANGED <<activeExternal, completions>>
    /\ UNCHANGED <<agent, socket, desktopPending, context, why, asked, answers, told>>

ReceivesHeartbeat ==
    /\ Message.type = "heartbeat"
    /\ activeExternal' = Message.active
    /\ UNCHANGED <<agent, socket, desktopPending, context, why, desktopVars>>

\* A channel is opened; a native request passes only on an open channel; closing
\* a channel releases the contexts the agent knows it owns.
ReceivesNative ==
    /\ Message.type \in {"open", "start", "close"}
    /\ context' = [context EXCEPT ![Message.of] =
         CASE Message.type = "open"                     -> "open"
           [] Message.type = "start" /\ @ = "open"      -> "starting"
           [] Message.type = "close" /\ @ = "held"      -> "released"
           [] OTHER                                   -> @]
    /\ UNCHANGED <<agent, socket, desktopPending, activeExternal, why, desktopVars>>

\* activate() throws unless the agent is connecting, which detaches it.
ReceivesActivate ==
    /\ Message.type = "activate"
    /\ IF agent = "connecting"
         THEN agent' = "attached" /\ UNCHANGED <<why, answers, desktopPending, context, completions>>
         ELSE Detaches("lost")
    /\ UNCHANGED <<socket, activeExternal, asked, told>>

ReceivesDetach ==
    /\ Message.type = "detach"
    /\ Detaches("requested")
    /\ UNCHANGED <<socket, activeExternal, asked, told>>

\* Data is processed as long as the socket is not destroyed, detached or not.
AgentReceives ==
    /\ socket /\ down # <<>>
    /\ down' = Tail(down)
    /\ \/ ReceivesAnswer \/ ReceivesCompletion \/ ReceivesHeartbeat
       \/ ReceivesNative \/ ReceivesActivate \/ ReceivesDetach
    /\ UNCHANGED <<up, hostVars>>

\* The socket closes: the Host has gone, or the agent ended it after detaching.
AgentSocketCloses ==
    /\ socket
    /\ (bridgeHost = "gone" /\ down = <<>>) \/ agent = "detached"
    /\ socket' = FALSE
    /\ Detaches("lost")
    /\ UNCHANGED <<activeExternal, asked, told, hostVars, up, down>>

\* No heartbeat for 15 s, or the native backend was replaced.
LeaseExpires ==
    /\ agent # "detached"
    /\ Detaches("lost")
    /\ UNCHANGED <<socket, activeExternal, asked, told, hostVars, up, down>>

\* The Desktop sends a request on the diverted transport.  When the socket does
\* not take it, the agent detaches and the request fails with the others.
DesktopSends(r) ==
    /\ agent = "attached" /\ r \notin asked
    /\ asked' = asked \cup {r}
    /\ \/ /\ socket
          /\ desktopPending' = desktopPending \cup {r}
          /\ up' = Append(up, r)
          /\ UNCHANGED <<agent, why, answers, context, completions>>
       \/ /\ bridgeHost \in {"stalled", "gone"}
          /\ AgentDetaches("lost", desktopPending \cup {r})
          /\ UNCHANGED up
    /\ UNCHANGED <<socket, activeExternal, told, hostVars, down>>

\* The native backend answers thread/start.  Only an attached agent takes note of
\* the new thread's owner.
NativeAnswers(c) ==
    /\ context[c] = "starting"
    /\ context' = [context EXCEPT ![c] = IF agent = "attached" THEN "held" ELSE "stray"]
    /\ UNCHANGED <<agent, socket, desktopPending, activeExternal, why, desktopVars,
                   hostVars, up, down>>

-----------------------------------------------------------------------------

NextBridge ==
    \/ HostReceives \/ Heartbeat \/ SessionCloses \/ SessionAsksDetach \/ SessionEnds
    \/ HostLost \/ HostStalls
    \/ \E r \in Requests : HostBeginsTurn(r)
    \/ \E r \in Requests : HostAnswers(r)
    \/ \E r \in Requests : HostEndsTurn(r)
    \/ \E r \in Requests : HostCompletes(r)
    \/ \E c \in Contexts : OpenContext(c)
    \/ \E c \in Contexts : CloseContext(c)
    \/ AgentReceives \/ AgentSocketCloses \/ LeaseExpires
    \/ \E r \in Requests : DesktopSends(r)
    \/ \E c \in Contexts : NativeAnswers(c)

BridgeSpec == InitBridge /\ [][NextBridge]_bridgeVars

\* A Host that runs reads its input and answers, and a close that has begun goes on
\* to its end; bytes arrive; a socket whose peer is gone closes; and the lease runs
\* out on a Host that stalls.  Turns end by themselves only in a closing Host.
BridgeFairness ==
    /\ WF_bridgeVars(HostReceives) /\ WF_bridgeVars(AgentReceives) /\ WF_bridgeVars(AgentSocketCloses)
    /\ WF_bridgeVars(SessionAsksDetach)
    /\ \A r \in Requests :
         /\ WF_bridgeVars(HostAnswers(r)) /\ WF_bridgeVars(HostCompletes(r))
         /\ WF_bridgeVars(bridgeHost = "closing" /\ HostEndsTurn(r))
    /\ WF_bridgeVars(bridgeHost = "stalled" /\ LeaseExpires)

BridgeFairSpec == BridgeSpec /\ BridgeFairness

-----------------------------------------------------------------------------
(* Properties *)

\* A request of the Desktop is answered at most once, whatever answer of the Host
\* is under way when the agent fails it.
AnsweredOnce == \A r \in Requests : answers[r] <= 1

\* A Turn completes at most once in the Desktop, although the agent interrupts
\* Turns from a heartbeat that may be older than their completion.
CompletedOnce == \A r \in Requests : completions[r] <= 1

\* A detachment the Host asked for leaves no Turn running in the Desktop.
RequestedDetachIsClean ==
    agent = "detached" /\ why = "requested" => \A r \in told : completions[r] = 1

\* Every diverted request is answered, also when the Host stalls or is lost.
RequestsSettle == \A r \in Requests : (r \in desktopPending) ~> (answers[r] > 0)

\* Stated by docs/architecture.md: on a lost socket or an expired lease, active
\* external turns become interrupted.
NoTurnLeftRunning == agent = "detached" => \A r \in told : completions[r] > 0

\* Stated by docs/architecture.md: ephemeral native tool contexts are unsubscribed.
NoStrayContext == \A c \in Contexts : context[c] # "stray"

=============================================================================
