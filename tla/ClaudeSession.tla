---------------------------- MODULE ClaudeSession ----------------------------
(***************************************************************************)
(* How a Claude Session turns the message stream of one claude process into  *)
(* Turns: packages/adapters/claude-code/src/sdk-transport.ts routes every    *)
(* message to the Turn that runs, to the Turn that is held open for its      *)
(* background Subagents, or to a Turn it opens for a Segment Claude began on *)
(* its own; native-message.ts interprets it; claude-code-adapter.ts and      *)
(* background-occupancy.ts decide when the Turn is over.                     *)
(*                                                                          *)
(* The process is the environment: it answers a prompt in a Segment, uses    *)
(* tools, asks for permission, starts background Subagents, and may begin a  *)
(* Segment of its own after one of them ended.  Its messages wait in stream  *)
(* until the transport reads them; a permission request does not wait there. *)
(* The awaits of a start are the subject of ExternalTurns; here a transport  *)
(* starts in one step.                                                       *)
(***************************************************************************)
EXTENDS Naturals, Sequences, FiniteSets

CONSTANTS
    Agents,      \* background Subagents
    Turns,       \* Turns the Host starts
    Interactions,        \* permission requests
    MaxStream,   \* bound: messages that wait to be read
    OtherTasks,  \* background commands other than Subagents change the task list too
    Resumes,     \* Claude writes to a Subagent that has ended, which runs again
    OwnTurn,        \* the Turn of a Segment Claude began on its own
    NoTurn

ASSUME SessionAssumption ==
    /\ OwnTurn \notin Turns /\ NoTurn \notin Turns \cup {OwnTurn}
    /\ MaxStream \in Nat \ {0} /\ {OtherTasks, Resumes} \subseteq BOOLEAN

VARIABLES
    alive,      \* the process runs
    segment,    \* its Root Segment: "none", "prompt", or "own"
    inbox,      \* prompts pushed and not yet taken
    toolOpen,   \* a tool call of the Segment runs
    permits,     \* its permission requests that wait for canUseTool
    everAsked,      \* history: permission requests made
    calls,      \* Agent calls of the Segment that have not returned
    task,       \* each Subagent: "idle", "called", "running", "ended"
    owed,       \* ended Subagents Claude has not continued from
    interrupted,\* an interrupt waits to be obeyed
    stream,     \* messages the transport has not read
    running,    \* transport: the Turn runTurn waits for (#active)
    acc,        \* transport: its accumulator
    pending,    \* transport: its open interactions
    idle,       \* transport: the accumulator of a held Turn's continuation
    auto,       \* transport: #autonomous
    transport,  \* Session: #transport is "none", "open", "closing", "stopping" or "closed"
    claude     \* Session: the Turn, its occupancy and timers, and what it has emitted

nativeVars == <<alive, segment, inbox, toolOpen, permits, everAsked, calls, task, owed, interrupted>>
readVars == <<running, acc, pending, idle, auto>>
claudeVars == <<nativeVars, stream, readVars, transport, claude>>

-----------------------------------------------------------------------------
(* Messages, and what a ClaudeNativeTurnAccumulator makes of them            *)

Kinds == {"output", "tool", "toolDone", "spawn", "send", "started", "launched",
          "settled", "level", "result"}
NativeMessage(kind) == [kind |-> kind, agents |-> {}, end |-> "none"]
About(kind, a) == [NativeMessage(kind) EXCEPT !.agents = {a}]
Level(S) == [NativeMessage("level") EXCEPT !.agents = S]
Result(end) == [NativeMessage("result") EXCEPT !.end = end]
NativeMessages == [kind : Kinds, agents : SUBSET Agents, end : {"none", "success", "error", "aborted"}]
Subject(m) == CHOOSE a \in m.agents : TRUE

NoAcc == [open |-> FALSE, tool |-> FALSE, agents |-> {}, conflict |-> FALSE, cancel |-> FALSE]
Fresh == [NoAcc EXCEPT !.open = TRUE]
Opened(k) == IF k.open THEN k ELSE Fresh

\* A message that names a call the accumulator has not seen yields no event.
Yields(k, m) ==
    /\ m.kind = "toolDone" => k.tool
    /\ m.kind \in {"started", "launched"} => Subject(m) \in k.agents
    /\ m.kind # "result"

Consumed(k, m) ==
    [k EXCEPT !.tool = (@ \/ m.kind = "tool") /\ m.kind # "toolDone",
              !.agents = IF m.kind \in {"spawn", "send"} THEN @ \cup m.agents
                         ELSE IF m.kind = "launched" THEN @ \ m.agents ELSE @,
              !.conflict = @ \/ (m.kind \in {"toolDone", "launched"} /\ ~Yields(k, m))]

\* The terminal of a result message, in the order consume() tries the cases.
Terminal(k, end) ==
    IF k.conflict \/ (end = "success" /\ (k.tool \/ k.agents # {})) THEN "failed"
    ELSE IF k.cancel THEN IF end = "aborted" THEN "cancelled" ELSE "failed"
    ELSE IF end = "success" THEN "succeeded" ELSE "failed"

-----------------------------------------------------------------------------
(* The Session.  Its handlers are functions of its state: each event of the  *)
(* transport runs one of them to its end.                                    *)

Free == [a \in Agents |-> "free"]
UnsettledOnceNotified(s) == \E a \in Agents : s.occupancy[a] = "notified"
Unsettled(s) == \E a \in Agents : s.occupancy[a] # "free"
AwaitingContinuation(s) == \E a \in Agents : s.occupancy[a] = "notified"

Armed(s) ==
    IF /\ s.active # NoTurn /\ s.held /\ ~s.root /\ s.phase = "open"
       /\ AwaitingContinuation(s)
    THEN [s EXCEPT !.quiet = TRUE] ELSE s

Observed(s) == [s EXCEPT !.root = TRUE, !.quiet = FALSE]

\* #closeInteraction and #closeActiveInteractions
InteractionsClosed(s, S) ==
    [s EXCEPT !.asks = @ \ S, !.closes = [q \in Interactions |-> @[q] + IF q \in S THEN 1 ELSE 0]]

HoldUnarmed(s) == [s EXCEPT !.held = TRUE, !.idleLive = TRUE]
Hold(s) == Armed([s EXCEPT !.held = TRUE, !.idleLive = TRUE])

Complete(s, outcome, preserve) ==
    [s EXCEPT !.ended[s.active] = outcome, !.active = NoTurn,
              !.cancelled = FALSE, !.held = FALSE, !.root = FALSE, !.idleLive = FALSE,
              !.aborting = IF @ = "waits" THEN "late" ELSE @,
              !.occupancy = IF preserve THEN @ ELSE Free,
              !.abandoned = IF outcome = "failed" /\ ~preserve
                            THEN @ \cup {a \in Agents : s.occupancy[a] # "free"} ELSE @]

\* #finish
Finish(s, outcome, preserve) ==
    LET settled == [InteractionsClosed(s, s.asks) EXCEPT !.quiet = FALSE, !.escalate = FALSE,
                                             !.tool = FALSE, !.delegated = {}]
    IN  IF s.active = NoTurn THEN s
        ELSE IF outcome = "succeeded" /\ ~s.cancelled /\ Unsettled(s) THEN Hold(settled)
        ELSE Complete(settled, outcome, preserve)

\* #finishResult: a late result does not stand for the shutdown in progress.
FinishResult(s, outcome) ==
    LET quiet == [s EXCEPT !.root = FALSE]
    IN  IF s.active = NoTurn \/ s.hardCancel THEN s
        ELSE IF outcome = "succeeded" /\ (s.tool \/ s.delegated # {})
             THEN Finish(quiet, "failed", FALSE)
        ELSE Finish(quiet, outcome, outcome = "cancelled")

\* ClaudeBackgroundOccupancy: a spawn is occupied by its call until an Agent id is bound.
OccupySpawn(occ, a) == [occ EXCEPT ![a] = IF @ = "free" THEN "spawned" ELSE @]
OccupyAgent(occ, a) == [occ EXCEPT ![a] = "running"]
Bind(occ, a) == [occ EXCEPT ![a] = IF @ = "spawned" THEN "running" ELSE @]
Notify(occ, a) == [occ EXCEPT ![a] = IF @ = "free" THEN @ ELSE "notified"]
ObserveLive(occ, live) ==
    [a \in Agents |-> IF occ[a] = "running" /\ a \notin live THEN "notified" ELSE occ[a]]
ReleaseContinuations(occ) ==
    [a \in Agents |-> IF occ[a] = "notified" THEN "free" ELSE occ[a]]

\* #settleBackgroundSubagent
Settle(s, a) ==
    LET told == [s EXCEPT !.occupancy = Notify(@, a)]
    IN  IF s.active # NoTurn /\ s.held THEN Armed(told) ELSE told

\* #handleTurnEvent
TurnEvent(s, m) ==
    CASE m.kind = "output" -> Observed(s)
      [] m.kind = "tool" -> [Observed(s) EXCEPT !.tool = TRUE]
      [] m.kind = "toolDone" -> [s EXCEPT !.tool = FALSE]
      [] m.kind = "spawn" ->
            [Observed(s) EXCEPT !.delegated = @ \cup m.agents, !.seen = @ \cup m.agents,
                                !.occupancy = OccupySpawn(@, Subject(m))]
      [] m.kind = "send" ->
            [Observed(s) EXCEPT !.delegated = @ \cup m.agents, !.seen = @ \cup m.agents,
                                !.abandoned = @ \ m.agents,
                                !.occupancy = OccupyAgent(@, Subject(m))]
      [] m.kind = "started" -> [s EXCEPT !.occupancy = Bind(@, Subject(m))]
      [] m.kind = "launched" ->
            [s EXCEPT !.delegated = @ \ m.agents, !.occupancy = Bind(@, Subject(m))]
      [] m.kind = "settled" -> Settle(s, Subject(m))
      [] m.kind = "level" -> Armed([s EXCEPT !.occupancy = ObserveLive(@, m.agents)])
      [] OTHER -> s

Listening(s) == s.phase \in {"open", "closing"}

\* #handleSessionEvent: the active Turn owns the event, else the Thread.
SessionEvent(s, m) ==
    IF s.active # NoTurn THEN IF Listening(s) THEN TurnEvent(s, m) ELSE s
    ELSE IF m.kind = "settled" THEN Settle(s, Subject(m)) ELSE s

\* #startAutonomousTurn
Autonomous(s) ==
    IF s.phase = "open" /\ s.active = NoTurn
    THEN [s EXCEPT !.active = OwnTurn, !.root = TRUE, !.ended[OwnTurn] = "none"] ELSE s

\* #fault
Fault(s) ==
    IF s.phase \in {"closed", "closing", "faulted"} THEN s
    ELSE [Finish(s, "failed", FALSE) EXCEPT !.phase = "faulted", !.occupancy = Free,
                                            !.escalate = FALSE]

NewSession ==
    [phase |-> "open", active |-> NoTurn, cancelled |-> FALSE, held |-> FALSE, root |-> FALSE,
     tool |-> FALSE, delegated |-> {}, asks |-> {}, occupancy |-> Free, idleLive |-> FALSE,
     quiet |-> FALSE, escalate |-> FALSE, hardCancel |-> FALSE, aborting |-> "none",
     ended |-> [t \in Turns \cup {OwnTurn} |-> "none"], closes |-> [q \in Interactions |-> 0],
     seen |-> {}, abandoned |-> {}]

InitClaude ==
    /\ alive = FALSE /\ segment = "none" /\ inbox = <<>> /\ toolOpen = FALSE
    /\ permits = {} /\ everAsked = {} /\ calls = {} /\ task = [a \in Agents |-> "idle"]
    /\ owed = {} /\ interrupted = FALSE /\ stream = <<>>
    /\ running = NoTurn /\ acc = NoAcc /\ pending = {} /\ idle = NoAcc
    /\ auto = [started |-> FALSE, acc |-> NoAcc]
    /\ transport = "none" /\ claude = NewSession

-----------------------------------------------------------------------------
(* The claude process                                                        *)

Emit(messages) ==
    /\ Len(stream) + Len(messages) <= MaxStream
    /\ stream' = stream \o messages
SessionQuiet == UNCHANGED <<readVars, transport, claude>>
Live == {a \in Agents : task[a] = "running"}

\* It takes the next prompt, or continues after a Subagent that has ended.
BeginPrompt ==
    /\ alive /\ segment = "none" /\ inbox # <<>>
    /\ segment' = "prompt" /\ inbox' = Tail(inbox) /\ interrupted' = FALSE
    /\ Emit(<<NativeMessage("output")>>)
    /\ UNCHANGED <<alive, toolOpen, permits, everAsked, calls, task, owed>> /\ SessionQuiet

BeginOwn ==
    /\ alive /\ segment = "none" /\ inbox = <<>> /\ owed # {}
    /\ segment' = "own" /\ owed' = {} /\ interrupted' = FALSE
    /\ Emit(<<NativeMessage("output")>>)
    /\ UNCHANGED <<alive, inbox, toolOpen, permits, everAsked, calls, task>> /\ SessionQuiet

\* A notification may have no continuation.
LetGo ==
    /\ alive /\ owed # {} /\ owed' = {}
    /\ UNCHANGED <<alive, segment, inbox, toolOpen, permits, everAsked, calls, task, interrupted, stream>>
    /\ SessionQuiet

\* A prompt that arrives during a Segment is answered in it.
Absorb ==
    /\ alive /\ segment # "none" /\ inbox # <<>> /\ inbox' = Tail(inbox)
    /\ UNCHANGED <<alive, segment, toolOpen, permits, everAsked, calls, task, owed, interrupted, stream>>
    /\ SessionQuiet

UseTool ==
    /\ alive /\ segment # "none" /\ ~toolOpen /\ toolOpen' = TRUE /\ Emit(<<NativeMessage("tool")>>)
    /\ UNCHANGED <<alive, segment, inbox, permits, everAsked, calls, task, owed, interrupted>> /\ SessionQuiet

ToolReturns ==
    /\ alive /\ toolOpen /\ permits = {} /\ toolOpen' = FALSE /\ Emit(<<NativeMessage("toolDone")>>)
    /\ UNCHANGED <<alive, segment, inbox, permits, everAsked, calls, task, owed, interrupted>> /\ SessionQuiet

Delegate(a) ==
    /\ alive /\ segment # "none"
    /\ \/ task[a] = "idle" /\ Emit(<<About("spawn", a)>>)
       \/ Resumes /\ task[a] = "ended" /\ a \notin calls \cup owed /\ Emit(<<About("send", a)>>)
    /\ task' = [task EXCEPT ![a] = "called"] /\ calls' = calls \cup {a}
    /\ UNCHANGED <<alive, segment, inbox, toolOpen, permits, everAsked, owed, interrupted>> /\ SessionQuiet

TaskStarts(a) ==
    /\ alive /\ task[a] = "called" /\ task' = [task EXCEPT ![a] = "running"]
    /\ Emit(<<About("started", a), Level(Live \cup {a})>>)
    /\ UNCHANGED <<alive, segment, inbox, toolOpen, permits, everAsked, calls, owed, interrupted>> /\ SessionQuiet

CallReturns(a) ==
    /\ alive /\ a \in calls /\ task[a] # "called" /\ calls' = calls \ {a}
    /\ Emit(<<About("launched", a)>>)
    /\ UNCHANGED <<alive, segment, inbox, toolOpen, permits, everAsked, task, owed, interrupted>> /\ SessionQuiet

\* The notification of an ended Subagent may be missing; the task list never is.
TaskEnds(a) ==
    /\ alive /\ task[a] = "running" /\ a \notin calls
    /\ task' = [task EXCEPT ![a] = "ended"] /\ owed' = owed \cup {a}
    /\ \/ Emit(<<Level(Live \ {a}), About("settled", a)>>)
       \/ Emit(<<About("settled", a), Level(Live \ {a})>>)
       \/ Emit(<<Level(Live \ {a})>>)
    /\ UNCHANGED <<alive, segment, inbox, toolOpen, permits, everAsked, calls, interrupted>> /\ SessionQuiet

OtherTaskChanges ==
    /\ alive /\ OtherTasks /\ Emit(<<Level(Live)>>)
    /\ UNCHANGED nativeVars /\ SessionQuiet

\* A Segment ends well once its calls have returned, with an error at any time, and
\* aborted when it was interrupted: calls that have not started then never will.
EndSegment(end) ==
    /\ alive /\ segment # "none" /\ Emit(<<Result(end)>>)
    /\ end = "success" => ~toolOpen /\ calls = {}
    /\ end = "aborted" => interrupted
    /\ segment' = "none" /\ toolOpen' = FALSE /\ calls' = {} /\ interrupted' = FALSE
    /\ task' = [a \in Agents |-> IF task[a] = "called" THEN "ended" ELSE task[a]]
    /\ UNCHANGED <<alive, inbox, permits, everAsked, owed>> /\ SessionQuiet

\* The signal of a permission request whose Segment was left is aborted.
Dead == [a \in Agents |-> IF task[a] = "idle" THEN "idle" ELSE "ended"]
Killed ==
    /\ alive' = FALSE /\ segment' = "none" /\ inbox' = <<>> /\ toolOpen' = FALSE
    /\ permits' = {} /\ calls' = {} /\ owed' = {} /\ interrupted' = FALSE
    /\ task' = Dead /\ UNCHANGED everAsked

Dies == alive /\ Killed /\ UNCHANGED stream /\ SessionQuiet

-----------------------------------------------------------------------------
(* sdk-transport.ts reads one message                                        *)

Kept(s, k) == IF s.idleLive THEN k ELSE NoAcc   \* setIdleLive

ReadTurn ==
    /\ running # NoTurn
    /\ LET m == Head(stream)
           after == IF Yields(acc, m) /\ claude.active = running /\ Listening(claude)
                    THEN TurnEvent(claude, m) ELSE claude
           closed == IF claude.active = running /\ Listening(claude)
                     THEN InteractionsClosed(claude, pending \cap claude.asks) ELSE claude
       IN  IF m.kind = "result"
           THEN /\ pending' = {} /\ permits' = {} /\ running' = NoTurn /\ acc' = NoAcc
                /\ claude' = IF claude.active = running
                              THEN FinishResult(closed, Terminal(acc, m.end)) ELSE closed
           ELSE /\ acc' = Consumed(acc, m) /\ claude' = after
                /\ UNCHANGED <<pending, permits, running>>
    /\ idle' = Kept(claude', idle) /\ UNCHANGED auto

ReadHeld ==
    /\ running = NoTurn /\ claude.idleLive
    /\ LET m == Head(stream)
           k == Opened(idle)
           after == IF Yields(k, m) THEN SessionEvent(claude, m) ELSE claude
       IN  IF m.kind = "result"
           THEN /\ claude' = FinishResult(claude, Terminal(k, m.end)) /\ idle' = NoAcc
           ELSE claude' = after /\ idle' = Kept(after, Consumed(k, m))
    /\ UNCHANGED <<running, acc, pending, permits, auto>>

\* Before its Segment has started, the Thread takes what is not a Turn's.
ReadAutonomous ==
    /\ running = NoTurn /\ ~claude.idleLive
    /\ LET m == Head(stream)
           k == Opened(auto.acc)
           opened == IF auto.started THEN claude ELSE Autonomous(claude)
       IN  IF m.kind = "result"
           THEN /\ claude' = FinishResult(opened, Terminal(k, m.end))
                /\ auto' = [started |-> FALSE, acc |-> NoAcc]
           ELSE IF Yields(k, m) /\ (m.kind # "settled" \/ auto.started)
           THEN /\ claude' = SessionEvent(opened, m)
                /\ auto' = [started |-> TRUE, acc |-> Consumed(k, m)]
           ELSE /\ claude' = IF Yields(k, m) THEN Settle(claude, Subject(m)) ELSE claude
                /\ auto' = [auto EXCEPT !.acc = Consumed(k, m)]
    /\ idle' = Kept(claude', idle)
    /\ UNCHANGED <<running, acc, pending, permits>>

ReadMessage ==
    /\ stream # <<>> /\ stream' = Tail(stream)
    /\ ReadTurn \/ ReadHeld \/ ReadAutonomous
    /\ UNCHANGED <<alive, segment, inbox, toolOpen, everAsked, calls, task, owed, interrupted>>
    /\ UNCHANGED <<transport>>

-----------------------------------------------------------------------------
(* Permission requests: canUseTool is called while messages still wait       *)

AskPermission(q) ==
    /\ alive /\ toolOpen /\ q \notin everAsked /\ everAsked' = everAsked \cup {q}
    /\ IF running = NoTurn   \* denied at once
       THEN UNCHANGED <<permits, pending, claude>>
       ELSE /\ permits' = permits \cup {q} /\ pending' = pending \cup {q}
            /\ claude' = IF claude.active = running /\ Listening(claude)
                          THEN [Observed(claude) EXCEPT !.asks = @ \cup {q}] ELSE claude
    /\ UNCHANGED <<alive, segment, inbox, toolOpen, calls, task, owed, interrupted, stream>>
    /\ UNCHANGED <<running, acc, idle, auto, transport>>

\* #settleInteraction, for an answer of the user or an aborted signal
Settled(q) ==
    /\ q \in pending /\ pending' = pending \ {q} /\ permits' = permits \ {q}
    /\ claude' = IF claude.active = running /\ Listening(claude)
                  THEN InteractionsClosed(claude, {q} \cap claude.asks) ELSE claude
    /\ UNCHANGED <<alive, segment, inbox, toolOpen, everAsked, calls, task, owed, interrupted, stream>>
    /\ UNCHANGED <<running, acc, idle, auto, transport>>

\* #respond: only an interaction of the active Turn that is still open is answered.
Respondable(s, q) == s.phase = "open" /\ q \in s.asks
Respond(q) == Respondable(claude, q) /\ Settled(q)
SignalAborts(q) == ~(alive /\ toolOpen) /\ Settled(q)

-----------------------------------------------------------------------------
(* Commands of the Host, and the Session's timers                            *)

Steady == UNCHANGED <<alive, segment, inbox, toolOpen, permits, everAsked, calls, task, owed,
                      interrupted, stream>>

\* start(): the process is started when there is no transport yet.
StartsProcess == transport' = "open" /\ alive' = (alive \/ transport = "none")

\* execute(turn.start): a transport is started first when there is none.  runTurn refuses
\* while a Segment of Claude's own is being read, which faults the Session.
StartHostTurn(t) ==
    /\ claude.phase = "open" /\ claude.active = NoTurn /\ claude.ended[t] = "none"
    /\ LET begun == [claude EXCEPT !.active = t, !.root = TRUE]
       IN  IF transport \in {"closing", "stopping", "closed"} \/ auto.started
           THEN /\ claude' = Fault(begun)
                /\ transport' = IF transport = "open" THEN "closing" ELSE transport
                /\ UNCHANGED <<alive, inbox, running, acc>>
           ELSE /\ StartsProcess /\ inbox' = Append(inbox, t)
                /\ claude' = begun /\ running' = t /\ acc' = Fresh
    /\ UNCHANGED <<segment, toolOpen, permits, everAsked, calls, task, owed, interrupted, stream>>
    /\ UNCHANGED <<pending, idle, auto>>

\* close() of the transport starts.
TransportCloses(s) ==
    /\ transport \in {"open", "closing", "stopping"}
    /\ transport' = IF transport = "open" THEN "closing" ELSE transport
    /\ claude' = s
    /\ Steady /\ UNCHANGED readVars

\* #close() awaits the close of the desktop tools before it closes the open interactions
\* and stops the process.
StopsProcess ==
    /\ transport = "closing" /\ transport' = "stopping"
    /\ pending' = {} /\ permits' = {}
    /\ claude' = IF claude.active = running /\ Listening(claude)
                   THEN InteractionsClosed(claude, pending \cap claude.asks) ELSE claude
    /\ UNCHANGED <<alive, segment, inbox, toolOpen, everAsked, calls, task, owed, interrupted, stream>>
    /\ UNCHANGED <<running, acc, idle, auto>>

HardCancel(s) ==
    LET begun == [s EXCEPT !.hardCancel = TRUE, !.escalate = FALSE]
    IN  IF transport = "closed"
        THEN /\ claude' = Finish([begun EXCEPT !.hardCancel = FALSE], "cancelled", FALSE)
             /\ transport' = "none" /\ Steady /\ UNCHANGED readVars
        ELSE TransportCloses(begun)

\* A held Turn without output ends at once; else the process is interrupted, which
\* needs an accumulator: a Segment of Claude's own has none, and loses its process.
CancelClaudeTurn ==
    /\ claude.phase = "open" /\ claude.active # NoTurn /\ ~claude.cancelled
    /\ claude.aborting = "none"
    /\ LET begun == [claude EXCEPT !.cancelled = TRUE]
       IN  \/ /\ claude.held /\ ~claude.root
              /\ claude' = Finish(begun, "cancelled", TRUE) /\ idle' = Kept(claude', idle)
              /\ Steady /\ UNCHANGED <<running, acc, pending, auto, transport>>
           \/ /\ ~(claude.held /\ ~claude.root)
              /\ running = NoTurn /\ ~(claude.idleLive /\ idle.open)
              /\ HardCancel(begun)
           \/ /\ ~(claude.held /\ ~claude.root)
              /\ running # NoTurn \/ (claude.idleLive /\ idle.open)
              /\ acc' = IF running # NoTurn THEN [acc EXCEPT !.cancel = TRUE] ELSE acc
              /\ idle' = IF running = NoTurn THEN [idle EXCEPT !.cancel = TRUE] ELSE idle
              /\ claude' = [begun EXCEPT !.aborting = "waits"]
              /\ interrupted' = (segment # "none")
              /\ UNCHANGED <<alive, segment, inbox, toolOpen, permits, everAsked, calls, task, owed, stream>>
              /\ UNCHANGED <<running, pending, auto, transport>>

\* abort() has returned, or has timed out and closed the transport.
AbortReturns ==
    /\ claude.aborting # "none"
    /\ claude' = [claude EXCEPT !.aborting = "none",
                                  !.escalate = @ \/ claude.aborting = "waits"]
    /\ Steady /\ UNCHANGED <<readVars, transport>>

AbortTimesOut ==
    /\ claude.aborting # "none" /\ transport \in {"open", "closing", "stopping"}
    /\ IF claude.aborting = "waits" /\ claude.phase = "open"
       THEN HardCancel([claude EXCEPT !.aborting = "none"])
       ELSE TransportCloses([claude EXCEPT !.aborting = "none"])

HardCancels ==
    /\ claude.escalate /\ claude.phase = "open" /\ claude.active # NoTurn
    /\ ~claude.hardCancel /\ HardCancel(claude)

\* #armContinuationQuiescence: no further Root output came.
Quiesces ==
    /\ claude.quiet
    /\ LET still == [claude EXCEPT !.quiet = FALSE]
           let == [still EXCEPT !.occupancy = ReleaseContinuations(@)]
       IN  claude' = IF claude.active = NoTurn \/ ~claude.held \/ claude.root
                         \/ claude.phase # "open" THEN still
                      ELSE IF Unsettled(let) THEN let ELSE Finish(let, "succeeded", FALSE)
    /\ idle' = Kept(claude', idle)
    /\ Steady /\ UNCHANGED <<running, acc, pending, auto, transport>>

CloseClaude ==
    /\ claude.phase \in {"open", "faulted"}
    /\ LET s == [claude EXCEPT !.phase = "closing", !.escalate = FALSE, !.quiet = FALSE]
       IN  IF transport \in {"open", "closing", "stopping"} THEN TransportCloses(s)
           ELSE /\ claude' = [Finish(s, "failed", FALSE) EXCEPT !.phase = "closed"]
                /\ Steady /\ UNCHANGED <<readVars, transport>>

\* close() of the transport has settled: the process is gone, or its exit could not be
\* confirmed and nothing is read from it any more.  The Turn runTurn waits for is
\* rejected; a Turn that nothing waits for is not told.
TransportClosed ==
    /\ transport = "stopping" /\ stream' = <<>> /\ Killed
    /\ running' = NoTurn /\ acc' = NoAcc /\ pending' = {} /\ idle' = NoAcc
    /\ auto' = [started |-> FALSE, acc |-> NoAcc]
    /\ \E confirmed \in BOOLEAN :
         LET s == [claude EXCEPT !.idleLive = FALSE, !.hardCancel = FALSE]
             cancels == claude.hardCancel \/ (claude.active = running /\ claude.cancelled)
         IN  IF claude.phase = "closing"
             THEN /\ claude' = [Finish(s, "failed", FALSE) EXCEPT !.phase = "closed",
                                                                   !.occupancy = Free]
                  /\ transport' = "none"
             ELSE IF claude.phase = "open" /\ claude.active # NoTurn /\ cancels
             THEN /\ claude' = IF confirmed THEN Finish(s, "cancelled", FALSE) ELSE Fault(s)
                  /\ transport' = IF confirmed THEN "none" ELSE "closed"
             ELSE /\ claude' = IF claude.active = running /\ running # NoTurn THEN Fault(s) ELSE s
                  /\ transport' = "closed"

\* The query ended although nothing closed it.
QueryEnds ==
    /\ transport = "open" /\ ~alive /\ stream = <<>>
    /\ running' = NoTurn /\ acc' = NoAcc /\ pending' = {} /\ permits' = {}
    /\ claude' = Fault(IF claude.active = running
                        THEN InteractionsClosed(claude, pending \cap claude.asks) ELSE claude)
    /\ transport' = "closing" /\ idle' = NoAcc
    /\ UNCHANGED <<alive, segment, inbox, toolOpen, everAsked, calls, task, owed, interrupted, stream>>
    /\ UNCHANGED auto

ClaudeProcess ==
    \/ BeginPrompt \/ BeginOwn \/ LetGo \/ Absorb \/ UseTool \/ ToolReturns
    \/ \E a \in Agents : Delegate(a) \/ TaskStarts(a) \/ CallReturns(a) \/ TaskEnds(a)
    \/ OtherTaskChanges \/ \E end \in {"success", "error", "aborted"} : EndSegment(end)
    \/ \E q \in Interactions : AskPermission(q) \/ SignalAborts(q)
    \/ Dies

NextClaude ==
    \/ ClaudeProcess \/ ReadMessage \/ QueryEnds
    \/ \E t \in Turns : StartHostTurn(t)
    \/ \E q \in Interactions : Respond(q)
    \/ CancelClaudeTurn \/ AbortReturns \/ AbortTimesOut \/ HardCancels \/ Quiesces
    \/ CloseClaude \/ StopsProcess \/ TransportClosed

\* The process ends its Segments and its Subagents, the user answers, timers expire,
\* and what has arrived is read.
ClaudeFairness ==
    /\ WF_claudeVars(ReadMessage) /\ WF_claudeVars(QueryEnds) /\ WF_claudeVars(StopsProcess) /\ WF_claudeVars(TransportClosed)
    /\ SF_claudeVars(BeginPrompt) /\ WF_claudeVars(Quiesces) /\ WF_claudeVars(HardCancels)
    /\ WF_claudeVars(AbortReturns \/ AbortTimesOut)
    /\ SF_claudeVars(ToolReturns) /\ \A q \in Interactions : WF_claudeVars(Respond(q)) /\ WF_claudeVars(SignalAborts(q))
    /\ \A a \in Agents : SF_claudeVars(TaskStarts(a)) /\ SF_claudeVars(CallReturns(a)) /\ SF_claudeVars(TaskEnds(a))
    /\ SF_claudeVars(\E end \in {"success", "error", "aborted"} : EndSegment(end))

ClaudeSpec == InitClaude /\ [][NextClaude]_claudeVars
ClaudeFairSpec == ClaudeSpec /\ ClaudeFairness

-----------------------------------------------------------------------------
Outcomes == {"none", "succeeded", "failed", "cancelled"}

ClaudeTypeOK ==
    /\ segment \in {"none", "prompt", "own"} /\ stream \in Seq(NativeMessages)
    /\ running \in Turns \cup {NoTurn} /\ claude.active \in Turns \cup {OwnTurn, NoTurn}
    /\ claude.phase \in {"open", "closing", "closed", "faulted"}
    /\ claude.occupancy \in [Agents -> {"free", "spawned", "running", "notified"}]
    /\ claude.ended \in [Turns \cup {OwnTurn} -> Outcomes]

\* An interaction shown to the user is closed exactly once, by whichever of the answer,
\* the aborted signal, the result, the close and the fault comes first, and none stays
\* open when its Turn is over.
InteractionsCloseOnce ==
    /\ \A q \in Interactions : claude.closes[q] <= 1 /\ (q \in claude.asks => claude.closes[q] = 0)
    /\ claude.active = NoTurn => claude.asks = {}
    /\ pending \cap claude.asks = claude.asks

\* Subagents whose latest start the Session has read, and no failed Turn gave up.
Followed == {a \in claude.seen \ claude.abandoned :
            \A i \in DOMAIN stream : stream[i].kind = "send" => a \notin stream[i].agents}

\* A Turn succeeds only when no Subagent the Session has seen it start still runs.
SucceedsWhenSettled ==
    [][\A t \in Turns \cup {OwnTurn} :
         claude.ended[t] = "none" /\ claude'.ended[t] = "succeeded" =>
           \A a \in Followed : task[a] # "running"]_claudeVars

\* The rollback guard reads the occupancy: a running Subagent stays in it, also after the
\* Turn that started it was cancelled, unless a failed Turn gave it up.
RunningIsOccupied ==
    claude.phase = "open" =>
      \A a \in Followed : task[a] = "running" => claude.occupancy[a] # "free"

\* A Turn of Claude's own opens on the first Root output of its Segment.
OpensOnRootOutput ==
    [][claude.active # OwnTurn /\ claude'.active = OwnTurn =>
         Head(stream).kind \in {"output", "tool", "spawn", "send", "result"}]_claudeVars

\* The transport of an open Session is closed only to cancel the Turn that is active.
ClosedToCancel ==
    [][transport = "open" /\ transport' = "closing" /\ claude'.phase = "open" =>
         claude'.cancelled]_claudeVars

\* A Turn the Host starts ends.
TurnsEnd == \A t \in Turns : claude.active = t ~> claude.ended[t] # "none"
=============================================================================
