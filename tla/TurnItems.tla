------------------------------ MODULE TurnItems ------------------------------
(***************************************************************************)
(* The Items of one Claude Turn, from the messages of the claude process to  *)
(* what Desktop shows: native-message.ts turns messages into events, the     *)
(* adapter turns events into Items, the Host hands them to the projector.    *)
(* claude-history.ts reads the same Turn from Claude's transcript; the live   *)
(* Turn and the transcript should agree on the Items they name.              *)
(*                                                                           *)
(* The Host consumes the Session's output in order, one event at a time, so  *)
(* an event is projected in the step that emits it.  Which Subagents keep a  *)
(* Turn held, and when, is module ClaudeSession's subject: here the set       *)
(* "working" only shrinks at the end of a Segment.                           *)
(***************************************************************************)
EXTENDS TurnProjector, FiniteSets

CONSTANTS ToolCalls,      \* the calls Claude may make
          Questions,      \* the permissions and questions it may ask for
          MaxEntries,     \* bound: assistant messages delivered in the Turn
          MaxSegments,    \* bound: the first execution and its continuations
          MaxEvents,      \* bound: questions, compactions, task updates and cancels of a Turn
          EndsSilent,     \* may a Segment end without a text?
          NoMessage

ASSUME ItemAssumption ==
    /\ IsFiniteSet(ToolCalls) /\ IsFiniteSet(Questions)
    /\ NoItem \notin {"agentMessage", "reasoning", "compaction"} \X Nat
    /\ NoItem \notin {"call", "file"} \X ToolCalls /\ NoItem \notin {"ask"} \X Questions
    /\ NoMessage \notin {"api", "uuid"} \X Nat

VARIABLES speech,   \* the claude process and the accumulator that reads it
          script,   \* the assistant entries of Claude's transcript
          turn      \* the adapter's ActiveTurn, with the projector of the Host

itemVars == <<speech, script, turn>>

Chunk == <<"a">>
Different == <<"b">>

-----------------------------------------------------------------------------
(* The adapter's ActiveTurn.  Every handler is a function of it.             *)

CompleteAgentItem(s, outcome, completeEmpty) ==
    LET left == [s EXCEPT !.assistant = NoMessage]
    IN  IF ~s.speaking \/ (~completeEmpty /\ s.item.text = <<>>) THEN left
        ELSE [left EXCEPT !.speaking = FALSE, !.p = CompleteItem(@, s.item, outcome)]

CompleteReasoning(s, m, outcome) ==
    IF m \notin DOMAIN s.thinking THEN s
    ELSE [s EXCEPT !.thinking = [x \in DOMAIN @ \ {m} |-> @[x]],
                   !.p = CompleteItem(@, s.thinking[m], outcome)]

CompleteAllReasoning(s, outcome) ==
    FoldSet(LAMBDA m, t : CompleteReasoning(t, m, outcome), s, DOMAIN s.thinking)

\* A new message settles the one before it; an Item that is still empty is taken over.
ActivateAssistantMessage(s, m) ==
    LET settled == IF s.assistant = NoMessage THEN s
                   ELSE CompleteAgentItem(CompleteReasoning(s, s.assistant, "succeeded"),
                                          "succeeded", FALSE)
        item == NewItem(<<"agentMessage", settled.texts + 1>>, "agentMessage")
        open == IF settled.speaking THEN settled
                ELSE [settled EXCEPT !.texts = @ + 1, !.item = item, !.speaking = TRUE,
                                     !.p = StartItem(@, item)]
    IN  IF s.assistant = m THEN s ELSE [open EXCEPT !.assistant = m]

AppendText(s, m, delta) ==
    LET on == ActivateAssistantMessage(s, m)
    IN  IF delta = <<>> THEN s
        ELSE [on EXCEPT !.item.text = @ \o delta, !.p = AppendsText(@, on.item.id, delta)]

ReplaceText(s, m, text) ==
    IF ~s.speaking \/ s.assistant # m THEN s
    ELSE [s EXCEPT !.item.text = text, !.p = ReplacesText(@, s.item.id, text)]

AppendReasoning(s, m, delta) ==
    LET on == ActivateAssistantMessage(s, m)
        item == NewItem(<<"reasoning", on.thoughts + 1>>, "reasoning")
        open == IF m \in DOMAIN on.thinking THEN on
                ELSE [on EXCEPT !.thoughts = @ + 1, !.p = StartItem(@, item),
                                !.thinking = [x \in DOMAIN @ \cup {m} |->
                                                 IF x = m THEN item ELSE @[x]]]
    IN  [open EXCEPT !.thinking[m].text = @ \o delta,
                     !.p = AppendsText(@, open.thinking[m].id, delta)]

MessageCompleted(s, m) ==
    LET quiet == CompleteReasoning(s, m, "succeeded")
    IN  IF DOMAIN s.tools # {} \/ DOMAIN s.agents # {} \/ s.asks # {} \/ s.compacting
        THEN quiet ELSE CompleteAgentItem(quiet, "succeeded", FALSE)

SettleTextsEvenEmpty(s) == CompleteAgentItem(CompleteAllReasoning(s, "succeeded"), "succeeded", TRUE)

\* What tool.started and subagent.started do first.
SettleTexts(s) == CompleteAgentItem(CompleteAllReasoning(s, "succeeded"), "succeeded", FALSE)

\* ClaudeToolLifecycle
ToolItem(c, type, parsed) ==
    [NewItem(<<"call", c>>, type) EXCEPT
        !.edits = IF type = "edit" /\ parsed THEN {[call |-> c, by |-> "arguments"]} ELSE {}]

StartTool(s, c, item) ==
    [s EXCEPT !.tools = [x \in DOMAIN @ \cup {c} |-> IF x = c THEN item ELSE @[x]],
              !.p = StartItem(@, item)]

CompleteTool(s, c, isError, reported) ==
    LET item == s.tools[c]
        outcome == IF s.cancelled THEN "cancelled" ELSE IF isError THEN "failed" ELSE "succeeded"
        file == [NewItem(<<"file", c>>, "fileChange") EXCEPT
                    !.edits = {[call |-> c, by |-> "result"]}, !.sources = {item.id}]
        done == [s EXCEPT !.tools = [x \in DOMAIN @ \ {c} |-> @[x]],
                          !.p = CompleteItem(@, item, outcome)]
    IN  IF outcome = "succeeded" /\ reported
        THEN [done EXCEPT !.p = CompleteItem(StartItem(@, file), file, "succeeded")] ELSE done

\* The Items that are left open when execution ends.
CompleteEach(p, left, outcome) ==
    FoldSet(LAMBDA c, q : CompleteItem(q, left[c], outcome), p, DOMAIN left)

FinalizeTools(s, outcome) ==
    [s EXCEPT !.tools = [x \in {} |-> NewItem(NoItem, "tool")],
              !.p = CompleteEach(@, s.tools, outcome)]

\* ClaudeSubagentLifecycle
StartAgent(s, c, background) ==
    LET item == NewItem(<<"call", c>>, "subagent")
    IN  [s EXCEPT !.agents = [x \in DOMAIN @ \cup {c} |-> IF x = c THEN item ELSE @[x]],
                  !.working = IF background THEN @ \cup {c} ELSE @,
                  !.p = StartItem(@, item)]

UpdateAgent(s, c) ==
    IF c \notin DOMAIN s.agents THEN s
    ELSE [s EXCEPT !.p = ReplacesSubagents(@, s.agents[c].id)]

CompleteAgent(s, c, isError, goesOn) ==
    LET item == s.agents[c]
        outcome == IF s.cancelled THEN "cancelled" ELSE IF isError THEN "failed" ELSE "succeeded"
    IN  [s EXCEPT !.agents = [x \in DOMAIN @ \ {c} |-> @[x]],
                  !.working = IF goesOn /\ ~isError THEN @ ELSE @ \ {c},
                  !.p = CompleteItem(ReplacesSubagents(@, item.id), item, outcome)]

FinalizeAgents(s, outcome) ==
    [s EXCEPT !.agents = [x \in {} |-> NewItem(NoItem, "subagent")],
              !.p = CompleteEach(@, s.agents, outcome)]

\* Compaction
CompactionItem(s) == NewItem(<<"compaction", s.compactions>>, "compaction")
StartCompaction(s) ==
    LET t == [s EXCEPT !.compacting = TRUE, !.compactions = @ + 1]
    IN  [t EXCEPT !.p = StartItem(@, CompactionItem(t))]
CompleteCompactionItem(s, outcome) ==
    [s EXCEPT !.compacting = FALSE, !.p = CompleteItem(@, CompactionItem(s), outcome)]

\* Interactions
StartInteraction(s, q, type) ==
    [s EXCEPT !.asks = @ \cup {q},
              !.p = IF type = "approval" THEN OpensApproval(@, q)
                    ELSE OpensQuestion(@, q, <<"ask", q>>)]
CloseInteraction(s, q, reason) ==
    [s EXCEPT !.asks = @ \ {q}, !.p = ClosesInteraction(@, q, reason)]
CloseActiveInteractions(s, reason) ==
    FoldSet(LAMBDA q, t : CloseInteraction(t, q, reason), s, s.asks)

FinishKeepsEmptyText(s, outcome) ==
    LET closed == CloseActiveInteractions(s, IF outcome = "succeeded" THEN "superseded" ELSE "cancelled")
        compacted == IF closed.compacting THEN CompleteCompactionItem(closed, outcome) ELSE closed
        returned == FinalizeAgents(FinalizeTools(compacted, outcome), outcome)
        settled == CompleteAgentItem(CompleteAllReasoning(returned, outcome), outcome, FALSE)
    IN  IF outcome = "succeeded" /\ ~s.cancelled /\ s.working # {}
        THEN [settled EXCEPT !.held = TRUE]
        ELSE [settled EXCEPT !.outcome = outcome, !.p = ProjectCompletedTurn(@)]

\* #finish: a success that leaves Subagents at work holds the Turn.
FinishItems(s, outcome) ==
    LET closed == CloseActiveInteractions(s, IF outcome = "succeeded" THEN "superseded" ELSE "cancelled")
        compacted == IF closed.compacting THEN CompleteCompactionItem(closed, outcome) ELSE closed
        returned == FinalizeAgents(FinalizeTools(compacted, outcome), outcome)
        settled == CompleteAgentItem(CompleteAllReasoning(returned, outcome), outcome, TRUE)
    IN  IF outcome = "succeeded" /\ ~s.cancelled /\ s.working # {}
        THEN [settled EXCEPT !.held = TRUE]
        ELSE [settled EXCEPT !.outcome = outcome, !.p = ProjectCompletedTurn(@)]

-----------------------------------------------------------------------------
(* The accumulator and the claude process                                    *)

NewSpeech ==
    [segment |-> TRUE, segments |-> 1, api |-> 0, uuid |-> 0, root |-> NoMessage, done |-> {},
     reasoning |-> <<>>, text |-> <<>>, spoke |-> FALSE, compaction |-> "idle",
     tools |-> [c \in {} |-> FALSE], called |-> {}, asked |-> {}, applied |-> {}, events |-> 0]

NewTurn ==
    [p |-> ProjectStartedTurn(NewProjector), speaking |-> FALSE, item |-> NewItem(NoItem, "agentMessage"),
     assistant |-> NoMessage, texts |-> 0, thinking |-> [m \in {} |-> NewItem(NoItem, "reasoning")],
     thoughts |-> 0, tools |-> [c \in {} |-> NewItem(NoItem, "tool")],
     agents |-> [c \in {} |-> NewItem(NoItem, "subagent")], compacting |-> FALSE, compactions |-> 0,
     asks |-> {}, cancelled |-> FALSE, held |-> FALSE, working |-> {}, outcome |-> "none"]

\* A Turn opens its first message at once; a compaction opens none.
FirstItem == NewItem(<<"agentMessage", 1>>, "agentMessage")
OpensWithText ==
    [NewTurn EXCEPT !.speaking = TRUE, !.item = FirstItem, !.texts = 1, !.p = StartItem(@, FirstItem)]

InitItems ==
    /\ speech = NewSpeech /\ script = <<>>
    /\ turn \in {NewTurn, OpensWithText}

Running == turn.outcome = "none"
Executing == Running /\ speech.segment
Happens == Executing /\ speech.events < MaxEvents

\* message_start
MessageStarts ==
    /\ Executing /\ speech.reasoning = <<>> /\ speech.text = <<>>
    /\ speech.root = NoMessage \/ speech.root \in speech.done
    /\ Len(script) < MaxEntries
    /\ speech' = [speech EXCEPT !.api = @ + 1, !.root = <<"api", speech.api + 1>>]
    /\ UNCHANGED <<script, turn>>

\* The message a delta belongs to: an unnamed one opens a message of its own.
StreamMessage == IF speech.root # NoMessage THEN speech.root ELSE <<"uuid", speech.uuid + 1>>

StreamsThinking ==
    /\ Executing /\ speech.api > 0 /\ speech.text = <<>> /\ speech.reasoning = <<>>
    /\ Len(script) < MaxEntries
    /\ speech' = [speech EXCEPT !.root = StreamMessage, !.reasoning = Chunk,
                                !.uuid = IF speech.root = NoMessage THEN @ + 1 ELSE @]
    /\ turn' = AppendReasoning(turn, StreamMessage, Chunk)
    /\ UNCHANGED script

StreamsText ==
    /\ Executing /\ speech.api > 0 /\ speech.text = <<>>
    /\ Len(script) < MaxEntries
    /\ speech' = [speech EXCEPT !.root = StreamMessage, !.text = Chunk,
                                !.uuid = IF speech.root = NoMessage THEN @ + 1 ELSE @]
    /\ turn' = AppendText(turn, StreamMessage, Chunk)
    /\ UNCHANGED script

CallKinds == {"none", "tool", "todo", "edit", "readableEdit", "agent", "backgroundAgent"}
CallStarted(s, c, kind) ==
    LET on == SettleTexts(s)
    IN  CASE kind = "none" -> s
          [] kind \in {"tool", "todo", "edit"} -> StartTool(on, c, ToolItem(c, kind, FALSE))
          [] kind = "readableEdit" -> StartTool(on, c, ToolItem(c, "edit", TRUE))
          [] OTHER -> StartAgent(on, c, kind = "backgroundAgent")

\* #consumeAssistantMessage: the complete text has the last word over the streamed one.
TextArrives(s, m, streamed, text) ==
    IF text = <<>> THEN s
    ELSE IF IsPrefix(streamed, text) THEN AppendText(s, m, SubSeq(text, Len(streamed) + 1, Len(text)))
    ELSE ReplaceText(s, m, text)

MessageArrives(s, m, text, c, kind) ==
    IF m \in speech.done THEN CallStarted(s, c, kind)
    ELSE MessageCompleted(
             CallStarted(TextArrives(CompleteReasoning(s, m, "succeeded"), m, speech.text, text),
                         c, kind), m)

\* Claude delivers a message, as a whole or block by block, and writes it to the transcript.
EntryArrives ==
    \E text \in {<<>>, Chunk, Chunk \o Chunk, Different}, kind \in CallKinds, c \in ToolCalls :
        LET m == IF speech.root # NoMessage THEN speech.root ELSE <<"api", speech.api>>
        IN  /\ Executing /\ speech.api > 0 /\ Len(script) < MaxEntries
            /\ speech.text # <<>> => text # <<>>
            /\ speech.text = <<>> => text \in {<<>>, Chunk} /\ (text # <<>> => m \notin speech.done)
            /\ speech.reasoning # <<>> \/ text # <<>> \/ kind # "none"
            /\ IF kind = "none" THEN c = CHOOSE x \in ToolCalls : TRUE ELSE c \notin speech.called
            /\ script' = Append(script, [reasoning |-> speech.reasoning, text |-> text,
                                         kind |-> kind, call |-> c])
            /\ turn' = MessageArrives(turn, m, text, c, kind)
            /\ speech' = [speech EXCEPT !.root = NoMessage, !.done = @ \cup {m},
                              !.reasoning = <<>>, !.text = <<>>, !.spoke = text # <<>>,
                              !.called = IF kind = "none" THEN @ ELSE @ \cup {c},
                              !.tools = IF kind = "none" THEN @
                                        ELSE [x \in DOMAIN @ \cup {c} |->
                                                 IF x = c THEN kind \in {"agent", "backgroundAgent"}
                                                 ELSE @[x]]]

\* #consumeToolResults
CallReturnsItem(c) ==
    \E isError, reported \in BOOLEAN :
        /\ Executing /\ c \in DOMAIN speech.tools
        /\ LET kind == (CHOOSE e \in Range(script) : e.kind # "none" /\ e.call = c).kind
               edits == kind \in {"edit", "readableEdit"} /\ ~isError
           IN  /\ reported => edits
               /\ turn' = IF speech.tools[c]
                          THEN CompleteAgent(turn, c, isError, kind = "backgroundAgent")
                          ELSE CompleteTool(turn, c, isError, reported)
               /\ speech' = [speech EXCEPT
                      !.tools = [x \in DOMAIN @ \ {c} |-> @[x]], !.spoke = FALSE,
                      !.applied = IF edits /\ ~turn.cancelled /\ (reported \/ kind = "readableEdit")
                                  THEN @ \cup {c} ELSE @]
        /\ UNCHANGED script

\* #consumeTaskLifecycle, of a Subagent whose call is still open.
TaskUpdates(c) ==
    /\ Happens /\ c \in DOMAIN speech.tools /\ speech.tools[c]
    /\ turn' = UpdateAgent(turn, c)
    /\ speech' = [speech EXCEPT !.events = @ + 1] /\ UNCHANGED script

AsksDesktop(q) ==
    \E type \in {"approval", "question"} :
        /\ Happens /\ q \notin speech.asked
        /\ speech' = [speech EXCEPT !.events = @ + 1, !.asked = @ \cup {q}]
        /\ turn' = StartInteraction(turn, q, type)
        /\ UNCHANGED script

InteractionCloses(q) ==
    \E reason \in {"responded", "cancelled", "superseded"} :
        /\ Executing /\ q \in turn.asks
        /\ turn' = CloseInteraction(turn, q, reason)
        /\ UNCHANGED <<speech, script>>

\* #consumeCompaction
Compacts ==
    /\ Happens /\ speech.compaction # "active"
    /\ speech' = [speech EXCEPT !.events = @ + 1, !.compaction = "active"]
    /\ turn' = StartCompaction(turn)
    /\ UNCHANGED script

Compacted ==
    \E outcome \in {"succeeded", "failed"} :
        /\ speech.compaction # "settled"
        /\ IF speech.compaction = "idle" THEN Happens ELSE Executing
        /\ speech' = [speech EXCEPT !.compaction = "settled",
                           !.events = IF speech.compaction = "idle" THEN @ + 1 ELSE @]
        /\ turn' = CompleteCompactionItem(IF speech.compaction = "idle" THEN StartCompaction(turn)
                                          ELSE turn, outcome)
        /\ UNCHANGED script

\* Claude ends well when its calls have returned and it has said what it had to say.
SegmentSucceeds ==
    \E still \in SUBSET turn.working :
        /\ Executing /\ speech.text = <<>> /\ speech.reasoning = <<>>
        /\ DOMAIN speech.tools = {} /\ turn.asks = {}
        /\ EndsSilent \/ speech.spoke
        /\ speech' = [speech EXCEPT !.segment = FALSE]
        /\ turn' = FinishItems([turn EXCEPT !.working = still], "succeeded")
        /\ UNCHANGED script

\* A failed call, a stopped process and an interrupted prompt end it anywhere.
SegmentFails ==
    \E outcome \in {"failed", "cancelled"} :
        /\ Executing
        /\ outcome = "cancelled" => turn.cancelled
        /\ speech' = [speech EXCEPT !.segment = FALSE]
        /\ turn' = FinishItems(turn, outcome)
        /\ UNCHANGED script

\* A continuation is read by an accumulator of its own.
SegmentResumes ==
    /\ Running /\ turn.held /\ ~speech.segment /\ speech.segments < MaxSegments
    /\ speech' = [speech EXCEPT !.segment = TRUE, !.segments = @ + 1, !.root = NoMessage,
                                !.api = @ + 1, !.done = {}, !.reasoning = <<>>, !.text = <<>>, !.spoke = FALSE,
                                !.compaction = "idle"]
    /\ UNCHANGED <<script, turn>>

\* The held Turn ends when no continuation is due.
HeldTurnEnds ==
    /\ Running /\ turn.held /\ ~speech.segment
    /\ turn' = FinishItems([turn EXCEPT !.working = {}], "succeeded")
    /\ UNCHANGED <<speech, script>>

\* #cancel: a Turn that is only held ends at once.
CancelsItems ==
    /\ Running /\ speech.events < MaxEvents /\ ~turn.cancelled
    /\ LET cancelled == [turn EXCEPT !.cancelled = TRUE]
       IN  turn' = IF turn.held /\ ~speech.segment THEN FinishItems(cancelled, "cancelled")
                   ELSE cancelled
    /\ speech' = [speech EXCEPT !.events = @ + 1] /\ UNCHANGED script

NextItems ==
    \/ MessageStarts \/ StreamsThinking \/ StreamsText \/ EntryArrives
    \/ \E c \in ToolCalls : CallReturnsItem(c) \/ TaskUpdates(c)
    \/ \E q \in Questions : AsksDesktop(q) \/ InteractionCloses(q)
    \/ Compacts \/ Compacted
    \/ SegmentSucceeds \/ SegmentFails \/ SegmentResumes \/ HeldTurnEnds \/ CancelsItems

ItemsSpec == InitItems /\ [][NextItems]_itemVars

-----------------------------------------------------------------------------
(* claude-history.ts                                                         *)

\* mapClaudeSnapshot: the Items of the transcript, numbered by their kind.
HasReturned(c) == c \in speech.called /\ c \notin DOMAIN speech.tools
EntryItems(k) ==
    LET before(has(_)) == Cardinality({n \in 1 .. k - 1 : has(script[n])})
        e == script[k]
        reasoning == [NewItem(<<"reasoning", 1 + before(LAMBDA x : x.reasoning # <<>>)>>, "reasoning")
                          EXCEPT !.text = e.reasoning, !.done = "succeeded"]
        text == [NewItem(<<"agentMessage", 1 + before(LAMBDA x : x.text # <<>>)>>, "agentMessage")
                     EXCEPT !.text = e.text, !.done = "succeeded"]
        type == IF e.kind \in {"agent", "backgroundAgent"} THEN "subagent"
                ELSE IF e.kind = "readableEdit" THEN "edit" ELSE e.kind
        call == [ToolItem(e.call, type, e.kind = "readableEdit") EXCEPT !.done = "succeeded"]
    IN  (IF e.reasoning # <<>> THEN <<reasoning>> ELSE <<>>)
        \o (IF e.text # <<>> THEN <<text>> ELSE <<>>)
        \o (IF e.kind # "none" /\ HasReturned(e.call) THEN <<call>> ELSE <<>>)
Transcript == FlattenSeq([k \in DOMAIN script |-> EntryItems(k)])

-----------------------------------------------------------------------------
(* Properties                                                                *)

ItemsTypeOK ==
    /\ speech.segments \in 1 .. MaxSegments /\ Len(script) <= MaxEntries
    /\ speech.called \subseteq ToolCalls /\ turn.asks \subseteq Questions
    /\ turn.outcome \in Outcomes \cup {"none"} /\ turn.working \subseteq ToolCalls
    /\ \A i \in Range(turn.p.items) : i.type \in ItemTypes /\ i.done \in Outcomes \cup {"no"}

\* The projector accepts every event of the Turn and Desktop every message of the
\* projector: no Item is started or completed twice, changed after its end, or left
\* open by the Turn.  A throw stops the Host's consumer and leaves the Turn without end.
ProjectionAccepted == ~turn.p.threw /\ ~turn.p.misused

\* At the end of the Turn Desktop shows every Item settled, as a reopened Turn would show
\* it, and its file card holds each edit Claude made exactly once.
DesktopSettles ==
    LET p == turn.p
    IN  p.completed =>
        /\ {p.order[n] : n \in DOMAIN p.order} = DOMAIN p.shown
        /\ \A h \in Range(HistoryTurn(p)) : p.shown[h.id] = h.view /\ ~h.view.running
        /\ {e.call : e \in Summary(p)} = speech.applied
        /\ Cardinality(Summary(p)) = Cardinality(speech.applied)

\* The live Turn and the transcript give the same texts the same names, in the same order:
\* a Turn read again replaces what Desktop shows instead of repeating it.
TextsOnly(turnItems) == SelectSeq(turnItems, LAMBDA h : h.type \in Texts)
TranscriptAgrees ==
    turn.outcome = "succeeded" =>
        TextsOnly(HistoryTurn(turn.p)) = TextsOnly(HistoricalTurn(Transcript))

\* A Turn that is reopened while it runs shows what Desktop already shows.
ReopenedShowsTheSame ==
    \A h \in Range(HistoryTurn(turn.p)) :
        h.type \notin Texts => turn.p.shown[h.id].running = h.view.running
=============================================================================
