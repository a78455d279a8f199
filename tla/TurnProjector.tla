---------------------------- MODULE TurnProjector ----------------------------
(***************************************************************************)
(* What Codex Desktop is told of a Turn (codex-ui-projector.ts).  The         *)
(* projector folds the events of the Harness into Items and sends each       *)
(* change on the wire; it throws on an event that does not fit.  Its         *)
(* operators map one projector state to the next; "shown" is what Desktop    *)
(* has after the messages sent so far.                                       *)
(*                                                                           *)
(* A text is a sequence of chunks.  The file changes of an Item are a set of *)
(* contributions, each named by the native call it stands for and by where   *)
(* it was read; diffs and paths are left out, and so is the plan that a Todo *)
(* tool updates, which has no Item on the wire.                               *)
(***************************************************************************)
EXTENDS Naturals, Sequences, SequencesExt

CONSTANT NoItem      \* no file card yet

Texts == {"agentMessage", "reasoning"}
ItemTypes == Texts \cup {"tool", "todo", "edit", "fileChange", "subagent", "compaction"}
Outcomes == {"succeeded", "failed", "cancelled"}

NewItem(id, type) ==
    [id |-> id, type |-> type, text |-> <<>>, edits |-> {}, sources |-> {},
     done |-> "no", wire |-> FALSE]

NewProjector ==
    [started |-> FALSE, completed |-> FALSE, threw |-> FALSE, misused |-> FALSE,
     items |-> <<>>, open |-> {}, card |-> NoItem, order |-> <<>>,
     shown |-> [id \in {} |-> [running |-> FALSE, text |-> <<>>, edits |-> {}]]]

Throws(p) == [p EXCEPT !.threw = TRUE]

Known(p, id) == \E n \in DOMAIN p.items : p.items[n].id = id
Position(p, id) == CHOOSE n \in DOMAIN p.items : p.items[n].id = id
ItemOf(p, id) == p.items[Position(p, id)]
IsActive(p, id) == Known(p, id) /\ ItemOf(p, id).done = "no"

\* itemFileChanges: an edit tool counts when its arguments show the change.
ChangesFiles(i) == i.type = "fileChange" \/ (i.type = "edit" /\ i.edits # {})

\* summarizeHostFiles: a change Claude reports replaces the one read from its call.
Summary(p) ==
    LET replaced == UNION {i.sources : i \in Range(p.items)}
        counted == {i \in Range(p.items) : i.done \in {"no", "succeeded"} /\ i.id \notin replaced}
    IN  UNION {i.edits : i \in {k \in counted : ChangesFiles(k)}}

-----------------------------------------------------------------------------
(* The messages, and what Desktop makes of them                              *)

Displays(p, id, view) ==
    [p EXCEPT !.shown = [x \in DOMAIN @ \cup {id} |-> IF x = id THEN view ELSE @[x]]]
View(running, text, edits) == [running |-> running, text |-> text, edits |-> edits]

ItemStarted(p, id, text) == Displays(p, id, View(TRUE, text, {}))
ItemDelta(p, id, text) ==
    IF id \in DOMAIN p.shown /\ p.shown[id].running
    THEN [p EXCEPT !.shown[id].text = @ \o text]
    ELSE [p EXCEPT !.misused = TRUE]
PatchUpdated(p, id) ==
    IF id \in DOMAIN p.shown THEN [p EXCEPT !.shown[id].edits = Summary(p)]
    ELSE [p EXCEPT !.misused = TRUE]
ItemCompleted(p, id, text, edits) ==
    IF id \in DOMAIN p.shown THEN Displays(p, id, View(FALSE, text, edits))
    ELSE [p EXCEPT !.misused = TRUE]

CardCompleted(p) == ItemCompleted(p, p.card, <<>>, Summary(p))

\* #startWireItem
StartWireItem(p, id, text) ==
    IF ItemOf(p, id).wire THEN Throws(p)
    ELSE ItemStarted([p EXCEPT !.items[Position(p, id)].wire = TRUE, !.order = Append(@, id)], id, text)

\* #fileChangeUpdates: the first Item that changes a file becomes the card of them all.
FileChangeUpdates(p) ==
    LET first == p.items[CHOOSE n \in DOMAIN p.items :
                            /\ ChangesFiles(p.items[n])
                            /\ \A k \in 1 .. n - 1 : ~ChangesFiles(p.items[k])].id
        q == IF p.card = NoItem THEN StartWireItem([p EXCEPT !.card = first], first, <<>>) ELSE p
    IN  PatchUpdated(q, q.card)

-----------------------------------------------------------------------------
(* Events                                                                    *)

\* #startTurn
ProjectStartedTurn(p) == IF p.started THEN Throws(p) ELSE [p EXCEPT !.started = TRUE]

\* #startItem: a text without characters waits for its first; Todo and unreadable edits
\* have no Item on the wire.
StartItem(p, item) ==
    LET q == [p EXCEPT !.items = Append(@, item)]
        on == StartWireItem(q, item.id, IF item.type = "reasoning" THEN <<>> ELSE item.text)
    IN  CASE p.completed \/ ~p.started \/ Known(p, item.id) -> Throws(p)
          [] item.type \in Texts /\ item.text = <<>> -> q
          [] item.type = "todo" -> q
          [] ChangesFiles(item) -> FileChangeUpdates(q)
          [] item.type = "edit" /\ item.edits = {} -> q
          [] item.type = "reasoning" /\ item.text # <<>> -> ItemDelta(on, item.id, item.text)
          [] OTHER -> on

\* #updateItem, text.append
AppendsText(p, id, text) ==
    LET i == ItemOf(p, id)
        q == [p EXCEPT !.items[Position(p, id)].text = @ \o text]
        on == IF i.wire THEN q
              ELSE StartWireItem(q, id, IF i.type = "reasoning" THEN <<>> ELSE i.text)
    IN  CASE p.completed \/ ~IsActive(p, id) -> Throws(p)
          [] i.type \notin Texts -> Throws(p)
          [] text = <<>> -> q
          [] OTHER -> ItemDelta(on, id, text)

\* #updateItem, text.replace: a started message waits for its completion to change.
ReplacesText(p, id, text) ==
    LET i == ItemOf(p, id)
        q == [p EXCEPT !.items[Position(p, id)].text = text]
    IN  CASE p.completed \/ ~IsActive(p, id) -> Throws(p)
          [] i.type # "agentMessage" -> Throws(p)
          [] ~i.wire /\ text # <<>> -> ItemDelta(StartWireItem(q, id, <<>>), id, text)
          [] OTHER -> q

\* #updateItem, subagents.replace: the Item is started once more.
ReplacesSubagents(p, id) ==
    CASE p.completed \/ ~IsActive(p, id) -> Throws(p)
      [] ItemOf(p, id).type # "subagent" -> Throws(p)
      [] OTHER -> ItemStarted(p, id, <<>>)

\* #completeItem
CompleteItem(p, item, outcome) ==
    LET i == ItemOf(p, item.id)
        q == [p EXCEPT !.items[Position(p, item.id)] =
                  [item EXCEPT !.done = outcome, !.wire = i.wire]]
        card == FileChangeUpdates(q)
        editing == \E k \in Range(q.items) : k.done = "no" /\ ChangesFiles(k)
    IN  CASE p.completed -> Throws(p)
          [] \E a \in p.open : a.type = "question" /\ a.item = item.id -> Throws(p)
          [] ~IsActive(p, item.id) -> Throws(p)
          [] i.type # item.type -> Throws(p)
          [] i.type \in Texts /\ i.text # item.text -> Throws(p)
          [] ChangesFiles(item) -> IF editing THEN card ELSE CardCompleted(card)
          [] ~i.wire /\ ~ChangesFiles(item) -> q
          [] OTHER -> ItemCompleted(q, item.id, item.text, {})

\* projectApproval
OpensApproval(p, ask) ==
    IF p.completed \/ ~p.started \/ \E a \in p.open : a.ask = ask THEN Throws(p)
    ELSE [p EXCEPT !.open = @ \cup {[ask |-> ask, type |-> "approval", item |-> NoItem]}]

\* projectQuestion: a question of no Item gets one of its own.
OpensQuestion(p, ask, id) ==
    IF p.completed \/ ~p.started \/ \E a \in p.open : a.ask = ask THEN Throws(p)
    ELSE [StartItem(p, NewItem(id, "tool")) EXCEPT
             !.open = @ \cup {[ask |-> ask, type |-> "question", item |-> id]}]

\* #closeInteraction
ClosesInteraction(p, ask, reason) ==
    LET a == CHOOSE x \in p.open : x.ask = ask
        q == [p EXCEPT !.open = @ \ {a}]
    IN  IF p.completed \/ ~\E x \in p.open : x.ask = ask THEN Throws(p)
        ELSE IF a.type = "approval" THEN q
        ELSE CompleteItem(q, ItemOf(q, a.item),
                          IF reason = "responded" THEN "succeeded" ELSE "cancelled")

\* #completeTurn
ProjectCompletedTurn(p) ==
    LET q == [p EXCEPT !.completed = TRUE]
    IN  IF \/ p.completed \/ ~p.started \/ p.open # {}
           \/ \E i \in Range(p.items) : i.done = "no"
        THEN Throws(p)
        ELSE IF p.card = NoItem THEN q ELSE CardCompleted(q)

-----------------------------------------------------------------------------
(* Reading a Turn again                                                      *)

\* historyTurn: what a reopened Turn shows.
HistoryTurn(p) ==
    [n \in DOMAIN p.order |->
        LET i == ItemOf(p, p.order[n])
        IN  IF i.id = p.card
            THEN [id |-> i.id, type |-> i.type, view |-> View(~p.completed, <<>>, Summary(p))]
            ELSE [id |-> i.id, type |-> i.type, view |-> View(i.done = "no", i.text, {})]]

\* projectHistoricalTurn, of Items read from the transcript.
HistoricalTurn(items) ==
    LET p == [NewProjector EXCEPT !.items = items]
        first == {n \in DOMAIN items : ChangesFiles(items[n])
                                       /\ \A k \in 1 .. n - 1 : ~ChangesFiles(items[k])}
        kept == SelectSeq(items, LAMBDA i :
                    IF ChangesFiles(i) THEN \E n \in first : items[n].id = i.id
                    ELSE i.type \notin {"todo", "edit"})
    IN  [n \in DOMAIN kept |->
            [id |-> kept[n].id, type |-> kept[n].type,
             view |-> IF ChangesFiles(kept[n]) THEN View(FALSE, <<>>, Summary(p))
                      ELSE View(FALSE, kept[n].text, {})]]
=============================================================================
