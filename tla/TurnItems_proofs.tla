---------------------------- MODULE TurnItems_proofs ----------------------------
(***************************************************************************)
(* The Items of a Turn: the projector accepts every event the adapter sends *)
(* it, and Desktop every message of the projector, for any number of calls, *)
(* questions, messages, Segments and events.                                 *)
(*                                                                          *)
(* The adapter keeps its own record of what it has opened: a text, the      *)
(* thoughts, the calls and agents, a compaction, the questions.  The        *)
(* projector throws on an event that names an Item it does not have, or one *)
(* already done, or one it has already.  So the invariant relates the two:  *)
(* what the adapter holds open is what the projector has live, and the ids  *)
(* the adapter has still to give are ids the projector has not met.         *)
(***************************************************************************)
EXTENDS TurnItems, SequenceTheorems, FiniteSetTheorems, TLAPS

Chunks == {"a", "b"}
ItemIds == ({"agentMessage", "reasoning", "compaction"} \X Nat)
               \cup ({"call", "file"} \X ToolCalls) \cup ({"ask"} \X Questions)
FileEdits == [call : ToolCalls, by : {"arguments", "result"}]
ItemRecords == [id : ItemIds, type : ItemTypes, text : Seq(Chunks), edits : SUBSET FileEdits,
                sources : SUBSET ItemIds, done : Outcomes \cup {"no"}, wire : BOOLEAN]
Views == [running : BOOLEAN, text : Seq(Chunks), edits : SUBSET FileEdits]
FileTypes == {"edit", "fileChange"}

(* The projector's state is of its type. *)
ProjectorTyped(p) ==
    /\ {"started", "completed", "threw", "misused", "items", "open", "card", "order", "shown"}
           \subseteq DOMAIN p
    /\ p.items \in Seq(ItemRecords)
    /\ p.shown \in [DOMAIN p.shown -> Views]

(* No two Items have one id. *)
IdsDiffer(p) == \A n, k \in DOMAIN p.items : p.items[n].id = p.items[k].id => n = k

(* What the projector has sent of an Item Desktop shows, and a text that still grows as running; of
   the Items that change files it sends one card. *)
WireGood(p) ==
    /\ \A n \in DOMAIN p.items : p.items[n].wire =>
          /\ p.items[n].id \in DOMAIN p.shown
          /\ p.items[n].type \in Texts /\ p.items[n].done = "no" => p.shown[p.items[n].id].running
          /\ p.items[n].type \in FileTypes => p.card # NoItem
    /\ p.card # NoItem =>
          /\ p.card \in DOMAIN p.shown
          /\ \E n \in DOMAIN p.items : p.items[n].id = p.card /\ p.items[n].type \in FileTypes

Accepts(p) == p.started /\ ~p.threw /\ ~p.misused
Sound(p) == ProjectorTyped(p) /\ IdsDiffer(p) /\ WireGood(p)

(* What the adapter must know of the projector: the ids it has met, and the Items not yet done. *)
Names(p) == {p.items[n].id : n \in DOMAIN p.items}
Entry(i) == [id |-> i.id, type |-> i.type, text |-> i.text]
LiveItems(p) == {Entry(p.items[n]) : n \in {k \in DOMAIN p.items : p.items[k].done = "no"}}

(* The Items the adapter holds open. *)
TextLive(s) == IF s.speaking THEN {Entry(s.item)} ELSE {}
ThoughtsLive(s) == {Entry(s.thinking[m]) : m \in DOMAIN s.thinking}
ToolsLive(s) == {Entry(s.tools[c]) : c \in DOMAIN s.tools}
AgentsLive(s) == {Entry(s.agents[c]) : c \in DOMAIN s.agents}
CompactionLive(s) == IF s.compacting THEN {Entry(CompactionItem(s))} ELSE {}
Asked(p) == {a.ask : a \in {b \in p.open : b.type = "question"}}
AsksLive(p) == {Entry(NewItem(<<"ask", q>>, "tool")) : q \in Asked(p)}
HeldOpen(s) == TextLive(s) \cup ThoughtsLive(s) \cup ToolsLive(s) \cup AgentsLive(s)
                   \cup CompactionLive(s) \cup AsksLive(s.p)

(* The adapter's records of them. *)
TurnFields == {"p", "speaking", "item", "assistant", "texts", "thinking", "thoughts", "tools",
               "agents", "compacting", "compactions", "asks", "cancelled", "held", "working",
               "outcome"}
TurnTyped(s) ==
    /\ TurnFields \subseteq DOMAIN s
    /\ s.speaking \in BOOLEAN /\ s.compacting \in BOOLEAN
    /\ s.texts \in Nat /\ s.thoughts \in Nat /\ s.compactions \in Nat
    /\ s.speaking => s.item \in ItemRecords
    /\ s.thinking \in [DOMAIN s.thinking -> ItemRecords] /\ IsFiniteSet(DOMAIN s.thinking)
    /\ s.tools \in [DOMAIN s.tools -> ItemRecords] /\ DOMAIN s.tools \subseteq ToolCalls
    /\ s.agents \in [DOMAIN s.agents -> ItemRecords] /\ DOMAIN s.agents \subseteq ToolCalls
    /\ s.asks \subseteq Questions

RecordsGood(s) ==
    /\ s.speaking => s.item.id = <<"agentMessage", s.texts>> /\ s.item.type = "agentMessage"
    /\ s.assistant # NoMessage => s.speaking
    /\ \A m \in DOMAIN s.thinking :
          /\ s.thinking[m].type = "reasoning"
          /\ \E k \in 1 .. s.thoughts : s.thinking[m].id = <<"reasoning", k>>
    /\ \A m, o \in DOMAIN s.thinking : s.thinking[m].id = s.thinking[o].id => m = o
    /\ \A c \in DOMAIN s.tools : /\ s.tools[c].id = <<"call", c>> /\ s.tools[c].text = <<>>
                                 /\ s.tools[c].type \in {"tool", "todo", "edit"}
    /\ \A c \in DOMAIN s.agents : /\ s.agents[c].id = <<"call", c>> /\ s.agents[c].text = <<>>
                                  /\ s.agents[c].type = "subagent"
    /\ DOMAIN s.tools \cap DOMAIN s.agents = {}
    /\ s.compacting => s.compactions > 0

(* The questions and permissions that are open, in the adapter and in the projector. *)
AsksGood(s) ==
    /\ s.p.open \subseteq [ask : Questions, type : {"approval", "question"},
                           item : ItemIds \cup {NoItem}]
    /\ s.asks = {a.ask : a \in s.p.open}
    /\ \A a, b \in s.p.open : a.ask = b.ask => a = b
    /\ \A a \in s.p.open : a.type = "question" => a.item = <<"ask", a.ask>>

(* The numbers that are taken. *)
Numbered(s) ==
    \A id \in Names(s.p) :
        /\ id[1] = "agentMessage" => id[2] <= s.texts
        /\ id[1] = "reasoning" => id[2] <= s.thoughts
        /\ id[1] = "compaction" => id[2] <= s.compactions

TurnOK(s) ==
    /\ TurnTyped(s) /\ Sound(s.p) /\ Accepts(s.p) /\ RecordsGood(s) /\ AsksGood(s) /\ Numbered(s)
    /\ LiveItems(s.p) = HeldOpen(s)

(* The calls and questions whose names are taken: a name is not used before its call comes up. *)
NamesGood(s, talk) ==
    \A id \in Names(s.p) :
        /\ id[1] = "call" => id[2] \in talk.called
        /\ id[1] = "file" => id[2] \in talk.called \ DOMAIN talk.tools
        /\ id[1] = "ask" => id[2] \in talk.asked

(* What the accumulator takes to be open is open in the adapter. *)
TalkTyped(talk) ==
    /\ {"segment", "segments", "api", "uuid", "root", "done", "reasoning", "text", "spoke",
        "compaction", "tools", "called", "asked", "applied", "events"} \subseteq DOMAIN talk
    /\ talk.api \in Nat /\ talk.uuid \in Nat
    /\ talk.root = NoMessage \/ talk.root \in {"api", "uuid"} \X Nat
    /\ talk.text \in Seq(Chunks)
    /\ DOMAIN talk.tools \subseteq talk.called /\ talk.called \subseteq ToolCalls
    /\ talk.tools \in [DOMAIN talk.tools -> BOOLEAN]
    /\ talk.compaction \in {"idle", "active", "settled"} /\ talk.segment \in BOOLEAN

Agree(s, talk) ==
    /\ (s.p.completed <=> s.outcome # "none") /\ s.asks \subseteq talk.asked
    /\ s.outcome = "none" =>
          /\ DOMAIN talk.tools = DOMAIN s.tools \cup DOMAIN s.agents
          /\ \A c \in DOMAIN talk.tools : talk.tools[c] <=> c \in DOMAIN s.agents
          /\ s.compacting <=> talk.segment /\ talk.compaction = "active"

ItemsGood(s, talk) == TurnOK(s) /\ NamesGood(s, talk) /\ TalkTyped(talk) /\ Agree(s, talk)

ItemsInv == ItemsGood(turn, speech)


-----------------------------------------------------------------------------
(* Least numbers, and the positions of Items.                                *)

LEMMA MinimalSubset ==
    ASSUME NEW S, IsFiniteSet(S), NEW T \in SUBSET SUBSET S, T # {}
    PROVE  \E x \in T : \A y \in T : y \subseteq x => y = x
<1>1. IsWellFoundedOn(StrictSubsetOrdering(S), SUBSET S)
    BY FS_StrictSubsetOrderingWellFounded, FS_FiniteSubsetsOfFinite
<1>2. PICK x \in T : \A y \in T : ~ (<<y, x>> \in StrictSubsetOrdering(S))
    BY <1>1, WFMin
<1>3. ASSUME NEW y \in T, y \subseteq x PROVE y = x
    <2>1. <<y, x>> \in (SUBSET S) \X (SUBSET S) OBVIOUS
    <2> QED BY <1>2, <1>3, <2>1 DEF StrictSubsetOrdering
<1> QED BY <1>3

LEMMA LeastNumber ==
    ASSUME NEW T \in SUBSET Nat, T # {}
    PROVE  \E n \in T : \A m \in T : n <= m
<1>1. PICK b \in T : TRUE
    OBVIOUS
<1> DEFINE Below == {0 .. n : n \in {m \in T : m <= b}}
<1>2. IsFiniteSet(0 .. b)
    BY FS_Interval
<1>3. Below \in SUBSET SUBSET (0 .. b) /\ Below # {}
    OBVIOUS
<1>4. PICK x \in Below : \A y \in Below : y \subseteq x => y = x
    <2> DEFINE I == 0 .. b
    <2>1. IsFiniteSet(I) /\ Below \in SUBSET SUBSET I /\ Below # {}
        BY <1>2, <1>3
    <2> HIDE DEF Below, I
    <2> QED BY <2>1, MinimalSubset
<1>5. PICK n \in T : n <= b /\ x = 0 .. n
    BY <1>4
<1>6. ASSUME NEW m \in T, ~ (n <= m) PROVE FALSE
    <2>1. 0 .. m \in Below /\ 0 .. m \subseteq 0 .. n
        BY <1>5, <1>6
    <2>2. 0 .. m = 0 .. n
        BY <1>4, <1>5, <2>1
    <2>3. n \in 0 .. n /\ n \notin 0 .. m
        BY <1>5, <1>6
    <2> QED BY <2>2, <2>3
<1> QED BY <1>6

LEMMA NoItemIsNone == NoItem \notin ItemIds
BY ItemAssumption DEF ItemIds

LEMMA PositionIs ==
    ASSUME NEW p, IdsDiffer(p), NEW n \in DOMAIN p.items
    PROVE  /\ Position(p, p.items[n].id) = n /\ Known(p, p.items[n].id)
           /\ ItemOf(p, p.items[n].id) = p.items[n]
<1>1. \A k \in DOMAIN p.items : p.items[k].id = p.items[n].id => k = n
    BY DEF IdsDiffer
<1>2. Position(p, p.items[n].id) = n
    BY <1>1 DEF Position
<1> QED BY <1>2 DEF Known, ItemOf

LEMMA EntryFields ==
    ASSUME NEW i
    PROVE  Entry(i).id = i.id /\ Entry(i).type = i.type /\ Entry(i).text = i.text
BY DEF Entry

LEMMA EntryIs ==
    ASSUME NEW i, NEW j
    PROVE  Entry(i) = Entry(j) <=> i.id = j.id /\ i.type = j.type /\ i.text = j.text
BY DEF Entry

LEMMA LiveAt ==
    ASSUME NEW p, NEW e \in LiveItems(p)
    PROVE  \E n \in DOMAIN p.items : p.items[n].done = "no" /\ e = Entry(p.items[n])
BY DEF LiveItems

LEMMA OneLive ==
    ASSUME NEW p, IdsDiffer(p), NEW e \in LiveItems(p), NEW g \in LiveItems(p), e.id = g.id
    PROVE  e = g
<1>1. PICK n \in DOMAIN p.items : p.items[n].done = "no" /\ e = Entry(p.items[n])
    BY LiveAt
<1>2. PICK k \in DOMAIN p.items : p.items[k].done = "no" /\ g = Entry(p.items[k])
    BY LiveAt
<1> QED BY <1>1, <1>2, EntryFields DEF IdsDiffer

(* One Item is replaced by another of its id. *)
LEMMA ItemReplaced ==
    ASSUME NEW p, NEW q, ProjectorTyped(p), IdsDiffer(p), NEW n \in DOMAIN p.items,
           NEW r \in ItemRecords, r.id = p.items[n].id, q.items = [p.items EXCEPT ![n] = r]
    PROVE  /\ q.items \in Seq(ItemRecords) /\ DOMAIN q.items = DOMAIN p.items
           /\ IdsDiffer(q) /\ Names(q) = Names(p)
           /\ r.done = p.items[n].done /\ Entry(r) = Entry(p.items[n])
                 => LiveItems(q) = LiveItems(p)
           /\ p.items[n].done = "no" /\ r.done = "no"
                 => LiveItems(q) = (LiveItems(p) \ {Entry(p.items[n])}) \cup {Entry(r)}
           /\ p.items[n].done = "no" /\ r.done # "no"
                 => LiveItems(q) = LiveItems(p) \ {Entry(p.items[n])}
<1>1. p.items \in Seq(ItemRecords)
    BY DEF ProjectorTyped
<1>2. /\ q.items \in Seq(ItemRecords) /\ DOMAIN q.items = DOMAIN p.items
      /\ q.items[n] = r /\ \A k \in DOMAIN p.items : k # n => q.items[k] = p.items[k]
    BY <1>1
<1>3. \A k \in DOMAIN p.items : q.items[k].id = p.items[k].id
    BY <1>2
<1>4. IdsDiffer(q) /\ Names(q) = Names(p)
    BY <1>2, <1>3 DEF IdsDiffer, Names
<1>5. \A k \in DOMAIN p.items : p.items[k].id = p.items[n].id => k = n
    BY DEF IdsDiffer
<1>6. \A k \in DOMAIN p.items : Entry(p.items[k]) = Entry(p.items[n]) => k = n
    BY <1>5, EntryFields
<1>7. CASE r.done = p.items[n].done /\ Entry(r) = Entry(p.items[n])
    BY <1>2, <1>4, <1>7 DEF LiveItems
<1>8. CASE p.items[n].done = "no" /\ r.done = "no"
    BY <1>2, <1>4, <1>6, <1>8 DEF LiveItems
<1>9. CASE p.items[n].done = "no" /\ r.done # "no"
    BY <1>2, <1>4, <1>6, <1>9 DEF LiveItems
<1> QED BY <1>2, <1>4, <1>7, <1>8, <1>9

LEMMA SummaryTyped ==
    ASSUME NEW p, ProjectorTyped(p)
    PROVE  Summary(p) \in SUBSET FileEdits
<1>1. ASSUME NEW i \in Range(p.items) PROVE i.edits \in SUBSET FileEdits
    <2>1. PICK n \in DOMAIN p.items : i = p.items[n]
        BY DEF Range
    <2>2. p.items[n] \in ItemRecords
        BY DEF ProjectorTyped
    <2> QED BY <2>1, <2>2 DEF ItemRecords
<1> QED BY <1>1 DEF Summary

(* The rest of the projector's state, which only some events change. *)
Same(q, p) == q.open = p.open /\ q.completed = p.completed /\ q.started = p.started
                /\ q.threw = p.threw /\ q.misused = p.misused

-----------------------------------------------------------------------------
(* The messages.                                                             *)

LEMMA Displayed ==
    ASSUME NEW p, ProjectorTyped(p), NEW id, NEW view \in Views,
           NEW q, q = Displays(p, id, view)
    PROVE  /\ ProjectorTyped(q) /\ Same(q, p) /\ q.items = p.items /\ q.card = p.card
           /\ DOMAIN q.shown = DOMAIN p.shown \cup {id} /\ q.shown[id] = view
           /\ \A x \in DOMAIN p.shown : x # id => q.shown[x] = p.shown[x]
<1>1. PICK shown : shown = [x \in DOMAIN p.shown \cup {id} |-> IF x = id THEN view
                                                              ELSE p.shown[x]]
    OBVIOUS
<1>2. q = [p EXCEPT !.shown = shown]
    BY <1>1 DEF Displays
<1>3. q.shown = shown /\ q.items = p.items /\ q.card = p.card /\ Same(q, p) /\ DOMAIN q = DOMAIN p
    BY <1>2 DEF ProjectorTyped, Same
<1>4. /\ DOMAIN shown = DOMAIN p.shown \cup {id} /\ shown[id] = view
      /\ \A x \in DOMAIN p.shown : x # id => shown[x] = p.shown[x]
    BY <1>1
<1>5. shown \in [DOMAIN shown -> Views]
    BY <1>1, <1>4 DEF ProjectorTyped
<1> QED BY <1>3, <1>4, <1>5 DEF ProjectorTyped

OnWire(i) == [i EXCEPT !.wire = TRUE]

LEMMA WireStarted ==
    ASSUME NEW p, ProjectorTyped(p), IdsDiffer(p), NEW n \in DOMAIN p.items,
           ~p.items[n].wire, NEW text \in Seq(Chunks),
           NEW q, q = StartWireItem(p, p.items[n].id, text)
    PROVE  /\ ProjectorTyped(q) /\ Same(q, p) /\ q.card = p.card
           /\ q.items = [p.items EXCEPT ![n] = OnWire(p.items[n])]
           /\ DOMAIN q.shown = DOMAIN p.shown \cup {p.items[n].id}
           /\ q.shown[p.items[n].id].running
           /\ \A x \in DOMAIN p.shown : x # p.items[n].id => q.shown[x] = p.shown[x]
<1>1. PICK id : id = p.items[n].id
    OBVIOUS
<1>2. Position(p, id) = n /\ ItemOf(p, id) = p.items[n]
    BY <1>1, PositionIs
<1>3. PICK r : r = [p.items[n] EXCEPT !.wire = TRUE]
    OBVIOUS
<1>4. PICK order : order = Append(p.order, id)
    OBVIOUS
<1>5. PICK w : w = [p EXCEPT !.items = [p.items EXCEPT ![n] = r], !.order = order]
    OBVIOUS
<1>6. q = Displays(w, id, View(TRUE, text, {}))
    BY <1>1, <1>2, <1>3, <1>4, <1>5 DEF StartWireItem, ItemStarted
<1>7. r \in ItemRecords /\ p.items \in Seq(ItemRecords)
    <2>1. p.items[n] \in ItemRecords /\ p.items \in Seq(ItemRecords)
        BY DEF ProjectorTyped
    <2> QED BY <1>3, <2>1 DEF ItemRecords
<1>8. /\ w.items = [p.items EXCEPT ![n] = r] /\ w.shown = p.shown /\ w.card = p.card
      /\ Same(w, p) /\ DOMAIN w = DOMAIN p
    BY <1>5 DEF ProjectorTyped, Same
<1>9. ProjectorTyped(w)
    BY <1>7, <1>8 DEF ProjectorTyped
<1>10. PICK view : view = View(TRUE, text, {})
    OBVIOUS
<1>11. view \in Views /\ view.running
    BY <1>10 DEF Views, View
<1>12. /\ ProjectorTyped(q) /\ Same(q, w) /\ q.items = w.items /\ q.card = w.card
       /\ DOMAIN q.shown = DOMAIN w.shown \cup {id} /\ q.shown[id] = view
       /\ \A x \in DOMAIN w.shown : x # id => q.shown[x] = w.shown[x]
    <2>1. q = Displays(w, id, view)
        BY <1>6, <1>10
    <2> HIDE DEF ProjectorTyped, Same
    <2> QED BY <1>9, <1>11, <2>1, Displayed
<1>13. q.items = [p.items EXCEPT ![n] = OnWire(p.items[n])]
    BY <1>3, <1>8, <1>12 DEF OnWire
<1>14. Same(q, p) /\ q.card = p.card
    BY <1>8, <1>12 DEF Same
<1> QED BY <1>1, <1>8, <1>11, <1>12, <1>13, <1>14

(* What the messages and the events preserve. *)
Alike(q, p) == Same(q, p) /\ Names(q) = Names(p) /\ LiveItems(q) = LiveItems(p)

LEMMA AlikeThen ==
    ASSUME NEW p, NEW q, NEW r, Alike(q, p), Alike(r, q) PROVE Alike(r, p)
BY DEF Alike, Same

LEMMA AlikeItems ==
    ASSUME NEW p, NEW q, Same(q, p), q.items = p.items
    PROVE  Alike(q, p) /\ (IdsDiffer(p) => IdsDiffer(q))
BY DEF Alike, Names, LiveItems, IdsDiffer

LEMMA DisplayedGood ==
    ASSUME NEW p, Sound(p), NEW id, NEW view \in Views, NEW q, q = Displays(p, id, view),
           \/ view.running
           \/ \A n \in DOMAIN p.items : p.items[n].id = id =>
                 ~ (p.items[n].type \in Texts /\ p.items[n].done = "no")
    PROVE  Sound(q) /\ Alike(q, p) /\ q.items = p.items /\ q.card = p.card
<1>1. /\ ProjectorTyped(q) /\ Same(q, p) /\ q.items = p.items /\ q.card = p.card
      /\ DOMAIN q.shown = DOMAIN p.shown \cup {id} /\ q.shown[id] = view
      /\ \A x \in DOMAIN p.shown : x # id => q.shown[x] = p.shown[x]
    <2> HIDE DEF ProjectorTyped, Same, Views
    <2> QED BY Displayed DEF Sound
<1>2. Alike(q, p) /\ IdsDiffer(q)
    BY <1>1, AlikeItems DEF Sound
<1>3. WireGood(q)
    BY <1>1 DEF Sound, WireGood
<1> QED BY <1>1, <1>2, <1>3 DEF Sound

(* One Item changes, but not on the wire. *)
LEMMA WireKept ==
    ASSUME NEW p, NEW q, ProjectorTyped(p), IdsDiffer(p), WireGood(p), NEW n \in DOMAIN p.items,
           NEW r \in ItemRecords, r.id = p.items[n].id, r.type = p.items[n].type,
           r.wire = p.items[n].wire, r.done = "no" => p.items[n].done = "no",
           q.items = [p.items EXCEPT ![n] = r], q.shown = p.shown, q.card = p.card
    PROVE  WireGood(q)
<1>1. p.items \in Seq(ItemRecords)
    BY DEF ProjectorTyped
<1>2. /\ DOMAIN q.items = DOMAIN p.items
      /\ q.items[n] = r /\ \A k \in DOMAIN p.items : k # n => q.items[k] = p.items[k]
    BY <1>1
<1>3. \A k \in DOMAIN p.items : q.items[k].id = p.items[k].id /\ q.items[k].type = p.items[k].type
                                   /\ q.items[k].wire = p.items[k].wire
                                   /\ (q.items[k].done = "no" => p.items[k].done = "no")
    BY <1>2
<1> QED BY <1>2, <1>3 DEF WireGood

LEMMA StartsOnWire ==
    ASSUME NEW p, Sound(p), NEW n \in DOMAIN p.items, ~p.items[n].wire,
           NEW text \in Seq(Chunks), NEW o, ProjectorTyped(o), o.items = p.items,
           o.shown = p.shown, Same(o, p),
           \/ o.card = p.card /\ p.items[n].type \notin FileTypes
           \/ o.card = p.items[n].id /\ p.items[n].type \in FileTypes /\ p.card = NoItem,
           NEW q, q = StartWireItem(o, p.items[n].id, text)
    PROVE  /\ Sound(q) /\ Alike(q, p) /\ q.card = o.card
           /\ DOMAIN q.items = DOMAIN p.items /\ q.items[n].id = p.items[n].id
           /\ q.items[n].type = p.items[n].type /\ q.items[n].wire
           /\ p.items[n].id \in DOMAIN q.shown /\ q.shown[p.items[n].id].running
<1>1. IdsDiffer(o)
    BY DEF Sound, IdsDiffer
<1>2. /\ ProjectorTyped(q) /\ Same(q, o) /\ q.card = o.card
      /\ q.items = [o.items EXCEPT ![n] = OnWire(o.items[n])]
      /\ DOMAIN q.shown = DOMAIN o.shown \cup {o.items[n].id}
      /\ q.shown[o.items[n].id].running
      /\ \A x \in DOMAIN o.shown : x # o.items[n].id => q.shown[x] = o.shown[x]
    <2>1. /\ n \in DOMAIN o.items /\ ~o.items[n].wire
          /\ q = StartWireItem(o, o.items[n].id, text)
        OBVIOUS
    <2> QED BY <1>1, <2>1, WireStarted
<1>3. PICK r : r = [p.items[n] EXCEPT !.wire = TRUE]
    OBVIOUS
<1>4. p.items \in Seq(ItemRecords) /\ p.items[n] \in ItemRecords
    BY DEF Sound, ProjectorTyped
<1>5. /\ r \in ItemRecords /\ r.id = p.items[n].id /\ r.type = p.items[n].type /\ r.wire = TRUE
      /\ r.done = p.items[n].done /\ r.text = p.items[n].text
    BY <1>3, <1>4 DEF ItemRecords
<1>6. q.items = [p.items EXCEPT ![n] = r]
    BY <1>2, <1>3 DEF OnWire
<1>7. Entry(r) = Entry(p.items[n])
    BY <1>5, EntryIs
<1>8. /\ DOMAIN q.items = DOMAIN p.items /\ IdsDiffer(q) /\ Names(q) = Names(p)
      /\ LiveItems(q) = LiveItems(p)
    <2> HIDE DEF ProjectorTyped, IdsDiffer, Names, LiveItems, Entry
    <2> QED BY <1>5, <1>6, <1>7, ItemReplaced DEF Sound
<1>9. Same(q, p)
    BY <1>2 DEF Same
<1>10. q.items[n] = r /\ \A k \in DOMAIN p.items : k # n => q.items[k] = p.items[k]
    BY <1>4, <1>6
<1>12. WireGood(q)
    <2>1. \A k \in DOMAIN p.items : q.items[k].id = p.items[k].id
                                        /\ q.items[k].type = p.items[k].type
                                        /\ q.items[k].done = p.items[k].done
        BY <1>5, <1>10
    <2>2. ASSUME NEW k \in DOMAIN q.items, q.items[k].wire
          PROVE  /\ q.items[k].id \in DOMAIN q.shown
                 /\ q.items[k].type \in Texts /\ q.items[k].done = "no"
                       => q.shown[q.items[k].id].running
                 /\ q.items[k].type \in FileTypes => q.card # NoItem
        <3>1. CASE k = n
            <4>1. p.items[n].id # NoItem
                BY <1>4, NoItemIsNone DEF ItemRecords
            <4>2. p.items[n].type \in FileTypes => q.card # NoItem
                BY <1>2, <4>1
            <4> QED BY <1>2, <1>5, <1>10, <3>1, <4>2
        <3>2. CASE k # n
            <4>1. k \in DOMAIN p.items /\ p.items[k].wire /\ q.items[k] = p.items[k]
                BY <1>8, <1>10, <2>2, <3>2
            <4>2. /\ p.items[k].id \in DOMAIN p.shown
                  /\ p.items[k].type \in Texts /\ p.items[k].done = "no"
                       => p.shown[p.items[k].id].running
                  /\ p.items[k].type \in FileTypes => p.card # NoItem
                BY <4>1 DEF Sound, WireGood
            <4>3. p.items[k].id # p.items[n].id
                BY <3>2, <4>1 DEF Sound, IdsDiffer
            <4>4. q.shown[p.items[k].id] = p.shown[p.items[k].id]
                BY <1>2, <4>2, <4>3
            <4>5. p.items[k].type \in FileTypes => q.card # NoItem
                BY <1>2, <4>2
            <4> QED BY <1>2, <4>1, <4>2, <4>4, <4>5
        <3> QED BY <3>1, <3>2
    <2>3. CASE o.card = p.card
        <3>1. q.card # NoItem => /\ q.card \in DOMAIN p.shown
                  /\ \E k \in DOMAIN p.items : p.items[k].id = q.card /\ p.items[k].type \in FileTypes
            BY <1>2, <2>3 DEF Sound, WireGood
        <3>2. q.card # NoItem => /\ q.card \in DOMAIN q.shown
                  /\ \E k \in DOMAIN q.items : q.items[k].id = q.card /\ q.items[k].type \in FileTypes
            BY <1>2, <1>8, <2>1, <3>1
        <3> QED BY <2>2, <3>2 DEF WireGood
    <2>4. CASE o.card = p.items[n].id /\ p.items[n].type \in FileTypes
        <3>1. /\ q.card \in DOMAIN q.shown
              /\ \E k \in DOMAIN q.items : q.items[k].id = q.card /\ q.items[k].type \in FileTypes
            BY <1>2, <1>8, <2>1, <2>4
        <3> QED BY <2>2, <3>1 DEF WireGood
    <2> QED BY <2>3, <2>4
<1> QED BY <1>2, <1>5, <1>8, <1>9, <1>10, <1>12 DEF Sound, Alike

LEMMA DeltaOK ==
    ASSUME NEW p, Sound(p), NEW id \in DOMAIN p.shown, p.shown[id].running,
           NEW text \in Seq(Chunks), NEW q, q = ItemDelta(p, id, text)
    PROVE  Sound(q) /\ Alike(q, p) /\ q.items = p.items /\ q.card = p.card
<1>1. PICK view : view = [p.shown[id] EXCEPT !.text = p.shown[id].text \o text]
    OBVIOUS
<1>2. p.shown[id] \in Views
    BY DEF Sound, ProjectorTyped
<1>3. view \in Views /\ view.running = p.shown[id].running
    <2>1. PICK grown \in Seq(Chunks) : grown = p.shown[id].text \o text
        <3>1. p.shown[id].text \in Seq(Chunks)
            BY <1>2 DEF Views
        <3>2. p.shown[id].text \o text \in Seq(Chunks)
            BY <3>1, ConcatProperties
        <3> QED BY <3>2
    <2>2. view = [p.shown[id] EXCEPT !.text = grown]
        BY <1>1, <2>1
    <2> QED BY <1>2, <2>2 DEF Views
<1>4. PICK shown : shown = [p.shown EXCEPT ![id] = view]
    OBVIOUS
<1>5. q = [p EXCEPT !.shown = shown]
    BY <1>1, <1>4 DEF ItemDelta
<1>6. q.shown = shown /\ q.items = p.items /\ q.card = p.card /\ Same(q, p) /\ DOMAIN q = DOMAIN p
    BY <1>5 DEF Sound, ProjectorTyped, Same
<1>7. /\ DOMAIN shown = DOMAIN p.shown /\ shown[id].running = p.shown[id].running
      /\ \A x \in DOMAIN p.shown : shown[x].running = p.shown[x].running
      /\ shown \in [DOMAIN shown -> Views]
    BY <1>3, <1>4 DEF Sound, ProjectorTyped
<1>8. ProjectorTyped(q)
    BY <1>6, <1>7 DEF Sound, ProjectorTyped
<1>9. Alike(q, p) /\ IdsDiffer(q)
    BY <1>6, AlikeItems DEF Sound
<1>10. \A x \in DOMAIN p.shown : p.shown[x].running => shown[x].running
    BY <1>7
<1>11. WireGood(q)
    BY <1>6, <1>7, <1>10 DEF Sound, WireGood
<1> QED BY <1>6, <1>8, <1>9, <1>11 DEF Sound

LEMMA PatchOK ==
    ASSUME NEW p, Sound(p), p.card # NoItem, NEW q, q = PatchUpdated(p, p.card)
    PROVE  Sound(q) /\ Alike(q, p) /\ q.items = p.items /\ q.card = p.card
<1>1. p.card \in DOMAIN p.shown
    BY DEF Sound, WireGood
<1>2. PICK edits \in SUBSET FileEdits : edits = Summary(p)
    BY SummaryTyped DEF Sound
<1>3. PICK view : view = [p.shown[p.card] EXCEPT !.edits = edits]
    OBVIOUS
<1>4. p.shown[p.card] \in Views
    BY <1>1 DEF Sound, ProjectorTyped
<1>5. view \in Views /\ view.running = p.shown[p.card].running
    BY <1>3, <1>4 DEF Views
<1>6. PICK shown : shown = [p.shown EXCEPT ![p.card] = view]
    OBVIOUS
<1>7. q = [p EXCEPT !.shown = shown]
    BY <1>1, <1>2, <1>3, <1>6 DEF PatchUpdated
<1>8. q.shown = shown /\ q.items = p.items /\ q.card = p.card /\ Same(q, p) /\ DOMAIN q = DOMAIN p
    BY <1>7 DEF Sound, ProjectorTyped, Same
<1>9. /\ DOMAIN shown = DOMAIN p.shown
      /\ \A x \in DOMAIN p.shown : shown[x].running = p.shown[x].running
      /\ shown \in [DOMAIN shown -> Views]
    BY <1>5, <1>6 DEF Sound, ProjectorTyped
<1>10. ProjectorTyped(q)
    BY <1>8, <1>9 DEF Sound, ProjectorTyped
<1>11. Alike(q, p) /\ IdsDiffer(q)
    BY <1>8, AlikeItems DEF Sound
<1>12. \A x \in DOMAIN p.shown : p.shown[x].running => shown[x].running
    BY <1>9
<1>13. WireGood(q)
    BY <1>8, <1>9, <1>12 DEF Sound, WireGood
<1> QED BY <1>8, <1>10, <1>11, <1>13 DEF Sound

(* The first Item that changes a file is there, and is not on the wire before the card is. *)
LEMMA FirstChange ==
    ASSUME NEW p, Sound(p), \E n \in DOMAIN p.items : ChangesFiles(p.items[n]),
           NEW f, f = CHOOSE n \in DOMAIN p.items :
                         /\ ChangesFiles(p.items[n])
                         /\ \A k \in 1 .. n - 1 : ~ChangesFiles(p.items[k])
    PROVE  /\ f \in DOMAIN p.items /\ p.items[f].type \in FileTypes
           /\ p.card = NoItem => ~p.items[f].wire
<1>1. PICK T : T = {n \in DOMAIN p.items : ChangesFiles(p.items[n])}
    OBVIOUS
<1>2. p.items \in Seq(ItemRecords)
    BY DEF Sound, ProjectorTyped
<1>3. T \in SUBSET Nat /\ T # {} /\ T \subseteq 1 .. Len(p.items)
    BY <1>1, <1>2
<1>4. PICK n \in T : \A m \in T : n <= m
    BY <1>3, LeastNumber
<1>5. ASSUME NEW k \in 1 .. n - 1 PROVE ~ChangesFiles(p.items[k])
    <2>1. k \in DOMAIN p.items /\ ~ (n <= k)
        BY <1>2, <1>3
    <2> QED BY <1>1, <1>4, <2>1
<1>6. f \in DOMAIN p.items /\ ChangesFiles(p.items[f])
    BY <1>1, <1>4, <1>5
<1>7. p.items[f].type \in FileTypes
    BY <1>6 DEF ChangesFiles, FileTypes
<1> QED BY <1>6, <1>7 DEF Sound, WireGood

LEMMA CardShown ==
    ASSUME NEW p, Sound(p), \E n \in DOMAIN p.items : ChangesFiles(p.items[n]),
           NEW q, q = FileChangeUpdates(p)
    PROVE  Sound(q) /\ Alike(q, p) /\ q.card # NoItem
<1>1. PICK f : f = CHOOSE n \in DOMAIN p.items :
                         /\ ChangesFiles(p.items[n])
                         /\ \A k \in 1 .. n - 1 : ~ChangesFiles(p.items[k])
    OBVIOUS
<1>2. /\ f \in DOMAIN p.items /\ p.items[f].type \in FileTypes
      /\ p.card = NoItem => ~p.items[f].wire
    BY <1>1, FirstChange
<1>3. PICK w : w = IF p.card = NoItem THEN StartWireItem([p EXCEPT !.card = p.items[f].id],
                                                        p.items[f].id, <<>>)
                   ELSE p
    OBVIOUS
<1>4. q = PatchUpdated(w, w.card)
    BY <1>1, <1>3, SMTT(30) DEF FileChangeUpdates
<1>5. Sound(w) /\ Alike(w, p) /\ w.card # NoItem
    <2>1. CASE p.card # NoItem
        <3>1. w = p
            BY <1>3, <2>1
        <3> QED BY <2>1, <3>1 DEF Alike, Same
    <2>2. CASE p.card = NoItem
        <3>1. PICK o : o = [p EXCEPT !.card = p.items[f].id]
            OBVIOUS
        <3>2. /\ o.card = p.items[f].id /\ o.items = p.items /\ o.shown = p.shown
              /\ Same(o, p) /\ DOMAIN o = DOMAIN p
            BY <3>1 DEF Sound, ProjectorTyped, Same
        <3>3. ProjectorTyped(o)
            BY <3>2 DEF Sound, ProjectorTyped
        <3>4. w = StartWireItem(o, p.items[f].id, <<>>)
            BY <1>3, <2>2, <3>1
        <3>5. PICK text : text \in Seq(Chunks) /\ text = <<>>
            <4>1. <<>> \in Seq(Chunks)
                OBVIOUS
            <4> QED BY <4>1
        <3>6. Sound(w) /\ Alike(w, p) /\ w.card = o.card
            <4>1. w = StartWireItem(o, p.items[f].id, text) /\ text \in Seq(Chunks)
                BY <3>4, <3>5
            <4>2. f \in DOMAIN p.items /\ ~p.items[f].wire
                BY <1>2, <2>2
            <4>3. o.card = p.items[f].id /\ p.items[f].type \in FileTypes /\ p.card = NoItem
                BY <1>2, <2>2, <3>2
            <4>4. o.items = p.items /\ o.shown = p.shown /\ Same(o, p)
                BY <3>2
            <4> QED BY <3>3, <4>1, <4>2, <4>3, <4>4, StartsOnWire
        <3>7. p.items[f].id # NoItem
            <4>1. p.items[f] \in ItemRecords
                BY <1>2 DEF Sound, ProjectorTyped
            <4> QED BY <4>1, NoItemIsNone DEF ItemRecords
        <3> QED BY <3>2, <3>6, <3>7
    <2> QED BY <2>1, <2>2
<1>6. Sound(q) /\ Alike(q, w) /\ q.card = w.card
    BY <1>4, <1>5, PatchOK
<1> QED BY <1>5, <1>6, AlikeThen

LEMMA CardDone ==
    ASSUME NEW p, Sound(p), p.card # NoItem, NEW q, q = CardCompleted(p)
    PROVE  Sound(q) /\ Alike(q, p)
<1>1. /\ p.card \in DOMAIN p.shown
      /\ \E n \in DOMAIN p.items : p.items[n].id = p.card /\ p.items[n].type \in FileTypes
    BY DEF Sound, WireGood
<1>2. PICK edits \in SUBSET FileEdits : edits = Summary(p)
    BY SummaryTyped DEF Sound
<1>3. PICK view : view = View(FALSE, <<>>, edits)
    OBVIOUS
<1>4. view \in Views
    BY <1>3 DEF View, Views
<1>5. q = Displays(p, p.card, view)
    BY <1>1, <1>2, <1>3 DEF CardCompleted, ItemCompleted
<1>6. \A n \in DOMAIN p.items : p.items[n].id = p.card => p.items[n].type \notin Texts
    BY <1>1 DEF Sound, IdsDiffer, FileTypes, Texts
<1> QED BY <1>4, <1>5, <1>6, DisplayedGood

-----------------------------------------------------------------------------
(* The events.                                                               *)

Adds(p, item) == [p EXCEPT !.items = Append(@, item)]

LEMMA ItemAdded ==
    ASSUME NEW p, Sound(p), NEW item \in ItemRecords, item.id \notin Names(p), item.done = "no",
           ~item.wire, NEW q, q = Adds(p, item)
    PROVE  /\ Sound(q) /\ Same(q, p) /\ q.card = p.card /\ q.shown = p.shown
           /\ Names(q) = Names(p) \cup {item.id}
           /\ LiveItems(q) = LiveItems(p) \cup {Entry(item)}
           /\ \E n \in DOMAIN q.items : q.items[n] = item
<1>1. p.items \in Seq(ItemRecords)
    BY DEF Sound, ProjectorTyped
<1>2. PICK n : n = Len(p.items) + 1
    OBVIOUS
<1>3. /\ q.items = Append(p.items, item) /\ q.card = p.card /\ q.shown = p.shown /\ Same(q, p)
      /\ DOMAIN q = DOMAIN p
    BY DEF Adds, Sound, ProjectorTyped, Same
<1>4. /\ q.items \in Seq(ItemRecords) /\ DOMAIN q.items = DOMAIN p.items \cup {n}
      /\ n \notin DOMAIN p.items /\ q.items[n] = item
      /\ \A k \in DOMAIN p.items : q.items[k] = p.items[k]
    BY <1>1, <1>2, <1>3
<1>5. ProjectorTyped(q)
    BY <1>3, <1>4 DEF Sound, ProjectorTyped
<1>6. \A k \in DOMAIN p.items : p.items[k].id # item.id
    BY DEF Names
<1>7. IdsDiffer(q)
    BY <1>4, <1>6 DEF Sound, IdsDiffer
<1>8. Names(q) = Names(p) \cup {item.id}
    BY <1>4 DEF Names
<1>9. LiveItems(q) = LiveItems(p) \cup {Entry(item)}
    BY <1>4 DEF LiveItems
<1>10. WireGood(q)
    <2>1. ASSUME NEW k \in DOMAIN q.items, q.items[k].wire
          PROVE  k \in DOMAIN p.items /\ q.items[k] = p.items[k]
        BY <1>4, <2>1
    <2>2. p.card # NoItem => /\ p.card \in DOMAIN p.shown
              /\ \E k \in DOMAIN q.items : q.items[k].id = p.card /\ q.items[k].type \in FileTypes
        BY <1>4 DEF Sound, WireGood
    <2> QED BY <1>3, <2>1, <2>2 DEF Sound, WireGood
<1> QED BY <1>3, <1>4, <1>5, <1>7, <1>8, <1>9, <1>10 DEF Sound

LEMMA StartItemOK ==
    ASSUME NEW p, Sound(p), p.started, ~p.completed, NEW item \in ItemRecords,
           item.id \notin Names(p), item.done = "no", ~item.wire, item.text = <<>>,
           NEW q, q = StartItem(p, item)
    PROVE  /\ Sound(q) /\ Same(q, p) /\ Names(q) = Names(p) \cup {item.id}
           /\ LiveItems(q) = LiveItems(p) \cup {Entry(item)}
<1>1. PICK o : o = Adds(p, item)
    OBVIOUS
<1>2. /\ Sound(o) /\ Same(o, p) /\ o.card = p.card /\ o.shown = p.shown
      /\ Names(o) = Names(p) \cup {item.id}
      /\ LiveItems(o) = LiveItems(p) \cup {Entry(item)}
      /\ \E n \in DOMAIN o.items : o.items[n] = item
    BY <1>1, ItemAdded
<1>3. ~Known(p, item.id)
    BY DEF Known, Names
<1>4. Sound(q) /\ Alike(q, o)
    <2>1. PICK n \in DOMAIN o.items : o.items[n] = item
        BY <1>2
    <2>2. CASE item.type \in Texts \/ item.type = "todo" \/ (item.type = "edit" /\ item.edits = {})
        <3>1. q = o
            BY <1>1, <1>3, <2>2 DEF Adds, StartItem, Texts, ChangesFiles
        <3> QED BY <1>2, <3>1 DEF Alike, Same
    <2>3. CASE ChangesFiles(item)
        <3>1. q = FileChangeUpdates(o)
            BY <1>1, <1>3, <2>3 DEF Adds, StartItem, Texts, ChangesFiles
        <3>2. \E k \in DOMAIN o.items : ChangesFiles(o.items[k])
            BY <2>1, <2>3
        <3> QED BY <1>2, <3>1, <3>2, CardShown
    <2>4. CASE item.type \notin Texts /\ item.type \notin {"todo", "edit", "fileChange"}
        <3>1. q = StartWireItem(o, o.items[n].id, <<>>)
            BY <1>1, <1>3, <2>1, <2>4 DEF Adds, StartItem, Texts, ChangesFiles
        <3>2. o.items[n].type \notin FileTypes /\ ~o.items[n].wire
            BY <2>1, <2>4 DEF FileTypes
        <3>3. PICK text : text \in Seq(Chunks) /\ text = <<>>
            <4>1. <<>> \in Seq(Chunks)
                OBVIOUS
            <4> QED BY <4>1
        <3>4. q = StartWireItem(o, o.items[n].id, text) /\ text \in Seq(Chunks)
            BY <3>1, <3>3
        <3>5. Same(o, o) /\ ProjectorTyped(o)
            BY <1>2 DEF Same, Sound
        <3> QED BY <1>2, <3>2, <3>4, <3>5, StartsOnWire
    <2> QED BY <2>2, <2>3, <2>4 DEF ChangesFiles
<1> QED BY <1>2, <1>4 DEF Alike, Same

Changed(p, n, r) == [p EXCEPT !.items = [p.items EXCEPT ![n] = r]]

LEMMA ItemChanged ==
    ASSUME NEW p, Sound(p), NEW n \in DOMAIN p.items, NEW r \in ItemRecords,
           r.id = p.items[n].id, r.type = p.items[n].type, r.wire = p.items[n].wire,
           r.done = "no" => p.items[n].done = "no", NEW q, q = Changed(p, n, r)
    PROVE  /\ Sound(q) /\ Same(q, p) /\ q.card = p.card /\ q.shown = p.shown
           /\ Names(q) = Names(p) /\ DOMAIN q.items = DOMAIN p.items /\ q.items[n] = r
           /\ p.items[n].done = "no" /\ r.done = "no"
                 => LiveItems(q) = (LiveItems(p) \ {Entry(p.items[n])}) \cup {Entry(r)}
           /\ p.items[n].done = "no" /\ r.done # "no"
                 => LiveItems(q) = LiveItems(p) \ {Entry(p.items[n])}
<1>1. /\ q.items = [p.items EXCEPT ![n] = r] /\ q.card = p.card /\ q.shown = p.shown /\ Same(q, p)
      /\ DOMAIN q = DOMAIN p
    BY DEF Changed, Sound, ProjectorTyped, Same
<1>2. q.items[n] = r
    BY <1>1
<1>3. /\ q.items \in Seq(ItemRecords) /\ DOMAIN q.items = DOMAIN p.items
      /\ IdsDiffer(q) /\ Names(q) = Names(p)
      /\ p.items[n].done = "no" /\ r.done = "no"
            => LiveItems(q) = (LiveItems(p) \ {Entry(p.items[n])}) \cup {Entry(r)}
      /\ p.items[n].done = "no" /\ r.done # "no"
            => LiveItems(q) = LiveItems(p) \ {Entry(p.items[n])}
    <2>1. ProjectorTyped(p) /\ IdsDiffer(p) /\ q.items = [p.items EXCEPT ![n] = r]
        BY <1>1 DEF Sound
    <2>2. p.items \in Seq(ItemRecords)
        BY <2>1 DEF ProjectorTyped
    <2>3. q.items \in Seq(ItemRecords) /\ DOMAIN q.items = DOMAIN p.items
        BY <2>1, <2>2
    <2>4. IdsDiffer(q) /\ Names(q) = Names(p)
        BY <2>1, ItemReplaced, SMTT(40)
    <2>5. p.items[n].done = "no" /\ r.done = "no"
            => LiveItems(q) = (LiveItems(p) \ {Entry(p.items[n])}) \cup {Entry(r)}
        BY <2>1, ItemReplaced, SMTT(40)
    <2>6. p.items[n].done = "no" /\ r.done # "no"
            => LiveItems(q) = LiveItems(p) \ {Entry(p.items[n])}
        BY <2>1, ItemReplaced, SMTT(40)
    <2> QED BY <2>3, <2>4, <2>5, <2>6
<1>4. ProjectorTyped(q)
    BY <1>1, <1>3 DEF Sound, ProjectorTyped
<1>5. WireGood(q)
    BY <1>1, WireKept DEF Sound
<1> QED BY <1>1, <1>2, <1>3, <1>4, <1>5 DEF Sound

(* Where the Item is that the adapter holds open. *)
LEMMA ItemAt ==
    ASSUME NEW p, Sound(p), NEW item, Entry(item) \in LiveItems(p)
    PROVE  \E n \in DOMAIN p.items :
              /\ p.items[n] \in ItemRecords /\ Entry(p.items[n]) = Entry(item)
              /\ p.items[n].id = item.id /\ p.items[n].type = item.type
              /\ p.items[n].text = item.text /\ p.items[n].done = "no"
              /\ Position(p, item.id) = n /\ ItemOf(p, item.id) = p.items[n]
              /\ IsActive(p, item.id)
<1>1. PICK n \in DOMAIN p.items : p.items[n].done = "no" /\ Entry(item) = Entry(p.items[n])
    BY LiveAt
<1>2. p.items[n].id = item.id /\ p.items[n].type = item.type /\ p.items[n].text = item.text
    BY <1>1, EntryIs
<1>3. /\ Position(p, item.id) = n /\ ItemOf(p, item.id) = p.items[n] /\ Known(p, item.id)
    BY <1>2, PositionIs DEF Sound
<1>4. p.items[n] \in ItemRecords
    BY DEF Sound, ProjectorTyped
<1> QED BY <1>1, <1>2, <1>3, <1>4 DEF IsActive

(* A text that is put on the wire, if it was not, and grows there. *)
LEMMA TextSent ==
    ASSUME NEW p, Sound(p), NEW n \in DOMAIN p.items, p.items[n].type \in Texts,
           p.items[n].done = "no", NEW first \in Seq(Chunks), NEW delta \in Seq(Chunks), NEW o,
           o = IF p.items[n].wire THEN p ELSE StartWireItem(p, p.items[n].id, first),
           NEW q, q = ItemDelta(o, p.items[n].id, delta)
    PROVE  Sound(q) /\ Alike(q, p)
<1>1. PICK id : id = p.items[n].id
    OBVIOUS
<1>2. Same(p, p) /\ ProjectorTyped(p)
    BY DEF Same, Sound
<1>3. Sound(o) /\ Alike(o, p) /\ id \in DOMAIN o.shown /\ o.shown[id].running
    <2>1. CASE p.items[n].wire
        BY <1>1, <1>2, <2>1 DEF Sound, WireGood, Alike
    <2>2. CASE ~p.items[n].wire
        <3>1. o = StartWireItem(p, p.items[n].id, first)
            BY <2>2
        <3>2. p.items[n].type \notin FileTypes
            BY DEF FileTypes, Texts
        <3> QED BY <1>1, <1>2, <2>2, <3>1, <3>2, StartsOnWire
    <2> QED BY <2>1, <2>2
<1>4. q = ItemDelta(o, id, delta)
    BY <1>1
<1>5. Sound(q) /\ Alike(q, o)
    BY <1>3, <1>4, DeltaOK
<1> QED BY <1>3, <1>5, AlikeThen

LEMMA AppendsTextOK ==
    ASSUME NEW p, Sound(p), ~p.completed, NEW item \in ItemRecords, Entry(item) \in LiveItems(p),
           item.type \in Texts, NEW delta \in Seq(Chunks), NEW new \in ItemRecords,
           new.id = item.id, new.type = item.type, new.text = item.text \o delta,
           NEW q, q = AppendsText(p, item.id, delta)
    PROVE  /\ Sound(q) /\ Same(q, p) /\ Names(q) = Names(p)
           /\ LiveItems(q) = (LiveItems(p) \ {Entry(item)}) \cup {Entry(new)}
<1>1. PICK n \in DOMAIN p.items :
              /\ p.items[n] \in ItemRecords /\ Entry(p.items[n]) = Entry(item)
              /\ p.items[n].id = item.id /\ p.items[n].type = item.type
              /\ p.items[n].text = item.text /\ p.items[n].done = "no"
              /\ Position(p, item.id) = n /\ ItemOf(p, item.id) = p.items[n]
              /\ IsActive(p, item.id)
    BY ItemAt
<1>2. PICK r : r = [p.items[n] EXCEPT !.text = @ \o delta]
    OBVIOUS
<1>3. /\ r \in ItemRecords /\ r.id = item.id /\ r.type = item.type /\ r.wire = p.items[n].wire
      /\ r.done = "no" /\ r.text = new.text
    <2>1. PICK text \in Seq(Chunks) : text = p.items[n].text \o delta
        BY <1>1 DEF ItemRecords
    <2>2. r = [p.items[n] EXCEPT !.text = text]
        BY <1>2, <2>1
    <2> QED BY <1>1, <2>1, <2>2 DEF ItemRecords
<1>4. Entry(r) = Entry(new)
    BY <1>3, EntryIs
<1>5. PICK o : o = Changed(p, n, r)
    OBVIOUS
<1>6. /\ Sound(o) /\ Same(o, p) /\ Names(o) = Names(p)
      /\ DOMAIN o.items = DOMAIN p.items /\ o.items[n] = r
      /\ LiveItems(o) = (LiveItems(p) \ {Entry(item)}) \cup {Entry(new)}
    BY <1>1, <1>3, <1>4, <1>5, ItemChanged
<1>7. PICK first : first = IF p.items[n].type = "reasoning" THEN <<>> ELSE p.items[n].text
    OBVIOUS
<1>8. first \in Seq(Chunks)
    <2>1. <<>> \in Seq(Chunks)
        OBVIOUS
    <2> QED BY <1>1, <1>7, <2>1 DEF ItemRecords
<1>9. CASE delta = <<>>
    <2>1. q = o
        BY <1>1, <1>2, <1>5, <1>9 DEF AppendsText, Changed
    <2> QED BY <1>6, <2>1
<1>10. CASE delta # <<>>
    <2>1. PICK u : u = IF o.items[n].wire THEN o ELSE StartWireItem(o, o.items[n].id, first)
        OBVIOUS
    <2>2. q = ItemDelta(u, o.items[n].id, delta)
        BY <1>1, <1>2, <1>3, <1>5, <1>6, <1>7, <1>10, <2>1 DEF AppendsText, Changed
    <2>3. o.items[n].type \in Texts /\ o.items[n].done = "no" /\ n \in DOMAIN o.items
        BY <1>3, <1>6
    <2>4. Sound(q) /\ Alike(q, o)
        BY <1>6, <1>8, <2>1, <2>2, <2>3, TextSent
    <2> QED BY <1>6, <2>4 DEF Alike, Same
<1> QED BY <1>9, <1>10

LEMMA ReplacesTextOK ==
    ASSUME NEW p, Sound(p), ~p.completed, NEW item \in ItemRecords, Entry(item) \in LiveItems(p),
           item.type = "agentMessage", NEW new \in ItemRecords,
           new.id = item.id, new.type = item.type,
           NEW q, q = ReplacesText(p, item.id, new.text)
    PROVE  /\ Sound(q) /\ Same(q, p) /\ Names(q) = Names(p)
           /\ LiveItems(q) = (LiveItems(p) \ {Entry(item)}) \cup {Entry(new)}
<1>1. PICK n \in DOMAIN p.items :
              /\ p.items[n] \in ItemRecords /\ Entry(p.items[n]) = Entry(item)
              /\ p.items[n].id = item.id /\ p.items[n].type = item.type
              /\ p.items[n].text = item.text /\ p.items[n].done = "no"
              /\ Position(p, item.id) = n /\ ItemOf(p, item.id) = p.items[n]
              /\ IsActive(p, item.id)
    BY ItemAt
<1>2. PICK text \in Seq(Chunks) : text = new.text
    BY DEF ItemRecords
<1>3. PICK r : r = [p.items[n] EXCEPT !.text = text]
    OBVIOUS
<1>4. /\ r \in ItemRecords /\ r.id = item.id /\ r.type = item.type /\ r.wire = p.items[n].wire
      /\ r.done = "no" /\ r.text = new.text
    BY <1>1, <1>2, <1>3 DEF ItemRecords
<1>5. Entry(r) = Entry(new)
    BY <1>4, EntryIs
<1>6. PICK o : o = Changed(p, n, r)
    OBVIOUS
<1>7. /\ Sound(o) /\ Same(o, p) /\ Names(o) = Names(p)
      /\ DOMAIN o.items = DOMAIN p.items /\ o.items[n] = r
      /\ LiveItems(o) = (LiveItems(p) \ {Entry(item)}) \cup {Entry(new)}
    BY <1>1, <1>4, <1>5, <1>6, ItemChanged
<1>8. CASE p.items[n].wire \/ text = <<>>
    <2>1. q = o
        BY <1>1, <1>2, <1>3, <1>6, <1>8 DEF ReplacesText, Changed
    <2> QED BY <1>7, <2>1
<1>9. CASE ~p.items[n].wire /\ text # <<>>
    <2>1. PICK first : first \in Seq(Chunks) /\ first = <<>>
        <3>1. <<>> \in Seq(Chunks)
            OBVIOUS
        <3> QED BY <3>1
    <2>2. PICK u : u = IF o.items[n].wire THEN o ELSE StartWireItem(o, o.items[n].id, first)
        OBVIOUS
    <2>3. u = StartWireItem(o, item.id, <<>>)
        BY <1>4, <1>7, <1>9, <2>1, <2>2
    <2>4. q = ItemDelta(u, item.id, text)
        BY <1>1, <1>2, <1>3, <1>6, <1>9, <2>3 DEF ReplacesText, Changed
    <2>5. q = ItemDelta(u, o.items[n].id, text)
        BY <1>4, <1>7, <2>4
    <2>6. o.items[n].type \in Texts /\ o.items[n].done = "no" /\ n \in DOMAIN o.items
        BY <1>4, <1>7 DEF Texts
    <2>7. Sound(q) /\ Alike(q, o)
        BY <1>2, <1>7, <2>1, <2>2, <2>5, <2>6, TextSent
    <2> QED BY <1>7, <2>7 DEF Alike, Same
<1> QED BY <1>8, <1>9

LEMMA ReplacesSubagentsOK ==
    ASSUME NEW p, Sound(p), ~p.completed, NEW item \in ItemRecords, Entry(item) \in LiveItems(p),
           item.type = "subagent", NEW q, q = ReplacesSubagents(p, item.id)
    PROVE  Sound(q) /\ Alike(q, p)
<1>1. PICK n \in DOMAIN p.items :
              /\ p.items[n] \in ItemRecords /\ Entry(p.items[n]) = Entry(item)
              /\ p.items[n].id = item.id /\ p.items[n].type = item.type
              /\ p.items[n].text = item.text /\ p.items[n].done = "no"
              /\ Position(p, item.id) = n /\ ItemOf(p, item.id) = p.items[n]
              /\ IsActive(p, item.id)
    BY ItemAt
<1>2. PICK view : view = View(TRUE, <<>>, {})
    OBVIOUS
<1>3. view \in Views /\ view.running
    BY <1>2 DEF View, Views
<1>4. q = Displays(p, item.id, view)
    BY <1>1, <1>2 DEF ReplacesSubagents, ItemStarted
<1>5. PICK id : id = item.id
    OBVIOUS
<1>6. q = Displays(p, id, view)
    BY <1>4, <1>5
<1> QED BY <1>3, <1>6, DisplayedGood

LEMMA CompleteItemOK ==
    ASSUME NEW p, Sound(p), ~p.completed, NEW item \in ItemRecords, Entry(item) \in LiveItems(p),
           \A a \in p.open : ~ (a.type = "question" /\ a.item = item.id),
           NEW outcome \in Outcomes, NEW q, q = CompleteItem(p, item, outcome)
    PROVE  /\ Sound(q) /\ Same(q, p) /\ Names(q) = Names(p)
           /\ LiveItems(q) = LiveItems(p) \ {Entry(item)}
<1>1. PICK n \in DOMAIN p.items :
              /\ p.items[n] \in ItemRecords /\ Entry(p.items[n]) = Entry(item)
              /\ p.items[n].id = item.id /\ p.items[n].type = item.type
              /\ p.items[n].text = item.text /\ p.items[n].done = "no"
              /\ Position(p, item.id) = n /\ ItemOf(p, item.id) = p.items[n]
              /\ IsActive(p, item.id)
    BY ItemAt
<1>2. PICK r : r = [item EXCEPT !.done = outcome, !.wire = p.items[n].wire]
    OBVIOUS
<1>3. /\ r \in ItemRecords /\ r.id = item.id /\ r.type = item.type /\ r.wire = p.items[n].wire
      /\ r.done = outcome /\ r.edits = item.edits
    BY <1>1, <1>2 DEF ItemRecords
<1>4. r.done # "no"
    BY <1>3 DEF Outcomes
<1>5. PICK o : o = Changed(p, n, r)
    OBVIOUS
<1>6. /\ Sound(o) /\ Same(o, p) /\ Names(o) = Names(p) /\ o.shown = p.shown
      /\ DOMAIN o.items = DOMAIN p.items /\ o.items[n] = r
      /\ LiveItems(o) = LiveItems(p) \ {Entry(item)}
    BY <1>1, <1>3, <1>4, <1>5, ItemChanged
<1>7. Sound(q) /\ Alike(q, o)
    <2>1. CASE ChangesFiles(item)
        <3>1. PICK c : c = FileChangeUpdates(o)
            OBVIOUS
        <3>2. ChangesFiles(o.items[n])
            BY <1>3, <1>6, <2>1 DEF ChangesFiles
        <3>3. Sound(c) /\ Alike(c, o) /\ c.card # NoItem
            BY <1>6, <3>1, <3>2, CardShown
        <3>4. q = c \/ q = CardCompleted(c)
            BY <1>1, <1>2, <1>5, <2>1, <3>1 DEF CompleteItem, Changed
        <3>5. CASE q = c
            BY <3>3, <3>5
        <3>6. CASE q = CardCompleted(c)
            <4>1. Sound(q) /\ Alike(q, c)
                BY <3>3, <3>6, CardDone
            <4> QED BY <3>3, <4>1, AlikeThen
        <3> QED BY <3>4, <3>5, <3>6
    <2>2. CASE ~ChangesFiles(item) /\ ~p.items[n].wire
        <3>1. q = o
            BY <1>1, <1>2, <1>5, <2>2 DEF CompleteItem, Changed
        <3> QED BY <1>6, <3>1 DEF Alike, Same
    <2>3. CASE ~ChangesFiles(item) /\ p.items[n].wire
        <3>1. q = ItemCompleted(o, item.id, item.text, {})
            BY <1>1, <1>2, <1>5, <2>3 DEF CompleteItem, Changed
        <3>2. PICK view : view = View(FALSE, item.text, {})
            OBVIOUS
        <3>3. view \in Views
            BY <3>2 DEF View, Views, ItemRecords
        <3>4. PICK id : id = item.id
            OBVIOUS
        <3>5. id \in DOMAIN o.shown
            BY <1>1, <1>6, <2>3, <3>4 DEF Sound, WireGood
        <3>6. q = Displays(o, id, view)
            BY <3>1, <3>2, <3>4, <3>5 DEF ItemCompleted
        <3>7. \A k \in DOMAIN o.items : o.items[k].id = id => o.items[k].done # "no"
            BY <1>3, <1>4, <1>6, <3>4 DEF Sound, IdsDiffer
        <3> QED BY <1>6, <3>3, <3>6, <3>7, DisplayedGood
    <2> QED BY <2>1, <2>2, <2>3
<1> QED BY <1>6, <1>7 DEF Alike, Same

-----------------------------------------------------------------------------
(* The folds of the adapter: what one round does. *)
FoldStep(k, s, x, c, v) ==
    CASE k = "thinking" -> CompleteReasoning(v, c, x)
      [] k = "items" -> CompleteItem(v, s[c], x)
      [] k = "asks" -> CloseInteraction(v, c, x)
Some(E) == CHOOSE c \in E : TRUE

Rounds(k, s, x, base, D, h) ==
    h = [E \in SUBSET D |->
            IF E = {} THEN base ELSE FoldStep(k, s, x, Some(E), h[E \ {Some(E)}])]

LEMMA FoldExists ==
    ASSUME NEW k, NEW s, NEW x, NEW base, NEW D, IsFiniteSet(D)
    PROVE  \E h : Rounds(k, s, x, base, D, h)
<1> DEFINE Level(n) == {E \in SUBSET D : Cardinality(E) <= n}
           Good(h, n) == h = [E \in Level(n) |->
                          IF E = {} THEN base ELSE FoldStep(k, s, x, Some(E), h[E \ {Some(E)}])]
           Bad == {n \in Nat : ~\E h : Good(h, n)}
<1>1. \A E \in SUBSET D : IsFiniteSet(E) /\ Cardinality(E) \in Nat /\ Cardinality(E) <= Cardinality(D)
    BY FS_Subset, FS_CardinalityType
<1>2. ASSUME NEW E \in SUBSET D, E # {}
      PROVE  Some(E) \in E /\ E \ {Some(E)} \in SUBSET D /\ Cardinality(E \ {Some(E)}) = Cardinality(E) - 1
    <2>1. Some(E) \in E
        BY <1>2 DEF Some
    <2>2. PICK c : c = Some(E)
        OBVIOUS
    <2>3. Cardinality(E \ {c}) = Cardinality(E) - 1
        BY <1>1, <2>1, <2>2, FS_RemoveElement
    <2> QED BY <2>1, <2>2, <2>3
<1>3. ASSUME Bad # {} PROVE FALSE
    <2>1. Bad \in SUBSET Nat
        OBVIOUS
    <2>2. PICK n \in Bad : \A m \in Bad : n <= m
        <3> HIDE DEF Bad
        <3> QED BY <1>3, <2>1, LeastNumber
    <2>3. n # 0
        <3>1. PICK h : h = [E \in Level(0) |-> base]
            OBVIOUS
        <3>2. \A E \in Level(0) : E = {}
            BY <1>1, FS_EmptySet
        <3>3. Good(h, 0)
            BY <3>1, <3>2
        <3>4. 0 \notin Bad
            <4> HIDE DEF Good
            <4> QED BY <3>3
        <3> HIDE DEF Bad
        <3> QED BY <3>4, <2>2
    <2>4. n \in Nat /\ n - 1 \in Nat /\ n - 1 \notin Bad
        <3> HIDE DEF Bad
        <3> QED BY <2>1, <2>2, <2>3
    <2>5. PICK h : Good(h, n - 1)
        BY <2>4
    <2>6. PICK g : g = [E \in Level(n) |->
                          IF E = {} THEN base ELSE FoldStep(k, s, x, Some(E), h[E \ {Some(E)}])]
        OBVIOUS
    <2>7. \A E \in Level(n - 1) : E \in Level(n) /\ h[E] = g[E]
        <3>1. \A E \in Level(n - 1) : E \in Level(n)
            BY <1>1, <2>4
        <3>2. \A E \in Level(n - 1) : h[E] = IF E = {} THEN base
                                  ELSE FoldStep(k, s, x, Some(E), h[E \ {Some(E)}])
            <4> HIDE DEF Level
            <4> QED BY <2>5
        <3>3. \A E \in Level(n) : g[E] = IF E = {} THEN base
                                  ELSE FoldStep(k, s, x, Some(E), h[E \ {Some(E)}])
            <4> HIDE DEF Level
            <4> QED BY <2>6
        <3> QED BY <3>1, <3>2, <3>3
    <2>8. ASSUME NEW E \in Level(n), E # {} PROVE h[E \ {Some(E)}] = g[E \ {Some(E)}]
        <3>1. E \ {Some(E)} \in Level(n - 1)
            BY <1>1, <1>2, <2>4, <2>8
        <3> QED BY <2>7, <3>1
    <2>9. Good(g, n)
        BY <2>6, <2>8
    <2> QED BY <2>2, <2>9
<1>4. Cardinality(D) \in Nat /\ Cardinality(D) \notin Bad
    BY <1>1, <1>3
<1>5. PICK h : Good(h, Cardinality(D))
    BY <1>4
<1>6. Level(Cardinality(D)) = SUBSET D
    BY <1>1
<1> QED BY <1>5, <1>6 DEF Rounds

(* What holds of the empty set and, if it holds without one element, of a set, holds. *)
LEMMA SetInduction ==
    ASSUME NEW D, IsFiniteSet(D), NEW T \in SUBSET SUBSET D, {} \in T,
           \A E \in SUBSET D : E # {} /\ E \ {Some(E)} \in T => E \in T
    PROVE  D \in T
<1>1. PICK U : U = (SUBSET D) \ T
    OBVIOUS
<1>2. SUFFICES ASSUME D \notin T PROVE FALSE
    OBVIOUS
<1>3. U \in SUBSET SUBSET D /\ U # {}
    BY <1>1, <1>2
<1>4. PICK E \in U : \A F \in U : F \subseteq E => F = E
    BY <1>3, MinimalSubset
<1>5. E \in SUBSET D /\ E # {}
    BY <1>1, <1>4
<1>6. Some(E) \in E
    BY <1>5 DEF Some
<1>7. PICK c : c = Some(E)
    OBVIOUS
<1>8. E \ {c} \in SUBSET D /\ E \ {c} # E /\ E \ {c} \subseteq E
    BY <1>5, <1>6, <1>7
<1>9. E \ {c} \in T
    BY <1>1, <1>4, <1>8
<1> QED BY <1>1, <1>4, <1>5, <1>7, <1>9

LEMMA RoundsAre ==
    ASSUME NEW k, NEW s, NEW x, NEW base, NEW D, NEW h, Rounds(k, s, x, base, D, h)
    PROVE  /\ h[{}] = base
           /\ \A E \in SUBSET D : E # {} => h[E] = FoldStep(k, s, x, Some(E), h[E \ {Some(E)}])
BY DEF Rounds

LEMMA ItemsRounds ==
    ASSUME NEW s, NEW x, NEW base, IsFiniteSet(DOMAIN s), NEW r,
           r = CompleteEach(base, s, x)
    PROVE  \E h : Rounds("items", s, x, base, DOMAIN s, h) /\ r = h[DOMAIN s]
<1>1. PICK g : /\ g = CHOOSE h : h = [E \in SUBSET (DOMAIN s) |->
                               IF E = {} THEN base
                               ELSE CompleteItem(h[E \ {CHOOSE c \in E : TRUE}],
                                                 s[CHOOSE c \in E : TRUE], x)]
               /\ r = g[DOMAIN s]
    BY Zenon DEF CompleteEach, FoldSet, MapThenFoldSet
<1>2. \A h : h = [E \in SUBSET (DOMAIN s) |->
                     IF E = {} THEN base
                     ELSE CompleteItem(h[E \ {CHOOSE c \in E : TRUE}],
                                       s[CHOOSE c \in E : TRUE], x)]
             <=> Rounds("items", s, x, base, DOMAIN s, h)
    BY DEF Rounds, FoldStep, Some
<1>3. \E h : Rounds("items", s, x, base, DOMAIN s, h)
    BY FoldExists
<1>4. \E h : h = [E \in SUBSET (DOMAIN s) |->
                     IF E = {} THEN base
                     ELSE CompleteItem(h[E \ {CHOOSE c \in E : TRUE}],
                                       s[CHOOSE c \in E : TRUE], x)]
    <2>1. PICK f : Rounds("items", s, x, base, DOMAIN s, f)
        BY <1>3
    <2>2. f = [E \in SUBSET (DOMAIN s) |->
                     IF E = {} THEN base
                     ELSE CompleteItem(f[E \ {CHOOSE c \in E : TRUE}],
                                       s[CHOOSE c \in E : TRUE], x)]
        BY <2>1 DEF Rounds, FoldStep, Some
    <2> QED BY <2>2, Zenon
<1>5. g = [E \in SUBSET (DOMAIN s) |->
                     IF E = {} THEN base
                     ELSE CompleteItem(g[E \ {CHOOSE c \in E : TRUE}],
                                       s[CHOOSE c \in E : TRUE], x)]
    BY <1>1, <1>4, Zenon
<1>6. Rounds("items", s, x, base, DOMAIN s, g)
    BY <1>2, <1>5, Zenon
<1> QED BY <1>1, <1>6

LEMMA ThinkingRounds ==
    ASSUME NEW s, NEW x, IsFiniteSet(DOMAIN s.thinking), NEW r,
           r = CompleteAllReasoning(s, x)
    PROVE  \E h : Rounds("thinking", s, x, s, DOMAIN s.thinking, h) /\ r = h[DOMAIN s.thinking]
<1>1. PICK g : /\ g = CHOOSE h : h = [E \in SUBSET (DOMAIN s.thinking) |->
                               IF E = {} THEN s
                               ELSE CompleteReasoning(h[E \ {CHOOSE c \in E : TRUE}],
                                            CHOOSE c \in E : TRUE, x)]
               /\ r = g[DOMAIN s.thinking]
    BY Zenon DEF CompleteAllReasoning, FoldSet, MapThenFoldSet
<1>2. \A h : h = [E \in SUBSET (DOMAIN s.thinking) |->
                     IF E = {} THEN s
                     ELSE CompleteReasoning(h[E \ {CHOOSE c \in E : TRUE}],
                                            CHOOSE c \in E : TRUE, x)]
             <=> Rounds("thinking", s, x, s, DOMAIN s.thinking, h)
    BY DEF Rounds, FoldStep, Some
<1>3. \E h : Rounds("thinking", s, x, s, DOMAIN s.thinking, h)
    BY FoldExists
<1>4. \E h : h = [E \in SUBSET (DOMAIN s.thinking) |->
                     IF E = {} THEN s
                     ELSE CompleteReasoning(h[E \ {CHOOSE c \in E : TRUE}],
                                            CHOOSE c \in E : TRUE, x)]
    <2>1. PICK f : Rounds("thinking", s, x, s, DOMAIN s.thinking, f)
        BY <1>3
    <2>2. f = [E \in SUBSET (DOMAIN s.thinking) |->
                     IF E = {} THEN s
                     ELSE CompleteReasoning(f[E \ {CHOOSE c \in E : TRUE}],
                                            CHOOSE c \in E : TRUE, x)]
        BY <1>2, <2>1, Zenon
    <2> QED BY <2>2, Zenon
<1>5. g = [E \in SUBSET (DOMAIN s.thinking) |->
                     IF E = {} THEN s
                     ELSE CompleteReasoning(g[E \ {CHOOSE c \in E : TRUE}],
                                            CHOOSE c \in E : TRUE, x)]
    BY <1>1, <1>4, Zenon
<1>6. Rounds("thinking", s, x, s, DOMAIN s.thinking, g)
    BY <1>2, <1>5, Zenon
<1> QED BY <1>1, <1>6

LEMMA AsksRounds ==
    ASSUME NEW s, NEW x, IsFiniteSet(s.asks), NEW r,
           r = CloseActiveInteractions(s, x)
    PROVE  \E h : Rounds("asks", s, x, s, s.asks, h) /\ r = h[s.asks]
<1>1. PICK g : /\ g = CHOOSE h : h = [E \in SUBSET (s.asks) |->
                               IF E = {} THEN s
                               ELSE CloseInteraction(h[E \ {CHOOSE c \in E : TRUE}],
                                           CHOOSE c \in E : TRUE, x)]
               /\ r = g[s.asks]
    BY Zenon DEF CloseActiveInteractions, FoldSet, MapThenFoldSet
<1>2. \A h : h = [E \in SUBSET (s.asks) |->
                     IF E = {} THEN s
                     ELSE CloseInteraction(h[E \ {CHOOSE c \in E : TRUE}],
                                           CHOOSE c \in E : TRUE, x)]
             <=> Rounds("asks", s, x, s, s.asks, h)
    BY DEF Rounds, FoldStep, Some
<1>3. \E h : Rounds("asks", s, x, s, s.asks, h)
    BY FoldExists
<1>4. \E h : h = [E \in SUBSET (s.asks) |->
                     IF E = {} THEN s
                     ELSE CloseInteraction(h[E \ {CHOOSE c \in E : TRUE}],
                                           CHOOSE c \in E : TRUE, x)]
    <2>1. PICK f : Rounds("asks", s, x, s, s.asks, f)
        BY <1>3
    <2>2. f = [E \in SUBSET (s.asks) |->
                     IF E = {} THEN s
                     ELSE CloseInteraction(f[E \ {CHOOSE c \in E : TRUE}],
                                           CHOOSE c \in E : TRUE, x)]
        BY <1>2, <2>1, Zenon
    <2> QED BY <2>2, Zenon
<1>5. g = [E \in SUBSET (s.asks) |->
                     IF E = {} THEN s
                     ELSE CloseInteraction(g[E \ {CHOOSE c \in E : TRUE}],
                                           CHOOSE c \in E : TRUE, x)]
    BY <1>1, <1>4, Zenon
<1>6. Rounds("asks", s, x, s, s.asks, g)
    BY <1>2, <1>5, Zenon
<1> QED BY <1>1, <1>6

-----------------------------------------------------------------------------
(* The Items the adapter holds open.                                         *)

CallIds(p) == {id \in Names(p) : id[1] \in {"call", "file", "ask"}}

(* What a handler of texts and thoughts leaves alone. *)
OthersKept(t, s) ==
    /\ t.tools = s.tools /\ t.agents = s.agents /\ t.compacting = s.compacting
    /\ t.compactions = s.compactions /\ t.asks = s.asks /\ t.outcome = s.outcome
    /\ t.p.completed = s.p.completed /\ CallIds(t.p) = CallIds(s.p)

LEMMA NamesAre ==
    ASSUME NEW p, Sound(p)
    PROVE  /\ Names(p) \subseteq ItemIds
           /\ \A id \in Names(p) : id[1] \in {"agentMessage", "reasoning", "compaction"}
                                     => id[2] \in Nat
<1>1. \A n \in DOMAIN p.items : p.items[n] \in ItemRecords
    BY DEF Sound, ProjectorTyped
<1>2. Names(p) \subseteq ItemIds
    BY <1>1 DEF Names, ItemRecords
<1> QED BY <1>2 DEF ItemIds

LEMMA KindsApart ==
    ASSUME NEW s, TurnTyped(s), RecordsGood(s), AsksGood(s)
    PROVE  /\ \A e \in TextLive(s) : e.id[1] = "agentMessage"
           /\ \A e \in ThoughtsLive(s) : e.id[1] = "reasoning"
           /\ \A e \in ToolsLive(s) : e.id[1] = "call" /\ e.id[2] \in DOMAIN s.tools
           /\ \A e \in AgentsLive(s) : e.id[1] = "call" /\ e.id[2] \in DOMAIN s.agents
           /\ \A e \in CompactionLive(s) : e.id[1] = "compaction"
           /\ \A e \in AsksLive(s.p) : e.id[1] = "ask" /\ e.id[2] \in Asked(s.p)
<1>1. \A e \in TextLive(s) : e.id[1] = "agentMessage"
    BY EntryFields DEF RecordsGood, TextLive
<1>2. \A e \in ThoughtsLive(s) : e.id[1] = "reasoning"
    BY EntryFields DEF RecordsGood, ThoughtsLive
<1>3. \A e \in ToolsLive(s) : e.id[1] = "call" /\ e.id[2] \in DOMAIN s.tools
    BY EntryFields DEF RecordsGood, ToolsLive
<1>4. \A e \in AgentsLive(s) : e.id[1] = "call" /\ e.id[2] \in DOMAIN s.agents
    BY EntryFields DEF RecordsGood, AgentsLive
<1>5. \A e \in CompactionLive(s) : e.id[1] = "compaction"
    BY EntryFields DEF CompactionLive, CompactionItem, NewItem
<1>6. \A e \in AsksLive(s.p) : e.id[1] = "ask" /\ e.id[2] \in Asked(s.p)
    <2>1. ASSUME NEW e \in AsksLive(s.p) PROVE e.id[1] = "ask" /\ e.id[2] \in Asked(s.p)
        <3>1. PICK q \in Asked(s.p) : e = Entry(NewItem(<<"ask", q>>, "tool"))
            BY DEF AsksLive
        <3>2. e.id = <<"ask", q>>
            BY <3>1, EntryFields DEF NewItem
        <3> QED BY <3>2
    <2> QED BY <2>1
<1> QED BY <1>1, <1>2, <1>3, <1>4, <1>5, <1>6

LEMMA NoQuestionOf ==
    ASSUME NEW s, AsksGood(s), NEW id, id[1] # "ask"
    PROVE  \A a \in s.p.open : ~ (a.type = "question" /\ a.item = id)
BY DEF AsksGood

LEMMA CompleteAgentItemOK ==
    ASSUME NEW s, TurnOK(s), ~s.p.completed, NEW outcome \in Outcomes,
           NEW empty \in BOOLEAN, NEW t, t = CompleteAgentItem(s, outcome, empty)
    PROVE  /\ TurnOK(t) /\ OthersKept(t, s) /\ t.thinking = s.thinking /\ t.thoughts = s.thoughts
           /\ empty => ~t.speaking
           /\ t.assistant = NoMessage
<1>1. CASE ~s.speaking \/ (~empty /\ s.item.text = <<>>)
    <2>1. t = [s EXCEPT !.assistant = NoMessage]
        BY <1>1 DEF CompleteAgentItem
    <2>2. /\ t.p = s.p /\ t.speaking = s.speaking /\ t.item = s.item /\ t.assistant = NoMessage
          /\ t.texts = s.texts /\ t.thinking = s.thinking /\ t.thoughts = s.thoughts
          /\ t.tools = s.tools /\ t.agents = s.agents /\ t.compacting = s.compacting
          /\ t.compactions = s.compactions /\ t.asks = s.asks /\ t.outcome = s.outcome
          /\ DOMAIN t = DOMAIN s
        BY <2>1 DEF TurnOK, TurnTyped, TurnFields
    <2>3. TurnTyped(t)
        BY <2>2 DEF TurnOK, TurnTyped
    <2>4. RecordsGood(t)
        BY <2>2 DEF TurnOK, RecordsGood
    <2>5. AsksGood(t) /\ Numbered(t)
        BY <2>2 DEF TurnOK, AsksGood, Numbered
    <2>6. HeldOpen(t) = HeldOpen(s)
        BY <2>2 DEF HeldOpen, TextLive, ThoughtsLive, ToolsLive, AgentsLive, CompactionLive,
                    CompactionItem
    <2> QED BY <1>1, <2>2, <2>3, <2>4, <2>5, <2>6 DEF TurnOK, OthersKept
<1>2. CASE s.speaking /\ (empty \/ s.item.text # <<>>)
    <2>1. PICK q : q = CompleteItem(s.p, s.item, outcome)
        OBVIOUS
    <2>2. t = [s EXCEPT !.assistant = NoMessage, !.speaking = FALSE, !.p = q]
        BY <1>2, <2>1 DEF CompleteAgentItem
    <2>3. /\ t.p = q /\ ~t.speaking /\ t.speaking \in BOOLEAN /\ t.assistant = NoMessage
          /\ t.texts = s.texts /\ t.thinking = s.thinking /\ t.thoughts = s.thoughts
          /\ t.tools = s.tools /\ t.agents = s.agents /\ t.compacting = s.compacting
          /\ t.compactions = s.compactions /\ t.asks = s.asks /\ t.outcome = s.outcome
          /\ DOMAIN t = DOMAIN s
        BY <2>2 DEF TurnOK, TurnTyped, TurnFields
    <2>4. s.item \in ItemRecords /\ s.item.id[1] = "agentMessage" /\ TextLive(s) = {Entry(s.item)}
        BY <1>2 DEF TurnOK, TurnTyped, RecordsGood, TextLive
    <2>5. Entry(s.item) \in LiveItems(s.p)
        BY <2>4 DEF TurnOK, HeldOpen
    <2>6. \A a \in s.p.open : ~ (a.type = "question" /\ a.item = s.item.id)
        BY <2>4, NoQuestionOf DEF TurnOK
    <2>7. /\ Sound(q) /\ Same(q, s.p) /\ Names(q) = Names(s.p)
          /\ LiveItems(q) = LiveItems(s.p) \ {Entry(s.item)}
        <3>1. PICK p, item : p = s.p /\ item = s.item
            OBVIOUS
        <3>2. Sound(p) /\ ~p.completed /\ item \in ItemRecords /\ Entry(item) \in LiveItems(p)
            BY <2>4, <2>5, <3>1 DEF TurnOK
        <3>3. q = CompleteItem(p, item, outcome)
              /\ \A a \in p.open : ~ (a.type = "question" /\ a.item = item.id)
            BY <2>1, <2>6, <3>1
        <3> QED BY <3>1, <3>2, <3>3, CompleteItemOK
    <2>8. TurnTyped(t)
        BY <2>3 DEF TurnOK, TurnTyped
    <2>9. RecordsGood(t)
        BY <2>3 DEF TurnOK, RecordsGood
    <2>10. AsksGood(t) /\ Numbered(t)
        BY <2>3, <2>7 DEF TurnOK, AsksGood, Numbered, Same
    <2>11. /\ TextLive(t) = {} /\ ThoughtsLive(t) = ThoughtsLive(s) /\ ToolsLive(t) = ToolsLive(s)
           /\ AgentsLive(t) = AgentsLive(s) /\ CompactionLive(t) = CompactionLive(s)
           /\ AsksLive(t.p) = AsksLive(s.p)
        BY <2>3, <2>7 DEF TextLive, ThoughtsLive, ToolsLive, AgentsLive, CompactionLive,
                          CompactionItem, AsksLive, Asked, Same
    <2>12. Entry(s.item) \notin ThoughtsLive(s) \cup ToolsLive(s) \cup AgentsLive(s)
                                   \cup CompactionLive(s) \cup AsksLive(s.p)
        BY <2>4, EntryFields, KindsApart DEF TurnOK
    <2>13. HeldOpen(t) = HeldOpen(s) \ {Entry(s.item)}
        BY <2>4, <2>11, <2>12 DEF HeldOpen
    <2>14. Accepts(t.p) /\ t.p.completed = s.p.completed /\ CallIds(t.p) = CallIds(s.p)
        BY <2>3, <2>7 DEF TurnOK, Accepts, Same, CallIds
    <2>15. TurnOK(t)
        BY <2>3, <2>7, <2>8, <2>9, <2>10, <2>13, <2>14 DEF TurnOK
    <2> QED BY <2>3, <2>14, <2>15 DEF OthersKept
<1> QED BY <1>1, <1>2

LEMMA CompleteReasoningOK ==
    ASSUME NEW s, TurnOK(s), ~s.p.completed, NEW outcome \in Outcomes, NEW m,
           NEW t, t = CompleteReasoning(s, m, outcome)
    PROVE  /\ TurnOK(t) /\ OthersKept(t, s) /\ DOMAIN t.thinking = DOMAIN s.thinking \ {m}
           /\ t.speaking = s.speaking /\ t.item = s.item /\ t.assistant = s.assistant
           /\ t.texts = s.texts
<1>1. CASE m \notin DOMAIN s.thinking
    <2>1. t = s
        BY <1>1 DEF CompleteReasoning
    <2> QED BY <1>1, <2>1 DEF OthersKept
<1>2. CASE m \in DOMAIN s.thinking
    <2>1. PICK q, item : item = s.thinking[m] /\ q = CompleteItem(s.p, item, outcome)
        OBVIOUS
    <2>2. PICK thinking : thinking = [x \in DOMAIN s.thinking \ {m} |-> s.thinking[x]]
        OBVIOUS
    <2>3. t = [s EXCEPT !.thinking = thinking, !.p = q]
        BY <1>2, <2>1, <2>2 DEF CompleteReasoning
    <2>4. /\ t.p = q /\ t.speaking = s.speaking /\ t.item = s.item /\ t.assistant = s.assistant
          /\ t.texts = s.texts /\ t.thinking = thinking /\ t.thoughts = s.thoughts
          /\ t.tools = s.tools /\ t.agents = s.agents /\ t.compacting = s.compacting
          /\ t.compactions = s.compactions /\ t.asks = s.asks /\ t.outcome = s.outcome
          /\ DOMAIN t = DOMAIN s
        BY <2>3 DEF TurnOK, TurnTyped, TurnFields
    <2>5. /\ DOMAIN thinking = DOMAIN s.thinking \ {m}
          /\ \A x \in DOMAIN thinking : thinking[x] = s.thinking[x]
        BY <2>2
    <2>6. /\ item \in ItemRecords /\ item.type = "reasoning" /\ item.id[1] = "reasoning"
        BY <1>2, <2>1 DEF TurnOK, TurnTyped, RecordsGood
    <2>7. Entry(item) \in ThoughtsLive(s) /\ Entry(item) \in LiveItems(s.p)
        BY <1>2, <2>1 DEF TurnOK, HeldOpen, ThoughtsLive
    <2>8. \A a \in s.p.open : ~ (a.type = "question" /\ a.item = item.id)
        BY <2>6, NoQuestionOf DEF TurnOK
    <2>9. /\ Sound(q) /\ Same(q, s.p) /\ Names(q) = Names(s.p)
          /\ LiveItems(q) = LiveItems(s.p) \ {Entry(item)}
        <3>1. PICK p : p = s.p
            OBVIOUS
        <3>2. Sound(p) /\ ~p.completed /\ Entry(item) \in LiveItems(p)
            BY <2>7, <3>1 DEF TurnOK
        <3>3. q = CompleteItem(p, item, outcome)
              /\ \A a \in p.open : ~ (a.type = "question" /\ a.item = item.id)
            BY <2>1, <2>8, <3>1
        <3> QED BY <2>6, <3>1, <3>2, <3>3, CompleteItemOK
    <2>10. TurnTyped(t)
        <3>1. thinking \in [DOMAIN thinking -> ItemRecords]
            BY <2>2, <2>5 DEF TurnOK, TurnTyped
        <3>2. IsFiniteSet(DOMAIN thinking)
            BY <2>5, FS_Subset DEF TurnOK, TurnTyped
        <3> QED BY <2>4, <3>1, <3>2 DEF TurnOK, TurnTyped
    <2>11. RecordsGood(t)
        BY <2>4, <2>5 DEF TurnOK, RecordsGood
    <2>12. AsksGood(t) /\ Numbered(t)
        BY <2>4, <2>9 DEF TurnOK, AsksGood, Numbered, Same
    <2>13. /\ TextLive(t) = TextLive(s) /\ ToolsLive(t) = ToolsLive(s)
           /\ AgentsLive(t) = AgentsLive(s) /\ CompactionLive(t) = CompactionLive(s)
           /\ AsksLive(t.p) = AsksLive(s.p)
        BY <2>4, <2>9 DEF TextLive, ToolsLive, AgentsLive, CompactionLive,
                          CompactionItem, AsksLive, Asked, Same
    <2>14. ThoughtsLive(t) = ThoughtsLive(s) \ {Entry(item)}
        <3>1. \A x \in DOMAIN s.thinking : Entry(s.thinking[x]) = Entry(item) => x = m
            BY <1>2, <2>1, EntryIs DEF TurnOK, RecordsGood
        <3> QED BY <1>2, <2>1, <2>4, <2>5, <3>1 DEF ThoughtsLive
    <2>15. Entry(item) \notin TextLive(s) \cup ToolsLive(s) \cup AgentsLive(s)
                                   \cup CompactionLive(s) \cup AsksLive(s.p)
        BY <2>6, EntryFields, KindsApart DEF TurnOK
    <2>16. HeldOpen(t) = HeldOpen(s) \ {Entry(item)}
        BY <2>13, <2>14, <2>15 DEF HeldOpen
    <2>17. Accepts(t.p) /\ t.p.completed = s.p.completed /\ CallIds(t.p) = CallIds(s.p)
        BY <2>4, <2>9 DEF TurnOK, Accepts, Same, CallIds
    <2>18. TurnOK(t)
        BY <2>4, <2>9, <2>10, <2>11, <2>12, <2>16, <2>17 DEF TurnOK
    <2> QED BY <2>4, <2>5, <2>17, <2>18 DEF OthersKept
<1> QED BY <1>1, <1>2

LEMMA OthersKeptThen ==
    ASSUME NEW s, NEW t, NEW u, OthersKept(t, s), OthersKept(u, t) PROVE OthersKept(u, s)
BY DEF OthersKept

LEMMA CompleteAllReasoningOK ==
    ASSUME NEW s, TurnOK(s), ~s.p.completed, NEW outcome \in Outcomes,
           NEW t, t = CompleteAllReasoning(s, outcome)
    PROVE  /\ TurnOK(t) /\ OthersKept(t, s) /\ t.thinking = [m \in {} |-> NewItem(NoItem, "reasoning")]
           /\ t.speaking = s.speaking
<1>1. PICK D : D = DOMAIN s.thinking
    OBVIOUS
<1>2. IsFiniteSet(D)
    BY <1>1 DEF TurnOK, TurnTyped
<1>4. PICK h : Rounds("thinking", s, outcome, s, D, h) /\ t = h[D]
    BY <1>1, <1>2, ThinkingRounds
<1>5. h[{}] = s /\ \A E \in SUBSET D : E # {} =>
                       h[E] = CompleteReasoning(h[E \ {Some(E)}], Some(E), outcome)
    <2>1. /\ h[{}] = s
          /\ \A E \in SUBSET D : E # {} =>
                       h[E] = FoldStep("thinking", s, outcome, Some(E), h[E \ {Some(E)}])
        BY <1>4, RoundsAre
    <2> QED BY <2>1 DEF FoldStep
<1> DEFINE Fine(E) == /\ TurnOK(h[E]) /\ OthersKept(h[E], s) /\ h[E].speaking = s.speaking
                      /\ DOMAIN h[E].thinking = D \ E
<1>6. PICK T : T = {E \in SUBSET D : Fine(E)}
    OBVIOUS
<1>7. {} \in T
    <2>1. Fine({})
        BY <1>1, <1>5 DEF OthersKept
    <2> QED BY <1>6, <2>1
<1>8. ASSUME NEW E \in SUBSET D, E # {}, E \ {Some(E)} \in T PROVE E \in T
    <2>1. PICK c, u, v : c = Some(E) /\ u = h[E \ {c}] /\ v = h[E]
        OBVIOUS
    <2>2. /\ TurnOK(u) /\ OthersKept(u, s) /\ u.speaking = s.speaking
          /\ DOMAIN u.thinking = D \ (E \ {c})
        BY <1>6, <1>8, <2>1
    <2>3. v = CompleteReasoning(u, c, outcome) /\ c \in E
        BY <1>5, <1>8, <2>1 DEF Some
    <2>4. ~u.p.completed
        BY <2>2 DEF OthersKept
    <2>5. /\ TurnOK(v) /\ OthersKept(v, u) /\ DOMAIN v.thinking = DOMAIN u.thinking \ {c}
          /\ v.speaking = u.speaking
        BY <2>2, <2>3, <2>4, CompleteReasoningOK
    <2>6. DOMAIN v.thinking = D \ E
        BY <1>8, <2>2, <2>3, <2>5
    <2>7. OthersKept(v, s) /\ v.speaking = s.speaking
        BY <2>2, <2>5, OthersKeptThen
    <2> QED BY <1>6, <2>1, <2>5, <2>6, <2>7
<1>9. D \in T
    <2>1. T \in SUBSET SUBSET D
        BY <1>6
    <2> QED BY <1>2, <1>7, <1>8, <2>1, SetInduction
<1>10. TurnOK(t) /\ OthersKept(t, s) /\ t.speaking = s.speaking /\ DOMAIN t.thinking = {}
    BY <1>4, <1>6, <1>9
<1>11. t.thinking \in [{} -> ItemRecords]
    BY <1>10 DEF TurnOK, TurnTyped
<1> QED BY <1>10, <1>11

LEMMA NewItemIs ==
    ASSUME NEW id \in ItemIds, NEW type \in ItemTypes, NEW i, i = NewItem(id, type)
    PROVE  /\ i \in ItemRecords /\ i.id = id /\ i.type = type /\ i.text = <<>>
           /\ i.done = "no" /\ ~i.wire /\ i.edits = {} /\ i.sources = {}
<1>1. <<>> \in Seq(Chunks)
    OBVIOUS
<1> QED BY <1>1 DEF NewItem, ItemRecords

(* A text begins. *)
Speaks(s) ==
    [s EXCEPT !.texts = @ + 1, !.item = NewItem(<<"agentMessage", s.texts + 1>>, "agentMessage"),
              !.speaking = TRUE,
              !.p = StartItem(@, NewItem(<<"agentMessage", s.texts + 1>>, "agentMessage"))]

LEMMA SpeaksOK ==
    ASSUME NEW s, TurnOK(s), ~s.p.completed, ~s.speaking, NEW t, t = Speaks(s)
    PROVE  /\ TurnOK(t) /\ OthersKept(t, s) /\ t.speaking /\ t.assistant = s.assistant
<1>1. s.texts \in Nat
    BY DEF TurnOK, TurnTyped
<1>2. PICK id : id = <<"agentMessage", s.texts + 1>>
    OBVIOUS
<1>3. id \in ItemIds /\ id[1] = "agentMessage" /\ id[2] = s.texts + 1
    BY <1>1, <1>2 DEF ItemIds
<1>4. PICK item : item = NewItem(id, "agentMessage")
    OBVIOUS
<1>5. /\ item \in ItemRecords /\ item.id = id /\ item.type = "agentMessage" /\ item.text = <<>>
      /\ item.done = "no" /\ ~item.wire
    <2>1. PICK type \in ItemTypes : type = "agentMessage"
        BY DEF ItemTypes, Texts
    <2> QED BY <1>3, <1>4, <2>1, NewItemIs
<1>6. PICK q : q = StartItem(s.p, item)
    OBVIOUS
<1>7. t = [s EXCEPT !.texts = s.texts + 1, !.item = item, !.speaking = TRUE, !.p = q]
    BY <1>2, <1>4, <1>6 DEF Speaks
<1>8. /\ t.p = q /\ t.speaking /\ t.speaking \in BOOLEAN /\ t.item = item
      /\ t.assistant = s.assistant
      /\ t.texts = s.texts + 1 /\ t.thinking = s.thinking /\ t.thoughts = s.thoughts
      /\ t.tools = s.tools /\ t.agents = s.agents /\ t.compacting = s.compacting
      /\ t.compactions = s.compactions /\ t.asks = s.asks /\ t.outcome = s.outcome
      /\ DOMAIN t = DOMAIN s
    BY <1>7 DEF TurnOK, TurnTyped, TurnFields
<1>9. id \notin Names(s.p)
    BY <1>1, <1>3 DEF TurnOK, Numbered
<1>10. /\ Sound(q) /\ Same(q, s.p) /\ Names(q) = Names(s.p) \cup {id}
       /\ LiveItems(q) = LiveItems(s.p) \cup {Entry(item)}
    <2>1. PICK p : p = s.p
        OBVIOUS
    <2>2. Sound(p) /\ p.started /\ ~p.completed /\ item.id \notin Names(p) /\ q = StartItem(p, item)
        BY <1>5, <1>6, <1>9, <2>1 DEF TurnOK, Accepts
    <2> QED BY <1>5, <2>1, <2>2, StartItemOK
<1>11. TurnTyped(t)
    BY <1>1, <1>5, <1>8 DEF TurnOK, TurnTyped
<1>12. RecordsGood(t)
    BY <1>2, <1>5, <1>8 DEF TurnOK, RecordsGood
<1>13. AsksGood(t)
    BY <1>8, <1>10 DEF TurnOK, AsksGood, Same
<1>14. Numbered(t)
    <2>1. \A x \in Names(s.p) : x[1] = "agentMessage" => x[2] <= s.texts /\ x[2] \in Nat
        BY NamesAre DEF TurnOK, Numbered
    <2> QED BY <1>1, <1>3, <1>8, <1>10, <2>1 DEF TurnOK, Numbered
<1>15. /\ ThoughtsLive(t) = ThoughtsLive(s) /\ ToolsLive(t) = ToolsLive(s)
       /\ AgentsLive(t) = AgentsLive(s) /\ CompactionLive(t) = CompactionLive(s)
       /\ AsksLive(t.p) = AsksLive(s.p) /\ TextLive(t) = {Entry(item)} /\ TextLive(s) = {}
    BY <1>8, <1>10 DEF TextLive, ThoughtsLive, ToolsLive, AgentsLive, CompactionLive,
                       CompactionItem, AsksLive, Asked, Same
<1>16. HeldOpen(t) = HeldOpen(s) \cup {Entry(item)}
    BY <1>15 DEF HeldOpen
<1>17. Accepts(t.p) /\ t.p.completed = s.p.completed /\ CallIds(t.p) = CallIds(s.p)
    BY <1>3, <1>8, <1>10 DEF TurnOK, Accepts, Same, CallIds
<1>18. TurnOK(t)
    BY <1>8, <1>10, <1>11, <1>12, <1>13, <1>14, <1>16, <1>17 DEF TurnOK
<1> QED BY <1>8, <1>17, <1>18 DEF OthersKept

LEMMA Addressed ==
    ASSUME NEW s, TurnOK(s), s.speaking, NEW m, NEW t, t = [s EXCEPT !.assistant = m]
    PROVE  TurnOK(t) /\ OthersKept(t, s) /\ t.speaking /\ t.assistant = m
<1>1. /\ t.p = s.p /\ t.speaking = s.speaking /\ t.item = s.item /\ t.assistant = m
      /\ t.texts = s.texts /\ t.thinking = s.thinking /\ t.thoughts = s.thoughts
      /\ t.tools = s.tools /\ t.agents = s.agents /\ t.compacting = s.compacting
      /\ t.compactions = s.compactions /\ t.asks = s.asks /\ t.outcome = s.outcome
      /\ DOMAIN t = DOMAIN s
    BY DEF TurnOK, TurnTyped, TurnFields
<1>2. TurnTyped(t)
    BY <1>1 DEF TurnOK, TurnTyped
<1>3. RecordsGood(t)
    BY <1>1 DEF TurnOK, RecordsGood
<1>4. AsksGood(t) /\ Numbered(t)
    BY <1>1 DEF TurnOK, AsksGood, Numbered
<1>5. HeldOpen(t) = HeldOpen(s)
    BY <1>1 DEF HeldOpen, TextLive, ThoughtsLive, ToolsLive, AgentsLive, CompactionLive,
                CompactionItem
<1> QED BY <1>1, <1>2, <1>3, <1>4, <1>5 DEF TurnOK, OthersKept

LEMMA ActivateOK ==
    ASSUME NEW s, TurnOK(s), ~s.p.completed, NEW m, m # NoMessage,
           NEW t, t = ActivateAssistantMessage(s, m)
    PROVE  TurnOK(t) /\ OthersKept(t, s) /\ t.speaking /\ t.assistant = m
<1>1. CASE s.assistant = m
    <2>1. t = s /\ s.speaking
        BY <1>1 DEF ActivateAssistantMessage, TurnOK, RecordsGood
    <2> QED BY <1>1, <2>1 DEF OthersKept
<1>2. CASE s.assistant # m
    <2>1. PICK o \in Outcomes : o = "succeeded"
        BY DEF Outcomes
    <2>2. PICK no \in BOOLEAN : no = FALSE
        OBVIOUS
    <2>3. PICK r : r = CompleteReasoning(s, s.assistant, o)
        OBVIOUS
    <2>4. TurnOK(r) /\ OthersKept(r, s)
        BY <2>3, CompleteReasoningOK
    <2>5. ~r.p.completed
        BY <2>4 DEF OthersKept
    <2>6. PICK c : c = CompleteAgentItem(r, o, no)
        OBVIOUS
    <2>7. TurnOK(c) /\ OthersKept(c, r)
        BY <2>4, <2>5, <2>6, CompleteAgentItemOK
    <2>8. PICK settled : settled = IF s.assistant = NoMessage THEN s ELSE c
        OBVIOUS
    <2>9. TurnOK(settled) /\ OthersKept(settled, s)
        BY <2>4, <2>7, <2>8, OthersKeptThen DEF OthersKept
    <2>10. ~settled.p.completed
        BY <2>9 DEF OthersKept
    <2>11. PICK open : open = IF settled.speaking THEN settled ELSE Speaks(settled)
        OBVIOUS
    <2>12. TurnOK(open) /\ OthersKept(open, settled) /\ open.speaking
        <3>1. CASE settled.speaking
            BY <2>9, <2>11, <3>1 DEF OthersKept
        <3>2. CASE ~settled.speaking
            BY <2>9, <2>10, <2>11, <3>2, SpeaksOK
        <3> QED BY <3>1, <3>2
    <2>13. t = [open EXCEPT !.assistant = m]
        BY <1>2, <2>1, <2>2, <2>3, <2>6, <2>8, <2>11 DEF ActivateAssistantMessage, Speaks
    <2>14. TurnOK(t) /\ OthersKept(t, open) /\ t.speaking /\ t.assistant = m
        BY <2>12, <2>13, Addressed
    <2> QED BY <2>9, <2>12, <2>14, OthersKeptThen
<1> QED BY <1>1, <1>2

(* The text that is open says something else. *)
Says(s, new, q) == [s EXCEPT !.item = new, !.p = q]

LEMMA SaysOK ==
    ASSUME NEW s, TurnOK(s), s.speaking, NEW new \in ItemRecords, new.id = s.item.id,
           new.type = s.item.type, NEW q, Sound(q), Same(q, s.p), Names(q) = Names(s.p),
           LiveItems(q) = (LiveItems(s.p) \ {Entry(s.item)}) \cup {Entry(new)},
           NEW t, t = Says(s, new, q)
    PROVE  TurnOK(t) /\ OthersKept(t, s)
<1>1. /\ t.p = q /\ t.speaking = s.speaking /\ t.item = new /\ t.assistant = s.assistant
      /\ t.texts = s.texts /\ t.thinking = s.thinking /\ t.thoughts = s.thoughts
      /\ t.tools = s.tools /\ t.agents = s.agents /\ t.compacting = s.compacting
      /\ t.compactions = s.compactions /\ t.asks = s.asks /\ t.outcome = s.outcome
      /\ DOMAIN t = DOMAIN s
    BY DEF Says, TurnOK, TurnTyped, TurnFields
<1>2. TurnTyped(t)
    BY <1>1 DEF TurnOK, TurnTyped
<1>3. RecordsGood(t)
    BY <1>1 DEF TurnOK, RecordsGood
<1>4. AsksGood(t) /\ Numbered(t)
    BY <1>1 DEF TurnOK, AsksGood, Numbered, Same
<1>5. /\ ThoughtsLive(t) = ThoughtsLive(s) /\ ToolsLive(t) = ToolsLive(s)
      /\ AgentsLive(t) = AgentsLive(s) /\ CompactionLive(t) = CompactionLive(s)
      /\ AsksLive(t.p) = AsksLive(s.p) /\ TextLive(t) = {Entry(new)}
      /\ TextLive(s) = {Entry(s.item)}
    <2>1. TextLive(t) = {Entry(new)} /\ TextLive(s) = {Entry(s.item)}
        BY <1>1 DEF TextLive
    <2>2. /\ ThoughtsLive(t) = ThoughtsLive(s) /\ ToolsLive(t) = ToolsLive(s)
          /\ AgentsLive(t) = AgentsLive(s)
        BY <1>1 DEF ThoughtsLive, ToolsLive, AgentsLive
    <2>3. CompactionLive(t) = CompactionLive(s) /\ AsksLive(t.p) = AsksLive(s.p)
        BY <1>1 DEF CompactionLive, CompactionItem, AsksLive, Asked, Same
    <2> QED BY <2>1, <2>2, <2>3
<1>6. s.item.id[1] = "agentMessage"
    BY DEF TurnOK, RecordsGood
<1>7. Entry(s.item) \notin ThoughtsLive(s) \cup ToolsLive(s) \cup AgentsLive(s)
                               \cup CompactionLive(s) \cup AsksLive(s.p)
    BY <1>6, EntryFields, KindsApart DEF TurnOK
<1>8. HeldOpen(t) = (HeldOpen(s) \ {Entry(s.item)}) \cup {Entry(new)}
    BY <1>5, <1>7 DEF HeldOpen
<1>9. Accepts(t.p) /\ t.p.completed = s.p.completed /\ CallIds(t.p) = CallIds(s.p)
    BY <1>1 DEF TurnOK, Accepts, Same, CallIds
<1>10. TurnOK(t)
    BY <1>1, <1>2, <1>3, <1>4, <1>8, <1>9 DEF TurnOK
<1> QED BY <1>1, <1>9, <1>10 DEF OthersKept

LEMMA AppendTextOK ==
    ASSUME NEW s, TurnOK(s), ~s.p.completed, NEW m, m # NoMessage, NEW delta \in Seq(Chunks),
           NEW t, t = AppendText(s, m, delta)
    PROVE  TurnOK(t) /\ OthersKept(t, s)
<1>1. CASE delta = <<>>
    <2>1. t = s
        BY <1>1 DEF AppendText
    <2> QED BY <2>1 DEF OthersKept
<1>2. CASE delta # <<>>
    <2>1. PICK on : on = ActivateAssistantMessage(s, m)
        OBVIOUS
    <2>2. TurnOK(on) /\ OthersKept(on, s) /\ on.speaking
        BY <2>1, ActivateOK
    <2>3. PICK item, p : item = on.item /\ p = on.p
        OBVIOUS
    <2>4. item \in ItemRecords /\ item.type = "agentMessage" /\ item.type \in Texts
        BY <2>2, <2>3 DEF TurnOK, TurnTyped, RecordsGood, Texts
    <2>5. PICK new : new = [item EXCEPT !.text = @ \o delta]
        OBVIOUS
    <2>6. /\ new \in ItemRecords /\ new.id = item.id /\ new.type = item.type
          /\ new.text = item.text \o delta
        <3>1. PICK text \in Seq(Chunks) : text = item.text \o delta
            <4>1. item.text \in Seq(Chunks)
                BY <2>4 DEF ItemRecords
            <4>2. item.text \o delta \in Seq(Chunks)
                BY <4>1, ConcatProperties
            <4> QED BY <4>2
        <3>2. new = [item EXCEPT !.text = text]
            BY <2>5, <3>1
        <3> QED BY <2>4, <3>1, <3>2 DEF ItemRecords
    <2>7. PICK q : q = AppendsText(p, item.id, delta)
        OBVIOUS
    <2>8. Entry(item) \in LiveItems(p)
        BY <2>2, <2>3 DEF TurnOK, HeldOpen, TextLive
    <2>9. Sound(p) /\ ~p.completed
        BY <2>2, <2>3 DEF TurnOK, OthersKept
    <2>10. /\ Sound(q) /\ Same(q, p) /\ Names(q) = Names(p)
           /\ LiveItems(q) = (LiveItems(p) \ {Entry(item)}) \cup {Entry(new)}
        BY <2>4, <2>6, <2>7, <2>8, <2>9, AppendsTextOK
    <2>11. t = Says(on, new, q)
        BY <1>2, <2>1, <2>3, <2>5, <2>7 DEF AppendText, Says
    <2>12. TurnOK(t) /\ OthersKept(t, on)
        BY <2>2, <2>3, <2>6, <2>10, <2>11, SaysOK
    <2> QED BY <2>2, <2>12, OthersKeptThen
<1> QED BY <1>1, <1>2

LEMMA ReplaceTextOK ==
    ASSUME NEW s, TurnOK(s), ~s.p.completed, NEW m, NEW text \in Seq(Chunks),
           NEW t, t = ReplaceText(s, m, text)
    PROVE  TurnOK(t) /\ OthersKept(t, s)
<1>1. CASE ~s.speaking \/ s.assistant # m
    <2>1. t = s
        BY <1>1 DEF ReplaceText
    <2> QED BY <2>1 DEF OthersKept
<1>2. CASE s.speaking /\ s.assistant = m
    <2>1. PICK item, p : item = s.item /\ p = s.p
        OBVIOUS
    <2>2. item \in ItemRecords /\ item.type = "agentMessage"
        BY <1>2, <2>1 DEF TurnOK, TurnTyped, RecordsGood
    <2>3. PICK new : new = [item EXCEPT !.text = text]
        OBVIOUS
    <2>4. new \in ItemRecords /\ new.id = item.id /\ new.type = item.type /\ new.text = text
        BY <2>2, <2>3 DEF ItemRecords
    <2>5. PICK q : q = ReplacesText(p, item.id, new.text)
        OBVIOUS
    <2>6. Entry(item) \in LiveItems(p) /\ Sound(p) /\ ~p.completed
        BY <1>2, <2>1 DEF TurnOK, HeldOpen, TextLive
    <2>7. /\ Sound(q) /\ Same(q, p) /\ Names(q) = Names(p)
          /\ LiveItems(q) = (LiveItems(p) \ {Entry(item)}) \cup {Entry(new)}
        BY <2>2, <2>4, <2>5, <2>6, ReplacesTextOK
    <2>8. t = Says(s, new, q)
        BY <1>2, <2>1, <2>3, <2>4, <2>5 DEF ReplaceText, Says
    <2> QED BY <1>2, <2>1, <2>4, <2>7, <2>8, SaysOK
<1> QED BY <1>1, <1>2

(* A thought begins. *)
Thinks(s, m) ==
    [s EXCEPT !.thoughts = @ + 1,
              !.p = StartItem(@, NewItem(<<"reasoning", s.thoughts + 1>>, "reasoning")),
              !.thinking = [x \in DOMAIN s.thinking \cup {m} |->
                               IF x = m THEN NewItem(<<"reasoning", s.thoughts + 1>>, "reasoning")
                               ELSE s.thinking[x]]]

LEMMA ThinksOK ==
    ASSUME NEW s, TurnOK(s), ~s.p.completed, NEW m, m \notin DOMAIN s.thinking,
           NEW t, t = Thinks(s, m)
    PROVE  TurnOK(t) /\ OthersKept(t, s) /\ m \in DOMAIN t.thinking
<1>1. s.thoughts \in Nat
    BY DEF TurnOK, TurnTyped
<1>2. PICK id : id = <<"reasoning", s.thoughts + 1>>
    OBVIOUS
<1>3. id \in ItemIds /\ id[1] = "reasoning" /\ id[2] = s.thoughts + 1
    BY <1>1, <1>2 DEF ItemIds
<1>4. PICK item : item = NewItem(id, "reasoning")
    OBVIOUS
<1>5. /\ item \in ItemRecords /\ item.id = id /\ item.type = "reasoning" /\ item.text = <<>>
      /\ item.done = "no" /\ ~item.wire
    <2>1. PICK type \in ItemTypes : type = "reasoning"
        BY DEF ItemTypes, Texts
    <2> QED BY <1>3, <1>4, <2>1, NewItemIs
<1>6. PICK q : q = StartItem(s.p, item)
    OBVIOUS
<1>7. PICK thinking : thinking = [x \in DOMAIN s.thinking \cup {m} |->
                                     IF x = m THEN item ELSE s.thinking[x]]
    OBVIOUS
<1>8. t = [s EXCEPT !.thoughts = s.thoughts + 1, !.p = q, !.thinking = thinking]
    BY <1>2, <1>4, <1>6, <1>7 DEF Thinks
<1>9. /\ t.p = q /\ t.speaking = s.speaking /\ t.item = s.item /\ t.assistant = s.assistant
      /\ t.texts = s.texts /\ t.thinking = thinking /\ t.thoughts = s.thoughts + 1
      /\ t.tools = s.tools /\ t.agents = s.agents /\ t.compacting = s.compacting
      /\ t.compactions = s.compactions /\ t.asks = s.asks /\ t.outcome = s.outcome
      /\ DOMAIN t = DOMAIN s
    BY <1>8 DEF TurnOK, TurnTyped, TurnFields
<1>10. /\ DOMAIN thinking = DOMAIN s.thinking \cup {m} /\ thinking[m] = item
       /\ \A x \in DOMAIN s.thinking : thinking[x] = s.thinking[x]
    BY <1>7
<1>11. id \notin Names(s.p)
    BY <1>1, <1>3 DEF TurnOK, Numbered
<1>12. /\ Sound(q) /\ Same(q, s.p) /\ Names(q) = Names(s.p) \cup {id}
       /\ LiveItems(q) = LiveItems(s.p) \cup {Entry(item)}
    <2>1. PICK p : p = s.p
        OBVIOUS
    <2>2. Sound(p) /\ p.started /\ ~p.completed /\ item.id \notin Names(p) /\ q = StartItem(p, item)
        BY <1>5, <1>6, <1>11, <2>1 DEF TurnOK, Accepts
    <2> QED BY <1>5, <2>1, <2>2, StartItemOK
<1>13. TurnTyped(t)
    <2>1. thinking \in [DOMAIN thinking -> ItemRecords]
        BY <1>5, <1>7, <1>10 DEF TurnOK, TurnTyped
    <2>2. IsFiniteSet(DOMAIN thinking)
        BY <1>10, FS_AddElement DEF TurnOK, TurnTyped
    <2>3. s.thoughts + 1 \in Nat
        BY <1>1
    <2> QED BY <1>9, <2>1, <2>2, <2>3 DEF TurnOK, TurnTyped
<1>14. \A x \in DOMAIN s.thinking : \E k \in 1 .. s.thoughts : s.thinking[x].id = <<"reasoning", k>>
    BY DEF TurnOK, RecordsGood
<1>15. \A x \in DOMAIN s.thinking : thinking[x].id # id
    <2>1. ASSUME NEW x \in DOMAIN s.thinking PROVE thinking[x].id # id
        <3>1. PICK k \in 1 .. s.thoughts : thinking[x].id = <<"reasoning", k>>
            BY <1>10, <1>14
        <3>2. k # s.thoughts + 1
            BY <1>1
        <3> QED BY <1>2, <3>1, <3>2
    <2> QED BY <2>1
<1>16. RecordsGood(t)
    <2>1. \A x \in DOMAIN thinking :
             /\ thinking[x].type = "reasoning"
             /\ \E k \in 1 .. s.thoughts + 1 : thinking[x].id = <<"reasoning", k>>
        <3>1. ASSUME NEW x \in DOMAIN s.thinking
              PROVE  /\ thinking[x].type = "reasoning"
                     /\ \E k \in 1 .. s.thoughts + 1 : thinking[x].id = <<"reasoning", k>>
            <4>1. PICK k \in 1 .. s.thoughts : s.thinking[x].id = <<"reasoning", k>>
                BY <1>14
            <4>2. k \in 1 .. s.thoughts + 1
                BY <1>1
            <4> QED BY <1>10, <4>1, <4>2 DEF TurnOK, RecordsGood
        <3>2. s.thoughts + 1 \in 1 .. s.thoughts + 1
            BY <1>1
        <3> QED BY <1>2, <1>5, <1>10, <3>1, <3>2
    <2>2. \A x, o \in DOMAIN thinking : thinking[x].id = thinking[o].id => x = o
        BY <1>5, <1>10, <1>15 DEF TurnOK, RecordsGood
    <2> QED BY <1>9, <2>1, <2>2 DEF TurnOK, RecordsGood
<1>17. AsksGood(t)
    BY <1>9, <1>12 DEF TurnOK, AsksGood, Same
<1>18. Numbered(t)
    <2>1. \A x \in Names(s.p) : x[1] = "reasoning" => x[2] <= s.thoughts /\ x[2] \in Nat
        BY NamesAre DEF TurnOK, Numbered
    <2> QED BY <1>1, <1>3, <1>9, <1>12, <2>1 DEF TurnOK, Numbered
<1>19. /\ TextLive(t) = TextLive(s) /\ ToolsLive(t) = ToolsLive(s)
       /\ AgentsLive(t) = AgentsLive(s) /\ CompactionLive(t) = CompactionLive(s)
       /\ AsksLive(t.p) = AsksLive(s.p)
    BY <1>9, <1>12 DEF TextLive, ToolsLive, AgentsLive, CompactionLive,
                       CompactionItem, AsksLive, Asked, Same
<1>20. ThoughtsLive(t) = ThoughtsLive(s) \cup {Entry(item)}
    BY <1>9, <1>10 DEF ThoughtsLive
<1>21. HeldOpen(t) = HeldOpen(s) \cup {Entry(item)}
    BY <1>19, <1>20 DEF HeldOpen
<1>22. Accepts(t.p) /\ t.p.completed = s.p.completed /\ CallIds(t.p) = CallIds(s.p)
    BY <1>3, <1>9, <1>12 DEF TurnOK, Accepts, Same, CallIds
<1>23. TurnOK(t)
    BY <1>9, <1>12, <1>13, <1>16, <1>17, <1>18, <1>21, <1>22 DEF TurnOK
<1> QED BY <1>9, <1>10, <1>22, <1>23 DEF OthersKept

LEMMA AppendReasoningOK ==
    ASSUME NEW s, TurnOK(s), ~s.p.completed, NEW m, m # NoMessage, NEW delta \in Seq(Chunks),
           NEW t, t = AppendReasoning(s, m, delta)
    PROVE  TurnOK(t) /\ OthersKept(t, s)
<1>1. PICK on : on = ActivateAssistantMessage(s, m)
    OBVIOUS
<1>2. TurnOK(on) /\ OthersKept(on, s) /\ ~on.p.completed
    BY <1>1, ActivateOK DEF OthersKept
<1>3. PICK u : u = IF m \in DOMAIN on.thinking THEN on ELSE Thinks(on, m)
    OBVIOUS
<1>4. TurnOK(u) /\ OthersKept(u, on) /\ m \in DOMAIN u.thinking
    <2>1. CASE m \in DOMAIN on.thinking
        BY <1>2, <1>3, <2>1 DEF OthersKept
    <2>2. CASE m \notin DOMAIN on.thinking
        BY <1>2, <1>3, <2>2, ThinksOK
    <2> QED BY <2>1, <2>2
<1>5. PICK item, p : item = u.thinking[m] /\ p = u.p
    OBVIOUS
<1>6. /\ item \in ItemRecords /\ item.type = "reasoning" /\ item.type \in Texts
      /\ item.id[1] = "reasoning"
    BY <1>4, <1>5 DEF TurnOK, TurnTyped, RecordsGood, Texts
<1>7. PICK new : new = [item EXCEPT !.text = @ \o delta]
    OBVIOUS
<1>8. /\ new \in ItemRecords /\ new.id = item.id /\ new.type = item.type
      /\ new.text = item.text \o delta
    <2>1. PICK text \in Seq(Chunks) : text = item.text \o delta
        <3>1. item.text \in Seq(Chunks)
            BY <1>6 DEF ItemRecords
        <3>2. item.text \o delta \in Seq(Chunks)
            BY <3>1, ConcatProperties
        <3> QED BY <3>2
    <2>2. new = [item EXCEPT !.text = text]
        BY <1>7, <2>1
    <2> QED BY <1>6, <2>1, <2>2 DEF ItemRecords
<1>9. PICK q : q = AppendsText(p, item.id, delta)
    OBVIOUS
<1>10. Entry(item) \in LiveItems(p) /\ Entry(item) \in ThoughtsLive(u)
    BY <1>4, <1>5 DEF TurnOK, HeldOpen, ThoughtsLive
<1>11. Sound(p) /\ ~p.completed
    BY <1>2, <1>4, <1>5 DEF TurnOK, OthersKept
<1>12. /\ Sound(q) /\ Same(q, p) /\ Names(q) = Names(p)
       /\ LiveItems(q) = (LiveItems(p) \ {Entry(item)}) \cup {Entry(new)}
    BY <1>6, <1>8, <1>9, <1>10, <1>11, AppendsTextOK, SMTT(40)
<1>13. PICK thinking : thinking = [u.thinking EXCEPT ![m] = new]
    OBVIOUS
<1>14. t = [u EXCEPT !.thinking = thinking, !.p = q]
    BY <1>1, <1>3, <1>5, <1>7, <1>9, <1>13 DEF AppendReasoning, Thinks
<1>15. /\ t.p = q /\ t.speaking = u.speaking /\ t.item = u.item /\ t.assistant = u.assistant
       /\ t.texts = u.texts /\ t.thinking = thinking /\ t.thoughts = u.thoughts
       /\ t.tools = u.tools /\ t.agents = u.agents /\ t.compacting = u.compacting
       /\ t.compactions = u.compactions /\ t.asks = u.asks /\ t.outcome = u.outcome
       /\ DOMAIN t = DOMAIN u
    BY <1>4, <1>14 DEF TurnOK, TurnTyped, TurnFields
<1>16. /\ DOMAIN thinking = DOMAIN u.thinking /\ thinking[m] = new
       /\ \A x \in DOMAIN u.thinking : x # m => thinking[x] = u.thinking[x]
       /\ thinking \in [DOMAIN thinking -> ItemRecords]
    BY <1>4, <1>8, <1>13 DEF TurnOK, TurnTyped
<1>17. \A x \in DOMAIN u.thinking : thinking[x].id = u.thinking[x].id
                                        /\ thinking[x].type = u.thinking[x].type
    BY <1>5, <1>8, <1>16
<1>18. TurnTyped(t)
    BY <1>4, <1>15, <1>16 DEF TurnOK, TurnTyped
<1>19. RecordsGood(t)
    BY <1>4, <1>15, <1>16, <1>17 DEF TurnOK, RecordsGood
<1>20. AsksGood(t) /\ Numbered(t)
    BY <1>4, <1>5, <1>12, <1>15 DEF TurnOK, AsksGood, Numbered, Same
<1>21. /\ TextLive(t) = TextLive(u) /\ ToolsLive(t) = ToolsLive(u)
       /\ AgentsLive(t) = AgentsLive(u) /\ CompactionLive(t) = CompactionLive(u)
       /\ AsksLive(t.p) = AsksLive(u.p)
    BY <1>5, <1>12, <1>15 DEF TextLive, ToolsLive, AgentsLive, CompactionLive,
                              CompactionItem, AsksLive, Asked, Same
<1>22. ThoughtsLive(t) = (ThoughtsLive(u) \ {Entry(item)}) \cup {Entry(new)}
    <2>1. \A x \in DOMAIN u.thinking : Entry(u.thinking[x]) = Entry(item) => x = m
        BY <1>4, <1>5, EntryIs DEF TurnOK, RecordsGood
    <2> QED BY <1>4, <1>5, <1>15, <1>16, <2>1 DEF ThoughtsLive
<1>23. Entry(item) \notin TextLive(u) \cup ToolsLive(u) \cup AgentsLive(u)
                               \cup CompactionLive(u) \cup AsksLive(u.p)
    BY <1>4, <1>6, EntryFields, KindsApart DEF TurnOK
<1>24. HeldOpen(t) = (HeldOpen(u) \ {Entry(item)}) \cup {Entry(new)}
    BY <1>21, <1>22, <1>23 DEF HeldOpen
<1>25. Accepts(t.p) /\ t.p.completed = u.p.completed /\ CallIds(t.p) = CallIds(u.p)
    BY <1>4, <1>5, <1>12, <1>15 DEF TurnOK, Accepts, Same, CallIds
<1>26. TurnOK(t)
    BY <1>4, <1>5, <1>12, <1>15, <1>18, <1>19, <1>20, <1>24, <1>25 DEF TurnOK
<1>27. OthersKept(t, u)
    BY <1>15, <1>25 DEF OthersKept
<1> QED BY <1>2, <1>4, <1>26, <1>27, OthersKeptThen

LEMMA SettleTextsOK ==
    ASSUME NEW s, TurnOK(s), ~s.p.completed, NEW t, t = SettleTexts(s)
    PROVE  TurnOK(t) /\ OthersKept(t, s)
<1>1. PICK o \in Outcomes : o = "succeeded"
    BY DEF Outcomes
<1>2. PICK no \in BOOLEAN : no = FALSE
    OBVIOUS
<1>3. PICK r : r = CompleteAllReasoning(s, o)
    OBVIOUS
<1>4. TurnOK(r) /\ OthersKept(r, s)
    BY <1>3, CompleteAllReasoningOK
<1>5. ~r.p.completed
    BY <1>4 DEF OthersKept
<1>6. t = CompleteAgentItem(r, o, no)
    BY <1>1, <1>2, <1>3 DEF SettleTexts
<1>7. TurnOK(t) /\ OthersKept(t, r)
    BY <1>4, <1>5, <1>6, CompleteAgentItemOK
<1> QED BY <1>4, <1>7, OthersKeptThen

LEMMA MessageCompletedOK ==
    ASSUME NEW s, TurnOK(s), ~s.p.completed, NEW m, NEW t, t = MessageCompleted(s, m)
    PROVE  TurnOK(t) /\ OthersKept(t, s)
<1>1. PICK o \in Outcomes : o = "succeeded"
    BY DEF Outcomes
<1>2. PICK no \in BOOLEAN : no = FALSE
    OBVIOUS
<1>3. PICK r : r = CompleteReasoning(s, m, o)
    OBVIOUS
<1>4. TurnOK(r) /\ OthersKept(r, s)
    BY <1>3, CompleteReasoningOK
<1>5. ~r.p.completed
    BY <1>4 DEF OthersKept
<1>6. PICK c : c = CompleteAgentItem(r, o, no)
    OBVIOUS
<1>7. TurnOK(c) /\ OthersKept(c, r)
    BY <1>4, <1>5, <1>6, CompleteAgentItemOK
<1>8. t = r \/ t = c
    BY <1>1, <1>2, <1>3, <1>6 DEF MessageCompleted
<1> QED BY <1>4, <1>7, <1>8, OthersKeptThen

-----------------------------------------------------------------------------
(* Calls: tools and Subagents.                                               *)

LEMMA LiveNames ==
    ASSUME NEW p, NEW e \in LiveItems(p) PROVE e.id \in Names(p)
<1>1. PICK n \in DOMAIN p.items : p.items[n].done = "no" /\ e = Entry(p.items[n])
    BY LiveAt
<1>2. e.id = p.items[n].id
    BY <1>1, EntryFields
<1> QED BY <1>2 DEF Names

(* What a handler of calls leaves alone. *)
TextsKept(t, s) ==
    /\ t.compacting = s.compacting /\ t.asks = s.asks /\ t.outcome = s.outcome
    /\ t.p.completed = s.p.completed

LEMMA NotCalled ==
    ASSUME NEW s, TurnOK(s), NEW c, <<"call", c>> \notin Names(s.p)
    PROVE  c \notin DOMAIN s.tools /\ c \notin DOMAIN s.agents
<1>1. ASSUME c \in DOMAIN s.tools PROVE FALSE
    <2>1. Entry(s.tools[c]) \in LiveItems(s.p)
        BY <1>1 DEF TurnOK, HeldOpen, ToolsLive
    <2>2. s.tools[c].id = <<"call", c>>
        BY <1>1 DEF TurnOK, RecordsGood
    <2>3. Entry(s.tools[c]).id \in Names(s.p)
        BY <2>1, LiveNames
    <2> QED BY <2>2, <2>3, EntryFields
<1>2. ASSUME c \in DOMAIN s.agents PROVE FALSE
    <2>1. Entry(s.agents[c]) \in LiveItems(s.p)
        BY <1>2 DEF TurnOK, HeldOpen, AgentsLive
    <2>2. s.agents[c].id = <<"call", c>>
        BY <1>2 DEF TurnOK, RecordsGood
    <2>3. Entry(s.agents[c]).id \in Names(s.p)
        BY <2>1, LiveNames
    <2> QED BY <2>2, <2>3, EntryFields
<1> QED BY <1>1, <1>2

LEMMA ToolItemIs ==
    ASSUME NEW c \in ToolCalls, NEW type \in {"tool", "todo", "edit"}, NEW parsed,
           NEW i, i = ToolItem(c, type, parsed)
    PROVE  /\ i \in ItemRecords /\ i.id = <<"call", c>> /\ i.type = type /\ i.text = <<>>
           /\ i.done = "no" /\ ~i.wire
<1>1. PICK id : id = <<"call", c>>
    OBVIOUS
<1>2. PICK new : new = NewItem(id, type)
    OBVIOUS
<1>3. id \in ItemIds /\ type \in ItemTypes
    BY <1>1 DEF ItemIds, ItemTypes
<1>4. /\ new \in ItemRecords /\ new.id = id /\ new.type = type /\ new.text = <<>>
      /\ new.done = "no" /\ ~new.wire
    BY <1>2, <1>3, NewItemIs
<1>5. PICK edits : edits = IF type = "edit" /\ parsed THEN {[call |-> c, by |-> "arguments"]} ELSE {}
    OBVIOUS
<1>6. edits \in SUBSET FileEdits
    BY <1>5 DEF FileEdits
<1>7. i = [new EXCEPT !.edits = edits]
    BY <1>1, <1>2, <1>5 DEF ToolItem
<1> QED BY <1>1, <1>4, <1>6, <1>7 DEF ItemRecords

LEMMA StartToolOK ==
    ASSUME NEW s, TurnOK(s), ~s.p.completed, NEW c \in ToolCalls, <<"call", c>> \notin Names(s.p),
           NEW item \in ItemRecords, item.id = <<"call", c>>, item.type \in {"tool", "todo", "edit"},
           item.text = <<>>, item.done = "no", ~item.wire,
           NEW t, t = StartTool(s, c, item)
    PROVE  /\ TurnOK(t) /\ TextsKept(t, s) /\ DOMAIN t.tools = DOMAIN s.tools \cup {c}
           /\ t.agents = s.agents /\ CallIds(t.p) = CallIds(s.p) \cup {<<"call", c>>}
<1>1. PICK id : id = <<"call", c>>
    OBVIOUS
<1>2. id[1] = "call" /\ id[2] = c
    BY <1>1
<1>3. PICK q : q = StartItem(s.p, item)
    OBVIOUS
<1>4. PICK tools : tools = [x \in DOMAIN s.tools \cup {c} |-> IF x = c THEN item ELSE s.tools[x]]
    OBVIOUS
<1>5. t = [s EXCEPT !.tools = tools, !.p = q]
    BY <1>3, <1>4 DEF StartTool
<1>6. /\ t.p = q /\ t.speaking = s.speaking /\ t.item = s.item /\ t.assistant = s.assistant
      /\ t.texts = s.texts /\ t.thinking = s.thinking /\ t.thoughts = s.thoughts
      /\ t.tools = tools /\ t.agents = s.agents /\ t.compacting = s.compacting
      /\ t.compactions = s.compactions /\ t.asks = s.asks /\ t.outcome = s.outcome
      /\ DOMAIN t = DOMAIN s
    BY <1>5 DEF TurnOK, TurnTyped, TurnFields
<1>7. c \notin DOMAIN s.tools /\ c \notin DOMAIN s.agents
    BY NotCalled
<1>8. /\ DOMAIN tools = DOMAIN s.tools \cup {c} /\ tools[c] = item
      /\ \A x \in DOMAIN s.tools : tools[x] = s.tools[x]
    BY <1>4, <1>7
<1>9. /\ Sound(q) /\ Same(q, s.p) /\ Names(q) = Names(s.p) \cup {id}
      /\ LiveItems(q) = LiveItems(s.p) \cup {Entry(item)}
    <2>1. PICK p : p = s.p
        OBVIOUS
    <2>2. Sound(p) /\ p.started /\ ~p.completed /\ item.id \notin Names(p) /\ q = StartItem(p, item)
        BY <1>3, <2>1 DEF TurnOK, Accepts
    <2> QED BY <1>1, <2>1, <2>2, StartItemOK
<1>10. TurnTyped(t)
    <2>1. tools \in [DOMAIN tools -> ItemRecords] /\ DOMAIN tools \subseteq ToolCalls
        BY <1>4, <1>8 DEF TurnOK, TurnTyped
    <2> QED BY <1>6, <2>1 DEF TurnOK, TurnTyped
<1>11. RecordsGood(t)
    BY <1>6, <1>7, <1>8 DEF TurnOK, RecordsGood
<1>12. AsksGood(t) /\ Numbered(t)
    BY <1>2, <1>6, <1>9 DEF TurnOK, AsksGood, Numbered, Same
<1>13. /\ TextLive(t) = TextLive(s) /\ ThoughtsLive(t) = ThoughtsLive(s)
       /\ AgentsLive(t) = AgentsLive(s) /\ CompactionLive(t) = CompactionLive(s)
       /\ AsksLive(t.p) = AsksLive(s.p)
    BY <1>6, <1>9 DEF TextLive, ThoughtsLive, AgentsLive, CompactionLive,
                      CompactionItem, AsksLive, Asked, Same
<1>14. ToolsLive(t) = ToolsLive(s) \cup {Entry(item)}
    BY <1>6, <1>8 DEF ToolsLive
<1>15. HeldOpen(t) = HeldOpen(s) \cup {Entry(item)}
    BY <1>13, <1>14 DEF HeldOpen
<1>16. Accepts(t.p) /\ t.p.completed = s.p.completed /\ CallIds(t.p) = CallIds(s.p) \cup {id}
    BY <1>2, <1>6, <1>9 DEF TurnOK, Accepts, Same, CallIds
<1>17. TurnOK(t)
    BY <1>6, <1>9, <1>10, <1>11, <1>12, <1>15, <1>16 DEF TurnOK
<1> QED BY <1>1, <1>6, <1>8, <1>16, <1>17 DEF TextsKept

LEMMA StartAgentOK ==
    ASSUME NEW s, TurnOK(s), ~s.p.completed, NEW c \in ToolCalls, <<"call", c>> \notin Names(s.p),
           NEW background \in BOOLEAN, NEW t, t = StartAgent(s, c, background)
    PROVE  /\ TurnOK(t) /\ TextsKept(t, s) /\ DOMAIN t.agents = DOMAIN s.agents \cup {c}
           /\ t.tools = s.tools /\ CallIds(t.p) = CallIds(s.p) \cup {<<"call", c>>}
<1>1. PICK id : id = <<"call", c>>
    OBVIOUS
<1>2. id \in ItemIds /\ id[1] = "call" /\ id[2] = c
    BY <1>1 DEF ItemIds
<1>3. PICK item : item = NewItem(id, "subagent")
    OBVIOUS
<1>4. /\ item \in ItemRecords /\ item.id = id /\ item.type = "subagent" /\ item.text = <<>>
      /\ item.done = "no" /\ ~item.wire
    <2>1. PICK type \in ItemTypes : type = "subagent"
        BY DEF ItemTypes
    <2> QED BY <1>2, <1>3, <2>1, NewItemIs
<1>5. PICK q : q = StartItem(s.p, item)
    OBVIOUS
<1>6. PICK agents : agents = [x \in DOMAIN s.agents \cup {c} |-> IF x = c THEN item
                                                                 ELSE s.agents[x]]
    OBVIOUS
<1>7. PICK working : t = [s EXCEPT !.agents = agents, !.working = working, !.p = q]
    BY <1>1, <1>3, <1>5, <1>6 DEF StartAgent
<1>8. /\ t.p = q /\ t.speaking = s.speaking /\ t.item = s.item /\ t.assistant = s.assistant
      /\ t.texts = s.texts /\ t.thinking = s.thinking /\ t.thoughts = s.thoughts
      /\ t.tools = s.tools /\ t.agents = agents /\ t.compacting = s.compacting
      /\ t.compactions = s.compactions /\ t.asks = s.asks /\ t.outcome = s.outcome
      /\ DOMAIN t = DOMAIN s
    BY <1>7 DEF TurnOK, TurnTyped, TurnFields
<1>9. c \notin DOMAIN s.tools /\ c \notin DOMAIN s.agents
    BY NotCalled
<1>10. /\ DOMAIN agents = DOMAIN s.agents \cup {c} /\ agents[c] = item
       /\ \A x \in DOMAIN s.agents : agents[x] = s.agents[x]
    BY <1>6, <1>9
<1>11. /\ Sound(q) /\ Same(q, s.p) /\ Names(q) = Names(s.p) \cup {id}
       /\ LiveItems(q) = LiveItems(s.p) \cup {Entry(item)}
    <2>1. PICK p : p = s.p
        OBVIOUS
    <2>2. Sound(p) /\ p.started /\ ~p.completed /\ item.id \notin Names(p) /\ q = StartItem(p, item)
        BY <1>1, <1>4, <1>5, <2>1 DEF TurnOK, Accepts
    <2> QED BY <1>4, <2>1, <2>2, StartItemOK
<1>12. TurnTyped(t)
    <2>1. agents \in [DOMAIN agents -> ItemRecords] /\ DOMAIN agents \subseteq ToolCalls
        BY <1>4, <1>6, <1>10 DEF TurnOK, TurnTyped
    <2> QED BY <1>8, <2>1 DEF TurnOK, TurnTyped
<1>13. RecordsGood(t)
    BY <1>1, <1>4, <1>8, <1>9, <1>10 DEF TurnOK, RecordsGood
<1>14. AsksGood(t) /\ Numbered(t)
    BY <1>2, <1>8, <1>11 DEF TurnOK, AsksGood, Numbered, Same
<1>15. /\ TextLive(t) = TextLive(s) /\ ThoughtsLive(t) = ThoughtsLive(s)
       /\ ToolsLive(t) = ToolsLive(s) /\ CompactionLive(t) = CompactionLive(s)
       /\ AsksLive(t.p) = AsksLive(s.p)
    BY <1>8, <1>11 DEF TextLive, ThoughtsLive, ToolsLive, CompactionLive,
                       CompactionItem, AsksLive, Asked, Same
<1>16. AgentsLive(t) = AgentsLive(s) \cup {Entry(item)}
    BY <1>8, <1>10 DEF AgentsLive
<1>17. HeldOpen(t) = HeldOpen(s) \cup {Entry(item)}
    BY <1>15, <1>16 DEF HeldOpen
<1>18. Accepts(t.p) /\ t.p.completed = s.p.completed /\ CallIds(t.p) = CallIds(s.p) \cup {id}
    BY <1>2, <1>8, <1>11 DEF TurnOK, Accepts, Same, CallIds
<1>19. TurnOK(t)
    BY <1>8, <1>11, <1>12, <1>13, <1>14, <1>17, <1>18 DEF TurnOK
<1> QED BY <1>1, <1>8, <1>10, <1>18, <1>19 DEF TextsKept

LEMMA UpdateAgentOK ==
    ASSUME NEW s, TurnOK(s), ~s.p.completed, NEW c, NEW t, t = UpdateAgent(s, c)
    PROVE  TurnOK(t) /\ OthersKept(t, s)
<1>1. CASE c \notin DOMAIN s.agents
    <2>1. t = s
        BY <1>1 DEF UpdateAgent
    <2> QED BY <2>1 DEF OthersKept
<1>2. CASE c \in DOMAIN s.agents
    <2>1. PICK item, p : item = s.agents[c] /\ p = s.p
        OBVIOUS
    <2>2. PICK q : q = ReplacesSubagents(p, item.id)
        OBVIOUS
    <2>3. item \in ItemRecords /\ item.type = "subagent" /\ Entry(item) \in LiveItems(p)
        BY <1>2, <2>1 DEF TurnOK, TurnTyped, RecordsGood, HeldOpen, AgentsLive
    <2>4. Sound(q) /\ Alike(q, p)
        BY <2>1, <2>2, <2>3, ReplacesSubagentsOK DEF TurnOK
    <2>5. t = [s EXCEPT !.p = q]
        BY <1>2, <2>1, <2>2 DEF UpdateAgent
    <2>6. /\ t.p = q /\ t.speaking = s.speaking /\ t.item = s.item /\ t.assistant = s.assistant
          /\ t.texts = s.texts /\ t.thinking = s.thinking /\ t.thoughts = s.thoughts
          /\ t.tools = s.tools /\ t.agents = s.agents /\ t.compacting = s.compacting
          /\ t.compactions = s.compactions /\ t.asks = s.asks /\ t.outcome = s.outcome
          /\ DOMAIN t = DOMAIN s
        BY <2>5 DEF TurnOK, TurnTyped, TurnFields
    <2>7. TurnTyped(t)
        BY <2>6 DEF TurnOK, TurnTyped
    <2>8. RecordsGood(t)
        BY <2>6 DEF TurnOK, RecordsGood
    <2>9. AsksGood(t) /\ Numbered(t)
        BY <2>1, <2>4, <2>6 DEF TurnOK, AsksGood, Numbered, Alike, Same
    <2>10. AsksLive(t.p) = AsksLive(s.p)
        BY <2>1, <2>4, <2>6 DEF AsksLive, Asked, Alike, Same
    <2>11. HeldOpen(t) = HeldOpen(s)
        BY <2>6, <2>10 DEF HeldOpen, TextLive, ThoughtsLive, ToolsLive, AgentsLive,
                           CompactionLive, CompactionItem
    <2>12. Accepts(t.p) /\ t.p.completed = s.p.completed /\ CallIds(t.p) = CallIds(s.p)
        BY <2>1, <2>4, <2>6 DEF TurnOK, Accepts, Alike, Same, CallIds
    <2>13. TurnOK(t)
        BY <2>1, <2>4, <2>6, <2>7, <2>8, <2>9, <2>11, <2>12 DEF TurnOK, Alike
    <2> QED BY <2>6, <2>12, <2>13 DEF OthersKept
<1> QED BY <1>1, <1>2

(* The Item of the change a call made: it begins and ends at once. *)
LEMMA FileShownOK ==
    ASSUME NEW p, Sound(p), p.started, ~p.completed, NEW item \in ItemRecords,
           item.id \notin Names(p), item.done = "no", ~item.wire, item.text = <<>>,
           \A a \in p.open : ~ (a.type = "question" /\ a.item = item.id),
           NEW outcome \in Outcomes, NEW q, q = CompleteItem(StartItem(p, item), item, outcome)
    PROVE  /\ Sound(q) /\ Same(q, p) /\ Names(q) = Names(p) \cup {item.id}
           /\ LiveItems(q) = LiveItems(p)
<1>1. PICK o : o = StartItem(p, item)
    OBVIOUS
<1>2. /\ Sound(o) /\ Same(o, p) /\ Names(o) = Names(p) \cup {item.id}
      /\ LiveItems(o) = LiveItems(p) \cup {Entry(item)}
    BY <1>1, StartItemOK
<1>3. /\ Entry(item) \in LiveItems(o) /\ ~o.completed
      /\ \A a \in o.open : ~ (a.type = "question" /\ a.item = item.id)
    BY <1>2 DEF Same
<1>4. q = CompleteItem(o, item, outcome)
    BY <1>1
<1>5. /\ Sound(q) /\ Same(q, o) /\ Names(q) = Names(o)
      /\ LiveItems(q) = LiveItems(o) \ {Entry(item)}
    BY <1>2, <1>3, <1>4, CompleteItemOK
<1>6. Entry(item) \notin LiveItems(p)
    <2>1. Entry(item).id = item.id
        BY EntryFields
    <2> QED BY <2>1, LiveNames
<1> QED BY <1>2, <1>5, <1>6 DEF Same

LEMMA CompleteToolOK ==
    ASSUME NEW s, TurnOK(s), ~s.p.completed, NEW c \in DOMAIN s.tools,
           <<"file", c>> \notin Names(s.p), NEW isError \in BOOLEAN, NEW reported \in BOOLEAN,
           NEW t, t = CompleteTool(s, c, isError, reported)
    PROVE  /\ TurnOK(t) /\ TextsKept(t, s) /\ DOMAIN t.tools = DOMAIN s.tools \ {c}
           /\ t.agents = s.agents /\ CallIds(t.p) \subseteq CallIds(s.p) \cup {<<"file", c>>}
<1>1. PICK id : id = <<"file", c>>
    OBVIOUS
<1>2. id \in ItemIds /\ id[1] = "file" /\ id[2] = c
    BY <1>1 DEF ItemIds, TurnOK, TurnTyped
<1>3. PICK item, p : item = s.tools[c] /\ p = s.p
    OBVIOUS
<1>4. item \in ItemRecords /\ item.id = <<"call", c>> /\ item.id[1] = "call"
    BY <1>3 DEF TurnOK, TurnTyped, RecordsGood
<1>5. PICK new : new = NewItem(id, "fileChange")
    OBVIOUS
<1>6. /\ new \in ItemRecords /\ new.id = id /\ new.type = "fileChange" /\ new.text = <<>>
      /\ new.done = "no" /\ ~new.wire
    <2>1. PICK type \in ItemTypes : type = "fileChange"
        BY DEF ItemTypes
    <2> QED BY <1>2, <1>5, <2>1, NewItemIs
<1>7. PICK edits, sources : edits = {[call |-> c, by |-> "result"]} /\ sources = {item.id}
    OBVIOUS
<1>8. edits \in SUBSET FileEdits /\ sources \in SUBSET ItemIds
    BY <1>4, <1>7 DEF FileEdits, ItemIds, ItemRecords, TurnOK, TurnTyped
<1>9. PICK file : file = [new EXCEPT !.edits = edits, !.sources = sources]
    OBVIOUS
<1>10. /\ file \in ItemRecords /\ file.id = id /\ file.text = <<>>
       /\ file.done = "no" /\ ~file.wire
    BY <1>6, <1>8, <1>9 DEF ItemRecords
<1>11. PICK outcome \in Outcomes : outcome = IF s.cancelled THEN "cancelled"
                                             ELSE IF isError THEN "failed" ELSE "succeeded"
    BY DEF Outcomes
<1>12. PICK q : q = CompleteItem(p, item, outcome)
    OBVIOUS
<1>13. Entry(item) \in LiveItems(p) /\ Entry(item) \in ToolsLive(s)
    BY <1>3 DEF TurnOK, HeldOpen, ToolsLive
<1>14. Sound(p) /\ ~p.completed
    BY <1>3 DEF TurnOK
<1>15. \A a \in p.open : ~ (a.type = "question" /\ a.item = item.id)
    BY <1>3, <1>4, NoQuestionOf DEF TurnOK
<1>16. /\ Sound(q) /\ Same(q, p) /\ Names(q) = Names(p)
       /\ LiveItems(q) = LiveItems(p) \ {Entry(item)}
    BY <1>4, <1>12, <1>13, <1>14, <1>15, CompleteItemOK
<1>17. PICK yes \in Outcomes : yes = "succeeded"
    BY DEF Outcomes
<1>18. PICK r : r = IF outcome = "succeeded" /\ reported
                    THEN CompleteItem(StartItem(q, file), file, yes) ELSE q
    OBVIOUS
<1>19. /\ Sound(r) /\ Same(r, p) /\ Names(r) \subseteq Names(p) \cup {id}
       /\ LiveItems(r) = LiveItems(p) \ {Entry(item)}
    <2>1. CASE r = q
        BY <1>16, <2>1
    <2>2. CASE r = CompleteItem(StartItem(q, file), file, yes)
        <3>1. q.started /\ ~q.completed /\ file.id \notin Names(q)
            BY <1>1, <1>3, <1>10, <1>16 DEF Same, TurnOK, Accepts
        <3>2. \A a \in q.open : ~ (a.type = "question" /\ a.item = file.id)
            <4>1. \A a \in s.p.open : ~ (a.type = "question" /\ a.item = id)
                BY <1>2, NoQuestionOf DEF TurnOK
            <4> QED BY <1>3, <1>10, <1>16, <4>1 DEF Same
        <3>3. /\ Sound(r) /\ Same(r, q) /\ Names(r) = Names(q) \cup {file.id}
              /\ LiveItems(r) = LiveItems(q)
            BY <1>10, <1>16, <2>2, <3>1, <3>2, FileShownOK
        <3> QED BY <1>10, <1>16, <3>3 DEF Same
    <2> QED BY <1>18, <2>1, <2>2
<1>20. PICK tools : tools = [x \in DOMAIN s.tools \ {c} |-> s.tools[x]]
    OBVIOUS
<1>21. t = [s EXCEPT !.tools = tools, !.p = r]
    <2>1. PICK done : done = [s EXCEPT !.tools = tools, !.p = q]
        OBVIOUS
    <2>2. t = IF outcome = "succeeded" /\ reported
              THEN [done EXCEPT !.p = CompleteItem(StartItem(@, file), file, "succeeded")] ELSE done
        BY <1>1, <1>3, <1>5, <1>7, <1>9, <1>11, <1>12, <1>20, <2>1 DEF CompleteTool
    <2>3. done.p = q
        BY <2>1 DEF TurnOK, TurnTyped, TurnFields
    <2>4. CASE outcome = "succeeded" /\ reported
        <3>1. t = [done EXCEPT !.p = r]
            BY <1>17, <1>18, <2>2, <2>3, <2>4
        <3> QED BY <2>1, <3>1
    <2>5. CASE ~ (outcome = "succeeded" /\ reported)
        BY <1>18, <2>1, <2>2, <2>5
    <2> QED BY <2>4, <2>5
<1>22. /\ t.p = r /\ t.speaking = s.speaking /\ t.item = s.item /\ t.assistant = s.assistant
       /\ t.texts = s.texts /\ t.thinking = s.thinking /\ t.thoughts = s.thoughts
       /\ t.tools = tools /\ t.agents = s.agents /\ t.compacting = s.compacting
       /\ t.compactions = s.compactions /\ t.asks = s.asks /\ t.outcome = s.outcome
       /\ DOMAIN t = DOMAIN s
    BY <1>21 DEF TurnOK, TurnTyped, TurnFields
<1>23. /\ DOMAIN tools = DOMAIN s.tools \ {c} /\ \A x \in DOMAIN tools : tools[x] = s.tools[x]
       /\ tools \in [DOMAIN tools -> ItemRecords]
    BY <1>20 DEF TurnOK, TurnTyped
<1>24. TurnTyped(t)
    BY <1>22, <1>23 DEF TurnOK, TurnTyped
<1>25. RecordsGood(t)
    BY <1>22, <1>23 DEF TurnOK, RecordsGood
<1>26. AsksGood(t)
    BY <1>3, <1>19, <1>22 DEF TurnOK, AsksGood, Same
<1>27. Numbered(t)
    BY <1>2, <1>3, <1>19, <1>22 DEF TurnOK, Numbered
<1>28. /\ TextLive(t) = TextLive(s) /\ ThoughtsLive(t) = ThoughtsLive(s)
       /\ AgentsLive(t) = AgentsLive(s) /\ CompactionLive(t) = CompactionLive(s)
       /\ AsksLive(t.p) = AsksLive(s.p)
    BY <1>3, <1>19, <1>22 DEF TextLive, ThoughtsLive, AgentsLive, CompactionLive,
                              CompactionItem, AsksLive, Asked, Same
<1>29. ToolsLive(t) = ToolsLive(s) \ {Entry(item)}
    <2>1. \A x \in DOMAIN s.tools : Entry(s.tools[x]) = Entry(item) => x = c
        <3>1. \A x \in DOMAIN s.tools : s.tools[x].id = <<"call", x>>
            BY DEF TurnOK, RecordsGood
        <3> QED BY <1>3, <3>1, EntryIs
    <2> QED BY <1>3, <1>22, <1>23, <2>1 DEF ToolsLive
<1>30. Entry(item) \notin TextLive(s) \cup ThoughtsLive(s) \cup AgentsLive(s)
                               \cup CompactionLive(s) \cup AsksLive(s.p)
    <2>1. Entry(item).id[1] = "call" /\ Entry(item).id[2] = c /\ c \notin DOMAIN s.agents
        BY <1>4, EntryFields DEF TurnOK, RecordsGood
    <2> QED BY <2>1, KindsApart DEF TurnOK
<1>31. HeldOpen(t) = HeldOpen(s) \ {Entry(item)}
    BY <1>28, <1>29, <1>30 DEF HeldOpen
<1>32. /\ Accepts(t.p) /\ t.p.completed = s.p.completed
       /\ CallIds(t.p) \subseteq CallIds(s.p) \cup {id}
    BY <1>2, <1>3, <1>19, <1>22 DEF TurnOK, Accepts, Same, CallIds
<1>33. TurnOK(t)
    BY <1>3, <1>19, <1>22, <1>24, <1>25, <1>26, <1>27, <1>31, <1>32 DEF TurnOK
<1> QED BY <1>1, <1>22, <1>23, <1>32, <1>33 DEF TextsKept

LEMMA CompleteAgentOK ==
    ASSUME NEW s, TurnOK(s), ~s.p.completed, NEW c \in DOMAIN s.agents,
           NEW isError \in BOOLEAN, NEW goesOn \in BOOLEAN,
           NEW t, t = CompleteAgent(s, c, isError, goesOn)
    PROVE  /\ TurnOK(t) /\ TextsKept(t, s) /\ DOMAIN t.agents = DOMAIN s.agents \ {c}
           /\ t.tools = s.tools /\ CallIds(t.p) = CallIds(s.p)
<1>1. PICK item, p : item = s.agents[c] /\ p = s.p
    OBVIOUS
<1>2. /\ item \in ItemRecords /\ item.id = <<"call", c>> /\ item.id[1] = "call"
      /\ item.type = "subagent"
    BY <1>1 DEF TurnOK, TurnTyped, RecordsGood
<1>3. PICK outcome \in Outcomes : outcome = IF s.cancelled THEN "cancelled"
                                            ELSE IF isError THEN "failed" ELSE "succeeded"
    BY DEF Outcomes
<1>4. PICK o, q : o = ReplacesSubagents(p, item.id) /\ q = CompleteItem(o, item, outcome)
    OBVIOUS
<1>5. Entry(item) \in LiveItems(p) /\ Entry(item) \in AgentsLive(s)
    BY <1>1 DEF TurnOK, HeldOpen, AgentsLive
<1>6. Sound(p) /\ ~p.completed
    BY <1>1 DEF TurnOK
<1>7. \A a \in p.open : ~ (a.type = "question" /\ a.item = item.id)
    BY <1>1, <1>2, NoQuestionOf DEF TurnOK
<1>8. Sound(o) /\ Alike(o, p)
    BY <1>2, <1>4, <1>5, <1>6, ReplacesSubagentsOK
<1>9. /\ Entry(item) \in LiveItems(o) /\ ~o.completed
      /\ \A a \in o.open : ~ (a.type = "question" /\ a.item = item.id)
    BY <1>5, <1>6, <1>7, <1>8 DEF Alike, Same
<1>10. /\ Sound(q) /\ Same(q, o) /\ Names(q) = Names(o)
       /\ LiveItems(q) = LiveItems(o) \ {Entry(item)}
    BY <1>2, <1>4, <1>8, <1>9, CompleteItemOK
<1>11. /\ Same(q, p) /\ Names(q) = Names(p) /\ LiveItems(q) = LiveItems(p) \ {Entry(item)}
    BY <1>8, <1>10 DEF Alike, Same
<1>12. PICK agents : agents = [x \in DOMAIN s.agents \ {c} |-> s.agents[x]]
    OBVIOUS
<1>13. PICK working : t = [s EXCEPT !.agents = agents, !.working = working, !.p = q]
    BY <1>1, <1>3, <1>4, <1>12 DEF CompleteAgent
<1>14. /\ t.p = q /\ t.speaking = s.speaking /\ t.item = s.item /\ t.assistant = s.assistant
       /\ t.texts = s.texts /\ t.thinking = s.thinking /\ t.thoughts = s.thoughts
       /\ t.tools = s.tools /\ t.agents = agents /\ t.compacting = s.compacting
       /\ t.compactions = s.compactions /\ t.asks = s.asks /\ t.outcome = s.outcome
       /\ DOMAIN t = DOMAIN s
    BY <1>13 DEF TurnOK, TurnTyped, TurnFields
<1>15. /\ DOMAIN agents = DOMAIN s.agents \ {c} /\ \A x \in DOMAIN agents : agents[x] = s.agents[x]
       /\ agents \in [DOMAIN agents -> ItemRecords]
    BY <1>12 DEF TurnOK, TurnTyped
<1>16. TurnTyped(t)
    BY <1>14, <1>15 DEF TurnOK, TurnTyped
<1>17. RecordsGood(t)
    BY <1>14, <1>15 DEF TurnOK, RecordsGood
<1>18. AsksGood(t) /\ Numbered(t)
    BY <1>1, <1>11, <1>14 DEF TurnOK, AsksGood, Numbered, Same
<1>19. /\ TextLive(t) = TextLive(s) /\ ThoughtsLive(t) = ThoughtsLive(s)
       /\ ToolsLive(t) = ToolsLive(s) /\ CompactionLive(t) = CompactionLive(s)
       /\ AsksLive(t.p) = AsksLive(s.p)
    BY <1>1, <1>11, <1>14 DEF TextLive, ThoughtsLive, ToolsLive, CompactionLive,
                              CompactionItem, AsksLive, Asked, Same
<1>20. AgentsLive(t) = AgentsLive(s) \ {Entry(item)}
    <2>1. \A x \in DOMAIN s.agents : Entry(s.agents[x]) = Entry(item) => x = c
        <3>1. \A x \in DOMAIN s.agents : s.agents[x].id = <<"call", x>>
            BY DEF TurnOK, RecordsGood
        <3> QED BY <1>1, <3>1, EntryIs
    <2> QED BY <1>1, <1>14, <1>15, <2>1 DEF AgentsLive
<1>21. Entry(item) \notin TextLive(s) \cup ThoughtsLive(s) \cup ToolsLive(s)
                               \cup CompactionLive(s) \cup AsksLive(s.p)
    <2>1. Entry(item).id[1] = "call" /\ Entry(item).id[2] = c /\ c \notin DOMAIN s.tools
        BY <1>2, EntryFields DEF TurnOK, RecordsGood
    <2> QED BY <2>1, KindsApart DEF TurnOK
<1>22. HeldOpen(t) = HeldOpen(s) \ {Entry(item)}
    BY <1>19, <1>20, <1>21 DEF HeldOpen
<1>23. Accepts(t.p) /\ t.p.completed = s.p.completed /\ CallIds(t.p) = CallIds(s.p)
    BY <1>1, <1>11, <1>14 DEF TurnOK, Accepts, Same, CallIds
<1>24. TurnOK(t)
    BY <1>1, <1>10, <1>11, <1>14, <1>16, <1>17, <1>18, <1>22, <1>23 DEF TurnOK
<1> QED BY <1>14, <1>15, <1>23, <1>24 DEF TextsKept

(* The Items left open when execution ends. *)
LEMMA CompleteEachOK ==
    ASSUME NEW p, Sound(p), ~p.completed, NEW left, IsFiniteSet(DOMAIN left),
           left \in [DOMAIN left -> ItemRecords],
           \A c \in DOMAIN left : Entry(left[c]) \in LiveItems(p),
           \A c, d \in DOMAIN left : left[c].id = left[d].id => c = d,
           \A c \in DOMAIN left : \A a \in p.open : ~ (a.type = "question" /\ a.item = left[c].id),
           NEW outcome \in Outcomes, NEW q, q = CompleteEach(p, left, outcome)
    PROVE  /\ Sound(q) /\ Same(q, p) /\ Names(q) = Names(p)
           /\ LiveItems(q) = LiveItems(p) \ {Entry(left[c]) : c \in DOMAIN left}
<1>1. PICK D : D = DOMAIN left
    OBVIOUS
<1>2. PICK h : Rounds("items", left, outcome, p, DOMAIN left, h) /\ q = h[DOMAIN left]
    BY ItemsRounds
<1>3. h[{}] = p /\ \A E \in SUBSET D : E # {} =>
                       h[E] = CompleteItem(h[E \ {Some(E)}], left[Some(E)], outcome)
    <2>1. PICK k : k = "items"
        OBVIOUS
    <2>2. Rounds(k, left, outcome, p, D, h)
        BY <1>1, <1>2, <2>1
    <2>3. h = [E \in SUBSET D |-> IF E = {} THEN p ELSE
                                  FoldStep(k, left, outcome, Some(E), h[E \ {Some(E)}])]
        BY <2>2, Zenon DEF Rounds
    <2>4. \A E \in SUBSET D : h[E] = IF E = {} THEN p ELSE
                                  FoldStep(k, left, outcome, Some(E), h[E \ {Some(E)}])
        BY <2>3, Zenon
    <2> QED BY <2>1, <2>4 DEF FoldStep
<1> DEFINE Fine(E) == /\ Sound(h[E]) /\ Same(h[E], p) /\ Names(h[E]) = Names(p)
                      /\ LiveItems(h[E]) = LiveItems(p) \ {Entry(left[c]) : c \in E}
<1>4. PICK T : T = {E \in SUBSET D : Fine(E)}
    OBVIOUS
<1>5. {} \in T
    <2>1. Fine({})
        BY <1>3 DEF Same
    <2> QED BY <1>4, <2>1
<1>6. ASSUME NEW E \in SUBSET D, E # {}, E \ {Some(E)} \in T PROVE E \in T
    <2>1. PICK c, u, v : c = Some(E) /\ u = h[E \ {c}] /\ v = h[E]
        OBVIOUS
    <2>2. /\ Sound(u) /\ Same(u, p) /\ Names(u) = Names(p)
          /\ LiveItems(u) = LiveItems(p) \ {Entry(left[x]) : x \in E \ {c}}
        BY <1>4, <1>6, <2>1
    <2>3. c \in E
        BY <1>6, <2>1 DEF Some
    <2>4. PICK item : item = left[c]
        OBVIOUS
    <2>5. v = CompleteItem(u, item, outcome)
        BY <1>3, <1>6, <2>1, <2>4
    <2>6. item \in ItemRecords
        BY <1>1, <2>3, <2>4
    <2>7. \A x \in E \ {c} : Entry(left[x]) # Entry(item)
        BY <1>1, <2>3, <2>4, EntryIs
    <2>8. Entry(item) \in LiveItems(u)
        BY <1>1, <2>2, <2>3, <2>4, <2>7
    <2>9. ~u.completed /\ \A a \in u.open : ~ (a.type = "question" /\ a.item = item.id)
        BY <1>1, <2>2, <2>3, <2>4 DEF Same
    <2>10. /\ Sound(v) /\ Same(v, u) /\ Names(v) = Names(u)
           /\ LiveItems(v) = LiveItems(u) \ {Entry(item)}
        BY <2>2, <2>5, <2>6, <2>8, <2>9, CompleteItemOK
    <2>11. LiveItems(v) = LiveItems(p) \ {Entry(left[x]) : x \in E}
        BY <2>2, <2>3, <2>4, <2>10
    <2>12. Same(v, p) /\ Names(v) = Names(p)
        BY <2>2, <2>10 DEF Same
    <2> QED BY <1>4, <2>1, <2>10, <2>11, <2>12
<1>7. D \in T
    <2>1. T \in SUBSET SUBSET D
        BY <1>4
    <2> QED BY <1>1, <1>5, <1>6, <2>1, SetInduction
<1> QED BY <1>1, <1>2, <1>4, <1>7

LEMMA FinalizeToolsOK ==
    ASSUME NEW s, TurnOK(s), ~s.p.completed, NEW outcome \in Outcomes,
           NEW t, t = FinalizeTools(s, outcome)
    PROVE  /\ TurnOK(t) /\ TextsKept(t, s) /\ DOMAIN t.tools = {} /\ t.agents = s.agents
           /\ CallIds(t.p) = CallIds(s.p)
<1>1. PICK p, left : p = s.p /\ left = s.tools
    OBVIOUS
<1>2. PICK q : q = CompleteEach(p, left, outcome)
    OBVIOUS
<1>3. /\ left \in [DOMAIN left -> ItemRecords] /\ IsFiniteSet(DOMAIN left)
      /\ \A c \in DOMAIN left : left[c].id = <<"call", c>>
      /\ \A c, d \in DOMAIN left : left[c].id = left[d].id => c = d
    <2>1. IsFiniteSet(DOMAIN left)
        BY <1>1, FS_Subset, ItemAssumption DEF TurnOK, TurnTyped
    <2>2. \A c \in DOMAIN left : left[c].id = <<"call", c>>
        BY <1>1 DEF TurnOK, RecordsGood
    <2>3. left \in [DOMAIN left -> ItemRecords]
        BY <1>1 DEF TurnOK, TurnTyped
    <2> QED BY <2>1, <2>2, <2>3
<1>4. \A c \in DOMAIN left : Entry(left[c]) \in LiveItems(p)
    BY <1>1 DEF TurnOK, HeldOpen, ToolsLive
<1>5. \A c \in DOMAIN left : \A a \in p.open : ~ (a.type = "question" /\ a.item = left[c].id)
    <2>1. ASSUME NEW c \in DOMAIN left
          PROVE  \A a \in p.open : ~ (a.type = "question" /\ a.item = left[c].id)
        <3>1. left[c].id[1] # "ask"
            BY <1>3
        <3> QED BY <1>1, <3>1, NoQuestionOf DEF TurnOK
    <2> QED BY <2>1
<1>6. /\ Sound(q) /\ Same(q, p) /\ Names(q) = Names(p)
      /\ LiveItems(q) = LiveItems(p) \ {Entry(left[c]) : c \in DOMAIN left}
    <2>1. Sound(p) /\ ~p.completed
        BY <1>1 DEF TurnOK
    <2> QED BY <1>2, <1>3, <1>4, <1>5, <2>1, CompleteEachOK
<1>7. PICK tools : tools = [x \in {} |-> NewItem(NoItem, "tool")]
    OBVIOUS
<1>8. t = [s EXCEPT !.tools = tools, !.p = q]
    BY <1>1, <1>2, <1>7 DEF FinalizeTools
<1>9. /\ t.p = q /\ t.speaking = s.speaking /\ t.item = s.item /\ t.assistant = s.assistant
      /\ t.texts = s.texts /\ t.thinking = s.thinking /\ t.thoughts = s.thoughts
      /\ t.tools = tools /\ t.agents = s.agents /\ t.compacting = s.compacting
      /\ t.compactions = s.compactions /\ t.asks = s.asks /\ t.outcome = s.outcome
      /\ DOMAIN t = DOMAIN s
    BY <1>8 DEF TurnOK, TurnTyped, TurnFields
<1>10. DOMAIN tools = {} /\ tools \in [DOMAIN tools -> ItemRecords]
    BY <1>7
<1>11. TurnTyped(t)
    BY <1>9, <1>10 DEF TurnOK, TurnTyped
<1>12. RecordsGood(t)
    BY <1>9, <1>10 DEF TurnOK, RecordsGood
<1>13. AsksGood(t) /\ Numbered(t)
    BY <1>1, <1>6, <1>9 DEF TurnOK, AsksGood, Numbered, Same
<1>14. /\ TextLive(t) = TextLive(s) /\ ThoughtsLive(t) = ThoughtsLive(s)
       /\ AgentsLive(t) = AgentsLive(s) /\ CompactionLive(t) = CompactionLive(s)
       /\ AsksLive(t.p) = AsksLive(s.p)
    BY <1>1, <1>6, <1>9 DEF TextLive, ThoughtsLive, AgentsLive, CompactionLive,
                            CompactionItem, AsksLive, Asked, Same
<1>15. ToolsLive(t) = {} /\ ToolsLive(s) = {Entry(left[c]) : c \in DOMAIN left}
    BY <1>1, <1>9, <1>10 DEF ToolsLive
<1>16. \A e \in ToolsLive(s) : e \notin TextLive(s) \cup ThoughtsLive(s) \cup AgentsLive(s)
                               \cup CompactionLive(s) \cup AsksLive(s.p)
    <2>1. DOMAIN s.tools \cap DOMAIN s.agents = {}
        BY DEF TurnOK, RecordsGood
    <2> QED BY <2>1, KindsApart DEF TurnOK
<1>17. HeldOpen(t) = HeldOpen(s) \ ToolsLive(s)
    BY <1>14, <1>15, <1>16 DEF HeldOpen
<1>18. Accepts(t.p) /\ t.p.completed = s.p.completed /\ CallIds(t.p) = CallIds(s.p)
    BY <1>1, <1>6, <1>9 DEF TurnOK, Accepts, Same, CallIds
<1>19. TurnOK(t)
    BY <1>1, <1>6, <1>9, <1>11, <1>12, <1>13, <1>15, <1>17, <1>18 DEF TurnOK
<1> QED BY <1>9, <1>10, <1>18, <1>19 DEF TextsKept

LEMMA FinalizeAgentsOK ==
    ASSUME NEW s, TurnOK(s), ~s.p.completed, NEW outcome \in Outcomes,
           NEW t, t = FinalizeAgents(s, outcome)
    PROVE  /\ TurnOK(t) /\ TextsKept(t, s) /\ DOMAIN t.agents = {} /\ t.tools = s.tools
           /\ CallIds(t.p) = CallIds(s.p)
<1>1. PICK p, left : p = s.p /\ left = s.agents
    OBVIOUS
<1>2. PICK q : q = CompleteEach(p, left, outcome)
    OBVIOUS
<1>3. /\ left \in [DOMAIN left -> ItemRecords] /\ IsFiniteSet(DOMAIN left)
      /\ \A c \in DOMAIN left : left[c].id = <<"call", c>>
      /\ \A c, d \in DOMAIN left : left[c].id = left[d].id => c = d
    <2>1. IsFiniteSet(DOMAIN left)
        BY <1>1, FS_Subset, ItemAssumption DEF TurnOK, TurnTyped
    <2>2. \A c \in DOMAIN left : left[c].id = <<"call", c>>
        BY <1>1 DEF TurnOK, RecordsGood
    <2>3. left \in [DOMAIN left -> ItemRecords]
        BY <1>1 DEF TurnOK, TurnTyped
    <2> QED BY <2>1, <2>2, <2>3
<1>4. \A c \in DOMAIN left : Entry(left[c]) \in LiveItems(p)
    BY <1>1 DEF TurnOK, HeldOpen, AgentsLive
<1>5. \A c \in DOMAIN left : \A a \in p.open : ~ (a.type = "question" /\ a.item = left[c].id)
    <2>1. ASSUME NEW c \in DOMAIN left
          PROVE  \A a \in p.open : ~ (a.type = "question" /\ a.item = left[c].id)
        <3>1. left[c].id[1] # "ask"
            BY <1>3
        <3> QED BY <1>1, <3>1, NoQuestionOf DEF TurnOK
    <2> QED BY <2>1
<1>6. /\ Sound(q) /\ Same(q, p) /\ Names(q) = Names(p)
      /\ LiveItems(q) = LiveItems(p) \ {Entry(left[c]) : c \in DOMAIN left}
    <2>1. Sound(p) /\ ~p.completed
        BY <1>1 DEF TurnOK
    <2> QED BY <1>2, <1>3, <1>4, <1>5, <2>1, CompleteEachOK
<1>7. PICK agents : agents = [x \in {} |-> NewItem(NoItem, "subagent")]
    OBVIOUS
<1>8. t = [s EXCEPT !.agents = agents, !.p = q]
    BY <1>1, <1>2, <1>7 DEF FinalizeAgents
<1>9. /\ t.p = q /\ t.speaking = s.speaking /\ t.item = s.item /\ t.assistant = s.assistant
      /\ t.texts = s.texts /\ t.thinking = s.thinking /\ t.thoughts = s.thoughts
      /\ t.tools = s.tools /\ t.agents = agents /\ t.compacting = s.compacting
      /\ t.compactions = s.compactions /\ t.asks = s.asks /\ t.outcome = s.outcome
      /\ DOMAIN t = DOMAIN s
    BY <1>8 DEF TurnOK, TurnTyped, TurnFields
<1>10. DOMAIN agents = {} /\ agents \in [DOMAIN agents -> ItemRecords]
    BY <1>7
<1>11. TurnTyped(t)
    BY <1>9, <1>10 DEF TurnOK, TurnTyped
<1>12. RecordsGood(t)
    BY <1>9, <1>10 DEF TurnOK, RecordsGood
<1>13. AsksGood(t) /\ Numbered(t)
    BY <1>1, <1>6, <1>9 DEF TurnOK, AsksGood, Numbered, Same
<1>14. /\ TextLive(t) = TextLive(s) /\ ThoughtsLive(t) = ThoughtsLive(s)
       /\ ToolsLive(t) = ToolsLive(s) /\ CompactionLive(t) = CompactionLive(s)
       /\ AsksLive(t.p) = AsksLive(s.p)
    BY <1>1, <1>6, <1>9 DEF TextLive, ThoughtsLive, ToolsLive, CompactionLive,
                            CompactionItem, AsksLive, Asked, Same
<1>15. AgentsLive(t) = {} /\ AgentsLive(s) = {Entry(left[c]) : c \in DOMAIN left}
    BY <1>1, <1>9, <1>10 DEF AgentsLive
<1>16. \A e \in AgentsLive(s) : e \notin TextLive(s) \cup ThoughtsLive(s) \cup ToolsLive(s)
                               \cup CompactionLive(s) \cup AsksLive(s.p)
    <2>1. DOMAIN s.tools \cap DOMAIN s.agents = {}
        BY DEF TurnOK, RecordsGood
    <2> QED BY <2>1, KindsApart DEF TurnOK
<1>17. HeldOpen(t) = HeldOpen(s) \ AgentsLive(s)
    BY <1>14, <1>15, <1>16 DEF HeldOpen
<1>18. Accepts(t.p) /\ t.p.completed = s.p.completed /\ CallIds(t.p) = CallIds(s.p)
    BY <1>1, <1>6, <1>9 DEF TurnOK, Accepts, Same, CallIds
<1>19. TurnOK(t)
    BY <1>1, <1>6, <1>9, <1>11, <1>12, <1>13, <1>15, <1>17, <1>18 DEF TurnOK
<1> QED BY <1>9, <1>10, <1>18, <1>19 DEF TextsKept

(* Compactions. *)
CallsKept(t, s) ==
    /\ t.tools = s.tools /\ t.agents = s.agents /\ t.outcome = s.outcome
    /\ t.p.completed = s.p.completed

LEMMA StartCompactionOK ==
    ASSUME NEW s, TurnOK(s), ~s.p.completed, ~s.compacting, NEW t, t = StartCompaction(s)
    PROVE  /\ TurnOK(t) /\ CallsKept(t, s) /\ t.compacting /\ t.asks = s.asks
           /\ CallIds(t.p) = CallIds(s.p)
<1>1. s.compactions \in Nat
    BY DEF TurnOK, TurnTyped
<1>2. PICK id : id = <<"compaction", s.compactions + 1>>
    OBVIOUS
<1>3. id \in ItemIds /\ id[1] = "compaction" /\ id[2] = s.compactions + 1
    BY <1>1, <1>2 DEF ItemIds
<1>4. PICK item : item = NewItem(id, "compaction")
    OBVIOUS
<1>5. /\ item \in ItemRecords /\ item.id = id /\ item.type = "compaction" /\ item.text = <<>>
      /\ item.done = "no" /\ ~item.wire
    <2>1. PICK type \in ItemTypes : type = "compaction"
        BY DEF ItemTypes
    <2> QED BY <1>3, <1>4, <2>1, NewItemIs
<1>6. PICK q : q = StartItem(s.p, item)
    OBVIOUS
<1>7. t = [s EXCEPT !.compacting = TRUE, !.compactions = s.compactions + 1, !.p = q]
    <2>1. PICK u : u = [s EXCEPT !.compacting = TRUE, !.compactions = s.compactions + 1]
        OBVIOUS
    <2>2. u.compactions = s.compactions + 1 /\ u.p = s.p
        BY <2>1 DEF TurnOK, TurnTyped, TurnFields
    <2>3. CompactionItem(u) = item
        BY <1>2, <1>4, <2>2 DEF CompactionItem
    <2>4. t = [u EXCEPT !.p = StartItem(u.p, CompactionItem(u))]
        BY <2>1 DEF StartCompaction
    <2> QED BY <1>6, <2>1, <2>2, <2>3, <2>4
<1>8. /\ t.p = q /\ t.speaking = s.speaking /\ t.item = s.item
      /\ t.assistant = s.assistant
      /\ t.texts = s.texts /\ t.thinking = s.thinking /\ t.thoughts = s.thoughts
      /\ t.tools = s.tools /\ t.agents = s.agents /\ t.compacting /\ t.compacting \in BOOLEAN
      /\ t.compactions = s.compactions + 1 /\ t.asks = s.asks /\ t.outcome = s.outcome
      /\ DOMAIN t = DOMAIN s
    BY <1>7 DEF TurnOK, TurnTyped, TurnFields
<1>9. id \notin Names(s.p)
    BY <1>1, <1>3 DEF TurnOK, Numbered
<1>10. /\ Sound(q) /\ Same(q, s.p) /\ Names(q) = Names(s.p) \cup {id}
       /\ LiveItems(q) = LiveItems(s.p) \cup {Entry(item)}
    <2>1. PICK p : p = s.p
        OBVIOUS
    <2>2. Sound(p) /\ p.started /\ ~p.completed /\ item.id \notin Names(p) /\ q = StartItem(p, item)
        BY <1>5, <1>6, <1>9, <2>1 DEF TurnOK, Accepts
    <2> QED BY <1>5, <2>1, <2>2, StartItemOK
<1>11. TurnTyped(t)
    BY <1>1, <1>8 DEF TurnOK, TurnTyped
<1>12. RecordsGood(t)
    BY <1>1, <1>8 DEF TurnOK, RecordsGood
<1>13. AsksGood(t)
    BY <1>8, <1>10 DEF TurnOK, AsksGood, Same
<1>14. Numbered(t)
    <2>1. \A x \in Names(s.p) : x[1] = "compaction" => x[2] <= s.compactions /\ x[2] \in Nat
        BY NamesAre DEF TurnOK, Numbered
    <2> QED BY <1>1, <1>3, <1>8, <1>10, <2>1 DEF TurnOK, Numbered
<1>15. /\ ThoughtsLive(t) = ThoughtsLive(s) /\ ToolsLive(t) = ToolsLive(s)
       /\ AgentsLive(t) = AgentsLive(s) /\ TextLive(t) = TextLive(s)
       /\ AsksLive(t.p) = AsksLive(s.p)
    BY <1>8, <1>10 DEF TextLive, ThoughtsLive, ToolsLive, AgentsLive, AsksLive, Asked, Same
<1>16. CompactionLive(t) = {Entry(item)} /\ CompactionLive(s) = {}
    BY <1>2, <1>4, <1>8 DEF CompactionLive, CompactionItem
<1>17. HeldOpen(t) = HeldOpen(s) \cup {Entry(item)}
    BY <1>15, <1>16 DEF HeldOpen
<1>18. Accepts(t.p) /\ t.p.completed = s.p.completed /\ CallIds(t.p) = CallIds(s.p)
    BY <1>3, <1>8, <1>10 DEF TurnOK, Accepts, Same, CallIds
<1>19. TurnOK(t)
    BY <1>8, <1>10, <1>11, <1>12, <1>13, <1>14, <1>17, <1>18 DEF TurnOK
<1> QED BY <1>8, <1>18, <1>19 DEF CallsKept

LEMMA CompactionItemIs ==
    ASSUME NEW s, TurnTyped(s), NEW item, item = CompactionItem(s)
    PROVE  /\ item \in ItemRecords /\ item.id = <<"compaction", s.compactions>>
           /\ item.id[1] = "compaction"
<1>1. PICK id : id = <<"compaction", s.compactions>>
    OBVIOUS
<1>2. id \in ItemIds /\ id[1] = "compaction"
    BY <1>1 DEF ItemIds, TurnTyped
<1>3. PICK type \in ItemTypes : type = "compaction"
    BY DEF ItemTypes
<1>4. item = NewItem(id, type)
    BY <1>1, <1>3 DEF CompactionItem
<1> QED BY <1>1, <1>2, <1>3, <1>4, NewItemIs

LEMMA CompleteCompactionItemOK ==
    ASSUME NEW s, TurnOK(s), ~s.p.completed, s.compacting, NEW outcome \in Outcomes,
           NEW t, t = CompleteCompactionItem(s, outcome)
    PROVE  /\ TurnOK(t) /\ CallsKept(t, s) /\ ~t.compacting /\ t.asks = s.asks
           /\ CallIds(t.p) = CallIds(s.p)
<1>1. PICK item, p : item = CompactionItem(s) /\ p = s.p
    OBVIOUS
<1>2. item \in ItemRecords /\ item.id[1] = "compaction"
    BY <1>1, CompactionItemIs DEF TurnOK
<1>3. PICK q : q = CompleteItem(p, item, outcome)
    OBVIOUS
<1>4. CompactionLive(s) = {Entry(item)}
    BY <1>1 DEF CompactionLive
<1>5. /\ Sound(q) /\ Same(q, p) /\ Names(q) = Names(p)
      /\ LiveItems(q) = LiveItems(p) \ {Entry(item)}
    <2>1. Sound(p) /\ ~p.completed
        BY <1>1 DEF TurnOK
    <2>2. Entry(item) \in LiveItems(p)
        BY <1>1, <1>4 DEF TurnOK, HeldOpen
    <2>3. item.id[1] # "ask"
        BY <1>2
    <2>4. \A a \in p.open : ~ (a.type = "question" /\ a.item = item.id)
        BY <1>1, <2>3, NoQuestionOf DEF TurnOK
    <2> QED BY <1>2, <1>3, <2>1, <2>2, <2>4, CompleteItemOK
<1>6. t = [s EXCEPT !.compacting = FALSE, !.p = q]
    BY <1>1, <1>3 DEF CompleteCompactionItem
<1>7. /\ t.p = q /\ t.speaking = s.speaking /\ t.item = s.item
      /\ t.assistant = s.assistant
      /\ t.texts = s.texts /\ t.thinking = s.thinking /\ t.thoughts = s.thoughts
      /\ t.tools = s.tools /\ t.agents = s.agents /\ ~t.compacting /\ t.compacting \in BOOLEAN
      /\ t.compactions = s.compactions /\ t.asks = s.asks /\ t.outcome = s.outcome
      /\ DOMAIN t = DOMAIN s
    BY <1>6 DEF TurnOK, TurnTyped, TurnFields
<1>8. TurnTyped(t)
    BY <1>7 DEF TurnOK, TurnTyped
<1>9. RecordsGood(t)
    BY <1>7 DEF TurnOK, RecordsGood
<1>10. AsksGood(t) /\ Numbered(t)
    BY <1>1, <1>5, <1>7 DEF TurnOK, AsksGood, Numbered, Same
<1>11. /\ ThoughtsLive(t) = ThoughtsLive(s) /\ ToolsLive(t) = ToolsLive(s)
       /\ AgentsLive(t) = AgentsLive(s) /\ TextLive(t) = TextLive(s)
       /\ AsksLive(t.p) = AsksLive(s.p) /\ CompactionLive(t) = {}
    <2>1. CompactionLive(t) = {}
        BY <1>7 DEF CompactionLive
    <2>2. AsksLive(t.p) = AsksLive(s.p)
        BY <1>1, <1>5, <1>7 DEF AsksLive, Asked, Same
    <2> QED BY <1>7, <2>1, <2>2 DEF TextLive, ThoughtsLive, ToolsLive, AgentsLive
<1>12. Entry(item) \notin TextLive(s) \cup ThoughtsLive(s) \cup ToolsLive(s)
                               \cup AgentsLive(s) \cup AsksLive(s.p)
    <2>1. Entry(item).id[1] = "compaction"
        BY <1>2, EntryFields
    <2> QED BY <2>1, KindsApart DEF TurnOK
<1>13. HeldOpen(t) = HeldOpen(s) \ {Entry(item)}
    BY <1>4, <1>11, <1>12 DEF HeldOpen
<1>14. Accepts(t.p) /\ t.p.completed = s.p.completed /\ CallIds(t.p) = CallIds(s.p)
    BY <1>1, <1>5, <1>7 DEF TurnOK, Accepts, Same, CallIds
<1>15. TurnOK(t)
    BY <1>1, <1>5, <1>7, <1>8, <1>9, <1>10, <1>13, <1>14 DEF TurnOK
<1> QED BY <1>7, <1>14, <1>15 DEF CallsKept

(* Interactions. *)
WithOpen(p, open) == [p EXCEPT !.open = open]
FlagsKept(q, p) ==
    q.completed = p.completed /\ q.started = p.started /\ q.threw = p.threw /\ q.misused = p.misused

LEMMA OpenChanged ==
    ASSUME NEW p, Sound(p), NEW open, NEW q, q = WithOpen(p, open)
    PROVE  /\ Sound(q) /\ q.open = open /\ q.items = p.items /\ Names(q) = Names(p)
           /\ LiveItems(q) = LiveItems(p) /\ FlagsKept(q, p)
<1>1. /\ q.open = open /\ q.items = p.items /\ q.started = p.started /\ q.completed = p.completed
      /\ q.threw = p.threw /\ q.misused = p.misused /\ q.shown = p.shown /\ q.card = p.card
      /\ DOMAIN q = DOMAIN p
    BY DEF WithOpen, Sound, ProjectorTyped
<1>2. ProjectorTyped(q) /\ IdsDiffer(q)
    BY <1>1 DEF Sound, ProjectorTyped, IdsDiffer
<1>3. WireGood(q)
    BY <1>1 DEF Sound, WireGood
<1>4. Names(q) = Names(p) /\ LiveItems(q) = LiveItems(p)
    BY <1>1 DEF Names, LiveItems
<1> QED BY <1>1, <1>2, <1>3, <1>4 DEF Sound, FlagsKept

LEMMA AskItemIs ==
    ASSUME NEW ask \in Questions, NEW item, item = NewItem(<<"ask", ask>>, "tool")
    PROVE  /\ item \in ItemRecords /\ item.id = <<"ask", ask>> /\ item.type = "tool"
           /\ item.text = <<>> /\ item.done = "no" /\ ~item.wire
           /\ item.id[1] = "ask" /\ item.id[2] = ask
<1>1. PICK id : id = <<"ask", ask>>
    OBVIOUS
<1>2. id \in ItemIds /\ id[1] = "ask" /\ id[2] = ask
    BY <1>1 DEF ItemIds
<1>3. PICK type \in ItemTypes : type = "tool"
    BY DEF ItemTypes
<1>4. item = NewItem(id, type)
    BY <1>1, <1>3
<1> QED BY <1>1, <1>2, <1>3, <1>4, NewItemIs

(* A permission or a question is opened in the projector. *)
Opens(p, ask, type) ==
    IF type = "approval" THEN OpensApproval(p, ask) ELSE OpensQuestion(p, ask, <<"ask", ask>>)
Opened(ask, type) ==
    [ask |-> ask, type |-> type, item |-> IF type = "approval" THEN NoItem ELSE <<"ask", ask>>]
AskItem(ask) == NewItem(<<"ask", ask>>, "tool")

LEMMA OpensOK ==
    ASSUME NEW p, Sound(p), p.started, ~p.completed, NEW ask \in Questions, NEW type,
           type \in {"approval", "question"}, \A a \in p.open : a.ask # ask,
           <<"ask", ask>> \notin Names(p), NEW q, q = Opens(p, ask, type)
    PROVE  /\ Sound(q) /\ FlagsKept(q, p)
           /\ q.open = p.open \cup {Opened(ask, type)}
           /\ type = "approval" => Names(q) = Names(p) /\ LiveItems(q) = LiveItems(p)
           /\ type = "question" => /\ Names(q) = Names(p) \cup {<<"ask", ask>>}
                                   /\ LiveItems(q) = LiveItems(p) \cup {Entry(AskItem(ask))}
<1>1. PICK open : open = p.open \cup {Opened(ask, type)}
    OBVIOUS
<1>2. CASE type = "approval"
    <2>1. q = WithOpen(p, open)
        BY <1>1, <1>2 DEF Opens, Opened, OpensApproval, WithOpen
    <2>2. /\ Sound(q) /\ q.open = open /\ Names(q) = Names(p)
          /\ LiveItems(q) = LiveItems(p) /\ FlagsKept(q, p)
        BY <2>1, OpenChanged
    <2> QED BY <1>1, <1>2, <2>2
<1>3. CASE type = "question"
    <2>1. PICK item, o : item = AskItem(ask) /\ o = StartItem(p, item)
        OBVIOUS
    <2>2. /\ item \in ItemRecords /\ item.id = <<"ask", ask>> /\ item.type = "tool"
          /\ item.text = <<>> /\ item.done = "no" /\ ~item.wire
        BY <2>1, AskItemIs DEF AskItem
    <2>3. /\ Sound(o) /\ Same(o, p) /\ Names(o) = Names(p) \cup {item.id}
          /\ LiveItems(o) = LiveItems(p) \cup {Entry(item)}
        BY <2>1, <2>2, StartItemOK
    <2>4. q = WithOpen(o, o.open \cup {Opened(ask, type)})
        BY <1>3, <2>1 DEF Opens, Opened, OpensQuestion, WithOpen, AskItem
    <2>5. q = WithOpen(o, open)
        BY <1>1, <2>3, <2>4 DEF Same
    <2>6. /\ Sound(q) /\ q.open = open /\ Names(q) = Names(o)
          /\ LiveItems(q) = LiveItems(o) /\ FlagsKept(q, o)
        BY <2>3, <2>5, OpenChanged
    <2>7. FlagsKept(q, p)
        BY <2>3, <2>6 DEF Same, FlagsKept
    <2> QED BY <1>1, <1>3, <2>1, <2>2, <2>3, <2>6, <2>7
<1> QED BY <1>2, <1>3

LEMMA StartInteractionOK ==
    ASSUME NEW s, TurnOK(s), ~s.p.completed, NEW ask \in Questions, ask \notin s.asks,
           <<"ask", ask>> \notin Names(s.p), NEW type, type \in {"approval", "question"},
           NEW t, t = StartInteraction(s, ask, type)
    PROVE  /\ TurnOK(t) /\ CallsKept(t, s) /\ t.compacting = s.compacting
           /\ t.asks = s.asks \cup {ask}
           /\ CallIds(t.p) \subseteq CallIds(s.p) \cup {<<"ask", ask>>}
<1>1. PICK p, item : p = s.p /\ item = AskItem(ask)
    OBVIOUS
<1>2. PICK q : q = Opens(p, ask, type)
    OBVIOUS
<1>3. PICK a : a = Opened(ask, type)
    OBVIOUS
<1>4. /\ Sound(q) /\ FlagsKept(q, p)
      /\ q.open = p.open \cup {a}
      /\ type = "approval" => Names(q) = Names(p) /\ LiveItems(q) = LiveItems(p)
      /\ type = "question" => /\ Names(q) = Names(p) \cup {<<"ask", ask>>}
                              /\ LiveItems(q) = LiveItems(p) \cup {Entry(item)}
    <2>1. Sound(p) /\ p.started /\ ~p.completed /\ <<"ask", ask>> \notin Names(p)
        BY <1>1 DEF TurnOK, Accepts
    <2>2. \A b \in p.open : b.ask # ask
        BY <1>1 DEF TurnOK, AsksGood
    <2> QED BY <1>1, <1>2, <1>3, <2>1, <2>2, OpensOK
<1>5. t = [s EXCEPT !.asks = s.asks \cup {ask}, !.p = q]
    BY <1>1, <1>2 DEF StartInteraction, Opens
<1>6. /\ t.p = q /\ t.speaking = s.speaking /\ t.item = s.item
      /\ t.assistant = s.assistant
      /\ t.texts = s.texts /\ t.thinking = s.thinking /\ t.thoughts = s.thoughts
      /\ t.tools = s.tools /\ t.agents = s.agents /\ t.compacting = s.compacting
      /\ t.compactions = s.compactions /\ t.asks = s.asks \cup {ask} /\ t.outcome = s.outcome
      /\ DOMAIN t = DOMAIN s
    BY <1>5 DEF TurnOK, TurnTyped, TurnFields
<1>7. TurnTyped(t)
    BY <1>6 DEF TurnOK, TurnTyped
<1>8. RecordsGood(t)
    BY <1>6 DEF TurnOK, RecordsGood
<1>9. a.ask = ask /\ a.type = type /\ (type = "question" => a.item = <<"ask", ask>>)
      /\ a.item \in ItemIds \cup {NoItem}
    BY <1>3 DEF ItemIds, Opened
<1>10. AsksGood(t)
    <2>1. a \in [ask : Questions, type : {"approval", "question"}, item : ItemIds \cup {NoItem}]
        BY <1>3, <1>9 DEF Opened
    <2>2. q.open \subseteq [ask : Questions, type : {"approval", "question"},
                            item : ItemIds \cup {NoItem}]
        BY <1>1, <1>4, <2>1 DEF TurnOK, AsksGood
    <2>3. t.asks = {b.ask : b \in q.open}
        BY <1>1, <1>4, <1>6, <1>9 DEF TurnOK, AsksGood
    <2>4. \A b, c \in q.open : b.ask = c.ask => b = c
        BY <1>1, <1>4, <1>9 DEF TurnOK, AsksGood
    <2>5. \A b \in q.open : b.type = "question" => b.item = <<"ask", b.ask>>
        BY <1>1, <1>4, <1>9 DEF TurnOK, AsksGood
    <2> QED BY <1>6, <2>2, <2>3, <2>4, <2>5 DEF AsksGood
<1>11. Numbered(t)
    <2>1. item.id[1] = "ask" /\ item.id = <<"ask", ask>>
        BY <1>1, AskItemIs DEF AskItem
    <2> QED BY <1>1, <1>4, <1>6, <2>1 DEF TurnOK, Numbered
<1>12. /\ ThoughtsLive(t) = ThoughtsLive(s) /\ ToolsLive(t) = ToolsLive(s)
       /\ AgentsLive(t) = AgentsLive(s) /\ TextLive(t) = TextLive(s)
       /\ CompactionLive(t) = CompactionLive(s)
    BY <1>6 DEF TextLive, ThoughtsLive, ToolsLive, AgentsLive, CompactionLive, CompactionItem
<1>13. AsksLive(q) = IF type = "approval" THEN AsksLive(p) ELSE AsksLive(p) \cup {Entry(item)}
    <2>1. CASE type = "approval"
        <3>1. {b \in q.open : b.type = "question"} = {b \in p.open : b.type = "question"}
            BY <1>4, <1>9, <2>1
        <3> QED BY <2>1, <3>1 DEF AsksLive, Asked
    <2>2. CASE type = "question"
        <3>1. {b \in q.open : b.type = "question"} = {b \in p.open : b.type = "question"} \cup {a}
            BY <1>4, <1>9, <2>2
        <3>2. Asked(q) = Asked(p) \cup {ask}
            BY <1>9, <3>1 DEF Asked
        <3> QED BY <1>1, <2>2, <3>2 DEF AsksLive, AskItem
    <2> QED BY <2>1, <2>2
<1>14. LiveItems(t.p) = HeldOpen(t)
    <2>1. CASE type = "approval"
        BY <1>1, <1>4, <1>6, <1>12, <1>13, <2>1 DEF TurnOK, HeldOpen
    <2>2. CASE type = "question"
        BY <1>1, <1>4, <1>6, <1>12, <1>13, <2>2 DEF TurnOK, HeldOpen
    <2> QED BY <2>1, <2>2
<1>15. Accepts(t.p) /\ t.p.completed = s.p.completed
    BY <1>1, <1>4, <1>6 DEF TurnOK, Accepts, FlagsKept
<1>16. CallIds(t.p) \subseteq CallIds(s.p) \cup {<<"ask", ask>>}
    BY <1>1, <1>4, <1>6 DEF CallIds
<1>17. TurnOK(t)
    BY <1>4, <1>6, <1>7, <1>8, <1>10, <1>11, <1>14, <1>15 DEF TurnOK
<1> QED BY <1>6, <1>15, <1>16, <1>17 DEF CallsKept

LEMMA CloseInteractionOK ==
    ASSUME NEW s, TurnOK(s), ~s.p.completed, NEW ask \in s.asks, NEW reason,
           NEW t, t = CloseInteraction(s, ask, reason)
    PROVE  /\ TurnOK(t) /\ CallsKept(t, s) /\ t.compacting = s.compacting
           /\ t.asks = s.asks \ {ask} /\ CallIds(t.p) = CallIds(s.p)
<1>1. PICK p : p = s.p
    OBVIOUS
<1>2. AsksGood(s) /\ Sound(p) /\ ~p.completed /\ ask \in Questions
    BY <1>1 DEF TurnOK, TurnTyped
<1>3. \E a \in p.open : a.ask = ask
    BY <1>1, <1>2 DEF AsksGood
<1>4. PICK a : a = CHOOSE x \in p.open : x.ask = ask
    OBVIOUS
<1>5. a \in p.open /\ a.ask = ask /\ \A b \in p.open : b.ask = ask => b = a
    BY <1>1, <1>2, <1>3, <1>4 DEF AsksGood
<1>6. /\ a.type \in {"approval", "question"} /\ (a.type = "question" => a.item = <<"ask", ask>>)
    BY <1>1, <1>2, <1>5 DEF AsksGood
<1>7. PICK open, o, q : /\ open = p.open \ {a} /\ o = WithOpen(p, open)
                        /\ q = ClosesInteraction(p, ask, reason)
    OBVIOUS
<1>8. /\ Sound(o) /\ o.open = open /\ Names(o) = Names(p) /\ LiveItems(o) = LiveItems(p)
      /\ FlagsKept(o, p)
    BY <1>2, <1>7, OpenChanged
<1>9. q = IF a.type = "approval" THEN o
          ELSE CompleteItem(o, ItemOf(o, a.item),
                            IF reason = "responded" THEN "succeeded" ELSE "cancelled")
    BY <1>2, <1>3, <1>4, <1>7 DEF ClosesInteraction, WithOpen
<1>10. PICK item : item = AskItem(ask)
    OBVIOUS
<1>11. /\ item \in ItemRecords /\ item.id = <<"ask", ask>> /\ item.id[1] = "ask" /\ item.id[2] = ask
    BY <1>2, <1>10, AskItemIs DEF AskItem
<1>12. /\ Sound(q) /\ q.open = open /\ Names(q) = Names(p) /\ FlagsKept(q, p)
       /\ a.type = "approval" => LiveItems(q) = LiveItems(p)
       /\ a.type = "question" => LiveItems(q) = LiveItems(p) \ {Entry(item)}
    <2>1. CASE a.type = "approval"
        <3>1. q = o
            BY <1>9, <2>1
        <3> QED BY <1>8, <2>1, <3>1
    <2>2. CASE a.type = "question"
        <3>1. PICK outcome \in Outcomes :
                  outcome = IF reason = "responded" THEN "succeeded" ELSE "cancelled"
            BY DEF Outcomes
        <3>2. Entry(item) \in AsksLive(p)
            BY <1>5, <1>10, <2>2 DEF AsksLive, Asked, AskItem
        <3>3. Entry(item) \in LiveItems(o)
            BY <1>1, <1>8, <3>2 DEF TurnOK, HeldOpen
        <3>4. PICK n \in DOMAIN o.items :
                  /\ o.items[n] \in ItemRecords /\ Entry(o.items[n]) = Entry(item)
                  /\ o.items[n].id = item.id /\ ItemOf(o, item.id) = o.items[n]
            BY <1>8, <3>3, ItemAt
        <3>5. PICK new : new = o.items[n]
            OBVIOUS
        <3>6. q = CompleteItem(o, new, outcome)
            BY <1>6, <1>9, <1>11, <2>2, <3>1, <3>4, <3>5
        <3>7. new \in ItemRecords /\ Entry(new) = Entry(item) /\ Entry(new) \in LiveItems(o)
              /\ new.id = <<"ask", ask>>
            BY <1>11, <3>3, <3>4, <3>5
        <3>8. \A b \in o.open : ~ (b.type = "question" /\ b.item = new.id)
            <4>1. ASSUME NEW b \in o.open, b.type = "question", b.item = new.id PROVE FALSE
                <5>1. b \in p.open /\ b # a
                    BY <1>7, <1>8, <4>1
                <5>2. b.item = <<"ask", b.ask>>
                    BY <1>1, <1>2, <4>1, <5>1 DEF AsksGood
                <5> QED BY <1>5, <3>7, <4>1, <5>1, <5>2
            <4> QED BY <4>1
        <3>9. ~o.completed
            BY <1>2, <1>8 DEF FlagsKept
        <3>10. /\ Sound(q) /\ Same(q, o) /\ Names(q) = Names(o)
               /\ LiveItems(q) = LiveItems(o) \ {Entry(new)}
            BY <1>8, <3>6, <3>7, <3>8, <3>9, CompleteItemOK
        <3>11. FlagsKept(q, p) /\ q.open = open
            BY <1>8, <3>10 DEF FlagsKept, Same
        <3> QED BY <1>8, <2>2, <3>7, <3>10, <3>11
    <2> QED BY <1>6, <2>1, <2>2
<1>13. t = [s EXCEPT !.asks = s.asks \ {ask}, !.p = q]
    BY <1>1, <1>7 DEF CloseInteraction
<1>14. /\ t.p = q /\ t.speaking = s.speaking /\ t.item = s.item
       /\ t.assistant = s.assistant
       /\ t.texts = s.texts /\ t.thinking = s.thinking /\ t.thoughts = s.thoughts
       /\ t.tools = s.tools /\ t.agents = s.agents /\ t.compacting = s.compacting
       /\ t.compactions = s.compactions /\ t.asks = s.asks \ {ask} /\ t.outcome = s.outcome
       /\ DOMAIN t = DOMAIN s
    BY <1>13 DEF TurnOK, TurnTyped, TurnFields
<1>15. TurnTyped(t)
    BY <1>14 DEF TurnOK, TurnTyped
<1>16. RecordsGood(t)
    BY <1>14 DEF TurnOK, RecordsGood
<1>17. AsksGood(t)
    <2>1. q.open = p.open \ {a}
        BY <1>7, <1>12
    <2>2. t.asks = {b.ask : b \in q.open}
        BY <1>1, <1>2, <1>5, <1>14, <2>1 DEF AsksGood
    <2> QED BY <1>1, <1>2, <1>14, <2>1, <2>2 DEF AsksGood
<1>18. Numbered(t)
    BY <1>1, <1>12, <1>14 DEF TurnOK, Numbered
<1>19. /\ ThoughtsLive(t) = ThoughtsLive(s) /\ ToolsLive(t) = ToolsLive(s)
       /\ AgentsLive(t) = AgentsLive(s) /\ TextLive(t) = TextLive(s)
       /\ CompactionLive(t) = CompactionLive(s)
    BY <1>14 DEF TextLive, ThoughtsLive, ToolsLive, AgentsLive, CompactionLive, CompactionItem
<1>20. LiveItems(t.p) = HeldOpen(t)
    <2>1. CASE a.type = "approval"
        <3>1. {b \in q.open : b.type = "question"} = {b \in p.open : b.type = "question"}
            BY <1>7, <1>12, <2>1
        <3>2. AsksLive(q) = AsksLive(p)
            BY <3>1 DEF AsksLive, Asked
        <3> QED BY <1>1, <1>12, <1>14, <1>19, <2>1, <3>2 DEF TurnOK, HeldOpen
    <2>2. CASE a.type = "question"
        <3>1. {b \in q.open : b.type = "question"} = {b \in p.open : b.type = "question"} \ {a}
            BY <1>7, <1>12, <2>2
        <3>2. Asked(q) = Asked(p) \ {ask}
            BY <1>5, <3>1 DEF Asked
        <3>3. \A x \in Asked(p) : x \in Questions /\ (Entry(AskItem(x)) = Entry(item) => x = ask)
            <4>1. \A x \in Asked(p) : x \in Questions
                BY <1>1, <1>2 DEF AsksGood, Asked
            <4>2. ASSUME NEW x \in Questions, Entry(AskItem(x)) = Entry(item) PROVE x = ask
                <5>1. PICK i : i = AskItem(x)
                    OBVIOUS
                <5>2. i.id[2] = x
                    BY <5>1, AskItemIs DEF AskItem
                <5>3. i.id = item.id
                    BY <4>2, <5>1, EntryIs
                <5> QED BY <1>11, <5>2, <5>3
            <4> QED BY <4>1, <4>2
        <3>4. AsksLive(q) = AsksLive(p) \ {Entry(item)}
            <4>1. \A r : AsksLive(r) = {Entry(AskItem(x)) : x \in Asked(r)}
                BY DEF AsksLive, AskItem
            <4> QED BY <1>10, <3>2, <3>3, <4>1
        <3>5. Entry(item) \notin TextLive(s) \cup ThoughtsLive(s) \cup ToolsLive(s)
                                     \cup AgentsLive(s) \cup CompactionLive(s)
            <4>1. Entry(item).id[1] = "ask"
                BY <1>11, EntryFields
            <4> QED BY <4>1, KindsApart DEF TurnOK
        <3>6. HeldOpen(t) = HeldOpen(s) \ {Entry(item)}
            BY <1>1, <1>14, <1>19, <3>4, <3>5 DEF HeldOpen
        <3> QED BY <1>1, <1>12, <1>14, <2>2, <3>6 DEF TurnOK
    <2> QED BY <1>6, <2>1, <2>2
<1>21. Accepts(t.p) /\ t.p.completed = s.p.completed /\ CallIds(t.p) = CallIds(s.p)
    BY <1>1, <1>12, <1>14 DEF TurnOK, Accepts, FlagsKept, CallIds
<1>22. TurnOK(t)
    BY <1>12, <1>14, <1>15, <1>16, <1>17, <1>18, <1>20, <1>21 DEF TurnOK
<1> QED BY <1>14, <1>21, <1>22 DEF CallsKept

LEMMA CloseActiveInteractionsOK ==
    ASSUME NEW s, TurnOK(s), ~s.p.completed, NEW reason,
           NEW t, t = CloseActiveInteractions(s, reason)
    PROVE  /\ TurnOK(t) /\ CallsKept(t, s) /\ t.compacting = s.compacting /\ t.asks = {}
           /\ CallIds(t.p) = CallIds(s.p)
<1>1. PICK D : D = s.asks
    OBVIOUS
<1>2. IsFiniteSet(D)
    BY <1>1, FS_Subset, ItemAssumption DEF TurnOK, TurnTyped
<1>3. PICK h : Rounds("asks", s, reason, s, D, h) /\ t = h[D]
    BY <1>1, <1>2, AsksRounds
<1>4. h[{}] = s /\ \A E \in SUBSET D : E # {} =>
                       h[E] = CloseInteraction(h[E \ {Some(E)}], Some(E), reason)
    <2>1. /\ h[{}] = s
          /\ \A E \in SUBSET D : E # {} =>
                       h[E] = FoldStep("asks", s, reason, Some(E), h[E \ {Some(E)}])
        BY <1>3, RoundsAre
    <2> QED BY <2>1 DEF FoldStep
<1> DEFINE Fine(E) == /\ TurnOK(h[E]) /\ CallsKept(h[E], s) /\ h[E].compacting = s.compacting
                      /\ h[E].asks = D \ E /\ CallIds(h[E].p) = CallIds(s.p)
<1>5. PICK T : T = {E \in SUBSET D : Fine(E)}
    OBVIOUS
<1>6. {} \in T
    <2>1. Fine({})
        BY <1>1, <1>4 DEF CallsKept
    <2> QED BY <1>5, <2>1
<1>7. ASSUME NEW E \in SUBSET D, E # {}, E \ {Some(E)} \in T PROVE E \in T
    <2>1. PICK c, u, v : c = Some(E) /\ u = h[E \ {c}] /\ v = h[E]
        OBVIOUS
    <2>2. /\ TurnOK(u) /\ CallsKept(u, s) /\ u.compacting = s.compacting
          /\ u.asks = D \ (E \ {c}) /\ CallIds(u.p) = CallIds(s.p)
        BY <1>5, <1>7, <2>1
    <2>3. v = CloseInteraction(u, c, reason) /\ c \in E
        BY <1>4, <1>7, <2>1 DEF Some
    <2>4. ~u.p.completed /\ c \in u.asks
        BY <1>7, <2>2, <2>3 DEF CallsKept
    <2>5. /\ TurnOK(v) /\ CallsKept(v, u) /\ v.compacting = u.compacting
          /\ v.asks = u.asks \ {c} /\ CallIds(v.p) = CallIds(u.p)
        BY <2>2, <2>3, <2>4, CloseInteractionOK
    <2>6. v.asks = D \ E
        BY <1>7, <2>2, <2>3, <2>5
    <2>7. CallsKept(v, s)
        BY <2>2, <2>5 DEF CallsKept
    <2> QED BY <1>5, <2>1, <2>2, <2>5, <2>6, <2>7
<1>8. D \in T
    <2>1. T \in SUBSET SUBSET D
        BY <1>5
    <2> QED BY <1>2, <1>6, <1>7, <2>1, SetInduction
<1> QED BY <1>3, <1>5, <1>8

-----------------------------------------------------------------------------
(* The end of an execution.                                                  *)

Ended(p) == [p EXCEPT !.completed = TRUE]

LEMMA EndedIs ==
    ASSUME NEW p, Sound(p), NEW q, q = Ended(p)
    PROVE  /\ Sound(q) /\ q.completed /\ q.started = p.started /\ q.threw = p.threw
           /\ q.misused = p.misused /\ q.open = p.open /\ q.card = p.card
           /\ Names(q) = Names(p) /\ LiveItems(q) = LiveItems(p)
<1>1. /\ q.open = p.open /\ q.items = p.items /\ q.started = p.started /\ q.completed
      /\ q.threw = p.threw /\ q.misused = p.misused /\ q.shown = p.shown /\ q.card = p.card
      /\ DOMAIN q = DOMAIN p
    BY DEF Ended, Sound, ProjectorTyped
<1>2. ProjectorTyped(q) /\ IdsDiffer(q)
    BY <1>1 DEF Sound, ProjectorTyped, IdsDiffer
<1>3. WireGood(q)
    BY <1>1 DEF Sound, WireGood
<1>4. Names(q) = Names(p) /\ LiveItems(q) = LiveItems(p)
    BY <1>1 DEF Names, LiveItems
<1> QED BY <1>1, <1>2, <1>3, <1>4 DEF Sound

LEMMA ProjectCompletedTurnOK ==
    ASSUME NEW p, Sound(p), Accepts(p), ~p.completed, p.open = {}, LiveItems(p) = {},
           NEW q, q = ProjectCompletedTurn(p)
    PROVE  /\ Sound(q) /\ Accepts(q) /\ q.completed /\ q.open = {} /\ Names(q) = Names(p)
           /\ LiveItems(q) = {}
<1>1. PICK o : o = Ended(p)
    OBVIOUS
<1>2. /\ Sound(o) /\ o.completed /\ o.started = p.started /\ o.threw = p.threw
      /\ o.misused = p.misused /\ o.open = p.open /\ o.card = p.card
      /\ Names(o) = Names(p) /\ LiveItems(o) = LiveItems(p)
    BY <1>1, EndedIs
<1>3. ~ \E i \in Range(p.items) : i.done = "no"
    <2>1. ASSUME NEW i \in Range(p.items), i.done = "no" PROVE FALSE
        <3>1. PICK n \in DOMAIN p.items : i = p.items[n]
            BY DEF Range
        <3>2. Entry(p.items[n]) \in LiveItems(p)
            BY <2>1, <3>1 DEF LiveItems
        <3> QED BY <3>2
    <2> QED BY <2>1
<1>4. q = IF p.card = NoItem THEN o ELSE CardCompleted(o)
    <2>1. q = IF p.card = NoItem THEN [p EXCEPT !.completed = TRUE]
              ELSE CardCompleted([p EXCEPT !.completed = TRUE])
        BY <1>3 DEF ProjectCompletedTurn, Accepts
    <2> QED BY <1>1, <2>1 DEF Ended
<1>5. Accepts(o)
    BY <1>2 DEF Accepts
<1>6. CASE p.card = NoItem
    BY <1>2, <1>4, <1>5, <1>6
<1>7. CASE p.card # NoItem
    <2>1. Sound(q) /\ Alike(q, o)
        BY <1>2, <1>4, <1>7, CardDone
    <2> QED BY <1>2, <1>5, <2>1 DEF Alike, Same, Accepts
<1> QED BY <1>6, <1>7

(* #finish closes what the Turn holds open, then ends or holds it. *)
LEMMA FinishItemsOK ==
    ASSUME NEW s, TurnOK(s), ~s.p.completed, NEW outcome \in Outcomes,
           NEW t, t = FinishItems(s, outcome)
    PROVE  /\ TurnOK(t) /\ CallIds(t.p) = CallIds(s.p)
           /\ DOMAIN t.tools = {} /\ DOMAIN t.agents = {} /\ ~t.compacting /\ t.asks = {}
           /\ \/ t.outcome = s.outcome /\ ~t.p.completed /\ outcome = "succeeded" /\ s.working # {}
              \/ t.outcome = outcome /\ t.p.completed
<1>1. PICK reason : reason = IF outcome = "succeeded" THEN "superseded" ELSE "cancelled"
    OBVIOUS
<1>2. PICK a : a = CloseActiveInteractions(s, reason)
    OBVIOUS
<1>3. PICK b : b = IF a.compacting THEN CompleteCompactionItem(a, outcome) ELSE a
    OBVIOUS
<1>4. PICK c : c = FinalizeTools(b, outcome)
    OBVIOUS
<1>5. PICK d : d = FinalizeAgents(c, outcome)
    OBVIOUS
<1>6. PICK e : e = CompleteAllReasoning(d, outcome)
    OBVIOUS
<1>7. PICK f : f = CompleteAgentItem(e, outcome, TRUE)
    OBVIOUS
<1>8. t = IF outcome = "succeeded" /\ ~s.cancelled /\ s.working # {}
          THEN [f EXCEPT !.held = TRUE]
          ELSE [f EXCEPT !.outcome = outcome, !.p = ProjectCompletedTurn(f.p)]
    BY <1>1, <1>2, <1>3, <1>4, <1>5, <1>6, <1>7 DEF FinishItems
<1>9. /\ TurnOK(a) /\ CallsKept(a, s) /\ a.asks = {} /\ CallIds(a.p) = CallIds(s.p)
    BY <1>2, CloseActiveInteractionsOK
<1>10. ~a.p.completed
    BY <1>9 DEF CallsKept
<1>11. /\ TurnOK(b) /\ CallsKept(b, s) /\ b.asks = {} /\ CallIds(b.p) = CallIds(s.p)
       /\ ~b.compacting
    <2>1. CASE a.compacting
        <3>1. b = CompleteCompactionItem(a, outcome)
            BY <1>3, <2>1
        <3>2. /\ TurnOK(b) /\ CallsKept(b, a) /\ ~b.compacting /\ b.asks = a.asks
              /\ CallIds(b.p) = CallIds(a.p)
            BY <1>9, <1>10, <2>1, <3>1, CompleteCompactionItemOK
        <3> QED BY <1>9, <3>2 DEF CallsKept
    <2>2. CASE ~a.compacting
        BY <1>3, <1>9, <2>2
    <2> QED BY <2>1, <2>2
<1>12. ~b.p.completed
    BY <1>11 DEF CallsKept
<1>13. /\ TurnOK(c) /\ TextsKept(c, b) /\ DOMAIN c.tools = {} /\ CallIds(c.p) = CallIds(b.p)
    BY <1>4, <1>11, <1>12, FinalizeToolsOK
<1>14. ~c.p.completed
    BY <1>12, <1>13 DEF TextsKept
<1>15. /\ TurnOK(d) /\ TextsKept(d, c) /\ DOMAIN d.agents = {} /\ d.tools = c.tools
       /\ CallIds(d.p) = CallIds(c.p)
    BY <1>5, <1>13, <1>14, FinalizeAgentsOK
<1>16. ~d.p.completed
    BY <1>14, <1>15 DEF TextsKept
<1>17. /\ TurnOK(e) /\ OthersKept(e, d) /\ e.thinking = [m \in {} |-> NewItem(NoItem, "reasoning")]
    BY <1>6, <1>15, <1>16, CompleteAllReasoningOK
<1>18. ~e.p.completed
    BY <1>16, <1>17 DEF OthersKept
<1>19. TurnOK(f) /\ OthersKept(f, e) /\ f.thinking = e.thinking /\ ~f.speaking
    <2>1. PICK yes \in BOOLEAN : yes = TRUE
        OBVIOUS
    <2>2. f = CompleteAgentItem(e, outcome, yes)
        BY <1>7, <2>1
    <2>3. /\ TurnOK(f) /\ OthersKept(f, e) /\ f.thinking = e.thinking
          /\ yes => ~f.speaking
        <3>1. TurnOK(e) /\ ~e.p.completed /\ outcome \in Outcomes /\ yes \in BOOLEAN
            BY <1>17, <1>18, <2>1
        <3> QED BY <2>2, <3>1, CompleteAgentItemOK, Zenon
    <2> QED BY <2>1, <2>3
<1>20. /\ DOMAIN f.tools = {} /\ DOMAIN f.agents = {} /\ ~f.compacting /\ f.asks = {}
       /\ DOMAIN f.thinking = {} /\ f.outcome = s.outcome /\ ~f.p.completed
       /\ CallIds(f.p) = CallIds(s.p)
    <2>1. DOMAIN f.thinking = {}
        BY <1>17, <1>19
    <2>2. f.tools = b.tools \/ DOMAIN f.tools = {}
        BY <1>13, <1>15, <1>17, <1>19 DEF OthersKept
    <2>3. DOMAIN f.tools = {} /\ DOMAIN f.agents = {}
        BY <1>13, <1>15, <1>17, <1>19 DEF OthersKept
    <2>4. f.compacting = b.compacting /\ f.asks = b.asks /\ f.outcome = b.outcome
        BY <1>13, <1>15, <1>17, <1>19 DEF OthersKept, TextsKept
    <2>5. CallIds(f.p) = CallIds(b.p)
        BY <1>13, <1>15, <1>17, <1>19 DEF OthersKept
    <2>6. ~f.p.completed
        BY <1>18, <1>19 DEF OthersKept
    <2>7. f.outcome = s.outcome
        BY <1>11, <2>4 DEF CallsKept
    <2> QED BY <1>11, <2>1, <2>3, <2>4, <2>5, <2>6, <2>7
<1>21. CASE outcome = "succeeded" /\ ~s.cancelled /\ s.working # {}
    <2>1. t = [f EXCEPT !.held = TRUE]
        BY <1>8, <1>21
    <2>2. /\ t.p = f.p /\ t.speaking = f.speaking /\ t.item = f.item
          /\ t.assistant = f.assistant
          /\ t.texts = f.texts /\ t.thinking = f.thinking /\ t.thoughts = f.thoughts
          /\ t.tools = f.tools /\ t.agents = f.agents /\ t.compacting = f.compacting
          /\ t.compactions = f.compactions /\ t.asks = f.asks /\ t.outcome = f.outcome
          /\ DOMAIN t = DOMAIN f
        BY <1>19, <2>1 DEF TurnOK, TurnTyped, TurnFields
    <2>3. TurnTyped(t) /\ RecordsGood(t) /\ AsksGood(t) /\ Numbered(t)
        <3>1. TurnTyped(t)
            BY <1>19, <2>2 DEF TurnOK, TurnTyped
        <3>2. RecordsGood(t)
            BY <1>19, <2>2 DEF TurnOK, RecordsGood
        <3> QED BY <1>19, <2>2, <3>1, <3>2 DEF TurnOK, AsksGood, Numbered
    <2>4. HeldOpen(t) = HeldOpen(f)
        BY <2>2 DEF HeldOpen, TextLive, ThoughtsLive, ToolsLive, AgentsLive, CompactionLive,
                    CompactionItem
    <2>5. TurnOK(t)
        BY <1>19, <2>2, <2>3, <2>4 DEF TurnOK
    <2> QED BY <1>20, <1>21, <2>2, <2>5
<1>22. CASE ~(outcome = "succeeded" /\ ~s.cancelled /\ s.working # {})
    <2>1. PICK p, q : p = f.p /\ q = ProjectCompletedTurn(p)
        OBVIOUS
    <2>2. t = [f EXCEPT !.outcome = outcome, !.p = q]
        BY <1>8, <1>22, <2>1
    <2>3. /\ t.p = q /\ t.speaking = f.speaking /\ t.item = f.item
          /\ t.assistant = f.assistant
          /\ t.texts = f.texts /\ t.thinking = f.thinking /\ t.thoughts = f.thoughts
          /\ t.tools = f.tools /\ t.agents = f.agents /\ t.compacting = f.compacting
          /\ t.compactions = f.compactions /\ t.asks = f.asks /\ t.outcome = outcome
          /\ DOMAIN t = DOMAIN f
        BY <1>19, <2>2 DEF TurnOK, TurnTyped, TurnFields
    <2>4. f.p.open = {} /\ AsksLive(f.p) = {}
        <3>1. f.p.open = {}
            BY <1>19, <1>20 DEF TurnOK, AsksGood
        <3> QED BY <3>1 DEF AsksLive, Asked
    <2>5. HeldOpen(f) = {}
        <3>1. TextLive(f) = {} /\ CompactionLive(f) = {}
            BY <1>19, <1>20 DEF TextLive, CompactionLive
        <3>2. ThoughtsLive(f) = {} /\ ToolsLive(f) = {} /\ AgentsLive(f) = {}
            BY <1>20 DEF ThoughtsLive, ToolsLive, AgentsLive
        <3> QED BY <2>4, <3>1, <3>2 DEF HeldOpen
    <2>6. Sound(p) /\ Accepts(p) /\ ~p.completed /\ p.open = {} /\ LiveItems(p) = {}
        BY <1>19, <1>20, <2>1, <2>4, <2>5 DEF TurnOK
    <2>7. /\ Sound(q) /\ Accepts(q) /\ q.completed /\ q.open = {} /\ Names(q) = Names(p)
          /\ LiveItems(q) = {}
        BY <2>1, <2>6, ProjectCompletedTurnOK
    <2>8. TurnTyped(t) /\ RecordsGood(t) /\ AsksGood(t) /\ Numbered(t)
        <3>1. TurnTyped(t)
            BY <1>19, <2>3 DEF TurnOK, TurnTyped
        <3>2. RecordsGood(t)
            BY <1>19, <2>3 DEF TurnOK, RecordsGood
        <3>3. AsksGood(t)
            BY <1>20, <2>3, <2>7 DEF AsksGood
        <3>4. Numbered(t)
            BY <1>19, <2>1, <2>3, <2>7 DEF TurnOK, Numbered
        <3> QED BY <3>1, <3>2, <3>3, <3>4
    <2>9. HeldOpen(t) = {}
        <3>1. TextLive(t) = {} /\ CompactionLive(t) = {}
            BY <1>19, <1>20, <2>3 DEF TextLive, CompactionLive
        <3>2. ThoughtsLive(t) = {} /\ ToolsLive(t) = {} /\ AgentsLive(t) = {}
            BY <1>20, <2>3 DEF ThoughtsLive, ToolsLive, AgentsLive
        <3>3. AsksLive(t.p) = {}
            BY <2>3, <2>7 DEF AsksLive, Asked
        <3> QED BY <3>1, <3>2, <3>3 DEF HeldOpen
    <2>10. TurnOK(t)
        BY <2>3, <2>7, <2>8, <2>9 DEF TurnOK
    <2>11. CallIds(t.p) = CallIds(f.p)
        BY <2>1, <2>3, <2>7 DEF CallIds
    <2> QED BY <1>20, <2>3, <2>7, <2>10, <2>11
<1> QED BY <1>21, <1>22

-----------------------------------------------------------------------------
(* The messages of the claude process.                                       *)

\* A call comes up, as a tool's or a Subagent's.
AgentKinds == {"agent", "backgroundAgent"}

ComesUp(t, s, c, kind) ==
    /\ kind = "none" => /\ t.tools = s.tools /\ t.agents = s.agents
                        /\ CallIds(t.p) = CallIds(s.p)
    /\ kind # "none" => CallIds(t.p) = CallIds(s.p) \cup {<<"call", c>>}
    /\ kind \in AgentKinds => /\ DOMAIN t.agents = DOMAIN s.agents \cup {c}
                              /\ DOMAIN t.tools = DOMAIN s.tools
    /\ kind \notin AgentKinds \cup {"none"} =>
          DOMAIN t.tools = DOMAIN s.tools \cup {c} /\ DOMAIN t.agents = DOMAIN s.agents

LEMMA CallStartedOK ==
    ASSUME NEW s, TurnOK(s), ~s.p.completed, NEW c \in ToolCalls, NEW kind \in CallKinds,
           kind # "none" => <<"call", c>> \notin Names(s.p), NEW t, t = CallStarted(s, c, kind)
    PROVE  /\ TurnOK(t) /\ TextsKept(t, s)
           /\ ComesUp(t, s, c, kind)
<1>1. CASE kind = "none"
    <2>1. t = s
        BY <1>1 DEF CallStarted
    <2> QED BY <1>1, <2>1 DEF TextsKept, AgentKinds, ComesUp
<1>2. CASE kind # "none"
    <2>1. PICK on : on = SettleTexts(s)
        OBVIOUS
    <2>2. TurnOK(on) /\ OthersKept(on, s)
        BY <2>1, SettleTextsOK
    <2>3. ~on.p.completed /\ <<"call", c>> \notin Names(on.p)
        <3>1. <<"call", c>>[1] \in {"call", "file", "ask"}
            OBVIOUS
        <3> QED BY <1>2, <2>2, <3>1 DEF OthersKept, CallIds
    <2>4. TextsKept(on, s) /\ on.tools = s.tools /\ on.agents = s.agents /\ CallIds(on.p) = CallIds(s.p)
        BY <2>2 DEF OthersKept, TextsKept
    <2>5. CASE kind \in AgentKinds
        <3>1. PICK background \in BOOLEAN : background = (kind = "backgroundAgent")
            OBVIOUS
        <3>2. t = StartAgent(on, c, background)
            BY <2>1, <2>5, <3>1 DEF CallStarted, AgentKinds
        <3>3. /\ TurnOK(t) /\ TextsKept(t, on) /\ DOMAIN t.agents = DOMAIN on.agents \cup {c}
              /\ t.tools = on.tools /\ CallIds(t.p) = CallIds(on.p) \cup {<<"call", c>>}
            BY <2>2, <2>3, <3>2, StartAgentOK
        <3>4. TextsKept(t, s)
            BY <2>4, <3>3 DEF TextsKept
        <3> QED BY <1>2, <2>4, <2>5, <3>3, <3>4 DEF ComesUp
    <2>6. CASE kind \notin AgentKinds
        <3>1. PICK type \in {"tool", "todo", "edit"}, parsed \in BOOLEAN :
                  t = StartTool(on, c, ToolItem(c, type, parsed))
            <4>1. CASE kind \in {"tool", "todo", "edit"}
                <5>1. t = StartTool(on, c, ToolItem(c, kind, FALSE))
                    BY <2>1, <4>1 DEF CallStarted
                <5> QED BY <4>1, <5>1
            <4>2. CASE kind = "readableEdit"
                <5>1. t = StartTool(on, c, ToolItem(c, "edit", TRUE))
                    BY <2>1, <4>2 DEF CallStarted
                <5> QED BY <5>1
            <4> QED BY <1>2, <2>6, <4>1, <4>2 DEF CallKinds, AgentKinds
        <3>2. PICK item : item = ToolItem(c, type, parsed)
            OBVIOUS
        <3>3. /\ item \in ItemRecords /\ item.id = <<"call", c>> /\ item.type = type
              /\ item.text = <<>> /\ item.done = "no" /\ ~item.wire
            BY <3>2, ToolItemIs
        <3>4. /\ TurnOK(t) /\ TextsKept(t, on) /\ DOMAIN t.tools = DOMAIN on.tools \cup {c}
              /\ t.agents = on.agents /\ CallIds(t.p) = CallIds(on.p) \cup {<<"call", c>>}
            <4>1. t = StartTool(on, c, item) /\ item.type \in {"tool", "todo", "edit"}
                BY <3>1, <3>2, <3>3
            <4> QED BY <2>2, <2>3, <3>3, <4>1, StartToolOK
        <3>5. TextsKept(t, s)
            BY <2>4, <3>4 DEF TextsKept
        <3> QED BY <1>2, <2>4, <2>6, <3>4, <3>5 DEF ComesUp
    <2> QED BY <2>5, <2>6
<1> QED BY <1>1, <1>2

LEMMA TextArrivesOK ==
    ASSUME NEW s, TurnOK(s), ~s.p.completed, NEW m, m # NoMessage, NEW streamed \in Seq(Chunks),
           NEW text \in Seq(Chunks), NEW t, t = TextArrives(s, m, streamed, text)
    PROVE  TurnOK(t) /\ OthersKept(t, s)
<1>1. CASE text = <<>>
    BY <1>1 DEF TextArrives, OthersKept
<1>2. CASE text # <<>> /\ IsPrefix(streamed, text)
    <2>1. Len(streamed) \in Nat /\ Len(text) \in Nat /\ Len(streamed) <= Len(text)
        BY <1>2 DEF IsPrefix
    <2>2. PICK delta : delta = SubSeq(text, Len(streamed) + 1, Len(text))
        OBVIOUS
    <2>3. delta \in Seq(Chunks)
        BY <2>1, <2>2
    <2>4. t = AppendText(s, m, delta)
        BY <1>2, <2>2 DEF TextArrives
    <2> QED BY <2>3, <2>4, AppendTextOK
<1>3. CASE text # <<>> /\ ~IsPrefix(streamed, text)
    <2>1. t = ReplaceText(s, m, text)
        BY <1>3 DEF TextArrives
    <2> QED BY <2>1, ReplaceTextOK
<1> QED BY <1>1, <1>2, <1>3

(* A whole message: nothing but its call changes what is open besides the texts. *)
LEMMA MessageArrivesOK ==
    ASSUME NEW s, TurnOK(s), ~s.p.completed, NEW m, m # NoMessage, NEW text \in Seq(Chunks),
           speech.text \in Seq(Chunks), NEW c \in ToolCalls, NEW kind \in CallKinds,
           kind # "none" => <<"call", c>> \notin Names(s.p),
           NEW t, t = MessageArrives(s, m, text, c, kind)
    PROVE  /\ TurnOK(t) /\ TextsKept(t, s)
           /\ ComesUp(t, s, c, kind)
<1>1. CASE m \in speech.done
    <2>1. t = CallStarted(s, c, kind)
        BY <1>1 DEF MessageArrives
    <2> QED BY <2>1, CallStartedOK
<1>2. CASE m \notin speech.done
    <2>1. PICK outcome \in Outcomes : outcome = "succeeded"
        BY DEF Outcomes
    <2>2. PICK a : a = CompleteReasoning(s, m, outcome)
        OBVIOUS
    <2>3. PICK streamed \in Seq(Chunks) : streamed = speech.text
        OBVIOUS
    <2>4. PICK b : b = TextArrives(a, m, streamed, text)
        OBVIOUS
    <2>5. PICK d : d = CallStarted(b, c, kind)
        OBVIOUS
    <2>6. t = MessageCompleted(d, m)
        BY <1>2, <2>1, <2>2, <2>3, <2>4, <2>5 DEF MessageArrives
    <2>7. TurnOK(a) /\ OthersKept(a, s)
        BY <2>1, <2>2, CompleteReasoningOK
    <2>8. ~a.p.completed
        BY <2>7 DEF OthersKept
    <2>9. TurnOK(b) /\ OthersKept(b, a)
        BY <2>4, <2>7, <2>8, TextArrivesOK
    <2>10. OthersKept(b, s)
        BY <2>7, <2>9, OthersKeptThen
    <2>11. ~b.p.completed
        BY <2>10 DEF OthersKept
    <2>12. kind # "none" => <<"call", c>> \notin Names(b.p)
        <3>1. <<"call", c>>[1] \in {"call", "file", "ask"}
            OBVIOUS
        <3> QED BY <2>10, <3>1 DEF OthersKept, CallIds
    <2>13. /\ TurnOK(d) /\ TextsKept(d, b)
           /\ ComesUp(d, b, c, kind)
        BY <2>5, <2>9, <2>11, <2>12, CallStartedOK
    <2>14. ~d.p.completed
        BY <2>11, <2>13 DEF TextsKept
    <2>15. TurnOK(t) /\ OthersKept(t, d)
        BY <2>6, <2>13, <2>14, MessageCompletedOK
    <2>16. TextsKept(t, s)
        BY <2>10, <2>13, <2>15 DEF TextsKept, OthersKept
    <2>17. /\ t.tools = d.tools /\ t.agents = d.agents /\ CallIds(t.p) = CallIds(d.p)
           /\ b.tools = s.tools /\ b.agents = s.agents /\ CallIds(b.p) = CallIds(s.p)
        BY <2>10, <2>15 DEF OthersKept
    <2> QED BY <2>13, <2>15, <2>16, <2>17 DEF ComesUp
<1> QED BY <1>1, <1>2

-----------------------------------------------------------------------------
(* The steps.                                                                *)

LEMMA GoodKept ==
    ASSUME NEW s, NEW talk, ItemsGood(s, talk), NEW t, TurnOK(t), OthersKept(t, s),
           NEW u, TalkTyped(u), u.tools = talk.tools, u.called = talk.called,
           u.asked = talk.asked, u.compaction = talk.compaction, u.segment = talk.segment
    PROVE  ItemsGood(t, u)
<1>1. Names(t.p) \subseteq {id \in Names(t.p) : id[1] \notin {"call", "file", "ask"}} \cup CallIds(s.p)
    BY DEF OthersKept, CallIds
<1>2. NamesGood(t, u)
    BY <1>1 DEF ItemsGood, NamesGood, CallIds
<1>3. Agree(t, u)
    BY DEF ItemsGood, Agree, OthersKept
<1> QED BY <1>2, <1>3 DEF ItemsGood

LEMMA StillGood ==
    ASSUME ItemsInv, turn' = turn, TalkTyped(speech'), speech'.tools = speech.tools,
           speech'.called = speech.called, speech'.asked = speech.asked,
           speech'.compaction = speech.compaction, speech'.segment = speech.segment
    PROVE  ItemsInv'
<1>1. PICK s, talk, u : s = turn /\ talk = speech /\ u = speech'
    OBVIOUS
<1>2. ItemsGood(s, talk) /\ TurnOK(s) /\ OthersKept(s, s)
    BY <1>1 DEF ItemsInv, ItemsGood, OthersKept
<1>3. /\ TalkTyped(u) /\ u.tools = talk.tools /\ u.called = talk.called /\ u.asked = talk.asked
      /\ u.compaction = talk.compaction /\ u.segment = talk.segment
    BY <1>1
<1>4. ItemsGood(s, u)
    BY <1>2, <1>3, GoodKept
<1> QED BY <1>1, <1>4 DEF ItemsInv

LEMMA NamesAMessage ==
    ASSUME NEW n \in Nat
    PROVE  <<"api", n>> # NoMessage /\ <<"uuid", n>> # NoMessage
<1>1. <<"api", n>> \in {"api", "uuid"} \X Nat /\ <<"uuid", n>> \in {"api", "uuid"} \X Nat
    OBVIOUS
<1> QED BY <1>1, ItemAssumption

LEMMA MessageStartsKeeps ==
    ASSUME ItemsInv, MessageStarts
    PROVE  ItemsInv'
<1>1. TalkTyped(speech)
    BY DEF ItemsInv, ItemsGood
<1>2. /\ speech' = [speech EXCEPT !.api = speech.api + 1, !.root = <<"api", speech.api + 1>>]
      /\ turn' = turn
    BY DEF MessageStarts
<1>3. /\ speech'.api = speech.api + 1 /\ speech'.root = <<"api", speech.api + 1>>
      /\ speech'.tools = speech.tools /\ speech'.called = speech.called
      /\ speech'.asked = speech.asked /\ speech'.compaction = speech.compaction
      /\ speech'.segment = speech.segment /\ speech'.uuid = speech.uuid
      /\ speech'.text = speech.text /\ DOMAIN speech' = DOMAIN speech
    BY <1>1, <1>2 DEF TalkTyped
<1>4. TalkTyped(speech')
    BY <1>1, <1>3 DEF TalkTyped
<1> QED BY <1>2, <1>3, <1>4, StillGood

LEMMA TextsAre ==
    /\ Chunk \in Seq(Chunks) /\ Different \in Seq(Chunks) /\ <<>> \in Seq(Chunks)
    /\ Chunk \o Chunk \in Seq(Chunks)
<1>1. "a" \in Chunks /\ "b" \in Chunks
    BY DEF Chunks
<1>2. Chunk \in Seq(Chunks) /\ Different \in Seq(Chunks)
    BY <1>1 DEF Chunk, Different
<1>3. Chunk \o Chunk \in Seq(Chunks)
    BY <1>2, ConcatProperties
<1> QED BY <1>2, <1>3

(* A part of a message, whatever it is called. *)
LEMMA StreamNames ==
    ASSUME TalkTyped(speech), NEW m, m = StreamMessage,
           NEW uuid, uuid = IF speech.root = NoMessage THEN speech.uuid + 1 ELSE speech.uuid
    PROVE  m # NoMessage /\ m \in {"api", "uuid"} \X Nat /\ uuid \in Nat
<1>1. uuid \in Nat /\ speech.uuid + 1 \in Nat
    BY DEF TalkTyped
<1>2. <<"uuid", speech.uuid + 1>> # NoMessage
    BY <1>1, NamesAMessage
<1> QED BY <1>1, <1>2 DEF StreamMessage, TalkTyped

LEMMA StreamsThinkingKeeps ==
    ASSUME ItemsInv, StreamsThinking
    PROVE  ItemsInv'
<1>1. PICK s, talk, t, u : s = turn /\ talk = speech /\ t = turn' /\ u = speech'
    OBVIOUS
<1>2. ItemsGood(s, talk) /\ TurnOK(s) /\ TalkTyped(talk) /\ ~s.p.completed
    BY <1>1 DEF ItemsInv, ItemsGood, Agree, StreamsThinking, Executing, Running
<1>3. PICK m, uuid : /\ m = StreamMessage
                     /\ uuid = IF speech.root = NoMessage THEN speech.uuid + 1 ELSE speech.uuid
    OBVIOUS
<1>4. m # NoMessage /\ m \in {"api", "uuid"} \X Nat /\ uuid \in Nat
    BY <1>1, <1>2, <1>3, StreamNames
<1>5. u = [talk EXCEPT !.root = m, !.reasoning = Chunk, !.uuid = uuid]
    BY <1>1, <1>3 DEF StreamsThinking
<1>6. PICK delta \in Seq(Chunks) : delta = Chunk
    BY TextsAre
<1>7. TurnOK(t) /\ OthersKept(t, s)
    <2>1. t = AppendReasoning(s, m, delta)
        BY <1>1, <1>3, <1>6 DEF StreamsThinking
    <2> QED BY <1>2, <1>4, <2>1, AppendReasoningOK
<1>8. /\ u.root = m /\ u.uuid = uuid /\ u.api = talk.api /\ u.tools = talk.tools
      /\ u.called = talk.called /\ u.asked = talk.asked /\ u.compaction = talk.compaction
      /\ u.segment = talk.segment /\ u.text = talk.text /\ DOMAIN u = DOMAIN talk
    BY <1>2, <1>5 DEF TalkTyped
<1>9. TalkTyped(u)
    BY <1>2, <1>4, <1>8 DEF TalkTyped
<1>10. ItemsGood(t, u)
    BY <1>2, <1>7, <1>8, <1>9, GoodKept
<1> QED BY <1>1, <1>10 DEF ItemsInv

LEMMA StreamsTextKeeps ==
    ASSUME ItemsInv, StreamsText
    PROVE  ItemsInv'
<1>1. PICK s, talk, t, u : s = turn /\ talk = speech /\ t = turn' /\ u = speech'
    OBVIOUS
<1>2. ItemsGood(s, talk) /\ TurnOK(s) /\ TalkTyped(talk) /\ ~s.p.completed
    BY <1>1 DEF ItemsInv, ItemsGood, Agree, StreamsText, Executing, Running
<1>3. PICK m, uuid : /\ m = StreamMessage
                     /\ uuid = IF speech.root = NoMessage THEN speech.uuid + 1 ELSE speech.uuid
    OBVIOUS
<1>4. m # NoMessage /\ m \in {"api", "uuid"} \X Nat /\ uuid \in Nat
    BY <1>1, <1>2, <1>3, StreamNames
<1>5. PICK delta \in Seq(Chunks) : delta = Chunk
    BY TextsAre
<1>6. u = [talk EXCEPT !.root = m, !.text = delta, !.uuid = uuid]
    BY <1>1, <1>3, <1>5 DEF StreamsText
<1>7. TurnOK(t) /\ OthersKept(t, s)
    <2>1. t = AppendText(s, m, delta)
        BY <1>1, <1>3, <1>5 DEF StreamsText
    <2> QED BY <1>2, <1>4, <2>1, AppendTextOK
<1>8. /\ u.root = m /\ u.uuid = uuid /\ u.api = talk.api /\ u.tools = talk.tools
      /\ u.called = talk.called /\ u.asked = talk.asked /\ u.compaction = talk.compaction
      /\ u.segment = talk.segment /\ u.text = delta /\ DOMAIN u = DOMAIN talk
    BY <1>2, <1>6 DEF TalkTyped
<1>9. TalkTyped(u)
    BY <1>2, <1>4, <1>8 DEF TalkTyped
<1>10. ItemsGood(t, u)
    BY <1>2, <1>7, <1>8, <1>9, GoodKept
<1> QED BY <1>1, <1>10 DEF ItemsInv

LEMMA EntryArrivesKeeps ==
    ASSUME ItemsInv, EntryArrives
    PROVE  ItemsInv'
<1>1. PICK s, talk, t, u : s = turn /\ talk = speech /\ t = turn' /\ u = speech'
    OBVIOUS
<1>2. ItemsGood(s, talk) /\ TurnOK(s) /\ TalkTyped(talk) /\ ~s.p.completed /\ s.outcome = "none"
    BY <1>1 DEF ItemsInv, ItemsGood, Agree, EntryArrives, Executing, Running
<1> DEFINE Arrives(text, kind, c) ==
          LET m == IF speech.root # NoMessage THEN speech.root ELSE <<"api", speech.api>>
          IN
            /\ Executing /\ speech.api > 0 /\ Len(script) < MaxEntries
            /\ speech.text # <<>> => text # <<>>
            /\ speech.text = <<>> => text \in {<<>>, Chunk} /\ (text # <<>> => m \notin speech.done)
            /\ speech.reasoning # <<>> \/ text # <<>> \/ kind # "none"
            /\ IF kind = "none" THEN c = CHOOSE x \in ToolCalls : TRUE ELSE c \notin speech.called
            /\ script' = Append(script, [reasoning |-> speech.reasoning, text |-> text,
                                         kind |-> kind, call |-> c])
            /\ turn' = MessageArrives(turn, m, text, c, kind)
            /\ speech' = [speech EXCEPT !.root = NoMessage, !.done = @ \cup {m},
                              !.reasoning = <<>>, !.text = <<>>, !.spoke = text # <<>>,
                              !.called = IF kind = "none" THEN @ ELSE @ \cup {c},
                              !.tools = IF kind = "none" THEN @
                                        ELSE [x \in DOMAIN @ \cup {c} |->
                                                 IF x = c THEN kind \in {"agent", "backgroundAgent"}
                                                 ELSE @[x]]]
<1>3. PICK text \in {<<>>, Chunk, Chunk \o Chunk, Different}, kind \in CallKinds, c \in ToolCalls :
          Arrives(text, kind, c)
    BY Zenon DEF EntryArrives
<1> HIDE DEF Arrives
<1>4. PICK m : m = IF speech.root # NoMessage THEN speech.root ELSE <<"api", speech.api>>
    OBVIOUS
<1>5.  /\ kind # "none" => c \notin speech.called
       /\ turn' = MessageArrives(turn, m, text, c, kind)
       /\ speech' = [speech EXCEPT !.root = NoMessage, !.done = @ \cup {m},
                              !.reasoning = <<>>, !.text = <<>>, !.spoke = text # <<>>,
                              !.called = IF kind = "none" THEN @ ELSE @ \cup {c},
                              !.tools = IF kind = "none" THEN @
                                        ELSE [x \in DOMAIN @ \cup {c} |->
                                                 IF x = c THEN kind \in {"agent", "backgroundAgent"}
                                                 ELSE @[x]]]
    BY <1>3, <1>4 DEF Arrives
<1>6. m # NoMessage
    BY <1>1, <1>2, <1>4, NamesAMessage DEF TalkTyped
<1>7. text \in Seq(Chunks)
    BY TextsAre
<1>8. kind # "none" => <<"call", c>> \notin Names(s.p)
    <2>1. <<"call", c>>[1] = "call" /\ <<"call", c>>[2] = c
        OBVIOUS
    <2> QED BY <1>1, <1>2, <1>5, <2>1 DEF ItemsGood, NamesGood
<1>9. TurnOK(t) /\ TextsKept(t, s) /\ ComesUp(t, s, c, kind)
    <2>1. speech.text \in Seq(Chunks)
        BY <1>1, <1>2 DEF TalkTyped
    <2>2. t = MessageArrives(s, m, text, c, kind)
        BY <1>1, <1>5
    <2> QED BY <1>2, <1>6, <1>7, <1>8, <2>1, <2>2, MessageArrivesOK
<1>10. PICK called, tools, done, spoke :
          /\ called = IF kind = "none" THEN talk.called ELSE talk.called \cup {c}
          /\ tools = IF kind = "none" THEN talk.tools
                     ELSE [x \in DOMAIN talk.tools \cup {c} |->
                              IF x = c THEN kind \in {"agent", "backgroundAgent"} ELSE talk.tools[x]]
          /\ u = [talk EXCEPT !.root = NoMessage, !.done = done, !.reasoning = <<>>, !.text = <<>>,
                              !.spoke = spoke, !.called = called, !.tools = tools]
    <2>1. PICK called : called = IF kind = "none" THEN talk.called ELSE talk.called \cup {c}
        OBVIOUS
    <2>2. PICK tools : tools = IF kind = "none" THEN talk.tools
                     ELSE [x \in DOMAIN talk.tools \cup {c} |->
                              IF x = c THEN kind \in {"agent", "backgroundAgent"} ELSE talk.tools[x]]
        OBVIOUS
    <2>3. PICK done, spoke : done = talk.done \cup {m} /\ spoke = (text # <<>>)
        OBVIOUS
    <2>4. u = [talk EXCEPT !.root = NoMessage, !.done = done, !.reasoning = <<>>, !.text = <<>>,
                              !.spoke = spoke, !.called = called, !.tools = tools]
        BY <1>1, <1>5, <2>1, <2>2, <2>3
    <2> QED BY <2>1, <2>2, <2>4
<1>11. /\ u.root = NoMessage /\ u.uuid = talk.uuid /\ u.api = talk.api /\ u.tools = tools
      /\ u.called = called /\ u.asked = talk.asked /\ u.compaction = talk.compaction
      /\ u.segment = talk.segment /\ u.text = <<>> /\ DOMAIN u = DOMAIN talk
    BY <1>2, <1>10 DEF TalkTyped
<1>12. /\ t.compacting = s.compacting /\ t.asks = s.asks /\ t.outcome = s.outcome
       /\ t.p.completed = s.p.completed
    BY <1>9 DEF TextsKept
<1>13. CASE kind = "none"
    <2>1. OthersKept(t, s) \/ /\ t.tools = s.tools /\ t.agents = s.agents
                              /\ CallIds(t.p) = CallIds(s.p)
        BY <1>9, <1>13 DEF ComesUp
    <2>2. tools = talk.tools /\ called = talk.called
        BY <1>10, <1>13
    <2>3. TalkTyped(u)
        BY <1>2, <1>7, <1>11, <2>2, TextsAre DEF TalkTyped
    <2>4. /\ t.tools = s.tools /\ t.agents = s.agents /\ CallIds(t.p) = CallIds(s.p)
        BY <2>1 DEF OthersKept
    <2>5. NamesGood(t, u)
        <3>1. \A id \in Names(t.p) : id[1] \in {"call", "file", "ask"} => id \in Names(s.p)
            BY <2>4 DEF CallIds
        <3> QED BY <1>2, <1>11, <2>2, <3>1 DEF ItemsGood, NamesGood
    <2>6. Agree(t, u)
        BY <1>2, <1>11, <1>12, <2>2, <2>4 DEF ItemsGood, Agree
    <2>7. ItemsGood(t, u)
        BY <1>9, <2>3, <2>5, <2>6 DEF ItemsGood
    <2> QED BY <1>1, <2>7 DEF ItemsInv
<1>14. CASE kind # "none"
    <2>1. called = talk.called \cup {c} /\ c \notin talk.called
        BY <1>1, <1>10, <1>14, <1>5
    <2>2. DOMAIN tools = DOMAIN talk.tools \cup {c}
          /\ tools = [x \in DOMAIN talk.tools \cup {c} |->
                              IF x = c THEN kind \in {"agent", "backgroundAgent"} ELSE talk.tools[x]]
        BY <1>10, <1>14
    <2>3. c \notin DOMAIN talk.tools
        BY <1>2, <2>1 DEF TalkTyped
    <2>4. /\ tools[c] <=> kind \in AgentKinds
          /\ \A x \in DOMAIN talk.tools : tools[x] = talk.tools[x]
        BY <2>2, <2>3 DEF AgentKinds
    <2>5. TalkTyped(u)
        <3>1. tools \in [DOMAIN tools -> BOOLEAN]
            <4>1. (kind \in {"agent", "backgroundAgent"}) \in BOOLEAN
                OBVIOUS
            <4>2. \A x \in DOMAIN talk.tools : talk.tools[x] \in BOOLEAN
                BY <1>2 DEF TalkTyped
            <4>3. tools = [x \in DOMAIN tools |-> tools[x]]
                BY <2>2
            <4>4. tools[c] \in BOOLEAN
                BY <2>2, <4>1
            <4>5. \A x \in DOMAIN tools : tools[x] \in BOOLEAN
                BY <2>2, <2>4, <4>2, <4>4
            <4> QED BY <4>3, <4>5
        <3> QED BY <1>2, <1>11, <2>1, <2>2, <3>1, TextsAre DEF TalkTyped
    <2>6. CallIds(t.p) = CallIds(s.p) \cup {<<"call", c>>}
        BY <1>9, <1>14 DEF ComesUp
    <2>7. NamesGood(t, u)
        <3>1. \A id \in Names(t.p) : id[1] \in {"call", "file", "ask"}
                                        => id \in Names(s.p) \/ id = <<"call", c>>
            BY <2>6 DEF CallIds
        <3>2. <<"call", c>>[1] = "call" /\ <<"call", c>>[2] = c
            OBVIOUS
        <3>3. talk.called \ DOMAIN talk.tools \subseteq u.called \ DOMAIN u.tools
            BY <1>11, <2>1, <2>2
        <3> QED BY <1>2, <1>11, <2>1, <3>1, <3>2, <3>3 DEF ItemsGood, NamesGood
    <2>8. DOMAIN t.tools \cup DOMAIN t.agents = DOMAIN s.tools \cup DOMAIN s.agents \cup {c}
          /\ DOMAIN t.agents = IF kind \in AgentKinds THEN DOMAIN s.agents \cup {c} ELSE DOMAIN s.agents
        BY <1>9, <1>14 DEF ComesUp
    <2>9. Agree(t, u)
        <3>1. DOMAIN u.tools = DOMAIN t.tools \cup DOMAIN t.agents
            BY <1>2, <1>11, <2>2, <2>8 DEF ItemsGood, Agree
        <3>2. \A x \in DOMAIN u.tools : u.tools[x] <=> x \in DOMAIN t.agents
            <4>1. \A x \in DOMAIN talk.tools : talk.tools[x] <=> x \in DOMAIN s.agents
                BY <1>2 DEF ItemsGood, Agree
            <4>2. c \notin DOMAIN s.agents
                BY <1>2, <2>3 DEF ItemsGood, Agree
            <4> QED BY <1>11, <2>2, <2>3, <2>4, <2>8, <4>1, <4>2
        <3> QED BY <1>2, <1>11, <1>12, <3>1, <3>2 DEF ItemsGood, Agree
    <2>10. ItemsGood(t, u)
        BY <1>9, <2>5, <2>7, <2>9 DEF ItemsGood
    <2> QED BY <1>1, <2>10 DEF ItemsInv
<1> QED BY <1>13, <1>14

LEMMA CallReturnsKeeps ==
    ASSUME ItemsInv, NEW c \in ToolCalls, CallReturnsItem(c)
    PROVE  ItemsInv'
<1>1. PICK s, talk, t, u : s = turn /\ talk = speech /\ t = turn' /\ u = speech'
    OBVIOUS
<1>2. /\ ItemsGood(s, talk) /\ TurnOK(s) /\ TalkTyped(talk) /\ ~s.p.completed /\ s.outcome = "none"
      /\ c \in DOMAIN talk.tools
    BY <1>1 DEF ItemsInv, ItemsGood, Agree, CallReturnsItem, Executing, Running
<1>3. PICK isError, reported, goesOn, applied, tools :
          /\ isError \in BOOLEAN /\ reported \in BOOLEAN /\ goesOn \in BOOLEAN
          /\ t = IF talk.tools[c] THEN CompleteAgent(s, c, isError, goesOn)
                 ELSE CompleteTool(s, c, isError, reported)
          /\ tools = [x \in DOMAIN talk.tools \ {c} |-> talk.tools[x]]
          /\ u = [talk EXCEPT !.tools = tools, !.spoke = FALSE, !.applied = applied]
    <2>1. PICK kind : kind = (CHOOSE e \in Range(script) : e.kind # "none" /\ e.call = c).kind
        OBVIOUS
    <2>2. PICK isError \in BOOLEAN, reported \in BOOLEAN :
              LET edits == kind \in {"edit", "readableEdit"} /\ ~isError
              IN  /\ turn' = IF speech.tools[c]
                             THEN CompleteAgent(turn, c, isError, kind = "backgroundAgent")
                             ELSE CompleteTool(turn, c, isError, reported)
                  /\ speech' = [speech EXCEPT
                        !.tools = [x \in DOMAIN @ \ {c} |-> @[x]], !.spoke = FALSE,
                        !.applied = IF edits /\ ~turn.cancelled /\ (reported \/ kind = "readableEdit")
                                    THEN @ \cup {c} ELSE @]
        BY <2>1 DEF CallReturnsItem
    <2>3. PICK goesOn \in BOOLEAN : goesOn = (kind = "backgroundAgent")
        OBVIOUS
    <2>4. PICK tools : tools = [x \in DOMAIN talk.tools \ {c} |-> talk.tools[x]]
        OBVIOUS
    <2>5. PICK applied : u = [talk EXCEPT !.tools = tools, !.spoke = FALSE, !.applied = applied]
        BY <1>1, <2>2, <2>4
    <2>6. t = IF talk.tools[c] THEN CompleteAgent(s, c, isError, goesOn)
              ELSE CompleteTool(s, c, isError, reported)
        BY <1>1, <2>2, <2>3
    <2> QED BY <2>4, <2>5, <2>6
<1>4. /\ u.root = talk.root /\ u.uuid = talk.uuid /\ u.api = talk.api /\ u.tools = tools
      /\ u.called = talk.called /\ u.asked = talk.asked /\ u.compaction = talk.compaction
      /\ u.segment = talk.segment /\ u.text = talk.text /\ DOMAIN u = DOMAIN talk
    BY <1>2, <1>3 DEF TalkTyped
<1>5. /\ DOMAIN tools = DOMAIN talk.tools \ {c} /\ tools \in [DOMAIN tools -> BOOLEAN]
      /\ \A x \in DOMAIN tools : tools[x] = talk.tools[x]
    BY <1>2, <1>3 DEF TalkTyped
<1>6. TalkTyped(u)
    BY <1>2, <1>4, <1>5 DEF TalkTyped
<1>7. /\ DOMAIN talk.tools = DOMAIN s.tools \cup DOMAIN s.agents
      /\ \A x \in DOMAIN talk.tools : talk.tools[x] <=> x \in DOMAIN s.agents
      /\ DOMAIN s.tools \cap DOMAIN s.agents = {}
    BY <1>2 DEF ItemsGood, Agree, TurnOK, RecordsGood
<1>8. /\ TurnOK(t) /\ TextsKept(t, s)
      /\ DOMAIN t.tools \cup DOMAIN t.agents = (DOMAIN s.tools \cup DOMAIN s.agents) \ {c}
      /\ DOMAIN t.agents = DOMAIN s.agents \ {c}
      /\ CallIds(t.p) \subseteq CallIds(s.p) \cup {<<"file", c>>}
    <2>1. CASE talk.tools[c]
        <3>1. t = CompleteAgent(s, c, isError, goesOn) /\ c \in DOMAIN s.agents
            BY <1>2, <1>3, <1>7, <2>1
        <3>2. /\ TurnOK(t) /\ TextsKept(t, s) /\ DOMAIN t.agents = DOMAIN s.agents \ {c}
              /\ t.tools = s.tools /\ CallIds(t.p) = CallIds(s.p)
            <4>1. PICK yes \in BOOLEAN, on \in BOOLEAN : yes = isError /\ on = goesOn
                BY <1>3
            <4> QED BY <1>2, <3>1, <4>1, CompleteAgentOK
        <3> QED BY <1>7, <3>1, <3>2
    <2>2. CASE ~talk.tools[c]
        <3>1. t = CompleteTool(s, c, isError, reported) /\ c \in DOMAIN s.tools
            BY <1>2, <1>3, <1>7, <2>2
        <3>2. <<"file", c>> \notin Names(s.p)
            <4>1. <<"file", c>>[1] = "file" /\ <<"file", c>>[2] = c
                OBVIOUS
            <4> QED BY <1>2, <4>1 DEF ItemsGood, NamesGood
        <3>3. /\ TurnOK(t) /\ TextsKept(t, s) /\ DOMAIN t.tools = DOMAIN s.tools \ {c}
              /\ t.agents = s.agents /\ CallIds(t.p) \subseteq CallIds(s.p) \cup {<<"file", c>>}
            <4>1. PICK yes \in BOOLEAN, file \in BOOLEAN : yes = isError /\ file = reported
                BY <1>3
            <4> QED BY <1>2, <3>1, <3>2, <4>1, CompleteToolOK
        <3> QED BY <1>7, <3>1, <3>3
    <2> QED BY <2>1, <2>2
<1>9. NamesGood(t, u)
    <2>1. \A id \in Names(t.p) : id[1] \in {"call", "file", "ask"}
                                    => id \in Names(s.p) \/ id = <<"file", c>>
        BY <1>8 DEF CallIds
    <2>2. <<"file", c>>[1] = "file" /\ <<"file", c>>[2] = c
        OBVIOUS
    <2>3. c \in talk.called
        BY <1>2 DEF TalkTyped
    <2> QED BY <1>2, <1>4, <1>5, <2>1, <2>2, <2>3 DEF ItemsGood, NamesGood
<1>10. Agree(t, u)
    <2>1. DOMAIN u.tools = DOMAIN t.tools \cup DOMAIN t.agents
        BY <1>4, <1>5, <1>7, <1>8
    <2>2. \A x \in DOMAIN u.tools : u.tools[x] <=> x \in DOMAIN t.agents
        BY <1>4, <1>5, <1>7, <1>8
    <2> QED BY <1>2, <1>4, <1>8, <2>1, <2>2 DEF ItemsGood, Agree, TextsKept
<1>11. ItemsGood(t, u)
    BY <1>6, <1>8, <1>9, <1>10 DEF ItemsGood
<1> QED BY <1>1, <1>11 DEF ItemsInv

LEMMA TaskUpdatesKeeps ==
    ASSUME ItemsInv, NEW c \in ToolCalls, TaskUpdates(c)
    PROVE  ItemsInv'
<1>1. PICK s, talk, t, u : s = turn /\ talk = speech /\ t = turn' /\ u = speech'
    OBVIOUS
<1>2. ItemsGood(s, talk) /\ TurnOK(s) /\ TalkTyped(talk) /\ ~s.p.completed
    BY <1>1 DEF ItemsInv, ItemsGood, Agree, TaskUpdates, Happens, Executing, Running
<1>3. t = UpdateAgent(s, c) /\ u = [talk EXCEPT !.events = talk.events + 1]
    BY <1>1 DEF TaskUpdates
<1>4. TurnOK(t) /\ OthersKept(t, s)
    BY <1>2, <1>3, UpdateAgentOK
<1>5. /\ u.root = talk.root /\ u.uuid = talk.uuid /\ u.api = talk.api /\ u.tools = talk.tools
      /\ u.called = talk.called /\ u.asked = talk.asked /\ u.compaction = talk.compaction
      /\ u.segment = talk.segment /\ u.text = talk.text /\ DOMAIN u = DOMAIN talk
    BY <1>2, <1>3 DEF TalkTyped
<1>6. TalkTyped(u)
    BY <1>2, <1>5 DEF TalkTyped
<1>7. ItemsGood(t, u)
    BY <1>2, <1>4, <1>5, <1>6, GoodKept
<1> QED BY <1>1, <1>7 DEF ItemsInv

(* The steps that open no call and return none. *)
LEMMA CallsGood ==
    ASSUME NEW s, NEW talk, ItemsGood(s, talk), NEW t, TurnOK(t), CallsKept(t, s),
           NEW asks, asks \cap talk.asked = {},
           CallIds(t.p) \subseteq CallIds(s.p) \cup {<<"ask", q>> : q \in asks},
           NEW u, TalkTyped(u), u.tools = talk.tools, u.called = talk.called,
           u.asked = talk.asked \cup asks, t.asks \subseteq u.asked,
           s.outcome = "none" => (t.compacting <=> u.segment /\ u.compaction = "active")
    PROVE  ItemsGood(t, u)
<1>1. NamesGood(t, u)
    <2>1. \A id \in Names(t.p) : id[1] \in {"call", "file", "ask"}
                                    => id \in Names(s.p) \/ id \in {<<"ask", q>> : q \in asks}
        BY DEF CallIds
    <2>2. \A q \in asks : <<"ask", q>>[1] = "ask" /\ <<"ask", q>>[2] = q
        OBVIOUS
    <2> QED BY <2>1, <2>2 DEF ItemsGood, NamesGood
<1>2. Agree(t, u)
    BY DEF ItemsGood, Agree, CallsKept
<1> QED BY <1>1, <1>2 DEF ItemsGood

LEMMA AsksDesktopKeeps ==
    ASSUME ItemsInv, NEW ask \in Questions, AsksDesktop(ask)
    PROVE  ItemsInv'
<1>1. PICK s, talk, t, u : s = turn /\ talk = speech /\ t = turn' /\ u = speech'
    OBVIOUS
<1>2. /\ ItemsGood(s, talk) /\ TurnOK(s) /\ TalkTyped(talk) /\ ~s.p.completed
      /\ s.outcome = "none" /\ ask \notin talk.asked
    BY <1>1 DEF ItemsInv, ItemsGood, Agree, AsksDesktop, Happens, Executing, Running
<1>3. PICK type \in {"approval", "question"} : t = StartInteraction(s, ask, type)
    BY <1>1 DEF AsksDesktop
<1>4. u = [talk EXCEPT !.events = talk.events + 1, !.asked = talk.asked \cup {ask}]
    BY <1>1 DEF AsksDesktop
<1>5. /\ TurnOK(t) /\ CallsKept(t, s) /\ t.compacting = s.compacting
      /\ t.asks = s.asks \cup {ask}
      /\ CallIds(t.p) \subseteq CallIds(s.p) \cup {<<"ask", ask>>}
    <2>1. ask \notin s.asks
        BY <1>2 DEF ItemsGood, Agree
    <2>2. <<"ask", ask>> \notin Names(s.p)
        <3>1. <<"ask", ask>>[1] = "ask" /\ <<"ask", ask>>[2] = ask
            OBVIOUS
        <3> QED BY <1>2, <3>1 DEF ItemsGood, NamesGood
    <2> QED BY <1>2, <1>3, <2>1, <2>2, StartInteractionOK
<1>6. /\ u.root = talk.root /\ u.uuid = talk.uuid /\ u.api = talk.api /\ u.tools = talk.tools
      /\ u.called = talk.called /\ u.asked = talk.asked \cup {ask} /\ u.compaction = talk.compaction
      /\ u.segment = talk.segment /\ u.text = talk.text /\ DOMAIN u = DOMAIN talk
    BY <1>2, <1>4 DEF TalkTyped
<1>7. TalkTyped(u)
    BY <1>2, <1>6 DEF TalkTyped
<1>8. PICK asks : asks = {ask}
    OBVIOUS
<1>9. /\ asks \cap talk.asked = {} /\ u.asked = talk.asked \cup asks /\ t.asks \subseteq u.asked
      /\ CallIds(t.p) \subseteq CallIds(s.p) \cup {<<"ask", q>> : q \in asks}
      /\ t.compacting <=> u.segment /\ u.compaction = "active"
    BY <1>2, <1>5, <1>6, <1>8 DEF ItemsGood, Agree
<1>10. ItemsGood(t, u)
    BY <1>2, <1>5, <1>6, <1>7, <1>9, CallsGood
<1> QED BY <1>1, <1>10 DEF ItemsInv

LEMMA InteractionClosesKeeps ==
    ASSUME ItemsInv, NEW ask \in Questions, InteractionCloses(ask)
    PROVE  ItemsInv'
<1>1. PICK s, talk, t : s = turn /\ talk = speech /\ t = turn'
    OBVIOUS
<1>2. /\ ItemsGood(s, talk) /\ TurnOK(s) /\ TalkTyped(talk) /\ ~s.p.completed
      /\ s.outcome = "none" /\ ask \in s.asks /\ speech' = talk
    BY <1>1 DEF ItemsInv, ItemsGood, Agree, InteractionCloses, Executing, Running
<1>3. PICK reason : t = CloseInteraction(s, ask, reason)
    BY <1>1 DEF InteractionCloses
<1>4. /\ TurnOK(t) /\ CallsKept(t, s) /\ t.compacting = s.compacting
      /\ t.asks = s.asks \ {ask} /\ CallIds(t.p) = CallIds(s.p)
    BY <1>2, <1>3, CloseInteractionOK
<1>5. PICK asks : asks = {}
    OBVIOUS
<1>6. /\ asks \cap talk.asked = {} /\ talk.asked = talk.asked \cup asks
      /\ t.asks \subseteq talk.asked
      /\ CallIds(t.p) \subseteq CallIds(s.p) \cup {<<"ask", q>> : q \in asks}
      /\ t.compacting <=> talk.segment /\ talk.compaction = "active"
    BY <1>2, <1>4, <1>5 DEF ItemsGood, Agree
<1>7. ItemsGood(t, talk)
    BY <1>2, <1>4, <1>6, CallsGood
<1> QED BY <1>1, <1>2, <1>7 DEF ItemsInv

LEMMA CompactsKeeps ==
    ASSUME ItemsInv, Compacts
    PROVE  ItemsInv'
<1>1. PICK s, talk, t, u : s = turn /\ talk = speech /\ t = turn' /\ u = speech'
    OBVIOUS
<1>2. /\ ItemsGood(s, talk) /\ TurnOK(s) /\ TalkTyped(talk) /\ ~s.p.completed
      /\ s.outcome = "none" /\ ~s.compacting /\ talk.segment
    BY <1>1 DEF ItemsInv, ItemsGood, Agree, Compacts, Happens, Executing, Running
<1>3. t = StartCompaction(s) /\ u = [talk EXCEPT !.events = talk.events + 1, !.compaction = "active"]
    BY <1>1 DEF Compacts
<1>4. /\ TurnOK(t) /\ CallsKept(t, s) /\ t.compacting /\ t.asks = s.asks
      /\ CallIds(t.p) = CallIds(s.p)
    BY <1>2, <1>3, StartCompactionOK
<1>5. /\ u.root = talk.root /\ u.uuid = talk.uuid /\ u.api = talk.api /\ u.tools = talk.tools
      /\ u.called = talk.called /\ u.asked = talk.asked /\ u.compaction = "active"
      /\ u.segment = talk.segment /\ u.text = talk.text /\ DOMAIN u = DOMAIN talk
    BY <1>2, <1>3 DEF TalkTyped
<1>6. TalkTyped(u)
    BY <1>2, <1>5 DEF TalkTyped
<1>7. PICK asks : asks = {}
    OBVIOUS
<1>8. /\ asks \cap talk.asked = {} /\ u.asked = talk.asked \cup asks
      /\ t.asks \subseteq u.asked
      /\ CallIds(t.p) \subseteq CallIds(s.p) \cup {<<"ask", q>> : q \in asks}
      /\ t.compacting <=> u.segment /\ u.compaction = "active"
    BY <1>2, <1>4, <1>5, <1>7 DEF ItemsGood, Agree
<1>9. ItemsGood(t, u)
    BY <1>2, <1>4, <1>5, <1>6, <1>8, CallsGood
<1> QED BY <1>1, <1>9 DEF ItemsInv

LEMMA CompactedKeeps ==
    ASSUME ItemsInv, Compacted
    PROVE  ItemsInv'
<1>1. PICK s, talk, t, u : s = turn /\ talk = speech /\ t = turn' /\ u = speech'
    OBVIOUS
<1>2. /\ ItemsGood(s, talk) /\ TurnOK(s) /\ TalkTyped(talk) /\ ~s.p.completed
      /\ s.outcome = "none" /\ talk.segment /\ talk.compaction \in {"idle", "active"}
    BY <1>1 DEF ItemsInv, ItemsGood, Agree, TalkTyped, Compacted, Happens, Executing, Running
<1>3. s.compacting <=> talk.compaction = "active"
    BY <1>2 DEF ItemsGood, Agree
<1>4. PICK outcome, events, v :
          /\ outcome \in Outcomes
          /\ v = IF talk.compaction = "idle" THEN StartCompaction(s) ELSE s
          /\ t = CompleteCompactionItem(v, outcome)
          /\ u = [talk EXCEPT !.compaction = "settled", !.events = events]
    <2>1. PICK outcome \in {"succeeded", "failed"} :
              /\ speech' = [speech EXCEPT !.compaction = "settled",
                           !.events = IF speech.compaction = "idle" THEN @ + 1 ELSE @]
              /\ turn' = CompleteCompactionItem(IF speech.compaction = "idle"
                                                THEN StartCompaction(turn) ELSE turn, outcome)
        BY DEF Compacted
    <2>2. outcome \in Outcomes
        BY DEF Outcomes
    <2>3. PICK v, events : /\ v = IF talk.compaction = "idle" THEN StartCompaction(s) ELSE s
                           /\ events = IF talk.compaction = "idle" THEN talk.events + 1
                                       ELSE talk.events
        OBVIOUS
    <2>4. t = CompleteCompactionItem(v, outcome)
        BY <1>1, <2>1, <2>3
    <2>5. u = [talk EXCEPT !.compaction = "settled", !.events = events]
        BY <1>1, <2>1, <2>3
    <2> QED BY <2>2, <2>3, <2>4, <2>5
<1>5. /\ TurnOK(v) /\ CallsKept(v, s) /\ v.compacting /\ v.asks = s.asks
      /\ CallIds(v.p) = CallIds(s.p)
    <2>1. CASE talk.compaction = "idle"
        <3>1. v = StartCompaction(s) /\ ~s.compacting
            BY <1>3, <1>4, <2>1
        <3> QED BY <1>2, <3>1, StartCompactionOK
    <2>2. CASE talk.compaction = "active"
        BY <1>2, <1>3, <1>4, <2>2 DEF CallsKept
    <2> QED BY <1>2, <2>1, <2>2
<1>6. /\ TurnOK(t) /\ CallsKept(t, v) /\ ~t.compacting /\ t.asks = v.asks
      /\ CallIds(t.p) = CallIds(v.p)
    <2>1. ~v.p.completed
        BY <1>2, <1>5 DEF CallsKept
    <2> QED BY <1>4, <1>5, <2>1, CompleteCompactionItemOK
<1>7. /\ u.root = talk.root /\ u.uuid = talk.uuid /\ u.api = talk.api /\ u.tools = talk.tools
      /\ u.called = talk.called /\ u.asked = talk.asked /\ u.compaction = "settled"
      /\ u.segment = talk.segment /\ u.text = talk.text /\ DOMAIN u = DOMAIN talk
    BY <1>2, <1>4 DEF TalkTyped
<1>8. TalkTyped(u)
    BY <1>2, <1>7 DEF TalkTyped
<1>9. CallsKept(t, s)
    BY <1>5, <1>6 DEF CallsKept
<1>10. PICK asks : asks = {}
    OBVIOUS
<1>11. /\ asks \cap talk.asked = {} /\ u.asked = talk.asked \cup asks
       /\ t.asks \subseteq u.asked
       /\ CallIds(t.p) \subseteq CallIds(s.p) \cup {<<"ask", q>> : q \in asks}
       /\ t.compacting <=> u.segment /\ u.compaction = "active"
    BY <1>2, <1>5, <1>6, <1>7, <1>10 DEF ItemsGood, Agree
<1>12. ItemsGood(t, u)
    BY <1>2, <1>6, <1>7, <1>8, <1>9, <1>11, CallsGood
<1> QED BY <1>1, <1>12 DEF ItemsInv

LEMMA FieldsKept ==
    ASSUME NEW s, TurnOK(s), NEW v, v.p = s.p, v.speaking = s.speaking, v.item = s.item,
           v.assistant = s.assistant, v.texts = s.texts, v.thinking = s.thinking,
           v.thoughts = s.thoughts, v.tools = s.tools, v.agents = s.agents,
           v.compacting = s.compacting, v.compactions = s.compactions, v.asks = s.asks,
           DOMAIN v = DOMAIN s
    PROVE  TurnOK(v)
<1>1. TurnTyped(v)
    BY DEF TurnOK, TurnTyped
<1>2. RecordsGood(v)
    BY DEF TurnOK, RecordsGood
<1>3. AsksGood(v) /\ Numbered(v)
    BY DEF TurnOK, AsksGood, Numbered
<1>4. HeldOpen(v) = HeldOpen(s)
    BY DEF HeldOpen, TextLive, ThoughtsLive, ToolsLive, AgentsLive, CompactionLive, CompactionItem
<1> QED BY <1>1, <1>2, <1>3, <1>4 DEF TurnOK

LEMMA WorkingChanged ==
    ASSUME NEW s, TurnOK(s), NEW w, NEW v, v = [s EXCEPT !.working = w]
    PROVE  TurnOK(v) /\ v.p = s.p /\ v.working = w /\ v.outcome = s.outcome
<1>1. /\ v.p = s.p /\ v.speaking = s.speaking /\ v.item = s.item
      /\ v.assistant = s.assistant /\ v.texts = s.texts /\ v.thinking = s.thinking
      /\ v.thoughts = s.thoughts /\ v.tools = s.tools /\ v.agents = s.agents
      /\ v.compacting = s.compacting /\ v.compactions = s.compactions /\ v.asks = s.asks
      /\ DOMAIN v = DOMAIN s /\ v.working = w /\ v.outcome = s.outcome
    BY DEF TurnOK, TurnTyped, TurnFields
<1> QED BY <1>1, FieldsKept

LEMMA CancelMarked ==
    ASSUME NEW s, TurnOK(s), NEW v, v = [s EXCEPT !.cancelled = TRUE]
    PROVE  /\ TurnOK(v) /\ v.p = s.p /\ v.outcome = s.outcome /\ OthersKept(v, s)
<1>1. /\ v.p = s.p /\ v.speaking = s.speaking /\ v.item = s.item
      /\ v.assistant = s.assistant /\ v.texts = s.texts /\ v.thinking = s.thinking
      /\ v.thoughts = s.thoughts /\ v.tools = s.tools /\ v.agents = s.agents
      /\ v.compacting = s.compacting /\ v.compactions = s.compactions /\ v.asks = s.asks
      /\ DOMAIN v = DOMAIN s /\ v.outcome = s.outcome
    BY DEF TurnOK, TurnTyped, TurnFields
<1> QED BY <1>1, FieldsKept DEF OthersKept

(* The Turn ends, or goes on with nothing open. *)
LEMMA FinishGood ==
    ASSUME NEW s, NEW talk, ItemsGood(s, talk), s.outcome = "none", NEW v, TurnOK(v), v.p = s.p,
           v.outcome = s.outcome, NEW outcome \in Outcomes, NEW t, t = FinishItems(v, outcome),
           NEW u, TalkTyped(u), u.tools = talk.tools, u.called = talk.called,
           u.asked = talk.asked, u.compaction = talk.compaction,
           \/ outcome # "succeeded" \/ v.working = {}
           \/ DOMAIN talk.tools = {} /\ ~u.segment
    PROVE  ItemsGood(t, u)
<1>1. ~v.p.completed
    BY DEF ItemsGood, Agree
<1>2. /\ TurnOK(t) /\ CallIds(t.p) = CallIds(v.p)
      /\ DOMAIN t.tools = {} /\ DOMAIN t.agents = {} /\ ~t.compacting /\ t.asks = {}
      /\ \/ t.outcome = v.outcome /\ ~t.p.completed /\ outcome = "succeeded" /\ v.working # {}
         \/ t.outcome = outcome /\ t.p.completed
    BY <1>1, FinishItemsOK
<1>3. NamesGood(t, u)
    <2>1. \A id \in Names(t.p) : id[1] \in {"call", "file", "ask"} => id \in Names(s.p)
        BY <1>2 DEF CallIds
    <2> QED BY <2>1 DEF ItemsGood, NamesGood
<1>4. Agree(t, u)
    <2>1. "none" \notin Outcomes
        BY DEF Outcomes
    <2> QED BY <1>2, <2>1 DEF Agree
<1> QED BY <1>2, <1>3, <1>4 DEF ItemsGood

LEMMA SegmentSucceedsKeeps ==
    ASSUME ItemsInv, SegmentSucceeds
    PROVE  ItemsInv'
<1>1. PICK s, talk, t, u : s = turn /\ talk = speech /\ t = turn' /\ u = speech'
    OBVIOUS
<1>2. /\ ItemsGood(s, talk) /\ TurnOK(s) /\ TalkTyped(talk)
      /\ s.outcome = "none" /\ DOMAIN talk.tools = {}
    BY <1>1 DEF ItemsInv, ItemsGood, SegmentSucceeds, Executing, Running
<1>3. PICK still, v, outcome :
          /\ outcome \in Outcomes
          /\ v = [s EXCEPT !.working = still]
          /\ outcome = "succeeded" /\ t = FinishItems(v, outcome)
    <2>1. PICK still : turn' = FinishItems([turn EXCEPT !.working = still], "succeeded")
        BY DEF SegmentSucceeds
    <2>2. PICK v : v = [s EXCEPT !.working = still]
        OBVIOUS
    <2>3. PICK outcome \in Outcomes : outcome = "succeeded"
        BY DEF Outcomes
    <2> QED BY <1>1, <2>1, <2>2, <2>3
<1>4. TurnOK(v) /\ v.p = s.p /\ v.outcome = s.outcome
    BY <1>2, <1>3, WorkingChanged
<1>5. u = [talk EXCEPT !.segment = FALSE]
    BY <1>1 DEF SegmentSucceeds
<1>6. /\ u.root = talk.root /\ u.uuid = talk.uuid /\ u.api = talk.api /\ u.tools = talk.tools
      /\ u.called = talk.called /\ u.asked = talk.asked /\ u.compaction = talk.compaction
      /\ ~u.segment /\ u.segment \in BOOLEAN /\ u.text = talk.text /\ DOMAIN u = DOMAIN talk
    BY <1>2, <1>5 DEF TalkTyped
<1>7. TalkTyped(u)
    BY <1>2, <1>6 DEF TalkTyped
<1>8. ItemsGood(t, u)
    BY <1>2, <1>3, <1>4, <1>6, <1>7, FinishGood
<1> QED BY <1>1, <1>8 DEF ItemsInv

LEMMA SegmentFailsKeeps ==
    ASSUME ItemsInv, SegmentFails
    PROVE  ItemsInv'
<1>1. PICK s, talk, t, u : s = turn /\ talk = speech /\ t = turn' /\ u = speech'
    OBVIOUS
<1>2. ItemsGood(s, talk) /\ TurnOK(s) /\ TalkTyped(talk) /\ s.outcome = "none"
    BY <1>1 DEF ItemsInv, ItemsGood, SegmentFails, Executing, Running
<1>3. PICK outcome \in Outcomes : outcome # "succeeded" /\ t = FinishItems(s, outcome)
    BY <1>1 DEF SegmentFails, Outcomes
<1>4. u = [talk EXCEPT !.segment = FALSE]
    BY <1>1 DEF SegmentFails
<1>5. /\ u.root = talk.root /\ u.uuid = talk.uuid /\ u.api = talk.api /\ u.tools = talk.tools
      /\ u.called = talk.called /\ u.asked = talk.asked /\ u.compaction = talk.compaction
      /\ u.segment \in BOOLEAN /\ u.text = talk.text /\ DOMAIN u = DOMAIN talk
    BY <1>2, <1>4 DEF TalkTyped
<1>6. TalkTyped(u)
    BY <1>2, <1>5 DEF TalkTyped
<1>7. ItemsGood(t, u)
    <2>1. PICK v : v = s
        OBVIOUS
    <2>2. TurnOK(v) /\ v.p = s.p /\ v.outcome = s.outcome /\ t = FinishItems(v, outcome)
        BY <1>2, <1>3, <2>1
    <2> QED BY <1>2, <1>3, <1>5, <1>6, <2>2, FinishGood
<1> QED BY <1>1, <1>7 DEF ItemsInv

LEMMA SegmentResumesKeeps ==
    ASSUME ItemsInv, SegmentResumes
    PROVE  ItemsInv'
<1>1. PICK s, talk, u : s = turn /\ talk = speech /\ u = speech'
    OBVIOUS
<1>2. /\ ItemsGood(s, talk) /\ TurnOK(s) /\ TalkTyped(talk) /\ turn' = s
      /\ s.outcome = "none" /\ ~talk.segment
    BY <1>1 DEF ItemsInv, ItemsGood, SegmentResumes, Running
<1>3. u = [talk EXCEPT !.segment = TRUE, !.segments = talk.segments + 1, !.root = NoMessage,
                       !.api = talk.api + 1, !.done = {}, !.reasoning = <<>>, !.text = <<>>,
                       !.spoke = FALSE, !.compaction = "idle"]
    BY <1>1 DEF SegmentResumes
<1>4. /\ u.root = NoMessage /\ u.uuid = talk.uuid /\ u.api = talk.api + 1 /\ u.tools = talk.tools
      /\ u.called = talk.called /\ u.asked = talk.asked /\ u.compaction = "idle"
      /\ u.segment \in BOOLEAN /\ u.text = <<>> /\ DOMAIN u = DOMAIN talk
    BY <1>2, <1>3 DEF TalkTyped
<1>5. TalkTyped(u)
    BY <1>2, <1>4, TextsAre DEF TalkTyped
<1>6. ItemsGood(s, u)
    BY <1>2, <1>4, <1>5 DEF ItemsGood, NamesGood, Agree
<1> QED BY <1>1, <1>2, <1>6 DEF ItemsInv

LEMMA HeldTurnEndsKeeps ==
    ASSUME ItemsInv, HeldTurnEnds
    PROVE  ItemsInv'
<1>1. PICK s, talk, t : s = turn /\ talk = speech /\ t = turn'
    OBVIOUS
<1>2. ItemsGood(s, talk) /\ TurnOK(s) /\ TalkTyped(talk) /\ s.outcome = "none" /\ speech' = talk
    BY <1>1 DEF ItemsInv, ItemsGood, HeldTurnEnds, Running
<1>3. PICK w, v, outcome : /\ outcome \in Outcomes /\ w = {} /\ v = [s EXCEPT !.working = w]
                           /\ t = FinishItems(v, outcome)
    <2>1. PICK w, v : w = {} /\ v = [s EXCEPT !.working = w]
        OBVIOUS
    <2>2. PICK outcome \in Outcomes : outcome = "succeeded"
        BY DEF Outcomes
    <2>3. t = FinishItems(v, outcome)
        BY <1>1, <2>1, <2>2 DEF HeldTurnEnds
    <2> QED BY <2>1, <2>3
<1>4. TurnOK(v) /\ v.p = s.p /\ v.outcome = s.outcome /\ v.working = {}
    BY <1>2, <1>3, WorkingChanged
<1>5. ItemsGood(t, talk)
    <2>1. PICK u : u = talk
        OBVIOUS
    <2>2. /\ TalkTyped(u) /\ u.tools = talk.tools /\ u.called = talk.called
          /\ u.asked = talk.asked /\ u.compaction = talk.compaction
        BY <1>2, <2>1
    <2>3. ItemsGood(t, u)
        BY <1>2, <1>3, <1>4, <2>2, FinishGood
    <2> QED BY <2>1, <2>3
<1> QED BY <1>1, <1>2, <1>5 DEF ItemsInv

LEMMA CancelsKeeps ==
    ASSUME ItemsInv, CancelsItems
    PROVE  ItemsInv'
<1>1. PICK s, talk, t, u : s = turn /\ talk = speech /\ t = turn' /\ u = speech'
    OBVIOUS
<1>2. ItemsGood(s, talk) /\ TurnOK(s) /\ TalkTyped(talk) /\ s.outcome = "none"
    BY <1>1 DEF ItemsInv, ItemsGood, CancelsItems, Running
<1>3. PICK v, outcome : /\ outcome \in Outcomes /\ v = [s EXCEPT !.cancelled = TRUE]
                        /\ outcome = "cancelled" /\ (t = FinishItems(v, outcome) \/ t = v)
    <2>1. PICK v : v = [s EXCEPT !.cancelled = TRUE]
        OBVIOUS
    <2>2. PICK outcome \in Outcomes : outcome = "cancelled"
        BY DEF Outcomes
    <2>3. t = FinishItems(v, outcome) \/ t = v
        BY <1>1, <2>1, <2>2 DEF CancelsItems
    <2> QED BY <2>1, <2>2, <2>3
<1>4. TurnOK(v) /\ v.p = s.p /\ v.outcome = s.outcome /\ OthersKept(v, s)
    BY <1>2, <1>3, CancelMarked
<1>5. u = [talk EXCEPT !.events = talk.events + 1]
    BY <1>1 DEF CancelsItems
<1>6. /\ u.root = talk.root /\ u.uuid = talk.uuid /\ u.api = talk.api /\ u.tools = talk.tools
      /\ u.called = talk.called /\ u.asked = talk.asked /\ u.compaction = talk.compaction
      /\ u.segment = talk.segment /\ u.text = talk.text /\ DOMAIN u = DOMAIN talk
    BY <1>2, <1>5 DEF TalkTyped
<1>7. TalkTyped(u)
    BY <1>2, <1>6 DEF TalkTyped
<1>8. CASE t = FinishItems(v, outcome)
    <2>1. outcome \in Outcomes /\ outcome # "succeeded"
        BY <1>3
    <2>2. ItemsGood(t, u)
        BY <1>2, <1>4, <1>6, <1>7, <1>8, <2>1, FinishGood
    <2> QED BY <1>1, <2>2 DEF ItemsInv
<1>9. CASE t = v
    <2>1. ItemsGood(v, u)
        BY <1>2, <1>4, <1>6, <1>7, GoodKept
    <2> QED BY <1>1, <1>9, <2>1 DEF ItemsInv
<1> QED BY <1>3, <1>8, <1>9

LEMMA NewTurnGood ==
    TurnOK(NewTurn) /\ Names(NewTurn.p) = {} /\ CallIds(NewTurn.p) = {}
<1>1. PICK s, p : s = NewTurn /\ p = ProjectStartedTurn(NewProjector)
    OBVIOUS
<1>2. /\ p.items = <<>> /\ p.open = {} /\ p.card = NoItem /\ DOMAIN p.shown = {}
      /\ p.shown \in [DOMAIN p.shown -> Views]
      /\ p.started /\ ~p.completed /\ ~p.threw /\ ~p.misused
      /\ {"started", "completed", "threw", "misused", "items", "open", "card", "order", "shown"}
             \subseteq DOMAIN p
    BY <1>1 DEF ProjectStartedTurn, NewProjector
<1>3. DOMAIN p.items = {} /\ Names(p) = {} /\ LiveItems(p) = {}
    BY <1>2 DEF Names, LiveItems
<1>4. Sound(p) /\ Accepts(p)
    BY <1>2, <1>3 DEF Sound, ProjectorTyped, IdsDiffer, WireGood, Accepts
<1>5. /\ s.p = p /\ ~s.speaking /\ s.assistant = NoMessage /\ s.texts = 0 /\ DOMAIN s.thinking = {}
      /\ s.thoughts = 0 /\ DOMAIN s.tools = {} /\ DOMAIN s.agents = {} /\ ~s.compacting
      /\ s.compactions = 0 /\ s.asks = {} /\ s.speaking \in BOOLEAN /\ s.compacting \in BOOLEAN
      /\ TurnFields \subseteq DOMAIN s
    BY <1>1 DEF NewTurn, TurnFields
<1>6. /\ s.thinking \in [DOMAIN s.thinking -> ItemRecords]
      /\ s.tools \in [DOMAIN s.tools -> ItemRecords]
      /\ s.agents \in [DOMAIN s.agents -> ItemRecords]
    BY <1>1 DEF NewTurn
<1>7. TurnTyped(s)
    <2>1. IsFiniteSet(DOMAIN s.thinking)
        BY <1>5, FS_EmptySet
    <2> QED BY <1>5, <1>6, <2>1 DEF TurnTyped
<1>8. RecordsGood(s)
    BY <1>5 DEF RecordsGood
<1>9. AsksGood(s) /\ Numbered(s)
    BY <1>2, <1>3, <1>5 DEF AsksGood, Numbered
<1>10. HeldOpen(s) = {}
    <2>1. TextLive(s) = {} /\ CompactionLive(s) = {}
        BY <1>5 DEF TextLive, CompactionLive
    <2>2. ThoughtsLive(s) = {} /\ ToolsLive(s) = {} /\ AgentsLive(s) = {}
        BY <1>5 DEF ThoughtsLive, ToolsLive, AgentsLive
    <2>3. AsksLive(s.p) = {}
        BY <1>2, <1>5 DEF AsksLive, Asked
    <2> QED BY <2>1, <2>2, <2>3 DEF HeldOpen
<1> QED BY <1>1, <1>3, <1>4, <1>5, <1>7, <1>8, <1>9, <1>10 DEF TurnOK, CallIds

LEMMA ItemsInit ==
    ASSUME InitItems
    PROVE  ItemsInv
<1>1. PICK s, talk, base : s = turn /\ talk = speech /\ base = NewTurn
    OBVIOUS
<1>2. /\ TurnOK(base) /\ CallIds(base.p) = {} /\ ~base.p.completed /\ ~base.speaking
      /\ base.texts = 0 /\ DOMAIN base.tools = {} /\ DOMAIN base.agents = {} /\ ~base.compacting
      /\ base.asks = {} /\ base.outcome = "none"
    BY <1>1, NewTurnGood DEF NewTurn, ProjectStartedTurn, NewProjector
<1>3. TurnOK(s) /\ OthersKept(s, base)
    <2>1. CASE s = base
        BY <1>2, <2>1 DEF OthersKept
    <2>2. CASE s = OpensWithText
        <3>1. s = Speaks(base)
            <4>1. PICK item, q : /\ item = NewItem(<<"agentMessage", base.texts + 1>>, "agentMessage")
                                 /\ q = StartItem(base.p, item)
                OBVIOUS
            <4>2. base.texts + 1 = 1
                BY <1>2
            <4>3. s = [base EXCEPT !.speaking = TRUE, !.item = item, !.texts = 1, !.p = q]
                BY <1>1, <2>2, <4>1, <4>2 DEF OpensWithText, FirstItem
            <4>4. Speaks(base) = [base EXCEPT !.texts = 1, !.item = item, !.speaking = TRUE, !.p = q]
                BY <4>1, <4>2 DEF Speaks
            <4> QED BY <4>3, <4>4
        <3> QED BY <1>2, <3>1, SpeaksOK
    <2> QED BY <1>1, <2>1, <2>2 DEF InitItems
<1>4. /\ talk.api = 0 /\ talk.uuid = 0 /\ talk.root = NoMessage /\ talk.text = <<>>
      /\ DOMAIN talk.tools = {} /\ talk.called = {} /\ talk.asked = {} /\ talk.segment
      /\ talk.segment \in BOOLEAN /\ talk.compaction = "idle"
      /\ talk.tools \in [DOMAIN talk.tools -> BOOLEAN]
      /\ {"segment", "segments", "api", "uuid", "root", "done", "reasoning", "text", "spoke",
          "compaction", "tools", "called", "asked", "applied", "events"} \subseteq DOMAIN talk
    BY <1>1 DEF InitItems, NewSpeech
<1>5. TalkTyped(talk)
    BY <1>4, TextsAre DEF TalkTyped
<1>6. /\ DOMAIN s.tools = {} /\ DOMAIN s.agents = {} /\ ~s.compacting /\ s.asks = {}
      /\ s.outcome = "none" /\ ~s.p.completed /\ CallIds(s.p) = {}
    BY <1>2, <1>3 DEF OthersKept
<1>7. NamesGood(s, talk)
    BY <1>6 DEF NamesGood, CallIds
<1>8. Agree(s, talk)
    BY <1>4, <1>6 DEF Agree
<1> QED BY <1>1, <1>3, <1>5, <1>7, <1>8 DEF ItemsInv, ItemsGood

LEMMA ItemsStep ==
    ASSUME ItemsInv, [NextItems]_itemVars
    PROVE  ItemsInv'
<1>1. CASE UNCHANGED itemVars
    <2>1. turn' = turn /\ speech' = speech
        BY <1>1 DEF itemVars
    <2>2. TalkTyped(speech)
        BY DEF ItemsInv, ItemsGood
    <2> QED BY <2>1, <2>2, StillGood
<1>2. CASE MessageStarts
    BY <1>2, MessageStartsKeeps
<1>3. CASE StreamsThinking
    BY <1>3, StreamsThinkingKeeps
<1>4. CASE StreamsText
    BY <1>4, StreamsTextKeeps
<1>5. CASE EntryArrives
    BY <1>5, EntryArrivesKeeps
<1>6. ASSUME NEW c \in ToolCalls, CallReturnsItem(c) PROVE ItemsInv'
    BY <1>6, CallReturnsKeeps
<1>7. ASSUME NEW c \in ToolCalls, TaskUpdates(c) PROVE ItemsInv'
    BY <1>7, TaskUpdatesKeeps
<1>8. ASSUME NEW q \in Questions, AsksDesktop(q) PROVE ItemsInv'
    BY <1>8, AsksDesktopKeeps
<1>9. ASSUME NEW q \in Questions, InteractionCloses(q) PROVE ItemsInv'
    BY <1>9, InteractionClosesKeeps
<1>10. CASE Compacts
    BY <1>10, CompactsKeeps
<1>11. CASE Compacted
    BY <1>11, CompactedKeeps
<1>12. CASE SegmentSucceeds
    BY <1>12, SegmentSucceedsKeeps
<1>13. CASE SegmentFails
    BY <1>13, SegmentFailsKeeps
<1>14. CASE SegmentResumes
    BY <1>14, SegmentResumesKeeps
<1>15. CASE HeldTurnEnds
    BY <1>15, HeldTurnEndsKeeps
<1>16. CASE CancelsItems
    BY <1>16, CancelsKeeps
<1> QED BY <1>1, <1>2, <1>3, <1>4, <1>5, <1>6, <1>7, <1>8, <1>9, <1>10, <1>11, <1>12, <1>13,
           <1>14, <1>15, <1>16 DEF NextItems

(* The projector accepts every event of a Turn, and Desktop every message of the projector, for
   every number of calls, questions, messages, Segments and events. *)
THEOREM EventsAccepted == ItemsSpec => []ProjectionAccepted
<1>1. InitItems => ItemsInv
    BY ItemsInit
<1>2. ItemsInv /\ [NextItems]_itemVars => ItemsInv'
    BY ItemsStep
<1>3. ItemsInv => ProjectionAccepted
    BY DEF ItemsInv, ItemsGood, TurnOK, Accepts, ProjectionAccepted
<1> QED BY <1>1, <1>2, <1>3, PTL DEF ItemsSpec

==============================================================================
