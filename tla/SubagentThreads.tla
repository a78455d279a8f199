-------------------------- MODULE SubagentThreads --------------------------
(***************************************************************************)
(* The Subagents of one external Thread and the child Threads the Host      *)
(* shows for them (packages/host-runtime/src/app-server-host.ts,             *)
(* external-subagent-threads.ts, and the restore of a child Thread in        *)
(* external-thread-runtime.ts): child Threads are found or made as the       *)
(* outputs of the parent's Session name their Subagents, the Desktop may     *)
(* open and delete them, and a Host that has lost its Desktop ends when the  *)
(* work is done.                                                            *)
(*                                                                          *)
(* The outputs of one Session are handled one at a time, each to its last    *)
(* await; requests run beside them.                                         *)
(***************************************************************************)
EXTENDS Naturals, Sequences, FiniteSets

CONSTANTS
    Subagents,
    Threads,          \* the Host ids a child Thread may get
    RefreshDelays,    \* how often a child is read again once its Subagent has ended
    OpensLate,        \* the Desktop may open a child while it is being read that way
    DeletesRunning,   \* the Desktop may delete a child whose Subagent runs
    ReadsFail,        \* a Subagent's transcript may be unreadable
    MaxParentTurns, MaxItems, MaxOutputs   \* bounds: Turns, delegation outputs, outputs waiting

ASSUME SubagentAssumption ==
    /\ RefreshDelays \in Nat \ {0}
    /\ {OpensLate, DeletesRunning, ReadsFail} \subseteq BOOLEAN

VARIABLES
    agents,     \* the parent's Session: its Turn, its Subagents, what it has put out
    hosted,     \* the Host's registers of child Threads, and whether the Host is ending
    handling,   \* the output being handled, and the part of it that is about each Subagent
    announced   \* what the Desktop was told last of the parent and of every child Thread

subagentVars == <<agents, hosted, handling, announced>>

Absent == "absent"
Status == {"active", "idle"}
NoOutput == [kind |-> "none", status |-> <<>>]
Rest == [step |-> "rest"]

SubagentTypeOK ==
    /\ agents.turn \in BOOLEAN /\ agents.status \in [Subagents -> {"new", "running", "ended"}]
    /\ Len(agents.outputs) <= MaxOutputs
    /\ hosted.status \in [Threads -> Status \cup {Absent}]
    /\ hosted.running \subseteq Threads /\ hosted.ready \subseteq Threads
    /\ hosted.record \in [Threads -> Subagents \cup {Absent}]
    /\ hosted.open \in [Threads -> Status \cup {Absent, "opening"}]
    /\ hosted.end \in {"no", "requests", "waits", "over"}
    /\ handling.task \in [Subagents -> {Rest, [step |-> "find"]} \cup
           [step : {"refresh"}, thread : Threads, round : 1 .. RefreshDelays]]
    /\ announced.parent \in Status /\ announced.thread \in [Threads -> Status \cup {Absent}]
    /\ announced.turns \in [Threads -> {Absent, "inProgress", "completed"}]

InitSubagents ==
    /\ agents = [turn |-> FALSE, status |-> [s \in Subagents |-> "new"], outputs |-> <<>>,
                 turns |-> 0, items |-> 0]
    /\ hosted = [turn |-> FALSE, status |-> [t \in Threads |-> Absent], running |-> {},
                 record |-> [t \in Threads |-> Absent], ready |-> {},
                 open |-> [t \in Threads |-> Absent], end |-> "no"]
    /\ handling = [output |-> NoOutput, task |-> [s \in Subagents |-> Rest]]
    /\ announced = [parent |-> "idle", thread |-> [t \in Threads |-> Absent],
               turns |-> [t \in Threads |-> Absent]]

(***************************************************************************)
(* The Session                                                              *)
(***************************************************************************)

\* The Session after it has put an output out, while there is room for it.
Room == Len(agents.outputs) < MaxOutputs
Only(s, status) == [r \in {s} |-> status]
Puts(session, kind, status) ==
    [session EXCEPT !.outputs = Append(@, [kind |-> kind, status |-> status])]
Lists(session, listed, status) ==
    Puts([session EXCEPT !.items = @ + 1], "delegation", [s \in listed |-> status[s]])

Running == {s \in Subagents : agents.status[s] = "running"}

\* turn/start reaches the Session.
StartParentTurn ==
    /\ Room /\ ~hosted.turn /\ hosted.end = "no" /\ agents.turns < MaxParentTurns
    /\ agents' = Puts([agents EXCEPT !.turn = TRUE, !.turns = @ + 1], "turnStarted", <<>>)
    /\ hosted' = [hosted EXCEPT !.turn = TRUE]
    /\ UNCHANGED <<handling, announced>>

\* The Turn starts Subagents, new ones or ones that have ended.  Their delegation is put out.
DelegateTo(started) ==
    /\ Room /\ agents.turn /\ agents.items < MaxItems /\ started # {} /\ started \cap Running = {}
    /\ agents' = Lists([agents EXCEPT
           !.status = [s \in Subagents |-> IF s \in started THEN "running" ELSE @[s]]],
           started, [s \in started |-> "active"])
    /\ UNCHANGED <<hosted, handling, announced>>

\* A delegation is updated or completed with the states its Subagents have by then.
UpdateDelegation(listed) ==
    /\ Room /\ agents.turn /\ agents.items < MaxItems /\ listed # {}
    /\ \A s \in listed : agents.status[s] # "new"
    /\ agents' = Lists(agents, listed,
           [s \in listed |-> IF s \in Running THEN "active" ELSE "idle"])
    /\ UNCHANGED <<hosted, handling, announced>>

GrowTranscript(s) ==
    /\ Room /\ s \in Running /\ agents.items < MaxItems
    /\ agents' = Puts([agents EXCEPT !.items = @ + 1], "transcript", Only(s, "active"))
    /\ UNCHANGED <<hosted, handling, announced>>

\* The end of a background Subagent is put out as such; within a Turn its delegation may be
\* updated first.  Of a Subagent in the foreground nothing but that update tells.
SettleSubagent(s) ==
    LET ended == [agents EXCEPT !.status[s] = "ended"]
        listed == Puts(ended, "delegation", Only(s, "idle"))
    IN /\ Room /\ s \in Running
       /\ \/ agents' = Puts(ended, "settled", Only(s, "idle"))
          \/ agents.turn /\ agents' = listed
          \/ agents.turn /\ Len(agents.outputs) + 2 <= MaxOutputs
             /\ agents' = Puts(listed, "settled", Only(s, "idle"))
       /\ UNCHANGED <<hosted, handling, announced>>

EndParentTurn ==
    /\ Room /\ agents.turn
    /\ agents' = Puts([agents EXCEPT !.turn = FALSE], "turnCompleted", <<>>)
    /\ UNCHANGED <<hosted, handling, announced>>

(***************************************************************************)
(* Work that keeps the Host from ending                                     *)
(***************************************************************************)

HasActiveWork(h) ==
    h.turn \/ h.running # {} \/ \E t \in Threads : h.open[t] = "active"

\* Whoever waits for the work to be done is woken, if it is.
SignalActiveWork(h) ==
    IF h.end = "waits" /\ ~HasActiveWork(h) THEN [h EXCEPT !.end = "over"] ELSE h

TrackRunningByParent(h, t, status) ==
    IF status = "active" THEN [h EXCEPT !.running = @ \cup {t}]
    ELSE SignalActiveWork([h EXCEPT !.running = {}])

\* A Subagent that has ended is signalled even if others still run.
TrackRunning(h, t, status) ==
    IF status = "active" THEN [h EXCEPT !.running = @ \cup {t}]
    ELSE IF h.running = {} THEN h
    ELSE SignalActiveWork([h EXCEPT !.running = @ \ {t}])

\* The Desktop is gone: no more requests, then the wait for the work.
Disconnect ==
    /\ hosted.end = "no"
    /\ hosted' = [hosted EXCEPT !.end = "requests"] /\ UNCHANGED <<agents, handling, announced>>

AwaitWork ==
    /\ hosted.end = "requests" /\ \A t \in Threads : hosted.open[t] # "opening"
    /\ hosted' = [hosted EXCEPT !.end = IF HasActiveWork(hosted) THEN "waits" ELSE "over"]
    /\ UNCHANGED <<agents, handling, announced>>

(***************************************************************************)
(* The outputs, one at a time                                               *)
(***************************************************************************)

HandlesOutput(kind) == handling.output.kind = kind
Resting == \A s \in Subagents : handling.task[s] = Rest
Handled(task) == handling' = [output |-> NoOutput, task |-> task]
Loaded(t) == hosted.open[t] \in Status

TakeOutput ==
    /\ handling.output = NoOutput /\ agents.outputs # <<>>
    /\ agents' = [agents EXCEPT !.outputs = Tail(@)]
    /\ handling' = [output |-> Head(agents.outputs),
           task |-> [s \in Subagents |->
               IF s \in DOMAIN Head(agents.outputs).status THEN [step |-> "find"] ELSE Rest]]
    /\ UNCHANGED <<hosted, announced>>

TurnStarted ==
    /\ HandlesOutput("turnStarted") /\ Handled(handling.task)
    /\ announced' = [announced EXCEPT !.parent = "active"] /\ UNCHANGED <<agents, hosted>>

\* The Turn is over for the Host before the Desktop is told of it.
TurnCompleted ==
    /\ HandlesOutput("turnCompleted")
    /\ hosted' = SignalActiveWork([hosted EXCEPT !.turn = FALSE])
    /\ handling' = [handling EXCEPT !.output.kind = "announce"]
    /\ UNCHANGED <<agents, announced>>

AnnounceTurnEnd ==
    /\ HandlesOutput("announce") /\ Handled(handling.task)
    /\ announced' = [announced EXCEPT !.parent = IF hosted.running # {} THEN "active" ELSE "idle"]
    /\ UNCHANGED <<agents, hosted>>

\* The statuses of Threads, open ones included.  An end is announced after the last reading.
SetStatus(s, h, t, status) ==
    LET seen == [h EXCEPT !.open[t] = IF @ \in Status THEN status ELSE @]
    IN IF status = "idle" /\ h.status[t] = "active"
       THEN /\ hosted' = seen /\ announced' = announced
            /\ handling' = [handling EXCEPT
                   !.task[s] = [step |-> "refresh", thread |-> t, round |-> 1]]
       ELSE /\ hosted' = [seen EXCEPT !.status[t] = status]
            /\ announced' = IF h.status[t] = status THEN announced
                       ELSE [announced EXCEPT !.thread[t] = status]
            /\ handling' = [handling EXCEPT !.task[s] = Rest]

ThreadsOf(s) == {t \in Threads : hosted.record[t] = s}
FreshThread(t) == hosted.record[t] = Absent /\ hosted.status[t] = Absent /\ hosted.open[t] = Absent

\* The child Thread of a delegated Subagent is found, or made: a record, then its commit.
Materialize(s) ==
    /\ HandlesOutput("delegation") /\ handling.task[s] = [step |-> "find"]
    /\ \E t \in Threads :
        /\ IF ThreadsOf(s) # {} THEN t \in ThreadsOf(s) ELSE FreshThread(t)
        /\ LET h == [hosted EXCEPT !.record[t] = s, !.ready = @ \cup {t}]
               status == handling.output.status[s]
           IN IF hosted.status[t] # Absent
              THEN SetStatus(s, TrackRunning(h, t, status), t, status)
              ELSE /\ hosted' = TrackRunning([h EXCEPT !.status[t] = status], t, status)
                   /\ announced' = [announced EXCEPT !.thread[t] = status]
                   /\ handling' = [handling EXCEPT !.task[s] = Rest]
    /\ UNCHANGED agents

\* The store refuses the record or its commit; the delegation is shown without a Thread.
MaterializeFails(s) ==
    /\ HandlesOutput("delegation") /\ handling.task[s] = [step |-> "find"]
    /\ ThreadsOf(s) \cap hosted.ready = {}
    /\ \/ UNCHANGED hosted
       \/ /\ ThreadsOf(s) = {}
          /\ \E t \in Threads : FreshThread(t) /\ hosted' = [hosted EXCEPT !.record[t] = s]
    /\ handling' = [handling EXCEPT !.task[s] = Rest] /\ UNCHANGED <<agents, announced>>

\* An output that names a Subagent without a Thread says nothing to the Host.
NoSuchChild(s) ==
    /\ HandlesOutput("settled") \/ HandlesOutput("transcript")
    /\ handling.task[s] = [step |-> "find"] /\ ThreadsOf(s) \cap hosted.ready = {}
    /\ Handled([handling.task EXCEPT ![s] = Rest]) /\ UNCHANGED <<agents, hosted, announced>>

SubagentSettled(s) ==
    /\ HandlesOutput("settled") /\ handling.task[s] = [step |-> "find"]
    /\ \E t \in ThreadsOf(s) \cap hosted.ready :
        SetStatus(s, TrackRunning(hosted, t, "idle"), t, "idle")
    /\ UNCHANGED agents

\* What the Desktop knows of a child's Turns after a reading: started again where there is
\* something new, and completed by the last reading after an end.
AfterReading(t, terminal) ==
    IF ~Loaded(t) THEN {announced.turns[t]}
    ELSE (IF terminal THEN {"completed"} ELSE {announced.turns[t], "inProgress"})
             \cup (IF ReadsFail THEN {announced.turns[t]} ELSE {})

TranscriptChanged(s) ==
    /\ HandlesOutput("transcript") /\ handling.task[s] = [step |-> "find"]
    /\ \E t \in ThreadsOf(s) \cap hosted.ready : \E turns \in AfterReading(t, FALSE) :
        announced' = [announced EXCEPT !.turns[t] = turns]
    /\ Handled([handling.task EXCEPT ![s] = Rest]) /\ UNCHANGED <<agents, hosted>>

Refreshes(s, rounds) == handling.task[s].step = "refresh" /\ handling.task[s].round \in rounds

RefreshAgain(s) ==
    LET t == handling.task[s].thread
    IN /\ Refreshes(s, 1 .. RefreshDelays - 1)
       /\ \E turns \in AfterReading(t, FALSE) : announced' = [announced EXCEPT !.turns[t] = turns]
       /\ handling' = [handling EXCEPT !.task[s].round = @ + 1]
       /\ UNCHANGED <<agents, hosted>>

\* After the last reading the end is announced.
RefreshLast(s) ==
    LET t == handling.task[s].thread
    IN /\ Refreshes(s, {RefreshDelays})
       /\ \E turns \in AfterReading(t, TRUE) :
            announced' = [announced EXCEPT !.turns[t] = turns, !.thread[t] = "idle"]
       /\ hosted' = [hosted EXCEPT !.status[t] = "idle"]
       /\ handling' = [handling EXCEPT !.task[s] = Rest]
       /\ UNCHANGED agents

\* All parts of an output are done.  The end of a Subagent may have been what the parent's
\* Thread was active for.
DelegationShown ==
    /\ HandlesOutput("delegation") /\ Resting /\ Handled(handling.task)
    /\ UNCHANGED <<agents, hosted, announced>>

SettlementShown ==
    /\ HandlesOutput("settled") /\ Resting /\ Handled(handling.task)
    /\ announced' = IF ~hosted.turn /\ hosted.running = {}
               THEN [announced EXCEPT !.parent = "idle"] ELSE announced
    /\ UNCHANGED <<agents, hosted>>

(***************************************************************************)
(* Requests about child Threads                                             *)
(***************************************************************************)

OpenChild(t) ==
    /\ hosted.end = "no" /\ t \in hosted.ready /\ hosted.open[t] = Absent
    /\ hosted' = [hosted EXCEPT !.open[t] = "opening"] /\ UNCHANGED <<agents, handling, announced>>

\* The child's history has been read.  The Thread is as active as its Subagent is known to be.
ChildOpened(t) ==
    /\ hosted.open[t] = "opening"
    /\ OpensLate \/ \A s \in Subagents : ~Refreshes(s, 1 .. RefreshDelays)
    /\ LET running == hosted.status[t] = "active"
       IN /\ hosted' = [hosted EXCEPT !.open[t] = IF running THEN "active" ELSE "idle"]
          /\ announced' = [announced EXCEPT
                 !.turns[t] = IF running THEN "inProgress" ELSE "completed"]
    /\ UNCHANGED <<agents, handling>>

ChildUnreadable(t) ==
    /\ hosted.open[t] = "opening"
    /\ hosted' = [hosted EXCEPT !.open[t] = Absent] /\ UNCHANGED <<agents, handling, announced>>

\* The latest Turn of an active child is listed as in progress.
ListTurns(t) ==
    /\ hosted.end = "no" /\ Loaded(t)
    /\ announced' = [announced EXCEPT !.turns[t] =
           IF hosted.open[t] = "active" THEN "inProgress" ELSE "completed"]
    /\ UNCHANGED <<agents, hosted, handling>>

\* The record and the open Thread go.  What the Host knows of the Subagent stays.
DeleteThread(t) ==
    /\ hosted.end = "no" /\ t \in hosted.ready /\ hosted.open[t] # "opening"
    /\ DeletesRunning \/ (t \notin hosted.running /\ hosted.record[t] \notin Running)
    /\ hosted' = [hosted EXCEPT !.record[t] = Absent, !.ready = @ \ {t}, !.open[t] = Absent]
    /\ announced' = [announced EXCEPT !.thread[t] = Absent, !.turns[t] = Absent]
    /\ UNCHANGED <<agents, handling>>

(***************************************************************************)
(* The specification                                                        *)
(***************************************************************************)

SessionStep ==
    \/ EndParentTurn \/ \E s \in Subagents : SettleSubagent(s)

OutputStep ==
    \/ TakeOutput \/ TurnStarted \/ TurnCompleted \/ AnnounceTurnEnd
    \/ DelegationShown \/ SettlementShown
    \/ \E s \in Subagents :
        \/ Materialize(s) \/ MaterializeFails(s) \/ NoSuchChild(s) \/ SubagentSettled(s)
        \/ TranscriptChanged(s) \/ RefreshAgain(s) \/ RefreshLast(s)

RequestStep ==
    \/ Disconnect \/ AwaitWork \/ StartParentTurn
    \/ \E t \in Threads : \/ OpenChild(t) \/ ChildOpened(t) \/ ChildUnreadable(t)
                          \/ ListTurns(t) \/ DeleteThread(t)

NextSubagents ==
    \/ SessionStep \/ OutputStep \/ RequestStep
    \/ \E S \in SUBSET Subagents : DelegateTo(S) \/ UpdateDelegation(S)
    \/ \E s \in Subagents : GrowTranscript(s)

\* Turns and Subagents end, outputs are handled, openings end.  Nobody need ask for anything.
SubagentFairness ==
    /\ WF_subagentVars(OutputStep) /\ WF_subagentVars(AwaitWork)
    /\ SF_subagentVars(EndParentTurn) /\ \A s \in Subagents : SF_subagentVars(SettleSubagent(s))
    /\ \A t \in Threads : WF_subagentVars(ChildOpened(t) \/ ChildUnreadable(t))

SubagentSpec == InitSubagents /\ [][NextSubagents]_subagentVars /\ SubagentFairness

(***************************************************************************)
(* Properties                                                               *)
(***************************************************************************)

\* The Desktop is told that the parent is idle only while no child Thread it knows of is shown
\* as active: neither the end of a Turn with background Subagents nor the end of one Subagent
\* among several may show the parent as done.
ParentIdleIsQuiet ==
    announced.parent = "idle" => \A t \in Threads : announced.thread[t] # "active"

\* Once the end of a child Thread has been announced, the Desktop has no Turn of it in progress:
\* however the readings of its history were spread over the end, the last one completed it.
EndedIsComplete == \A t \in Threads :
    announced.thread[t] = "idle" => announced.turns[t] # "inProgress"

\* A child Thread that is open shows what was announced of it, unless its end is being read.
OpenAgreesWithStatus == \A t \in Threads :
    hosted.open[t] = "active" => announced.thread[t] # "idle"

\* When its Turn and its Subagents have ended the parent is announced idle.
ParentSettles ==
    (~hosted.turn /\ ~agents.turn /\ Running = {}) ~> (announced.parent = "idle" \/ hosted.turn)

\* A Host that waits for its work before it ends does end.
DisconnectedHostEnds == (hosted.end = "waits") ~> (hosted.end = "over")
=============================================================================
