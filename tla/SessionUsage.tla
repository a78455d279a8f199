---------------------------- MODULE SessionUsage ----------------------------
(***************************************************************************)
(* The usage of one Claude Session: the tokens the Adapter counts request  *)
(* by request and corrects with every Result, and the exact Context it     *)
(* reads on demand (packages/adapters/claude-code/src/                     *)
(* claude-code-adapter.ts).                                                *)
(*                                                                         *)
(* Every request to the model costs one token.  The Context is the         *)
(* generation it was asked for in: the Session's Turns and selections are  *)
(* what changes it.                                                        *)
(***************************************************************************)
EXTENDS Naturals, FiniteSets

CONSTANTS
    Attempts,          \* reads of the Context before a refresh gives up
    MaxRequests,       \* bound: requests of the CLI to the model
    MaxTurns,          \* bound: Turns
    MaxGenerations,    \* bound: Turns and selections
    MaxProcesses       \* bound: CLI processes

ASSUME UsageAssumption ==
    /\ Attempts \in Nat \ {0}
    /\ {MaxRequests, MaxTurns, MaxGenerations, MaxProcesses} \subseteq Nat

VARIABLES
    session,    \* the Session: phase, process, generation, the Turn and how many there were
    counted,    \* tokens: requests made, those before this process, corrected, estimated; names
    reads,      \* reads of the transcript under way; latest while the boundary is the read's
    context,    \* whether the last Context is fresh or a refusal cools down, the refresh under way,
                \* and history: the generation of the last Context, and of the last ask and outcome
    usage       \* the last published usage

usageVars == <<session, counted, reads, context, usage>>

NoRefresh == [generation |-> 0, process |-> 0, attempt |-> 1, sent |-> FALSE]
Turns == 1 .. MaxTurns
Requests == 1 .. MaxRequests
Names == Requests \X {"message", "request"}

UsageTypeOK ==
    /\ session \in [phase : {"open", "closed"}, process : 0 .. MaxProcesses, running : BOOLEAN,
                    generation : 0 .. MaxGenerations,
                    turn : 0 .. MaxTurns, turns : 0 .. MaxTurns]
    /\ counted \in [made : 0 .. MaxRequests, before : 0 .. MaxRequests,
                    corrected : 0 .. MaxRequests, estimated : 0 .. 2 * MaxRequests,
                    names : SUBSET Names, sparse : BOOLEAN]
    /\ \A r \in reads : r \in [request : Requests, latest : BOOLEAN,
                               generation : 0 .. MaxGenerations, turn : Turns]
    /\ context \in [fresh : BOOLEAN, cooling : BOOLEAN, of : 0 .. MaxGenerations,
                    asked : 0 .. MaxGenerations, settled : 0 .. MaxGenerations,
                    refresh : [generation : 0 .. MaxGenerations, process : 0 .. MaxProcesses,
                               attempt : 1 .. Attempts, sent : BOOLEAN]]
    /\ usage \in [tokens : 0 .. 2 * MaxRequests, context : 0 .. MaxGenerations]

NoContext == [fresh |-> FALSE, cooling |-> FALSE, of |-> 0, asked |-> 0, settled |-> 0,
              refresh |-> NoRefresh]

InitUsage ==
    /\ session = [phase |-> "open", process |-> 0, running |-> FALSE, generation |-> 0,
                  turn |-> 0, turns |-> 0]
    /\ counted = [made |-> 0, before |-> 0, corrected |-> 0, estimated |-> 0, names |-> {},
                  sparse |-> FALSE]
    /\ reads = {} /\ context = NoContext
    /\ usage = [tokens |-> 0, context |-> 0]

Open == session.phase = "open"
Active == session.turn # 0

(***************************************************************************)
(* What the Session publishes                                              *)
(***************************************************************************)

\* mergeAndPublishUsage
PublishUsage(tokens, of) == usage' = [tokens |-> tokens, context |-> of]

(***************************************************************************)
(* Turns and selections                                                    *)
(***************************************************************************)

NewGeneration ==
    /\ session.generation < MaxGenerations
    /\ context' = [context EXCEPT !.fresh = FALSE, !.cooling = FALSE]

\* A Turn starts the process if there is none, whose own count begins at nothing.
StartTurn ==
    /\ Open /\ ~Active /\ session.turns < MaxTurns
    /\ NewGeneration
    /\ session.running \/ session.process < MaxProcesses
    /\ session' = [session EXCEPT !.turn = session.turns + 1, !.turns = @ + 1,
                                  !.generation = @ + 1, !.running = TRUE,
                                  !.process = IF session.running THEN @ ELSE @ + 1]
    /\ counted' = [counted EXCEPT !.estimated = 0, !.names = {}, !.sparse = FALSE,
                                  !.before = IF session.running THEN @ ELSE counted.made]
    /\ UNCHANGED <<reads, usage>>

\* A command or a selection: model, Thinking option or Permission Mode.
Select ==
    /\ Open /\ NewGeneration
    /\ session' = [session EXCEPT !.generation = @ + 1]
    /\ UNCHANGED <<counted, reads, usage>>

(***************************************************************************)
(* Tokens, request by request                                              *)
(***************************************************************************)

\* requestUsageBoundary is raised, also by the end of a Turn that is held.
Outdated(read) == [read EXCEPT !.latest = FALSE]
BoundaryRaised == {Outdated(read) : read \in reads}

\* applyLatestRequestUsage
Count(name, sparse) ==
    IF name \in counted.names
    THEN counted' = [counted EXCEPT !.sparse = sparse] /\ UNCHANGED usage
    ELSE /\ counted' = [counted EXCEPT !.names = @ \cup {name}, !.estimated = @ + 1,
                                       !.sparse = sparse]
         /\ PublishUsage(counted.corrected + counted.estimated + 1, usage.context)

\* The message of a new request ends, with its usage or without it.
MessageCompleted ==
    /\ Open /\ Active /\ session.running /\ counted.made < MaxRequests
    /\ LET r == counted.made + 1 IN
       \/ /\ counted' = [counted EXCEPT !.made = r, !.names = @ \cup {<<r, "message">>},
                                        !.estimated = @ + 1, !.sparse = FALSE]
          /\ PublishUsage(counted.corrected + counted.estimated + 1, usage.context)
          /\ reads' = BoundaryRaised
       \/ /\ counted' = [counted EXCEPT !.made = r, !.sparse = TRUE]
          /\ reads' = BoundaryRaised \cup
                 {[request |-> r, latest |-> TRUE, generation |-> session.generation,
                   turn |-> session.turn]}
          /\ UNCHANGED usage
    /\ UNCHANGED <<session, context>>

\* A message that had no usage is repeated with one: native-message.ts reports it once more.
UsageRepeated ==
    /\ Open /\ Active /\ session.running /\ counted.sparse
    /\ reads' = BoundaryRaised
    /\ Count(<<counted.made, "message">>, FALSE)
    /\ UNCHANGED <<session, context>>

\* readLatestRequestUsage: the request's usage is found in the transcript, or never.
OvertakenByATurn(read) == session.turn # read.turn
Overtaken(read) ==
    \/ ~Open \/ ~read.latest
    \/ session.generation # read.generation \/ session.turn # read.turn
\* Its entry may have an id of the request, by which it is named then, and not by its message.
TranscriptRead(read) ==
    /\ reads' = reads \ {read}
    /\ IF Overtaken(read) THEN UNCHANGED <<counted, usage>>
       ELSE \E by \in {"message", "request"} : Count(<<read.request, by>>, counted.sparse)
    /\ UNCHANGED <<session, context>>
TranscriptGivesUp(read) ==
    /\ reads' = reads \ {read}
    /\ UNCHANGED <<session, counted, context, usage>>

\* applyResultUsage and finish: the Result's totals are those of the process.  A Turn with
\* background work is held and may go on; every other Turn ends.
Corrected == counted.made - counted.before
ResultArrives(held) ==
    /\ Open /\ Active /\ session.running
    /\ session' = [session EXCEPT !.turn = IF held THEN @ ELSE 0]
    /\ reads' = BoundaryRaised
    /\ counted' = [counted EXCEPT !.corrected = Corrected, !.estimated = 0, !.sparse = FALSE]
    /\ PublishUsage(Corrected, usage.context)
    /\ UNCHANGED context

\* hardCancel: the process is gone, and the Turn ends without a Result.
HardCancelled ==
    /\ Open /\ Active /\ session.running
    /\ session' = [session EXCEPT !.turn = 0, !.running = FALSE]
    /\ reads' = BoundaryRaised
    /\ UNCHANGED <<counted, context, usage>>

(***************************************************************************)
(* The exact Context, on demand                                            *)
(***************************************************************************)

\* refreshUsage: an ask joins the refresh under way, of whatever generation that is.
RefreshUsage ==
    /\ Open /\ session.running /\ ~context.fresh /\ ~context.cooling
    /\ context' =
           [context EXCEPT
               !.asked = session.generation,
               !.refresh = IF @ # NoRefresh THEN @
                           ELSE [generation |-> session.generation, process |-> session.process,
                                 attempt |-> 1, sent |-> FALSE]]
    /\ UNCHANGED <<session, counted, reads, usage>>

Superseded(refresh) ==
    \/ ~Open \/ ~session.running
    \/ session.process # refresh.process \/ session.generation # refresh.generation

SendContextRead ==
    /\ context.refresh # NoRefresh /\ ~context.refresh.sent
    /\ context' = IF Superseded(context.refresh) THEN [context EXCEPT !.refresh = NoRefresh]
                  ELSE [context EXCEPT !.refresh.sent = TRUE]
    /\ UNCHANGED <<session, counted, reads, usage>>

\* The CLI answers, or has none or fails and is asked again, up to Attempts times.
Accepted(refresh) == [context EXCEPT !.refresh = NoRefresh, !.fresh = TRUE, !.cooling = FALSE,
                                     !.of = refresh.generation, !.settled = session.generation]
ContextAnswered ==
    /\ context.refresh # NoRefresh /\ context.refresh.sent
    /\ IF Superseded(context.refresh)
       THEN context' = [context EXCEPT !.refresh = NoRefresh] /\ UNCHANGED usage
       ELSE /\ context' = Accepted(context.refresh)
            /\ PublishUsage(usage.tokens, context.refresh.generation)
    /\ UNCHANGED <<session, counted, reads>>

ContextFails ==
    /\ context.refresh # NoRefresh /\ context.refresh.sent
    /\ context' =
           IF context.refresh.attempt < Attempts
           THEN [context EXCEPT !.refresh.sent = FALSE, !.refresh.attempt = @ + 1]
           ELSE IF Superseded(context.refresh) THEN [context EXCEPT !.refresh = NoRefresh]
           ELSE [context EXCEPT !.refresh = NoRefresh, !.cooling = TRUE,
                                !.settled = session.generation]
    /\ UNCHANGED <<session, counted, reads, usage>>

\* The time to live of a Context, or the pause after a failure, is over.
TimePasses ==
    /\ context.fresh \/ context.cooling
    /\ context' = [context EXCEPT !.fresh = FALSE, !.cooling = FALSE]
    /\ UNCHANGED <<session, counted, reads, usage>>

CloseSession ==
    /\ Open
    /\ session' = [session EXCEPT !.phase = "closed", !.turn = 0, !.running = FALSE]
    /\ reads' = BoundaryRaised
    /\ context' = [context EXCEPT !.fresh = FALSE, !.cooling = FALSE]
    /\ UNCHANGED <<counted, usage>>

NextUsage ==
    \/ StartTurn \/ Select \/ MessageCompleted \/ UsageRepeated
    \/ \E read \in reads : TranscriptRead(read) \/ TranscriptGivesUp(read)
    \/ \E held \in BOOLEAN : ResultArrives(held)
    \/ HardCancelled
    \/ RefreshUsage \/ SendContextRead \/ ContextAnswered \/ ContextFails \/ TimePasses
    \/ CloseSession

UsageSpec == InitUsage /\ [][NextUsage]_usageVars

(***************************************************************************)
(* Properties                                                              *)
(***************************************************************************)

\* The requests counted under both of their names, since the Turn began
TwiceNamed == {name \in counted.names : name[2] = "request" /\ <<name[1], "message">> \in counted.names}

\* What is counted exceeds what was spent only by the requests counted under two names: whichever
\* way its usage is learnt, no request is counted twice under one name, none of an earlier Turn or
\* process is counted, and none that a Result has already included is added to it again.
OvercountsByNameOnly ==
    counted.corrected + counted.estimated <= counted.made + Cardinality(TwiceNamed)

\* Desktop is never shown more tokens than were spent: fails, because the transcript may name a
\* request otherwise than its message does, and a repetition of the message then counts it again.
NeverOvercounts == usage.tokens <= counted.made

\* A Context that is called fresh was asked for in this generation: after the Turn or selection
\* that made it, of this process.
FreshIsCurrent == context.fresh => context.of = session.generation

\* An ask for the Context ends with one of its own generation, or with a failure.  Not so for an
\* ask that joins a refresh of an older generation.
AskIsServed ==
    Open /\ session.running /\ context.refresh = NoRefresh /\ context.asked = session.generation =>
        context.settled = session.generation
=============================================================================
