------------------------------ MODULE MCThreads ------------------------------
(***************************************************************************)
(* Instances of the components that keep external Threads, side by side: the *)
(* records of a Thread and of one forked from it, the Threads loaded in the  *)
(* Host, and the Items of a Turn, live and read back from Claude's           *)
(* transcript.  A behaviour is one of the component that part names.         *)
(***************************************************************************)
EXTENDS ThreadRecords, ThreadRuntime, TurnItems, ThreadList, TLC

CONSTANTS r1, r2, k1, u1

VARIABLE part

threadsVars == <<part, recordsVars, runtimeVars, itemVars, listVars>>

InitThreads ==
    /\ part \in {"records", "runtime", "items", "list"}
    /\ InitRecords /\ InitRuntime /\ InitItems /\ InitList
    \* One initial state of the components that do not move.
    /\ part = "runtime" \/ saved.state = "none"
    /\ part = "items" \/ turn = NewTurn
    /\ part = "list" \/ (pass.direction = "asc" /\ \A x \in AllThreads : sortedAt[x] = 0)

NextThreads ==
    /\ UNCHANGED part
    /\ \/ part = "records" /\ NextRecords /\ UNCHANGED <<runtimeVars, itemVars, listVars>>
       \/ part = "runtime" /\ NextRuntime /\ UNCHANGED <<recordsVars, itemVars, listVars>>
       \/ part = "items" /\ NextItems /\ UNCHANGED <<recordsVars, runtimeVars, listVars>>
       \/ part = "list" /\ NextList /\ UNCHANGED <<recordsVars, runtimeVars, itemVars>>

ThreadsSpec == InitThreads /\ [][NextThreads]_threadsVars

ThreadsSymmetry == Permutations(Calls)
=============================================================================
