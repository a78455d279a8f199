---------------------------- MODULE AtomicRecords ----------------------------
(* What the Mapping Store promises about the file of each Thread: it holds a *)
(* record or none, and one write replaces the whole record by its next       *)
(* revision.  A crash has no effect that this specification can see.  Only a *)
(* fault of the storage itself may take a Thread back, and faults are        *)
(* counted.                                                                  *)
EXTENDS Naturals

CONSTANTS Threads, MaxRevision, MaxFaults

VARIABLES
  stored,   \* the revision a reader of the store would find; 0 is no record
  faults    \* how many files the storage has damaged

Put(t) ==
  /\ \E r \in 1..MaxRevision : r > stored[t] /\ stored' = [stored EXCEPT ![t] = r]
  /\ UNCHANGED faults

Delete(t) ==
  /\ stored' = [stored EXCEPT ![t] = 0]
  /\ UNCHANGED faults

\* The storage damages the file: at best the Thread goes back to the backup.
Fault(t) ==
  /\ faults < MaxFaults
  /\ faults' = faults + 1
  /\ \E r \in 0..stored[t] : stored' = [stored EXCEPT ![t] = r]

Init == stored = [t \in Threads |-> 0] /\ faults = 0
Next == \E t \in Threads : Put(t) \/ Delete(t) \/ Fault(t)
Spec == Init /\ [][Next]_<<stored, faults>>
=============================================================================
