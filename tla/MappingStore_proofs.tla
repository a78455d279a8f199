------------------------- MODULE MappingStore_proofs -------------------------
(***************************************************************************)
(* The mapping store for any number of processes, Threads, revisions,       *)
(* crashes and damaged files, while no two processes start at once: a start *)
(* finds what was acknowledged, and the steps on files implement atomic     *)
(* records.  And the Threads whose records it keeps: who writes the native  *)
(* Session of one that is loaded, and which of them a client reads that     *)
(* pages through their list.                                                *)
(***************************************************************************)
EXTENDS MappingStore, ThreadRuntime, ThreadList, FiniteSetTheorems, SequenceTheorems, TLAPS

(***************************************************************************)
(* One owner.  The lock names the process that signs it or owns the store,  *)
(* and while there is an owner a start gets no further than to judge it.    *)
(***************************************************************************)

Locks == [by : Instances \cup {NoInstance}, written : BOOLEAN] \cup {NoLock}

LockInv ==
  /\ storePc \in [Instances -> {"off"} \cup Starting \cup Owning]
  /\ storeLock \in Locks
  /\ \A i, j \in Instances : storePc[i] \in Starting /\ storePc[j] \in Starting => i = j
  /\ \A i \in Instances : storePc[i] = "sign" => storeLock = [by |-> i, written |-> FALSE]
  /\ \A i \in Instances : storePc[i] \in Owning => storeLock = [by |-> i, written |-> TRUE]
  /\ \A i, j \in Instances :
       storePc[i] \in Owning /\ storePc[j] \in Starting => storePc[j] \in {"create", "judge"}
  /\ OneStoreOwner

LEMMA LockOf ==
  ASSUME NEW i \in Instances, NEW written \in BOOLEAN
  PROVE  /\ [by |-> i, written |-> written] \in Locks
         /\ [by |-> i, written |-> written] # NoLock
<1>1. [by |-> i, written |-> written] \in [by : Instances \cup {NoInstance}, written : BOOLEAN]
  OBVIOUS
<1>2. NoLock \notin [by : Instances \cup {NoInstance}, written : BOOLEAN]
  BY StoreAssumption DEF StoreAssumption
<1>3. QED
  BY <1>1, <1>2 DEF Locks

LEMMA LockInit == InitStore => LockInv
  BY DEF InitStore, LockInv, Locks, Starting, Owning, OneStoreOwner

\* A process that starts goes on alone: it changes the lock, or gets past judging it, only
\* while nobody owns the store, and it signs the lock it has made.
LEMMA StartGoesOn ==
  ASSUME LockInv, NEW i \in Instances, storePc[i] \in Starting,
         NEW label \in Starting \cup {"off", "clean"}, StoreAt(i, label),
         storeLock' \in Locks,
         label = "sign" => storeLock' = [by |-> i, written |-> FALSE],
         label = "clean" => storeLock' = [by |-> i, written |-> TRUE],
         \/ label \in {"off", "judge"} /\ storeLock' = storeLock
         \/ \A j \in Instances : storePc[j] \notin Owning
  PROVE  LockInv'
<1>1. storePc' \in [Instances -> {"off"} \cup Starting \cup Owning]
  BY DEF LockInv, StoreAt, Starting, Owning
<1>2. \A j \in Instances : storePc'[j] = IF j = i THEN label ELSE storePc[j]
  BY DEF LockInv, StoreAt
<1>3. \A j \in Instances : storePc[j] \in Starting => j = i
  BY DEF LockInv
<1>4. \A j, k \in Instances : storePc'[j] \in Starting /\ storePc'[k] \in Starting => j = k
  BY <1>2, <1>3
<1>5. \A j \in Instances : storePc'[j] = "sign" => storeLock' = [by |-> j, written |-> FALSE]
  BY <1>2, <1>3 DEF Starting
<1>6. \A j \in Instances : storePc'[j] \in Owning => storeLock' = [by |-> j, written |-> TRUE]
  BY <1>2 DEF LockInv, Starting, Owning
<1>7. \A j, k \in Instances :
        storePc'[j] \in Owning /\ storePc'[k] \in Starting => storePc'[k] \in {"create", "judge"}
  BY <1>2, <1>3 DEF Starting, Owning
<1>8. OneStoreOwner'
  BY <1>2 DEF LockInv, OneStoreOwner, Starting, Owning
<1>9. QED
  BY <1>1, <1>4, <1>5, <1>6, <1>7, <1>8 DEF LockInv

LEMMA LockNext ==
  ASSUME StartsOverlap = FALSE, LockInv, [NextStore]_storeVars
  PROVE  LockInv'
<1>1. CASE UNCHANGED storeVars
  BY <1>1 DEF storeVars, LockInv, OneStoreOwner
<1>2. ASSUME NEW i \in Instances, StartStore(i) PROVE LockInv'
  BY <1>2 DEF StartStore, Starting, Owning, Locks, OneStoreOwner, LockInv, StoreAt
<1>3. ASSUME NEW i \in Instances, CreateLock(i) PROVE LockInv'
  <2>1. storePc[i] \in Starting
    BY <1>3 DEF CreateLock, Starting
  <2>2. CASE storeLock = NoLock
    <3>1. \A j \in Instances : storePc[j] \notin Owning
      BY <2>2, LockOf DEF LockInv
    <3>2. StoreAt(i, "sign") /\ storeLock' = [by |-> i, written |-> FALSE]
      BY <1>3, <2>2 DEF CreateLock
    <3>3. QED
      BY <2>1, <3>1, <3>2, LockOf, StartGoesOn DEF Starting
  <2>3. CASE storeLock # NoLock
    BY <1>3, <2>1, <2>3, StartGoesOn DEF CreateLock, Starting, LockInv
  <2>4. QED
    BY <2>2, <2>3
<1>4. ASSUME NEW i \in Instances, SignLock(i) PROVE LockInv'
  <2>1. storePc[i] \in Starting /\ storeLock = [by |-> i, written |-> FALSE] /\ storeLock # NoLock
    BY <1>4, LockOf DEF SignLock, Starting, LockInv
  <2>2. \A j \in Instances : storePc[j] \notin Owning
    BY <2>1 DEF LockInv
  <2>3. StoreAt(i, "clean") /\ storeLock' = [by |-> i, written |-> TRUE]
    BY <1>4, <2>1 DEF SignLock
  <2>4. QED
    BY <2>1, <2>2, <2>3, LockOf, StartGoesOn
<1>5. ASSUME NEW i \in Instances, JudgeLock(i) PROVE LockInv'
  <2>1. storePc[i] \in Starting /\ storeLock' = storeLock /\ storeLock' \in Locks
    BY <1>5 DEF JudgeLock, Starting, LockInv
  <2>2. CASE StoreAt(i, "off")
    BY <2>1, <2>2, StartGoesOn
  <2>3. CASE ~ProvesLiveOwner(storeLock) /\ StoreAt(i, "aside")
    <3>1. \A j \in Instances : storePc[j] \notin Owning
      <4>1. NoInstance \notin Instances
        BY StoreAssumption DEF StoreAssumption
      <4>2. SUFFICES ASSUME NEW j \in Instances, storePc[j] \in Owning PROVE FALSE
        OBVIOUS
      <4>3. storeLock = [by |-> j, written |-> TRUE]
        BY <4>2 DEF LockInv
      <4>4. storeLock # NoLock /\ storeLock.written = TRUE /\ storeLock.by = j
        BY <4>3, LockOf
      <4>5. QED
        BY <2>3, <4>1, <4>4 DEF ProvesLiveOwner, SeemsLive
    <3>2. QED
      BY <2>1, <2>3, <3>1, StartGoesOn DEF Starting
  <2>4. QED
    BY <1>5, <2>2, <2>3 DEF JudgeLock
<1>6. ASSUME NEW i \in Instances, MoveLockAside(i) \/ RetryLock(i) PROVE LockInv'
  <2>1. storePc[i] \in {"aside", "retry"} /\ storePc[i] \in Starting
    BY <1>6 DEF MoveLockAside, RetryLock, Starting
  <2>2. \A j \in Instances : storePc[j] \notin Owning
    BY <2>1 DEF LockInv
  <2>3. CASE MoveLockAside(i)
    BY <2>1, <2>2, <2>3, StartGoesOn DEF MoveLockAside, Starting, Locks
  <2>4. CASE RetryLock(i) /\ storeLock = NoLock
    <3>1. StoreAt(i, "sign") /\ storeLock' = [by |-> i, written |-> FALSE]
      BY <2>4 DEF RetryLock
    <3>2. QED
      BY <2>1, <2>2, <3>1, LockOf, StartGoesOn DEF Starting
  <2>5. CASE RetryLock(i) /\ storeLock # NoLock
    BY <2>1, <2>2, <2>5, StartGoesOn DEF RetryLock, Starting, LockInv
  <2>6. QED
    BY <1>6, <2>3, <2>4, <2>5
<1>7. ASSUME NEW i \in Instances, CleanupResidue(i) \/ Initialized(i) PROVE LockInv'
  BY <1>7 DEF CleanupResidue, Initialized, StoreAt, LockInv, OneStoreOwner, Starting, Owning
<1>8. ASSUME NEW i \in Instances, CloseStore(i) \/ CrashStore(i) PROVE LockInv'
  <2>1. /\ storePc' \in [Instances -> {"off"} \cup Starting \cup Owning]
        /\ \A j \in Instances : storePc'[j] = IF j = i THEN "off" ELSE storePc[j]
    BY <1>8 DEF CloseStore, CrashStore, StoreAt, LockInv
  <2>2. storeLock' = storeLock \/ (storeLock # NoLock /\ storeLock.by = i)
    <3>1. CASE CloseStore(i)
      BY <3>1 DEF CloseStore
    <3>2. CASE CrashStore(i)
      BY <3>2 DEF CrashStore
    <3>3. QED
      BY <1>8, <3>1, <3>2
  <2>3. storeLock' \in Locks
    BY <1>8 DEF CloseStore, CrashStore, LockInv, Locks
  <2>4. \A j \in Instances :
          /\ storePc'[j] = "sign" => storeLock' = [by |-> j, written |-> FALSE]
          /\ storePc'[j] \in Owning => storeLock' = [by |-> j, written |-> TRUE]
    BY <2>1, <2>2 DEF LockInv, Owning
  <2>5. QED
    BY <2>1, <2>3, <2>4 DEF LockInv, OneStoreOwner, Starting, Owning
<1>9. CASE UNCHANGED <<storePc, storeLock>>
  BY <1>9 DEF LockInv, OneStoreOwner
<1>10. ASSUME NEW i \in Instances, NEW t \in Threads,
              \/ LoadThread(i, t) \/ RestoreFails(i, t) \/ BeginRemove(i, t)
              \/ \E ready \in BOOLEAN : BeginWrite(i, t, ready)
       PROVE  UNCHANGED <<storePc, storeLock>>
  BY <1>10 DEF LoadThread, RestoreFails, BeginRemove, BeginWrite
<1>11. ASSUME NEW i \in Instances,
              \/ WriteTemp(i) \/ CopyBegins(i) \/ CopyEnds(i) \/ RenameTemp(i) \/ WriteFails(i)
              \/ RemoveFails(i) \/ \E f \in {"primary", "backup"} : RemoveFile(i, f)
       PROVE  UNCHANGED <<storePc, storeLock>>
  BY <1>11 DEF WriteTemp, CopyBegins, CopyEnds, RenameTemp, WriteFails, RemoveFails, RemoveFile
<1>12. ASSUME NEW t \in Threads, DamageFile(t) PROVE UNCHANGED <<storePc, storeLock>>
  BY <1>12 DEF DamageFile
<1>13. QED
  BY <1>1, <1>2, <1>3, <1>4, <1>5, <1>6, <1>7, <1>8, <1>9, <1>10, <1>11, <1>12 DEF NextStore

(***************************************************************************)
(* What the files keep.  The backup is behind the primary file, and both    *)
(* are behind what the owner remembers, or gone.                            *)
(***************************************************************************)

StoreValues == StoreRecords \cup {Absent}

Behind(old, new) ==
  old \in StoreRecords /\ new \in StoreRecords => old.rev <= new.rev /\ (old.ready => new.ready)

FilesTyped ==
  /\ primary \in [Threads -> StoreFiles] /\ backup \in [Threads -> StoreFiles]
  /\ unloaded \in [Instances -> SUBSET Threads]
  /\ mem \in [Instances -> [Threads -> StoreValues]]
  /\ job \in [Instances -> StoreJobs \cup {NoJob}]
  /\ faults \in 0..MaxFaults
  /\ promised \in [Threads -> SUBSET StoreValues]

FileKept(t) ==
  /\ Behind(backup[t], primary[t])
  /\ t \notin used => primary[t] = Absent /\ backup[t] = Absent
  /\ Recovered(t) \in promised[t]

MemoryKept(i, t) == primary[t] \in {mem[i][t], Absent} /\ Behind(backup[t], mem[i][t])

\* A write replaces nothing, or an earlier revision.
Follows(new, old) ==
  new \in StoreRecords /\ (old \in StoreRecords => old.rev < new.rev /\ (old.ready => new.ready))

WriteKept(i, t) ==
  /\ t \in used
  /\ Follows(job[i].record, mem[i][t])
  /\ mem[i][t] = Absent => backup[t] = Absent
  /\ job[i].step \in {"copy", "copying"} => primary[t] # Absent

RemoveKept(i, t) ==
  Absent \in promised[t] /\ ("primary" \notin job[i].left => primary[t] = Absent)

OwnerKept(i) ==
  /\ storePc[i] \in {"load", "open"} => \A t \in Threads \ unloaded[i] : MemoryKept(i, t)
  /\ storePc[i] \notin {"load", "open"} => \A t \in Threads : mem[i][t] = Absent
  /\ storePc[i] = "open" => unloaded[i] = {}
  /\ job[i] # NoJob =>
       /\ storePc[i] = "open"
       /\ job[i].step # "remove" => WriteKept(i, job[i].thread)
       /\ job[i].step = "remove" => RemoveKept(i, job[i].thread)

StoreInv ==
  /\ LockInv /\ FilesTyped
  /\ \A t \in Threads : FileKept(t)
  /\ \A i \in Instances : OwnerKept(i)

LEMMA AbsentIsNoRecord == Absent \notin StoreRecords /\ Torn \notin StoreRecords /\ Absent # Torn
  BY StoreAssumption DEF StoreAssumption

LEMMA Loads ==
  ASSUME NEW file
  PROVE  /\ Loadable(file) \in StoreValues
         /\ Loadable(file) # Torn
         /\ Loadable(Loadable(file)) = Loadable(file)
         /\ file = Absent \/ file = Torn => Loadable(file) = Absent
         /\ Loadable(file) = Absent => ~(file \in StoreRecords /\ file.ready)
         /\ Loadable(file) # Absent => file \in StoreRecords /\ file.ready /\ Loadable(file) = file
  BY AbsentIsNoRecord DEF Loadable, StoreValues

LEMMA StoreInit == InitStore => StoreInv
<1>1. SUFFICES ASSUME InitStore PROVE StoreInv
  OBVIOUS
<1>2. LockInv
  BY <1>1, LockInit
<1>3. FilesTyped
  BY <1>1, StoreAssumption
     DEF InitStore, FilesTyped, StoreFiles, StoreValues, StoreAssumption
<1>4. ASSUME NEW t \in Threads PROVE FileKept(t)
  BY <1>1, AbsentIsNoRecord, Loads DEF InitStore, FileKept, Behind, Recovered
<1>5. ASSUME NEW i \in Instances PROVE OwnerKept(i)
  BY <1>1 DEF InitStore, OwnerKept
<1>6. QED
  BY <1>2, <1>3, <1>4, <1>5 DEF StoreInv

\* A step of one process that leaves the files alone.
LEMMA FilesStay ==
  ASSUME StoreInv, LockInv', NEW i \in Instances,
         FilesTyped', UNCHANGED <<primary, backup, used, promised>>,
         \A j \in Instances \ {i} :
           /\ storePc'[j] = storePc[j] /\ unloaded'[j] = unloaded[j]
           /\ mem'[j] = mem[j] /\ job'[j] = job[j],
         OwnerKept(i)'
  PROVE  StoreInv'
<1>1. ASSUME NEW t \in Threads PROVE FileKept(t)'
  BY DEF StoreInv, FileKept, Behind, Recovered, Loadable
<1>2. ASSUME NEW j \in Instances PROVE OwnerKept(j)'
  <2>1. CASE j = i
    BY <2>1
  <2>2. CASE j # i
    BY <2>2 DEF StoreInv, OwnerKept, MemoryKept, WriteKept, RemoveKept, Behind, Follows
  <2>3. QED
    BY <2>1, <2>2
<1>3. QED
  BY <1>1, <1>2 DEF StoreInv

\* A step of the owner on the files of one Thread.
LEMMA OwnerActs ==
  ASSUME StoreInv, LockInv', NEW i \in Instances, NEW t \in Threads,
         storePc[i] \in {"load", "open"}, FilesTyped', UNCHANGED storePc,
         \A u \in Threads \ {t} :
           /\ primary'[u] = primary[u] /\ backup'[u] = backup[u] /\ promised'[u] = promised[u]
           /\ mem'[i][u] = mem[i][u]
           /\ u \in used' <=> u \in used
           /\ u \in unloaded'[i] <=> u \in unloaded[i],
         unloaded'[i] \subseteq unloaded[i],
         \A j \in Instances \ {i} : job'[j] = job[j] /\ mem'[j] = mem[j], used \subseteq used',
         FileKept(t)',
         t \notin unloaded'[i] => MemoryKept(i, t)',
         job'[i] # NoJob =>
           /\ storePc[i] = "open" /\ job'[i].thread = t
           /\ job'[i].step # "remove" => WriteKept(i, t)'
           /\ job'[i].step = "remove" => RemoveKept(i, t)'
  PROVE  StoreInv'
<1>1. ASSUME NEW u \in Threads PROVE FileKept(u)'
  BY DEF StoreInv, FileKept, Behind, Recovered, Loadable
<1>2. OwnerKept(i)'
  <2>1. ASSUME NEW u \in Threads \ unloaded'[i] PROVE MemoryKept(i, u)'
    BY DEF StoreInv, OwnerKept, MemoryKept, Behind
  <2>2. storePc[i] = "open" => unloaded'[i] = {}
    BY DEF StoreInv, OwnerKept
  <2>3. QED
    BY <2>1, <2>2 DEF OwnerKept
<1>3. ASSUME NEW j \in Instances \ {i} PROVE OwnerKept(j)'
  <2>1. storePc[j] \notin {"load", "open"}
    BY DEF StoreInv, LockInv, OneStoreOwner, Owning
  <2>2. job'[j] = NoJob /\ \A u \in Threads : mem'[j][u] = Absent
    BY <2>1 DEF StoreInv, OwnerKept
  <2>3. QED
    BY <2>1, <2>2 DEF OwnerKept
<1>4. QED
  BY <1>1, <1>2, <1>3 DEF StoreInv

LEMMA JobGoesOn ==
  ASSUME FilesTyped, NEW i \in Instances, job[i] # NoJob,
         NEW s \in {"temp", "copy", "copying", "rename"}, JobAt(i, s)
  PROVE  /\ job' \in [Instances -> StoreJobs \cup {NoJob}]
         /\ job'[i] \in StoreJobs
         /\ job'[i].thread = job[i].thread /\ job'[i].record = job[i].record
         /\ job'[i].step = s
         /\ \A j \in Instances \ {i} : job'[j] = job[j]
<1>1. job[i] \in StoreJobs
  BY DEF FilesTyped
<1>2. PICK begun : begun = [job[i] EXCEPT !.step = s]
  OBVIOUS
<1>3. /\ begun \in StoreJobs
      /\ begun.thread = job[i].thread /\ begun.record = job[i].record /\ begun.step = s
  BY <1>1, <1>2 DEF StoreJobs
<1>4. job' = [job EXCEPT ![i] = begun]
  BY <1>2 DEF JobAt
<1>5. QED
  BY <1>3, <1>4 DEF FilesTyped

\* What the owner knows of a Thread it has loaded: the file is valid, and it is what a start
\* would find.
LEMMA OwnerKnows ==
  ASSUME StoreInv, NEW i \in Instances, NEW t \in Threads \ unloaded[i],
         storePc[i] \in {"load", "open"}
  PROVE  /\ primary[t] \in {mem[i][t], Absent} /\ mem[i][t] \in StoreValues
         /\ primary[t] \in StoreValues /\ primary[t] # Torn
         /\ Behind(backup[t], mem[i][t])
         /\ Recovered(t) = Loadable(primary[t])
<1>1. MemoryKept(i, t) /\ mem[i][t] \in StoreValues
  BY DEF StoreInv, OwnerKept, FilesTyped
<1>2. primary[t] \in StoreValues /\ primary[t] # Torn
  BY <1>1, AbsentIsNoRecord DEF MemoryKept, StoreValues
<1>3. QED
  BY <1>1, <1>2 DEF MemoryKept, Recovered

LEMMA JobOfOwner ==
  ASSUME StoreInv, NEW i \in Instances, job[i] # NoJob
  PROVE  /\ storePc[i] = "open" /\ unloaded[i] = {}
         /\ job[i] \in StoreJobs /\ job[i].thread \in Threads
         /\ job[i].step # "remove" => WriteKept(i, job[i].thread)
         /\ job[i].step = "remove" => RemoveKept(i, job[i].thread)
  BY DEF StoreInv, OwnerKept, FilesTyped, StoreJobs

(***************************************************************************)
(* The steps.  Each either leaves what a start would find, or changes it    *)
(* for one Thread: to nothing, or to a later revision.                      *)
(***************************************************************************)

Finds(t) ==
  /\ \A u \in Threads \ {t} : Recovered(u)' = Recovered(u)
  /\ \/ Recovered(t)' = Recovered(t)
     \/ Recovered(t)' = Absent
     \/ /\ Recovered(t)' \in StoreRecords
        /\ Recovered(t) # Absent => Recovered(t).rev < Recovered(t)'.rev

\* A step on the Thread t as the theorem needs it.
Kept(t) == StoreInv' /\ Finds(t) /\ UNCHANGED faults

LEMMA LoadKept ==
  ASSUME StoreInv, LockInv', NEW i \in Instances, NEW t \in Threads, LoadThread(i, t)
  PROVE  Kept(t)
<1> DEFINE found == ValidFile(t)
           keep == Loadable(found)
<1>1. /\ storePc[i] = "load" /\ t \in unloaded[i]
      /\ unloaded' = [unloaded EXCEPT ![i] = @ \ {t}]
      /\ mem' = [mem EXCEPT ![i][t] = keep]
      /\ primary' = [primary EXCEPT ![t] = keep]
      /\ backup' = [backup EXCEPT ![t] = IF found \in StoreRecords /\ keep = Absent THEN Absent ELSE @]
      /\ promised' = [promised EXCEPT ![t] = @ \cap {keep}]
      /\ UNCHANGED <<used, faults, storePc, job>>
  BY DEF LoadThread
<1>2. FileKept(t) /\ FilesTyped /\ OwnerKept(i) /\ job[i] = NoJob
  BY <1>1 DEF StoreInv, OwnerKept
<1>3. keep = Recovered(t) /\ keep \in StoreValues /\ keep # Torn /\ Loadable(keep) = keep
  BY Loads DEF ValidFile, Recovered
<1>4. /\ primary'[t] = keep /\ mem'[i][t] = keep /\ promised'[t] = promised[t] \cap {keep}
      /\ backup'[t] \in {backup[t], Absent}
      /\ backup[t] = Absent => backup'[t] = Absent
  BY <1>1, <1>2 DEF FilesTyped
<1>5. FilesTyped'
  BY <1>1, <1>2, <1>3 DEF FilesTyped, StoreFiles, StoreValues
<1>6. Behind(backup'[t], keep)
  <2>1. CASE keep = Absent
    BY <2>1, AbsentIsNoRecord DEF Behind
  <2>2. CASE keep # Absent
    <3>1. keep \in StoreRecords /\ keep = found
      BY <2>2, Loads
    <3>2. Behind(backup[t], keep)
      BY <1>2, <3>1 DEF ValidFile, FileKept, Behind, StoreRecords
    <3>3. QED
      BY <1>4, <3>2, AbsentIsNoRecord DEF Behind
  <2>3. QED
    BY <2>1, <2>2
<1>7. Recovered(t)' = keep
  BY <1>3, <1>4 DEF Recovered, Loadable
<1>8. FileKept(t)'
  <2>1. t \notin used => keep = Absent
    BY <1>2, <1>3, AbsentIsNoRecord, Loads DEF FileKept, Recovered
  <2>2. QED
    BY <1>1, <1>2, <1>3, <1>4, <1>6, <1>7, <2>1 DEF FileKept
<1>9. MemoryKept(i, t)'
  BY <1>4, <1>6 DEF MemoryKept
<1>10. Finds(t)
  BY <1>1, <1>2, <1>3, <1>7 DEF Finds, Recovered, Loadable, FilesTyped
<1>11. StoreInv'
  <2> HIDE DEF keep, found
  <2>1. QED
    BY <1>1, <1>2, <1>5, <1>8, <1>9, OwnerActs DEF FilesTyped
<1>12. QED
  BY <1>1, <1>10, <1>11 DEF Kept

LEMMA RestoreKept ==
  ASSUME StoreInv, LockInv', NEW i \in Instances, NEW t \in Threads, RestoreFails(i, t)
  PROVE  Kept(t)
<1>1. /\ storePc[i] = "load" /\ t \in unloaded[i] /\ primary[t] = Torn
      /\ unloaded' = [unloaded EXCEPT ![i] = @ \ {t}]
      /\ mem' = [mem EXCEPT ![i][t] = Absent]
      /\ primary' = [primary EXCEPT ![t] = Absent]
      /\ promised' = [promised EXCEPT ![t] = {Absent}]
      /\ UNCHANGED <<backup, used, faults, storePc, job>>
  BY DEF RestoreFails
<1>2. FileKept(t) /\ FilesTyped /\ OwnerKept(i) /\ job[i] = NoJob
  BY <1>1 DEF StoreInv, OwnerKept
<1>3. primary'[t] = Absent /\ mem'[i][t] = Absent /\ promised'[t] = {Absent}
  BY <1>1, <1>2 DEF FilesTyped
<1>4. FilesTyped'
  BY <1>1, <1>2 DEF FilesTyped, StoreFiles, StoreValues
<1>5. Recovered(t)' = Absent
  BY <1>3, AbsentIsNoRecord DEF Recovered, Loadable
<1>6. FileKept(t)' /\ MemoryKept(i, t)'
  BY <1>1, <1>2, <1>3, <1>5, AbsentIsNoRecord DEF FileKept, MemoryKept, Behind
<1>7. Finds(t)
  BY <1>1, <1>5, <1>2 DEF Finds, Recovered, Loadable, FilesTyped
<1>8. StoreInv'
  BY <1>1, <1>2, <1>4, <1>6, OwnerActs DEF FilesTyped
<1>9. QED
  BY <1>1, <1>7, <1>8 DEF Kept

LEMMA BeginWriteKept ==
  ASSUME StoreInv, LockInv', NEW i \in Instances, NEW t \in Threads, NEW ready \in BOOLEAN,
         BeginWrite(i, t, ready)
  PROVE  Kept(t)
<1> DEFINE old == mem[i][t]
           new == [rev |-> IF old = Absent THEN 1 ELSE old.rev + 1, ready |-> ready]
           begun == [thread |-> t, step |-> "temp", record |-> new,
                     left |-> IF old = Absent THEN {} ELSE {"backup"}]
<1>1. /\ storePc[i] = "open" /\ job[i] = NoJob
      /\ IF old = Absent THEN t \notin used /\ ~ready ELSE old.rev < MaxRevision /\ (old.ready => ready)
      /\ used' = used \cup {t}
      /\ job' = [job EXCEPT ![i] = begun]
      /\ promised' = [promised EXCEPT ![t] = @ \cup {Loadable(new)}]
      /\ UNCHANGED <<primary, backup, faults, storePc, unloaded, mem>>
  BY DEF BeginWrite
<1>2. FileKept(t) /\ FilesTyped /\ OwnerKept(i) /\ unloaded[i] = {} /\ old \in StoreValues
  BY <1>1 DEF StoreInv, OwnerKept, FilesTyped
<1>3. new \in StoreRecords /\ Follows(new, old)
  <2>1. CASE old = Absent
    BY <1>1, <2>1, StoreAssumption, AbsentIsNoRecord DEF StoreRecords, Follows, StoreAssumption
  <2>2. CASE old # Absent
    <3>1. old \in [rev : 1..MaxRevision, ready : BOOLEAN]
      BY <1>2, <2>2 DEF StoreValues, StoreRecords
    <3>2. MaxRevision \in Nat
      BY StoreAssumption DEF StoreAssumption
    <3>3. QED
      BY <1>1, <2>2, <3>1, <3>2 DEF StoreRecords, Follows
  <2>3. QED
    BY <2>1, <2>2
<1>4. old = Absent => backup[t] = Absent
  BY <1>1, <1>2 DEF FileKept
<1> HIDE DEF new, old
<1>5. begun \in StoreJobs /\ begun # NoJob
  BY <1>3, StoreAssumption DEF StoreJobs, StoreAssumption
<1>6. job'[i] = begun /\ promised'[t] = promised[t] \cup {Loadable(new)}
  BY <1>1, <1>2 DEF FilesTyped
<1>7. FilesTyped'
  BY <1>1, <1>2, <1>5, Loads DEF FilesTyped
<1>8. WriteKept(i, t)'
  BY <1>1, <1>3, <1>4, <1>6 DEF WriteKept, old
<1>9. FileKept(t)' /\ MemoryKept(i, t)' /\ Finds(t)
  BY <1>1, <1>2, <1>6 DEF FileKept, MemoryKept, OwnerKept, Finds, Recovered, Behind, Loadable
<1>10. StoreInv'
  BY <1>1, <1>2, <1>6, <1>7, <1>8, <1>9, OwnerActs DEF FilesTyped
<1>11. QED
  BY <1>1, <1>9, <1>10 DEF Kept

\* Writing the temporary file and copying to the backup change nothing a start would find.
LEMMA WriteTempKept ==
  ASSUME StoreInv, LockInv', NEW i \in Instances, WriteTemp(i)
  PROVE  \E t \in Threads : Kept(t)
<1>1. /\ job[i] # NoJob /\ job[i].step = "temp"
      /\ JobAt(i, IF Copies(i) THEN "copy" ELSE "rename")
      /\ UNCHANGED <<primary, backup, used, faults, promised, storePc, unloaded, mem>>
  BY DEF WriteTemp
<1>0. PICK t \in Threads : t = job[i].thread
  BY <1>1, JobOfOwner
<1>2. /\ FileKept(t) /\ FilesTyped /\ MemoryKept(i, t) /\ WriteKept(i, t)
      /\ storePc[i] = "open" /\ unloaded[i] = {} /\ job[i] \in StoreJobs
  BY <1>0, <1>1, JobOfOwner DEF StoreInv, OwnerKept
<1>3. /\ job' \in [Instances -> StoreJobs \cup {NoJob}]
      /\ \A j \in Instances \ {i} : job'[j] = job[j]
      /\ job'[i].thread = t /\ job'[i].record = job[i].record
      /\ job'[i].step \in {"copy", "rename"}
      /\ job'[i].step = "copy" => primary[t] # Absent
  <2>1. ASSUME NEW s \in {"copy", "rename"}, JobAt(i, s), s = "copy" => Copies(i)
        PROVE  /\ job' \in [Instances -> StoreJobs \cup {NoJob}]
               /\ \A j \in Instances \ {i} : job'[j] = job[j]
               /\ job'[i].thread = t /\ job'[i].record = job[i].record
               /\ job'[i].step = s
               /\ s = "copy" => primary[t] # Absent
    BY <1>0, <1>1, <1>2, <2>1, JobGoesOn DEF Copies, StoreJobs
  <2>2. QED
    BY <1>1, <2>1
<1>4. FilesTyped'
  BY <1>1, <1>2, <1>3 DEF FilesTyped
<1>5. WriteKept(i, t)'
  BY <1>1, <1>2, <1>3 DEF WriteKept
<1>6. FileKept(t)' /\ MemoryKept(i, t)' /\ Finds(t)
  BY <1>1, <1>2 DEF FileKept, MemoryKept, Finds, Recovered, Behind, Loadable
<1>7. StoreInv'
  BY <1>1, <1>2, <1>3, <1>4, <1>5, <1>6, OwnerActs
<1>8. QED
  BY <1>1, <1>6, <1>7 DEF Kept

LEMMA CopyKept ==
  ASSUME StoreInv, LockInv', NEW i \in Instances, CopyBegins(i) \/ CopyEnds(i)
  PROVE  \E t \in Threads : Kept(t)
<1>1. /\ job[i] # NoJob /\ job[i].step \in {"copy", "copying"}
      /\ \/ backup' = [backup EXCEPT ![job[i].thread] = Torn] /\ JobAt(i, "copying")
         \/ /\ backup' = [backup EXCEPT ![job[i].thread] = primary[job[i].thread]]
            /\ JobAt(i, "rename")
      /\ UNCHANGED <<primary, used, faults, promised, storePc, unloaded, mem>>
  BY DEF CopyBegins, CopyEnds
<1>0. PICK t \in Threads : t = job[i].thread
  BY <1>1, JobOfOwner
<1>2. /\ FileKept(t) /\ FilesTyped /\ MemoryKept(i, t) /\ WriteKept(i, t)
      /\ storePc[i] = "open" /\ unloaded[i] = {} /\ job[i] \in StoreJobs
  BY <1>0, <1>1, JobOfOwner DEF StoreInv, OwnerKept
<1>3. /\ job' \in [Instances -> StoreJobs \cup {NoJob}]
      /\ \A j \in Instances \ {i} : job'[j] = job[j]
      /\ job'[i].thread = t /\ job'[i].record = job[i].record
      /\ job'[i].step \in {"copying", "rename"}
  BY <1>0, <1>1, <1>2, JobGoesOn DEF StoreJobs
<1>4. /\ primary[t] = mem[i][t] /\ primary[t] # Absent /\ primary[t] \in StoreRecords
      /\ primary[t] # Torn
  BY <1>1, <1>2, AbsentIsNoRecord DEF MemoryKept, WriteKept, FilesTyped, StoreValues
<1>5. backup'[t] \in {Torn, primary[t]} /\ \A u \in Threads \ {t} : backup'[u] = backup[u]
  BY <1>0, <1>1, <1>2 DEF FilesTyped
<1>6. FilesTyped'
  BY <1>0, <1>1, <1>2, <1>3, <1>4 DEF FilesTyped, StoreFiles
<1>7. WriteKept(i, t)'
  BY <1>1, <1>2, <1>3, <1>4 DEF WriteKept
<1>8. Behind(backup'[t], primary[t])
  BY <1>4, <1>5, AbsentIsNoRecord DEF Behind, StoreRecords
<1>9. FileKept(t)' /\ MemoryKept(i, t)' /\ Finds(t)
  BY <1>1, <1>2, <1>4, <1>5, <1>8 DEF FileKept, MemoryKept, WriteKept, Finds, Recovered, Loadable
<1>10. StoreInv'
  BY <1>1, <1>2, <1>3, <1>5, <1>6, <1>7, <1>9, OwnerActs
<1>11. QED
  BY <1>1, <1>9, <1>10 DEF Kept

\* The rename puts the next revision in the place of what is there.
LEMMA RenameKept ==
  ASSUME StoreInv, LockInv', NEW i \in Instances, RenameTemp(i)
  PROVE  \E t \in Threads : Kept(t)
<1>1. job[i] # NoJob /\ job[i].step = "rename"
  BY DEF RenameTemp
<1>0. PICK t \in Threads : t = job[i].thread
  BY <1>1, JobOfOwner
<1>2. PICK r : r = job[i].record
  OBVIOUS
<1>3. /\ primary' = [primary EXCEPT ![t] = r]
      /\ mem' = [mem EXCEPT ![i][t] = r]
      /\ promised' = [promised EXCEPT ![t] = {Loadable(r)}]
      /\ job' = [job EXCEPT ![i] = NoJob]
      /\ UNCHANGED <<backup, used, faults, storePc, unloaded>>
  BY <1>0, <1>2 DEF RenameTemp, EndJob
<1>4. /\ FilesTyped /\ WriteKept(i, t) /\ storePc[i] = "open" /\ unloaded[i] = {}
      /\ FileKept(t)
  BY <1>0, <1>1, JobOfOwner DEF StoreInv
<1>5. /\ primary[t] \in {mem[i][t], Absent} /\ mem[i][t] \in StoreValues
      /\ Behind(backup[t], mem[i][t]) /\ Recovered(t) = Loadable(primary[t])
  BY <1>4, OwnerKnows
<1>6. /\ t \in used /\ Follows(r, mem[i][t]) /\ r \in StoreRecords /\ r # Torn
      /\ mem[i][t] = Absent => backup[t] = Absent
  BY <1>2, <1>4, AbsentIsNoRecord DEF WriteKept, Follows
<1>7. primary'[t] = r /\ mem'[i][t] = r /\ promised'[t] = {Loadable(r)} /\ job'[i] = NoJob
  BY <1>3, <1>4 DEF FilesTyped
<1>8. FilesTyped'
  BY <1>3, <1>4, <1>6, Loads DEF FilesTyped, StoreFiles, StoreValues
<1>9. Behind(backup[t], r)
  <2>1. CASE mem[i][t] = Absent
    BY <1>6, <2>1, AbsentIsNoRecord DEF Behind
  <2>2. CASE mem[i][t] \in StoreRecords
    BY <1>5, <1>6, <2>2 DEF Behind, Follows, StoreRecords
  <2>3. QED
    BY <1>5, <2>1, <2>2 DEF StoreValues
<1>10. Recovered(t)' = Loadable(r)
  BY <1>6, <1>7 DEF Recovered, Loadable
<1>11. FileKept(t)' /\ MemoryKept(i, t)'
  BY <1>3, <1>6, <1>7, <1>9, <1>10 DEF FileKept, MemoryKept
<1>12. Finds(t)
  <2>1. \A u \in Threads \ {t} : Recovered(u)' = Recovered(u)
    BY <1>3, <1>4 DEF Recovered, Loadable, FilesTyped
  <2>2. Recovered(t)' = Absent \/ Recovered(t)' = r
    BY <1>10, Loads
  <2>3. CASE Recovered(t)' = r /\ Recovered(t) # Absent
    <3>1. Recovered(t) = mem[i][t] /\ mem[i][t] \in StoreRecords
      BY <1>5, <2>3, Loads
    <3>2. QED
      BY <1>6, <2>1, <2>3, <3>1 DEF Finds, Follows
  <2>4. QED
    BY <1>6, <2>1, <2>2, <2>3 DEF Finds
<1>13. StoreInv'
  BY <1>3, <1>4, <1>7, <1>8, <1>11, OwnerActs DEF FilesTyped
<1>14. QED
  BY <1>3, <1>12, <1>13 DEF Kept

\* A write that fails leaves the former record, or nothing, behind.
LEMMA WriteFailsKept ==
  ASSUME StoreInv, LockInv', NEW i \in Instances, WriteFails(i)
  PROVE  \E t \in Threads : Kept(t)
<1>1. job[i] # NoJob /\ job[i].step # "remove"
  BY DEF WriteFails
<1>0. PICK t \in Threads : t = job[i].thread
  BY <1>1, JobOfOwner
<1>2. PICK r : r = job[i].record
  OBVIOUS
<1>3. /\ promised' = [promised EXCEPT ![t] = (@ \ {Loadable(r)}) \cup {Loadable(mem[i][t])}]
      /\ job' = [job EXCEPT ![i] = NoJob]
      /\ UNCHANGED <<primary, backup, used, faults, storePc, unloaded, mem>>
  BY <1>0, <1>2 DEF WriteFails, EndJob
<1>4. /\ FilesTyped /\ WriteKept(i, t) /\ storePc[i] = "open" /\ unloaded[i] = {}
      /\ FileKept(t) /\ MemoryKept(i, t)
  BY <1>0, <1>1, JobOfOwner DEF StoreInv, OwnerKept
<1>5. /\ primary[t] \in {mem[i][t], Absent} /\ mem[i][t] \in StoreValues
      /\ Recovered(t) = Loadable(primary[t])
  BY <1>4, OwnerKnows
<1>6. Follows(r, mem[i][t]) /\ r \in StoreRecords
  BY <1>2, <1>4 DEF WriteKept, Follows
<1>7. /\ promised'[t] = (promised[t] \ {Loadable(r)}) \cup {Loadable(mem[i][t])}
      /\ job'[i] = NoJob
  BY <1>3, <1>4 DEF FilesTyped
<1>8. Recovered(t) \in promised'[t]
  <2>1. CASE primary[t] = mem[i][t]
    BY <1>5, <1>7, <2>1
  <2>2. CASE primary[t] # mem[i][t]
    <3>1. Recovered(t) = Absent
      BY <1>5, <2>2, Loads
    <3>2. CASE Loadable(r) = Absent
      <4>1. ~r.ready
        BY <1>6, <3>2, Loads
      <4>2. Loadable(mem[i][t]) = Absent
        BY <1>6, <4>1, Loads DEF Follows
      <4>3. QED
        BY <1>7, <3>1, <4>2
    <3>3. CASE Loadable(r) # Absent
      BY <1>4, <1>7, <3>1, <3>3 DEF FileKept
    <3>4. QED
      BY <3>2, <3>3
  <2>3. QED
    BY <2>1, <2>2
<1>9. FilesTyped'
  BY <1>3, <1>4, Loads DEF FilesTyped
<1>10. FileKept(t)' /\ MemoryKept(i, t)' /\ Finds(t)
  BY <1>3, <1>4, <1>8 DEF FileKept, MemoryKept, Finds, Recovered, Behind, Loadable
<1>11. StoreInv'
  BY <1>3, <1>4, <1>7, <1>9, <1>10, OwnerActs DEF FilesTyped
<1>12. QED
  BY <1>3, <1>10, <1>11 DEF Kept

LEMMA BeginRemoveKept ==
  ASSUME StoreInv, LockInv', NEW i \in Instances, NEW t \in Threads, BeginRemove(i, t)
  PROVE  Kept(t)
<1> DEFINE begun == [thread |-> t, step |-> "remove", record |-> Absent,
                     left |-> {"primary", "backup"}]
<1>1. /\ storePc[i] = "open" /\ job[i] = NoJob
      /\ job' = [job EXCEPT ![i] = begun]
      /\ promised' = [promised EXCEPT ![t] = @ \cup {Absent}]
      /\ UNCHANGED <<primary, backup, used, faults, storePc, unloaded, mem>>
  BY DEF BeginRemove
<1>2. FileKept(t) /\ FilesTyped /\ OwnerKept(i) /\ unloaded[i] = {}
  BY <1>1 DEF StoreInv, OwnerKept
<1>3. begun \in StoreJobs /\ begun # NoJob
  BY StoreAssumption DEF StoreJobs, StoreAssumption
<1>4. job'[i] = begun /\ promised'[t] = promised[t] \cup {Absent}
  BY <1>1, <1>2 DEF FilesTyped
<1>5. FilesTyped'
  BY <1>1, <1>2, <1>3 DEF FilesTyped, StoreValues
<1>6. RemoveKept(i, t)'
  BY <1>4 DEF RemoveKept
<1>7. FileKept(t)' /\ MemoryKept(i, t)' /\ Finds(t)
  BY <1>1, <1>2, <1>4 DEF FileKept, MemoryKept, OwnerKept, Finds, Recovered, Behind, Loadable
<1>8. StoreInv'
  BY <1>1, <1>2, <1>4, <1>5, <1>6, <1>7, OwnerActs DEF FilesTyped
<1>9. QED
  BY <1>1, <1>7, <1>8 DEF Kept

\* The file of t, or its backup, or both are gone, and maybe what is remembered of it.
LEMMA FilesGone ==
  ASSUME StoreInv, LockInv', NEW i \in Instances, NEW t \in Threads,
         storePc[i] = "open", FilesTyped', UNCHANGED <<storePc, unloaded, used, faults>>,
         primary' \in {primary, [primary EXCEPT ![t] = Absent]},
         backup' \in {backup, [backup EXCEPT ![t] = Absent]},
         \A u \in Threads \ {t} : promised'[u] = promised[u] /\ mem'[i][u] = mem[i][u],
         \A j \in Instances \ {i} : job'[j] = job[j] /\ mem'[j] = mem[j],
         \/ mem'[i][t] = mem[i][t] /\ Absent \in promised[t] /\ promised'[t] = promised[t]
         \/ mem'[i][t] = Absent /\ promised'[t] = {Absent} /\ primary'[t] = Absent,
         job'[i] # NoJob =>
           /\ job'[i].thread = t /\ job'[i].step = "remove"
           /\ RemoveKept(i, t)'
  PROVE  Kept(t)
<1>1. /\ FilesTyped /\ FileKept(t) /\ MemoryKept(i, t) /\ unloaded[i] = {}
  BY DEF StoreInv, OwnerKept
<1>2. /\ primary[t] # Torn /\ Recovered(t) = Loadable(primary[t])
  BY <1>1, OwnerKnows
<1>3. /\ primary'[t] \in {primary[t], Absent} /\ backup'[t] \in {backup[t], Absent}
      /\ \A u \in Threads \ {t} : primary'[u] = primary[u] /\ backup'[u] = backup[u]
  BY <1>1 DEF FilesTyped
<1>4. Recovered(t)' \in {Recovered(t), Absent}
  BY <1>2, <1>3, AbsentIsNoRecord DEF Recovered, Loadable
<1>5. primary'[t] = Absent => Recovered(t)' = Absent
  BY AbsentIsNoRecord DEF Recovered, Loadable
<1>6. FileKept(t)'
  BY <1>1, <1>3, <1>4, <1>5, AbsentIsNoRecord DEF FileKept, Behind
<1>7. MemoryKept(i, t)'
  BY <1>1, <1>3, AbsentIsNoRecord DEF MemoryKept, Behind
<1>8. Finds(t)
  BY <1>3, <1>4 DEF Finds, Recovered, Loadable
<1>9. StoreInv'
  BY <1>1, <1>3, <1>6, <1>7, OwnerActs
<1>10. QED
  BY <1>8, <1>9 DEF Kept

LEMMA RemoveFileKept ==
  ASSUME StoreInv, LockInv', NEW i \in Instances, NEW f \in {"primary", "backup"},
         RemoveFile(i, f)
  PROVE  \E t \in Threads : Kept(t)
<1>1. job[i] # NoJob /\ job[i].step = "remove" /\ f \in job[i].left
  BY DEF RemoveFile
<1>0. PICK t \in Threads : t = job[i].thread
  BY <1>1, JobOfOwner
<1>2. /\ FilesTyped /\ RemoveKept(i, t) /\ storePc[i] = "open" /\ job[i] \in StoreJobs
  BY <1>0, <1>1, JobOfOwner DEF StoreInv
<1>3. /\ RemoveFiles(t, {f}) /\ UNCHANGED <<used, faults, storePc, unloaded>>
  BY <1>0 DEF RemoveFile
<1>4. /\ primary' \in {primary, [primary EXCEPT ![t] = Absent]}
      /\ backup' \in {backup, [backup EXCEPT ![t] = Absent]}
      /\ f = "primary" => primary'[t] = Absent
      /\ primary[t] = Absent => primary'[t] = Absent
      /\ primary' \in [Threads -> StoreFiles] /\ backup' \in [Threads -> StoreFiles]
  BY <1>2, <1>3 DEF RemoveFiles, FilesTyped, StoreFiles
<1>5. CASE job[i].left = {f}
  <2>1. /\ job' = [job EXCEPT ![i] = NoJob]
        /\ mem' = [mem EXCEPT ![i][t] = Absent]
        /\ promised' = [promised EXCEPT ![t] = {Absent}]
    BY <1>0, <1>5 DEF RemoveFile, EndJob
  <2>2. /\ job'[i] = NoJob /\ mem'[i][t] = Absent /\ promised'[t] = {Absent}
        /\ \A u \in Threads \ {t} : promised'[u] = promised[u] /\ mem'[i][u] = mem[i][u]
        /\ \A j \in Instances \ {i} : job'[j] = job[j] /\ mem'[j] = mem[j]
    BY <1>2, <2>1 DEF FilesTyped
  <2>3. primary'[t] = Absent
    BY <1>2, <1>4, <1>5 DEF RemoveKept
  <2>4. FilesTyped'
    BY <1>2, <1>3, <1>4, <2>1 DEF FilesTyped, StoreValues
  <2>5. QED
    BY <1>2, <1>3, <1>4, <2>2, <2>3, <2>4, FilesGone
<1>6. CASE job[i].left # {f}
  <2>1. PICK begun : begun = [job[i] EXCEPT !.left = @ \ {f}]
    OBVIOUS
  <2>2. job' = [job EXCEPT ![i] = begun] /\ UNCHANGED <<mem, promised>>
    BY <1>0, <1>6, <2>1 DEF RemoveFile
  <2>3. /\ begun \in StoreJobs /\ begun.thread = t /\ begun.step = "remove"
        /\ begun.left = job[i].left \ {f}
    BY <1>0, <1>1, <1>2, <2>1 DEF StoreJobs
  <2>4. job'[i] = begun /\ \A j \in Instances \ {i} : job'[j] = job[j]
    BY <1>2, <2>2 DEF FilesTyped
  <2>5. RemoveKept(i, t)'
    BY <1>2, <1>4, <2>2, <2>3, <2>4 DEF RemoveKept
  <2>6. FilesTyped'
    BY <1>2, <1>3, <1>4, <2>2, <2>3 DEF FilesTyped
  <2>7. Absent \in promised[t]
    BY <1>2 DEF RemoveKept
  <2>8. QED
    BY <1>2, <1>3, <1>4, <2>2, <2>3, <2>4, <2>5, <2>6, <2>7, FilesGone
<1>7. QED
  BY <1>5, <1>6

LEMMA RemoveFailsKept ==
  ASSUME StoreInv, LockInv', NEW i \in Instances, RemoveFails(i)
  PROVE  \E t \in Threads : Kept(t)
<1>1. job[i] # NoJob /\ job[i].step = "remove"
  BY DEF RemoveFails
<1>0. PICK t \in Threads : t = job[i].thread
  BY <1>1, JobOfOwner
<1>2. /\ FilesTyped /\ RemoveKept(i, t) /\ storePc[i] = "open"
  BY <1>0, <1>1, JobOfOwner DEF StoreInv
<1>3. /\ \E f \in job[i].left : RemoveFiles(t, job[i].left \ {f})
      /\ job' = [job EXCEPT ![i] = NoJob]
      /\ UNCHANGED <<used, faults, promised, storePc, unloaded, mem>>
  BY <1>0 DEF RemoveFails, EndJob
<1>4. /\ primary' \in {primary, [primary EXCEPT ![t] = Absent]}
      /\ backup' \in {backup, [backup EXCEPT ![t] = Absent]}
      /\ primary' \in [Threads -> StoreFiles] /\ backup' \in [Threads -> StoreFiles]
  BY <1>2, <1>3 DEF RemoveFiles, FilesTyped, StoreFiles
<1>5. FilesTyped' /\ job'[i] = NoJob /\ \A j \in Instances \ {i} : job'[j] = job[j]
  BY <1>2, <1>3, <1>4 DEF FilesTyped
<1>6. Absent \in promised[t]
  BY <1>2 DEF RemoveKept
<1>7. QED
  BY <1>2, <1>3, <1>4, <1>5, <1>6, FilesGone

\* The storage damages a file while no process runs.
LEMMA DamageKept ==
  ASSUME StoreInv, LockInv', NEW t \in Threads, DamageFile(t)
  PROVE  /\ StoreInv' /\ faults < MaxFaults /\ faults' = faults + 1
         /\ \A u \in Threads \ {t} : Recovered(u)' = Recovered(u)
         /\ \/ Recovered(t)' = Absent
            \/ /\ Recovered(t)' \in StoreRecords /\ Recovered(t) \in StoreRecords
               /\ Recovered(t)'.rev <= Recovered(t).rev
<1>1. /\ faults < MaxFaults /\ primary[t] \in StoreRecords
      /\ \A i \in Instances : storePc[i] = "off"
      /\ faults' = faults + 1
      /\ primary' = [primary EXCEPT ![t] = Torn]
      /\ promised' = [promised EXCEPT ![t] = {Loadable(backup[t])}]
      /\ UNCHANGED <<backup, used, storePc, unloaded, mem, job>>
  BY DEF DamageFile
<1>2. FilesTyped /\ FileKept(t) /\ \A i \in Instances : job[i] = NoJob
  BY <1>1 DEF StoreInv, OwnerKept
<1>3. primary'[t] = Torn /\ promised'[t] = {Loadable(backup[t])}
  BY <1>1, <1>2 DEF FilesTyped
<1>4. FilesTyped'
  BY <1>1, <1>2, Loads, StoreAssumption DEF FilesTyped, StoreFiles, StoreAssumption
<1>5. Recovered(t)' = Loadable(backup[t])
  BY <1>1, <1>3 DEF Recovered, Loadable
<1>6. FileKept(t)'
  BY <1>1, <1>2, <1>3, <1>5, AbsentIsNoRecord DEF FileKept, Behind
<1>7. ASSUME NEW u \in Threads \ {t}
      PROVE  FileKept(u)' /\ Recovered(u)' = Recovered(u)
  BY <1>1, <1>2 DEF StoreInv, FilesTyped, FileKept, Behind, Recovered, Loadable
<1>8. ASSUME NEW i \in Instances PROVE OwnerKept(i)'
  <2>1. storePc'[i] = "off" /\ job'[i] = NoJob /\ \A u \in Threads : mem'[i][u] = Absent
    BY <1>1, <1>2 DEF StoreInv, OwnerKept
  <2>2. QED
    BY <2>1 DEF OwnerKept
<1>9. CASE Loadable(backup[t]) # Absent
  <2>1. /\ backup[t] \in StoreRecords /\ backup[t].ready /\ Loadable(backup[t]) = backup[t]
    BY <1>9, Loads
  <2>2. backup[t].rev <= primary[t].rev /\ primary[t].ready
    BY <1>1, <1>2, <2>1 DEF FileKept, Behind
  <2>3. Recovered(t) = primary[t]
    BY <1>1, <2>2, AbsentIsNoRecord DEF Recovered, Loadable
  <2>4. QED
    BY <1>1, <1>4, <1>5, <1>6, <1>7, <1>8, <2>1, <2>2, <2>3 DEF StoreInv
<1>10. QED
  BY <1>1, <1>4, <1>5, <1>6, <1>7, <1>8, <1>9 DEF StoreInv

\* Starting, opening, closing and crashing leave the files as they are.
LEMMA ProcessKept ==
  ASSUME StoreInv, LockInv', NEW i \in Instances,
         \/ StartStore(i) \/ CreateLock(i) \/ SignLock(i) \/ JudgeLock(i)
         \/ MoveLockAside(i) \/ RetryLock(i)
         \/ CleanupResidue(i) \/ Initialized(i) \/ CloseStore(i) \/ CrashStore(i)
  PROVE  StoreInv' /\ UNCHANGED <<primary, backup, faults>>
<1>1. FilesTyped /\ OwnerKept(i) /\ storePc \in [Instances -> {"off"} \cup Starting \cup Owning]
  BY DEF StoreInv, LockInv
<1>2. CASE \/ StartStore(i) \/ CreateLock(i) \/ SignLock(i) \/ JudgeLock(i)
           \/ MoveLockAside(i) \/ RetryLock(i)
  <2>1. /\ \E label \in {"off", "clean"} \cup Starting : storePc' = [storePc EXCEPT ![i] = label]
        /\ storePc[i] \notin {"load", "open"}
        /\ UNCHANGED <<primary, backup, used, faults, promised, unloaded, mem, job>>
    BY <1>2 DEF StartStore, CreateLock, SignLock, JudgeLock, MoveLockAside, RetryLock, StoreAt,
                Starting, storeFiles, storeWork
  <2>2. /\ storePc'[i] \notin {"load", "open"}
        /\ \A j \in Instances \ {i} : storePc'[j] = storePc[j]
    BY <1>1, <2>1 DEF Starting
  <2>3. job'[i] = NoJob /\ \A u \in Threads : mem'[i][u] = Absent
    BY <1>1, <2>1 DEF OwnerKept
  <2>4. OwnerKept(i)'
    BY <2>2, <2>3 DEF OwnerKept
  <2>5. FilesTyped'
    BY <1>1, <2>1 DEF FilesTyped
  <2>6. QED
    BY <2>1, <2>2, <2>4, <2>5, FilesStay
<1>3. CASE CleanupResidue(i)
  <2>1. /\ storePc' = [storePc EXCEPT ![i] = "load"] /\ storePc[i] = "clean"
        /\ unloaded' = [unloaded EXCEPT ![i] = {t \in Threads : primary[t] # Absent}]
        /\ UNCHANGED <<primary, backup, used, faults, promised, mem, job>>
    BY <1>3 DEF CleanupResidue, StoreAt
  <2>2. /\ storePc'[i] = "load" /\ unloaded'[i] = {t \in Threads : primary[t] # Absent}
        /\ \A j \in Instances \ {i} : storePc'[j] = storePc[j] /\ unloaded'[j] = unloaded[j]
        /\ job[i] = NoJob
    BY <1>1, <2>1 DEF FilesTyped, OwnerKept
  <2>3. FilesTyped'
    BY <1>1, <2>1 DEF FilesTyped
  <2>4. ASSUME NEW t \in Threads \ unloaded'[i] PROVE MemoryKept(i, t)'
    <3>1. primary[t] = Absent /\ mem[i][t] = Absent
      BY <1>1, <2>1, <2>2 DEF OwnerKept
    <3>2. QED
      BY <2>1, <3>1, AbsentIsNoRecord DEF MemoryKept, Behind
  <2>5. OwnerKept(i)'
    BY <2>1, <2>2, <2>4 DEF OwnerKept
  <2>6. QED
    BY <2>1, <2>2, <2>3, <2>5, FilesStay
<1>4. CASE Initialized(i)
  <2>1. /\ storePc' = [storePc EXCEPT ![i] = "open"] /\ storePc[i] = "load" /\ unloaded[i] = {}
        /\ UNCHANGED <<primary, backup, used, faults, promised, unloaded, mem, job>>
    BY <1>4 DEF Initialized, StoreAt, storeFiles, storeWork
  <2>2. storePc'[i] = "open" /\ \A j \in Instances \ {i} : storePc'[j] = storePc[j]
    BY <1>1, <2>1
  <2>3. FilesTyped' /\ OwnerKept(i)'
    BY <1>1, <2>1, <2>2 DEF FilesTyped, OwnerKept, MemoryKept, Behind
  <2>4. QED
    BY <2>1, <2>2, <2>3, FilesStay
<1>5. CASE CloseStore(i) \/ CrashStore(i)
  <2>1. /\ storePc' = [storePc EXCEPT ![i] = "off"]
        /\ job' = [job EXCEPT ![i] = NoJob]
        /\ mem' = [mem EXCEPT ![i] = [t \in Threads |-> Absent]]
        /\ unloaded' \in {unloaded, [unloaded EXCEPT ![i] = {}]}
        /\ UNCHANGED <<primary, backup, used, faults, promised>>
    BY <1>1, <1>5 DEF CloseStore, CrashStore, StoreAt, EndJob, storeFiles, FilesTyped
  <2>2. /\ storePc'[i] = "off" /\ job'[i] = NoJob
        /\ \A j \in Instances \ {i} :
             /\ storePc'[j] = storePc[j] /\ unloaded'[j] = unloaded[j]
             /\ mem'[j] = mem[j] /\ job'[j] = job[j]
    BY <1>1, <2>1 DEF FilesTyped
  <2>3. FilesTyped' /\ OwnerKept(i)'
    BY <1>1, <2>1, <2>2 DEF FilesTyped, OwnerKept, StoreValues
  <2>4. QED
    BY <2>1, <2>2, <2>3, FilesStay
<1>6. QED
  BY <1>2, <1>3, <1>4, <1>5

(***************************************************************************)
(* The refinement.                                                          *)
(***************************************************************************)

LEMMA RevisionOf ==
  ASSUME NEW t \in Threads
  PROVE  /\ StoredRevisions[t] = IF Recovered(t) = Absent THEN 0 ELSE Recovered(t).rev
         /\ StoredRevisions[t] \in 0..MaxRevision
<1>1. MaxRevision \in Nat
  BY StoreAssumption DEF StoreAssumption
<1>2. Recovered(t) \in StoreRecords \cup {Absent}
  BY Loads DEF Recovered, StoreValues
<1>3. QED
  BY <1>1, <1>2 DEF StoredRevisions, StoreRecords

\* A step that changes what a start would find for one Thread replaces or deletes its record.
LEMMA FindsRefines ==
  ASSUME NEW t \in Threads, Finds(t), UNCHANGED faults
  PROVE  [Atomic!Next]_<<StoredRevisions, faults>>
<1>1. \A u \in Threads \ {t} : StoredRevisions'[u] = StoredRevisions[u]
  BY DEF Finds, StoredRevisions
<1>2. /\ DOMAIN StoredRevisions = Threads /\ DOMAIN StoredRevisions' = Threads
      /\ StoredRevisions = [u \in Threads |-> StoredRevisions[u]]
      /\ StoredRevisions' = [u \in Threads |-> StoredRevisions'[u]]
  BY DEF StoredRevisions
<1>3. StoredRevisions' = [StoredRevisions EXCEPT ![t] = StoredRevisions'[t]]
  BY <1>1, <1>2
<1>4. CASE Recovered(t)' = Recovered(t)
  <2>1. StoredRevisions'[t] = StoredRevisions[t]
    BY <1>4 DEF StoredRevisions
  <2>2. StoredRevisions' = StoredRevisions
    BY <1>2, <1>3, <2>1
  <2>3. QED
    BY <2>2
<1>5. CASE Recovered(t)' = Absent
  <2>1. StoredRevisions'[t] = 0
    BY <1>5 DEF StoredRevisions
  <2>2. Atomic!Delete(t)
    BY <1>3, <2>1 DEF Atomic!Delete
  <2>3. QED
    BY <2>2 DEF Atomic!Next
<1>6. CASE /\ Recovered(t)' \in StoreRecords
           /\ Recovered(t) # Absent => Recovered(t).rev < Recovered(t)'.rev
  <2>1. StoredRevisions'[t] = Recovered(t)'.rev
    BY <1>6, AbsentIsNoRecord DEF StoredRevisions
  <2>2. Recovered(t)'.rev \in 1..MaxRevision /\ MaxRevision \in Nat
    BY <1>6, StoreAssumption DEF StoreRecords, StoreAssumption
  <2>3. Recovered(t)'.rev > StoredRevisions[t]
    BY <1>6, <2>2, RevisionOf
  <2>4. Atomic!Put(t)
    BY <1>3, <2>1, <2>2, <2>3 DEF Atomic!Put
  <2>5. QED
    BY <2>4 DEF Atomic!Next
<1>7. QED
  BY <1>4, <1>5, <1>6 DEF Finds

LEMMA DamageRefines ==
  ASSUME StoreInv, LockInv', NEW t \in Threads, DamageFile(t)
  PROVE  Atomic!Next
<1>1. \A u \in Threads \ {t} : StoredRevisions'[u] = StoredRevisions[u]
  BY DamageKept DEF StoredRevisions
<1>2. StoredRevisions' = [StoredRevisions EXCEPT ![t] = StoredRevisions'[t]]
  <2>1. /\ StoredRevisions = [u \in Threads |-> StoredRevisions[u]]
        /\ StoredRevisions' = [u \in Threads |-> StoredRevisions'[u]]
    BY DEF StoredRevisions
  <2>2. QED
    BY <1>1, <2>1
<1>3. StoredRevisions'[t] \in 0..StoredRevisions[t]
  <2>1. StoredRevisions'[t] = IF Recovered(t)' = Absent THEN 0 ELSE Recovered(t)'.rev
    BY DEF StoredRevisions
  <2>2. CASE Recovered(t)' = Absent
    BY <2>1, <2>2, RevisionOf, StoreAssumption DEF StoreAssumption
  <2>3. CASE /\ Recovered(t)' \in StoreRecords /\ Recovered(t) \in StoreRecords
             /\ Recovered(t)'.rev <= Recovered(t).rev
    <3>1. Recovered(t)' # Absent /\ Recovered(t) # Absent
      BY <2>3, AbsentIsNoRecord
    <3>2. StoredRevisions[t] = Recovered(t).rev
      BY <3>1, RevisionOf
    <3>3. Recovered(t)'.rev \in 1..MaxRevision /\ Recovered(t).rev \in 1..MaxRevision
      BY <2>3 DEF StoreRecords
    <3>4. MaxRevision \in Nat
      BY StoreAssumption DEF StoreAssumption
    <3>5. QED
      BY <2>1, <2>3, <3>1, <3>2, <3>3, <3>4
  <2>4. QED
    BY <2>2, <2>3, DamageKept
<1>4. Atomic!Fault(t)
  BY <1>2, <1>3, DamageKept DEF Atomic!Fault
<1>5. QED
  BY <1>4 DEF Atomic!Next

LEMMA StoreNext ==
  ASSUME StartsOverlap = FALSE, StoreInv, [NextStore]_storeVars
  PROVE  StoreInv' /\ [Atomic!Next]_<<StoredRevisions, faults>>
<1>1. LockInv'
  BY LockNext DEF StoreInv
<1>2. ASSUME UNCHANGED <<primary, backup, faults>>
      PROVE  UNCHANGED <<StoredRevisions, faults>>
  BY <1>2 DEF StoredRevisions, Recovered, Loadable
<1>3. CASE UNCHANGED storeVars
  <2>1. StoreInv'
    BY <1>1, <1>3 DEF storeVars, StoreInv, FilesTyped, FileKept, OwnerKept, MemoryKept, WriteKept,
                      RemoveKept, Behind, Recovered, Loadable
  <2>2. QED
    BY <1>2, <1>3, <2>1 DEF storeVars
<1>4. ASSUME NEW t \in Threads, Kept(t)
      PROVE  StoreInv' /\ [Atomic!Next]_<<StoredRevisions, faults>>
  BY <1>4, FindsRefines DEF Kept
<1>5. ASSUME NEW i \in Instances,
             \/ StartStore(i) \/ CreateLock(i) \/ SignLock(i) \/ JudgeLock(i)
             \/ MoveLockAside(i) \/ RetryLock(i)
             \/ CleanupResidue(i) \/ Initialized(i) \/ CloseStore(i) \/ CrashStore(i)
      PROVE  StoreInv' /\ [Atomic!Next]_<<StoredRevisions, faults>>
  BY <1>1, <1>2, <1>5, ProcessKept
<1>6. ASSUME NEW i \in Instances,
             \/ WriteTemp(i) \/ CopyBegins(i) \/ CopyEnds(i) \/ RenameTemp(i) \/ WriteFails(i)
             \/ RemoveFails(i) \/ \E f \in {"primary", "backup"} : RemoveFile(i, f)
      PROVE  \E t \in Threads : Kept(t)
  BY <1>1, <1>6, WriteTempKept, CopyKept, RenameKept, WriteFailsKept, RemoveFailsKept,
     RemoveFileKept
<1>7. ASSUME NEW i \in Instances, NEW t \in Threads,
             \/ LoadThread(i, t) \/ RestoreFails(i, t) \/ BeginRemove(i, t)
             \/ \E ready \in BOOLEAN : BeginWrite(i, t, ready)
      PROVE  Kept(t)
  BY <1>1, <1>7, LoadKept, RestoreKept, BeginRemoveKept, BeginWriteKept
<1>8. ASSUME NEW t \in Threads, DamageFile(t)
      PROVE  StoreInv' /\ [Atomic!Next]_<<StoredRevisions, faults>>
  BY <1>1, <1>8, DamageKept, DamageRefines
<1>9. QED
  BY <1>3, <1>4, <1>5, <1>6, <1>7, <1>8 DEF NextStore

LEMMA StoreKept ==
  ASSUME StartsOverlap = FALSE
  PROVE  SpecStore => []StoreInv
<1>1. InitStore => StoreInv
  BY StoreInit
<1>2. StoreInv /\ [NextStore]_storeVars => StoreInv'
  BY StoreNext
<1>3. QED
  BY <1>1, <1>2, PTL DEF SpecStore

\* Wherever a process crashes, the record a start finds is one that was acknowledged last or was
\* being written: replaceFile, remove and initialize lose nothing and bring nothing back.
THEOREM NothingIsLost ==
  ASSUME StartsOverlap = FALSE
  PROVE  SpecStore => []Durable
<1>1. StoreInv => Durable
  BY DEF StoreInv, FileKept, Durable
<1>2. QED
  BY <1>1, StoreKept, PTL

\* The steps on files implement records that are replaced whole: a crash shows nothing, a write
\* only ever adds a later revision, and only a damaged file goes back to an earlier one.
THEOREM FilesAreAtomic ==
  ASSUME StartsOverlap = FALSE
  PROVE  SpecStore => StoreIsAtomic
<1>1. InitStore => Atomic!Init
  BY AbsentIsNoRecord DEF InitStore, Atomic!Init, StoredRevisions, Recovered, Loadable
<1>2. StoreInv /\ [NextStore]_storeVars => [Atomic!Next]_<<StoredRevisions, faults>>
  BY StoreNext
<1>3. QED
  BY <1>1, <1>2, StoreKept, PTL DEF SpecStore, StoreIsAtomic, Atomic!Spec

(***************************************************************************)
(* One writer per native Session.  Requests of a Thread and its release     *)
(* are served one at a time, by the head of the line, and only a borrow      *)
(* runs beside them.  So while nothing replaces the loaded object, it        *)
(* writes the saved native Session; a restore runs only while no object is   *)
(* loaded; and whoever writes the saved native Session is the loaded         *)
(* object, the one being restored, or the replacement of a rollback.  A      *)
(* replacement writes a native Session no object has had.                   *)
(***************************************************************************)

Kinds == {"none", "start", "use", "rollback", "delete", "borrow"}
MayBe == Objects \union {NoObject}
CallOK(c) ==
    /\ {"kind", "step", "with"} \subseteq DOMAIN c
    /\ c.kind \in Kinds /\ c.with \in MayBe
    /\ c.kind = "none" <=> c.step = "idle"
    /\ c.kind = "start" <=> c.step \in {"opening", "register"}
    /\ c.kind = "start" \/ c.step = "replacing" => c.with \in Objects
    /\ c.step = "replacing" => c.kind = "rollback"
\* A request that is served: it is the head of the line.
Serves(c) == c.kind \in {"use", "rollback", "delete"} /\ c.step # "queued"
Holds(o) == harness[o] \in {"open", "closing"}
Replacing(o) == \E r \in Calls : At(r, "replacing") /\ call[r].with = o

RuntimeTypes ==
    /\ {"state", "native"} \subseteq DOMAIN saved /\ saved.native \in Nat
    /\ current \in MayBe /\ restoring \in MayBe
    /\ harness \in [Objects -> {"unused", "opening", "open", "closing", "closed"}]
    /\ native \in [Objects -> Nat]
    /\ DOMAIN call = Calls /\ \A r \in Calls : CallOK(call[r])
    /\ {"of", "step"} \subseteq DOMAIN release
    /\ line \in Seq(Calls \union {RELEASE})

HeadInv ==
    /\ \A r \in Calls : Serves(call[r]) => line # <<>> /\ Head(line) = r
    /\ release.step = "closing" => line # <<>> /\ Head(line) = RELEASE
    /\ hostLife \in {"stopped", "closed"} => \A r \in Calls : At(r, "idle")

\* The Thread is started once, before anything else happens to it.
StartInv ==
    /\ saved.state # "none" => saved.native # 0
    /\ saved.native = 0 =>
         /\ current = NoObject /\ restoring = NoObject
         /\ \A r \in Calls : At(r, "idle")
         /\ \A o \in Objects : harness[o] = "unused"
    /\ \A r \in Calls : call[r].kind = "start" =>
         /\ saved.state = "provisional" /\ saved.native = 1
         /\ current = NoObject /\ restoring = NoObject
         /\ \A q \in Calls \ {r} : At(q, "idle")
         /\ \A o \in Objects \ {call[r].with} : harness[o] = "unused"
         /\ At(r, "register") => native[call[r].with] = 1

Fresh == \E k \in Nat : Natives \ {0} = 1..k
UnusedInv == \A o \in Objects : harness[o] = "unused" => native[o] = 0
RestoreInv == restoring # NoObject =>
    /\ current = NoObject /\ native[restoring] = saved.native
    /\ \A p \in Objects : Holds(p) /\ native[p] = native[restoring] => p = restoring
SavedInv == saved.state = "ready" =>
    \A p \in Objects : Holds(p) /\ native[p] = saved.native => p = current \/ p = restoring \/ Replacing(p)
ReplaceInv ==
    /\ \A r \in Calls : At(r, "replacing") => current # NoObject /\ native[call[r].with] = saved.native
    /\ current # NoObject /\ (\A r \in Calls : ~At(r, "replacing")) => native[current] = saved.native

NativeInv == Fresh /\ UnusedInv /\ RestoreInv /\ SavedInv /\ ReplaceInv /\ OneWriter

ReleaseInv == ReleaseClosing =>
    /\ release.of \notin answering /\ saved.native # 0
    /\ \A r \in Calls : ~Admitted(r)

RuntimeInv == RuntimeTypes /\ HeadInv /\ StartInv /\ NativeInv /\ ReleaseInv

(***************************************************************************)
(* The line and the calls                                                   *)
(***************************************************************************)
LEMMA HeadKept ==
    ASSUME RuntimeInv, \A q \in Calls : Serves(call'[q]) => Serves(call[q]) \/ (line # <<>> /\ Head(line) = q),
           release'.step = "closing" => release.step = "closing" \/ (line # <<>> /\ Head(line) = RELEASE),
           hostLife' \in {"stopped", "closed"} => \A q \in Calls : call'[q].step = "idle",
           \/ line' = line
           \/ \E x \in Calls \union {RELEASE} : line' = Append(line, x)
           \/ /\ line' = Tail(line) /\ line # <<>> /\ release'.step # "closing"
              /\ \A q \in Calls : ~Serves(call'[q])
    PROVE  HeadInv' /\ line' \in Seq(Calls \union {RELEASE})
<1>1. line \in Seq(Calls \union {RELEASE})
    BY DEF RuntimeInv, RuntimeTypes
<1>2. /\ \A q \in Calls : Serves(call'[q]) => line # <<>> /\ Head(line) = q
      /\ release'.step = "closing" => line # <<>> /\ Head(line) = RELEASE
    BY DEF RuntimeInv, HeadInv
<1>3. CASE line' = line
    BY <1>1, <1>2, <1>3 DEF HeadInv, At
<1>4. ASSUME NEW x \in Calls \union {RELEASE}, line' = Append(line, x)
      PROVE  HeadInv' /\ line' \in Seq(Calls \union {RELEASE})
    <2>1. /\ line' \in Seq(Calls \union {RELEASE}) /\ line' # <<>>
          /\ line # <<>> => Head(line') = Head(line)
        BY <1>1, <1>4
    <2> QED BY <1>2, <2>1 DEF HeadInv, At
<1>5. CASE /\ line' = Tail(line) /\ line # <<>> /\ release'.step # "closing"
           /\ \A q \in Calls : ~Serves(call'[q])
    <2>1. line' \in Seq(Calls \union {RELEASE})
        BY <1>1, <1>5
    <2> QED BY <1>5, <2>1 DEF HeadInv, At
<1> QED BY <1>3, <1>4, <1>5

LEMMA StepEffect ==
    ASSUME RuntimeInv, NEW r \in Calls, NEW step, NEW o, Step(r, step, o)
    PROVE  /\ DOMAIN call' = Calls /\ {"kind", "step", "with"} \subseteq DOMAIN call'[r]
           /\ call'[r].kind = call[r].kind /\ call'[r].step = step /\ call'[r].with = o
           /\ \A q \in Calls \ {r} : call'[q] = call[q]
BY DEF RuntimeInv, RuntimeTypes, CallOK, Step

LEMMA EndsEffect ==
    ASSUME RuntimeInv, NEW r \in Calls, Ends(r)
    PROVE  /\ DOMAIN call' = Calls /\ \A q \in Calls \ {r} : call'[q] = call[q]
           /\ call'[r].kind = "none" /\ call'[r].step = "idle" /\ CallOK(call'[r])
           /\ line' = IF call[r].kind \in {"borrow", "start"} THEN line ELSE Tail(line)
BY DEF RuntimeInv, RuntimeTypes, CallOK, Ends, Idle, Kinds, MayBe

\* A handler that ends was the head of the line, or is not in it.
LEMMA EndsHead ==
    ASSUME RuntimeInv, NEW r \in Calls, Ends(r), UNCHANGED <<release, hostLife>>,
           call[r].kind \in {"borrow", "start"} \/ Serves(call[r])
    PROVE  /\ HeadInv' /\ line' \in Seq(Calls \union {RELEASE})
           /\ DOMAIN call' = Calls /\ \A q \in Calls : CallOK(call'[q])
<1>1. /\ DOMAIN call' = Calls /\ \A q \in Calls \ {r} : call'[q] = call[q]
      /\ call'[r].kind = "none" /\ call'[r].step = "idle" /\ CallOK(call'[r])
      /\ line' = IF call[r].kind \in {"borrow", "start"} THEN line ELSE Tail(line)
    BY EndsEffect
<1>2. \A q \in Calls : CallOK(call'[q])
    BY <1>1 DEF RuntimeInv, RuntimeTypes
<1>3. /\ \A q \in Calls : Serves(call'[q]) => Serves(call[q])
      /\ hostLife' \in {"stopped", "closed"} => \A q \in Calls : call'[q].step = "idle"
    BY <1>1 DEF RuntimeInv, HeadInv, Serves, At
<1>4. CASE call[r].kind \in {"borrow", "start"}
    BY <1>1, <1>2, <1>3, <1>4, HeadKept
<1>5. CASE Serves(call[r])
    <2>1. line # <<>> /\ Head(line) = r /\ \A q \in Calls : Serves(call[q]) => q = r
        BY <1>5 DEF RuntimeInv, HeadInv
    <2>2. release.step # "closing" /\ \A q \in Calls : ~Serves(call'[q])
        BY <1>1, <1>3, <2>1, RuntimeConstants DEF RuntimeInv, HeadInv, Serves
    <2>3. line' = Tail(line)
        BY <1>1, <1>5 DEF Serves
    <2> QED BY <1>1, <1>2, <1>3, <2>1, <2>2, <2>3, HeadKept
<1> QED BY <1>4, <1>5

\* Only a Thread that was started has requests.
LEMMA Started ==
    ASSUME RuntimeInv, NEW r \in Calls, call[r].kind \notin {"none", "start"}
    PROVE  saved.native # 0 /\ \A q \in Calls : call[q].kind # "start"
BY DEF RuntimeInv, RuntimeTypes, CallOK, StartInv, At

LEMMA StartKept ==
    ASSUME saved'.native # 0, \A q \in Calls : call'[q].kind # "start"
    PROVE  StartInv'
BY DEF StartInv

\* The objects and what they write stay, or some Session goes.
LEMMA NativeKept ==
    ASSUME RuntimeInv, UNCHANGED <<native, current, restoring>>, saved'.native = saved.native,
           saved'.state = "ready" => saved.state = "ready",
           \A o \in Objects : harness'[o] \in {"open", "closing"} => Holds(o),
           \A o \in Objects : harness'[o] = "unused" => harness[o] = "unused",
           \A r \in Calls : /\ call'[r].step = "replacing" <=> At(r, "replacing")
                            /\ At(r, "replacing") => call'[r].with = call[r].with
    PROVE  NativeInv'
<1>1. Natives' = Natives
    BY DEF Natives
<1>2. Fresh' /\ UnusedInv'
    BY <1>1 DEF RuntimeInv, NativeInv, Fresh, UnusedInv
<1>3. RestoreInv'
    BY DEF RuntimeInv, NativeInv, RestoreInv, Holds, RuntimeTypes, MayBe
<1>4. SavedInv'
    BY DEF RuntimeInv, NativeInv, SavedInv, Holds, Replacing, At
<1>5. ReplaceInv'
    BY DEF RuntimeInv, NativeInv, ReplaceInv, At
<1>6. OneWriter'
    BY DEF RuntimeInv, NativeInv, OneWriter, Holds
<1> QED BY <1>2, <1>3, <1>4, <1>5, <1>6 DEF NativeInv

\* A handler goes on.
LEMMA MovesOn ==
    ASSUME RuntimeInv, NEW r \in Calls, NEW step, NEW o \in MayBe, Step(r, step, o),
           call[r].kind \notin {"none", "start"}, ~At(r, "replacing"),
           step \notin {"idle", "opening", "register", "replacing", "queued"},
           \/ call[r].kind = "borrow" \/ Serves(call[r])
           \/ line # <<>> /\ Head(line) = r /\ ~ReleaseClosing,
           UNCHANGED <<saved, current, harness, native, line, restoring, release, hostLife, answering>>
    PROVE  RuntimeInv'
<1>1. /\ DOMAIN call' = Calls /\ {"kind", "step", "with"} \subseteq DOMAIN call'[r]
      /\ call'[r].kind = call[r].kind /\ call'[r].step = step /\ call'[r].with = o
      /\ \A q \in Calls \ {r} : call'[q] = call[q]
    BY StepEffect
<1>2. CallOK(call'[r])
    BY <1>1 DEF RuntimeInv, RuntimeTypes, CallOK
<1>3. /\ \A q \in Calls : Serves(call'[q]) => Serves(call[q]) \/ (line # <<>> /\ Head(line) = q)
      /\ hostLife' \in {"stopped", "closed"} => \A q \in Calls : call'[q].step = "idle"
    BY <1>1 DEF RuntimeInv, RuntimeTypes, CallOK, HeadInv, Serves, At
<1>4. HeadInv' /\ line' \in Seq(Calls \union {RELEASE})
    BY <1>3, HeadKept
<1>5. RuntimeTypes'
    BY <1>1, <1>2, <1>4 DEF RuntimeInv, RuntimeTypes
<1>6. StartInv'
    BY <1>1, Started, StartKept
<1>7. NativeInv'
    <2>1. \A q \in Calls : /\ call'[q].step = "replacing" <=> At(q, "replacing")
                           /\ At(q, "replacing") => call'[q].with = call[q].with
        BY <1>1 DEF At
    <2> QED BY <2>1, NativeKept DEF Holds
<1>8. ReleaseInv'
    BY <1>1 DEF RuntimeInv, RuntimeTypes, CallOK, ReleaseInv, ReleaseClosing, Admitted, Serves, At
<1> QED BY <1>4, <1>5, <1>6, <1>7, <1>8 DEF RuntimeInv

\* A handler returns.
LEMMA Returns ==
    ASSUME RuntimeInv, NEW r \in Calls, Ends(r), ~At(r, "replacing"),
           call[r].kind = "borrow" \/ Serves(call[r]),
           UNCHANGED <<saved, current, harness, native, restoring, release, hostLife, answering>>
    PROVE  RuntimeInv'
<1>1. /\ DOMAIN call' = Calls /\ \A q \in Calls \ {r} : call'[q] = call[q]
      /\ call'[r].kind = "none" /\ call'[r].step = "idle"
    BY EndsEffect
<1>2. /\ HeadInv' /\ line' \in Seq(Calls \union {RELEASE})
      /\ DOMAIN call' = Calls /\ \A q \in Calls : CallOK(call'[q])
    BY EndsHead
<1>3. RuntimeTypes'
    BY <1>2 DEF RuntimeInv, RuntimeTypes
<1>4. StartInv'
    BY <1>1, Started, StartKept DEF Serves
<1>5. NativeInv'
    <2>1. \A q \in Calls : /\ call'[q].step = "replacing" <=> At(q, "replacing")
                           /\ At(q, "replacing") => call'[q].with = call[q].with
        BY <1>1 DEF At
    <2> QED BY <2>1, NativeKept DEF Holds
<1>6. ReleaseInv'
    BY <1>1 DEF RuntimeInv, ReleaseInv, ReleaseClosing, Admitted, At
<1> QED BY <1>2, <1>3, <1>4, <1>5, <1>6 DEF RuntimeInv

LEMMA HandlerKind ==
    ASSUME RuntimeInv, NEW r \in Calls, call[r].step \notin {"idle", "opening", "register", "queued"}
    PROVE  call[r].kind \notin {"none", "start"} /\ (call[r].kind = "borrow" \/ Serves(call[r]))
BY DEF RuntimeInv, RuntimeTypes, CallOK, Serves, Kinds

LEMMA NewObjectIs == Unused # {} => NewObject \in Objects /\ harness[NewObject] = "unused"
BY DEF NewObject, Unused

LEMMA AdmitStep == ASSUME RuntimeInv, NEW r \in Calls, Admit(r) PROVE RuntimeInv'
<1>1. call[r].kind \notin {"none", "start"} /\ ~At(r, "replacing") /\ NoObject \in MayBe
    BY DEF Admit, RuntimeInv, RuntimeTypes, CallOK, At, MayBe
<1>2. /\ Step(r, "locate", NoObject) /\ line # <<>> /\ Head(line) = r /\ ~ReleaseClosing
      /\ UNCHANGED <<saved, current, harness, native, line, restoring, release, hostLife, answering>>
    BY DEF Admit, Admissible, ObjectsRest
<1>3. PICK step \in {"locate"}, o \in MayBe : step = "locate" /\ o = NoObject
    BY <1>1
<1>4. Step(r, step, o)
    BY <1>2, <1>3
<1> QED BY <1>1, <1>2, <1>3, <1>4, MovesOn

LEMMA LocateStep == ASSUME RuntimeInv, NEW r \in Calls, Locate(r) PROVE RuntimeInv'
<1>1. /\ call[r].kind \notin {"none", "start"} /\ (call[r].kind = "borrow" \/ Serves(call[r]))
      /\ ~At(r, "replacing")
    BY HandlerKind DEF Locate, At
<1>2. /\ NoObject \in MayBe /\ current \in MayBe
      /\ UNCHANGED <<saved, current, harness, native, restoring, release, hostLife, answering>>
    BY DEF Locate, ObjectsRest, MayBe, RuntimeInv, RuntimeTypes
<1>3. CASE Ends(r)
    BY <1>1, <1>2, <1>3, Returns
<1>4. CASE Step(r, "held", current) /\ UNCHANGED line
    <2>1. PICK step \in {"held"}, o \in MayBe : step = "held" /\ o = current
        BY <1>2
    <2>2. Step(r, step, o)
        BY <1>4, <2>1
    <2> QED BY <1>1, <1>2, <1>4, <2>1, <2>2, MovesOn
<1>5. CASE Step(r, "finding", NoObject) /\ UNCHANGED line
    <2>1. PICK step \in {"finding"}, o \in MayBe : step = "finding" /\ o = NoObject
        BY <1>2
    <2>2. Step(r, step, o)
        BY <1>5, <2>1
    <2> QED BY <1>1, <1>2, <1>5, <2>1, <2>2, MovesOn
<1> QED BY <1>3, <1>4, <1>5 DEF Locate

\* A restore is started: nobody writes the saved native Session.
LEMMA RestoreStarts ==
    ASSUME RuntimeInv, NEW r \in Calls, call[r].step = "finding", Unused # {}, saved.state = "ready",
           NeedsRestore(r), restoring' = NewObject, harness' = [harness EXCEPT ![NewObject] = "opening"],
           native' = [native EXCEPT ![NewObject] = saved.native], Step(r, "joined", NoObject),
           UNCHANGED <<saved, current, line, release, hostLife, answering>>
    PROVE  RuntimeInv'
<1>1. PICK n \in Objects : n = NewObject /\ harness[n] = "unused" /\ n # NoObject
    BY NewObjectIs, RuntimeConstants DEF Objects
<1>2. /\ restoring = NoObject /\ current = NoObject /\ restoring' = n
      /\ harness' \in [Objects -> {"unused", "opening", "open", "closing", "closed"}]
      /\ native' \in [Objects -> Nat] /\ saved.native \in Nat
      /\ harness'[n] = "opening" /\ native'[n] = saved.native
      /\ \A p \in Objects \ {n} : harness'[p] = harness[p] /\ native'[p] = native[p]
    BY <1>1 DEF NeedsRestore, RuntimeInv, RuntimeTypes
<1>3. /\ DOMAIN call' = Calls /\ {"kind", "step", "with"} \subseteq DOMAIN call'[r]
      /\ call'[r].kind = call[r].kind /\ call'[r].step = "joined" /\ call'[r].with = NoObject
      /\ \A q \in Calls \ {r} : call'[q] = call[q]
    BY StepEffect
<1>4. /\ call[r].kind \notin {"none", "start"} /\ (call[r].kind = "borrow" \/ Serves(call[r]))
    BY HandlerKind
<1>5. \A q \in Calls : CallOK(call'[q])
    BY <1>3, <1>4 DEF RuntimeInv, RuntimeTypes, CallOK, MayBe
<1>6. HeadInv' /\ line' \in Seq(Calls \union {RELEASE})
    <2>1. /\ \A q \in Calls : Serves(call'[q]) => Serves(call[q])
          /\ hostLife' \in {"stopped", "closed"} => \A q \in Calls : call'[q].step = "idle"
        BY <1>3, <1>4 DEF RuntimeInv, HeadInv, Serves, At
    <2> QED BY <2>1, HeadKept
<1>7. RuntimeTypes'
    BY <1>2, <1>3, <1>5, <1>6 DEF RuntimeInv, RuntimeTypes, MayBe
<1>8. StartInv'
    BY <1>3, <1>4, Started, StartKept
<1>9. \A q \in Calls : ~At(q, "replacing") /\ call'[q].step # "replacing"
    BY <1>2, <1>3 DEF RuntimeInv, NativeInv, ReplaceInv, At
<1>10. \A p \in Objects : harness[p] \in {"open", "closing"} => native[p] # saved.native
    BY <1>2, <1>9, RuntimeConstants DEF RuntimeInv, NativeInv, SavedInv, Replacing, Holds, Objects
<1>11. NativeInv'
    <2>1. native[n] = 0 /\ Natives' \ {0} = Natives \ {0}
        BY <1>1, <1>2 DEF RuntimeInv, NativeInv, UnusedInv, Natives
    <2>2. Fresh' /\ UnusedInv'
        BY <1>2, <2>1 DEF RuntimeInv, NativeInv, Fresh, UnusedInv
    <2>3. RestoreInv' /\ SavedInv'
        BY <1>2, <1>10 DEF RestoreInv, SavedInv, Holds
    <2>4. ReplaceInv'
        BY <1>2, <1>9 DEF ReplaceInv, At
    <2>5. OneWriter'
        BY <1>2 DEF RuntimeInv, NativeInv, OneWriter
    <2> QED BY <2>2, <2>3, <2>4, <2>5 DEF NativeInv
<1>12. ReleaseInv'
    BY <1>3, <1>4 DEF RuntimeInv, ReleaseInv, ReleaseClosing, Admitted, Serves, At
<1> QED BY <1>6, <1>7, <1>8, <1>11, <1>12 DEF RuntimeInv

LEMMA FindStep == ASSUME RuntimeInv, NEW r \in Calls, Find(r) PROVE RuntimeInv'
<1>1. /\ call[r].kind \notin {"none", "start"} /\ (call[r].kind = "borrow" \/ Serves(call[r]))
      /\ ~At(r, "replacing") /\ call[r].step = "finding"
    BY HandlerKind DEF Find, At
<1>2. /\ NoObject \in MayBe /\ current \in MayBe
      /\ UNCHANGED <<saved, current, release, hostLife, answering>>
    BY DEF Find, MayBe, RuntimeInv, RuntimeTypes
<1>3. CASE Ends(r) /\ UNCHANGED <<restoring, harness, native>>
    BY <1>1, <1>2, <1>3, Returns
<1>4. CASE /\ ~(saved.state # "ready" \/ (NeedsRestore(r) /\ Unused = {})) /\ UNCHANGED line
           /\ NeedsRestore(r) /\ restoring' = NewObject
           /\ harness' = [harness EXCEPT ![NewObject] = "opening"]
           /\ native' = [native EXCEPT ![NewObject] = saved.native]
           /\ Step(r, "joined", NoObject)
    BY <1>1, <1>2, <1>4, RestoreStarts
<1>5. ASSUME NEW step \in {"held", "joined"}, NEW o \in MayBe, Step(r, step, o),
             UNCHANGED <<restoring, harness, native, line>>
      PROVE  RuntimeInv'
    BY <1>1, <1>2, <1>5, MovesOn
<1>6. CASE /\ UNCHANGED <<restoring, harness, native, line>>
           /\ CASE call[r].kind = "delete" -> Step(r, "held", NoObject)
                [] call[r].kind # "delete" /\ restoring # NoObject -> Step(r, "joined", NoObject)
                [] OTHER -> Step(r, "held", current)
    <2>1. \/ Step(r, "held", NoObject) \/ Step(r, "joined", NoObject) \/ Step(r, "held", current)
        BY <1>6
    <2> QED BY <1>2, <1>5, <1>6, <2>1
<1> QED BY <1>3, <1>4, <1>6 DEF Find

LEMMA RefuseStep == ASSUME RuntimeInv, NEW r \in Calls, Refuse(r) PROVE RuntimeInv'
BY HandlerKind, Returns DEF Refuse, At, ObjectsRest

LEMMA UseStep == ASSUME RuntimeInv, NEW r \in Calls, Use(r) PROVE RuntimeInv'
BY HandlerKind, Returns DEF Use, At

LEMMA DeleteEndsStep == ASSUME RuntimeInv, NEW r \in Calls, DeleteEnds(r) PROVE RuntimeInv'
BY HandlerKind, Returns DEF DeleteEnds, At, ObjectsRest

LEMMA ReceiveStep == ASSUME RuntimeInv, NEW r \in Calls, Receive(r) PROVE RuntimeInv'
<1>1. PICK k \in RequestKinds :
        /\ call' = [call EXCEPT ![r] = [kind |-> k, with |-> NoObject,
                                        step |-> IF k = "borrow" THEN "locate" ELSE "queued"]]
        /\ line' = IF k = "borrow" THEN line ELSE Append(line, r)
    BY DEF Receive
<1>2. PICK step : step = IF k = "borrow" THEN "locate" ELSE "queued"
    OBVIOUS
<1>3. /\ At(r, "idle") /\ hostLife = "open" /\ saved.native # 0 /\ \A q \in Calls : call[q].kind # "start"
      /\ UNCHANGED <<saved, current, harness, native, restoring, release, hostLife, answering>>
    BY DEF Receive, ObjectsRest
<1>4. /\ DOMAIN call' = Calls /\ {"kind", "step", "with"} \subseteq DOMAIN call'[r]
      /\ call'[r].kind = k /\ call'[r].step = step /\ call'[r].with = NoObject
      /\ \A q \in Calls \ {r} : call'[q] = call[q]
    BY <1>1, <1>2 DEF RuntimeInv, RuntimeTypes
<1>5. k \in {"use", "rollback", "delete", "borrow"} /\ ~Serves(call'[r])
    BY <1>2, <1>4, RuntimeConstants DEF Serves
<1>6. \A q \in Calls : CallOK(call'[q])
    BY <1>2, <1>4, <1>5 DEF RuntimeInv, RuntimeTypes, CallOK, MayBe, Kinds
<1>7. HeadInv' /\ line' \in Seq(Calls \union {RELEASE})
    <2>1. \A q \in Calls : Serves(call'[q]) => Serves(call[q])
        BY <1>4, <1>5
    <2> QED BY <1>1, <1>3, <2>1, HeadKept
<1>8. RuntimeTypes'
    BY <1>3, <1>4, <1>6, <1>7 DEF RuntimeInv, RuntimeTypes
<1>9. StartInv'
    BY <1>3, <1>4, <1>5, StartKept
<1>10. NativeInv'
    <2>1. \A q \in Calls : /\ call'[q].step = "replacing" <=> At(q, "replacing")
                           /\ At(q, "replacing") => call'[q].with = call[q].with
        BY <1>2, <1>3, <1>4 DEF At
    <2> QED BY <1>3, <2>1, NativeKept DEF Holds
<1>11. ReleaseInv'
    BY <1>2, <1>3, <1>4, <1>5 DEF RuntimeInv, ReleaseInv, ReleaseClosing, Admitted, At
<1> QED BY <1>7, <1>8, <1>9, <1>10, <1>11 DEF RuntimeInv

(***************************************************************************)
(* The start                                                                *)
(***************************************************************************)
LEMMA StartThreadStep == ASSUME RuntimeInv, NEW r \in Calls, StartThread(r) PROVE RuntimeInv'
<1>1. PICK n \in Objects : n = NewObject /\ harness[n] = "unused" /\ n # NoObject
    BY NewObjectIs, RuntimeConstants DEF Objects, StartThread
<1>2. /\ hostLife = "open" /\ At(r, "idle") /\ saved.native = 0
      /\ saved' = [state |-> "provisional", native |-> 1]
      /\ call' = [call EXCEPT ![r] = [kind |-> "start", step |-> "opening", with |-> n]]
      /\ harness' = [harness EXCEPT ![n] = "opening"]
      /\ UNCHANGED <<current, native, line, restoring, release, hostLife, answering>>
    BY <1>1 DEF StartThread
<1>3. /\ DOMAIN call' = Calls /\ {"kind", "step", "with"} \subseteq DOMAIN call'[r]
      /\ call'[r].kind = "start" /\ call'[r].step = "opening" /\ call'[r].with = n
      /\ \A q \in Calls \ {r} : call'[q] = call[q]
    BY <1>2 DEF RuntimeInv, RuntimeTypes
<1>4. /\ \A q \in Calls : CallOK(call'[q])
      /\ harness' \in [Objects -> {"unused", "opening", "open", "closing", "closed"}]
      /\ harness'[n] = "opening" /\ \A p \in Objects \ {n} : harness'[p] = harness[p]
    BY <1>1, <1>2, <1>3 DEF RuntimeInv, RuntimeTypes, CallOK, MayBe, Kinds
<1>5. /\ saved'.native = 1 /\ saved'.state = "provisional" /\ {"state", "native"} \subseteq DOMAIN saved'
    BY <1>2
<1>6. /\ current = NoObject /\ restoring = NoObject /\ \A q \in Calls : At(q, "idle")
      /\ \A o \in Objects : harness[o] = "unused"
    BY <1>2 DEF RuntimeInv, StartInv
<1>7. HeadInv' /\ line' \in Seq(Calls \union {RELEASE})
    <2>1. \A q \in Calls : Serves(call'[q]) => Serves(call[q])
        BY <1>3 DEF Serves
    <2> QED BY <1>2, <2>1, HeadKept
<1>8. RuntimeTypes'
    BY <1>2, <1>3, <1>4, <1>5, <1>7 DEF RuntimeInv, RuntimeTypes
<1>9. StartInv'
    <2>1. \A q \in Calls : call'[q].kind = "start" => q = r
        BY <1>3, <1>6 DEF RuntimeInv, RuntimeTypes, CallOK, At
    <2> QED BY <1>2, <1>3, <1>4, <1>5, <1>6, <2>1 DEF StartInv, At
<1>10. NativeInv'
    <2>1. \A o \in Objects : native[o] = 0
        BY <1>6 DEF RuntimeInv, NativeInv, UnusedInv
    <2>2. Natives' = {1} \union {0} /\ 1..1 = {1} /\ 1 \in Nat
        BY <1>1, <1>2, <1>5, <2>1 DEF Natives
    <2>3. Natives' \ {0} = 1..1
        BY <2>2
    <2>4. Fresh'
        BY <2>2, <2>3 DEF Fresh
    <2>5. /\ \A o \in Objects : harness'[o] \notin {"open", "closing"}
          /\ \A q \in Calls : call'[q].step # "replacing"
        BY <1>3, <1>4, <1>6 DEF At
    <2> QED BY <1>2, <1>5, <1>6, <2>1, <2>4, <2>5 DEF NativeInv, UnusedInv, RestoreInv, SavedInv, ReplaceInv, OneWriter, Holds, At
<1>11. ReleaseInv'
    BY <1>2 DEF RuntimeInv, ReleaseInv, ReleaseClosing
<1> QED BY <1>7, <1>8, <1>9, <1>10, <1>11 DEF RuntimeInv

\* While the Thread is started there is nothing else.
LEMMA StartingAlone ==
    ASSUME RuntimeInv, NEW r \in Calls, call[r].kind = "start"
    PROVE  /\ saved.state = "provisional" /\ saved.native = 1
           /\ current = NoObject /\ restoring = NoObject
           /\ \A q \in Calls \ {r} : At(q, "idle")
           /\ \A q \in Calls : call[q].step # "replacing"
           /\ call[r].with \in Objects /\ call[r].with # NoObject
           /\ \A o \in Objects \ {call[r].with} : harness[o] = "unused" /\ native[o] = 0
           /\ At(r, "register") => native[call[r].with] = 1
           /\ ~ReleaseClosing
<1>1. /\ saved.state = "provisional" /\ saved.native = 1
      /\ current = NoObject /\ restoring = NoObject
      /\ \A q \in Calls \ {r} : At(q, "idle")
      /\ \A o \in Objects \ {call[r].with} : harness[o] = "unused"
      /\ At(r, "register") => native[call[r].with] = 1
    BY DEF RuntimeInv, StartInv
<1>2. call[r].with \in Objects /\ call[r].with # NoObject /\ call[r].step \in {"opening", "register"}
    BY RuntimeConstants DEF RuntimeInv, RuntimeTypes, CallOK, Objects
<1>3. ~ReleaseClosing
    BY <1>2 DEF RuntimeInv, ReleaseInv, Admitted, At
<1> QED BY <1>1, <1>2, <1>3 DEF RuntimeInv, NativeInv, UnusedInv, At

LEMMA StartOpensStep == ASSUME RuntimeInv, NEW r \in Calls, StartOpens(r) PROVE RuntimeInv'
<1>1. PICK o : o = call[r].with
    OBVIOUS
<1>2. /\ call[r].kind = "start" /\ At(r, "opening")
      /\ UNCHANGED <<current, restoring, release, hostLife, answering>>
      /\ \/ /\ harness' = [harness EXCEPT ![o] = "open"] /\ native' = [native EXCEPT ![o] = 1]
            /\ Step(r, "register", o) /\ UNCHANGED <<saved, line>>
         \/ /\ harness' = [harness EXCEPT ![o] = "closed"]
            /\ saved' = [saved EXCEPT !.state = "none"] /\ Ends(r) /\ UNCHANGED native
    BY <1>1 DEF StartOpens
<1>3. /\ saved.state = "provisional" /\ saved.native = 1 /\ current = NoObject /\ restoring = NoObject
      /\ \A q \in Calls \ {r} : At(q, "idle")
      /\ \A q \in Calls : call[q].step # "replacing"
      /\ o \in Objects /\ o # NoObject
      /\ \A p \in Objects \ {o} : harness[p] = "unused" /\ native[p] = 0
      /\ ~ReleaseClosing
    BY <1>1, <1>2, StartingAlone
<1>4. ReleaseInv'
    BY <1>2, <1>3 DEF ReleaseInv, ReleaseClosing
<1>5. CASE /\ harness' = [harness EXCEPT ![o] = "open"] /\ native' = [native EXCEPT ![o] = 1]
           /\ Step(r, "register", o) /\ UNCHANGED <<saved, line>>
    <2>1. /\ DOMAIN call' = Calls /\ {"kind", "step", "with"} \subseteq DOMAIN call'[r]
          /\ call'[r].kind = call[r].kind /\ call'[r].step = "register" /\ call'[r].with = o
          /\ \A q \in Calls \ {r} : call'[q] = call[q]
        BY <1>5, StepEffect
    <2>2. /\ harness' \in [Objects -> {"unused", "opening", "open", "closing", "closed"}]
          /\ native' \in [Objects -> Nat] /\ harness'[o] = "open" /\ native'[o] = 1
          /\ \A p \in Objects \ {o} : harness'[p] = harness[p] /\ native'[p] = native[p]
        BY <1>3, <1>5 DEF RuntimeInv, RuntimeTypes
    <2>3. \A q \in Calls : CallOK(call'[q])
        <3>1. \A q \in Calls : CallOK(call[q])
            BY DEF RuntimeInv, RuntimeTypes
        <3>2. CallOK(call'[r])
            BY <1>2, <1>3, <2>1, <3>1 DEF CallOK, MayBe
        <3> QED BY <2>1, <3>1, <3>2
    <2>4. HeadInv' /\ line' \in Seq(Calls \union {RELEASE})
        <3>1. \A q \in Calls : Serves(call'[q]) => Serves(call[q])
            BY <1>2, <2>1 DEF Serves
        <3>2. hostLife' \in {"stopped", "closed"} => \A q \in Calls : call'[q].step = "idle"
            BY <1>2 DEF RuntimeInv, HeadInv, At
        <3> QED BY <1>2, <1>5, <3>1, <3>2, HeadKept
    <2>5. RuntimeTypes'
        BY <1>2, <1>5, <2>1, <2>2, <2>3, <2>4 DEF RuntimeInv, RuntimeTypes
    <2>6. StartInv'
        <3>1. \A q \in Calls : call'[q].kind = "start" => q = r
            BY <1>3, <2>1 DEF RuntimeInv, RuntimeTypes, CallOK, At
        <3> QED BY <1>2, <1>3, <1>5, <2>1, <2>2, <3>1 DEF StartInv, At
    <2>7. NativeInv'
        <3>1. \A x : x \in Natives' \ {0} <=> x = 1
            BY <1>3, <1>5, <2>2 DEF Natives
        <3>2. \A x : x \in 1..1 <=> x = 1
            OBVIOUS
        <3>3. Fresh'
            <4>1. Natives' \ {0} = 1..1 /\ 1 \in Nat
                BY <3>1, <3>2
            <4> QED BY <4>1 DEF Fresh
        <3>4. \A q \in Calls : call'[q].step # "replacing"
            BY <1>3, <2>1
        <3>5. UnusedInv' /\ RestoreInv' /\ SavedInv' /\ ReplaceInv'
            BY <1>2, <1>3, <1>5, <2>2, <3>4 DEF UnusedInv, RestoreInv, SavedInv, ReplaceInv, At
        <3>6. OneWriter'
            BY <1>3, <2>2 DEF OneWriter
        <3> QED BY <3>3, <3>5, <3>6 DEF NativeInv
    <2> QED BY <1>4, <2>4, <2>5, <2>6, <2>7 DEF RuntimeInv
<1>6. CASE /\ harness' = [harness EXCEPT ![o] = "closed"]
           /\ saved' = [saved EXCEPT !.state = "none"] /\ Ends(r) /\ UNCHANGED native
    <2>1. /\ DOMAIN call' = Calls /\ \A q \in Calls \ {r} : call'[q] = call[q]
          /\ call'[r].kind = "none" /\ call'[r].step = "idle"
        BY <1>6, EndsEffect
    <2>2. /\ harness' \in [Objects -> {"unused", "opening", "open", "closing", "closed"}]
          /\ harness'[o] = "closed" /\ \A p \in Objects \ {o} : harness'[p] = harness[p]
        BY <1>3, <1>6 DEF RuntimeInv, RuntimeTypes
    <2>3. /\ saved'.native = 1 /\ saved'.state = "none" /\ {"state", "native"} \subseteq DOMAIN saved'
        BY <1>3, <1>6 DEF RuntimeInv, RuntimeTypes
    <2>4. /\ HeadInv' /\ line' \in Seq(Calls \union {RELEASE}) /\ \A q \in Calls : CallOK(call'[q])
        BY <1>2, <1>6, EndsHead
    <2>5. RuntimeTypes'
        BY <1>2, <1>6, <2>1, <2>2, <2>3, <2>4 DEF RuntimeInv, RuntimeTypes
    <2>6. \A q \in Calls : call'[q].kind = "none" /\ call'[q].step = "idle"
        BY <1>3, <2>1 DEF RuntimeInv, RuntimeTypes, CallOK, At
    <2>7. StartInv'
        BY <2>3, <2>6, StartKept
    <2>8. NativeInv'
        <3>1. \A p \in Objects : harness'[p] \in {"open", "closing"} => Holds(p)
            BY <2>2 DEF Holds
        <3>2. \A p \in Objects : harness'[p] = "unused" => harness[p] = "unused"
            BY <2>2
        <3> QED BY <1>2, <1>3, <1>6, <2>3, <2>6, <3>1, <3>2, NativeKept DEF At
    <2> QED BY <1>4, <2>4, <2>5, <2>7, <2>8 DEF RuntimeInv
<1> QED BY <1>2, <1>5, <1>6

LEMMA StartRegistersStep == ASSUME RuntimeInv, NEW r \in Calls, StartRegisters(r) PROVE RuntimeInv'
<1>1. PICK o : o = call[r].with
    OBVIOUS
<1>2. /\ call[r].kind = "start" /\ At(r, "register") /\ Ends(r)
      /\ UNCHANGED <<native, restoring, release, hostLife, answering>>
      /\ \/ /\ saved' = [saved EXCEPT !.state = "ready"] /\ current' = o /\ UNCHANGED harness
         \/ /\ saved' = [saved EXCEPT !.state = "none"]
            /\ harness' = [harness EXCEPT ![o] = "closed"] /\ UNCHANGED current
    BY <1>1 DEF StartRegisters
<1>3. /\ saved.state = "provisional" /\ saved.native = 1 /\ current = NoObject /\ restoring = NoObject
      /\ \A q \in Calls \ {r} : At(q, "idle")
      /\ \A q \in Calls : call[q].step # "replacing"
      /\ o \in Objects /\ o # NoObject
      /\ \A p \in Objects \ {o} : harness[p] = "unused" /\ native[p] = 0
      /\ native[o] = 1 /\ ~ReleaseClosing
    BY <1>1, <1>2, StartingAlone
<1>4. ReleaseInv'
    BY <1>2, <1>3 DEF ReleaseInv, ReleaseClosing
<1>5. /\ DOMAIN call' = Calls /\ \A q \in Calls \ {r} : call'[q] = call[q]
      /\ call'[r].kind = "none" /\ call'[r].step = "idle"
    BY <1>2, EndsEffect
<1>6. /\ HeadInv' /\ line' \in Seq(Calls \union {RELEASE}) /\ \A q \in Calls : CallOK(call'[q])
    BY <1>2, EndsHead
<1>7. \A q \in Calls : call'[q].kind = "none" /\ call'[q].step = "idle"
    BY <1>3, <1>5 DEF RuntimeInv, RuntimeTypes, CallOK, At
<1>8. saved'.native = 1 /\ {"state", "native"} \subseteq DOMAIN saved'
    BY <1>2, <1>3 DEF RuntimeInv, RuntimeTypes
<1>9. StartInv'
    BY <1>7, <1>8, StartKept
<1>10. CASE /\ saved' = [saved EXCEPT !.state = "ready"] /\ current' = o /\ UNCHANGED harness
    <2>1. RuntimeTypes'
        BY <1>2, <1>3, <1>5, <1>6, <1>8, <1>10 DEF RuntimeInv, RuntimeTypes, MayBe
    <2>2. Natives' = Natives
        BY <1>2, <1>3, <1>8 DEF Natives
    <2>3. NativeInv'
        BY <1>2, <1>3, <1>7, <1>8, <1>10, <2>2
           DEF RuntimeInv, NativeInv, Fresh, UnusedInv, RestoreInv, SavedInv, ReplaceInv, OneWriter, Holds, At
    <2> QED BY <1>4, <1>6, <1>9, <2>1, <2>3 DEF RuntimeInv
<1>11. CASE /\ saved' = [saved EXCEPT !.state = "none"]
            /\ harness' = [harness EXCEPT ![o] = "closed"] /\ UNCHANGED current
    <2>1. /\ harness' \in [Objects -> {"unused", "opening", "open", "closing", "closed"}]
          /\ harness'[o] = "closed" /\ \A p \in Objects \ {o} : harness'[p] = harness[p]
          /\ saved'.state = "none"
        BY <1>3, <1>11 DEF RuntimeInv, RuntimeTypes
    <2>2. RuntimeTypes'
        BY <1>2, <1>3, <1>5, <1>6, <1>8, <1>11, <2>1 DEF RuntimeInv, RuntimeTypes
    <2>3. NativeInv'
        <3>1. \A p \in Objects : harness'[p] \in {"open", "closing"} => Holds(p)
            BY <2>1 DEF Holds
        <3>2. \A p \in Objects : harness'[p] = "unused" => harness[p] = "unused"
            BY <2>1
        <3> QED BY <1>2, <1>3, <1>7, <1>8, <1>11, <2>1, <3>1, <3>2, NativeKept DEF At
    <2> QED BY <1>4, <1>6, <1>9, <2>2, <2>3 DEF RuntimeInv
<1> QED BY <1>2, <1>10, <1>11

(***************************************************************************)
(* The restore                                                              *)
(***************************************************************************)
LEMMA RestoreOpensStep == ASSUME RuntimeInv, RestoreOpens PROVE RuntimeInv'
<1>1. /\ restoring # NoObject /\ harness' = [harness EXCEPT ![restoring] = "open"]
      /\ UNCHANGED <<saved, current, native, answering, line, call, restoring, release, hostLife>>
    BY DEF RestoreOpens
<1>2. PICK o \in Objects : o = restoring
    BY <1>1 DEF RuntimeInv, RuntimeTypes, MayBe
<1>3. /\ harness' \in [Objects -> {"unused", "opening", "open", "closing", "closed"}]
      /\ harness'[o] = "open" /\ \A p \in Objects \ {o} : harness'[p] = harness[p]
    BY <1>1, <1>2 DEF RuntimeInv, RuntimeTypes
<1>4. RuntimeTypes' /\ HeadInv' /\ ReleaseInv'
    BY <1>1, <1>3 DEF RuntimeInv, RuntimeTypes, HeadInv, ReleaseInv, ReleaseClosing, Admitted, At
<1>5. StartInv'
    BY <1>1, <1>2 DEF RuntimeInv, StartInv, At
<1>6. /\ current = NoObject /\ native[o] = saved.native
      /\ \A p \in Objects : Holds(p) /\ native[p] = native[o] => p = o
    BY <1>1, <1>2 DEF RuntimeInv, NativeInv, RestoreInv
<1>7. Fresh' /\ UnusedInv' /\ ReplaceInv'
    BY <1>1, <1>3 DEF RuntimeInv, NativeInv, Fresh, UnusedInv, ReplaceInv, Natives, At
<1>8. \A p \in Objects : harness'[p] \in {"open", "closing"} => p = o \/ Holds(p)
    BY <1>3 DEF Holds
<1>9. RestoreInv' /\ SavedInv' /\ OneWriter'
    BY <1>1, <1>2, <1>3, <1>6, <1>8 DEF RuntimeInv, NativeInv, RestoreInv, SavedInv, OneWriter, Holds, Replacing, At
<1> QED BY <1>4, <1>5, <1>7, <1>9 DEF RuntimeInv, NativeInv

\* Those who joined go on with the object, or without.
LEMMA JoinedEffect ==
    ASSUME RuntimeInv, NEW o \in MayBe, call' = Joined(o), restoring # NoObject,
           UNCHANGED <<line, release, hostLife>>
    PROVE  /\ DOMAIN call' = Calls
           /\ \A q \in Calls : /\ CallOK(call'[q]) /\ call'[q].kind = call[q].kind
                               /\ call'[q].step = "replacing" <=> At(q, "replacing")
                               /\ At(q, "replacing") => call'[q].with = call[q].with
                               /\ call'[q].kind # "start"
                               /\ call[q].kind # "borrow" /\ call'[q].step \notin {"idle", "queued"} =>
                                    Admitted(q)
           /\ HeadInv' /\ line' \in Seq(Calls \union {RELEASE}) /\ saved.native # 0
<1>1. /\ DOMAIN call' = Calls
      /\ \A q \in Calls : IF call[q].step = "joined"
                          THEN call'[q] = [call[q] EXCEPT !.step = "held", !.with = o]
                          ELSE call'[q] = call[q]
    BY DEF Joined, At
<1>2. /\ \A q \in Calls : CallOK(call[q]) /\ call[q].kind # "start"
      /\ saved.native # 0
    BY DEF RuntimeInv, RuntimeTypes, StartInv
<1>3. ASSUME NEW q \in Calls
      PROVE  /\ CallOK(call'[q]) /\ call'[q].kind = call[q].kind
             /\ call'[q].step = "replacing" <=> At(q, "replacing")
             /\ At(q, "replacing") => call'[q].with = call[q].with
             /\ call'[q].kind # "start"
             /\ call'[q].step = "idle" <=> At(q, "idle")
             /\ call'[q].step = "queued" <=> At(q, "queued")
    <2>1. CASE call[q].step = "joined"
        <3>1. /\ {"kind", "step", "with"} \subseteq DOMAIN call'[q] /\ call'[q].kind = call[q].kind
              /\ call'[q].step = "held" /\ call'[q].with = o
            BY <1>1, <1>2, <2>1 DEF CallOK
        <3> QED BY <1>2, <2>1, <3>1 DEF CallOK, At
    <2>2. CASE call[q].step # "joined"
        BY <1>1, <1>2, <2>2 DEF At
    <2> QED BY <2>1, <2>2
<1>4. HeadInv' /\ line' \in Seq(Calls \union {RELEASE})
    <2>1. \A q \in Calls : Serves(call'[q]) => Serves(call[q])
        BY <1>3 DEF Serves, At
    <2>2. hostLife' \in {"stopped", "closed"} => \A q \in Calls : call'[q].step = "idle"
        BY <1>3 DEF RuntimeInv, HeadInv
    <2> QED BY <2>1, <2>2, HeadKept
<1> QED BY <1>1, <1>2, <1>3, <1>4 DEF Admitted

LEMMA RestoreGivesUpStep == ASSUME RuntimeInv, RestoreGivesUp PROVE RuntimeInv'
<1>1. /\ restoring # NoObject /\ harness' = [harness EXCEPT ![restoring] = "closed"]
      /\ call' = Joined(NoObject) /\ restoring' = NoObject
      /\ UNCHANGED <<saved, current, native, answering, line, release, hostLife>>
    BY DEF RestoreGivesUp, ClosedAfterFailure
<1>2. PICK o \in Objects : o = restoring
    BY <1>1 DEF RuntimeInv, RuntimeTypes, MayBe
<1>3. /\ harness' \in [Objects -> {"unused", "opening", "open", "closing", "closed"}]
      /\ harness'[o] = "closed" /\ \A p \in Objects \ {o} : harness'[p] = harness[p]
    BY <1>1, <1>2 DEF RuntimeInv, RuntimeTypes
<1>4. PICK x \in MayBe : x = NoObject
    BY DEF MayBe
<1>5. call' = Joined(x)
    BY <1>1, <1>4
<1>6. /\ DOMAIN call' = Calls
      /\ \A q \in Calls : /\ CallOK(call'[q]) /\ call'[q].kind = call[q].kind
                          /\ call'[q].step = "replacing" <=> At(q, "replacing")
                          /\ At(q, "replacing") => call'[q].with = call[q].with
                          /\ call'[q].kind # "start"
                          /\ call[q].kind # "borrow" /\ call'[q].step \notin {"idle", "queued"} => Admitted(q)
      /\ HeadInv' /\ line' \in Seq(Calls \union {RELEASE}) /\ saved.native # 0
    BY <1>1, <1>5, JoinedEffect
<1>7. RuntimeTypes'
    BY <1>1, <1>3, <1>6 DEF RuntimeInv, RuntimeTypes, MayBe
<1>8. StartInv'
    BY <1>1, <1>6, StartKept
<1>9. ReleaseInv'
    BY <1>1, <1>6 DEF RuntimeInv, ReleaseInv, ReleaseClosing, Admitted, At
<1>10. Fresh' /\ UnusedInv' /\ RestoreInv' /\ OneWriter'
    BY <1>1, <1>3 DEF RuntimeInv, NativeInv, Fresh, UnusedInv, RestoreInv, OneWriter, Natives
<1>11. SavedInv' /\ ReplaceInv'
    BY <1>1, <1>2, <1>3, <1>6 DEF RuntimeInv, NativeInv, SavedInv, ReplaceInv, Holds, Replacing, At
<1> QED BY <1>6, <1>7, <1>8, <1>9, <1>10, <1>11 DEF RuntimeInv, NativeInv

LEMMA RestoreRegistersStep == ASSUME RuntimeInv, RestoreRegisters PROVE RuntimeInv'
<1>1. /\ restoring # NoObject /\ current' = restoring /\ call' = Joined(restoring) /\ restoring' = NoObject
      /\ UNCHANGED <<saved, harness, native, answering, line, release, hostLife>>
    BY DEF RestoreRegisters, ObjectsRest
<1>2. PICK o \in Objects : o = restoring /\ o \in MayBe
    BY <1>1 DEF RuntimeInv, RuntimeTypes, MayBe
<1>3. call' = Joined(o)
    BY <1>1, <1>2
<1>4. /\ DOMAIN call' = Calls
      /\ \A q \in Calls : /\ CallOK(call'[q]) /\ call'[q].kind = call[q].kind
                          /\ call'[q].step = "replacing" <=> At(q, "replacing")
                          /\ At(q, "replacing") => call'[q].with = call[q].with
                          /\ call'[q].kind # "start"
                          /\ call[q].kind # "borrow" /\ call'[q].step \notin {"idle", "queued"} => Admitted(q)
      /\ HeadInv' /\ line' \in Seq(Calls \union {RELEASE}) /\ saved.native # 0
    BY <1>1, <1>2, <1>3, JoinedEffect
<1>5. RuntimeTypes'
    BY <1>1, <1>2, <1>4 DEF RuntimeInv, RuntimeTypes, MayBe
<1>6. StartInv'
    BY <1>1, <1>4, StartKept
<1>7. ReleaseInv'
    BY <1>1, <1>4 DEF RuntimeInv, ReleaseInv, ReleaseClosing, Admitted, At
<1>8. /\ current = NoObject /\ native[o] = saved.native
      /\ \A q \in Calls : ~At(q, "replacing") /\ call'[q].step # "replacing"
    BY <1>1, <1>2, <1>4 DEF RuntimeInv, NativeInv, RestoreInv, ReplaceInv
<1>9. Fresh' /\ UnusedInv' /\ RestoreInv' /\ OneWriter'
    BY <1>1 DEF RuntimeInv, NativeInv, Fresh, UnusedInv, RestoreInv, OneWriter, Natives
<1>10. SavedInv' /\ ReplaceInv'
    BY <1>1, <1>2, <1>8, RuntimeConstants
       DEF RuntimeInv, NativeInv, SavedInv, ReplaceInv, Holds, Replacing, At, Objects
<1> QED BY <1>4, <1>5, <1>6, <1>7, <1>9, <1>10 DEF RuntimeInv, NativeInv

(***************************************************************************)
(* The replacement and the removal                                          *)
(***************************************************************************)
LEMMA NewNativeIs ==
    ASSUME RuntimeInv
    PROVE  \E k \in Nat : /\ Natives \ {0} = 1..k /\ NewNative = k + 1
                          /\ saved.native # k + 1 /\ \A o \in Objects : native[o] # k + 1
<1>1. PICK k \in Nat : Natives \ {0} = 1..k
    BY DEF RuntimeInv, NativeInv, Fresh
<1>2. Cardinality(1..k) = k
    BY <1>1, FS_Interval
<1>3. NewNative = k + 1
    BY <1>1, <1>2 DEF NewNative
<1>4. saved.native \in Natives /\ \A o \in Objects : native[o] \in Natives
    BY DEF Natives
<1>5. k + 1 \notin Natives
    BY <1>1
<1> QED BY <1>1, <1>3, <1>4, <1>5

\* The replacement writes a new native Session, and the old object goes.
LEMMA RollbackStep == ASSUME RuntimeInv, NEW r \in Calls, RollbackOpens(r) PROVE RuntimeInv'
<1>1. /\ call[r].kind \notin {"none", "start"} /\ Serves(call[r]) /\ ~At(r, "replacing")
      /\ call[r].kind = "rollback" /\ call[r].step = "held"
    BY HandlerKind DEF RollbackOpens, At
<1>2. CASE Ends(r) /\ UNCHANGED <<saved, harness, native>>
    BY <1>1, <1>2, Returns DEF RollbackOpens
<1>3. CASE /\ Unused # {} /\ NewNative <= MaxNatives
           /\ Replaceable(call[r].with) /\ saved.state = "ready"
           /\ harness' = [harness EXCEPT ![NewObject] = "open", ![call[r].with] = "closing"]
           /\ native' = [native EXCEPT ![NewObject] = NewNative]
           /\ saved' = [saved EXCEPT !.native = NewNative]
           /\ Step(r, "replacing", NewObject) /\ UNCHANGED line
    <2>1. PICK n \in Objects : n = NewObject /\ harness[n] = "unused" /\ n # NoObject
        BY <1>3, NewObjectIs, RuntimeConstants DEF Objects
    <2>2. PICK k \in Nat : /\ Natives \ {0} = 1..k /\ NewNative = k + 1
                           /\ saved.native # k + 1 /\ \A o \in Objects : native[o] # k + 1
        BY NewNativeIs
    <2>3. PICK m \in Nat : m = k + 1 /\ m # 0
        BY <2>2
    <2>4. PICK o : o = call[r].with
        OBVIOUS
    <2>5. /\ current = o /\ o # NoObject /\ o \in Objects /\ saved.state = "ready"
          /\ UNCHANGED <<current, restoring, release, hostLife, answering>>
        BY <1>3, <2>4 DEF RollbackOpens, Replaceable, RuntimeInv, RuntimeTypes, MayBe
    <2>6. /\ restoring = NoObject /\ line # <<>> /\ Head(line) = r
          /\ \A q \in Calls : Serves(call[q]) => q = r
        BY <1>1, <2>5 DEF RuntimeInv, HeadInv, NativeInv, RestoreInv
    <2>7. \A q \in Calls : ~At(q, "replacing")
        BY <1>1, <2>6 DEF RuntimeInv, RuntimeTypes, CallOK, Serves, At
    <2>8. native[o] = saved.native
        BY <2>5, <2>7 DEF RuntimeInv, NativeInv, ReplaceInv
    <2>9. n # o
        \* What is loaded writes a native Session.
        <3>1. saved.native # 0
            BY <2>5 DEF RuntimeInv, StartInv
        <3> QED BY <2>1, <2>8, <3>1 DEF RuntimeInv, NativeInv, UnusedInv
    <2>10. /\ harness' \in [Objects -> {"unused", "opening", "open", "closing", "closed"}]
           /\ native' \in [Objects -> Nat] /\ saved'.native = m /\ saved'.state = "ready"
           /\ {"state", "native"} \subseteq DOMAIN saved'
           /\ harness'[n] = "open" /\ harness'[o] = "closing" /\ native'[n] = m
           /\ \A p \in Objects \ {n} : native'[p] = native[p]
           /\ \A p \in Objects \ {n, o} : harness'[p] = harness[p]
        BY <1>3, <2>1, <2>2, <2>3, <2>4, <2>5, <2>9 DEF RuntimeInv, RuntimeTypes
    <2>11. /\ DOMAIN call' = Calls /\ {"kind", "step", "with"} \subseteq DOMAIN call'[r]
           /\ call'[r].kind = "rollback" /\ call'[r].step = "replacing" /\ call'[r].with = n
           /\ \A q \in Calls \ {r} : call'[q] = call[q]
        BY <1>1, <1>3, <2>1, StepEffect
    <2>12. \A q \in Calls : CallOK(call'[q])
        BY <2>1, <2>11 DEF RuntimeInv, RuntimeTypes, CallOK, Kinds, MayBe
    <2>13. HeadInv' /\ line' \in Seq(Calls \union {RELEASE})
        <3>1. \A q \in Calls : Serves(call'[q]) => Serves(call[q])
            BY <1>1, <2>11
        <3>2. hostLife' \in {"stopped", "closed"} => \A q \in Calls : call'[q].step = "idle"
            BY <1>1, <2>5 DEF RuntimeInv, HeadInv, At
        <3> QED BY <1>3, <2>5, <3>1, <3>2, HeadKept
    <2>14. RuntimeTypes'
        BY <1>3, <2>5, <2>10, <2>11, <2>12, <2>13 DEF RuntimeInv, RuntimeTypes
    <2>15. StartInv'
        BY <1>1, <2>3, <2>10, <2>11, Started, StartKept
    <2>16. ReleaseInv'
        BY <1>1, <2>5 DEF RuntimeInv, ReleaseInv, ReleaseClosing, Admitted, At
    <2>17. Fresh'
        <3>1. native[n] = 0
            BY <2>1 DEF RuntimeInv, NativeInv, UnusedInv
        <3>2. \A x : x \in Natives' <=> x = m \/ (\E p \in Objects \ {n} : x = native[p])
            BY <2>1, <2>10 DEF Natives
        <3>3. \A x : x \in Natives <=> x = 0 \/ (\E p \in Objects \ {n} : x = native[p])
            BY <2>1, <2>5, <2>8, <2>9, <3>1 DEF Natives
        <3>4. \A x : x \in Natives' \ {0} <=> x = m \/ x \in Natives \ {0}
            BY <2>3, <3>2, <3>3
        <3>5. \A x : x \in 1..m <=> x = m \/ x \in 1..k
            BY <2>3
        <3>6. Natives' \ {0} = 1..m
            BY <2>2, <3>4, <3>5
        <3> QED BY <3>6 DEF Fresh
    <2>18. \A p \in Objects : harness'[p] \in {"open", "closing"} => p = n \/ p = o \/ Holds(p)
        BY <2>10 DEF Holds
    <2>19. \A p \in Objects \ {n} : native'[p] # m
        BY <2>2, <2>3, <2>10
    <2>20. UnusedInv' /\ RestoreInv'
        BY <2>5, <2>6, <2>10 DEF RuntimeInv, NativeInv, UnusedInv, RestoreInv
    <2>21. SavedInv'
        BY <2>10, <2>11, <2>19 DEF SavedInv, Holds, Replacing, At
    <2>22. ReplaceInv'
        BY <2>5, <2>7, <2>10, <2>11 DEF ReplaceInv, At
    <2>23. \A p \in Objects : Holds(p) /\ native[p] = native[o] => p = o
        BY <2>5, <2>6, <2>7, <2>8, RuntimeConstants DEF RuntimeInv, NativeInv, SavedInv, Replacing, Objects
    <2>24. OneWriter'
        <3>1. SUFFICES ASSUME NEW p \in Objects, NEW q \in Objects,
                              harness'[p] \in {"open", "closing"}, harness'[q] \in {"open", "closing"},
                              native'[p] = native'[q]
                       PROVE  p = q
            BY DEF OneWriter
        <3>2. CASE p = n \/ q = n
            BY <2>10, <2>19, <3>1, <3>2
        <3>3. CASE p # n /\ q # n
            <4>1. native[p] = native[q] /\ (p = o \/ Holds(p)) /\ (q = o \/ Holds(q))
                BY <2>10, <2>18, <3>1, <3>3
            <4>2. CASE p = o \/ q = o
                BY <2>23, <4>1, <4>2
            <4>3. CASE p # o /\ q # o
                BY <4>1, <4>3 DEF RuntimeInv, NativeInv, OneWriter, Holds
            <4> QED BY <4>2, <4>3
        <3> QED BY <3>2, <3>3
    <2> QED BY <2>13, <2>14, <2>15, <2>16, <2>17, <2>20, <2>21, <2>22, <2>24 DEF RuntimeInv, NativeInv
<1> QED BY <1>2, <1>3 DEF RollbackOpens

\* Nobody else replaces or removes the object.
LEMMA ServedAlone ==
    ASSUME RuntimeInv, NEW r \in Calls, Serves(call[r])
    PROVE  /\ \A q \in Calls \ {r} : ~At(q, "replacing") /\ call[q].kind # "start"
           /\ saved.native # 0
BY Started DEF RuntimeInv, RuntimeTypes, CallOK, HeadInv, Serves, At

LEMMA ReplaceStep == ASSUME RuntimeInv, NEW r \in Calls, Replace(r) PROVE RuntimeInv'
<1>1. PICK n : n = call[r].with
    OBVIOUS
<1>2. /\ call[r].step = "replacing" /\ harness[current] = "closed" /\ current' = n /\ Ends(r)
      /\ UNCHANGED <<saved, harness, native, restoring, release, hostLife, answering>>
    BY <1>1 DEF Replace, At, ObjectsRest
<1>3. /\ call[r].kind = "rollback" /\ n \in Objects /\ n \in MayBe /\ n # NoObject /\ Serves(call[r])
    BY <1>1, <1>2, RuntimeConstants DEF RuntimeInv, RuntimeTypes, CallOK, Serves, Objects, MayBe
<1>4. /\ DOMAIN call' = Calls /\ \A q \in Calls \ {r} : call'[q] = call[q]
      /\ call'[r].kind = "none" /\ call'[r].step = "idle"
    BY <1>2, EndsEffect
<1>5. /\ HeadInv' /\ line' \in Seq(Calls \union {RELEASE}) /\ \A q \in Calls : CallOK(call'[q])
    BY <1>2, <1>3, EndsHead
<1>6. RuntimeTypes'
    BY <1>2, <1>3, <1>4, <1>5 DEF RuntimeInv, RuntimeTypes
<1>7. \A q \in Calls : call'[q].step # "replacing" /\ call'[q].kind # "start"
    BY <1>3, <1>4, ServedAlone DEF At
<1>8. StartInv'
    BY <1>2, <1>3, <1>7, ServedAlone, StartKept
<1>9. ReleaseInv'
    BY <1>2, <1>4 DEF RuntimeInv, ReleaseInv, ReleaseClosing, Admitted, At
<1>10. current # NoObject /\ native[n] = saved.native /\ restoring = NoObject
    BY <1>1, <1>2 DEF RuntimeInv, NativeInv, ReplaceInv, RestoreInv, At
<1>11. Fresh' /\ UnusedInv' /\ RestoreInv' /\ OneWriter'
    BY <1>2, <1>10 DEF RuntimeInv, NativeInv, Fresh, UnusedInv, RestoreInv, OneWriter, Natives
<1>12. ReplaceInv'
    BY <1>2, <1>7, <1>10 DEF ReplaceInv, At
<1>13. SavedInv'
    <2>1. \A p \in Objects : Replacing(p) => p = n
        BY <1>1, <1>3, ServedAlone DEF Replacing, At
    <2> QED BY <1>2, <1>10, <2>1, RuntimeConstants DEF RuntimeInv, NativeInv, SavedInv, Holds, Objects
<1> QED BY <1>5, <1>6, <1>8, <1>9, <1>11, <1>12, <1>13 DEF RuntimeInv, NativeInv

LEMMA DeleteRecordStep == ASSUME RuntimeInv, NEW r \in Calls, DeleteRecord(r) PROVE RuntimeInv'
<1>1. /\ call[r].kind \notin {"none", "start"} /\ Serves(call[r]) /\ ~At(r, "replacing")
      /\ call[r].kind = "delete" /\ call[r].step = "held"
    BY HandlerKind DEF DeleteRecord, At
<1>2. PICK o \in MayBe : o = call[r].with
    BY DEF RuntimeInv, RuntimeTypes, CallOK
<1>3. CASE Ends(r) /\ UNCHANGED <<saved, current, harness>>
    BY <1>1, <1>3, Returns DEF DeleteRecord
<1>4. CASE /\ saved' = [saved EXCEPT !.state = "none"] /\ current' = Removed
           /\ IF o = NoObject \/ harness[o] # "open" THEN Ends(r) /\ UNCHANGED harness
              ELSE /\ harness' = [harness EXCEPT ![o] = "closing"]
                   /\ Step(r, "deleting", o) /\ UNCHANGED line
    <2>1. UNCHANGED <<native, restoring, release, hostLife, answering>>
        BY DEF DeleteRecord
    <2>2. /\ saved'.native = saved.native /\ saved'.state = "none" /\ {"state", "native"} \subseteq DOMAIN saved'
        BY <1>4 DEF RuntimeInv, RuntimeTypes
    <2>3. current' = NoObject
        BY <1>4 DEF Removed
    <2>4. /\ DOMAIN call' = Calls /\ \A q \in Calls \ {r} : call'[q] = call[q]
          /\ call'[r].kind \in {"none", "delete"} /\ call'[r].step \in {"idle", "deleting"}
          /\ \A q \in Calls : CallOK(call'[q])
          /\ HeadInv' /\ line' \in Seq(Calls \union {RELEASE})
        <3>1. CASE Ends(r)
            BY <1>1, <2>1, <3>1, EndsEffect, EndsHead
        <3>2. CASE Step(r, "deleting", o) /\ UNCHANGED line
            <4>1. /\ DOMAIN call' = Calls /\ {"kind", "step", "with"} \subseteq DOMAIN call'[r]
                  /\ call'[r].kind = "delete" /\ call'[r].step = "deleting" /\ call'[r].with = o
                  /\ \A q \in Calls \ {r} : call'[q] = call[q]
                BY <1>1, <3>2, StepEffect
            <4>2. \A q \in Calls : CallOK(call'[q])
                BY <4>1 DEF RuntimeInv, RuntimeTypes, CallOK, Kinds
            <4>3. \A q \in Calls : Serves(call'[q]) => Serves(call[q])
                BY <1>1, <4>1
            <4>4. hostLife' \in {"stopped", "closed"} => \A q \in Calls : call'[q].step = "idle"
                BY <1>1, <2>1 DEF RuntimeInv, HeadInv, At
            <4>5. HeadInv' /\ line' \in Seq(Calls \union {RELEASE})
                BY <2>1, <3>2, <4>3, <4>4, HeadKept
            <4> QED BY <4>1, <4>2, <4>5
        <3> QED BY <1>4, <3>1, <3>2
    <2>5. /\ harness' \in [Objects -> {"unused", "opening", "open", "closing", "closed"}]
          /\ \A p \in Objects : /\ harness'[p] \in {"open", "closing"} => Holds(p)
                                /\ harness'[p] = "unused" => harness[p] = "unused"
        BY <1>4 DEF RuntimeInv, RuntimeTypes, Holds, MayBe
    <2>6. RuntimeTypes'
        BY <2>1, <2>2, <2>3, <2>4, <2>5 DEF RuntimeInv, RuntimeTypes, MayBe
    <2>7. \A q \in Calls : call'[q].step # "replacing" /\ call'[q].kind # "start"
        BY <1>1, <2>4, ServedAlone DEF At
    <2>8. StartInv'
        BY <1>1, <2>2, <2>7, ServedAlone, StartKept
    <2>9. ReleaseInv'
        BY <1>1, <2>1, <2>4 DEF RuntimeInv, ReleaseInv, ReleaseClosing, Admitted, At
    <2>10. RestoreInv'
        BY <2>1, <2>2, <2>3, <2>5 DEF RuntimeInv, NativeInv, RestoreInv, Holds
    <2>11. /\ Fresh' /\ UnusedInv' /\ SavedInv' /\ ReplaceInv' /\ OneWriter'
        BY <2>1, <2>2, <2>3, <2>5, <2>7
           DEF RuntimeInv, NativeInv, Fresh, UnusedInv, SavedInv, ReplaceInv, OneWriter, Natives, Holds, At
    <2> QED BY <2>4, <2>6, <2>8, <2>9, <2>10, <2>11 DEF RuntimeInv, NativeInv
<1> QED BY <1>2, <1>3, <1>4 DEF DeleteRecord

(***************************************************************************)
(* The Sessions, the release and the end of the Host                        *)
(***************************************************************************)

\* A step of a Session's Turn, its questions or its outputs
LEMMA SessionStep ==
    ASSUME RuntimeInv, NEW o \in Objects,
           \/ TurnEnds(o) \/ AsksUser(o) \/ Shows(o) \/ Denies(o) \/ Answers(o)
           \/ ConsumerFails(o) \/ OutputsEnd(o) \/ AnswerEnds(o)
    PROVE  RuntimeInv'
<1>1. /\ UNCHANGED <<saved, current, harness, native, line, call, restoring, release, hostLife>>
      /\ answering' \subseteq answering \/ ~ReleaseClosing
    BY DEF TurnEnds, AsksUser, Shows, Denies, Answers, ConsumerFails, OutputsEnd, AnswerEnds
<1>2. RuntimeTypes' /\ HeadInv' /\ StartInv'
    BY <1>1 DEF RuntimeInv, RuntimeTypes, HeadInv, StartInv, At
<1>3. NativeInv'
    <2>1. \A q \in Calls : /\ call'[q].step = "replacing" <=> At(q, "replacing")
                           /\ At(q, "replacing") => call'[q].with = call[q].with
        BY <1>1 DEF At
    <2> QED BY <1>1, <2>1, NativeKept DEF Holds
<1>4. ReleaseInv'
    BY <1>1 DEF RuntimeInv, ReleaseInv, ReleaseClosing, Admitted, At
<1> QED BY <1>2, <1>3, <1>4 DEF RuntimeInv

LEMMA GoesStep == ASSUME RuntimeInv, NEW o \in Objects, SessionGoes(o) PROVE RuntimeInv'
<1>1. /\ harness[o] = "closing" /\ harness' = [harness EXCEPT ![o] = "closed"]
      /\ UNCHANGED <<saved, current, native, line, call, restoring, release, hostLife, answering>>
    BY DEF SessionGoes
<1>2. /\ harness' \in [Objects -> {"unused", "opening", "open", "closing", "closed"}]
      /\ harness'[o] = "closed" /\ \A p \in Objects \ {o} : harness'[p] = harness[p]
    BY <1>1 DEF RuntimeInv, RuntimeTypes
<1>3. RuntimeTypes' /\ HeadInv' /\ ReleaseInv'
    BY <1>1, <1>2 DEF RuntimeInv, RuntimeTypes, HeadInv, ReleaseInv, ReleaseClosing, Admitted, At
<1>4. StartInv'
    BY <1>1, <1>2 DEF RuntimeInv, StartInv, At
<1>5. NativeInv'
    <2>1. \A q \in Calls : /\ call'[q].step = "replacing" <=> At(q, "replacing")
                           /\ At(q, "replacing") => call'[q].with = call[q].with
        BY <1>1 DEF At
    <2> QED BY <1>1, <1>2, <2>1, NativeKept DEF Holds
<1> QED BY <1>3, <1>4, <1>5 DEF RuntimeInv

\* The loaded object writes the saved native Session unless it is being replaced, so that its
\* closing brings no second writer.
LEMMA ReleaseRunsStep == ASSUME RuntimeInv, ReleaseRuns PROVE RuntimeInv'
<1>1. /\ release.step = "queued" /\ line # <<>> /\ Head(line) = RELEASE
      /\ UNCHANGED <<saved, current, native, answering, call, restoring, hostLife>>
    BY DEF ReleaseRuns
<1>2. /\ \A q \in Calls : ~Serves(call[q]) /\ ~At(q, "replacing")
    BY <1>1, RuntimeConstants DEF RuntimeInv, RuntimeTypes, CallOK, HeadInv, Serves, At
<1>3. /\ DOMAIN call = Calls /\ \A q \in Calls : call'[q] = call[q]
    BY <1>1 DEF RuntimeInv, RuntimeTypes
<1>4. CASE /\ Eligible(release.of) /\ release' = [release EXCEPT !.step = "closing"]
           /\ harness' = [harness EXCEPT ![release.of] = "closing"] /\ UNCHANGED line
    <2>1. PICK o : o = release.of
        OBVIOUS
    <2>2. /\ current = o /\ saved.state = "ready" /\ o \notin answering
          /\ \A q \in Calls : ~Admitted(q)
        BY <1>4, <2>1 DEF Eligible
    <2>3. /\ release'.step = "closing" /\ release'.of = o /\ {"of", "step"} \subseteq DOMAIN release'
        BY <1>4, <2>1 DEF RuntimeInv, RuntimeTypes
    <2>4. saved.native # 0 /\ \A q \in Calls : call[q].kind # "start"
        BY <2>2 DEF RuntimeInv, StartInv
    <2>5. /\ harness' \in [Objects -> {"unused", "opening", "open", "closing", "closed"}]
          /\ \A p \in Objects : harness'[p] = harness[p] \/ (p = o /\ harness'[p] = "closing")
        BY <1>4, <2>1 DEF RuntimeInv, RuntimeTypes
    <2>6. HeadInv' /\ line' \in Seq(Calls \union {RELEASE})
        <3>1. hostLife' \in {"stopped", "closed"} => \A q \in Calls : call'[q].step = "idle"
            BY <1>1 DEF RuntimeInv, HeadInv, At
        <3>2. \A q \in Calls : ~Serves(call'[q])
            BY <1>2, <1>3
        <3> QED BY <1>1, <1>4, <3>1, <3>2, HeadKept
    <2>7. RuntimeTypes'
        BY <1>1, <2>3, <2>5, <2>6 DEF RuntimeInv, RuntimeTypes
    <2>8. StartInv'
        BY <1>1, <1>3, <2>4, StartKept
    <2>9. ReleaseInv'
        BY <1>1, <2>2, <2>3, <2>4 DEF ReleaseInv, Admitted, At
    <2>10. \A p \in Objects : /\ harness'[p] \in {"open", "closing"} => p = o \/ Holds(p)
                              /\ harness'[p] = "unused" => harness[p] = "unused"
        BY <2>5 DEF Holds
    <2>11. Fresh' /\ UnusedInv' /\ ReplaceInv'
        BY <1>1, <2>10 DEF RuntimeInv, NativeInv, Fresh, UnusedInv, ReplaceInv, Natives, At
    <2>12. CASE o \notin Objects
        <3>1. harness' = harness
            BY <2>5, <2>12 DEF RuntimeInv, RuntimeTypes
        <3>2. RestoreInv' /\ SavedInv' /\ OneWriter'
            BY <1>1, <3>1 DEF RuntimeInv, NativeInv, RestoreInv, SavedInv, OneWriter, Holds, Replacing, At
        <3> QED BY <2>6, <2>7, <2>8, <2>9, <2>11, <3>2 DEF RuntimeInv, NativeInv
    <2>13. CASE o \in Objects
        <3>1. current # NoObject /\ restoring = NoObject /\ native[o] = saved.native
            BY <1>2, <2>2, <2>13, RuntimeConstants DEF RuntimeInv, NativeInv, RestoreInv, ReplaceInv, Objects
        <3>2. \A p \in Objects : Holds(p) /\ native[p] = saved.native => p = o
            BY <1>2, <2>2, <3>1, RuntimeConstants DEF RuntimeInv, NativeInv, SavedInv, Replacing, Objects
        <3>3. RestoreInv'
            BY <1>1, <3>1 DEF RestoreInv
        <3>4. SavedInv'
            BY <1>1, <2>2, <2>10, <3>2 DEF SavedInv, Holds
        <3>5. OneWriter'
            <4>1. SUFFICES ASSUME NEW p \in Objects, NEW q \in Objects,
                                  harness'[p] \in {"open", "closing"}, harness'[q] \in {"open", "closing"},
                                  native[p] = native[q]
                           PROVE  p = q
                BY <1>1 DEF OneWriter
            <4>2. (p = o \/ Holds(p)) /\ (q = o \/ Holds(q))
                BY <2>10, <4>1
            <4>3. CASE p = o \/ q = o
                BY <3>1, <3>2, <4>1, <4>2, <4>3
            <4>4. CASE p # o /\ q # o
                BY <4>1, <4>2, <4>4 DEF RuntimeInv, NativeInv, OneWriter, Holds
            <4> QED BY <4>3, <4>4
        <3> QED BY <2>6, <2>7, <2>8, <2>9, <2>11, <3>3, <3>4, <3>5 DEF RuntimeInv, NativeInv
    <2> QED BY <2>12, <2>13
<1>5. CASE release' = NotReleasing /\ line' = Tail(line) /\ UNCHANGED harness
    <2>1. release'.step = "none" /\ {"of", "step"} \subseteq DOMAIN release'
        BY <1>5 DEF NotReleasing
    <2>2. HeadInv' /\ line' \in Seq(Calls \union {RELEASE})
        <3>1. hostLife' \in {"stopped", "closed"} => \A q \in Calls : call'[q].step = "idle"
            BY <1>1 DEF RuntimeInv, HeadInv, At
        <3>2. \A q \in Calls : ~Serves(call'[q])
            BY <1>2, <1>3
        <3> QED BY <1>1, <1>5, <2>1, <3>1, <3>2, HeadKept
    <2>3. RuntimeTypes' /\ StartInv' /\ ReleaseInv'
        BY <1>1, <1>5, <2>1, <2>2
           DEF RuntimeInv, RuntimeTypes, StartInv, ReleaseInv, ReleaseClosing, At
    <2>4. NativeInv'
        <3>1. \A q \in Calls : /\ call'[q].step = "replacing" <=> At(q, "replacing")
                               /\ At(q, "replacing") => call'[q].with = call[q].with
            BY <1>3 DEF At
        <3> QED BY <1>1, <1>5, <3>1, NativeKept DEF Holds
    <2> QED BY <2>2, <2>3, <2>4 DEF RuntimeInv
<1> QED BY <1>4, <1>5 DEF ReleaseRuns

LEMMA ReleaseEndsStep == ASSUME RuntimeInv, ReleaseEnds \/ ReleaseTimesOut PROVE RuntimeInv'
<1>1. /\ release.step = "closing" /\ release' = NotReleasing /\ line' = Tail(line)
      /\ UNCHANGED <<saved, harness, native, answering, call, restoring, hostLife>>
      /\ current' = current \/ (current' = NoObject /\ harness[current] = "closed")
    BY DEF ReleaseEnds, ReleaseTimesOut, Confirmed
<1>2. /\ line # <<>> /\ Head(line) = RELEASE
      /\ \A q \in Calls : ~Serves(call[q]) /\ ~At(q, "replacing")
    BY <1>1, RuntimeConstants DEF RuntimeInv, RuntimeTypes, CallOK, HeadInv, Serves, At
<1>3. /\ saved.native # 0 /\ \A q \in Calls : call[q].kind # "start"
    BY <1>1 DEF RuntimeInv, RuntimeTypes, CallOK, ReleaseInv, ReleaseClosing, Admitted, At
<1>4. release'.step = "none" /\ {"of", "step"} \subseteq DOMAIN release'
    BY <1>1 DEF NotReleasing
<1>5. HeadInv' /\ line' \in Seq(Calls \union {RELEASE})
    <2>1. hostLife' \in {"stopped", "closed"} => \A q \in Calls : call'[q].step = "idle"
        BY <1>1 DEF RuntimeInv, HeadInv, At
    <2>2. \A q \in Calls : ~Serves(call'[q])
        BY <1>1, <1>2
    <2> QED BY <1>1, <1>2, <1>4, <2>1, <2>2, HeadKept
<1>6. RuntimeTypes'
    BY <1>1, <1>4, <1>5 DEF RuntimeInv, RuntimeTypes, MayBe
<1>7. StartInv' /\ ReleaseInv'
    BY <1>1, <1>3, <1>4, StartKept DEF ReleaseInv, ReleaseClosing
<1>8. Fresh' /\ UnusedInv' /\ RestoreInv' /\ OneWriter'
    BY <1>1 DEF RuntimeInv, NativeInv, Fresh, UnusedInv, RestoreInv, OneWriter, Natives, Holds
<1>9. SavedInv' /\ ReplaceInv'
    BY <1>1, <1>2 DEF RuntimeInv, NativeInv, SavedInv, ReplaceInv, Holds, Replacing, At
<1> QED BY <1>5, <1>6, <1>7, <1>8, <1>9 DEF RuntimeInv, NativeInv

LEMMA CheckStep == ASSUME RuntimeInv, Check \/ InputEnds PROVE RuntimeInv'
<1>1. /\ UNCHANGED <<saved, current, harness, native, answering, call, restoring>>
      /\ \/ /\ hostLife' = hostLife /\ line' = Append(line, RELEASE)
            /\ release' = [of |-> current, step |-> "queued"]
         \/ hostLife' = "ended" /\ UNCHANGED <<line, release>>
    BY DEF Check, InputEnds, ObjectsRest
<1>2. /\ {"of", "step"} \subseteq DOMAIN release'
      /\ release'.step \in {"closing", "released"} => release' = release
    BY <1>1 DEF RuntimeInv, RuntimeTypes
<1>3. HeadInv' /\ line' \in Seq(Calls \union {RELEASE})
    <2>1. /\ hostLife' \in {"stopped", "closed"} => \A q \in Calls : call'[q].step = "idle"
          /\ release'.step = "closing" => release.step = "closing"
          /\ RELEASE \in Calls \union {RELEASE}
        BY <1>1, <1>2 DEF RuntimeInv, HeadInv, At
    <2>2. \A q \in Calls : Serves(call'[q]) => Serves(call[q])
        BY <1>1
    <2> QED BY <1>1, <2>1, <2>2, HeadKept
<1>4. RuntimeTypes' /\ StartInv'
    BY <1>1, <1>2, <1>3 DEF RuntimeInv, RuntimeTypes, StartInv, At
<1>5. ReleaseInv'
    BY <1>1, <1>2 DEF RuntimeInv, ReleaseInv, ReleaseClosing, Admitted, At
<1>6. NativeInv'
    <2>1. \A q \in Calls : /\ call'[q].step = "replacing" <=> At(q, "replacing")
                           /\ At(q, "replacing") => call'[q].with = call[q].with
        BY <1>1 DEF At
    <2> QED BY <1>1, <2>1, NativeKept DEF Holds
<1> QED BY <1>3, <1>4, <1>5, <1>6 DEF RuntimeInv

LEMMA StopStep == ASSUME RuntimeInv, StopHost PROVE RuntimeInv'
<1>1. /\ \A q \in Calls : At(q, "idle")
      /\ harness' = [o \in Objects |-> IF o = current /\ harness[o] = "open" THEN "closing" ELSE harness[o]]
      /\ UNCHANGED <<saved, current, native, answering, line, call, restoring, release>>
    BY DEF StopHost, Drained
<1>2. /\ harness' \in [Objects -> {"unused", "opening", "open", "closing", "closed"}]
      /\ \A p \in Objects : /\ harness'[p] \in {"open", "closing"} => Holds(p)
                            /\ harness[p] = "unused" <=> harness'[p] = "unused"
    BY <1>1 DEF RuntimeInv, RuntimeTypes, Holds
<1>3. RuntimeTypes' /\ HeadInv' /\ ReleaseInv' /\ StartInv'
    BY <1>1, <1>2 DEF RuntimeInv, RuntimeTypes, CallOK, HeadInv, StartInv, ReleaseInv, ReleaseClosing, Admitted, At
<1>4. NativeInv'
    <2>1. \A q \in Calls : /\ call'[q].step = "replacing" <=> At(q, "replacing")
                           /\ At(q, "replacing") => call'[q].with = call[q].with
        BY <1>1 DEF At
    <2> QED BY <1>1, <1>2, <2>1, NativeKept
<1> QED BY <1>3, <1>4 DEF RuntimeInv

LEMMA ClearStep == ASSUME RuntimeInv, ClearHost PROVE RuntimeInv'
<1>1. /\ hostLife = "stopped" /\ current' = NoObject
      /\ current = NoObject \/ harness[current] = "closed"
      /\ UNCHANGED <<saved, harness, native, answering, line, call, restoring, release>>
    BY DEF ClearHost
<1>2. \A q \in Calls : At(q, "idle")
    BY <1>1 DEF RuntimeInv, HeadInv
<1>3. RuntimeTypes' /\ HeadInv' /\ ReleaseInv' /\ StartInv'
    BY <1>1, <1>2 DEF RuntimeInv, RuntimeTypes, CallOK, HeadInv, StartInv, ReleaseInv, ReleaseClosing, Admitted, At, MayBe
<1>4. Fresh' /\ UnusedInv' /\ RestoreInv' /\ OneWriter'
    BY <1>1 DEF RuntimeInv, NativeInv, Fresh, UnusedInv, RestoreInv, OneWriter, Natives, Holds
<1>5. SavedInv' /\ ReplaceInv'
    BY <1>1, <1>2, RuntimeConstants DEF RuntimeInv, NativeInv, SavedInv, ReplaceInv, Holds, Replacing, At, Objects
<1> QED BY <1>3, <1>4, <1>5 DEF RuntimeInv, NativeInv

(***************************************************************************)
(* The theorems                                                             *)
(***************************************************************************)
LEMMA RuntimeInit == ASSUME InitRuntime PROVE RuntimeInv
<1>1. /\ \E k \in {0, 1} : saved.native = k
      /\ {"state", "native"} \subseteq DOMAIN saved
      /\ saved.state # "none" => saved.native # 0
      /\ current = NoObject /\ restoring = NoObject /\ answering = {}
      /\ harness = [o \in Objects |-> "unused"] /\ native = [o \in Objects |-> 0]
      /\ line = <<>> /\ call = [r \in Calls |-> Idle] /\ hostLife = "open"
      /\ release.step = "none" /\ {"of", "step"} \subseteq DOMAIN release
    BY DEF InitRuntime
<1>2. \A r \in Calls : CallOK(call[r]) /\ call[r].kind = "none" /\ call[r].step = "idle"
    BY <1>1 DEF CallOK, Idle, Kinds, MayBe
<1>3. RuntimeTypes
    BY <1>1, <1>2 DEF RuntimeTypes, MayBe
<1>4. HeadInv /\ StartInv /\ ReleaseInv
    BY <1>1, <1>2 DEF HeadInv, StartInv, ReleaseInv, ReleaseClosing, Serves, At
<1>5. Fresh
    <2>1. PICK k \in {0, 1} : saved.native = k
        BY <1>1
    <2>2. \A x : x \in Natives \ {0} <=> x = k /\ k # 0
        BY <1>1, <2>1 DEF Natives
    <2>3. \A x : x \in 1..k <=> x = k /\ k # 0
        BY <2>1
    <2>4. Natives \ {0} = 1..k /\ k \in Nat
        BY <2>1, <2>2, <2>3
    <2> QED BY <2>4 DEF Fresh
<1>6. NativeInv
    BY <1>1, <1>2, <1>5 DEF NativeInv, UnusedInv, RestoreInv, SavedInv, ReplaceInv, OneWriter, Holds, At
<1> QED BY <1>3, <1>4, <1>6 DEF RuntimeInv

LEMMA RuntimeStep == ASSUME RuntimeInv, [NextRuntime]_runtimeVars PROVE RuntimeInv'
<1>1. ASSUME NEW r \in Calls, StartThread(r) \/ Receive(r) \/ Handles(r) PROVE RuntimeInv'
    BY <1>1, StartThreadStep, ReceiveStep, StartOpensStep, StartRegistersStep, AdmitStep, LocateStep, FindStep,
       RefuseStep, UseStep, RollbackStep, ReplaceStep, DeleteRecordStep, DeleteEndsStep DEF Handles
<1>2. ASSUME NEW o \in Objects,
             \/ TurnEnds(o) \/ AsksUser(o) \/ Shows(o) \/ Denies(o) \/ Answers(o)
             \/ ConsumerFails(o) \/ ClosesSession(o)
      PROVE  RuntimeInv'
    BY <1>2, SessionStep, GoesStep DEF ClosesSession
<1>3. CASE Restores \/ RestoreGivesUp
    BY <1>3, RestoreOpensStep, RestoreRegistersStep, RestoreGivesUpStep DEF Restores
<1>4. CASE Check \/ Releases \/ ReleaseTimesOut \/ InputEnds \/ StopHost \/ ClearHost
    BY <1>4, CheckStep, ReleaseRunsStep, ReleaseEndsStep, StopStep, ClearStep DEF Releases
<1>5. CASE UNCHANGED runtimeVars
    <2>1. UNCHANGED <<saved, current, harness, native, answering, line, call, restoring, release, hostLife>>
        BY <1>5 DEF runtimeVars
    <2>2. RuntimeTypes' /\ HeadInv' /\ ReleaseInv' /\ StartInv'
        BY <2>1 DEF RuntimeInv, RuntimeTypes, HeadInv, StartInv, ReleaseInv, ReleaseClosing, Admitted, At
    <2>3. \A q \in Calls : /\ call'[q].step = "replacing" <=> At(q, "replacing")
                           /\ At(q, "replacing") => call'[q].with = call[q].with
        BY <2>1 DEF At
    <2>4. NativeInv'
        BY <2>1, <2>3, NativeKept DEF Holds
    <2> QED BY <2>2, <2>4 DEF RuntimeInv
<1> QED BY <1>1, <1>2, <1>3, <1>4, <1>5 DEF NextRuntime

\* The strengthened invariant, of which both theorems are parts.
LEMMA RuntimeInvariant == RuntimeSpec => []RuntimeInv
<1> QED BY RuntimeInit, RuntimeStep, PTL DEF RuntimeSpec

\* Whatever releases, restores, rollbacks and deletes of a Thread overlap, and however many
\* requests are handled: no two of its Sessions write one native Session at the same time.
THEOREM SessionsHaveOneWriter == RuntimeSpec => []OneWriter
<1>1. RuntimeInv => OneWriter
    BY DEF RuntimeInv, NativeInv
<1> QED BY <1>1, RuntimeInvariant, PTL

\* The release of an idle Thread closes no Session that a request of the Thread is using, and none
\* that is being told the answer to a question.
THEOREM ReleasesSpareRequests == RuntimeSpec => []ReleaseSparesRequests
<1>1. RuntimeInv => ReleaseSparesRequests
    BY DEF RuntimeInv, ReleaseInv, ReleaseSparesRequests
<1> QED BY <1>1, RuntimeInvariant, PTL

(***************************************************************************)
(* The pages of thread/list (ThreadList)                                     *)
(***************************************************************************)

ExternalRows == [thread : External, time : 1 .. MaxTime]
OfficialRows == [thread : Official, time : 1 .. MaxTime]

(* What has been read of the two lists, and what is left of them: of the Threads a client must find,
   each is read, in order, or left, and then it comes after those that were read. *)
Progress(rows, left) ==
    /\ rows \in Seq(Entries)
    /\ \A n \in DOMAIN rows : rows[n].thread \in Due => rows[n] = Entry(rows[n].thread)
    /\ \A n, m \in DOMAIN rows :
          n < m /\ rows[n].thread \in Due /\ rows[m].thread \in Due => InOrder(rows[n], rows[m])
    /\ \A x \in Due : Entry(x) \in left <=> \A n \in DOMAIN rows : rows[n].thread # x
    /\ \A x \in Due : Entry(x) \in left =>
          \A n \in DOMAIN rows : rows[n].thread \in Due => InOrder(rows[n], Entry(x))

(* What is left behind a cursor of the Host. *)
LeftBehind(c) ==
    IF c = None THEN {}
    ELSE (IF c.externalDone THEN {} ELSE ExternalAfter(c.anchor))
            \cup (IF c.officialDone THEN {} ELSE OfficialAfter(c.official))

HostCursors == [official : OfficialRows \cup {None}, officialDone : BOOLEAN,
                anchor : ExternalRows \cup {None}, externalDone : BOOLEAN]
Passes == [direction : {"asc", "desc"}, listed : Seq(Entries), cursor : HostCursors \cup {None}]
PassGood(p) == p \in Passes /\ Progress(p.listed, LeftBehind(p.cursor))

(* What is left while the lists are merged. *)
ExternalLeft(r, p) == IF p.cursor.externalDone THEN {} ELSE ExternalAfter(r.anchor)
OfficialLeft(r) ==
    IF r.done THEN {}
    ELSE IF r.batched THEN OfficialAfter(r.start) \ (r.batch \ r.left)
    ELSE OfficialAfter(r.cursor)

Requests == [at : {"merging", "asked", "exact"}, external : SUBSET ExternalRows, more : BOOLEAN,
             batched : BOOLEAN, batch : SUBSET OfficialRows, left : SUBSET OfficialRows,
             next : OfficialRows \cup {None}, start : OfficialRows \cup {None},
             cursor : OfficialRows \cup {None}, done : BOOLEAN, anchor : ExternalRows \cup {None},
             output : Seq(Entries)]

(* The external rows of the page come first of those that are left, and there are enough of them,
   or they are all. *)
ExternalGood(r, p) ==
    /\ IsFiniteSet(r.external)
    /\ p.cursor.externalDone => r.external = {} /\ ~r.more
    /\ \A a \in r.external : a.thread \in Due => a = Entry(a.thread)
    /\ \A a \in r.external : r.anchor = None \/ Precedes(r.anchor, a)
    /\ \A x \in Due : Entry(x) \in ExternalLeft(r, p) =>
          Entry(x) \in r.external \/ (r.more /\ \A a \in r.external : InOrder(a, Entry(x)))
    /\ r.more => Cardinality(r.external) + Len(r.output) >= Limit

(* A batch holds the first official rows behind its cursor, and those that were used came first. *)
BatchGood(r) ==
    /\ AreFirst(r.batch, OfficialAfter(r.start))
    /\ r.left \subseteq r.batch
    /\ \A a \in r.batch \ r.left, b \in r.left : InOrder(a, b)
    /\ IF r.batch = OfficialAfter(r.start) THEN r.next = None ELSE IsLast(r.next, r.batch)

ListingGood(r, p) ==
    /\ r \in Requests /\ p.cursor # None
    /\ Progress(p.listed \o r.output, ExternalLeft(r, p) \cup OfficialLeft(r))
    /\ ExternalGood(r, p)
    /\ ~r.done /\ r.batched => BatchGood(r)
    /\ r.at = "asked" => ~r.done /\ ~r.batched /\ r.start = r.cursor
    /\ r.at = "exact" => PartlyUsed(r)

ListTyped == sortedAt \in [AllThreads -> 0 .. MaxTime] /\ pass.direction \in {"asc", "desc"}

ListInv ==
    /\ ListTyped
    /\ PassGood(pass)
    /\ listing.at # "idle" => ListingGood(listing, pass)

(* The order of the list is total, whichever list the rows are of. *)
LEMMA OrderIsTotal ==
    ASSUME pass.direction \in {"asc", "desc"}, NEW a \in Entries, NEW b \in Entries, NEW c \in Entries
    PROVE  /\ ~InOrder(a, a)
           /\ InOrder(a, b) /\ InOrder(b, c) => InOrder(a, c)
           /\ InOrder(a, b) => ~InOrder(b, a)
           /\ a # b => InOrder(a, b) \/ InOrder(b, a)
<1>1. /\ a.time \in Int /\ b.time \in Int /\ c.time \in Int
      /\ a.thread \in AllThreads /\ b.thread \in AllThreads /\ c.thread \in AllThreads
    BY ListConstants DEF Entries
<1>2. ASSUME NEW x \in AllThreads
      PROVE  /\ x[1] \in {"external", "official"} /\ x[2] \in Int /\ x = <<x[1], x[2]>>
             /\ x \in External <=> x[1] = "external"
             /\ x \in Official <=> x[1] = "official"
    <2>1. CASE x \in External
        <3>1. PICK i \in OwnIds : x = <<"external", i>>
            BY <2>1 DEF External
        <3>2. x[1] = "external" /\ x[2] = i /\ i \in Int
            <4>1. OwnIds \subseteq Int
                BY ListConstants
            <4> QED BY <3>1, <4>1
        <3>3. x \notin Official
            BY <3>2 DEF External, Official
        <3> QED BY <3>1, <3>2, <3>3, <2>1
    <2>2. CASE x \in Official
        <3>1. PICK i \in OfficialIds : x = <<"official", i>>
            BY <2>2 DEF Official
        <3>2. x[1] = "official" /\ x[2] = i /\ i \in Int
            <4>1. OfficialIds \subseteq Int
                BY ListConstants
            <4> QED BY <3>1, <4>1
        <3>3. x \notin External
            BY <3>2 DEF External, Official
        <3> QED BY <3>1, <3>2, <3>3, <2>2
    <2> QED BY <2>1, <2>2 DEF AllThreads
<1>3. a = [thread |-> a.thread, time |-> a.time] /\ b = [thread |-> b.thread, time |-> b.time]
    BY DEF Entries
<1>4. a.thread[2] \in Int /\ b.thread[2] \in Int /\ c.thread[2] \in Int
    BY <1>1, <1>2
<1>5. a # b => a.time # b.time \/ a.thread[1] # b.thread[1] \/ a.thread[2] # b.thread[2]
    BY <1>1, <1>2, <1>3
<1>6. CASE pass.direction = "asc"
    BY <1>1, <1>2, <1>4, <1>5, <1>6 DEF InOrder, OfficialPrecedes, Precedes, Earlier
<1>7. CASE pass.direction = "desc"
    BY <1>1, <1>2, <1>4, <1>5, <1>7 DEF InOrder, OfficialPrecedes, Precedes, Earlier
<1> QED BY <1>6, <1>7

(* The order of one list is that of the merged one. *)
LEMMA OrdersAgree ==
    ASSUME NEW a \in Entries, NEW b \in Entries
    PROVE  /\ a \in OfficialRows /\ b \in OfficialRows => (InOrder(a, b) <=> OfficialPrecedes(a, b))
           /\ a \in ExternalRows => (InOrder(a, b) <=> Precedes(a, b))
           /\ b \in ExternalRows => (InOrder(a, b) <=> Precedes(a, b))
BY ListConstants DEF InOrder, ExternalRows, OfficialRows, External, Official

LEMMA RowsAreEntries ==
    /\ ExternalRows \subseteq Entries /\ OfficialRows \subseteq Entries
    /\ \A a \in Entries : a \in ExternalRows \/ a \in OfficialRows
BY DEF ExternalRows, OfficialRows, Entries, AllThreads

LEMMA NoneIsNoRow ==
    None \notin Entries /\ None \notin ExternalRows /\ None \notin OfficialRows
    /\ None \notin HostCursors
<1>1. HostCursors \subseteq Cursors
    BY RowsAreEntries DEF HostCursors, Cursors
<1> QED BY <1>1, ListConstants, RowsAreEntries

LEMMA ListedRows ==
    ASSUME ListTyped
    PROVE  /\ Listed(External) \subseteq ExternalRows /\ IsFiniteSet(Listed(External))
           /\ Listed(Official) \subseteq OfficialRows /\ IsFiniteSet(Listed(Official))
<1>1. ASSUME NEW x \in AllThreads, sortedAt[x] # 0 PROVE sortedAt[x] \in 1 .. MaxTime
    BY <1>1, ListConstants DEF ListTyped
<1>2. External \subseteq AllThreads /\ Official \subseteq AllThreads
    BY DEF AllThreads
<1>3. ASSUME NEW ids \in SUBSET Nat, IsFiniteSet(ids), NEW kind
      PROVE  IsFiniteSet({kind} \X ids)
    BY <1>3, FS_Product, FS_Singleton
<1>4. IsFiniteSet(External) /\ IsFiniteSet(Official)
    BY <1>3, ListConstants DEF External, Official
<1>5. ASSUME NEW S, S \subseteq AllThreads, IsFiniteSet(S) PROVE IsFiniteSet(Listed(S))
    <2>1. IsFiniteSet({y \in S : sortedAt[y] # 0})
        BY <1>5, FS_Subset
    <2>2. PICK Y : Y = {y \in S : sortedAt[y] # 0}
        OBVIOUS
    <2>3. PICK f : f = [y \in Y |-> Entry(y)]
        OBVIOUS
    <2>4. f \in Surjection(Y, Listed(S))
        BY <2>2, <2>3 DEF Surjection, Listed
    <2> QED BY <2>1, <2>2, <2>4, FS_Surjection
<1>6. Listed(External) \subseteq ExternalRows
    BY <1>1, <1>2 DEF Listed, Entry, ExternalRows
<1>7. Listed(Official) \subseteq OfficialRows
    BY <1>1, <1>2 DEF Listed, Entry, OfficialRows
<1> QED BY <1>2, <1>4, <1>5, <1>6, <1>7

LEMMA AfterRows ==
    ASSUME ListTyped, NEW c
    PROVE  /\ ExternalAfter(c) \subseteq ExternalRows /\ IsFiniteSet(ExternalAfter(c))
           /\ OfficialAfter(c) \subseteq OfficialRows /\ IsFiniteSet(OfficialAfter(c))
BY ListedRows, FS_Subset DEF ExternalAfter, OfficialAfter

(* An unchanged Thread that is listed is among the rows of its list. *)
LEMMA DueIsListed ==
    ASSUME ListTyped, NEW x \in Due
    PROVE  /\ Entry(x) \in Entries /\ Entry(x).thread = x
           /\ x \in External => Entry(x) \in Listed(External) /\ Entry(x) \in ExternalRows
           /\ x \in Official => Entry(x) \in Listed(Official) /\ Entry(x) \in OfficialRows
           /\ x \in External \/ x \in Official
           /\ ~ (x \in External /\ x \in Official)
           /\ x \in Official => x[2] \notin OwnIds
<1>1. x \in AllThreads /\ sortedAt[x] # 0 /\ (x \in Official => x[2] \notin OwnIds)
    BY DEF Due
<1>2. x \in External => Entry(x) \in Listed(External)
    BY <1>1 DEF Listed
<1>3. x \in Official => Entry(x) \in Listed(Official)
    BY <1>1 DEF Listed
<1>4. Entry(x).thread = x
    BY DEF Entry
<1>5. ~ (x \in External /\ x \in Official)
    BY DEF External, Official
<1> QED BY <1>1, <1>2, <1>3, <1>4, <1>5, ListedRows, RowsAreEntries DEF AllThreads

(* Behind the last of the rows that come first is what they leave. *)
LEMMA BehindTheLast ==
    ASSUME ListTyped, NEW start \in OfficialRows \cup {None}, NEW rows, NEW last,
           AreFirst(rows, OfficialAfter(start)), rows # OfficialAfter(start), IsLast(last, rows)
    PROVE  last \in OfficialRows /\ OfficialAfter(last) = OfficialAfter(start) \ rows
<1>1. rows \subseteq OfficialAfter(start) /\ OfficialAfter(start) \subseteq OfficialRows
    BY AfterRows DEF AreFirst
<1>2. last \in rows /\ last \in OfficialRows /\ last # None
    BY <1>1, NoneIsNoRow DEF IsLast
<1>3. ASSUME NEW b \in OfficialAfter(last) PROVE b \in OfficialAfter(start) \ rows
    <2>1. b \in OfficialRows /\ b \in Listed(Official) /\ InOrder(last, b)
        BY <1>2, <1>3, AfterRows, OrdersAgree, RowsAreEntries DEF OfficialAfter
    <2>2. b \notin rows
        BY <1>2, <2>1, OrderIsTotal, RowsAreEntries DEF IsLast, ListTyped
    <2>3. start = None \/ OfficialPrecedes(start, b)
        <3>1. start = None \/ (start \in OfficialRows /\ InOrder(start, last))
            BY <1>1, <1>2, OrdersAgree, RowsAreEntries DEF OfficialAfter
        <3>2. start # None => InOrder(start, b)
            BY <1>2, <2>1, <3>1, OrderIsTotal, RowsAreEntries DEF ListTyped
        <3> QED BY <2>1, <3>1, <3>2, OrdersAgree, RowsAreEntries
    <2> QED BY <2>1, <2>2, <2>3 DEF OfficialAfter
<1>4. ASSUME NEW b \in OfficialAfter(start), b \notin rows PROVE b \in OfficialAfter(last)
    <2>1. InOrder(last, b) /\ b \in OfficialRows
        BY <1>1, <1>2, <1>4 DEF AreFirst
    <2>2. OfficialPrecedes(last, b)
        BY <1>2, <2>1, OrdersAgree, RowsAreEntries
    <2> QED BY <1>4, <2>2 DEF OfficialAfter
<1> QED BY <1>2, <1>3, <1>4

(* As many rows that come first are the same rows. *)
LEMMA AsManyAreTheSame ==
    ASSUME ListTyped, NEW all, all \subseteq Entries, IsFiniteSet(all), NEW P, NEW Q,
           AreFirst(P, all), AreFirst(Q, all), Cardinality(P) = Cardinality(Q)
    PROVE  P = Q
<1>1. P \subseteq Q \/ Q \subseteq P
    <2> SUFFICES ASSUME NEW p \in P, p \notin Q, NEW q \in Q, q \notin P PROVE FALSE
        OBVIOUS
    <2>1. InOrder(p, q) /\ InOrder(q, p) /\ p \in Entries /\ q \in Entries
        BY DEF AreFirst
    <2> QED BY <2>1, OrderIsTotal DEF ListTyped
<1>2. IsFiniteSet(P) /\ IsFiniteSet(Q)
    BY FS_Subset DEF AreFirst
<1> QED BY <1>1, <1>2, FS_Subset


LEMMA ProgressMoves ==
    ASSUME NEW rows, NEW left, Progress(rows, left), NEW rest,
           \A x \in Due : Entry(x) \in rest <=> Entry(x) \in left
    PROVE  Progress(rows, rest)
BY DEF Progress

(* To read the row that comes first of those that are left. *)
LEMMA ProgressTakes ==
    ASSUME ListTyped, NEW rows, NEW left, Progress(rows, left), NEW a \in Entries, NEW rest,
           a.thread \in Due => a = Entry(a.thread) /\ a \in left,
           \A x \in Due : Entry(x) \in left /\ Entry(x) # a => InOrder(a, Entry(x)),
           \A x \in Due : Entry(x) \in rest <=> Entry(x) \in left /\ Entry(x) # a
    PROVE  Progress(Append(rows, a), rest)
<1>1. PICK new : new = Append(rows, a)
    OBVIOUS
<1>2. /\ new \in Seq(Entries) /\ Len(new) = Len(rows) + 1 /\ rows \in Seq(Entries)
      /\ \A n \in DOMAIN rows : new[n] = rows[n] /\ n \in DOMAIN new /\ n < Len(new)
      /\ new[Len(new)] = a /\ Len(new) \in DOMAIN new
      /\ \A n \in DOMAIN new : n \in DOMAIN rows \/ n = Len(new)
      /\ DOMAIN rows \subseteq Nat /\ Len(rows) \in Nat
    BY <1>1 DEF Progress
<1>3. \A n \in DOMAIN new : new[n].thread \in Due => new[n] = Entry(new[n].thread)
    BY <1>2 DEF Progress
<1>4. ASSUME NEW n \in DOMAIN new, NEW m \in DOMAIN new, n < m,
             new[n].thread \in Due, new[m].thread \in Due
      PROVE  InOrder(new[n], new[m])
    <2>1. n \in DOMAIN rows
        BY <1>2, <1>4
    <2>2. CASE m \in DOMAIN rows
        BY <1>2, <1>4, <2>1, <2>2 DEF Progress
    <2>3. CASE m = Len(new)
        BY <1>2, <1>4, <2>1, <2>3 DEF Progress
    <2> QED BY <1>2, <2>2, <2>3
<1>5. ASSUME NEW x \in Due
      PROVE  Entry(x) \in rest <=> \A n \in DOMAIN new : new[n].thread # x
    <2>1. Entry(x).thread = x
        BY DEF Entry
    <2>2. Entry(x) = a <=> a.thread = x
        BY <2>1
    <2>3. Entry(x) \in left <=> \A n \in DOMAIN rows : rows[n].thread # x
        BY DEF Progress
    <2> QED BY <1>2, <2>2, <2>3
<1>6. ASSUME NEW x \in Due, Entry(x) \in rest, NEW n \in DOMAIN new, new[n].thread \in Due
      PROVE  InOrder(new[n], Entry(x))
    <2>1. CASE n \in DOMAIN rows
        BY <1>2, <1>6, <2>1 DEF Progress
    <2>2. CASE n = Len(new)
        BY <1>2, <1>6, <2>2
    <2> QED BY <1>2, <2>1, <2>2
<1> QED BY <1>1, <1>2, <1>3, <1>4, <1>5, <1>6 DEF Progress

LEMMA AppendsBehind ==
    ASSUME NEW S, NEW s \in Seq(S), NEW t \in Seq(S), NEW a \in S
    PROVE  s \o Append(t, a) = Append(s \o t, a)
<1>1. Append(t, a) = t \o <<a>> /\ <<a>> \in Seq(S) /\ s \o t \in Seq(S)
    BY AppendIsConcat, ConcatProperties
<1>2. Append(s \o t, a) = (s \o t) \o <<a>>
    BY <1>1, AppendIsConcat
<1> QED BY <1>1, <1>2, ConcatAssociative

(* What is left of a list are rows of that list. *)
LEMMA LeftRows ==
    ASSUME ListTyped, NEW r, NEW p
    PROVE  ExternalLeft(r, p) \subseteq ExternalRows /\ OfficialLeft(r) \subseteq OfficialRows
BY AfterRows DEF ExternalLeft, OfficialLeft

LEMMA KindsDiffer == \A a : ~ (a \in ExternalRows /\ a \in OfficialRows)
BY DEF ExternalRows, OfficialRows, External, Official

(* Requests begin with what is left behind the client's cursor. *)
LEMMA BeginsGood ==
    ASSUME ListTyped, NEW p, PassGood(p), p.cursor # None,
           NEW rows, AreFirst(rows, IF p.cursor.externalDone THEN {} ELSE ExternalAfter(p.cursor.anchor)),
           NEW more \in BOOLEAN,
           more <=> rows # IF p.cursor.externalDone THEN {} ELSE ExternalAfter(p.cursor.anchor),
           ~more \/ Cardinality(rows) = Limit,
           NEW r, r = [at |-> "merging", external |-> rows, more |-> more, batched |-> FALSE,
                       batch |-> {}, left |-> {}, next |-> None, start |-> None,
                       cursor |-> p.cursor.official, done |-> p.cursor.officialDone,
                       anchor |-> p.cursor.anchor, output |-> <<>>]
    PROVE  ListingGood(r, p)
<1>1. PICK all : all = IF p.cursor.externalDone THEN {} ELSE ExternalAfter(p.cursor.anchor)
    OBVIOUS
<1>2. /\ AreFirst(rows, all) /\ (more <=> rows # all) /\ all = ExternalLeft(r, p)
      /\ all \subseteq ExternalRows /\ IsFiniteSet(all)
    BY <1>1, AfterRows, FS_EmptySet DEF ExternalLeft
<1>3. rows \subseteq all /\ IsFiniteSet(rows) /\ rows \subseteq ExternalRows
    BY <1>2, FS_Subset DEF AreFirst
<1>4. /\ p.cursor.official \in OfficialRows \cup {None} /\ p.cursor.officialDone \in BOOLEAN
      /\ p.cursor.anchor \in ExternalRows \cup {None} /\ p.cursor.externalDone \in BOOLEAN
      /\ p.listed \in Seq(Entries)
    BY DEF PassGood, Passes, HostCursors
<1>5. r \in Requests
    BY <1>3, <1>4 DEF Requests
<1>6. Progress(p.listed \o r.output, ExternalLeft(r, p) \cup OfficialLeft(r))
    <2>1. p.listed \o r.output = p.listed
        BY <1>4
    <2>2. ExternalLeft(r, p) \cup OfficialLeft(r) = LeftBehind(p.cursor)
        BY DEF LeftBehind, ExternalLeft, OfficialLeft
    <2> QED BY <2>1, <2>2 DEF PassGood
<1>7. ExternalGood(r, p)
    <2>1. ASSUME NEW a \in rows
          PROVE  /\ a \in Listed(External) /\ (p.cursor.anchor = None \/ Precedes(p.cursor.anchor, a))
        BY <1>1, <1>2, <1>3 DEF ExternalAfter
    <2>2. \A a \in rows : a.thread \in Due => a = Entry(a.thread)
        BY <2>1 DEF Listed, Entry
    <2>3. ASSUME NEW x \in Due, Entry(x) \in all, Entry(x) \notin rows
          PROVE  more /\ \A a \in rows : InOrder(a, Entry(x))
        BY <1>2, <2>3 DEF AreFirst
    <2>4. p.cursor.externalDone => rows = {} /\ ~more
        BY <1>1, <1>2, <1>3
    <2>5. more => Cardinality(rows) + Len(r.output) >= Limit
        BY ListConstants
    <2> QED BY <1>2, <1>3, <2>1, <2>2, <2>3, <2>4, <2>5 DEF ExternalGood
<1> QED BY <1>5, <1>6, <1>7 DEF ListingGood

LEMMA AsksGood ==
    ASSUME NEW p, NEW r, ListingGood(r, p), ~r.done, ~r.batched,
           NEW q, q = [r EXCEPT !.at = "asked", !.start = r.cursor]
    PROVE  ListingGood(q, p)
<1>1. /\ q \in Requests /\ q.output = r.output /\ q.anchor = r.anchor /\ q.done = r.done
      /\ q.batched = r.batched /\ q.cursor = r.cursor /\ q.external = r.external /\ q.more = r.more
      /\ q.at = "asked" /\ q.start = r.cursor
    BY DEF ListingGood, Requests
<1>2. ExternalLeft(q, p) = ExternalLeft(r, p) /\ OfficialLeft(q) = OfficialLeft(r)
    BY <1>1 DEF ExternalLeft, OfficialLeft
<1>3. ExternalGood(q, p)
    BY <1>1, <1>2 DEF ListingGood, ExternalGood
<1> QED BY <1>1, <1>2, <1>3 DEF ListingGood

LEMMA ArrivesGood ==
    ASSUME ListTyped, NEW p, NEW r, ListingGood(r, p), r.at = "asked",
           NEW rows, NEW next \in rows \cup {None}, AnswersOfficial(rows, next, r.start, Limit),
           NEW q, q = [r EXCEPT !.at = "merging", !.batched = TRUE, !.batch = rows, !.left = rows,
                                !.next = next]
    PROVE  ListingGood(q, p)
<1>1. rows \subseteq OfficialAfter(r.start) /\ rows \subseteq OfficialRows
    BY AfterRows DEF AnswersOfficial, AreFirst
<1>2. r \in Requests /\ ~r.done /\ ~r.batched /\ r.start = r.cursor
    BY DEF ListingGood
<1>3. /\ q \in Requests /\ q.output = r.output /\ q.anchor = r.anchor /\ q.done = r.done
      /\ q.batched = TRUE /\ q.cursor = r.cursor /\ q.external = r.external /\ q.more = r.more
      /\ q.at = "merging" /\ q.start = r.start /\ q.batch = rows /\ q.left = rows /\ q.next = next
    BY <1>1, <1>2 DEF Requests
<1>4. ExternalLeft(q, p) = ExternalLeft(r, p) /\ OfficialLeft(q) = OfficialLeft(r)
    <2>1. PICK all : all = OfficialAfter(r.cursor)
        OBVIOUS
    <2>2. OfficialLeft(r) = all
        BY <1>2, <2>1 DEF OfficialLeft
    <2>3. OfficialLeft(q) = all \ (rows \ rows)
        BY <1>2, <1>3, <2>1 DEF OfficialLeft
    <2> QED BY <1>3, <2>2, <2>3 DEF ExternalLeft
<1>5. ExternalGood(q, p)
    BY <1>3, <1>4 DEF ListingGood, ExternalGood
<1>6. BatchGood(q)
    BY <1>3 DEF BatchGood, AnswersOfficial
<1> QED BY <1>3, <1>4, <1>5, <1>6 DEF ListingGood

(* What is left of the official list when a batch is used up. *)
LEMMA BatchUsed ==
    ASSUME ListTyped, NEW r \in Requests, BatchGood(r), r.left = {}, ~r.done, r.batched
    PROVE  OfficialLeft(r) = IF r.next = None THEN {} ELSE OfficialAfter(r.next)
<1>1. OfficialLeft(r) = OfficialAfter(r.start) \ r.batch
    BY DEF OfficialLeft
<1>2. CASE r.batch = OfficialAfter(r.start)
    BY <1>1, <1>2 DEF BatchGood
<1>3. CASE r.batch # OfficialAfter(r.start)
    <2>1. r.next \in OfficialRows /\ OfficialAfter(r.next) = OfficialAfter(r.start) \ r.batch
        BY <1>3, BehindTheLast DEF BatchGood, Requests
    <2> QED BY <1>1, <2>1, NoneIsNoRow
<1> QED BY <1>2, <1>3

LEMMA EndsBatchGood ==
    ASSUME ListTyped, NEW p, NEW r, ListingGood(r, p), ~r.done, r.batched, r.left = {},
           r.at = "merging",
           NEW q, q = [r EXCEPT !.cursor = r.next, !.done = r.next = None, !.batched = FALSE]
    PROVE  ListingGood(q, p)
<1>1. BatchGood(r) /\ r \in Requests
    BY DEF ListingGood
<1>2. PICK over \in BOOLEAN : over <=> r.next = None
    OBVIOUS
<1>3. (r.next = None) = over
    BY <1>2
<1>4. /\ q \in Requests /\ q.output = r.output /\ q.anchor = r.anchor /\ (q.done <=> r.next = None)
      /\ q.batched = FALSE /\ q.cursor = r.next /\ q.external = r.external /\ q.more = r.more
      /\ q.at = "merging"
    BY <1>1, <1>2, <1>3 DEF Requests
<1>5. OfficialLeft(q) = OfficialLeft(r)
    BY <1>1, <1>4, BatchUsed DEF OfficialLeft
<1>6. ExternalLeft(q, p) = ExternalLeft(r, p)
    BY <1>4 DEF ExternalLeft
<1>7. ExternalGood(q, p)
    BY <1>4, <1>6 DEF ListingGood, ExternalGood
<1> QED BY <1>4, <1>5, <1>6, <1>7 DEF ListingGood


LEMMA PassesOverGood ==
    ASSUME ListTyped, NEW p, NEW r, ListingGood(r, p), ~r.done, r.batched, r.at = "merging",
           NEW a \in r.left, IsFirst(a, r.left), a.thread[2] \in OwnIds,
           NEW q, q = [r EXCEPT !.left = @ \ {a}]
    PROVE  ListingGood(q, p)
<1>1. BatchGood(r) /\ r \in Requests
    BY DEF ListingGood
<1>2. /\ q \in Requests /\ q.output = r.output /\ q.anchor = r.anchor /\ q.done = r.done
      /\ q.batched = r.batched /\ q.cursor = r.cursor /\ q.external = r.external /\ q.more = r.more
      /\ q.at = "merging" /\ q.start = r.start /\ q.batch = r.batch /\ q.left = r.left \ {a}
      /\ q.next = r.next
    BY <1>1 DEF Requests
<1>3. a \in OfficialRows /\ a.thread \in Official
    BY <1>1 DEF Requests, OfficialRows
<1>4. \A x \in Due : Entry(x) # a
    BY <1>3, DueIsListed
<1>5. \A x \in Due : Entry(x) \in ExternalLeft(q, p) \cup OfficialLeft(q)
                        <=> Entry(x) \in ExternalLeft(r, p) \cup OfficialLeft(r)
    <2>1. ExternalLeft(q, p) = ExternalLeft(r, p)
        BY <1>2 DEF ExternalLeft
    <2>2. OfficialLeft(q) = OfficialLeft(r) \ {a}
        BY <1>1, <1>2 DEF OfficialLeft, BatchGood
    <2> QED BY <1>4, <2>1, <2>2
<1>6. Progress(p.listed \o q.output, ExternalLeft(q, p) \cup OfficialLeft(q))
    <2>1. PICK rows, left, rest : /\ rows = p.listed \o r.output
                                  /\ left = ExternalLeft(r, p) \cup OfficialLeft(r)
                                  /\ rest = ExternalLeft(q, p) \cup OfficialLeft(q)
        OBVIOUS
    <2>2. Progress(rows, left)
        BY <2>1 DEF ListingGood
    <2>3. Progress(rows, rest)
        BY <1>5, <2>1, <2>2, ProgressMoves
    <2> QED BY <1>2, <2>1, <2>3
<1>7. BatchGood(q)
    <2>1. \A b \in q.left : InOrder(a, b)
        BY <1>2 DEF IsFirst
    <2> QED BY <1>1, <1>2, <2>1 DEF BatchGood
<1>8. ExternalGood(q, p)
    BY <1>2 DEF ListingGood, ExternalGood, ExternalLeft
<1> QED BY <1>2, <1>6, <1>7, <1>8 DEF ListingGood

(* The first row of the batch comes before every other official row that is left. *)
LEMMA FirstOfBatch ==
    ASSUME ListTyped, NEW p, NEW r, ListingGood(r, p), ~r.done, r.batched,
           NEW b \in r.left, IsFirst(b, r.left)
    PROVE  /\ b \in OfficialRows /\ b \in OfficialLeft(r)
           /\ \A y \in OfficialLeft(r) : y # b => InOrder(b, y)
<1>1. BatchGood(r) /\ r \in Requests
    BY DEF ListingGood
<1>2. /\ r.left \subseteq r.batch /\ r.batch \subseteq OfficialAfter(r.start)
      /\ \A x \in r.batch, y \in OfficialAfter(r.start) \ r.batch : InOrder(x, y)
    BY <1>1 DEF BatchGood, AreFirst
<1>3. OfficialLeft(r) = OfficialAfter(r.start) \ (r.batch \ r.left)
    BY DEF OfficialLeft
<1> QED BY <1>1, <1>2, <1>3 DEF Requests, IsFirst

(* A row of the page comes before the external rows that are left. *)
LEMMA FirstOfPage ==
    ASSUME ListTyped, NEW p, NEW r, ListingGood(r, p), NEW a \in r.external, IsFirst(a, r.external)
    PROVE  /\ a \in ExternalRows
           /\ a.thread \in Due => a = Entry(a.thread) /\ a \in ExternalLeft(r, p)
           /\ \A x \in Due : Entry(x) \in ExternalLeft(r, p) /\ Entry(x) # a => InOrder(a, Entry(x))
<1>1. ExternalGood(r, p) /\ r \in Requests
    BY DEF ListingGood
<1>2. a \in ExternalRows /\ a.thread \in External
    BY <1>1 DEF Requests, ExternalRows
<1>3. ASSUME a.thread \in Due PROVE a = Entry(a.thread) /\ a \in ExternalLeft(r, p)
    <2>1. a = Entry(a.thread) /\ ~p.cursor.externalDone
        BY <1>1, <1>3 DEF ExternalGood
    <2>2. a \in Listed(External)
        BY <1>2, <1>3, <2>1, DueIsListed
    <2> QED BY <1>1, <2>1, <2>2 DEF ExternalGood, ExternalLeft, ExternalAfter
<1>4. ASSUME NEW x \in Due, Entry(x) \in ExternalLeft(r, p), Entry(x) # a PROVE InOrder(a, Entry(x))
    BY <1>1, <1>4 DEF ExternalGood, IsFirst
<1> QED BY <1>2, <1>3, <1>4

LEMMA TakesExternalGood ==
    ASSUME ListTyped, NEW p, p.listed \in Seq(Entries), NEW r, ListingGood(r, p), r.at = "merging",
           NEW a \in r.external, IsFirst(a, r.external),
           r.done \/ \E b \in r.left : /\ ~r.done /\ r.batched /\ IsFirst(b, r.left)
                                       /\ Precedes(a, b),
           NEW q, q = [r EXCEPT !.output = Append(@, a), !.external = @ \ {a}, !.anchor = a]
    PROVE  ListingGood(q, p)
<1>1. ExternalGood(r, p) /\ r \in Requests /\ (~r.done /\ r.batched => BatchGood(r))
    BY DEF ListingGood
<1>2. /\ a \in ExternalRows /\ a \in Entries /\ a # None
      /\ a.thread \in Due => a = Entry(a.thread) /\ a \in ExternalLeft(r, p)
      /\ \A x \in Due : Entry(x) \in ExternalLeft(r, p) /\ Entry(x) # a => InOrder(a, Entry(x))
    BY FirstOfPage, NoneIsNoRow, RowsAreEntries
<1>3. /\ r.output \in Seq(Entries) /\ Append(r.output, a) \in Seq(Entries)
      /\ Len(Append(r.output, a)) = Len(r.output) + 1 /\ Len(r.output) \in Nat
    BY <1>1, <1>2 DEF Requests
<1>4. /\ q \in Requests /\ q.output = Append(r.output, a) /\ q.anchor = a /\ q.done = r.done
      /\ q.batched = r.batched /\ q.cursor = r.cursor /\ q.external = r.external \ {a}
      /\ q.more = r.more /\ q.at = "merging" /\ q.start = r.start /\ q.batch = r.batch
      /\ q.left = r.left /\ q.next = r.next
    BY <1>1, <1>2, <1>3 DEF Requests
<1>5. OfficialLeft(q) = OfficialLeft(r)
    BY <1>4 DEF OfficialLeft
<1>6. \A x \in Due : Entry(x) \in ExternalLeft(q, p) <=> Entry(x) \in ExternalLeft(r, p) /\ Entry(x) # a
    <2> SUFFICES ASSUME NEW x \in Due
                 PROVE  Entry(x) \in ExternalLeft(q, p)
                            <=> Entry(x) \in ExternalLeft(r, p) /\ Entry(x) # a
        OBVIOUS
    <2>1. ASSUME Entry(x) \in ExternalLeft(q, p) PROVE Entry(x) \in ExternalLeft(r, p) /\ Entry(x) # a
        <3>1. /\ ~p.cursor.externalDone /\ Entry(x) \in Listed(External) /\ Precedes(a, Entry(x))
              /\ Entry(x) \in ExternalRows
            BY <1>2, <1>4, <2>1, AfterRows DEF ExternalLeft, ExternalAfter
        <3>2. InOrder(a, Entry(x)) /\ Entry(x) # a
            BY <1>2, <3>1, OrdersAgree, OrderIsTotal, RowsAreEntries DEF ListTyped
        <3>3. r.anchor = None \/ (r.anchor \in ExternalRows /\ InOrder(r.anchor, a))
            BY <1>1, <1>2, OrdersAgree, RowsAreEntries DEF ExternalGood, Requests
        <3>4. r.anchor = None \/ Precedes(r.anchor, Entry(x))
            BY <1>2, <3>1, <3>2, <3>3, OrdersAgree, OrderIsTotal, RowsAreEntries DEF ListTyped
        <3> QED BY <3>1, <3>2, <3>4 DEF ExternalLeft, ExternalAfter
    <2>2. ASSUME Entry(x) \in ExternalLeft(r, p), Entry(x) # a PROVE Entry(x) \in ExternalLeft(q, p)
        <3>1. InOrder(a, Entry(x)) /\ Entry(x) \in ExternalRows
            BY <1>2, <2>2, LeftRows
        <3>2. Precedes(a, Entry(x))
            BY <1>2, <3>1, OrdersAgree, RowsAreEntries
        <3> QED BY <1>4, <2>2, <3>2 DEF ExternalLeft, ExternalAfter
    <2> QED BY <2>1, <2>2
<1>7. ASSUME NEW x \in Due, Entry(x) \in OfficialLeft(r) PROVE InOrder(a, Entry(x)) /\ Entry(x) # a
    <2>1. ~r.done /\ Entry(x) \in OfficialRows
        BY <1>7, LeftRows DEF OfficialLeft
    <2>2. PICK b \in r.left : r.batched /\ IsFirst(b, r.left) /\ Precedes(a, b)
        BY <2>1
    <2>3. b \in OfficialRows /\ (Entry(x) # b => InOrder(b, Entry(x)))
        BY <1>7, <2>1, <2>2, FirstOfBatch
    <2>4. InOrder(a, b)
        BY <1>2, <2>2, <2>3, OrdersAgree, RowsAreEntries
    <2> QED BY <1>2, <2>1, <2>3, <2>4, OrderIsTotal, KindsDiffer, RowsAreEntries DEF ListTyped
<1>8. Progress(p.listed \o q.output, ExternalLeft(q, p) \cup OfficialLeft(q))
    <2>1. PICK rows, left, rest : /\ rows = p.listed \o r.output
                                  /\ left = ExternalLeft(r, p) \cup OfficialLeft(r)
                                  /\ rest = ExternalLeft(q, p) \cup OfficialLeft(q)
        OBVIOUS
    <2>2. Progress(rows, left)
        BY <2>1 DEF ListingGood
    <2>3. a.thread \in Due => a = Entry(a.thread) /\ a \in left
        BY <1>2, <2>1
    <2>4. \A x \in Due : Entry(x) \in left /\ Entry(x) # a => InOrder(a, Entry(x))
        BY <1>2, <1>7, <2>1
    <2>5. \A x \in Due : Entry(x) \in rest <=> Entry(x) \in left /\ Entry(x) # a
        BY <1>5, <1>6, <1>7, <2>1
    <2>6. Progress(Append(rows, a), rest)
        BY <1>2, <2>2, <2>3, <2>4, <2>5, ProgressTakes
    <2>7. p.listed \o Append(r.output, a) = Append(p.listed \o r.output, a)
        <3>1. PICK s, t : s = p.listed /\ t = r.output
            OBVIOUS
        <3>2. s \in Seq(Entries) /\ t \in Seq(Entries) /\ a \in Entries
            BY <1>2, <1>3, <3>1
        <3>3. s \o Append(t, a) = Append(s \o t, a)
            BY <3>2, AppendsBehind
        <3> QED BY <3>1, <3>3
    <2> QED BY <1>4, <2>1, <2>6, <2>7
<1>9. ExternalGood(q, p)
    <2>1. IsFiniteSet(q.external) /\ Cardinality(q.external) = Cardinality(r.external) - 1
        BY <1>1, <1>4, FS_RemoveElement DEF ExternalGood
    <2>2. \A b \in q.external : Precedes(a, b) /\ InOrder(a, b)
        <3>1. \A b \in q.external : b \in ExternalRows /\ InOrder(a, b)
            BY <1>1, <1>4 DEF IsFirst, Requests
        <3> QED BY <1>2, <3>1, OrdersAgree, RowsAreEntries
    <2>3. ASSUME NEW x \in Due, Entry(x) \in ExternalLeft(q, p)
          PROVE  Entry(x) \in q.external \/ (q.more /\ \A b \in q.external : InOrder(b, Entry(x)))
        BY <1>1, <1>4, <1>6, <2>3 DEF ExternalGood
    <2>4. q.more => Cardinality(q.external) + Len(q.output) >= Limit
        <3>1. Cardinality(r.external) \in Nat
            BY <1>1, FS_CardinalityType DEF ExternalGood
        <3> QED BY <1>1, <1>3, <1>4, <2>1, <3>1, ListConstants DEF ExternalGood
    <2> QED BY <1>1, <1>4, <2>1, <2>2, <2>3, <2>4 DEF ExternalGood
<1>10. ~q.done /\ q.batched => BatchGood(q)
    BY <1>1, <1>4 DEF BatchGood
<1> QED BY <1>4, <1>8, <1>9, <1>10 DEF ListingGood


LEMMA TakesOfficialGood ==
    ASSUME ListTyped, NEW p, p.listed \in Seq(Entries), NEW r, ListingGood(r, p), r.at = "merging",
           Len(r.output) < Limit, ~r.done, r.batched, NEW b \in r.left, IsFirst(b, r.left),
           b.thread[2] \notin OwnIds, \A a \in r.external : ~Precedes(a, b),
           NEW q, q = [r EXCEPT !.output = Append(@, b), !.left = @ \ {b}]
    PROVE  ListingGood(q, p)
<1>1. ExternalGood(r, p) /\ r \in Requests /\ BatchGood(r)
    BY DEF ListingGood
<1>2. /\ b \in OfficialRows /\ b \in Entries /\ b \in OfficialLeft(r)
      /\ \A y \in OfficialLeft(r) : y # b => InOrder(b, y)
    BY FirstOfBatch, RowsAreEntries
<1>3. /\ r.output \in Seq(Entries) /\ Append(r.output, b) \in Seq(Entries)
      /\ Len(Append(r.output, b)) = Len(r.output) + 1 /\ Len(r.output) \in Nat
    BY <1>1, <1>2 DEF Requests
<1>4. /\ q \in Requests /\ q.output = Append(r.output, b) /\ q.anchor = r.anchor /\ q.done = r.done
      /\ q.batched = r.batched /\ q.cursor = r.cursor /\ q.external = r.external
      /\ q.more = r.more /\ q.at = "merging" /\ q.start = r.start /\ q.batch = r.batch
      /\ q.left = r.left \ {b} /\ q.next = r.next
    BY <1>1, <1>3 DEF Requests
<1>5. OfficialLeft(q) = OfficialLeft(r) \ {b} /\ ExternalLeft(q, p) = ExternalLeft(r, p)
    BY <1>1, <1>4 DEF OfficialLeft, ExternalLeft, BatchGood
<1>6. ASSUME NEW x \in Due, Entry(x) \in ExternalLeft(r, p)
      PROVE  InOrder(b, Entry(x)) /\ Entry(x) # b
    <2>1. Entry(x) \in ExternalRows
        BY <1>6, LeftRows
    <2>2. \A a \in r.external : a \in ExternalRows /\ InOrder(b, a)
        <3>1. \A a \in r.external : a \in ExternalRows /\ ~InOrder(a, b)
            BY <1>1, <1>2, OrdersAgree, RowsAreEntries DEF Requests
        <3> QED BY <1>2, <3>1, KindsDiffer, OrderIsTotal, RowsAreEntries DEF ListTyped
    <2>3. CASE Entry(x) \in r.external
        BY <1>2, <2>1, <2>2, <2>3, KindsDiffer
    <2>4. CASE r.more /\ \A a \in r.external : InOrder(a, Entry(x))
        <3>1. Cardinality(r.external) > 0
            BY <1>1, <1>3, <2>4, FS_CardinalityType, ListConstants DEF ExternalGood
        <3>2. PICK a \in r.external : TRUE
            <4>1. ASSUME r.external = {} PROVE FALSE
                <5>1. Cardinality(r.external) = 0
                    BY <4>1, FS_EmptySet
                <5> QED BY <3>1, <5>1
            <4> QED BY <4>1
        <3>3. InOrder(b, a) /\ InOrder(a, Entry(x)) /\ a \in ExternalRows
            BY <2>2, <2>4
        <3> QED BY <1>2, <2>1, <3>3, KindsDiffer, OrderIsTotal, RowsAreEntries DEF ListTyped
    <2> QED BY <1>1, <1>6, <2>3, <2>4 DEF ExternalGood
<1>7. Progress(p.listed \o q.output, ExternalLeft(q, p) \cup OfficialLeft(q))
    <2>1. PICK rows, left, rest : /\ rows = p.listed \o r.output
                                  /\ left = ExternalLeft(r, p) \cup OfficialLeft(r)
                                  /\ rest = ExternalLeft(q, p) \cup OfficialLeft(q)
        OBVIOUS
    <2>2. Progress(rows, left)
        BY <2>1 DEF ListingGood
    <2>3. b.thread \in Due => b = Entry(b.thread) /\ b \in left
        <3>1. b \in Listed(Official)
            BY <1>2 DEF OfficialLeft, OfficialAfter
        <3> QED BY <1>2, <2>1, <3>1 DEF Listed, Entry
    <2>4. \A x \in Due : Entry(x) \in left /\ Entry(x) # b => InOrder(b, Entry(x))
        BY <1>2, <1>6, <2>1
    <2>5. \A x \in Due : Entry(x) \in rest <=> Entry(x) \in left /\ Entry(x) # b
        BY <1>5, <1>6, <2>1
    <2>6. Progress(Append(rows, b), rest)
        BY <1>2, <2>2, <2>3, <2>4, <2>5, ProgressTakes
    <2>7. p.listed \o Append(r.output, b) = Append(p.listed \o r.output, b)
        <3>1. PICK s, t : s = p.listed /\ t = r.output
            OBVIOUS
        <3>2. s \in Seq(Entries) /\ t \in Seq(Entries) /\ b \in Entries
            BY <1>2, <1>3, <3>1
        <3>3. s \o Append(t, b) = Append(s \o t, b)
            BY <3>2, AppendsBehind
        <3> QED BY <3>1, <3>3
    <2> QED BY <1>4, <2>1, <2>6, <2>7
<1>8. ExternalGood(q, p)
    BY <1>1, <1>3, <1>4, <1>5, FS_CardinalityType, ListConstants DEF ExternalGood
<1>9. BatchGood(q)
    <2>1. \A y \in q.left : InOrder(b, y)
        BY <1>4 DEF IsFirst
    <2> QED BY <1>1, <1>4, <2>1 DEF BatchGood
<1> QED BY <1>4, <1>7, <1>8, <1>9 DEF ListingGood

(* A page with a cursor behind what was read of the official list. *)
LEMMA PageGood ==
    ASSUME ListTyped, pass \in Passes, NEW r, ListingGood(r, pass),
           NEW official \in OfficialRows \cup {None}, NEW done \in BOOLEAN,
           OfficialLeft(r) = IF done THEN {} ELSE OfficialAfter(official),
           NEW q, q = Page(r, official, done)
    PROVE  PassGood(q) /\ q.direction = pass.direction
<1>1. r \in Requests /\ ExternalGood(r, pass) /\ pass.cursor # None
    BY DEF ListingGood
<1>2. PICK over \in BOOLEAN : over <=> r.external = {} /\ ~r.more
    OBVIOUS
<1>3. PICK rows : rows = pass.listed \o r.output
    OBVIOUS
<1>4. PICK c : c = IF over /\ done THEN None ELSE Cursor(official, done, r.anchor, over)
    OBVIOUS
<1>5. q = [pass EXCEPT !.listed = rows, !.cursor = c]
    <2>1. (r.external = {} /\ ~r.more) = over
        BY <1>2
    <2> QED BY <1>3, <1>4, <2>1 DEF Page
<1>6. c \in HostCursors \cup {None}
    BY <1>1, <1>4 DEF Cursor, HostCursors, Requests
<1>7. rows \in Seq(Entries)
    BY <1>1, <1>3, ConcatProperties DEF Passes, Requests
<1>8. q \in Passes /\ q.direction = pass.direction /\ q.listed = rows /\ q.cursor = c
    BY <1>5, <1>6, <1>7 DEF Passes
<1>9. ASSUME NEW x \in Due
      PROVE  Entry(x) \in LeftBehind(c) <=> Entry(x) \in ExternalLeft(r, pass) \cup OfficialLeft(r)
    <2>1. over => Entry(x) \notin ExternalLeft(r, pass)
        BY <1>1, <1>2 DEF ExternalGood
    <2>2. ~over => ExternalLeft(r, pass) = ExternalAfter(r.anchor)
        BY <1>1, <1>2 DEF ExternalGood, ExternalLeft
    <2>3. CASE over /\ done
        BY <1>4, <2>1, <2>3 DEF LeftBehind
    <2>4. CASE ~ (over /\ done)
        <3>1. c # None /\ c.externalDone = over /\ c.officialDone = done /\ c.anchor = r.anchor
              /\ c.official = official
            <4>1. c \in HostCursors
                BY <1>1, <1>4, <2>4 DEF Cursor, HostCursors, Requests
            <4> QED BY <1>4, <2>4, <4>1, NoneIsNoRow DEF Cursor
        <3> QED BY <2>1, <2>2, <3>1 DEF LeftBehind
    <2> QED BY <2>3, <2>4
<1>10. Progress(rows, LeftBehind(c))
    <2>1. PICK left, rest : left = ExternalLeft(r, pass) \cup OfficialLeft(r) /\ rest = LeftBehind(c)
        OBVIOUS
    <2>2. Progress(rows, left)
        BY <1>3, <2>1 DEF ListingGood
    <2>3. Progress(rows, rest)
        BY <1>9, <2>1, <2>2, ProgressMoves
    <2> QED BY <2>1, <2>3
<1> QED BY <1>8, <1>10 DEF PassGood

(* The page of a request that used all of its last batch, or nothing of it. *)
WholePage(r) ==
    IF r.done \/ ~r.batched THEN Page(r, r.cursor, r.done)
    ELSE IF r.left = r.batch THEN Page(r, r.start, FALSE)
    ELSE Page(r, r.next, r.next = None)

LEMMA PageIsWholeGood ==
    ASSUME ListTyped, pass \in Passes, NEW r, ListingGood(r, pass), ~PartlyUsed(r),
           NEW q, q = WholePage(r)
    PROVE  PassGood(q) /\ q.direction = pass.direction
<1>1. r \in Requests /\ (~r.done /\ r.batched => BatchGood(r))
    BY DEF ListingGood
<1>2. /\ r.cursor \in OfficialRows \cup {None} /\ r.start \in OfficialRows \cup {None}
      /\ r.next \in OfficialRows \cup {None} /\ r.done \in BOOLEAN
    BY <1>1 DEF Requests
<1>3. CASE r.done \/ ~r.batched
    <2>1. OfficialLeft(r) = IF r.done THEN {} ELSE OfficialAfter(r.cursor)
        BY <1>3 DEF OfficialLeft
    <2>2. q = Page(r, r.cursor, r.done)
        BY <1>3 DEF WholePage
    <2> QED BY <1>2, <2>1, <2>2, PageGood
<1>4. CASE ~ (r.done \/ ~r.batched) /\ r.left = r.batch
    <2>1. PICK done \in BOOLEAN : done = FALSE
        OBVIOUS
    <2>2. OfficialLeft(r) = IF done THEN {} ELSE OfficialAfter(r.start)
        BY <1>4, <2>1 DEF OfficialLeft
    <2>3. q = Page(r, r.start, done)
        BY <1>4, <2>1 DEF WholePage
    <2> QED BY <1>2, <2>2, <2>3, PageGood
<1>5. CASE ~ (r.done \/ ~r.batched) /\ r.left # r.batch
    <2>1. PICK done \in BOOLEAN : done = (r.next = None)
        OBVIOUS
    <2>2. r.left = {}
        BY <1>5 DEF PartlyUsed
    <2>3. OfficialLeft(r) = IF done THEN {} ELSE OfficialAfter(r.next)
        BY <1>1, <1>5, <2>1, <2>2, BatchUsed
    <2>4. q = Page(r, r.next, done)
        BY <1>5, <2>1 DEF WholePage
    <2> QED BY <1>2, <2>3, <2>4, PageGood
<1> QED BY <1>3, <1>4, <1>5

LEMMA ExactGood ==
    ASSUME ListTyped, pass \in Passes, NEW r, ListingGood(r, pass), r.at = "exact",
           NEW rows, NEW next \in rows \cup {None},
           AnswersOfficial(rows, next, r.start, Cardinality(r.batch \ r.left)),
           Cardinality(rows) = Cardinality(r.batch \ r.left), next # None,
           NEW q, q = Page(r, next, FALSE)
    PROVE  PassGood(q) /\ q.direction = pass.direction
<1>1. r \in Requests /\ PartlyUsed(r) /\ ~r.done /\ r.batched /\ BatchGood(r)
    BY DEF ListingGood, PartlyUsed
<1>2. PICK all : all = OfficialAfter(r.start)
    OBVIOUS
<1>3. /\ AreFirst(rows, all) /\ rows # all /\ IsLast(next, rows)
      /\ all \subseteq OfficialRows /\ IsFiniteSet(all) /\ all \subseteq Entries
    BY <1>2, AfterRows, RowsAreEntries DEF AnswersOfficial
<1>4. AreFirst(r.batch \ r.left, all)
    BY <1>1, <1>2 DEF BatchGood, AreFirst
<1>5. PICK spent : spent = r.batch \ r.left
    OBVIOUS
<1>6. rows = spent
    BY <1>3, <1>4, <1>5, AsManyAreTheSame
<1>7. next \in OfficialRows /\ OfficialAfter(next) = all \ rows
    BY <1>1, <1>2, <1>3, BehindTheLast DEF Requests
<1>8. PICK done \in BOOLEAN : done = FALSE
    OBVIOUS
<1>9. OfficialLeft(r) = IF done THEN {} ELSE OfficialAfter(next)
    BY <1>1, <1>2, <1>5, <1>6, <1>7, <1>8 DEF OfficialLeft
<1>10. q = Page(r, next, done) /\ next \in OfficialRows \cup {None}
    BY <1>7, <1>8
<1> QED BY <1>9, <1>10, PageGood

(* Between two steps a Thread a client must find keeps its row and its place, though others change,
   and what was right of a cursor or of a request stays right. *)
LEMMA DueStays ==
    ASSUME changed \subseteq changed', pass'.direction = pass.direction,
           \A x \in AllThreads \ changed' : sortedAt'[x] = sortedAt[x]
    PROVE  /\ Due' \subseteq Due
           /\ \A x \in Due' : Entry(x)' = Entry(x)
           /\ \A a, b : InOrder(a, b)' <=> InOrder(a, b)
           /\ \A a, b : Precedes(a, b)' <=> Precedes(a, b)
           /\ \A c : \A x \in Due' : Entry(x) \in ExternalAfter(c)' <=> Entry(x) \in ExternalAfter(c)
           /\ \A c : \A x \in Due' : Entry(x) \in OfficialAfter(c)' <=> Entry(x) \in OfficialAfter(c)
<1>1. \A x \in Due' : x \in AllThreads /\ sortedAt'[x] = sortedAt[x] /\ sortedAt[x] # 0
    BY DEF Due
<1>2. Due' \subseteq Due
    BY <1>1 DEF Due
<1>3. \A x \in Due' : Entry(x)' = Entry(x)
    BY <1>1 DEF Entry
<1>4. /\ \A a, b : InOrder(a, b)' <=> InOrder(a, b)
      /\ \A a, b : Precedes(a, b)' <=> Precedes(a, b)
      /\ \A a, b : OfficialPrecedes(a, b)' <=> OfficialPrecedes(a, b)
    BY DEF InOrder, Precedes, OfficialPrecedes, Earlier
<1>5. ASSUME NEW source \in {External, Official}, NEW x \in Due'
      PROVE  Entry(x) \in Listed(source)' <=> Entry(x) \in Listed(source)
    <2>1. Entry(x) \in Listed(source) <=> x \in source
        BY <1>1 DEF Listed, Entry
    <2>2. Entry(x) \in Listed(source)' <=> x \in source
        BY <1>1 DEF Listed, Entry
    <2> QED BY <2>1, <2>2
<1>6. \A c : \A x \in Due' : Entry(x) \in ExternalAfter(c)' <=> Entry(x) \in ExternalAfter(c)
    BY <1>4, <1>5 DEF ExternalAfter
<1>7. \A c : \A x \in Due' : Entry(x) \in OfficialAfter(c)' <=> Entry(x) \in OfficialAfter(c)
    BY <1>4, <1>5 DEF OfficialAfter
<1> QED BY <1>2, <1>3, <1>4, <1>6, <1>7

LEMMA ProgressStays ==
    ASSUME changed \subseteq changed', pass'.direction = pass.direction,
           \A x \in AllThreads \ changed' : sortedAt'[x] = sortedAt[x],
           NEW rows, NEW left, Progress(rows, left), NEW rest,
           \A x \in Due' : Entry(x) \in rest <=> Entry(x) \in left
    PROVE  Progress(rows, rest)'
<1>1. /\ Due' \subseteq Due
      /\ \A x \in Due' : Entry(x)' = Entry(x)
      /\ \A a, b : InOrder(a, b)' <=> InOrder(a, b)
    BY DueStays
<1> QED BY <1>1 DEF Progress

LEMMA PassStays ==
    ASSUME changed \subseteq changed', pass'.direction = pass.direction,
           \A x \in AllThreads \ changed' : sortedAt'[x] = sortedAt[x],
           NEW p, p = pass', PassGood(p)
    PROVE  PassGood(pass)'
<1>1. PICK rows, left, c : rows = p.listed /\ left = LeftBehind(p.cursor) /\ c = p.cursor
    OBVIOUS
<1>2. PICK rest : rest = LeftBehind(c)'
    OBVIOUS
<1>3. \A x \in Due' : Entry(x) \in rest <=> Entry(x) \in left
    <2> SUFFICES ASSUME NEW x \in Due' PROVE Entry(x) \in rest <=> Entry(x) \in left
        OBVIOUS
    <2>1. /\ Entry(x) \in ExternalAfter(c.anchor)' <=> Entry(x) \in ExternalAfter(c.anchor)
          /\ Entry(x) \in OfficialAfter(c.official)' <=> Entry(x) \in OfficialAfter(c.official)
        BY DueStays
    <2> QED BY <1>1, <1>2, <2>1 DEF LeftBehind
<1>4. Progress(rows, left)
    BY <1>1 DEF PassGood
<1>5. Progress(rows, rest)'
    BY <1>3, <1>4, ProgressStays
<1>6. p \in Passes
    BY DEF PassGood
<1> QED BY <1>1, <1>2, <1>5, <1>6 DEF PassGood

LEMMA ListingStays ==
    ASSUME changed \subseteq changed', pass'.direction = pass.direction,
           \A x \in AllThreads \ changed' : sortedAt'[x] = sortedAt[x],
           \A x \in Official : sortedAt'[x] = sortedAt[x],
           NEW p, p = pass', NEW r, r = listing', ListingGood(r, p)
    PROVE  ListingGood(listing, pass)'
<1>1. \A c : OfficialAfter(c)' = OfficialAfter(c)
    <2>1. \A x \in Official : Entry(x)' = Entry(x)
        BY DEF Entry
    <2>2. Listed(Official)' = Listed(Official)
        BY <2>1 DEF Listed
    <2>3. \A a, b : OfficialPrecedes(a, b)' <=> OfficialPrecedes(a, b)
        BY DEF OfficialPrecedes, Earlier
    <2> QED BY <2>2, <2>3 DEF OfficialAfter
<1>2. OfficialLeft(r)' = OfficialLeft(r)
    BY <1>1 DEF OfficialLeft
<1>3. \A x \in Due' : Entry(x) \in ExternalLeft(r, p)' <=> Entry(x) \in ExternalLeft(r, p)
    <2> SUFFICES ASSUME NEW x \in Due'
                 PROVE  Entry(x) \in ExternalLeft(r, p)' <=> Entry(x) \in ExternalLeft(r, p)
        OBVIOUS
    <2>1. PICK c : c = r.anchor
        OBVIOUS
    <2>2. Entry(x) \in ExternalAfter(c)' <=> Entry(x) \in ExternalAfter(c)
        BY DueStays
    <2> QED BY <2>1, <2>2 DEF ExternalLeft
<1>4. Progress(p.listed \o r.output, ExternalLeft(r, p) \cup OfficialLeft(r))'
    <2>1. PICK rows, left : /\ rows = p.listed \o r.output
                            /\ left = ExternalLeft(r, p) \cup OfficialLeft(r)
        OBVIOUS
    <2>2. PICK rest : rest = ExternalLeft(r, p)' \cup OfficialLeft(r)'
        OBVIOUS
    <2>3. \A x \in Due' : Entry(x) \in rest <=> Entry(x) \in left
        BY <1>2, <1>3, <2>1, <2>2
    <2>4. Progress(rows, left)
        BY <2>1 DEF ListingGood
    <2>5. Progress(rows, rest)'
        BY <2>3, <2>4, ProgressStays
    <2> QED BY <2>1, <2>2, <2>5
<1>5. ExternalGood(r, p)'
    <2>1. /\ Due' \subseteq Due
          /\ \A x \in Due' : Entry(x)' = Entry(x)
          /\ \A a, b : InOrder(a, b)' <=> InOrder(a, b)
          /\ \A a, b : Precedes(a, b)' <=> Precedes(a, b)
        BY DueStays
    <2>2. ExternalGood(r, p)
        BY DEF ListingGood
    <2>3. \A a \in r.external : a.thread \in Due' => a = Entry(a.thread)'
        BY <2>1, <2>2 DEF ExternalGood
    <2>4. \A x \in Due' : Entry(x)' \in ExternalLeft(r, p)' =>
             Entry(x)' \in r.external \/ (r.more /\ \A a \in r.external : InOrder(a, Entry(x))')
        BY <1>3, <2>1, <2>2 DEF ExternalGood
    <2> QED BY <2>1, <2>2, <2>3, <2>4 DEF ExternalGood
<1>6. ~r.done /\ r.batched => BatchGood(r)'
    <2>1. \A a, b : InOrder(a, b)' <=> InOrder(a, b)
        BY DueStays
    <2> QED BY <1>1, <2>1 DEF ListingGood, BatchGood, AreFirst, IsLast
<1>7. ListingGood(r, p)'
    BY <1>4, <1>5, <1>6 DEF ListingGood, PartlyUsed
<1> QED BY <1>7

LEMMA ListBegins ==
    ASSUME InitList
    PROVE  ListInv
<1>1. PICK d \in {"asc", "desc"} :
         /\ pass = [direction |-> d, listed |-> <<>>, cursor |-> FirstCursor] /\ listing.at = "idle"
    BY DEF InitList, NoListing
<1>2. ListTyped
    BY <1>1 DEF InitList, ListTyped
<1>3. FirstCursor \in HostCursors /\ FirstCursor # None
    <2>1. FirstCursor \in HostCursors
        BY DEF FirstCursor, Cursor, HostCursors
    <2> QED BY <2>1, NoneIsNoRow
<1>4. pass \in Passes
    <2>1. <<>> \in Seq(Entries)
        OBVIOUS
    <2> QED BY <1>1, <1>3, <2>1 DEF Passes
<1>5. \A x \in Due : Entry(x) \in LeftBehind(FirstCursor)
    <2> SUFFICES ASSUME NEW x \in Due PROVE Entry(x) \in LeftBehind(FirstCursor)
        OBVIOUS
    <2>1. Entry(x) \in Listed(External) \/ Entry(x) \in Listed(Official)
        BY <1>2, DueIsListed
    <2>2. /\ FirstCursor.externalDone = FALSE /\ FirstCursor.officialDone = FALSE
          /\ FirstCursor.anchor = None /\ FirstCursor.official = None
        BY DEF FirstCursor, Cursor
    <2>3. Entry(x) \in ExternalAfter(None) \/ Entry(x) \in OfficialAfter(None)
        BY <2>1 DEF ExternalAfter, OfficialAfter
    <2> QED BY <1>3, <2>2, <2>3 DEF LeftBehind
<1>6. PICK rows, left : rows = <<>> /\ left = LeftBehind(FirstCursor)
    OBVIOUS
<1>7. rows \in Seq(Entries) /\ DOMAIN rows = {}
    BY <1>6
<1>8. Progress(rows, left)
    BY <1>5, <1>6, <1>7 DEF Progress
<1> QED BY <1>1, <1>2, <1>4, <1>6, <1>8 DEF ListInv, PassGood

(* A step that changes no Thread keeps the invariant when it leaves the pass and the request right. *)
LEMMA ListGoesOn ==
    ASSUME ListTyped, sortedAt' = sortedAt, changed' = changed,
           NEW p, p = pass', PassGood(p), p.direction = pass.direction,
           NEW r, r = listing', r.at # "idle" => ListingGood(r, p)
    PROVE  ListInv'
<1>1. PassGood(pass)'
    BY PassStays
<1>2. ListingGood(r, p) => ListingGood(listing, pass)'
    BY ListingStays
<1> QED BY <1>1, <1>2 DEF ListInv, ListTyped

LEMMA ListsThreadsKeeps ==
    ASSUME ListInv, ListsThreads
    PROVE  ListInv'
<1>1. PICK p : p = pass
    OBVIOUS
<1>2. PICK all : all = IF p.cursor.externalDone THEN {} ELSE ExternalAfter(p.cursor.anchor)
    OBVIOUS
<1>3. PICK rows : /\ AreFirst(rows, all)
                  /\ rows = all \/ Cardinality(rows) = Limit
                  /\ listing' = [at |-> "merging", external |-> rows, more |-> rows # all,
                                 batched |-> FALSE, batch |-> {}, left |-> {}, next |-> None,
                                 start |-> None, cursor |-> p.cursor.official,
                                 done |-> p.cursor.officialDone, anchor |-> p.cursor.anchor,
                                 output |-> <<>>]
    BY <1>1, <1>2 DEF ListsThreads
<1>4. PICK more \in BOOLEAN : more <=> rows # all
    OBVIOUS
<1>5. PICK r : r = [at |-> "merging", external |-> rows, more |-> more, batched |-> FALSE,
                    batch |-> {}, left |-> {}, next |-> None, start |-> None,
                    cursor |-> p.cursor.official, done |-> p.cursor.officialDone,
                    anchor |-> p.cursor.anchor, output |-> <<>>]
    OBVIOUS
<1>6. listing' = r
    <2>1. (rows # all) = more
        BY <1>4
    <2> QED BY <1>3, <1>5, <2>1
<1>7. ListTyped /\ PassGood(p) /\ p.cursor # None /\ p = pass' /\ p.direction = pass.direction
      /\ sortedAt' = sortedAt /\ changed' = changed
    BY <1>1 DEF ListInv, ListsThreads
<1>8. ListingGood(r, p)
    BY <1>2, <1>3, <1>4, <1>5, <1>7, BeginsGood
<1> QED BY <1>6, <1>7, <1>8, ListGoesOn

(* The same for a step of the loop, whatever it makes of the request. *)
LEMMA MergingKeeps ==
    ASSUME ListInv, Merges, listing.at # "idle",
           NEW q, q = listing', \A p : p = pass => ListingGood(q, p)
    PROVE  ListInv'
<1>1. PICK p : p = pass
    OBVIOUS
<1>2. ListTyped /\ PassGood(p) /\ p = pass' /\ p.direction = pass.direction
      /\ sortedAt' = sortedAt /\ changed' = changed
    BY <1>1 DEF ListInv, Merges
<1>3. ListingGood(q, p)
    BY <1>1
<1> QED BY <1>2, <1>3, ListGoesOn

(* What is known of a request that is being answered. *)
LEMMA MergingIsGood ==
    ASSUME ListInv, listing.at # "idle", NEW p, p = pass, NEW r, r = listing
    PROVE  ListTyped /\ PassGood(p) /\ p.listed \in Seq(Entries) /\ ListingGood(r, p)
BY DEF ListInv, PassGood, Passes

LEMMA AsksOfficialKeeps ==
    ASSUME ListInv, AsksOfficial
    PROVE  ListInv'
<1>1. PICK p, r, q : p = pass /\ r = listing /\ q = listing'
    OBVIOUS
<1>2. /\ listing.at # "idle" /\ ~r.done /\ ~r.batched /\ Merges
      /\ q = [r EXCEPT !.at = "asked", !.start = r.cursor]
    BY <1>1 DEF AsksOfficial, Merging
<1>3. ListingGood(r, p)
    BY <1>1, <1>2, MergingIsGood
<1>4. ListingGood(q, p)
    BY <1>2, <1>3, AsksGood
<1> QED BY <1>1, <1>2, <1>4, MergingKeeps

LEMMA EndsBatchKeeps ==
    ASSUME ListInv, EndsBatch
    PROVE  ListInv'
<1>1. PICK p, r, q : p = pass /\ r = listing /\ q = listing'
    OBVIOUS
<1>2. /\ r.at = "merging" /\ listing.at # "idle" /\ ~r.done /\ r.batched /\ r.left = {} /\ Merges
      /\ q = [r EXCEPT !.cursor = r.next, !.done = r.next = None, !.batched = FALSE]
    BY <1>1 DEF EndsBatch, Merging
<1>3. ListTyped /\ ListingGood(r, p)
    BY <1>1, <1>2, MergingIsGood
<1>4. ListingGood(q, p)
    BY <1>2, <1>3, EndsBatchGood
<1> QED BY <1>1, <1>2, <1>4, MergingKeeps

LEMMA PassesOverKeeps ==
    ASSUME ListInv, PassesOver
    PROVE  ListInv'
<1>1. PICK p, r, q : p = pass /\ r = listing /\ q = listing'
    OBVIOUS
<1>2. r.at = "merging" /\ listing.at # "idle" /\ Merges
    BY <1>1 DEF PassesOver, Merging
<1>3. PICK a \in r.left : /\ ~r.done /\ r.batched /\ IsFirst(a, r.left) /\ a.thread[2] \in OwnIds
                          /\ q = [r EXCEPT !.left = @ \ {a}]
    BY <1>1 DEF PassesOver, NextOfficial
<1>4. ListTyped /\ ListingGood(r, p)
    BY <1>1, <1>2, MergingIsGood
<1>5. ListingGood(q, p)
    BY <1>2, <1>3, <1>4, PassesOverGood
<1> QED BY <1>1, <1>2, <1>5, MergingKeeps

LEMMA TakesExternalKeeps ==
    ASSUME ListInv, TakesExternal
    PROVE  ListInv'
<1>1. PICK p, r, q : p = pass /\ r = listing /\ q = listing'
    OBVIOUS
<1>2. r.at = "merging" /\ listing.at # "idle" /\ Merges
    BY <1>1 DEF TakesExternal, Merging
<1>3. PICK a \in r.external :
         /\ IsFirst(a, r.external)
         /\ r.done \/ \E b \in r.left : /\ ~r.done /\ r.batched /\ IsFirst(b, r.left)
                                        /\ Precedes(a, b)
         /\ q = [r EXCEPT !.output = Append(@, a), !.external = @ \ {a}, !.anchor = a]
    BY <1>1 DEF TakesExternal, NextOfficial
<1>4. ListTyped /\ p.listed \in Seq(Entries) /\ ListingGood(r, p)
    BY <1>1, <1>2, MergingIsGood
<1>5. ListingGood(q, p)
    BY <1>2, <1>3, <1>4, TakesExternalGood
<1> QED BY <1>1, <1>2, <1>5, MergingKeeps

LEMMA TakesOfficialKeeps ==
    ASSUME ListInv, TakesOfficial
    PROVE  ListInv'
<1>1. PICK p, r, q : p = pass /\ r = listing /\ q = listing'
    OBVIOUS
<1>2. r.at = "merging" /\ listing.at # "idle" /\ Len(r.output) < Limit /\ Merges
    BY <1>1 DEF TakesOfficial, Merging
<1>3. PICK b \in r.left :
         /\ ~r.done /\ r.batched /\ IsFirst(b, r.left) /\ b.thread[2] \notin OwnIds
         /\ \A a \in r.external : ~Precedes(a, b)
         /\ q = [r EXCEPT !.output = Append(@, b), !.left = @ \ {b}]
    BY <1>1 DEF TakesOfficial, NextOfficial
<1>4. ListTyped /\ p.listed \in Seq(Entries) /\ ListingGood(r, p)
    BY <1>1, <1>2, MergingIsGood
<1>5. ListingGood(q, p)
    BY <1>2, <1>3, <1>4, TakesOfficialGood
<1> QED BY <1>1, <1>2, <1>5, MergingKeeps

LEMMA AsksExactKeeps ==
    ASSUME ListInv, AsksExact
    PROVE  ListInv'
<1>1. PICK p, r, q : p = pass /\ r = listing /\ q = listing'
    OBVIOUS
<1>2. listing.at # "idle" /\ PartlyUsed(r) /\ Merges /\ q = [r EXCEPT !.at = "exact"]
    BY <1>1 DEF AsksExact, PageEnds
<1>3. ListingGood(r, p)
    BY <1>1, <1>2, MergingIsGood
<1>4. /\ q \in Requests /\ q.output = r.output /\ q.anchor = r.anchor /\ q.done = r.done
      /\ q.batched = r.batched /\ q.cursor = r.cursor /\ q.external = r.external /\ q.more = r.more
      /\ q.at = "exact" /\ q.start = r.start /\ q.batch = r.batch /\ q.left = r.left
      /\ q.next = r.next
    BY <1>2, <1>3 DEF ListingGood, Requests
<1>5. ExternalLeft(q, p) = ExternalLeft(r, p) /\ OfficialLeft(q) = OfficialLeft(r)
    BY <1>4 DEF ExternalLeft, OfficialLeft
<1>6. ExternalGood(q, p) /\ PartlyUsed(q) /\ (~q.done /\ q.batched => BatchGood(q))
    BY <1>2, <1>3, <1>4, <1>5 DEF ListingGood, ExternalGood, PartlyUsed, BatchGood
<1>7. ListingGood(q, p)
    BY <1>3, <1>4, <1>5, <1>6 DEF ListingGood
<1> QED BY <1>1, <1>2, <1>7, MergingKeeps

LEMMA PageArrivesKeeps ==
    ASSUME ListInv, PageArrives
    PROVE  ListInv'
<1>1. PICK p, r, q : p = pass /\ r = listing /\ q = listing'
    OBVIOUS
<1>2. r.at = "asked" /\ listing.at # "idle" /\ Merges
    BY <1>1 DEF PageArrives
<1>3. PICK rows, next :
         /\ next \in rows \cup {None} /\ AnswersOfficial(rows, next, r.start, Limit)
         /\ q = [r EXCEPT !.at = "merging", !.batched = TRUE, !.batch = rows, !.left = rows,
                          !.next = next]
    BY <1>1 DEF PageArrives
<1>4. ListTyped /\ ListingGood(r, p)
    BY <1>1, <1>2, MergingIsGood
<1>5. ListingGood(q, p)
    BY <1>2, <1>3, <1>4, ArrivesGood
<1> QED BY <1>1, <1>2, <1>5, MergingKeeps

LEMMA PageIsWholeKeeps ==
    ASSUME ListInv, PageIsWhole
    PROVE  ListInv'
<1>1. PICK r, q, n : r = listing /\ q = pass' /\ n = listing'
    OBVIOUS
<1>2. /\ listing.at # "idle" /\ ~PartlyUsed(r) /\ n.at = "idle" /\ sortedAt' = sortedAt
      /\ changed' = changed /\ q = WholePage(r)
    BY <1>1 DEF PageIsWhole, PageEnds, NoListing, WholePage
<1>3. ListTyped /\ pass \in Passes /\ ListingGood(r, pass)
    BY <1>1, <1>2 DEF ListInv, PassGood
<1>4. PassGood(q) /\ q.direction = pass.direction
    BY <1>2, <1>3, PageIsWholeGood
<1> QED BY <1>1, <1>2, <1>3, <1>4, ListGoesOn

LEMMA ExactArrivesKeeps ==
    ASSUME ListInv, ExactArrives
    PROVE  ListInv'
<1>1. PICK r, q, n : r = listing /\ q = pass' /\ n = listing'
    OBVIOUS
<1>2. /\ listing.at # "idle" /\ r.at = "exact" /\ n.at = "idle" /\ sortedAt' = sortedAt
      /\ changed' = changed
    BY <1>1 DEF ExactArrives, NoListing
<1>3. ListTyped /\ PassGood(pass) /\ pass \in Passes /\ ListingGood(r, pass)
    BY <1>1, <1>2 DEF ListInv, PassGood
<1>4. PICK most : most = Cardinality(listing.batch \ listing.left)
    OBVIOUS
<1>5. PICK rows \in SUBSET OfficialAfter(listing.start) :
         \E next \in rows \cup {None} :
            /\ AnswersOfficial(rows, next, listing.start, most)
            /\ pass' = IF Cardinality(rows) = most /\ next # None THEN Page(listing, next, FALSE)
                       ELSE pass
    BY <1>4 DEF ExactArrives
<1>6. PICK next \in rows \cup {None} :
         /\ AnswersOfficial(rows, next, listing.start, most)
         /\ pass' = IF Cardinality(rows) = most /\ next # None THEN Page(listing, next, FALSE)
                    ELSE pass
    BY <1>5
<1>7. CASE Cardinality(rows) = most /\ next # None
    <2>1. q = Page(r, next, FALSE) /\ most = Cardinality(r.batch \ r.left)
          /\ AnswersOfficial(rows, next, r.start, most)
        BY <1>1, <1>6, <1>4, <1>7
    <2>2. PassGood(q) /\ q.direction = pass.direction
        BY <1>2, <1>3, <1>6, <1>7, <2>1, ExactGood
    <2> QED BY <1>1, <1>2, <1>3, <2>2, ListGoesOn
<1>8. CASE ~ (Cardinality(rows) = most /\ next # None)
    <2>1. q = pass
        BY <1>1, <1>6, <1>8
    <2> QED BY <1>1, <1>2, <1>3, <2>1, ListGoesOn
<1> QED BY <1>7, <1>8

LEMMA OfficialFailsKeeps ==
    ASSUME ListInv, OfficialFails
    PROVE  ListInv'
<1>1. PICK p, n : p = pass /\ n = listing'
    OBVIOUS
<1>2. /\ ListTyped /\ PassGood(p) /\ p = pass' /\ p.direction = pass.direction
      /\ sortedAt' = sortedAt /\ changed' = changed /\ n.at = "idle"
    BY <1>1 DEF ListInv, OfficialFails, NoListing
<1> QED BY <1>1, <1>2, ListGoesOn

(* A Thread that changes is none a client must find any more, and while the official list is being
   read it is an external one: what was read of the external list stays as it is. *)
LEMMA ThreadChangesKeeps ==
    ASSUME ~ChangesMeanwhile, ListInv, ThreadChanges
    PROVE  ListInv'
<1>1. PICK p, r : p = pass' /\ r = listing'
    OBVIOUS
<1>2. p = pass /\ r = listing /\ pass'.direction = pass.direction
    BY <1>1 DEF ThreadChanges
<1>3. PICK x \in AllThreads, t \in 0 .. MaxTime :
         /\ x \in Official => listing.at = "idle"
         /\ sortedAt' = [sortedAt EXCEPT ![x] = t] /\ changed' = changed \cup {x}
    BY DEF ThreadChanges
<1>4. ListTyped
    BY DEF ListInv
<1>5. changed \subseteq changed' /\ \A y \in AllThreads \ changed' : sortedAt'[y] = sortedAt[y]
    BY <1>3, <1>4 DEF ListTyped
<1>6. ListTyped'
    BY <1>2, <1>3, <1>4 DEF ListTyped
<1>7. PassGood(pass)'
    BY <1>1, <1>2, <1>5, PassStays DEF ListInv
<1>8. ASSUME listing.at # "idle" PROVE ListingGood(listing, pass)'
    <2>1. \A y \in Official : sortedAt'[y] = sortedAt[y]
        BY <1>3, <1>4, <1>8 DEF ListTyped, AllThreads
    <2>2. ListingGood(r, p)
        BY <1>2, <1>8 DEF ListInv
    <2> QED BY <1>1, <1>2, <1>5, <2>1, <2>2, ListingStays
<1> QED BY <1>1, <1>2, <1>6, <1>7, <1>8 DEF ListInv

LEMMA ListStep ==
    ASSUME ~ChangesMeanwhile, ListInv, [NextList]_listVars
    PROVE  ListInv'
<1>1. CASE UNCHANGED listVars
    <2>1. PICK p, r : p = pass' /\ r = listing'
        OBVIOUS
    <2>2. /\ ListTyped /\ PassGood(p) /\ p.direction = pass.direction /\ sortedAt' = sortedAt
          /\ changed' = changed /\ (r.at # "idle" => ListingGood(r, p))
        BY <1>1, <2>1 DEF listVars, ListInv
    <2> QED BY <2>1, <2>2, ListGoesOn
<1>2. CASE NextList
    BY <1>2, ListsThreadsKeeps, AsksOfficialKeeps, PageArrivesKeeps, EndsBatchKeeps,
       PassesOverKeeps, TakesExternalKeeps, TakesOfficialKeeps, PageIsWholeKeeps, AsksExactKeeps,
       ExactArrivesKeeps, OfficialFailsKeeps, ThreadChangesKeeps DEF NextList
<1> QED BY <1>1, <1>2

(* A client that reads thread/list page by page finds every Thread that does not change meanwhile
   exactly once and in the order of the merged list, and has found them all when it gets no further
   cursor, for any number of Threads and any size of a page, however few rows an official page has
   and whatever fails: as long as the official list does not change while a request reads it. The
   cursor of a page is a cut through both lists, and what lies behind it is what the client has not
   read. *)
THEOREM ClientReadsEachOnce ==
    ASSUME ~ChangesMeanwhile
    PROVE  ListSpec => []ListsEachOnce
<1>1. InitList => ListInv
    BY ListBegins
<1>2. ListInv /\ [NextList]_listVars => ListInv'
    BY ListStep
<1>3. ListInv => ListsEachOnce
    <2> SUFFICES ASSUME ListInv PROVE ListsEachOnce
        OBVIOUS
    <2>1. PICK rows, left : rows = pass.listed /\ left = LeftBehind(pass.cursor)
        OBVIOUS
    <2>2. Progress(rows, left)
        BY <2>1 DEF ListInv, PassGood
    <2>3. \A n, m \in DOMAIN rows :
             n < m /\ {rows[n].thread, rows[m].thread} \subseteq Due => InOrder(rows[n], rows[m])
        BY <2>2 DEF Progress
    <2>4. pass.cursor = None => \A x \in Due : Entry(x) \notin left
        BY <2>1 DEF LeftBehind
    <2>5. pass.cursor = None => Due \subseteq {rows[n].thread : n \in DOMAIN rows}
        BY <2>2, <2>4 DEF Progress
    <2> QED BY <2>1, <2>3, <2>5 DEF ListsEachOnce
<1> QED BY <1>1, <1>2, <1>3, PTL DEF ListSpec

=============================================================================
