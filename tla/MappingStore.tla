----------------------------- MODULE MappingStore -----------------------------
(* The files of packages/mapping-store/src/mapping-store.ts: the lock of the *)
(* store, the primary file and the backup of each Thread, and what a start   *)
(* makes of them after a crash.  A record is its revision and whether the    *)
(* Thread has a Native Session ("ready"); ThreadRecords models the rest of   *)
(* the record.  The Host drains its requests and Sessions before it closes   *)
(* the store (app-server-host.ts), so close finds no write in flight that    *)
(* was queued after it.                                                      *)
EXTENDS Naturals, FiniteSets

CONSTANTS
  Instances,       \* the processes that open the store
  Threads,
  MaxRevision,     \* bound: writes of one Thread
  MaxFaults,       \* bound: files the storage damages
  StartsOverlap,   \* may a process start while another takes the lock?
  NoInstance,      \* the recorded process is gone
  NoLock, NoJob,
  Absent, Torn     \* no file; a file that is not a valid record

StoreRecords == [rev : 1..MaxRevision, ready : BOOLEAN]
StoreFiles == StoreRecords \cup {Absent, Torn}
StoreJobs ==
  [thread : Threads, step : {"temp", "copy", "copying", "rename", "remove"},
   record : StoreRecords \cup {Absent}, left : SUBSET {"primary", "backup"}]

ASSUME StoreAssumption ==
  /\ NoInstance \notin Instances
  /\ MaxRevision \in Nat \ {0} /\ MaxFaults \in Nat
  /\ StartsOverlap \in BOOLEAN
  /\ Absent \notin StoreRecords /\ Torn \notin StoreRecords /\ Absent # Torn
  /\ NoLock \notin [by : Instances \cup {NoInstance}, written : BOOLEAN]
  /\ NoJob \notin StoreJobs

VARIABLES
  storeLock,   \* store.lock: NoLock, or who created it and whether it is written
  primary,     \* threads/<id>.json
  backup,      \* backups/<id>.json
  residue,     \* Threads with a .tmp- file nobody will rename
  storePc,          \* where each process is
  unloaded,        \* the files a starting process has still to load
  mem,         \* #records of each process
  job,         \* the operation at the head of #writeTail
  used,        \* Thread ids that were created (ids are random, never reused)
  faults,      \* files damaged so far
  botched,     \* Threads whose removal failed half way
  promised     \* the contents a caller may expect to find after a restart

storeVars == <<storeLock, primary, backup, residue, storePc, unloaded, mem, job, used, faults, botched, promised>>

Starting == {"create", "judge", "aside", "retry", "sign"}
Owning == {"clean", "load", "open"}

\* initialize drops a provisional record that never got a Native Session.
Loadable(r) == IF r \in StoreRecords /\ r.ready THEN r ELSE Absent

\* The record a start would load: the primary, or the backup of an invalid one.
Recovered(t) ==
  IF primary[t] = Torn THEN Loadable(backup[t]) ELSE Loadable(primary[t])

StoreTypeOK ==
  /\ storeLock \in [by : Instances \cup {NoInstance}, written : BOOLEAN] \cup {NoLock}
  /\ primary \in [Threads -> StoreFiles] /\ backup \in [Threads -> StoreFiles]
  /\ residue \subseteq Threads /\ used \subseteq Threads /\ botched \subseteq Threads
  /\ storePc \in [Instances -> {"off"} \cup Starting \cup Owning]
  /\ unloaded \in [Instances -> SUBSET Threads]
  /\ mem \in [Instances -> [Threads -> StoreRecords \cup {Absent}]]
  /\ job \in [Instances -> StoreJobs \cup {NoJob}]
  /\ faults \in 0..MaxFaults
  /\ promised \in [Threads -> SUBSET (StoreRecords \cup {Absent})]

InitStore ==
  /\ storeLock = NoLock
  /\ primary = [t \in Threads |-> Absent]
  /\ backup = [t \in Threads |-> Absent]
  /\ residue = {} /\ used = {} /\ faults = 0 /\ botched = {}
  /\ storePc = [i \in Instances |-> "off"]
  /\ unloaded = [i \in Instances |-> {}]
  /\ mem = [i \in Instances |-> [t \in Threads |-> Absent]]
  /\ job = [i \in Instances |-> NoJob]
  /\ promised = [t \in Threads |-> {Absent}]

storeFiles == <<primary, backup, residue, used, faults, botched, promised>>
storeWork == <<unloaded, mem, job>>

StoreAt(i, label) == storePc' = [storePc EXCEPT ![i] = label]

-----------------------------------------------------------------------------
(* #acquireLock *)

StartStore(i) ==
  /\ storePc[i] = "off"
  /\ StartsOverlap \/ \A j \in Instances : storePc[j] \notin Starting
  /\ StoreAt(i, "create")
  /\ UNCHANGED <<storeLock, storeFiles, storeWork>>

\* open(lockPath, "wx") makes an empty file or fails with EEXIST.
CreateLock(i) ==
  /\ storePc[i] = "create"
  /\ IF storeLock = NoLock
     THEN storeLock' = [by |-> i, written |-> FALSE] /\ StoreAt(i, "sign")
     ELSE UNCHANGED storeLock /\ StoreAt(i, "judge")
  /\ UNCHANGED <<storeFiles, storeWork>>

\* The record goes to the open file, which may have been renamed aside.
SignLock(i) ==
  /\ storePc[i] = "sign"
  /\ storeLock' = IF storeLock # NoLock /\ storeLock.by = i
                  THEN [storeLock EXCEPT !.written = TRUE] ELSE storeLock
  /\ StoreAt(i, "clean")
  /\ UNCHANGED <<storeFiles, storeWork>>

\* A missing, empty or invalid lock cannot prove a live owner.  A written one names a number:
\* the owner's while it lives, and that of another process, perhaps, once it is gone.
SeemsLive(lock) == lock # NoLock /\ lock.written
ProvesLiveOwner(lock) == SeemsLive(lock) /\ lock.by # NoInstance

JudgeLock(i) ==
  /\ storePc[i] = "judge"
  /\ \/ SeemsLive(storeLock) /\ StoreAt(i, "off")
     \/ ~ProvesLiveOwner(storeLock) /\ StoreAt(i, "aside")
  /\ UNCHANGED <<storeLock, storeFiles, storeWork>>

\* rename(lock, lock.stale-...) moves whatever is there now.
MoveLockAside(i) ==
  /\ storePc[i] = "aside"
  /\ storeLock' = NoLock
  /\ StoreAt(i, "retry")
  /\ UNCHANGED <<storeFiles, storeWork>>

RetryLock(i) ==
  /\ storePc[i] = "retry"
  /\ IF storeLock = NoLock
     THEN storeLock' = [by |-> i, written |-> FALSE] /\ StoreAt(i, "sign")
     ELSE UNCHANGED storeLock /\ StoreAt(i, "off")
  /\ UNCHANGED <<storeFiles, storeWork>>

-----------------------------------------------------------------------------
(* initialize *)

CleanupResidue(i) ==
  /\ storePc[i] = "clean"
  /\ residue' = {}
  /\ unloaded' = [unloaded EXCEPT ![i] = {t \in Threads : primary[t] # Absent}]
  /\ StoreAt(i, "load")
  /\ UNCHANGED <<storeLock, primary, backup, used, faults, botched, promised, mem, job>>

BackupFirst(t) == IF backup[t] = Absent THEN primary[t] ELSE backup[t]   \* a mutant

\* The file #readRecord accepts.
ValidFile(t) == IF primary[t] = Torn THEN backup[t] ELSE primary[t]

\* Read the primary, or write the backup over it; put an unreadable file aside.
\* A provisional record without a Native Session is removed with its backup.
LoadThread(i, t) ==
  LET found == ValidFile(t)
      keep == Loadable(found)
  IN
  /\ storePc[i] = "load" /\ t \in unloaded[i]
  /\ unloaded' = [unloaded EXCEPT ![i] = @ \ {t}]
  /\ mem' = [mem EXCEPT ![i][t] = keep]
  /\ primary' = [primary EXCEPT ![t] = keep]
  /\ backup' = [backup EXCEPT ![t] = IF found \in StoreRecords /\ keep = Absent THEN Absent ELSE @]
  /\ promised' = [promised EXCEPT ![t] = @ \cap {keep}]
  /\ UNCHANGED <<storeLock, residue, used, faults, botched, storePc, job>>

\* The read of backup succeeds but writing it back fails: the primary is put
\* aside and the Thread is not loaded.
RestoreFails(i, t) ==
  /\ storePc[i] = "load" /\ t \in unloaded[i]
  /\ primary[t] = Torn /\ backup[t] \in StoreRecords
  /\ unloaded' = [unloaded EXCEPT ![i] = @ \ {t}]
  /\ mem' = [mem EXCEPT ![i][t] = Absent]
  /\ primary' = [primary EXCEPT ![t] = Absent]
  /\ promised' = [promised EXCEPT ![t] = {Absent}]
  /\ UNCHANGED <<storeLock, backup, residue, used, faults, botched, storePc, job>>

Initialized(i) ==
  /\ storePc[i] = "load" /\ unloaded[i] = {}
  /\ StoreAt(i, "open")
  /\ UNCHANGED <<storeLock, storeFiles, storeWork>>

-----------------------------------------------------------------------------
(* The operations on #writeTail, one at a time *)

EndJob(i) == job' = [job EXCEPT ![i] = NoJob]
JobAt(i, s) == job' = [job EXCEPT ![i].step = s]

\* createProvisional, then #writeNew; or #update with the next revision.
BeginWrite(i, t, ready) ==
  LET old == mem[i][t]
      new == [rev |-> IF old = Absent THEN 1 ELSE old.rev + 1, ready |-> ready]
  IN
  /\ storePc[i] = "open" /\ job[i] = NoJob
  /\ IF old = Absent THEN t \notin used /\ ~ready ELSE old.rev < MaxRevision /\ (old.ready => ready)
  /\ used' = used \cup {t}
  /\ job' = [job EXCEPT ![i] = [thread |-> t, step |-> "temp", record |-> new,
                                left |-> IF old = Absent THEN {} ELSE {"backup"}]]
  /\ promised' = [promised EXCEPT ![t] = @ \cup {Loadable(new)}]
  /\ UNCHANGED <<storeLock, primary, backup, residue, faults, botched, storePc, unloaded, mem>>

\* preserveBackup and exists(target)
Copies(i) == job[i].left # {} /\ primary[job[i].thread] # Absent

\* #replaceFile: write and sync the temporary file.
WriteTemp(i) ==
  /\ job[i] # NoJob /\ job[i].step = "temp"
  /\ LET t == job[i].thread IN
       /\ residue' = residue \cup {t}
       /\ JobAt(i, IF Copies(i) THEN "copy" ELSE "rename")
  /\ UNCHANGED <<storeLock, primary, backup, used, faults, botched, promised, storePc, unloaded, mem>>

\* copyFile is not atomic.
CopyBegins(i) ==
  /\ job[i] # NoJob /\ job[i].step = "copy"
  /\ backup' = [backup EXCEPT ![job[i].thread] = Torn]
  /\ JobAt(i, "copying")
  /\ UNCHANGED <<storeLock, primary, residue, used, faults, botched, promised, storePc, unloaded, mem>>

CopyEnds(i) ==
  /\ job[i] # NoJob /\ job[i].step = "copying"
  /\ backup' = [backup EXCEPT ![job[i].thread] = primary[job[i].thread]]
  /\ JobAt(i, "rename")
  /\ UNCHANGED <<storeLock, primary, residue, used, faults, botched, promised, storePc, unloaded, mem>>

RenameTemp(i) ==
  /\ job[i] # NoJob /\ job[i].step = "rename"
  /\ LET t == job[i].thread
         r == job[i].record IN
       /\ primary' = [primary EXCEPT ![t] = r]
       /\ residue' = residue \ {t}
       /\ mem' = [mem EXCEPT ![i][t] = r]
       /\ promised' = [promised EXCEPT ![t] = {Loadable(r)}]
  /\ EndJob(i)
  /\ UNCHANGED <<storeLock, backup, used, faults, botched, storePc, unloaded>>

\* Any step of #replaceFile fails: the temporary file is removed.
WriteFails(i) ==
  /\ job[i] # NoJob /\ job[i].step # "remove"
  /\ residue' = residue \ {job[i].thread}
  /\ promised' = [promised EXCEPT ![job[i].thread] =
                   (@ \ {Loadable(job[i].record)}) \cup {Loadable(mem[i][job[i].thread])}]
  /\ EndJob(i)
  /\ UNCHANGED <<storeLock, primary, backup, used, faults, botched, storePc, unloaded, mem>>

\* removeThread, or removeProvisional of a record that is not ready.
BeginRemove(i, t) ==
  /\ storePc[i] = "open" /\ job[i] = NoJob /\ mem[i][t] # Absent
  /\ job' = [job EXCEPT ![i] = [thread |-> t, step |-> "remove", record |-> Absent,
                                left |-> {"primary", "backup"}]]
  /\ promised' = [promised EXCEPT ![t] = @ \cup {Absent}]
  /\ UNCHANGED <<storeLock, primary, backup, residue, used, faults, botched, storePc, unloaded, mem>>

RemoveFiles(t, which) ==
  /\ primary' = IF "primary" \in which THEN [primary EXCEPT ![t] = Absent] ELSE primary
  /\ backup' = IF "backup" \in which THEN [backup EXCEPT ![t] = Absent] ELSE backup

\* The two files are removed in parallel; the record goes when both are gone.
RemoveFile(i, f) ==
  /\ job[i] # NoJob /\ job[i].step = "remove" /\ f \in job[i].left
  /\ LET t == job[i].thread IN
       /\ RemoveFiles(t, {f})
       /\ IF job[i].left = {f}
          THEN /\ EndJob(i)
               /\ mem' = [mem EXCEPT ![i][t] = Absent]
               /\ promised' = [promised EXCEPT ![t] = {Absent}]
          ELSE /\ job' = [job EXCEPT ![i].left = @ \ {f}]
               /\ UNCHANGED <<mem, promised>>
  /\ UNCHANGED <<storeLock, residue, used, faults, botched, storePc, unloaded>>

\* Promise.all rejects with one file left; the other removal still runs.
RemoveFails(i) ==
  /\ job[i] # NoJob /\ job[i].step = "remove"
  /\ \E f \in job[i].left : RemoveFiles(job[i].thread, job[i].left \ {f})
  /\ botched' = botched \cup {job[i].thread}
  /\ EndJob(i)
  /\ UNCHANGED <<storeLock, residue, used, faults, promised, storePc, unloaded, mem>>

\* close waits for #writeTail and removes the lock only if it is its own.
CloseStore(i) ==
  /\ storePc[i] = "open" /\ job[i] = NoJob
  /\ storeLock' = IF storeLock # NoLock /\ storeLock.written /\ storeLock.by = i
                  THEN NoLock ELSE storeLock
  /\ StoreAt(i, "off")
  /\ mem' = [mem EXCEPT ![i] = [t \in Threads |-> Absent]]
  /\ UNCHANGED <<storeFiles, unloaded, job>>

-----------------------------------------------------------------------------
(* The environment *)

\* The process ends anywhere; its lock names a process that is gone.
CrashStore(i) ==
  /\ storePc[i] # "off"
  /\ StoreAt(i, "off")
  /\ storeLock' = IF storeLock # NoLock /\ storeLock.by = i
                  THEN [storeLock EXCEPT !.by = NoInstance] ELSE storeLock
  /\ mem' = [mem EXCEPT ![i] = [t \in Threads |-> Absent]]
  /\ unloaded' = [unloaded EXCEPT ![i] = {}]
  /\ EndJob(i)
  /\ UNCHANGED storeFiles

\* A primary file becomes unreadable while no process runs.
DamageFile(t) ==
  /\ faults < MaxFaults /\ primary[t] \in StoreRecords
  /\ \A i \in Instances : storePc[i] = "off"
  /\ faults' = faults + 1
  /\ primary' = [primary EXCEPT ![t] = Torn]
  /\ promised' = [promised EXCEPT ![t] = {Loadable(backup[t])}]
  /\ UNCHANGED <<storeLock, backup, residue, used, botched, storePc, unloaded, mem, job>>

NextStore ==
  \/ \E i \in Instances :
       \/ StartStore(i) \/ CreateLock(i) \/ SignLock(i) \/ JudgeLock(i)
       \/ MoveLockAside(i) \/ RetryLock(i)
       \/ CleanupResidue(i) \/ Initialized(i)
       \/ WriteTemp(i) \/ CopyBegins(i) \/ CopyEnds(i) \/ RenameTemp(i) \/ WriteFails(i)
       \/ RemoveFails(i) \/ CloseStore(i) \/ CrashStore(i)
       \/ \E t \in Threads :
            \/ LoadThread(i, t) \/ RestoreFails(i, t) \/ BeginRemove(i, t)
            \/ \E ready \in BOOLEAN : BeginWrite(i, t, ready)
       \/ \E f \in {"primary", "backup"} : RemoveFile(i, f)
  \/ \E t \in Threads : DamageFile(t)

SpecStore == InitStore /\ [][NextStore]_storeVars

-----------------------------------------------------------------------------
(* Properties *)

\* Two processes never own the store at once: each would write over the other's
\* records from its own memory (the lock of #acquireLock, STORE_LOCKED).  Fails when starts
\* overlap: one takes the lock another has just created for that of a dead process.
OneStoreOwner ==
  \A i, j \in Instances : storePc[i] \in Owning /\ storePc[j] \in Owning => i = j

\* Wherever a process crashes, the record the next start finds is the one last
\* acknowledged to a caller or the one being written: #replaceFile, #remove and
\* the recovery of initialize together lose nothing and bring nothing back.
Durable == \A t \in Threads : Recovered(t) \in promised[t]

\* The owner's memory agrees with the disk whenever no operation is running,
\* except for a Thread whose removal failed half way.
MemoryMatchesDisk ==
  \A i \in Instances, t \in Threads :
    storePc[i] = "open" /\ job[i] = NoJob =>
      mem[i][t] = primary[t] \/ t \in botched

\* The backup is never more than one revision behind, so that a damaged file
\* costs one revision; a Thread whose removal failed half way is excepted.
BackupIsRecent ==
  \A t \in Threads :
    primary[t] \in StoreRecords /\ backup[t] \in StoreRecords /\ t \notin botched =>
      backup[t].rev \in {primary[t].rev, primary[t].rev - 1}

\* The steps on files implement atomic records (AtomicRecords).
StoredRevisions == [t \in Threads |-> IF Recovered(t) = Absent THEN 0 ELSE Recovered(t).rev]
Atomic == INSTANCE AtomicRecords WITH stored <- StoredRevisions
StoreIsAtomic == Atomic!Spec
=============================================================================
