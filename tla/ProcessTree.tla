----------------------------- MODULE ProcessTree -----------------------------
(***************************************************************************)
(* The supervision of a launched process and of everything it forks          *)
(* (crates/platform/src/process.rs, process_supervision.rs) and the loop of  *)
(* the Shim that waits for the launched tree to end (wait_for_child and      *)
(* run_proxy of crates/shim/src/lib.rs).                                     *)
(*                                                                          *)
(* The operating system gives a freed pid to the next process that asks, so  *)
(* a process is known by its pid and its start time.  An observation is one  *)
(* snapshot of all processes; signals go out one by one after it, each after *)
(* a fresh look at the process.  Linux delivers through a pidfd; macOS looks *)
(* and then signals by number, and signals the root's group as a whole.      *)
(***************************************************************************)
EXTENDS Naturals, FiniteSets

CONSTANTS
    Pids,          \* process numbers
    Root,          \* the number the launched process gets
    MaxStarts,     \* bound: processes ever started
    Foreigners     \* bound: of these, processes of other programs

ASSUME PidsAssumption == Root \in Pids /\ Root # 0 /\ Pids \subseteq Nat \ {0}
ASSUME TreeBoundsAssumption == MaxStarts \in Nat \ {0} /\ Foreigners \in Nat

VARIABLES
    world,    \* the platform, and whether a process may end, or be signalled, before its children
              \* are observed; never changes
    table,    \* the processes of the machine, by number
    starts,   \* processes started so far: the start time of the next
    known,    \* the ownership ledger of the ObservedProcessTree
    shim,     \* where wait_for_child is, and what it has found
    targets,  \* processes of the last observation still to be signalled
    hit       \* history: start times of the processes a signal has reached

treeVars == <<world, table, starts, known, shim, targets, hit>>

NoProcess == [start |-> 0, parent |-> 0, group |-> 0, ours |-> FALSE]
Existing == {p \in Pids : table[p].start # 0}
Snapshot(p) == [pid |-> p, start |-> table[p].start]
SamePid(s) == s.pid \in Existing
SameInstance(s) == s.pid \in Existing /\ table[s.pid].start = s.start

ShimPlaces == {"watching", "signalling", "done", "failed"}
TreeTypeOK ==
    /\ world \in [linux : BOOLEAN, hides : BOOLEAN]
    /\ table \in [Pids -> [start : 0 .. MaxStarts, parent : Pids \cup {0}, group : Pids \cup {0},
                           ours : BOOLEAN]]
    /\ starts \in 1 .. MaxStarts
    /\ known \subseteq [pid : Pids, start : 1 .. MaxStarts]
    /\ shim \in [at : ShimPlaces, guard : BOOLEAN, reaped : BOOLEAN, told : BOOLEAN,
                 forwarded : BOOLEAN, asked : BOOLEAN, force : BOOLEAN, forced : BOOLEAN,
                 failure : BOOLEAN]
    /\ targets \subseteq [pid : Pids, start : 1 .. MaxStarts, grouped : BOOLEAN]
    /\ hit \subseteq 1 .. MaxStarts

\* spawn_supervised: the root leads a process group of its own and is in the ledger.  A root that
\* ends before its first snapshot is taken gets no guard, and its children stay unknown.
InitTree ==
    /\ world \in [linux : BOOLEAN, hides : BOOLEAN]
    /\ starts = 1
    /\ table = [p \in Pids |-> IF p = Root THEN [start |-> 1, parent |-> 0, group |-> Root,
                                                 ours |-> TRUE] ELSE NoProcess]
    /\ known = {[pid |-> Root, start |-> 1]}
    /\ \E guard \in {TRUE, ~world.hides} :
          shim = [at |-> "watching", guard |-> guard, reaped |-> FALSE, told |-> FALSE,
                  forwarded |-> FALSE, asked |-> FALSE, force |-> FALSE, forced |-> FALSE,
                  failure |-> FALSE]
    /\ targets = {} /\ hit = {}

(***************************************************************************)
(* The operating system and the supervised programs                         *)
(***************************************************************************)

\* The root stays a zombie, and its number taken, until the Shim has reaped it; the number of a
\* process group is taken while the group has a member.
Taken(q) == q \in Existing \/ (q = Root /\ ~shim.reaped) \/ \E p \in Existing : table[p].group = q

Begin(q, parent, group, ours) ==
    /\ ~Taken(q) /\ starts < MaxStarts /\ starts' = starts + 1
    /\ table' = [table EXCEPT ![q] = [start |-> starts + 1, parent |-> parent, group |-> group,
                                      ours |-> ours]]
    /\ UNCHANGED <<world, known, shim, targets, hit>>

Fork(p, q) ==
    /\ p \in Existing /\ table[p].ours
    /\ world.hides \/ shim.at # "signalling"
    /\ Begin(q, p, table[p].group, TRUE)

Foreign(q) ==
    /\ Cardinality({p \in Existing : ~table[p].ours}) < Foreigners
    /\ Begin(q, 0, q, FALSE)

\* setsid or setpgid
LeaveGroup(p) ==
    /\ p \in Existing /\ table[p].ours /\ table[p].group # p
    /\ table' = [table EXCEPT ![p].group = p]
    /\ UNCHANGED <<world, starts, known, shim, targets, hit>>

ChildrenOf(p) == {q \in Existing : table[q].parent = p}
Orphaned(p) == [q \in Pids |-> IF q = p THEN NoProcess
                               ELSE IF q \in ChildrenOf(p) THEN [table[q] EXCEPT !.parent = 0]
                               ELSE table[q]]

End(p) ==
    /\ p \in Existing
    /\ world.hides \/ \A q \in ChildrenOf(p) : Snapshot(q) \in known
    /\ table' = Orphaned(p)
    /\ UNCHANGED <<world, starts, known, shim, targets, hit>>

(***************************************************************************)
(* ObservedProcessTree                                                      *)
(***************************************************************************)

\* descendant_snapshots: the given numbers and, among some processes, all they lead to.  The loop
\* adds children until it finds no more: the least set that has the numbers and their children.
Descendants(pids, among) ==
    LET Closed(set) == pids \cup {q \in among : table[q].parent \in set} \subseteq set
    IN  {p \in Pids : \A set \in SUBSET Pids : Closed(set) => p \in set}

NumbersOf(ledger) == {s.pid : s \in ledger}
StartOf(pid) == (CHOOSE s \in known : s.pid = pid).start
InGroup == {p \in Existing : table[p].group = Root /\ table[p].start >= StartOf(Root)}

\* Linux takes a snapshot of every process; macOS first narrows the scan to possible members,
\* which must leave every later decision as it is.
Seen == IF world.linux THEN Existing
        ELSE Existing \cap Descendants(NumbersOf(known) \cup {Root} \cup InGroup, Existing)

RootReused == Root \in Seen /\ table[Root].start # StartOf(Root)

\* What is left of the ledger: the root, and descendants that are still the same instances.
Refreshed == {s \in known : s.pid = Root \/ (s.pid \in Seen /\ SameInstance(s))}
OfLineage == Descendants(NumbersOf(Refreshed), Seen)

\* On Linux a member of the group that no known process accounts for is refused.
Unattributed == {p \in InGroup : Snapshot(p) \notin Refreshed /\ p \notin OfLineage}
ObserveFails == RootReused \/ (world.linux /\ Unattributed # {})

Ledger ==
    Refreshed \cup {Snapshot(p) : p \in (InGroup \cup (OfLineage \cap Seen))
                                            \ NumbersOf(Refreshed)}
Owned(ledger) == {s \in ledger : SameInstance(s)}
Targets(owned) == {[pid |-> s.pid, start |-> s.start, grouped |-> table[s.pid].group = Root] :
                   s \in owned}

(***************************************************************************)
(* wait_for_child                                                           *)
(***************************************************************************)

\* ShutdownSignals: SIGTERM, SIGINT or SIGHUP reaches the Shim.
ShutdownSignal ==
    /\ shim.at \in {"watching", "signalling"} /\ ~shim.told /\ shim' = [shim EXCEPT !.told = TRUE]
    /\ UNCHANGED <<world, table, starts, known, targets, hit>>

\* try_wait: the root's number is free from here on.
Reap ==
    /\ shim.at = "watching" /\ ~shim.reaped /\ Root \notin Existing
    /\ shim' = [shim EXCEPT !.reaped = TRUE]
    /\ UNCHANGED <<world, table, starts, known, targets, hit>>

EndsByRoot(owned) == shim.reaped
EndsWithTree(owned) == shim.reaped /\ owned = {}

\* What is left is signalled once when the Shim is told to stop or the root is gone, and once by
\* force when it outlives the grace.
Forces == shim.asked /\ ~shim.forced
Forwards == shim.told /\ ~shim.forwarded
Asks == Forwards \/ (shim.reaped /\ ~shim.asked)

\* An observation by has_live_processes, and one more by the signal operation it leads to.
Observe ==
    /\ shim.at = "watching" /\ shim.guard
    /\ IF ObserveFails
       THEN shim' = [shim EXCEPT !.at = "failed"] /\ UNCHANGED <<world, known, targets>>
       ELSE /\ known' = Ledger
            /\ LET owned == Owned(Ledger)
               IN  \/ EndsWithTree(owned) /\ shim' = [shim EXCEPT !.at = "done"]
                                          /\ UNCHANGED targets
                   \/ /\ ~EndsWithTree(owned) /\ ~Asks
                      /\ UNCHANGED <<world, shim, targets>>
                   \/ /\ ~EndsWithTree(owned) /\ Asks
                      /\ shim' = [shim EXCEPT !.at = "signalling", !.asked = TRUE,
                                                   !.force = FALSE, !.forwarded = Forwards \/ @]
                      /\ targets' = Targets(owned)
                   \/ /\ ~EndsWithTree(owned) /\ Forces
                      /\ shim' = [shim EXCEPT !.at = "signalling", !.force = TRUE, !.forced = TRUE]
                      /\ targets' = Targets(owned)
    /\ UNCHANGED <<world, table, starts, hit>>

\* Without a guard there is nothing to observe: the root's end is the end, and a signal that is to
\* be forwarded has no group to go to.
Unguarded ==
    /\ shim.at = "watching" /\ ~shim.guard /\ (shim.reaped \/ Forwards)
    /\ shim' = [shim EXCEPT !.at = IF shim.reaped THEN "done" ELSE "failed"]
    /\ UNCHANGED <<world, table, starts, known, targets, hit>>

MayDie(p) == IF shim.force THEN {TRUE} ELSE BOOLEAN
Hit(p) == /\ hit' = hit \cup {table[p].start}
          /\ \E dies \in MayDie(p) : table' = IF dies THEN Orphaned(p) ELSE table

\* killpg on macOS: one call for the processes observed in the root's group, and it reaches
\* every process that is in the group now.
GroupMembers == {s \in targets : s.grouped}
SignalGroup ==
    /\ shim.at = "signalling" /\ ~world.linux /\ GroupMembers # {}
    /\ LET members == {p \in Existing : table[p].group = Root}
       IN  /\ hit' = hit \cup {table[p].start : p \in members}
           /\ table' = IF shim.force
                       THEN [q \in Pids |-> IF q \in members THEN NoProcess
                                            ELSE IF table[q].parent \in members
                                            THEN [table[q] EXCEPT !.parent = 0] ELSE table[q]]
                       ELSE table
    /\ targets' = targets \ GroupMembers
    /\ UNCHANGED <<world, starts, known, shim>>

\* signal_processes: a process that is gone is passed over, a number in use again is an error.
SignalProcess(s) ==
    /\ shim.at = "signalling" /\ s \in targets /\ (world.linux \/ s \notin GroupMembers)
    /\ targets' = targets \ {s}
    /\ IF s.pid \notin Existing THEN UNCHANGED <<world, table, hit, shim>>
       ELSE IF SameInstance(s) THEN Hit(s.pid) /\ UNCHANGED shim
       ELSE shim' = [shim EXCEPT !.at = "failed"] /\ UNCHANGED <<world, table, hit>>
    /\ UNCHANGED <<world, starts, known>>

Signalled ==
    /\ shim.at = "signalling" /\ targets = {}
    /\ shim' = [shim EXCEPT !.at = "watching"]
    /\ UNCHANGED <<world, table, starts, known, targets, hit>>

\* Drop of the ChildProcessGuard: one more observation, and SIGKILL to what it finds.
DropGuard ==
    /\ shim.at = "failed" /\ ~shim.failure /\ shim' = [shim EXCEPT !.failure = TRUE]
    /\ IF ObserveFails \/ ~shim.guard THEN UNCHANGED <<world, table, known, hit>>
       ELSE /\ known' = Ledger
            /\ LET owned == NumbersOf(Owned(Ledger))
               IN  /\ hit' = hit \cup {table[p].start : p \in owned}
                   /\ table' = [q \in Pids |-> IF q \in owned THEN NoProcess
                                               ELSE IF table[q].parent \in owned
                                               THEN [table[q] EXCEPT !.parent = 0] ELSE table[q]]
    /\ targets' = {} /\ UNCHANGED <<world, starts>>

NextTree ==
    \/ \E p, q \in Pids : Fork(p, q)
    \/ \E p \in Pids : Foreign(p) \/ LeaveGroup(p) \/ End(p)
    \/ ShutdownSignal \/ Reap \/ Observe \/ Unguarded \/ SignalGroup \/ Signalled \/ DropGuard
    \/ \E s \in targets : SignalProcess(s)

TreeSpec == InitTree /\ [][NextTree]_treeVars

(***************************************************************************)
(* Properties                                                               *)
(***************************************************************************)

\* No signal reaches a process of another program, whatever numbers are used again between an
\* observation and the signal (process.rs:389-397, 321-340).
ForeignUntouched == \A p \in Existing : table[p].start \in hit => table[p].ours

\* On Linux that holds however processes come and go.  On macOS killpg goes to a number.
LinuxSparesForeigners == world.linux => ForeignUntouched

\* The ledger never claims a process of another program.
LedgerIsOurs == \A s \in known : SameInstance(s) => table[s.pid].ours

\* When the Shim reports that the launched program has ended, nothing it forked is alive
\* (lib.rs:184-193).
NothingIsLeft == shim.at = "done" => \A p \in Existing : ~table[p].ours

\* That holds of processes that live until they have been observed.
ObservedTreeEnds == ~world.hides => NothingIsLeft

\* Nor when it reports a failure and its guard has killed what it knew.
FailureLeavesNothing == shim.failure => \A p \in Existing : ~table[p].ours
=============================================================================
