--------------------------- MODULE RemoteSocketLock ---------------------------
(***************************************************************************)
(* The lock that serializes binding and unlinking the remote control socket *)
(* (packages/host-runtime/src/remote-socket-lock.ts).  Every call of        *)
(* withRemoteAppServerSocketInitializationLock is an owner: it publishes a  *)
(* register file of its own in a shared directory and enters in Bakery      *)
(* order, reading the directory one file at a time.  Owners run in          *)
(* different processes and may crash between any two file operations.  A    *)
(* marker file of version 1 of the protocol fences owners of that version.  *)
(*                                                                          *)
(* A register holds a ticket; ticket 0 is the record with choosing = true.  *)
(* parseLockRecord takes no other combination.                              *)
(***************************************************************************)
EXTENDS Naturals, FiniteSets

CONSTANTS
    Owners,         \* calls, named by their owner tokens; tokens are totally ordered
    Retries,        \* LOCK_RETRY_COUNT
    MaxTicket,      \* Number.MAX_SAFE_INTEGER
    LeaseExpires,   \* a live owner may stall for LOCK_MAX_AGE_MS
    Legacy,         \* a version 1 owner, by its marker
    NoOwner

ASSUME OwnersAssumption == Owners \subseteq Nat /\ NoOwner \notin Owners
ASSUME LegacyAssumption == Legacy \notin Owners /\ Legacy # NoOwner
ASSUME BoundsAssumption == Retries \in Nat \ {0} /\ MaxTicket \in Nat \ {0} /\ LeaseExpires \in BOOLEAN

VARIABLES
    pc,         \* where the call is
    alive,      \* its process runs
    registered, \* owners whose register file exists
    ticket,     \* the ticket in the register file, and in ownRecord
    aged,       \* registers older than the lease; Legacy or an owner for its marker
    markerAged, \* the marker is older than the lease
    marker,     \* who created the version 1 marker file
    legacy,     \* the version 1 owner: "out", "in" or "dead"
    todo,       \* names of the current readdir that are still to be read
    highest,    \* maximumTicket of the entries read so far
    ownSeen,    \* ownsPublishedEntry, so far
    blocked,    \* unsettled or blockedByBakery, so far
    suspect,    \* the entry found abandoned, while removeAbandonedLockEntry runs
    found,      \* the ticket it had then
    condemned,  \* the second read found it unchanged: it is about to be unlinked
    attempt,
    before      \* history: owners with a ticket when this one announced itself

files == <<registered, ticket, aged, markerAged, marker>>
scan == <<todo, highest, ownSeen, blocked, suspect, found, condemned>>
vars == <<pc, alive, files, legacy, scan, attempt, before>>

Places == {"idle", "announced", "choosing", "published", "waiting", "trying", "checking",
           "action", "releasing", "leaving", "done"}

TypeOK ==
    /\ pc \in [Owners -> Places] /\ alive \in [Owners -> BOOLEAN]
    /\ registered \subseteq Owners /\ ticket \in [Owners -> 0 .. MaxTicket]
    /\ aged \subseteq Owners /\ markerAged \in BOOLEAN
    /\ marker \in Owners \cup {Legacy, NoOwner} /\ legacy \in {"out", "in", "dead"}
    /\ todo \in [Owners -> SUBSET Owners] /\ highest \in [Owners -> 0 .. MaxTicket]
    /\ ownSeen \in [Owners -> BOOLEAN] /\ blocked \in [Owners -> BOOLEAN]
    /\ suspect \in [Owners -> Owners \cup {NoOwner}] /\ found \in [Owners -> 0 .. MaxTicket]
    /\ condemned \in [Owners -> BOOLEAN]
    /\ attempt \in [Owners -> 0 .. Retries - 1] /\ before \in [Owners -> SUBSET Owners]

Init ==
    /\ pc = [o \in Owners |-> "idle"] /\ alive = [o \in Owners |-> TRUE]
    /\ registered = {} /\ ticket = [o \in Owners |-> 0]
    /\ aged = {} /\ markerAged = FALSE
    /\ marker = NoOwner /\ legacy = "out"
    /\ todo = [o \in Owners |-> {}] /\ highest = [o \in Owners |-> 0]
    /\ ownSeen = [o \in Owners |-> FALSE] /\ blocked = [o \in Owners |-> FALSE]
    /\ suspect = [o \in Owners |-> NoOwner] /\ found = [o \in Owners |-> 0]
    /\ condemned = [o \in Owners |-> FALSE]
    /\ attempt = [o \in Owners |-> 0] /\ before = [o \in Owners |-> {}]

-----------------------------------------------------------------------------

At(o, place) == alive[o] /\ pc[o] = place
Goto(o, place) == pc' = [pc EXCEPT ![o] = place]

\* ownerIsAbandoned: the process is gone, or the file is older than the lease.
Abandoned(q) == ~alive[q] \/ q \in aged

\* recordHasPriority
HasPriority(q, o) == ticket[q] < ticket[o] \/ (ticket[q] = ticket[o] /\ q < o)

\* Mutant of Blocks: an owner that is choosing is not waited for.
BlocksWithTicket(q, o) == q # o /\ ticket[q] # 0 /\ HasPriority(q, o)

\* blockedByBakery, of one entry
Blocks(q, o) == q # o /\ (ticket[q] = 0 \/ HasPriority(q, o))

\* The first writeLockRecordAtomic: choosing.
Announce(o) ==
    /\ At(o, "idle") /\ Goto(o, "announced")
    /\ registered' = registered \cup {o}
    /\ ticket' = [ticket EXCEPT ![o] = 0]
    /\ before' = [before EXCEPT ![o] = {q \in registered : ticket[q] # 0}]
    /\ UNCHANGED <<alive, aged, markerAged, marker, legacy, scan, attempt>>

\* readLockEntryCatalog: readdir, and nothing is read yet.
List(o) ==
    /\ \/ At(o, "announced") /\ Goto(o, "choosing")
       \/ At(o, "published") /\ Goto(o, "waiting")
    /\ todo' = [todo EXCEPT ![o] = registered]
    /\ highest' = [highest EXCEPT ![o] = 0]
    /\ ownSeen' = [ownSeen EXCEPT ![o] = FALSE]
    /\ blocked' = [blocked EXCEPT ![o] = FALSE]
    /\ UNCHANGED <<alive, files, legacy, suspect, found, condemned, attempt, before>>

Reading(o) == (At(o, "choosing") \/ At(o, "waiting")) /\ suspect[o] = NoOwner

\* readLockEntrySnapshot of one listed name: gone, abandoned, or an entry.
Read(o, q) ==
    /\ Reading(o) /\ q \in todo[o]
    /\ todo' = [todo EXCEPT ![o] = @ \ {q}]
    /\ \/ /\ q \notin registered
          /\ UNCHANGED <<highest, ownSeen, blocked, suspect, found>>
       \/ /\ q \in registered /\ Abandoned(q)
          /\ suspect' = [suspect EXCEPT ![o] = q]
          /\ found' = [found EXCEPT ![o] = ticket[q]]
          /\ UNCHANGED <<highest, ownSeen, blocked>>
       \/ /\ q \in registered /\ ~Abandoned(q)
          /\ highest' = [highest EXCEPT ![o] = IF ticket[q] > @ THEN ticket[q] ELSE @]
          /\ ownSeen' = [ownSeen EXCEPT ![o] = @ \/ q = o]
          /\ blocked' = [blocked EXCEPT ![o] = @ \/ Blocks(q, o)]
          /\ UNCHANGED <<suspect, found>>
    /\ UNCHANGED <<pc, alive, files, legacy, condemned, attempt, before>>

\* removeAbandonedLockEntry reads the entry again; one that is gone or has changed leaves
\* the catalog unsettled.
Recheck(o) ==
    /\ alive[o] /\ suspect[o] # NoOwner /\ ~condemned[o]
    /\ IF suspect[o] \in registered /\ ticket[suspect[o]] = found[o] /\ Abandoned(suspect[o])
       THEN /\ condemned' = [condemned EXCEPT ![o] = TRUE]
            /\ UNCHANGED <<suspect, blocked>>
       ELSE /\ suspect' = [suspect EXCEPT ![o] = NoOwner]
            /\ blocked' = [blocked EXCEPT ![o] = TRUE]
            /\ UNCHANGED condemned
    /\ UNCHANGED <<pc, alive, files, legacy, todo, highest, ownSeen, found, attempt, before>>

\* ... and unlinks its path.
Reclaim(o) ==
    /\ alive[o] /\ condemned[o]
    /\ registered' = registered \ {suspect[o]}
    /\ aged' = aged \ {suspect[o]}
    /\ suspect' = [suspect EXCEPT ![o] = NoOwner]
    /\ condemned' = [condemned EXCEPT ![o] = FALSE]
    /\ UNCHANGED <<pc, alive, ticket, markerAged, marker, legacy, todo, highest, ownSeen, blocked,
                   found, attempt, before>>

TicketSpace(o) == highest[o] < MaxTicket

\* Mutant of NextTicket: the ticket of the last owner is taken as well.
NextTicketShared(o) == IF highest[o] = 0 THEN 1 ELSE highest[o]

NextTicket(o) == highest[o] + 1

\* The choosing catalog is complete: the second writeLockRecordAtomic, at the same path.
Publish(o) ==
    /\ Reading(o) /\ pc[o] = "choosing" /\ todo[o] = {}
    /\ IF TicketSpace(o)
       THEN /\ Goto(o, "published")
            /\ registered' = registered \cup {o} /\ aged' = aged \ {o}
            /\ ticket' = [ticket EXCEPT ![o] = NextTicket(o)]
       ELSE Goto(o, "leaving") /\ UNCHANGED <<registered, aged, ticket>>
    /\ UNCHANGED <<alive, markerAged, marker, legacy, scan, attempt, before>>

\* Mutant of MayRetry: wait as long as it takes.
AlwaysRetry(o) == TRUE

MayRetry(o) == attempt[o] + 1 < Retries

\* delay(LOCK_RETRY_DELAY_MS) and the next attempt, or the error after the last.
Retry(o) ==
    IF MayRetry(o)
    THEN /\ Goto(o, "published")
         /\ attempt' = [attempt EXCEPT ![o] = IF @ + 1 < Retries THEN @ + 1 ELSE @]
    ELSE Goto(o, "leaving") /\ UNCHANGED attempt

\* The catalog is complete: ownership lost, blocked, or the turn of this owner.
Judge(o) ==
    /\ Reading(o) /\ pc[o] = "waiting" /\ todo[o] = {}
    /\ \/ ~ownSeen[o] /\ Goto(o, "leaving") /\ UNCHANGED attempt
       \/ ownSeen[o] /\ blocked[o] /\ Retry(o)
       \/ ownSeen[o] /\ ~blocked[o] /\ Goto(o, "trying") /\ UNCHANGED attempt
    /\ UNCHANGED <<alive, files, legacy, scan, before>>

-----------------------------------------------------------------------------
(* The marker of version 1 *)

\* open(legacyPath, "wx")
TakeMarker(o) ==
    /\ At(o, "trying")
    /\ IF marker = NoOwner
       THEN marker' = o /\ markerAged' = FALSE /\ Goto(o, "action")
       ELSE Goto(o, "checking") /\ UNCHANGED <<marker, markerAged>>
    /\ UNCHANGED <<alive, registered, ticket, aged, legacy, scan, attempt, before>>

\* legacyLockState answers "abandoned".
MarkerAbandoned ==
    /\ marker # NoOwner
    /\ \/ markerAged
       \/ marker = Legacy /\ legacy = "dead"
       \/ marker \in Owners /\ ~alive[marker]

\* An abandoned marker is left where it is, and the action runs behind it.
CheckMarker(o) ==
    /\ At(o, "checking")
    /\ \/ MarkerAbandoned /\ Goto(o, "action") /\ UNCHANGED attempt
       \/ ~MarkerAbandoned /\ Retry(o)
    /\ UNCHANGED <<alive, files, legacy, scan, before>>

\* There is a guard, and the file at its path is the one it opened.
HoldsGuard(o) == marker = o

\* The action ended, or threw.
EndAction(o) ==
    /\ At(o, "action")
    /\ Goto(o, IF HoldsGuard(o) THEN "releasing" ELSE "leaving")
    /\ UNCHANGED <<alive, files, legacy, scan, attempt, before>>

\* releaseLegacyCompatibilityGuard
ReleaseMarker(o) ==
    /\ At(o, "releasing") /\ Goto(o, "leaving")
    /\ marker' = NoOwner /\ markerAged' = FALSE
    /\ UNCHANGED <<alive, registered, ticket, aged, legacy, scan, attempt, before>>

\* removeOwnedLockEntry
Leave(o) ==
    /\ At(o, "leaving") /\ Goto(o, "done")
    /\ registered' = registered \ {o} /\ aged' = aged \ {o}
    /\ UNCHANGED <<alive, ticket, markerAged, marker, legacy, scan, attempt, before>>

-----------------------------------------------------------------------------
(* The environment *)

Crash(o) ==
    /\ alive[o] /\ pc[o] \notin {"idle", "done"}
    /\ alive' = [alive EXCEPT ![o] = FALSE]
    /\ UNCHANGED <<pc, files, legacy, scan, attempt, before>>

\* A live process stalls until its register or its marker is older than the lease.
LeasePasses ==
    /\ LeaseExpires
    /\ \/ \E o \in registered \ aged : aged' = aged \cup {o} /\ UNCHANGED markerAged
       \/ marker # NoOwner /\ ~markerAged /\ markerAged' = TRUE /\ UNCHANGED aged
    /\ UNCHANGED <<pc, alive, registered, ticket, marker, legacy, scan, attempt, before>>

\* A version 1 owner: open(legacyPath, "wx"), its action, and the removal.
LegacyEnters ==
    /\ legacy = "out" /\ marker = NoOwner
    /\ legacy' = "in" /\ marker' = Legacy /\ markerAged' = FALSE
    /\ UNCHANGED <<pc, alive, registered, ticket, aged, scan, attempt, before>>

LegacyLeaves ==
    /\ legacy = "in"
    /\ legacy' = "out" /\ marker' = NoOwner /\ markerAged' = FALSE
    /\ UNCHANGED <<pc, alive, registered, ticket, aged, scan, attempt, before>>

LegacyCrashes ==
    /\ legacy = "in" /\ legacy' = "dead"
    /\ UNCHANGED <<pc, alive, files, scan, attempt, before>>

Runs(o) ==
    \/ List(o) \/ (\E q \in todo[o] : Read(o, q)) \/ Recheck(o) \/ Reclaim(o)
    \/ Publish(o) \/ Judge(o) \/ TakeMarker(o) \/ CheckMarker(o)
    \/ EndAction(o) \/ ReleaseMarker(o) \/ Leave(o)

Next ==
    \/ \E o \in Owners : Announce(o) \/ Runs(o) \/ Crash(o)
    \/ LeasePasses \/ LegacyEnters \/ LegacyLeaves \/ LegacyCrashes

Spec == Init /\ [][Next]_vars

\* A live call's file operations complete, and so does its action; a version 1 owner may
\* keep its marker for ever.
FairSpec == Spec /\ \A o \in Owners : WF_vars(Runs(o))

-----------------------------------------------------------------------------
(* Properties *)

\* The owners whose action runs.
Acting == {o \in Owners : At(o, "action")}

\* Two live calls never run their actions at the same time, whatever they read of each
\* other's half-written state and whoever crashed before them.
MutualExclusion == \A o, q \in Acting : o = q

\* The new protocol excludes the old one: a live version 1 owner and an action never overlap.
LegacyExcluded == legacy = "in" => Acting = {}

\* An owner that had its ticket when another announced itself goes first, or never.
FirstComeFirstServed ==
    \A o \in Acting : \A q \in before[o] : alive[q] => pc[q] \in {"leaving", "done"}

\* The comment at remote-socket-lock.ts:388: an abandoned marker stays as a passive fence.
FenceStays == [][MarkerAbandoned /\ ~markerAged => marker' = marker]_vars

\* A call always ends, even behind a version 1 owner that never leaves.
CallsSettle == \A o \in Owners : pc[o] = "announced" ~> pc[o] = "done" \/ ~alive[o]

\* remote-socket-lock.ts:170: "Each register path contains an unguessable owner token and is
\* never reused, so deleting this exact entry cannot unlink a successor's register": what
\* is unlinked is what was found abandoned.
ReclaimsOnlyAbandoned ==
    [][\A o \in Owners : condemned[o] /\ ~condemned'[o] /\ suspect[o] \in registered
         => Abandoned(suspect[o])]_vars
=============================================================================
