------------------------------ MODULE ThreadList ------------------------------
(* How thread/list shows two lists as one: the Threads the official            *)
(* app-server lists page by page and the external ones the Host has stored,    *)
(* merged into pages a client reads with cursors while Threads come and go.    *)
(*   packages/host-runtime/src/thread-list-aggregator.ts,                      *)
(*   packages/host-runtime/src/external-thread-list.ts,                        *)
(*   packages/protocol-core/src/thread-management.ts                           *)
(* A query is a direction and a limit: what a filter leaves out is a Thread    *)
(* that is not listed. Backwards cursors are not modelled. Between two answers *)
(* of the official app-server the Host does not wait: nothing changes while    *)
(* the lists are merged, one action for each turn of the loop.                 *)
EXTENDS Integers, Sequences, FiniteSets

CONSTANTS
  OwnIds,            \* ids of the records of external Threads
  OfficialIds,       \* ids of the official Threads; some may be external as well
  Limit,             \* rows in a page
  MaxTime,           \* seconds by which Threads are sorted are 1 .. MaxTime
  MaxChanges,
  ChangesMeanwhile,  \* whether the official list may change during a request
  None

External == {"external"} \X OwnIds
Official == {"official"} \X OfficialIds
AllThreads == External \union Official
Entries == [thread : AllThreads, time : 1 .. MaxTime]
\* HostThreadListCursor as it is encoded and decoded, without the fingerprint of the query:
\* a client reads on with the query it began with
Cursors == [official : Entries \union {None}, officialDone : BOOLEAN,
            anchor : Entries \union {None}, externalDone : BOOLEAN]

ASSUME ListConstants ==
  /\ OwnIds \subseteq Nat /\ IsFiniteSet(OwnIds)
  /\ OfficialIds \subseteq Nat /\ IsFiniteSet(OfficialIds)
  /\ Limit \in Nat \ {0} /\ MaxTime \in Nat /\ MaxChanges \in Nat
  /\ ChangesMeanwhile \in BOOLEAN
  /\ None \notin Entries /\ None \notin Cursors

VARIABLES
  sortedAt,  \* the time of every Thread by which it is sorted; 0 when it is not listed
  listing,   \* the thread/list request being answered
  pass,      \* what a client has read, and the cursor it reads on with
  changed    \* history: the Threads that changed since the client began

listVars == <<sortedAt, listing, pass, changed>>

Entry(x) == [thread |-> x, time |-> sortedAt[x]]
Listed(source) == {Entry(x) : x \in {y \in source : sortedAt[y] # 0}}

Cursor(official, done, anchor, externalDone) ==
  [official |-> official, officialDone |-> done, anchor |-> anchor, externalDone |-> externalDone]
FirstCursor == Cursor(None, FALSE, None, FALSE)
NoListing == [at |-> "idle"]

InitList ==
  /\ sortedAt \in [AllThreads -> 0 .. MaxTime]
  /\ listing = NoListing
  /\ pass \in [direction : {"asc", "desc"}, listed : {<<>>}, cursor : {FirstCursor}]
  /\ changed = {}

(***************************************************************************)
(* The order of the merged list                                            *)
(***************************************************************************)
Earlier(s, t) == IF pass.direction = "asc" THEN s < t ELSE s > t

\* compareThreadListEntries
Precedes(a, b) ==
  \/ Earlier(a.time, b.time)
  \/ a.time = b.time /\ a.thread \in External /\ b.thread \in Official
  \/ a.time = b.time /\ a.thread \in External /\ b.thread \in External /\ a.thread[2] < b.thread[2]

\* The order of the official app-server, and the rows it has after a cursor of its own
OfficialPrecedes(a, b) ==
  Earlier(a.time, b.time) \/ (a.time = b.time /\ Earlier(a.thread[2], b.thread[2]))
OfficialAfter(cursor) == {a \in Listed(Official) : cursor = None \/ OfficialPrecedes(cursor, a)}

\* listExternalThreadMetadata: the rows after the anchor
ExternalAfter(anchor) == {a \in Listed(External) : anchor = None \/ Precedes(anchor, a)}

\* Two rows are as the list they are read in has them: the rows of the official app-server
\* stay in its order.
InOrder(a, b) ==
  IF a.thread \in Official /\ b.thread \in Official THEN OfficialPrecedes(a, b) ELSE Precedes(a, b)
IsFirst(a, rows) == a \in rows /\ \A b \in rows \ {a} : InOrder(a, b)
IsLast(a, rows) == a \in rows /\ \A b \in rows \ {a} : InOrder(b, a)
AreFirst(rows, all) ==
  rows \subseteq all /\ \A a \in rows, b \in all \ rows : InOrder(a, b)

(***************************************************************************)
(* aggregateThreadList                                                     *)
(***************************************************************************)
\* A request with the cursor of the last page. The records are read, and with them the
\* external rows of this page; both stay as they were read.
ListsThreads ==
  /\ listing.at = "idle" /\ pass.cursor # None
  /\ LET c == pass.cursor
         all == IF c.externalDone THEN {} ELSE ExternalAfter(c.anchor)
     IN  \E rows \in SUBSET all :
           /\ AreFirst(rows, all)
           /\ rows = all \/ Cardinality(rows) = Limit
           /\ Cardinality(rows) <= Limit
           /\ listing' = [at |-> "merging", external |-> rows, more |-> rows # all,
                          batched |-> FALSE, batch |-> {}, left |-> {}, next |-> None,
                          start |-> None, cursor |-> c.official, done |-> c.officialDone,
                          anchor |-> c.anchor, output |-> <<>>]
  /\ UNCHANGED <<sortedAt, pass, changed>>

\* The loop goes on, and what it needs first is the next row of the official list.
Merging == listing.at = "merging" /\ Len(listing.output) < Limit
Merges == UNCHANGED <<sortedAt, pass, changed>>

AsksOfficial ==
  /\ Merging /\ ~listing.done /\ ~listing.batched
  /\ listing' = [listing EXCEPT !.at = "asked", !.start = listing.cursor] /\ Merges

\* A batch that is used up gives way to the next one.
EndsBatch ==
  /\ Merging /\ ~listing.done /\ listing.batched /\ listing.left = {}
  /\ listing' = [listing EXCEPT !.cursor = listing.next, !.done = listing.next = None,
                                !.batched = FALSE]
  /\ Merges

\* The next row of the batch
NextOfficial(a) == ~listing.done /\ listing.batched /\ IsFirst(a, listing.left)

\* A row of an external Thread that the official list has as well
PassesOver ==
  /\ Merging
  /\ \E a \in listing.left :
       /\ NextOfficial(a) /\ a.thread[2] \in OwnIds
       /\ listing' = [listing EXCEPT !.left = @ \ {a}]
  /\ Merges

TakesExternal ==
  /\ Merging
  /\ \E a \in listing.external :
       /\ IsFirst(a, listing.external)
       /\ \/ listing.done
          \/ \E b \in listing.left :
               NextOfficial(b) /\ b.thread[2] \notin OwnIds /\ Precedes(a, b)
       /\ listing' = [listing EXCEPT !.output = Append(@, a), !.external = @ \ {a}, !.anchor = a]
  /\ Merges

TakesOfficial ==
  /\ Merging
  /\ \E b \in listing.left :
       /\ NextOfficial(b) /\ b.thread[2] \notin OwnIds
       /\ \A a \in listing.external : ~Precedes(a, b)
       /\ listing' = [listing EXCEPT !.output = Append(@, b), !.left = @ \ {b}]
  /\ Merges

\* The page and the cursor of what comes after it
Page(r, official, done) ==
  LET externalDone == r.external = {} /\ ~r.more
  IN  [pass EXCEPT
         !.listed = @ \o r.output,
         !.cursor = IF externalDone /\ done THEN None
                    ELSE Cursor(official, done, r.anchor, externalDone)]

\* As it would be if the cursor of a batch were taken for that of a part of it
NeverPartlyUsed(r) == FALSE

\* Whether some rows of the last batch were used and some were not: the cursor behind
\* those that were is asked for.
PartlyUsed(r) == ~r.done /\ r.batched /\ r.left # r.batch /\ r.left # {}

\* The page is full, or there is nothing left.
PageEnds ==
  /\ listing.at = "merging"
  /\ Len(listing.output) >= Limit \/ (listing.done /\ listing.external = {})
PageIsWhole ==
  /\ PageEnds /\ ~PartlyUsed(listing)
  /\ listing' = NoListing
  /\ pass' = IF listing.done \/ ~listing.batched THEN Page(listing, listing.cursor, listing.done)
             ELSE IF listing.left = listing.batch THEN Page(listing, listing.start, FALSE)
             ELSE Page(listing, listing.next, listing.next = None)
  /\ UNCHANGED <<sortedAt, changed>>
AsksExact ==
  /\ PageEnds /\ PartlyUsed(listing)
  /\ listing' = [listing EXCEPT !.at = "exact"] /\ Merges

\* The official app-server answers with its next rows, as many as were asked for or fewer,
\* and with the cursor behind them.
AnswersOfficial(rows, next, cursor, most) ==
  LET all == OfficialAfter(cursor)
  IN  /\ AreFirst(rows, all) /\ Cardinality(rows) <= most /\ (rows = {} => all = {})
      /\ IF rows = all THEN next = None ELSE IsLast(next, rows)

PageArrives ==
  /\ listing.at = "asked"
  /\ \E rows \in SUBSET OfficialAfter(listing.start) : \E next \in rows \union {None} :
       /\ AnswersOfficial(rows, next, listing.start, Limit)
       /\ listing' = [listing EXCEPT !.at = "merging", !.batched = TRUE, !.batch = rows, !.left = rows,
                                     !.next = next]
  /\ Merges

\* The rows that were used, once more: for the cursor behind them
ExactArrives ==
  /\ listing.at = "exact"
  /\ \E rows \in SUBSET OfficialAfter(listing.start) : \E next \in rows \union {None} :
       LET used == Cardinality(listing.batch \ listing.left)
       IN  /\ AnswersOfficial(rows, next, listing.start, used)
           /\ pass' = IF Cardinality(rows) = used /\ next # None THEN Page(listing, next, FALSE)
                      ELSE pass
  /\ listing' = NoListing /\ UNCHANGED <<sortedAt, changed>>

\* The official app-server answers with an error, and so does the Host; the client may
\* ask again with the cursor it has.
OfficialFails ==
  /\ listing.at \in {"asked", "exact"}
  /\ listing' = NoListing /\ UNCHANGED <<sortedAt, pass, changed>>

\* A Thread is written to, which makes it the latest, begins, or is archived.
Newest == CHOOSE t \in 0 .. MaxTime :
            /\ \A x \in AllThreads : sortedAt[x] <= t
            /\ t = 0 \/ \E x \in AllThreads : sortedAt[x] = t
ThreadChanges ==
  /\ listing.at # "merging"
  /\ \E x \in AllThreads, t \in 0 .. MaxTime :
       /\ t \in {0, Newest + 1} /\ t # sortedAt[x]
       /\ x \in Official => listing.at = "idle" \/ ChangesMeanwhile
       /\ x \notin changed /\ Cardinality(changed) < MaxChanges
       /\ sortedAt' = [sortedAt EXCEPT ![x] = t] /\ changed' = changed \union {x}
  /\ UNCHANGED <<listing, pass>>

NextList ==
  \/ ListsThreads \/ AsksOfficial \/ PageArrives \/ EndsBatch \/ PassesOver \/ TakesExternal
  \/ TakesOfficial \/ PageIsWhole \/ AsksExact \/ ExactArrives \/ OfficialFails \/ ThreadChanges

ListSpec == InitList /\ [][NextList]_listVars

(***************************************************************************)
(* Properties                                                              *)
(***************************************************************************)
\* The Threads a client must find: external ones, and official ones that are not
Due == {x \in AllThreads \ changed :
          sortedAt[x] # 0 /\ (x \in Official => x[2] \notin OwnIds)}

\* Page by page a client reads every Thread that does not change meanwhile once, in the
\* order of the merged list, and has read them all when there is no further cursor;
\* whatever other Threads are written to, begun or archived between its requests, and
\* however few rows an official page has. It does not hold when the official list
\* changes during a request, between the answer that gave the rows and the one that
\* gave the cursor behind them.
ListsEachOnce ==
  /\ \A n, m \in DOMAIN pass.listed :
       n < m /\ {pass.listed[n].thread, pass.listed[m].thread} \subseteq Due
           => InOrder(pass.listed[n], pass.listed[m])
  /\ pass.cursor = None => Due \subseteq {pass.listed[n].thread : n \in DOMAIN pass.listed}
=============================================================================
