---------------------------- MODULE HarnessBroker ----------------------------
(* A broker process that opens the Sessions of a Harness for Hosts that      *)
(* connect to its socket, with one writer per native Session.                *)
(*   packages/harness-broker/src/server.ts, client.ts, protocol.ts           *)
(* A Host has one brokered Session and one connection at a time. A           *)
(* connection carries requests in order and is served one request at a       *)
(* time; several connections are served side by side. What the adapter       *)
(* opens is an adapter Session; a record ties it to a connection.            *)
EXTENDS Naturals, Sequences, FiniteSets

CONSTANTS
  Hosts, Natives,
  Stored,             \* native Sessions there are before the broker starts
  MaxLinks, MaxRecords, MaxAdapters,  \* bounds: connections, records, adapter Sessions
  MaxPending,         \* HARNESS_BROKER_MAX_PENDING_REQUESTS
  Nobody, NoNative

ASSUME BrokerConstants ==
  /\ {MaxLinks, MaxRecords, MaxAdapters, MaxPending} \subseteq Nat \ {0}
  /\ Stored \subseteq Natives /\ Nobody \notin 1..MaxRecords /\ NoNative \notin Natives

VARIABLES
  host,     \* per Host: its wrapper of the brokered Session
  link,     \* per connection: who uses it, whether each end sees it open
  wire,     \* per connection: requests sent and not answered
  serving,  \* per connection: the step of the request at the head
  record,   \* per record: sessions of the server, and what they are tied to
  adapter,  \* per adapter Session: "unused" | "opening" | "open" | "leaving" | "closed"
  resuming, \* per connection: the adapter Session that no record names yet or
            \* any more: one its reopen opens, or one it gives up; or 0
  writes,   \* per adapter Session: the native Session it writes
  writers,  \* nativeWriters: per native Session, the record or reservation
  claim,    \* provisionalNativeWriter
  outbox    \* per record: outputs sent and not received

brokerVars == <<host, link, wire, serving, record, adapter, resuming, writes, writers, claim, outbox>>

Links == 1..MaxLinks
Records == 1..MaxRecords
Adapters == 1..MaxAdapters
NoHost == [at |-> "none", link |-> 0, rec |-> 0, gen |-> 0, ref |-> NoNative,
           faulted |-> FALSE, waits |-> FALSE]
NoRecordYet == [step |-> "unused", link |-> 0, ref |-> NoNative, gen |-> 0, adapter |-> 0,
                awaiting |-> FALSE, boot |-> FALSE, faulted |-> FALSE]

InitBroker ==
  /\ host = [h \in Hosts |-> NoHost]
  /\ link = [l \in Links |-> [of |-> Nobody, up |-> FALSE, served |-> FALSE]]
  /\ wire = [l \in Links |-> <<>>] /\ serving = [l \in Links |-> "idle"]
  /\ record = [i \in Records |-> NoRecordYet]
  /\ adapter = [a \in Adapters |-> "unused"] /\ resuming = [l \in Links |-> 0]
  /\ writes = [a \in Adapters |-> NoNative]
  /\ writers = [n \in Natives |-> Nobody] /\ claim = Nobody
  /\ outbox = [i \in Records |-> {}]

\* The name of a new connection, record or adapter Session
NextOf(S) == CHOOSE x \in S : TRUE
FreeRecords == {i \in Records : record[i].step = "unused"}
FreeAdapters == {a \in Adapters : adapter[a] = "unused"}
Known == Stored \union ({writes[a] : a \in Adapters} \ {NoNative})
FreshNatives == Natives \ Known
Server == <<record, adapter, resuming, writes, writers, claim>>

-----------------------------------------------------------------------------
(* The wrapper in a Host.                                                    *)

Up(h) == host[h].link # 0 /\ link[host[h].link].up
Request(h, op, ref) ==
  [op |-> op, of |-> h, ref |-> ref, rec |-> host[h].rec, gen |-> host[h].gen]
Sends(h, req) == /\ Len(wire[host[h].link]) < MaxPending
                 /\ wire' = [wire EXCEPT ![host[h].link] = Append(@, req)]

\* A connection is made when a request needs one, and never in the background.
Connect(h) ==
  LET unused == {l \in Links : link[l].of = Nobody} IN
  /\ host[h].at # "closed" /\ ~Up(h) /\ ~host[h].waits /\ unused # {}
  /\ link' = [link EXCEPT ![NextOf(unused)] = [of |-> h, up |-> TRUE, served |-> TRUE]]
  /\ host' = [host EXCEPT ![h].link = NextOf(unused)]
  /\ UNCHANGED <<wire, serving, Server, outbox>>

OpenSession(h) ==
  /\ host[h].at = "none" /\ Up(h) /\ ~host[h].waits
  /\ \E ref \in Known \union {NoNative} : Sends(h, Request(h, "open", ref))
  /\ host' = [host EXCEPT ![h].waits = TRUE]
  /\ UNCHANGED <<link, serving, Server, outbox>>

\* A Turn on a Session known to be faulty recovers it first: over the same
\* connection by reopening, over a new one by resuming the confirmed identity.
\* On a healthy Session only the Turn that reveals the identity matters here.
Recovery(h) == IF host[h].rec # 0 THEN "reopen" ELSE "open"
TurnOrRecover(h) ==
  /\ host[h].at = "ready" /\ Up(h) /\ ~host[h].waits
  /\ IF host[h].faulted
       THEN host[h].ref # NoNative /\ Sends(h, Request(h, Recovery(h), host[h].ref))
       ELSE host[h].ref = NoNative /\ Sends(h, Request(h, "turn", NoNative))
  /\ host' = [host EXCEPT ![h].waits = TRUE]
  /\ UNCHANGED <<link, serving, Server, outbox>>

\* Closing waits for a recovery in flight, then tells the broker if it can.
CloseSession(h) ==
  /\ host[h].at = "ready" /\ ~host[h].waits
  /\ IF Up(h) THEN Sends(h, Request(h, "close", NoNative)) ELSE UNCHANGED wire
  /\ host' = [host EXCEPT ![h] = [NoHost EXCEPT !.at = "closed", !.link = host[h].link]]
  /\ UNCHANGED <<link, serving, Server, outbox>>

\* connectionFault for a Session of a connection that fails.
LinkFails(l) ==
  LET h == link[l].of IN
  /\ link' = [link EXCEPT ![l].up = FALSE]
  /\ host' = IF host[h].link = l
               THEN [host EXCEPT ![h] = [NoHost EXCEPT !.at = host[h].at, !.ref = host[h].ref,
                                                       !.faulted = (host[h].at = "ready")]]
               ELSE host

LoseLink(l) ==
  /\ link[l].up
  /\ LinkFails(l)
  /\ UNCHANGED <<wire, serving, Server, outbox>>

\* No answer in time: an open gives up the connection, any other request only
\* its answer, and the answer that comes late fails the connection.
TimesOutRequest(h) ==
  /\ host[h].waits /\ Up(h)
  /\ IF host[h].at = "none" THEN LinkFails(host[h].link)
     ELSE host' = [host EXCEPT ![h].waits = FALSE] /\ UNCHANGED link
  /\ UNCHANGED <<wire, serving, Server, outbox>>

\* Outputs of another generation are dropped; a fault and an identity are kept.
Current(h, i) == host[h].at = "ready" /\ host[h].rec = i /\ host[h].gen = record[i].gen
Receives(i) ==
  /\ outbox[i] # {}
  /\ outbox' = [outbox EXCEPT ![i] = {}]
  /\ host' = [h \in Hosts |->
       IF Current(h, i)
         THEN [host[h] EXCEPT !.faulted = @ \/ "fault" \in outbox[i],
                              !.ref = IF "ref" \in outbox[i] THEN record[i].ref ELSE @]
         ELSE host[h]]
  /\ UNCHANGED <<link, wire, serving, Server>>

-----------------------------------------------------------------------------
(* The server: one request at a time per connection.                         *)

Asked(l, op) == wire[l] # <<>> /\ Head(wire[l]).op = op /\ link[l].served
\* The answer: taken by a Host that waits for it. Nobody waits after a timeout.
ClientAnswer(l, h2) ==
  LET h == link[l].of IN
  /\ wire' = [wire EXCEPT ![l] = Tail(@)] /\ serving' = [serving EXCEPT ![l] = "idle"]
  /\ IF ~link[l].up THEN UNCHANGED <<host, link>>
     ELSE IF host[h].waits
       THEN host' = [host EXCEPT ![h] = [h2 EXCEPT !.waits = FALSE]] /\ UNCHANGED link
     ELSE IF Head(wire[l]).op = "close" THEN UNCHANGED <<host, link>>
     ELSE LinkFails(l)
Refused(l) == ClientAnswer(l, host[link[l].of])

\* What the open would write, or the provisional claim of another create.
OpenBusyWhenLive(ref) ==
  \/ ref # NoNative /\ \E i \in Records : writers[ref] = i /\ record[i].step = "live"
  \/ claim # Nobody
OpenBusy(ref) == (ref # NoNative /\ writers[ref] # Nobody) \/ claim # Nobody
ServeOpen(l) ==
  LET ref == Head(wire[l]).ref
      i == NextOf(FreeRecords) IN
  /\ Asked(l, "open") /\ serving[l] = "idle"
  /\ IF OpenBusy(ref) \/ FreeRecords = {} \/ FreeAdapters = {}
       THEN Refused(l) /\ UNCHANGED Server
       ELSE /\ record' = [record EXCEPT ![i] =
                 [NoRecordYet EXCEPT !.step = "opening", !.link = l, !.ref = ref, !.gen = 1,
                                     !.adapter = NextOf(FreeAdapters)]]
            /\ adapter' = [adapter EXCEPT ![NextOf(FreeAdapters)] = "opening"]
            /\ writers' = [n \in Natives |-> IF n = ref THEN i ELSE writers[n]]
            /\ claim' = IF ref = NoNative THEN i ELSE claim
            /\ serving' = [serving EXCEPT ![l] = "opening"]
            /\ UNCHANGED <<host, link, wire, resuming, writes>>
  /\ UNCHANGED outbox

Opening(l) == CHOOSE i \in Records : record[i].step = "opening" /\ record[i].link = l
FreesWriter(i) == /\ writers' = [n \in Natives |-> IF writers[n] = i THEN Nobody ELSE writers[n]]
                /\ claim' = IF claim = i THEN Nobody ELSE claim

OpenEnds(l, step) ==
  /\ adapter' = [adapter EXCEPT ![record[Opening(l)].adapter] = step]
  /\ record' = [record EXCEPT ![Opening(l)] = [NoRecordYet EXCEPT !.step = "gone"]]
  /\ FreesWriter(Opening(l))
  /\ UNCHANGED outbox
OpenFails(l) ==
  /\ serving[l] = "opening"
  /\ OpenEnds(l, "closed") /\ Refused(l)
  /\ UNCHANGED <<resuming, writes>>

\* What the adapter opened is given up, for the connection closed meanwhile or
\* the identity is another: the reservations go first, then it is closed. A
\* resume that yields another identity writes that one.
OpenGivesUp(l) ==
  LET asked == record[Opening(l)].ref IN
  /\ serving[l] = "opening"
  /\ \E ref \in (IF asked # NoNative THEN Known ELSE FreshNatives) \union {NoNative} :
       /\ ~link[l].served \/ (asked # NoNative /\ ref # asked)
       /\ writes' = [writes EXCEPT ![record[Opening(l)].adapter] = ref]
  /\ OpenEnds(l, "leaving")
  /\ resuming' = [resuming EXCEPT ![l] = record[Opening(l)].adapter]
  /\ serving' = [serving EXCEPT ![l] = "givingUp"]
  /\ UNCHANGED <<host, link, wire>>
GivenUpCloses(l) ==
  /\ serving[l] = "givingUp"
  /\ adapter' = [adapter EXCEPT ![resuming[l]] = "closed"]
  /\ resuming' = [resuming EXCEPT ![l] = 0]
  /\ Refused(l)
  /\ UNCHANGED <<record, writes, writers, claim, outbox>>

\* A resume yields the identity it asked for; a create a fresh one, or none yet.
OpenReturns(l) ==
  LET i == Opening(l)
      asked == record[i].ref IN
  /\ serving[l] = "opening" /\ link[l].served
  /\ \E ref \in (IF asked # NoNative THEN {asked} ELSE FreshNatives \union {NoNative}) :
       /\ adapter' = [adapter EXCEPT ![record[i].adapter] = "open"]
       /\ writes' = [writes EXCEPT ![record[i].adapter] = ref]
       /\ record' = [record EXCEPT ![i].step = "live", ![i].ref = ref,
                                   ![i].awaiting = (ref = NoNative)]
       /\ writers' = [n \in Natives |-> IF n = ref THEN i ELSE writers[n]]
       /\ claim' = IF ref # NoNative /\ claim = i THEN Nobody ELSE claim
       /\ ClientAnswer(l, [host[link[l].of] EXCEPT !.at = "ready", !.rec = i, !.gen = 1,
                                             !.ref = ref, !.faulted = FALSE])
  /\ UNCHANGED <<resuming, outbox>>

RecordClosed(i) == [NoRecordYet EXCEPT !.step = "closing", !.adapter = record[i].adapter]
Mine(l) == LET q == Head(wire[l]) IN
  {i \in Records : i = q.rec /\ record[i].step = "live" /\ record[i].link = l
                   /\ record[i].gen = q.gen}

\* Until a create has an identity only its first Turn may run.
ServeTurn(l) ==
  /\ Asked(l, "turn") /\ serving[l] = "idle"
  /\ record' = [i \in Records |->
       IF i \in Mine(l) /\ record[i].awaiting THEN [record[i] EXCEPT !.boot = TRUE] ELSE record[i]]
  /\ Refused(l)
  /\ UNCHANGED <<adapter, resuming, writes, writers, claim, outbox>>

ServeClose(l) ==
  /\ Asked(l, "close") /\ serving[l] = "idle"
  /\ IF Mine(l) = {} THEN Refused(l) /\ UNCHANGED record
     ELSE /\ record' = [i \in Records |-> IF i \in Mine(l) THEN RecordClosed(i) ELSE record[i]]
          /\ Refused(l)
  /\ outbox' = [i \in Records |-> IF i \in Mine(l) THEN {} ELSE outbox[i]]
  /\ UNCHANGED <<adapter, resuming, writes, writers, claim>>

\* A faulted Session is closed and resumed under the next generation.
ServeReopen(l) ==
  /\ Asked(l, "reopen") /\ serving[l] = "idle"
  /\ \/ /\ \A i \in Mine(l) : record[i].ref = NoNative
        /\ Refused(l)
     \/ \E i \in Mine(l) :
          /\ ~record[i].faulted
          /\ ClientAnswer(l, [host[link[l].of] EXCEPT !.faulted = FALSE, !.gen = record[i].gen])
     \/ \E i \in Mine(l) :
          /\ record[i].faulted /\ record[i].ref # NoNative
          /\ serving' = [serving EXCEPT ![l] = "closingOld"] /\ UNCHANGED <<host, link, wire>>
  /\ UNCHANGED <<Server, outbox>>

ReopenCloses(l) ==
  LET i == Head(wire[l]).rec IN
  /\ serving[l] = "closingOld"
  /\ IF FreeAdapters = {}
       THEN /\ adapter' = [adapter EXCEPT ![record[i].adapter] = "closed"]
            /\ Refused(l) /\ UNCHANGED resuming
       ELSE /\ adapter' = [adapter EXCEPT ![record[i].adapter] = "closed",
                                          ![NextOf(FreeAdapters)] = "opening"]
            /\ resuming' = [resuming EXCEPT ![l] = NextOf(FreeAdapters)]
            /\ serving' = [serving EXCEPT ![l] = "reopening"] /\ UNCHANGED <<host, link, wire>>
  /\ UNCHANGED <<record, writes, writers, claim, outbox>>

\* The closing of a record took the Session it had: of a reopen that returns
\* after it the new Session stays open, and nothing names it.
ReopenReturns(l) ==
  LET i == Head(wire[l]).rec IN
  /\ serving[l] = "reopening" /\ resuming' = [resuming EXCEPT ![l] = 0]
  /\ \/ /\ adapter' = [adapter EXCEPT ![resuming[l]] = "closed"]
        /\ Refused(l) /\ UNCHANGED <<record, writes>>
     \/ /\ adapter' = [adapter EXCEPT ![resuming[l]] = "open"]
        /\ writes' = [writes EXCEPT ![resuming[l]] = Head(wire[l]).ref]
        /\ record' = [j \in Records |->
             IF j = i /\ record[i].step = "live"
               THEN [record[i] EXCEPT !.adapter = resuming[l], !.gen = Head(wire[l]).gen + 1,
                                      !.faulted = FALSE]
               ELSE record[j]]
        /\ ClientAnswer(l, [host[link[l].of] EXCEPT !.faulted = FALSE, !.gen = Head(wire[l]).gen + 1])
  /\ UNCHANGED <<writers, claim, outbox>>

\* The socket closed: what the connection asked is still served, its Sessions close.
ServerSeesClose(l) ==
  /\ link[l].served /\ ~link[l].up
  /\ link' = [link EXCEPT ![l].served = FALSE]
  /\ record' = [i \in Records |->
       IF record[i].step = "live" /\ record[i].link = l THEN RecordClosed(i) ELSE record[i]]
  /\ outbox' = [i \in Records |-> IF record[i].link = l THEN {} ELSE outbox[i]]
  /\ wire' = [wire EXCEPT ![l] = IF serving[l] = "idle" THEN <<>> ELSE <<Head(@)>>]
  /\ UNCHANGED <<host, serving, adapter, resuming, writes, writers, claim>>

\* The writer is given up only once the adapter Session is closed.
RecordCloses(i) ==
  /\ record[i].step = "closing"
  /\ adapter' = [adapter EXCEPT ![record[i].adapter] = "closed"]
  /\ record' = [record EXCEPT ![i] = [NoRecordYet EXCEPT !.step = "gone"]]
  /\ FreesWriter(i)
  /\ UNCHANGED <<host, link, wire, serving, resuming, writes, outbox>>

-----------------------------------------------------------------------------
(* Outputs of a Session.                                                     *)

Emits(i) == record[i].step = "live" /\ adapter[record[i].adapter] = "open" /\ ~record[i].faulted

\* The first Turn of a create reveals the identity, which claims its writer.
ClaimIdentity(i) ==
  /\ Emits(i) /\ record[i].boot /\ record[i].awaiting
  /\ \E n \in FreshNatives :
       /\ record' = [record EXCEPT ![i].ref = n, ![i].awaiting = FALSE]
       /\ writes' = [writes EXCEPT ![record[i].adapter] = n]
       /\ writers' = [writers EXCEPT ![n] = i]
  /\ claim' = IF claim = i THEN Nobody ELSE claim
  /\ outbox' = [outbox EXCEPT ![i] = @ \union {"ref"}]
  /\ UNCHANGED <<host, link, wire, serving, adapter, resuming>>

FaultClaim(i) == IF claim = i THEN Nobody ELSE claim
Faults(i) ==
  /\ Emits(i)
  /\ record' = [record EXCEPT ![i].faulted = TRUE, ![i].awaiting = FALSE]
  /\ claim' = FaultClaim(i)
  /\ outbox' = [outbox EXCEPT ![i] = @ \union {"fault"}]
  /\ UNCHANGED <<host, link, wire, serving, adapter, resuming, writes, writers>>

-----------------------------------------------------------------------------
Serves(l) ==
  \/ ServeOpen(l) \/ OpenReturns(l) \/ OpenFails(l) \/ OpenGivesUp(l) \/ GivenUpCloses(l)
  \/ ServeTurn(l) \/ ServeClose(l) \/ ServeReopen(l) \/ ReopenCloses(l) \/ ReopenReturns(l)

NextBroker ==
  \/ \E h \in Hosts : \/ Connect(h) \/ OpenSession(h) \/ TurnOrRecover(h) \/ CloseSession(h)
                      \/ TimesOutRequest(h)
  \/ \E l \in Links : LoseLink(l) \/ Serves(l) \/ ServerSeesClose(l)
  \/ \E i \in Records : Receives(i) \/ RecordCloses(i) \/ ClaimIdentity(i) \/ Faults(i)

BrokerFairness ==
  /\ \A l \in Links : WF_brokerVars(Serves(l)) /\ WF_brokerVars(ServerSeesClose(l))
  /\ \A i \in Records : WF_brokerVars(RecordCloses(i))
BrokerSpec == InitBroker /\ [][NextBroker]_brokerVars /\ BrokerFairness

-----------------------------------------------------------------------------
BrokerTypeOK ==
  /\ \A h \in Hosts : /\ host[h].at \in {"none", "ready", "closed"}
                      /\ host[h].link \in 0..MaxLinks /\ host[h].rec \in 0..MaxRecords
                      /\ host[h].ref \in Natives \union {NoNative}
  /\ \A i \in Records : record[i].step \in {"unused", "opening", "live", "closing", "gone"}
  /\ adapter \in [Adapters -> {"unused", "opening", "open", "leaving", "closed"}]
  /\ writes \in [Adapters -> Natives \union {NoNative}]
  /\ resuming \in [Links -> Adapters \union {0}]
  /\ writers \in [Natives -> Records \union {Nobody}]
  /\ claim \in Records \union {Nobody}

\* Two Sessions of the adapter that nobody is closing never write one native
\* Session, through opens, reopens, lost connections and late identities. It
\* fails when the connection is lost in a reopen: what the reopen opens after
\* the loss has no reservation.
OneNativeWriter ==
  \A a, b \in Adapters :
    adapter[a] = "open" /\ adapter[b] = "open" /\ writes[a] = writes[b] /\ writes[a] # NoNative
      => a = b

\* Two records the broker serves or is closing never hold Sessions that write
\* one native Session, however opens, late identities, reopens and the ends of
\* connections interleave: a record keeps its writer until its Session has
\* closed. Sessions that no record names any more are outside of it.
Held(i) == record[i].step \in {"live", "closing"}
OneServedWriter ==
  \A i, j \in Records :
    LET n == writes[record[i].adapter] IN
    Held(i) /\ Held(j) /\ i # j /\ n # NoNative => writes[record[j].adapter] # n

\* A native Session stays reserved only for a record that is opening, live or
\* closing, and the provisional claim only for one that still waits for its
\* identity: nothing else blocks the next open.
NoStaleReservation ==
  /\ \A n \in Natives : writers[n] # Nobody => record[writers[n]].step \in {"opening", "live", "closing"}
  /\ claim # Nobody => \/ record[claim].step = "opening"
                       \/ record[claim].step = "closing"
                       \/ record[claim].step = "live" /\ record[claim].awaiting

\* A Host that holds its Session for healthy has one the broker serves, unless
\* the news of the fault or of the lost connection is still on its way.
HealthyIsServed ==
  \A h \in Hosts :
    /\ host[h].at = "ready" /\ ~host[h].faulted /\ Up(h) /\ ~host[h].waits
    /\ "fault" \notin outbox[host[h].rec]
    => /\ record[host[h].rec].step = "live" /\ ~record[host[h].rec].faulted
       /\ record[host[h].rec].gen = host[h].gen
=============================================================================
