--------------------------- MODULE OfficialRuntime ---------------------------
(* One official Codex app-server process at a time, the connections of the   *)
(* Host's clients to it, and the requests they send through the work gate.   *)
(*   packages/host-runtime/src/codex-runtime/official-runtime-owner.ts,      *)
(*   official-runtime-scope.ts, codex-runtime.ts, official-work-gate.ts,     *)
(*   ../official-request-broker.ts, ../official-process-lifecycle.ts,        *)
(*   ../remote-official-app-server.ts                                        *)
(* A generation is one backend: its process, its connections, its requests.  *)
(* The Desktop client has one Thread; its requests start it, run a Turn of   *)
(* it, or do neither. What the backend does is chosen freely.                *)
EXTENDS Naturals, FiniteSets

CONSTANTS
  Desktop, Manager,   \* the client of a Desktop, the Host's management client,
                      \* which is attached and configured from the start
  Frames,             \* requests of the Desktop client
  MaxGenerations      \* bound: backends created

ASSUME OfficialConstants ==
  /\ Desktop # Manager /\ MaxGenerations \in Nat \ {0}

VARIABLES
  ownerPhase,     \* of the owner: "stopped" | "starting" | "running" | "stopping" | "unavailable"
  backend,   \* the generation whose process the owner answers for, 0 for none
  generation,
  process,   \* per generation: "none" | "spawned" | "listening" | "exited"
  start,     \* the start under way: its step, and the clients it has not connected
  stop,      \* the stop under way: "no" | "waiting" | "asked"
  workGate,      \* "ready" | "unavailable"
  closed,    \* the scope is closed for good
  client,    \* per client: its connection and protocol
  frame,     \* per request: where it is, its generation, admission and answers
  thread,    \* the Thread: the generation it is known on, the one restoring it
  loadedThread,    \* generations whose backend has the Thread loaded
  askedBackend      \* a server request: who asked, whether it can be answered, who got the reply

officialVars == <<ownerPhase, backend, generation, process, start, stop, workGate, closed,
                  client, frame, thread, loadedThread, askedBackend>>

Clients == {Desktop, Manager}
Generations == 1..MaxGenerations
Detached == [attached |-> FALSE, configured |-> FALSE, initialized |-> FALSE,
             runtime |-> 0, retired |-> FALSE, connecting |-> 0]
Unsent == [at |-> "idle", kind |-> "read", gen |-> 0, pending |-> FALSE,
           admitted |-> FALSE, answers |-> 0]
NoStart == [at |-> "no", left |-> {}]
NobodyAsked == [by |-> 0, open |-> FALSE, reply |-> 0]

InitOfficial ==
  /\ ownerPhase = "stopped" /\ backend = 0 /\ generation = 0 /\ start = NoStart /\ stop = "no"
  /\ process = [g \in Generations |-> "none"]
  /\ workGate = "unavailable" /\ closed = FALSE
  /\ client = [c \in Clients |-> IF c = Manager
                   THEN [Detached EXCEPT !.attached = TRUE, !.configured = TRUE] ELSE Detached]
  /\ frame = [q \in Frames |-> Unsent]
  /\ thread = [gen |-> 0, restoring |-> 0] /\ loadedThread = {} /\ askedBackend = NobodyAsked

OwnerVars == <<ownerPhase, backend, generation, process, start, stop, workGate, closed>>
Attached == {c \in Clients : client[c].attached}
Serving == ownerPhase \in {"starting", "running"}
Alive(g) == process[g] \in {"spawned", "listening"}

-----------------------------------------------------------------------------
(* Retirement: what a connection owes is answered with an error.             *)

AnswerFrame(f) == [f EXCEPT !.answers = @ + 1, !.admitted = FALSE, !.pending = FALSE]
Done(f) == [AnswerFrame(f) EXCEPT !.at = "done"]

\* As retirement would be if it left what it answers in the pending map.
AnsweredButKept(f) == IF f.pending THEN [f EXCEPT !.answers = @ + 1, !.admitted = FALSE] ELSE f
LeftPending(f) == f  \* as it would be if it said nothing to the Desktop

\* A request in the pending map is answered and forgotten, one whose write
\* still waits included; one that waits for the Thread's restoration fails.
RetiredFrame(f) ==
  IF f.pending THEN IF f.at = "writing" THEN AnswerFrame(f) ELSE Done(f)
  ELSE IF f.at = "restoring" THEN Done(f) ELSE f

RetireFrames(S) == frame' = IF Desktop \in S THEN [q \in Frames |-> RetiredFrame(frame[q])]
                            ELSE frame
RetireAsked(S) == askedBackend' = IF Desktop \in S THEN [askedBackend EXCEPT !.open = FALSE] ELSE askedBackend
RetireThread(S) == thread' = IF Desktop \in S THEN [thread EXCEPT !.restoring = 0] ELSE thread

Retire(S) == RetireFrames(S) /\ RetireAsked(S) /\ RetireThread(S)

Silenced(S) == [c \in Clients |-> IF c \in S THEN [client[c] EXCEPT !.retired = TRUE] ELSE client[c]]

\* What stop() does before its first wait.
StopsNow == stop' = IF stop = "no" THEN "waiting" ELSE stop

\* #unavailable: every connection is retired and closed, the gate shuts.
Unavailable ==
  /\ ownerPhase' = "unavailable" /\ workGate' = "unavailable"
  /\ client' = Silenced(Attached) /\ Retire(Attached)

-----------------------------------------------------------------------------
(* Starting a backend.                                                       *)

StartOwner ==
  /\ start = NoStart /\ ownerPhase = "stopped" /\ backend = 0 /\ ~closed
  /\ generation < MaxGenerations
  /\ ownerPhase' = "starting" /\ generation' = generation + 1 /\ backend' = generation'
  /\ process' = [process EXCEPT ![generation'] = "spawned"]
  /\ start' = [at |-> "backend", left |-> {}]
  /\ UNCHANGED <<stop, workGate, closed, client, frame, thread, loadedThread, askedBackend>>

\* start rejects: the phase is not "starting" any more, or a step of it failed.
StartFails ==
  /\ start.at # "no" /\ start' = NoStart /\ Unavailable
  /\ UNCHANGED <<backend, generation, process, stop, closed, loadedThread>>

BackendListens ==
  /\ start.at = "backend" /\ ownerPhase = "starting" /\ process[backend] = "spawned"
  /\ process' = [process EXCEPT ![backend] = "listening"]
  /\ start' = [at |-> "clients", left |-> Attached]
  /\ UNCHANGED <<ownerPhase, backend, generation, stop, workGate, closed, client, frame, thread,
                 loadedThread, askedBackend>>

\* The management client is connected and initialized before any other.
NextClient == IF Manager \in start.left THEN Manager ELSE Desktop

StartConnects ==
  /\ start.at = "clients" /\ start.left # {} /\ ownerPhase = "starting"
  /\ LET c == NextClient IN
     /\ client[c].attached /\ client[c].runtime = 0 /\ client[c].connecting = 0
     /\ client' = [client EXCEPT ![c].connecting = generation]
  /\ UNCHANGED <<OwnerVars, frame, thread, loadedThread, askedBackend>>

StartAdvances ==
  /\ start.at = "clients" /\ start.left # {} /\ ownerPhase = "starting"
  /\ LET c == NextClient IN
     /\ client[c].attached /\ client[c].runtime = generation
     /\ client' = [client EXCEPT ![c].initialized = client[c].configured]
     /\ start' = [start EXCEPT !.left = @ \ {c}]
  /\ UNCHANGED <<ownerPhase, backend, generation, process, stop, workGate, closed, frame, thread,
                 loadedThread, askedBackend>>

\* The caller opens the gate, unless requests of before are still admitted.
StartFinishes ==
  /\ start.at = "clients" /\ start.left = {} /\ ownerPhase = "starting"
  /\ ownerPhase' = "running" /\ start' = NoStart
  /\ workGate' = IF closed \/ \E q \in Frames : frame[q].admitted THEN workGate ELSE "ready"
  /\ UNCHANGED <<backend, generation, process, stop, closed, client, frame, thread,
                 loadedThread, askedBackend>>

-----------------------------------------------------------------------------
(* Connections.                                                              *)

AttachClient ==
  /\ client[Desktop] = Detached
  /\ client' = [client EXCEPT ![Desktop].attached = TRUE]
  /\ UNCHANGED <<OwnerVars, frame, thread, loadedThread, askedBackend>>

DetachClient ==
  /\ client[Desktop].attached
  /\ client' = [client EXCEPT ![Desktop].attached = FALSE, ![Desktop].retired = TRUE]
  /\ Retire({Desktop}) /\ UNCHANGED <<OwnerVars, loadedThread>>

\* A connection that opens too late is closed again.
ConnectionOpens(c) ==
  /\ client[c].connecting # 0
  /\ LET g == client[c].connecting
         wanted == backend = g /\ client[c].attached /\ Serving IN
     client' = [client EXCEPT ![c].connecting = 0, ![c].runtime = IF wanted THEN g ELSE @,
                              ![c].retired = IF wanted THEN FALSE ELSE @]
  /\ UNCHANGED <<OwnerVars, frame, thread, loadedThread, askedBackend>>

\* A start that waits for the connection fails with it.
ConnectFails(c) ==
  /\ client[c].connecting # 0
  /\ IF start.at = "clients" /\ c \in start.left /\ c = NextClient
       THEN /\ start' = NoStart /\ ownerPhase' = "unavailable" /\ workGate' = "unavailable"
            /\ client' = [Silenced(Attached) EXCEPT ![c].connecting = 0] /\ Retire(Attached)
       ELSE /\ client' = [client EXCEPT ![c].connecting = 0]
            /\ UNCHANGED <<ownerPhase, workGate, start, frame, thread, askedBackend>>
  /\ UNCHANGED <<backend, generation, process, stop, closed, loadedThread>>

\* initialize of a Desktop: its parameters are kept, and sent once connected.
Configure ==
  /\ client[Desktop].attached /\ ~client[Desktop].configured
  /\ client' = [client EXCEPT ![Desktop].configured = TRUE,
       ![Desktop].connecting = IF workGate = "ready" /\ Serving /\ backend # 0
                                  /\ client[Desktop].runtime = 0 /\ @ = 0
                               THEN generation ELSE @]
  /\ UNCHANGED <<OwnerVars, frame, thread, loadedThread, askedBackend>>

Initialize(c) ==
  /\ client[c].configured /\ ~client[c].initialized /\ ~client[c].retired
  /\ client[c].runtime = generation /\ generation # 0 /\ Serving
  /\ client' = [client EXCEPT ![c].initialized = TRUE]
  /\ UNCHANGED <<OwnerVars, frame, thread, loadedThread, askedBackend>>

\* The socket of a client closes: the whole owner becomes unavailable.
ConnectionDrops(c) ==
  /\ client[c].runtime # 0 /\ ~client[c].retired /\ client[c].attached
  /\ IF client[c].runtime = generation /\ ownerPhase # "stopping" THEN Unavailable
     ELSE client' = Silenced({c}) /\ Retire({c}) /\ UNCHANGED <<ownerPhase, workGate>>
  /\ UNCHANGED <<backend, generation, process, start, stop, closed, loadedThread>>

\* The process ends. The owner keeps it until its stop has gone through.
ProcessExits(g) ==
  /\ Alive(g) /\ process' = [process EXCEPT ![g] = "exited"]
  /\ IF backend = g /\ ownerPhase # "stopping" THEN Unavailable /\ StopsNow
     ELSE UNCHANGED <<ownerPhase, workGate, client, frame, thread, askedBackend, stop>>
  /\ UNCHANGED <<backend, generation, start, closed, loadedThread>>

-----------------------------------------------------------------------------
(* Stopping the backend.                                                     *)

CallStop ==
  /\ stop = "no" /\ stop' = "waiting"
  /\ UNCHANGED <<ownerPhase, backend, generation, process, start, workGate, closed, client, frame,
                 thread, loadedThread, askedBackend>>

CloseScope ==
  /\ ~closed /\ closed' = TRUE /\ StopsNow
  /\ UNCHANGED <<ownerPhase, backend, generation, process, start, workGate, client, frame, thread,
                 loadedThread, askedBackend>>

\* A stop waits for the start under way, then retires every client.
StopBegins ==
  /\ stop = "waiting" /\ start = NoStart
  /\ IF backend = 0
       THEN /\ ownerPhase' = "stopped" /\ stop' = "no"
            /\ UNCHANGED <<workGate, client, frame, thread, askedBackend>>
       ELSE /\ ownerPhase' = "stopping" /\ stop' = "asked" /\ workGate' = "unavailable"
            /\ client' = Silenced(Attached) /\ Retire(Attached)
  /\ UNCHANGED <<backend, generation, process, start, closed, loadedThread>>

\* The stop of the process reaches it: end of input, SIGTERM, SIGKILL.
StopKills ==
  /\ stop = "asked" /\ Alive(backend) /\ process' = [process EXCEPT ![backend] = "exited"]
  /\ UNCHANGED <<ownerPhase, backend, generation, start, stop, workGate, closed, client, frame,
                 thread, loadedThread, askedBackend>>

Forgotten(c) == [client[c] EXCEPT !.runtime = 0, !.initialized = FALSE, !.connecting = 0]

StopSucceeds ==
  /\ stop = "asked" /\ ~Alive(backend)
  /\ stop' = "no" /\ ownerPhase' = "stopped" /\ backend' = 0
  /\ client' = [c \in Clients |-> IF client[c].attached THEN Forgotten(c) ELSE client[c]]
  /\ UNCHANGED <<generation, process, start, workGate, closed, frame, thread, loadedThread, askedBackend>>

\* As a failed stop would be, if it gave up the backend it could not stop.
StopForgets ==
  /\ stop = "asked" /\ Alive(backend) /\ stop' = "no" /\ backend' = 0 /\ ownerPhase' = "stopped"
  /\ workGate' = "unavailable" /\ client' = Silenced(Attached) /\ Retire(Attached)
  /\ UNCHANGED <<generation, process, start, closed, loadedThread>>

\* The exit could not be confirmed: the backend stays owned, a stop may be retried.
StopFails ==
  /\ stop = "asked" /\ Alive(backend) /\ stop' = "no" /\ Unavailable
  /\ UNCHANGED <<backend, generation, process, start, closed, loadedThread>>

-----------------------------------------------------------------------------
(* Requests of the Desktop client.                                           *)

Move(q, at) == frame' = [frame EXCEPT ![q].at = at]
Fail(q) == frame' = [frame EXCEPT ![q] = Done(frame[q])]
Connection == client[Desktop]
Open(g) == Connection.runtime = g /\ ~Connection.retired /\ Connection.attached

\* Without admission the request is refused; with it, it needs a connection.
SendFrame(q, kind) ==
  /\ frame[q] = Unsent /\ Connection.attached
  /\ (kind = "turn" => thread.gen # 0) /\ (kind = "start" => thread.gen = 0)
  /\ IF workGate # "ready" \/ backend = 0 \/ ~Serving
       THEN /\ frame' = [frame EXCEPT ![q] = [Done(frame[q]) EXCEPT !.kind = kind]]
            /\ UNCHANGED client
       ELSE /\ frame' = [frame EXCEPT ![q].at = "connecting", ![q].kind = kind,
                                      ![q].admitted = TRUE, ![q].gen = generation]
            /\ client' = [client EXCEPT ![Desktop].connecting =
                 IF Connection.runtime = 0 /\ @ = 0 THEN generation ELSE @]
  /\ UNCHANGED <<OwnerVars, thread, loadedThread, askedBackend>>

NeedsResume(q, g) == frame[q].kind = "turn" /\ thread.gen \notin {0, g}

\* The write is taken, or waits for the stream to drain; a retired runtime refuses it.
Written(q) ==
  LET f == [frame[q] EXCEPT !.gen = Connection.runtime] IN
  IF ~Open(Connection.runtime) THEN frame' = [frame EXCEPT ![q] = Done(f)]
  ELSE \E at \in {"sent", "writing"} :
         frame' = [frame EXCEPT ![q] = [f EXCEPT !.at = at, !.pending = TRUE]]

HasConnection(q) ==
  /\ frame[q].at = "connecting" /\ Connection.connecting = 0
  /\ IF Connection.runtime = 0 THEN Fail(q) /\ UNCHANGED thread
     ELSE IF NeedsResume(q, Connection.runtime)
       THEN IF Connection.retired THEN Fail(q) /\ UNCHANGED thread
            ELSE /\ frame' = [frame EXCEPT ![q].at = "restoring", ![q].gen = Connection.runtime]
                 /\ thread' = [thread EXCEPT !.restoring = Connection.runtime]
       ELSE Written(q) /\ UNCHANGED thread
  /\ UNCHANGED <<OwnerVars, client, loadedThread, askedBackend>>

\* thread/resume, once for every request that waits for it.
Restored ==
  /\ thread.restoring # 0 /\ Open(thread.restoring) /\ process[thread.restoring] = "listening"
  /\ thread' = [gen |-> thread.restoring, restoring |-> 0]
  /\ loadedThread' = loadedThread \union {thread.restoring}
  /\ UNCHANGED <<OwnerVars, client, frame, askedBackend>>

AfterRestore(q) ==
  /\ frame[q].at = "restoring" /\ thread.restoring = 0
  /\ IF thread.gen = frame[q].gen THEN Written(q) ELSE Fail(q)
  /\ UNCHANGED <<OwnerVars, client, thread, loadedThread, askedBackend>>

\* The resumption is refused, or its 30 seconds are over.
ResumeFails ==
  /\ thread.restoring # 0 /\ thread' = [thread EXCEPT !.restoring = 0]
  /\ frame' = [q \in Frames |-> IF frame[q].at = "restoring" THEN Done(frame[q]) ELSE frame[q]]
  /\ UNCHANGED <<OwnerVars, client, loadedThread, askedBackend>>

WriteDrains(q) ==
  /\ frame[q].at = "writing" /\ Open(frame[q].gen)
  /\ Move(q, IF frame[q].pending THEN "sent" ELSE "done")
  /\ UNCHANGED <<OwnerVars, client, thread, loadedThread, askedBackend>>

\* The stream closes before the write has drained: send rejects.
FrameWriteFails(q) ==
  /\ frame[q].at = "writing" /\ ~Open(frame[q].gen) /\ Fail(q)
  /\ UNCHANGED <<OwnerVars, client, thread, loadedThread, askedBackend>>

\* An answer is for the generation that is served now; a started Thread is remembered.
BackendAnswers(q) ==
  /\ frame[q].pending /\ Open(frame[q].gen) /\ process[frame[q].gen] = "listening"
  /\ frame[q].gen = generation /\ Serving
  /\ frame' = [frame EXCEPT ![q] = IF @.at = "writing" THEN AnswerFrame(@) ELSE Done(@)]
  /\ \E ok \in BOOLEAN :
       IF ok /\ frame[q].kind = "start"
         THEN thread' = [gen |-> generation, restoring |-> 0] /\ loadedThread' = loadedThread \union {generation}
         ELSE UNCHANGED <<thread, loadedThread>>
  /\ UNCHANGED <<OwnerVars, client, askedBackend>>

\* The backend asks the Desktop: the id it shows stands for this generation's.
BackendAsks ==
  /\ askedBackend = NobodyAsked /\ Open(generation) /\ generation # 0 /\ Serving
  /\ process[generation] = "listening"
  /\ askedBackend' = [by |-> generation, open |-> TRUE, reply |-> 0]
  /\ UNCHANGED <<OwnerVars, client, frame, thread, loadedThread>>

DesktopReplies ==
  /\ askedBackend.open /\ Connection.runtime # 0 /\ Open(generation)
  /\ askedBackend' = [askedBackend EXCEPT !.open = FALSE, !.reply = Connection.runtime]
  /\ UNCHANGED <<OwnerVars, client, frame, thread, loadedThread>>

-----------------------------------------------------------------------------
NextOfficial ==
  \/ StartOwner \/ StartFails \/ BackendListens \/ StartConnects \/ StartAdvances \/ StartFinishes
  \/ AttachClient \/ DetachClient \/ Configure
  \/ \E c \in Clients : \/ ConnectionOpens(c) \/ ConnectFails(c) \/ Initialize(c) \/ ConnectionDrops(c)
  \/ \E g \in Generations : ProcessExits(g)
  \/ CallStop \/ CloseScope \/ StopBegins \/ StopKills \/ StopSucceeds \/ StopFails
  \/ \E q \in Frames : \/ \E kind \in {"read", "start", "turn"} : SendFrame(q, kind)
                       \/ HasConnection(q) \/ AfterRestore(q) \/ WriteDrains(q)
                       \/ FrameWriteFails(q) \/ BackendAnswers(q)
  \/ Restored \/ ResumeFails \/ BackendAsks \/ DesktopReplies

\* Promises that settle do run their callbacks, a connect settles, a resumption
\* is answered or times out, a stop ends and a backend that listens answers.
OfficialFairness ==
  /\ \A q \in Frames : /\ WF_officialVars(HasConnection(q)) /\ WF_officialVars(AfterRestore(q))
                       /\ WF_officialVars(WriteDrains(q)) /\ WF_officialVars(FrameWriteFails(q))
                       /\ WF_officialVars(BackendAnswers(q))
  /\ \A c \in Clients : WF_officialVars(ConnectionOpens(c) \/ ConnectFails(c))
  /\ WF_officialVars(Restored \/ ResumeFails)
  /\ WF_officialVars(StopBegins) /\ WF_officialVars(StopSucceeds \/ StopFails)

OfficialSpec == InitOfficial /\ [][NextOfficial]_officialVars /\ OfficialFairness

-----------------------------------------------------------------------------
OfficialTypeOK ==
  /\ ownerPhase \in {"stopped", "starting", "running", "stopping", "unavailable"}
  /\ backend \in {0} \union Generations /\ generation \in {0} \union Generations
  /\ process \in [Generations -> {"none", "spawned", "listening", "exited"}]
  /\ start.at \in {"no", "backend", "clients"} /\ start.left \subseteq Clients
  /\ stop \in {"no", "waiting", "asked"} /\ workGate \in {"ready", "unavailable"}
  /\ closed \in BOOLEAN /\ loadedThread \subseteq Generations
  /\ \A c \in Clients : {client[c].runtime, client[c].connecting} \subseteq 0..MaxGenerations
  /\ \A q \in Frames : /\ frame[q].answers \in Nat
       /\ frame[q].at \in {"idle", "connecting", "restoring", "writing", "sent", "done"}

\* There is never a second app-server process: a backend is given up only once
\* its exit is proved, whatever start, stop, crash and retry follow each other
\* ("keeps ownership after a failed stop and refuses a competing backend").
OneProcess == Cardinality({g \in Generations : Alive(g)}) <= 1

\* With its answer a request of the Desktop gives its admission back, across retirement,
\* restoration and late answers, and is not answered again, but for one case: the
\* connection closes under its write that still waits for the stream to drain.
AnswerEndsAdmission ==
  client[Desktop].attached =>
    \A q \in Frames : /\ frame[q].admitted => frame[q].answers = 0
                      /\ frame[q].at = "done" => frame[q].answers \in 1..2 /\ ~frame[q].admitted
                      /\ frame[q].answers # 0 => frame[q].at \in {"writing", "done"}
                      /\ frame[q].answers >= 2 => frame[q].answers = 2 /\ frame[q].at = "done" /\ ~Open(frame[q].gen)

\* Answered at most once: fails, because retirement, or the backend, answers a request
\* whose write has not drained, and the write that fails then answers it again.
FrameAnsweredOnce ==
  client[Desktop].attached => \A q \in Frames : frame[q].answers <= 1

\* The gate admits work only for a backend that has been started and is served.
GateIsServed == workGate = "ready" => ownerPhase = "running" /\ backend = generation

\* Generations stay apart: a Turn of a known Thread is written only to a backend
\* that has the Thread loaded, so that after a restart the Thread is resumed
\* first, and a reply reaches the backend that asked, never its successor.
GenerationsStayApart ==
  [][/\ askedBackend'.reply \in {0, askedBackend'.by}
     /\ \A q \in Frames : (frame'[q].pending /\ ~frame[q].pending /\ frame[q].kind = "turn")
                             => frame'[q].gen \in loadedThread]_officialVars

\* Every request a Desktop sends is answered in the end.
FramesSettle == \A q \in Frames : frame[q].at = "connecting" ~> frame[q].at = "done"
=============================================================================
