------------------------ MODULE OfficialRuntime_proofs ------------------------
(***************************************************************************)
(* The runtimes other processes own.  The official runtime, for any number  *)
(* of generations and requests: there is never a second process, and a      *)
(* request gives its admission back with its one answer, answered again     *)
(* only when the connection closes under a write of it that still waits.    *)
(* The harness broker, for any number of Hosts, connections and Sessions:   *)
(* the Sessions their Hosts may use write different native ones.  The       *)
(* claude process of a Session, for any number of Subagents, Turns and      *)
(* messages: a Turn does not succeed before the Subagents the Session       *)
(* follows have ended.                                                      *)
(***************************************************************************)
EXTENDS OfficialRuntime, HarnessBroker, ClaudeSession, SequenceTheorems, FiniteSetTheorems, TLAPS

(***************************************************************************)
(* One process.  A process that lives is the one the owner answers for.     *)
(***************************************************************************)

ProcessInv ==
  /\ generation \in {0} \union Generations
  /\ process \in [Generations -> {"none", "spawned", "listening", "exited"}]
  /\ backend \in {0} \union Generations
  /\ \A g \in Generations : Alive(g) => g = backend

LEMMA ProcessInit == InitOfficial => ProcessInv
  BY DEF InitOfficial, ProcessInv, Alive

\* A process is spawned only when the owner answers for none, which is so only once the exit of
\* the former one is proved.
LEMMA ProcessNext ==
  ASSUME ProcessInv, [NextOfficial]_officialVars
  PROVE  ProcessInv'
<1>0. MaxGenerations \in Nat /\ 0 \notin Generations
  BY OfficialConstants DEF OfficialConstants, Generations
<1>1. CASE StartOwner
  <2>1. generation' \in Generations /\ generation' = generation + 1 /\ backend' = generation'
    BY <1>0, <1>1 DEF StartOwner, ProcessInv, Generations
  <2>2. \A g \in Generations : ~Alive(g)
    BY <1>0, <1>1 DEF StartOwner, ProcessInv
  <2>3. process' = [process EXCEPT ![generation'] = "spawned"]
    BY <1>1 DEF StartOwner
  <2>4. \A g \in Generations : Alive(g)' => g = backend'
    BY <2>1, <2>2, <2>3 DEF ProcessInv, Alive
  <2>5. QED
    BY <2>1, <2>3, <2>4 DEF ProcessInv
<1>2. CASE BackendListens \/ StopKills
  BY <1>2 DEF BackendListens, StopKills, ProcessInv, Alive
<1>3. CASE StopSucceeds
  BY <1>3 DEF StopSucceeds, ProcessInv, Alive
<1>4. ASSUME NEW g \in Generations, ProcessExits(g) PROVE ProcessInv'
  BY <1>4 DEF ProcessExits, ProcessInv, Alive
<1>5. CASE UNCHANGED <<backend, generation, process>>
  BY <1>5 DEF ProcessInv, Alive
<1>6. ASSUME \/ StartFails \/ StartConnects \/ StartAdvances \/ StartFinishes
             \/ AttachClient \/ DetachClient \/ Configure
             \/ CallStop \/ CloseScope \/ StopBegins \/ StopFails
             \/ Restored \/ ResumeFails \/ BackendAsks \/ DesktopReplies
      PROVE  UNCHANGED <<backend, generation, process>>
  BY <1>6 DEF StartFails, StartConnects, StartAdvances, StartFinishes, AttachClient, DetachClient,
              Configure, CallStop, CloseScope, StopBegins, StopFails, Restored, ResumeFails,
              BackendAsks, DesktopReplies, OwnerVars
<1>7. ASSUME NEW c \in Clients,
             ConnectionOpens(c) \/ ConnectFails(c) \/ Initialize(c) \/ ConnectionDrops(c)
      PROVE  UNCHANGED <<backend, generation, process>>
  BY <1>7 DEF ConnectionOpens, ConnectFails, Initialize, ConnectionDrops, OwnerVars
<1>8. ASSUME NEW q \in Frames,
             \/ \E kind \in {"read", "start", "turn"} : SendFrame(q, kind)
             \/ HasConnection(q) \/ AfterRestore(q) \/ WriteDrains(q)
             \/ FrameWriteFails(q) \/ BackendAnswers(q)
      PROVE  UNCHANGED <<backend, generation, process>>
  BY <1>8 DEF SendFrame, HasConnection, AfterRestore, WriteDrains, FrameWriteFails,
              BackendAnswers, OwnerVars
<1>9. CASE UNCHANGED officialVars
  BY <1>5, <1>9 DEF officialVars
<1>10. QED
  BY <1>1, <1>2, <1>3, <1>4, <1>5, <1>6, <1>7, <1>8, <1>9 DEF NextOfficial

\* There is never a second app-server process.
THEOREM SoleProcess == OfficialSpec => []OneProcess
<1>1. OfficialSpec => []ProcessInv
  BY ProcessInit, ProcessNext, PTL DEF OfficialSpec
<1>2. ASSUME ProcessInv PROVE OneProcess
  <2>1. {g \in Generations : Alive(g)} \subseteq {backend}
    BY <1>2 DEF ProcessInv
  <2>2. IsFiniteSet({backend}) /\ Cardinality({backend}) = 1
    BY FS_Singleton
  <2>3. Cardinality({g \in Generations : Alive(g)}) <= Cardinality({backend})
    BY <2>1, <2>2, FS_Subset
  <2>4. QED
    BY <2>2, <2>3 DEF OneProcess
<1>3. QED
  BY <1>1, <1>2, PTL

(***************************************************************************)
(* The answers of a request.  What a request is owed follows from where it  *)
(* is; that it is answered again only under a write that failed, and never  *)
(* on a connection that is open, follows from the link of the request to    *)
(* the connection its write was for.                                        *)
(***************************************************************************)

FrameFields ==
  [at : {"idle", "connecting", "restoring", "writing", "sent", "done"},
   kind : {"read", "start", "turn"}, gen : 0..MaxGenerations,
   pending : BOOLEAN, admitted : BOOLEAN, answers : 0..2]

FrameKept(f) ==
  /\ f \in FrameFields
  /\ f.pending => f.at \in {"sent", "writing"} /\ f.answers = 0
  /\ f.at = "sent" => f.pending
  /\ f.at = "writing" => f.pending \/ f.answers = 1
  /\ f.at \in {"idle", "connecting", "restoring", "sent"} => f.answers = 0
  /\ f.at = "done" => f.answers \in 1..2
  /\ f.answers # 0 => f.admitted = FALSE

FramesKept ==
  /\ frame = [q \in Frames |-> frame[q]]
  /\ \A q \in Frames : FrameKept(frame[q])

LEMMA AnswerIsKept ==
  ASSUME NEW f, FrameKept(f), f.at # "done"
  PROVE  /\ FrameKept(Done(f)) /\ Done(f).at = "done" /\ Done(f).gen = f.gen
         /\ Done(f).answers = f.answers + 1
         /\ f.pending /\ f.at = "writing" =>
              /\ FrameKept(AnswerFrame(f)) /\ AnswerFrame(f).at = "writing"
              /\ AnswerFrame(f).gen = f.gen /\ AnswerFrame(f).answers = 1
<1>1. f.answers \in 0..1 /\ f \in FrameFields
  BY DEF FrameKept, FrameFields
<1>2. PICK n \in 1..2 : n = f.answers + 1
  BY <1>1
<1>3. PICK a : a = [f EXCEPT !.answers = n, !.admitted = FALSE, !.pending = FALSE]
  OBVIOUS
<1>4. AnswerFrame(f) = a
  BY <1>2, <1>3 DEF AnswerFrame
<1>5. PICK d : d = [a EXCEPT !.at = "done"]
  OBVIOUS
<1>6. Done(f) = d
  BY <1>4, <1>5 DEF Done
<1>7. /\ a \in FrameFields /\ a.at = f.at /\ a.gen = f.gen /\ a.answers = n
      /\ a.admitted = FALSE /\ a.pending = FALSE
  <2>1. n \in 0..2
    BY <1>2
  <2>2. a \in FrameFields
    BY <1>1, <1>3, <2>1 DEF FrameFields
  <2>3. a.at = f.at /\ a.gen = f.gen
    BY <1>1, <1>3 DEF FrameFields
  <2>4. a.answers = n
    BY <1>1, <1>3 DEF FrameFields
  <2>5. a.admitted = FALSE /\ a.pending = FALSE
    BY <1>1, <1>3 DEF FrameFields
  <2> QED BY <2>2, <2>3, <2>4, <2>5
<1>8. /\ d \in FrameFields /\ d.at = "done" /\ d.gen = f.gen /\ d.answers = n
      /\ d.admitted = FALSE /\ d.pending = FALSE
  BY <1>5, <1>7 DEF FrameFields
<1>9. FrameKept(d)
  BY <1>8 DEF FrameKept, FrameFields
<1>10. f.pending /\ f.at = "writing" => FrameKept(a) /\ n = 1
  BY <1>2, <1>7 DEF FrameKept, FrameFields
<1> QED BY <1>2, <1>4, <1>6, <1>7, <1>8, <1>9, <1>10

LEMMA RetiredIsKept ==
  ASSUME NEW f, FrameKept(f)
  PROVE  /\ FrameKept(RetiredFrame(f)) /\ RetiredFrame(f).gen = f.gen
         /\ RetiredFrame(f).at # "restoring"
         /\ RetiredFrame(f).at = "writing" => f.at = "writing"
         /\ RetiredFrame(f).answers = 2 => f.answers = 2
<1>1. CASE f.pending
  <2>1. PICK d : d = Done(f)
    OBVIOUS
  <2>2. PICK a : a = AnswerFrame(f)
    OBVIOUS
  <2>3. f.at \in {"sent", "writing"} /\ f.answers = 0
    BY <1>1 DEF FrameKept
  <2>4. FrameKept(d) /\ d.at = "done" /\ d.gen = f.gen /\ d.answers = 1
    BY <2>1, <2>3, AnswerIsKept
  <2>5. f.at = "writing" => FrameKept(a) /\ a.at = "writing" /\ a.gen = f.gen /\ a.answers = 1
    BY <1>1, <2>2, <2>3, AnswerIsKept
  <2>6. RetiredFrame(f) = IF f.at = "writing" THEN a ELSE d
    BY <1>1, <2>1, <2>2 DEF RetiredFrame
  <2> QED BY <2>3, <2>4, <2>5, <2>6
<1>2. CASE ~f.pending /\ f.at = "restoring"
  <2>1. PICK d : d = Done(f)
    OBVIOUS
  <2>2. f.answers = 0
    BY <1>2 DEF FrameKept
  <2>3. FrameKept(d) /\ d.at = "done" /\ d.gen = f.gen /\ d.answers = 1
    BY <1>2, <2>1, <2>2, AnswerIsKept
  <2>4. RetiredFrame(f) = d
    BY <1>2, <2>1 DEF RetiredFrame
  <2> QED BY <2>3, <2>4
<1>3. CASE ~f.pending /\ f.at # "restoring"
  BY <1>3 DEF RetiredFrame
<1> QED BY <1>1, <1>2, <1>3

\* A request that is about to be written, for another generation
LEMMA FrameGoesOn ==
  ASSUME NEW f, FrameKept(f), NEW gen \in 0..MaxGenerations, f.at \in {"connecting", "restoring"}
  PROVE  /\ FrameKept([f EXCEPT !.gen = gen])
         /\ [f EXCEPT !.gen = gen].at = f.at /\ [f EXCEPT !.gen = gen].answers = 0
<1>1. PICK g : g = [f EXCEPT !.gen = gen]
  OBVIOUS
<1>2. FrameKept(g) /\ g.at = f.at /\ g.answers = 0
  BY <1>1 DEF FrameKept, FrameFields
<1> QED BY <1>1, <1>2

(***************************************************************************)
(* The link.  The connection is that of the Desktop.                       *)
(***************************************************************************)
ConnectionShape ==
  [attached : BOOLEAN, configured : BOOLEAN, initialized : BOOLEAN, retired : BOOLEAN,
   runtime : 0..MaxGenerations, connecting : 0..MaxGenerations]

\* A request that is being written, or was answered twice: the runtime it was written to is
\* still the connection's, or the owner has given its backend up.
Owes(f) == f.at = "writing" \/ f.answers = 2
Linked(f) ==
  /\ f.at = "restoring" => f.gen # 0 /\ f.gen = Connection.runtime /\ ~Connection.retired
  /\ Owes(f) => f.gen \in 1..generation /\ (Connection.runtime # f.gen => backend # f.gen)
  /\ f.answers = 2 => ~Open(f.gen)

ConnectionInv ==
  /\ client \in [Clients -> ConnectionShape]
  /\ backend <= generation /\ Connection.connecting <= generation
  /\ Connection.runtime <= generation
  /\ Connection.connecting # 0 => Connection.runtime = 0
  /\ ~Connection.attached => Connection.retired \/ Connection.runtime = 0
  /\ stop = "asked" => ownerPhase \in {"stopping", "unavailable"} /\ (Connection.retired \/ Connection.runtime = 0)

AnswerInv == ProcessInv /\ FramesKept /\ ConnectionInv /\ \A q \in Frames : Linked(frame[q])

\* What a step may do to the connection and to the generations: nothing that opens it for a
\* request of before, unless the step retires every request.
Stands ==
  /\ generation' >= generation
  /\ \/ /\ Connection'.runtime = Connection.runtime /\ (Connection.retired => Connection'.retired)
        /\ Connection'.attached /\ Connection.runtime # 0 => Connection.attached
        /\ backend' \in {0, backend} \/ backend' > generation
     \/ Connection.runtime = 0 /\ Connection'.runtime \in {0, backend} /\ backend' = backend
     \/ Connection'.runtime = 0 /\ backend' = 0 /\ (Connection.retired \/ Connection.runtime = 0)

LEMMA LinkStands ==
  ASSUME AnswerInv, generation' \in 0..MaxGenerations, Stands, NEW f, FrameKept(f), Linked(f)
  PROVE  /\ Owes(f) => f.gen \in 1..generation' /\ (Connection'.runtime # f.gen => backend' # f.gen)
         /\ f.answers = 2 => ~Open(f.gen)'
         /\ f.at = "restoring" /\ (Connection'.retired => Connection.retired) =>
              f.gen # 0 /\ f.gen = Connection'.runtime /\ ~Connection'.retired
<1>0. /\ generation \in 0..MaxGenerations /\ backend \in 0..MaxGenerations /\ MaxGenerations \in Nat
      /\ backend <= generation
  BY OfficialConstants DEF AnswerInv, ProcessInv, ConnectionInv, Generations
<1>1. Owes(f) => f.gen \in 1..generation /\ (Connection.runtime # f.gen => backend # f.gen)
  BY DEF Linked
<1>2. Owes(f) => f.gen \in 1..generation' /\ (Connection'.runtime # f.gen => backend' # f.gen)
  <2>1. CASE /\ Connection'.runtime = Connection.runtime
             /\ backend' \in {0, backend} \/ backend' > generation
    BY <1>0, <1>1, <2>1 DEF Stands
  <2>2. CASE Connection.runtime = 0 /\ Connection'.runtime \in {0, backend} /\ backend' = backend
    BY <1>0, <1>1, <2>2 DEF Stands
  <2>3. CASE Connection'.runtime = 0 /\ backend' = 0
    BY <1>0, <1>1, <2>3 DEF Stands
  <2> QED BY <2>1, <2>2, <2>3 DEF Stands
<1>3. f.answers = 2 => ~Open(f.gen)'
  <2> SUFFICES ASSUME f.answers = 2 PROVE ~Open(f.gen)'
    OBVIOUS
  <2>1. f.gen \in 1..generation /\ (Connection.runtime # f.gen => backend # f.gen) /\ ~Open(f.gen)
    BY <1>1 DEF Owes, Linked
  <2>2. CASE /\ Connection'.runtime = Connection.runtime
             /\ Connection.retired => Connection'.retired
             /\ Connection'.attached /\ Connection.runtime # 0 => Connection.attached
    BY <1>0, <2>1, <2>2 DEF Open
  <2>3. CASE Connection.runtime = 0 /\ Connection'.runtime \in {0, backend}
    BY <1>0, <2>1, <2>3 DEF Open
  <2>4. CASE Connection'.runtime = 0
    BY <1>0, <2>1, <2>4 DEF Open
  <2> QED BY <2>2, <2>3, <2>4 DEF Stands
<1>4. f.at = "restoring" /\ (Connection'.retired => Connection.retired) =>
        f.gen # 0 /\ f.gen = Connection'.runtime /\ ~Connection'.retired
  BY DEF Linked, Stands
<1> QED BY <1>2, <1>3, <1>4

\* Nothing is retired: every request stays linked.
LEMMA Unretired ==
  ASSUME AnswerInv, generation' \in 0..MaxGenerations, Stands, UNCHANGED frame,
         Connection'.retired => Connection.retired
  PROVE  FramesKept' /\ \A q \in Frames : Linked(frame[q])'
<1>1. ASSUME NEW q \in Frames PROVE Linked(frame[q])'
  <2>1. FrameKept(frame[q]) /\ Linked(frame[q])
    BY DEF AnswerInv, FramesKept
  <2> QED BY <2>1, LinkStands DEF Linked, Owes
<1>2. FramesKept'
  BY DEF AnswerInv, FramesKept
<1> QED BY <1>1, <1>2

\* Every request is retired.
LEMMA AllRetired ==
  ASSUME AnswerInv, generation' \in 0..MaxGenerations, Stands,
         frame' = [q \in Frames |-> RetiredFrame(frame[q])]
  PROVE  FramesKept' /\ \A q \in Frames : Linked(frame[q])'
<1>1. ASSUME NEW q \in Frames PROVE FrameKept(frame'[q]) /\ Linked(frame[q])'
  <2>1. FrameKept(frame[q]) /\ Linked(frame[q])
    BY DEF AnswerInv, FramesKept
  <2>2. PICK f : f = frame'[q]
    OBVIOUS
  <2>3. /\ FrameKept(f) /\ f.gen = frame[q].gen /\ f.at # "restoring"
        /\ f.at = "writing" => frame[q].at = "writing"
        /\ f.answers = 2 => frame[q].answers = 2
    BY <2>1, <2>2, RetiredIsKept
  <2> QED BY <2>1, <2>2, <2>3, LinkStands DEF Linked, Owes
<1>2. FramesKept'
  BY <1>1 DEF FramesKept
<1> QED BY <1>1, <1>2

\* What retires clients retires the requests of the Desktop if it is one of them.
LEMMA Retires ==
  ASSUME AnswerInv, generation' \in 0..MaxGenerations, Stands, NEW S, RetireFrames(S),
         Desktop \notin S => (Connection'.retired => Connection.retired)
  PROVE  FramesKept' /\ \A q \in Frames : Linked(frame[q])'
<1>1. CASE Desktop \in S
  BY <1>1, AllRetired DEF RetireFrames
<1>2. CASE Desktop \notin S
  BY <1>2, Unretired DEF RetireFrames
<1> QED BY <1>1, <1>2

\* One request moves and the connection stands.
LEMMA OneMoves ==
  ASSUME AnswerInv, generation' \in 0..MaxGenerations, Stands, Connection'.retired => Connection.retired,
         NEW q \in Frames, NEW f, frame' = [frame EXCEPT ![q] = f], FrameKept(f),
         f.at = "restoring" => f.gen # 0 /\ f.gen = Connection'.runtime /\ ~Connection'.retired,
         Owes(f) => f.gen \in 1..generation' /\ (Connection'.runtime # f.gen => backend' # f.gen),
         f.answers = 2 => ~Open(f.gen)'
  PROVE  FramesKept' /\ \A p \in Frames : Linked(frame[p])'
<1>1. frame' = [p \in Frames |-> IF p = q THEN f ELSE frame[p]]
  BY DEF AnswerInv, FramesKept
<1>2. ASSUME NEW p \in Frames PROVE FrameKept(frame'[p]) /\ Linked(frame[p])'
  <2>1. CASE p = q
    <3>1. frame'[p] = f
      BY <1>1, <2>1
    <3> QED BY <3>1 DEF Linked, Owes
  <2>2. CASE p # q
    <3>1. frame'[p] = frame[p] /\ FrameKept(frame[p]) /\ Linked(frame[p])
      BY <1>1, <2>2 DEF AnswerInv, FramesKept
    <3> QED BY <3>1, LinkStands DEF Linked, Owes
  <2> QED BY <2>1, <2>2
<1> QED BY <1>1, <1>2 DEF FramesKept

\* A request is answered that is not being written: it is done.
LEMMA OneFails ==
  ASSUME AnswerInv, generation' \in 0..MaxGenerations, Stands, Connection'.retired => Connection.retired,
         NEW q \in Frames, NEW f, FrameKept(f), f.at \notin {"writing", "done"},
         frame' = [frame EXCEPT ![q] = Done(f)]
  PROVE  FramesKept' /\ \A p \in Frames : Linked(frame[p])'
<1>1. PICK d : d = Done(f)
  OBVIOUS
<1>2. FrameKept(d) /\ d.at = "done" /\ d.answers = 1
  <2>1. f.answers = 0
    BY DEF FrameKept, FrameFields
  <2> QED BY <1>1, <2>1, AnswerIsKept
<1>3. ~Owes(d) /\ d.at # "restoring" /\ d.answers # 2
  BY <1>2 DEF Owes
<1>4. frame' = [frame EXCEPT ![q] = d]
  BY <1>1
<1> QED BY <1>2, <1>3, <1>4, OneMoves

\* The write of a request for the connection of now
LEMMA WrittenLinks ==
  ASSUME AnswerInv, UNCHANGED <<client, backend, generation>>, NEW q \in Frames,
         frame[q].at \in {"connecting", "restoring"}, Connection.runtime # 0, Written(q)
  PROVE  FramesKept' /\ \A p \in Frames : Linked(frame[p])'
<1> DEFINE r == Connection.runtime
           f == [frame[q] EXCEPT !.gen = r]
<1>0. /\ FrameKept(frame[q]) /\ generation' \in 0..MaxGenerations
      /\ Connection' = Connection /\ r \in 1..generation /\ backend <= generation
  <2>1. generation \in 0..MaxGenerations /\ MaxGenerations \in Nat
    BY OfficialConstants DEF AnswerInv, ProcessInv, Generations
  <2>2. r \in 0..generation
    <3>1. r \in 0..MaxGenerations /\ r <= generation
      BY DEF AnswerInv, ConnectionInv, ConnectionShape, Clients, Connection
    <3> QED BY <2>1, <3>1
  <2> QED BY <2>1, <2>2 DEF AnswerInv, FramesKept, ConnectionInv, Connection
<1>1. Stands
  <2>1. generation \in Nat
    BY OfficialConstants DEF AnswerInv, ProcessInv, Generations
  <2> QED BY <1>0, <2>1 DEF Stands
<1>r. r \in 0..MaxGenerations
  BY DEF AnswerInv, ConnectionInv, ConnectionShape, Clients, Connection
<1>2. FrameKept(f) /\ f.at # "done" /\ f.at # "writing"
  BY <1>0, <1>r, FrameGoesOn
<1>3. CASE ~Open(r)
  <2>1. frame' = [frame EXCEPT ![q] = Done(f)]
    BY <1>3 DEF Written
  <2> HIDE DEF f
  <2> QED BY <1>0, <1>1, <1>2, <2>1, OneFails
<1>4. CASE Open(r)
  <2>1. PICK at \in {"sent", "writing"} : frame' = [frame EXCEPT ![q] = [f EXCEPT !.at = at, !.pending = TRUE]]
    BY <1>4 DEF Written
  <2>2. PICK g : g = [frame[q] EXCEPT !.gen = r, !.at = at, !.pending = TRUE]
    OBVIOUS
  <2>3. FrameKept(g) /\ g.at = at /\ g.gen = r /\ g.answers = 0
    <3>1. PICK rr \in 0..MaxGenerations : rr = r
      BY <1>r
    <3>2. g = [frame[q] EXCEPT !.gen = rr, !.at = at, !.pending = TRUE]
      BY <2>2, <3>1
    <3>3. FrameKept(g) /\ g.at = at /\ g.gen = rr /\ g.answers = 0
      <4> HIDE DEF r, f
      <4>1. PICK x : x = frame[q]
        OBVIOUS
      <4>2. FrameKept(x) /\ x.at \in {"connecting", "restoring"}
        BY <1>0, <4>1
      <4>3. g = [x EXCEPT !.gen = rr, !.at = at, !.pending = TRUE]
        BY <3>2, <4>1
      <4> QED BY <2>1, <4>2, <4>3 DEF FrameKept, FrameFields
    <3> QED BY <3>1, <3>3
  <2>4. frame' = [frame EXCEPT ![q] = g]
    BY <2>1, <2>2
  <2> HIDE DEF f
  <2>5. /\ g.at # "restoring" /\ g.answers # 2
        /\ Owes(g) => g.gen \in 1..generation' /\ (Connection'.runtime # g.gen => backend' # g.gen)
    BY <1>0, <2>1, <2>3 DEF Owes
  <2> QED BY <1>0, <1>1, <2>3, <2>4, <2>5, OneMoves
<1> QED BY <1>3, <1>4

(***************************************************************************)
(* What each step does to the connection                                   *)
(***************************************************************************)
LEMMA ClientMoves ==
  ASSUME ProcessInv, ConnectionInv, client' \in [Clients -> ConnectionShape],
         UNCHANGED <<backend, generation>>,
         Connection'.runtime = Connection.runtime, Connection.retired => Connection'.retired,
         Connection'.attached /\ Connection.runtime # 0 => Connection.attached,
         Connection'.connecting <= generation,
         Connection'.connecting # 0 => Connection.runtime = 0,
         ~Connection'.attached => Connection'.retired \/ Connection.runtime = 0,
         stop' = "asked" => /\ ownerPhase' \in {"stopping", "unavailable"}
                            /\ Connection'.retired \/ Connection.runtime = 0
  PROVE  ConnectionInv' /\ Stands
<1>1. generation \in 0..MaxGenerations /\ MaxGenerations \in Nat
  BY OfficialConstants DEF ProcessInv, Generations
<1>2. Stands
  BY <1>1 DEF Stands
<1>3. ConnectionInv'
  BY <1>1 DEF ConnectionInv
<1> QED BY <1>2, <1>3

LEMMA ClientsStay ==
  ASSUME ProcessInv, ConnectionInv, UNCHANGED <<client, backend, generation>>,
         stop' = "asked" => stop = "asked" /\ ownerPhase' \in {"stopping", "unavailable"}
  PROVE  ConnectionInv' /\ Stands /\ (Connection'.retired => Connection.retired)
<1>1. Connection' = Connection /\ client \in [Clients -> ConnectionShape]
  BY DEF Connection, ConnectionInv
<1> QED BY <1>1, ClientMoves DEF ConnectionInv

LEMMA ClientOf ==
  ASSUME ConnectionInv, NEW c \in Clients, NEW x \in ConnectionShape, client' = [client EXCEPT ![c] = x]
  PROVE  client' \in [Clients -> ConnectionShape] /\ Connection' = IF c = Desktop THEN x ELSE Connection
BY DEF ConnectionInv, Connection, Clients

LEMMA SilencedAre ==
  ASSUME ConnectionInv, NEW S
  PROVE  /\ Silenced(S) \in [Clients -> ConnectionShape]
         /\ \A x : x = Silenced(S)[Desktop] =>
              /\ x.runtime = Connection.runtime /\ x.connecting = Connection.connecting
              /\ x.attached = Connection.attached
              /\ x.retired = IF Desktop \in S THEN TRUE ELSE Connection.retired
<1>1. ASSUME NEW c \in Clients PROVE client[c] \in ConnectionShape
  BY DEF ConnectionInv
<1>2. ASSUME NEW c \in Clients
      PROVE  [client[c] EXCEPT !.retired = TRUE] \in ConnectionShape
  BY <1>1 DEF ConnectionShape
<1>3. Silenced(S) \in [Clients -> ConnectionShape]
  BY <1>1, <1>2 DEF Silenced
<1>4. ASSUME NEW x, x = Silenced(S)[Desktop]
      PROVE  /\ x.runtime = Connection.runtime /\ x.connecting = Connection.connecting
             /\ x.attached = Connection.attached
             /\ x.retired = IF Desktop \in S THEN TRUE ELSE Connection.retired
  <2>1. client[Desktop] \in ConnectionShape /\ Desktop \in Clients
    BY <1>1 DEF Clients
  <2>2. x = IF Desktop \in S THEN [client[Desktop] EXCEPT !.retired = TRUE] ELSE client[Desktop]
    BY <1>4, <2>1 DEF Silenced
  <2>3. CASE Desktop \in S
    BY <2>1, <2>2, <2>3 DEF ConnectionShape, Connection
  <2>4. CASE Desktop \notin S
    BY <2>2, <2>4 DEF Connection
  <2> QED BY <2>3, <2>4
<1> QED BY <1>3, <1>4

\* The clients of S are retired.
LEMMA SilencedStand ==
  ASSUME ProcessInv, ConnectionInv, NEW S, client' = Silenced(S), UNCHANGED <<backend, generation>>,
         stop' = "asked" => /\ ownerPhase' \in {"stopping", "unavailable"}
                            /\ \/ Connection.attached => Desktop \in S
                               \/ Connection.retired \/ Connection.runtime = 0
  PROVE  /\ ConnectionInv' /\ Stands
         /\ Desktop \notin S => (Connection'.retired => Connection.retired)
<1>1. PICK x : x = Silenced(S)[Desktop]
  OBVIOUS
<1>2. Connection' = x
  BY <1>1 DEF Connection
<1>3. /\ x.runtime = Connection.runtime /\ x.connecting = Connection.connecting
      /\ x.attached = Connection.attached
      /\ x.retired = IF Desktop \in S THEN TRUE ELSE Connection.retired
      /\ client' \in [Clients -> ConnectionShape]
  BY <1>1, SilencedAre
<1>4. /\ Connection.connecting <= generation
      /\ Connection.connecting # 0 => Connection.runtime = 0
      /\ ~Connection.attached => Connection.retired \/ Connection.runtime = 0
  BY DEF ConnectionInv
<1>5. ConnectionInv' /\ Stands
  BY <1>2, <1>3, <1>4, ClientMoves
<1> QED BY <1>2, <1>3, <1>5

LEMMA AllSilenced ==
  ASSUME ProcessInv, ConnectionInv, client' = Silenced(Attached), UNCHANGED <<backend, generation>>,
         ownerPhase' \in {"stopping", "unavailable"}
  PROVE  /\ ConnectionInv' /\ Stands
         /\ Desktop \notin Attached => (Connection'.retired => Connection.retired)
<1>1. Connection.attached => Desktop \in Attached
  BY DEF Attached, Clients, Connection
<1> QED BY <1>1, SilencedStand

\* The field that a step of one client sets
LEMMA ClientSets ==
  ASSUME ConnectionInv, ProcessInv, NEW c \in Clients
  PROVE  /\ client[c] \in ConnectionShape
         /\ \A g \in 0..generation : [client[c] EXCEPT !.connecting = g] \in ConnectionShape
         /\ \A b \in BOOLEAN : /\ [client[c] EXCEPT !.initialized = b] \in ConnectionShape
                               /\ [client[c] EXCEPT !.attached = b] \in ConnectionShape
<1>1. client[c] \in ConnectionShape /\ generation \in 0..MaxGenerations /\ MaxGenerations \in Nat
  BY OfficialConstants DEF ConnectionInv, ProcessInv, Generations
<1>2. ASSUME NEW g \in 0..generation PROVE [client[c] EXCEPT !.connecting = g] \in ConnectionShape
  BY <1>1 DEF ConnectionShape
<1>3. ASSUME NEW b \in BOOLEAN
      PROVE  /\ [client[c] EXCEPT !.initialized = b] \in ConnectionShape
             /\ [client[c] EXCEPT !.attached = b] \in ConnectionShape
  BY <1>1 DEF ConnectionShape
<1> QED BY <1>1, <1>2, <1>3

\* What each step but those of the requests does: the connection keeps its shape and stands, and
\* what retires the connection retires its requests.
RetiresWith(S) == RetireFrames(S) /\ (Desktop \notin S => (Connection'.retired => Connection.retired))
StepStands ==
  /\ ConnectionInv' /\ Stands
  /\ \/ UNCHANGED frame /\ (Connection'.retired => Connection.retired)
     \/ \E S \in SUBSET Clients : RetiresWith(S)

LEMMA UnavailableStands ==
  ASSUME ProcessInv, ConnectionInv, Unavailable, UNCHANGED <<backend, generation>>
  PROVE  StepStands
<1>1. /\ client' = Silenced(Attached) /\ ownerPhase' = "unavailable"
      /\ RetireFrames(Attached) /\ Attached \in SUBSET Clients
  BY DEF Unavailable, Retire, Attached
<1> QED BY <1>1, AllSilenced DEF StepStands, RetiresWith

LEMMA QuietStands ==
  ASSUME ProcessInv, ConnectionInv, UNCHANGED <<client, backend, generation, frame>>,
         stop' = "asked" => stop = "asked" /\ ownerPhase' = ownerPhase
  PROVE  StepStands
<1>1. stop' = "asked" => stop = "asked" /\ ownerPhase' \in {"stopping", "unavailable"}
  BY DEF ConnectionInv
<1> QED BY <1>1, ClientsStay DEF StepStands

\* A step sets one field of a client, neither retired nor runtime, and the owner stays.
LEMMA OneClientStands ==
  ASSUME ProcessInv, ConnectionInv, UNCHANGED <<backend, generation, ownerPhase, stop, frame>>,
         NEW c \in Clients, NEW x \in ConnectionShape, client' = [client EXCEPT ![c] = x],
         c = Desktop =>
           /\ x.runtime = Connection.runtime /\ x.retired = Connection.retired
           /\ x.attached /\ Connection.runtime # 0 => Connection.attached
           /\ ~x.attached => ~Connection.attached
           /\ x.connecting <= generation
           /\ x.connecting # 0 => Connection.runtime = 0
  PROVE  StepStands
<1>1. client' \in [Clients -> ConnectionShape] /\ Connection' = IF c = Desktop THEN x ELSE Connection
  BY ClientOf
<1>2. ConnectionInv' /\ Stands
  <2>1. CASE c = Desktop
    BY <1>1, <2>1, ClientMoves DEF ConnectionInv
  <2>2. CASE c # Desktop
    BY <1>1, <2>2, ClientMoves DEF ConnectionInv
  <2> QED BY <2>1, <2>2
<1> QED BY <1>1, <1>2 DEF StepStands

LEMMA StepsStand ==
  ASSUME ProcessInv, ConnectionInv,
         \/ StartOwner \/ StartFails \/ BackendListens \/ StartConnects \/ StartAdvances \/ StartFinishes
         \/ AttachClient \/ DetachClient \/ Configure
         \/ \E c \in Clients : ConnectionOpens(c) \/ ConnectFails(c) \/ Initialize(c) \/ ConnectionDrops(c)
         \/ \E g \in Generations : ProcessExits(g)
         \/ CallStop \/ CloseScope \/ StopBegins \/ StopKills \/ StopSucceeds \/ StopFails
         \/ Restored \/ BackendAsks \/ DesktopReplies
  PROVE  StepStands
<1>0. /\ generation \in 0..MaxGenerations /\ MaxGenerations \in Nat /\ backend \in 0..MaxGenerations
      /\ Desktop \in Clients /\ client \in [Clients -> ConnectionShape]
      /\ Connection = client[Desktop] /\ Connection \in ConnectionShape
  BY OfficialConstants DEF ProcessInv, Generations, Clients, ConnectionInv, Connection
<1>1. CASE StartOwner
  <2>1. /\ generation' = generation + 1 /\ backend' = generation + 1 /\ UNCHANGED <<client, stop, frame>>
        /\ ownerPhase = "stopped" /\ generation < MaxGenerations
    BY <1>1 DEF StartOwner
  <2>2. stop' # "asked" /\ Connection' = Connection
    BY <2>1 DEF ConnectionInv, Connection
  <2>3. Stands
    BY <1>0, <2>1, <2>2 DEF Stands
  <2>4. ConnectionInv'
    <3>1. Connection.connecting \in Nat /\ Connection.runtime \in Nat
      BY <1>0 DEF ConnectionShape
    <3> QED BY <1>0, <2>1, <2>2, <3>1 DEF ConnectionInv
  <2> QED BY <2>1, <2>2, <2>3, <2>4 DEF StepStands
<1>2. CASE StartFails \/ StopFails
  BY <1>2, UnavailableStands DEF StartFails, StopFails
<1>3. CASE \/ BackendListens \/ CallStop \/ StopKills \/ Restored \/ BackendAsks \/ DesktopReplies
  BY <1>3, QuietStands DEF BackendListens, CallStop, StopKills, Restored, BackendAsks, DesktopReplies, OwnerVars
<1>4. CASE StartFinishes
  <2>1. stop' # "asked"
    BY <1>4 DEF StartFinishes, ConnectionInv
  <2> QED BY <1>4, <2>1, QuietStands DEF StartFinishes
<1>5. CASE CloseScope
  BY <1>5, QuietStands DEF CloseScope, StopsNow
<1>6. CASE StartConnects
  <2>1. PICK c : c = NextClient
    OBVIOUS
  <2>2. c \in Clients
    BY <2>1 DEF NextClient, Clients
  <2>3. client[c].runtime = 0 /\ client' = [client EXCEPT ![c].connecting = generation]
    BY <1>6, <2>1 DEF StartConnects
  <2>4. PICK x : x = [client[c] EXCEPT !.connecting = generation]
    OBVIOUS
  <2>5. /\ x \in ConnectionShape /\ x.runtime = client[c].runtime /\ x.retired = client[c].retired
        /\ x.attached = client[c].attached /\ x.connecting = generation
    BY <1>0, <2>2, <2>4 DEF ConnectionShape
  <2>6. client' = [client EXCEPT ![c] = x]
    BY <2>3, <2>4
  <2>7. UNCHANGED <<backend, generation, ownerPhase, stop, frame>>
    BY <1>6 DEF StartConnects, OwnerVars
  <2>8. c = Desktop =>
           /\ x.runtime = Connection.runtime /\ x.retired = Connection.retired
           /\ x.attached = Connection.attached
           /\ x.connecting <= generation /\ Connection.runtime = 0
    BY <1>0, <2>3, <2>5
  <2> QED BY <2>2, <2>5, <2>6, <2>7, <2>8, OneClientStands
<1>7. CASE StartAdvances \/ \E c \in Clients : Initialize(c)
  <2>1. PICK c \in Clients, b \in BOOLEAN : client' = [client EXCEPT ![c].initialized = b]
    <3>1. CASE StartAdvances
      <4>1. NextClient \in Clients
        BY DEF NextClient, Clients
      <4>2. client[NextClient].configured \in BOOLEAN
        BY <1>0, <4>1 DEF ConnectionShape
      <4> QED BY <3>1, <4>1, <4>2 DEF StartAdvances
    <3>2. CASE \E c \in Clients : Initialize(c)
      BY <3>2 DEF Initialize
    <3> QED BY <1>7, <3>1, <3>2
  <2>2. PICK x : x = [client[c] EXCEPT !.initialized = b]
    OBVIOUS
  <2>3. /\ x \in ConnectionShape /\ x.runtime = client[c].runtime /\ x.retired = client[c].retired
        /\ x.attached = client[c].attached /\ x.connecting = client[c].connecting
    BY <1>0, <2>2 DEF ConnectionShape
  <2>4. client' = [client EXCEPT ![c] = x]
    BY <2>1, <2>2
  <2>5. UNCHANGED <<backend, generation, ownerPhase, stop, frame>>
    BY <1>7 DEF StartAdvances, Initialize, OwnerVars
  <2> QED BY <1>0, <2>3, <2>4, <2>5, OneClientStands DEF ConnectionInv
<1>8. CASE AttachClient
  <2>1. PICK x : x = [client[Desktop] EXCEPT !.attached = TRUE]
    OBVIOUS
  <2>2. Connection.runtime = 0 /\ ~Connection.retired /\ Connection.connecting = 0
    BY <1>0, <1>8 DEF AttachClient, Detached
  <2>3. /\ x \in ConnectionShape /\ x.runtime = Connection.runtime /\ x.retired = Connection.retired
        /\ x.attached /\ x.connecting = Connection.connecting
    BY <1>0, <2>1 DEF ConnectionShape
  <2>4. client' = [client EXCEPT ![Desktop] = x]
    BY <1>8, <2>1 DEF AttachClient
  <2>5. UNCHANGED <<backend, generation, ownerPhase, stop, frame>>
    BY <1>8 DEF AttachClient, OwnerVars
  <2> QED BY <1>0, <2>2, <2>3, <2>4, <2>5, OneClientStands DEF ConnectionInv
<1>9. CASE DetachClient
  <2>1. PICK x : x = [client[Desktop] EXCEPT !.attached = FALSE, !.retired = TRUE]
    OBVIOUS
  <2>2. /\ x \in ConnectionShape /\ x.runtime = Connection.runtime /\ x.retired = TRUE
        /\ x.attached = FALSE /\ x.connecting = Connection.connecting
    BY <1>0, <2>1 DEF ConnectionShape
  <2>3. client' = [client EXCEPT ![Desktop] = x]
    BY <1>0, <1>9, <2>1 DEF DetachClient
  <2>4. client' \in [Clients -> ConnectionShape] /\ Connection' = x
    BY <1>0, <2>2, <2>3, ClientOf
  <2>5. UNCHANGED <<backend, generation, ownerPhase, stop>> /\ RetireFrames({Desktop})
    BY <1>9 DEF DetachClient, Retire, OwnerVars
  <2>6. ConnectionInv' /\ Stands
    BY <2>2, <2>4, <2>5, ClientMoves DEF ConnectionInv
  <2> QED BY <1>0, <2>5, <2>6 DEF StepStands, RetiresWith
<1>10. CASE Configure
  <2>1. PICK g \in 0..generation :
            /\ client' = [client EXCEPT ![Desktop].configured = TRUE, ![Desktop].connecting = g]
            /\ g = Connection.connecting \/ Connection.runtime = 0
    <3>1. Connection.connecting \in 0..generation
      BY <1>0 DEF ConnectionInv, ConnectionShape
    <3>2. PICK b \in BOOLEAN :
              /\ client' = [client EXCEPT ![Desktop].configured = TRUE,
                              ![Desktop].connecting = IF b THEN generation ELSE Connection.connecting]
              /\ b => Connection.runtime = 0
      BY <1>0, <1>10 DEF Configure
    <3>3. PICK g : g = IF b THEN generation ELSE Connection.connecting
      OBVIOUS
    <3>4. g \in 0..generation /\ (g = Connection.connecting \/ Connection.runtime = 0)
      BY <1>0, <3>1, <3>2, <3>3
    <3>5. client' = [client EXCEPT ![Desktop].configured = TRUE, ![Desktop].connecting = g]
      BY <3>2, <3>3
    <3> QED BY <3>4, <3>5
  <2>2. PICK x : x = [client[Desktop] EXCEPT !.configured = TRUE, !.connecting = g]
    OBVIOUS
  <2>3. /\ x \in ConnectionShape /\ x.runtime = Connection.runtime /\ x.retired = Connection.retired
        /\ x.attached = Connection.attached /\ x.connecting = g
    <3>1. g \in 0..MaxGenerations
      BY <1>0
    <3>2. x = [Connection EXCEPT !.configured = TRUE, !.connecting = g]
      BY <1>0, <2>2
    <3> QED BY <1>0, <3>1, <3>2 DEF ConnectionShape
  <2>4. client' = [client EXCEPT ![Desktop] = x]
    BY <2>1, <2>2
  <2>5. UNCHANGED <<backend, generation, ownerPhase, stop, frame>>
    BY <1>10 DEF Configure, OwnerVars
  <2>6. g <= generation /\ (g # 0 => Connection.runtime = 0)
    BY <1>0, <2>1 DEF ConnectionInv
  <2> QED BY <1>0, <2>3, <2>4, <2>5, <2>6, OneClientStands
<1>11. ASSUME NEW c \in Clients, ConnectionOpens(c) PROVE StepStands
  <2> DEFINE wanted == backend = client[c].connecting /\ client[c].attached /\ Serving
  <2>1. PICK x : x = [client[c] EXCEPT !.connecting = 0,
                        !.runtime = IF wanted THEN client[c].connecting ELSE client[c].runtime,
                        !.retired = IF wanted THEN FALSE ELSE client[c].retired]
    OBVIOUS
  <2>2. /\ x \in ConnectionShape /\ x.attached = client[c].attached /\ x.connecting = 0
        /\ x.runtime = IF wanted THEN client[c].connecting ELSE client[c].runtime
        /\ x.retired = IF wanted THEN FALSE ELSE client[c].retired
    <3>1. PICK y : y = client[c]
      OBVIOUS
    <3>2. y \in ConnectionShape /\ 0 \in 0..MaxGenerations
      BY <1>0, <3>1
    <3>3. CASE wanted
      <4>1. x = [y EXCEPT !.connecting = 0, !.runtime = y.connecting, !.retired = FALSE]
        BY <2>1, <3>1, <3>3
      <4>2. y.connecting \in 0..MaxGenerations
        BY <3>2 DEF ConnectionShape
      <4>3. x \in ConnectionShape
        BY <3>2, <4>1, <4>2 DEF ConnectionShape
      <4> HIDE DEF wanted
      <4> QED BY <3>1, <3>2, <3>3, <4>1, <4>3 DEF ConnectionShape
    <3>4. CASE ~wanted
      <4>1. x = [y EXCEPT !.connecting = 0, !.runtime = y.runtime, !.retired = y.retired]
        BY <2>1, <3>1, <3>4
      <4>2. x \in ConnectionShape
        BY <3>2, <4>1 DEF ConnectionShape
      <4> HIDE DEF wanted
      <4> QED BY <3>1, <3>2, <3>4, <4>1, <4>2 DEF ConnectionShape
    <3> QED BY <3>3, <3>4
  <2>3. /\ client' = [client EXCEPT ![c] = x] /\ client[c].connecting # 0
        /\ UNCHANGED <<backend, generation, ownerPhase, stop, frame>>
    BY <1>11, <2>1 DEF ConnectionOpens, OwnerVars
  <2>4. client' \in [Clients -> ConnectionShape] /\ Connection' = IF c = Desktop THEN x ELSE Connection
    BY <2>2, <2>3, ClientOf
  <2>5. CASE c = Desktop /\ wanted
    <3>1. /\ Connection.runtime = 0 /\ x.runtime = backend /\ stop # "asked" /\ x.retired = FALSE
          /\ x.attached
      BY <1>0, <2>2, <2>3, <2>5 DEF ConnectionInv, Serving
    <3>2. Stands
      BY <1>0, <2>3, <2>4, <2>5, <3>1 DEF Stands
    <3>3. ConnectionInv'
      BY <1>0, <2>2, <2>3, <2>4, <2>5, <3>1 DEF ConnectionInv
    <3> QED BY <2>3, <2>4, <2>5, <3>1, <3>2, <3>3 DEF StepStands
  <2>6. CASE c = Desktop /\ ~wanted
    <3>1. /\ x.runtime = Connection.runtime /\ x.retired = Connection.retired
          /\ x.attached = Connection.attached /\ x.connecting = 0
      BY <1>0, <2>2, <2>6
    <3> HIDE DEF wanted
    <3> QED BY <1>0, <2>2, <2>3, <2>6, <3>1, OneClientStands DEF ConnectionInv
  <2>7. CASE c # Desktop
    BY <2>2, <2>3, <2>7, OneClientStands
  <2> QED BY <2>5, <2>6, <2>7
<1>12. ASSUME NEW c \in Clients, ConnectFails(c) PROVE StepStands
  <2>1. CASE /\ client' = [client EXCEPT ![c].connecting = 0]
             /\ UNCHANGED <<ownerPhase, frame>>
    <3>1. PICK x : x = [client[c] EXCEPT !.connecting = 0]
      OBVIOUS
    <3>2. /\ x \in ConnectionShape /\ x.runtime = client[c].runtime /\ x.retired = client[c].retired
          /\ x.attached = client[c].attached /\ x.connecting = 0
      BY <1>0, <3>1 DEF ConnectionShape
    <3>3. client' = [client EXCEPT ![c] = x]
      BY <2>1, <3>1
    <3>4. UNCHANGED <<backend, generation, ownerPhase, stop, frame>>
      BY <1>12, <2>1 DEF ConnectFails
    <3>5. c = Desktop =>
             /\ x.runtime = Connection.runtime /\ x.retired = Connection.retired
             /\ x.attached = Connection.attached
             /\ x.connecting <= generation /\ x.connecting = 0
      BY <1>0, <3>2
    <3> QED BY <3>2, <3>3, <3>4, <3>5, OneClientStands
  <2>2. CASE /\ client' = [Silenced(Attached) EXCEPT ![c].connecting = 0]
             /\ ownerPhase' = "unavailable" /\ RetireFrames(Attached)
    <3>1. PICK s : s = Silenced(Attached)
      OBVIOUS
    <3>2. PICK d : d = s[Desktop]
      OBVIOUS
    <3>3. /\ d.runtime = Connection.runtime /\ d.connecting = Connection.connecting
          /\ d.attached = Connection.attached
          /\ d.retired = IF Desktop \in Attached THEN TRUE ELSE Connection.retired
          /\ s \in [Clients -> ConnectionShape]
      BY <3>1, <3>2, SilencedAre
    <3>4. PICK x : x = [s[c] EXCEPT !.connecting = 0]
      OBVIOUS
    <3>5. /\ x \in ConnectionShape /\ x.runtime = s[c].runtime /\ x.retired = s[c].retired
          /\ x.attached = s[c].attached /\ x.connecting = 0
      BY <1>0, <3>3, <3>4 DEF ConnectionShape
    <3>6. client' = [s EXCEPT ![c] = x]
      BY <2>2, <3>1, <3>4
    <3>7. client' \in [Clients -> ConnectionShape] /\ Connection' = IF c = Desktop THEN x ELSE d
      BY <1>0, <3>2, <3>3, <3>5, <3>6 DEF Connection
    <3>8. /\ Connection'.runtime = Connection.runtime /\ Connection'.attached = Connection.attached
          /\ Connection'.retired = IF Desktop \in Attached THEN TRUE ELSE Connection.retired
          /\ Connection'.connecting \in {0, Connection.connecting}
      <4>1. CASE c = Desktop
        BY <3>2, <3>3, <3>5, <3>7, <4>1
      <4>2. CASE c # Desktop
        BY <3>3, <3>7, <4>2
      <4> QED BY <4>1, <4>2
    <3>9. UNCHANGED <<backend, generation>>
      BY <1>12 DEF ConnectFails
    <3>10. (Connection.attached => Desktop \in Attached) /\ Attached \in SUBSET Clients
      BY <1>0 DEF Attached
    <3>11. ConnectionInv' /\ Stands
      BY <1>0, <2>2, <3>7, <3>8, <3>9, <3>10, ClientMoves DEF ConnectionInv
    <3> QED BY <2>2, <3>8, <3>10, <3>11 DEF StepStands, RetiresWith
  <2> QED BY <1>12, <2>1, <2>2 DEF ConnectFails, Retire
<1>13. ASSUME NEW c \in Clients, ConnectionDrops(c) PROVE StepStands
  <2>1. CASE Unavailable
    BY <1>13, <2>1, UnavailableStands DEF ConnectionDrops
  <2>2. CASE client' = Silenced({c}) /\ Retire({c}) /\ UNCHANGED <<ownerPhase, workGate>>
    <3>1. UNCHANGED <<backend, generation, stop, ownerPhase>> /\ {c} \in SUBSET Clients
      BY <1>13, <2>2 DEF ConnectionDrops
    <3>2. /\ ConnectionInv' /\ Stands
          /\ Desktop \notin {c} => (Connection'.retired => Connection.retired)
      BY <2>2, <3>1, SilencedStand DEF ConnectionInv
    <3> QED BY <2>2, <3>1, <3>2 DEF StepStands, RetiresWith, Retire
  <2> QED BY <1>13, <2>1, <2>2 DEF ConnectionDrops
<1>14. ASSUME NEW g \in Generations, ProcessExits(g) PROVE StepStands
  <2>1. CASE Unavailable
    BY <1>14, <2>1, UnavailableStands DEF ProcessExits
  <2>2. CASE UNCHANGED <<ownerPhase, workGate, client, frame, thread, askedBackend, stop>>
    BY <1>14, <2>2, QuietStands DEF ProcessExits
  <2> QED BY <1>14, <2>1, <2>2 DEF ProcessExits
<1>15. CASE StopBegins
  <2>1. CASE stop' = "no" /\ UNCHANGED <<client, frame>>
    BY <1>15, <2>1, QuietStands DEF StopBegins
  <2>2. CASE ownerPhase' = "stopping" /\ client' = Silenced(Attached) /\ Retire(Attached)
    <3>1. UNCHANGED <<backend, generation>> /\ Attached \in SUBSET Clients
      BY <1>15 DEF StopBegins, Attached
    <3> QED BY <2>2, <3>1, AllSilenced DEF StepStands, RetiresWith, Retire
  <2> QED BY <1>15, <2>1, <2>2 DEF StopBegins
<1>16. CASE StopSucceeds
  <2>1. /\ stop = "asked" /\ stop' = "no" /\ backend' = 0 /\ UNCHANGED <<generation, frame>>
        /\ client' = [c \in Clients |-> IF client[c].attached THEN Forgotten(c) ELSE client[c]]
    BY <1>16 DEF StopSucceeds
  <2>2. ASSUME NEW c \in Clients, NEW x, x = Forgotten(c)
        PROVE  /\ x \in ConnectionShape /\ x.runtime = 0 /\ x.connecting = 0
               /\ x.attached = client[c].attached /\ x.retired = client[c].retired
    <3>1. client[c] \in ConnectionShape /\ 0 \in 0..MaxGenerations
      BY <1>0
    <3> QED BY <2>2, <3>1 DEF Forgotten, ConnectionShape
  <2>3. client' \in [Clients -> ConnectionShape]
    BY <1>0, <2>1, <2>2
  <2>4. /\ Connection'.attached = Connection.attached /\ Connection'.retired = Connection.retired
        /\ Connection.attached => Connection'.runtime = 0 /\ Connection'.connecting = 0
        /\ ~Connection.attached => Connection' = Connection
    <3>1. PICK x : x = Forgotten(Desktop)
      OBVIOUS
    <3>2. Connection' = IF Connection.attached THEN x ELSE Connection
      BY <1>0, <2>1, <3>1 DEF Connection
    <3> QED BY <1>0, <2>2, <3>1, <3>2
  <2>5. Connection.retired \/ Connection.runtime = 0
    BY <2>1 DEF ConnectionInv
  <2>6. Stands
    <3>1. CASE Connection.attached
      BY <1>0, <2>1, <2>4, <2>5, <3>1 DEF Stands
    <3>2. CASE ~Connection.attached
      BY <1>0, <2>1, <2>4, <3>2 DEF Stands
    <3> QED BY <3>1, <3>2
  <2>7. ConnectionInv'
    <3>1. CASE Connection.attached
      BY <1>0, <2>1, <2>3, <2>4, <3>1 DEF ConnectionInv
    <3>2. CASE ~Connection.attached
      BY <1>0, <2>1, <2>3, <2>4, <3>2 DEF ConnectionInv
    <3> QED BY <3>1, <3>2
  <2> QED BY <2>1, <2>4, <2>6, <2>7 DEF StepStands
<1> QED BY <1>1, <1>2, <1>3, <1>4, <1>5, <1>6, <1>7, <1>8, <1>9, <1>10, <1>11, <1>12, <1>13, <1>14, <1>15, <1>16

\* The requests of the Desktop: none of their steps touches the connection, but that the first
\* may begin to open it.
LEMMA RequestStands ==
  ASSUME ProcessInv, ConnectionInv, NEW q \in Frames,
         \/ \E kind \in {"read", "start", "turn"} : SendFrame(q, kind)
         \/ HasConnection(q) \/ AfterRestore(q) \/ WriteDrains(q) \/ FrameWriteFails(q) \/ BackendAnswers(q)
  PROVE  /\ ConnectionInv' /\ Stands /\ (Connection'.retired => Connection.retired)
         /\ UNCHANGED <<generation, backend>>
         /\ Connection'.runtime = Connection.runtime /\ Connection'.attached = Connection.attached
         /\ Connection'.retired = Connection.retired
<1>1. UNCHANGED <<backend, generation, ownerPhase, stop>>
  BY DEF SendFrame, HasConnection, AfterRestore, WriteDrains, FrameWriteFails, BackendAnswers, OwnerVars
<1>2. CASE UNCHANGED client
  BY <1>1, <1>2, ClientsStay DEF ConnectionInv, Connection
<1>3. CASE client' = [client EXCEPT ![Desktop].connecting =
                        IF Connection.runtime = 0 /\ @ = 0 THEN generation ELSE @]
  <2>0. /\ generation \in 0..MaxGenerations /\ MaxGenerations \in Nat /\ Desktop \in Clients
        /\ client \in [Clients -> ConnectionShape] /\ Connection = client[Desktop]
        /\ Connection \in ConnectionShape
    BY OfficialConstants DEF ProcessInv, Generations, Clients, ConnectionInv, Connection
  <2>1. PICK g : g = IF Connection.runtime = 0 /\ Connection.connecting = 0 THEN generation
                     ELSE Connection.connecting
    OBVIOUS
  <2>2. g \in 0..MaxGenerations /\ g <= generation /\ (g # 0 => Connection.runtime = 0)
    BY <2>0, <2>1 DEF ConnectionInv, ConnectionShape
  <2>3. PICK x : x = [Connection EXCEPT !.connecting = g]
    OBVIOUS
  <2>4. /\ x \in ConnectionShape /\ x.runtime = Connection.runtime /\ x.retired = Connection.retired
        /\ x.attached = Connection.attached /\ x.connecting = g
    BY <2>0, <2>2, <2>3 DEF ConnectionShape
  <2>5. client' = [client EXCEPT ![Desktop] = x]
    BY <1>3, <2>0, <2>1, <2>3
  <2>6. client' \in [Clients -> ConnectionShape] /\ Connection' = x
    BY <2>0, <2>4, <2>5, ClientOf
  <2>7. ConnectionInv' /\ Stands
    BY <1>1, <2>2, <2>4, <2>6, ClientMoves DEF ConnectionInv
  <2> QED BY <1>1, <2>4, <2>6, <2>7
<1> QED BY <1>2, <1>3 DEF SendFrame, HasConnection, AfterRestore, WriteDrains, FrameWriteFails, BackendAnswers

\* What a step of a request does to the requests
LEMMA RequestsKept ==
  ASSUME AnswerInv, NEW q \in Frames,
         \/ \E kind \in {"read", "start", "turn"} : SendFrame(q, kind)
         \/ HasConnection(q) \/ AfterRestore(q) \/ WriteDrains(q) \/ FrameWriteFails(q) \/ BackendAnswers(q)
  PROVE  FramesKept' /\ \A p \in Frames : Linked(frame[p])'
<1>0. /\ Stands /\ (Connection'.retired => Connection.retired) /\ UNCHANGED <<generation, backend>>
      /\ Connection'.runtime = Connection.runtime /\ Connection'.attached = Connection.attached
      /\ Connection'.retired = Connection.retired
  BY RequestStands DEF AnswerInv
<1>1. /\ generation \in 0..MaxGenerations /\ generation' \in 0..MaxGenerations /\ MaxGenerations \in Nat
      /\ Connection.runtime \in 0..MaxGenerations
  BY <1>0, OfficialConstants DEF AnswerInv, ProcessInv, Generations, ConnectionInv, ConnectionShape, Clients, Connection
<1>2. FrameKept(frame[q]) /\ Linked(frame[q]) /\ frame[q] \in FrameFields
  BY DEF AnswerInv, FramesKept, FrameKept
<1>3. ASSUME NEW f, FrameKept(f), f.at \notin {"writing", "done"}, frame' = [frame EXCEPT ![q] = Done(f)]
      PROVE  FramesKept' /\ \A p \in Frames : Linked(frame[p])'
  BY <1>0, <1>1, <1>3, OneFails
<1>4. ASSUME NEW f, FrameKept(f), f.at \notin {"restoring", "writing"}, f.answers # 2,
             frame' = [frame EXCEPT ![q] = f]
      PROVE  FramesKept' /\ \A p \in Frames : Linked(frame[p])'
  <2>1. ~Owes(f)
    BY <1>4 DEF Owes
  <2> QED BY <1>0, <1>1, <1>4, <2>1, OneMoves
<1>5. ASSUME NEW kind \in {"read", "start", "turn"}, SendFrame(q, kind)
      PROVE  FramesKept' /\ \A p \in Frames : Linked(frame[p])'
  <2>1. PICK u : u = Unsent
    OBVIOUS
  <2>2. frame[q] = u /\ FrameKept(u) /\ u.at = "idle" /\ u.answers = 0 /\ u \in FrameFields
    BY <1>2, <1>5, <2>1 DEF SendFrame, Unsent
  <2>3. CASE frame' = [frame EXCEPT ![q] = [Done(frame[q]) EXCEPT !.kind = kind]]
    <3>1. PICK d : d = Done(u)
      OBVIOUS
    <3>2. FrameKept(d) /\ d.at = "done" /\ d.answers = 1
      BY <2>2, <3>1, AnswerIsKept
    <3>3. PICK f : f = [d EXCEPT !.kind = kind]
      OBVIOUS
    <3>4. FrameKept(f) /\ f.at = "done" /\ f.answers = 1
      BY <3>2, <3>3 DEF FrameKept, FrameFields
    <3>5. frame' = [frame EXCEPT ![q] = f]
      BY <2>2, <2>3, <3>1, <3>3
    <3>6. f.at \notin {"restoring", "writing"} /\ f.answers # 2
      BY <3>4
    <3> QED BY <1>4, <3>4, <3>5, <3>6
  <2>4. CASE frame' = [frame EXCEPT ![q].at = "connecting", ![q].kind = kind,
                                    ![q].admitted = TRUE, ![q].gen = generation]
    <3>1. PICK f : f = [u EXCEPT !.at = "connecting", !.kind = kind, !.admitted = TRUE,
                                 !.gen = generation]
      OBVIOUS
    <3>2. FrameKept(f) /\ f.at = "connecting" /\ f.answers = 0
      BY <1>1, <2>2, <3>1 DEF FrameKept, FrameFields
    <3>3. frame' = [frame EXCEPT ![q] = f]
      BY <2>2, <2>4, <3>1
    <3>4. f.at \notin {"restoring", "writing"} /\ f.answers # 2
      BY <3>2
    <3> QED BY <1>4, <3>2, <3>3, <3>4
  <2> QED BY <1>5, <2>3, <2>4 DEF SendFrame
<1>6. CASE HasConnection(q)
  <2>1. /\ frame[q].at = "connecting" /\ frame[q].at \notin {"writing", "done"}
        /\ UNCHANGED <<client, backend, generation>>
    BY <1>6 DEF HasConnection, OwnerVars
  <2>2. CASE Fail(q)
    BY <1>2, <1>3, <2>1, <2>2 DEF Fail
  <2>3. CASE Written(q) /\ Connection.runtime # 0
    BY <2>1, <2>3, WrittenLinks
  <2>4. CASE /\ frame' = [frame EXCEPT ![q].at = "restoring", ![q].gen = Connection.runtime]
             /\ ~Connection.retired /\ Connection.runtime # 0
    <3>1. PICK r \in 0..MaxGenerations : r = Connection.runtime
      BY <1>1
    <3>2. PICK f : f = [frame[q] EXCEPT !.at = "restoring", !.gen = r]
      OBVIOUS
    <3>3. FrameKept(f) /\ f.at = "restoring" /\ f.gen = r /\ f.answers = 0
      BY <1>2, <2>1, <3>2 DEF FrameKept, FrameFields
    <3>4. frame' = [frame EXCEPT ![q] = f]
      BY <2>4, <3>1, <3>2
    <3>5. ~Owes(f)
      BY <3>3 DEF Owes
    <3>6. f.gen # 0 /\ f.gen = Connection'.runtime /\ ~Connection'.retired
      BY <1>0, <2>4, <3>1, <3>3
    <3>7. f.answers # 2
      BY <3>3
    <3> QED BY <1>0, <1>1, <3>3, <3>4, <3>5, <3>6, <3>7, OneMoves
  <2> QED BY <1>6, <2>2, <2>3, <2>4 DEF HasConnection
<1>7. CASE AfterRestore(q)
  <2>1. /\ frame[q].at = "restoring" /\ frame[q].at \notin {"writing", "done"}
        /\ UNCHANGED <<client, backend, generation>>
    BY <1>7 DEF AfterRestore, OwnerVars
  <2>2. Connection.runtime # 0
    BY <1>2, <2>1 DEF Linked
  <2>3. CASE Fail(q)
    BY <1>2, <1>3, <2>1, <2>3 DEF Fail
  <2>4. CASE Written(q)
    BY <2>1, <2>2, <2>4, WrittenLinks
  <2> QED BY <1>7, <2>3, <2>4 DEF AfterRestore
<1>8. CASE WriteDrains(q)
  <2>1. PICK at \in {"sent", "done"} : at = IF frame[q].pending THEN "sent" ELSE "done"
    OBVIOUS
  <2>2. PICK f : f = [frame[q] EXCEPT !.at = at]
    OBVIOUS
  <2>3. FrameKept(f) /\ f.at = at /\ f.answers \in 0..1
    <3>1. frame[q].at = "writing"
      BY <1>8 DEF WriteDrains
    <3>2. CASE frame[q].pending
      BY <1>2, <2>1, <2>2, <3>1, <3>2 DEF FrameKept, FrameFields
    <3>3. CASE ~frame[q].pending
      BY <1>2, <2>1, <2>2, <3>1, <3>3 DEF FrameKept, FrameFields
    <3> QED BY <3>2, <3>3
  <2>4. frame' = [frame EXCEPT ![q] = f]
    BY <1>8, <2>1, <2>2 DEF WriteDrains, Move
  <2>5. f.at \notin {"restoring", "writing"} /\ f.answers # 2
    BY <2>1, <2>3
  <2> QED BY <1>4, <2>3, <2>4, <2>5
<1>9. CASE FrameWriteFails(q)
  <2>1. /\ frame[q].at = "writing" /\ ~Open(frame[q].gen) /\ frame' = [frame EXCEPT ![q] = Done(frame[q])]
    BY <1>9 DEF FrameWriteFails, Fail
  <2>2. PICK f : f = Done(frame[q])
    OBVIOUS
  <2>3. FrameKept(f) /\ f.at = "done" /\ f.gen = frame[q].gen
    BY <1>2, <2>1, <2>2, AnswerIsKept
  <2>4. f.gen \in 1..generation /\ (Connection.runtime # f.gen => backend # f.gen)
    BY <1>2, <2>1, <2>3 DEF Linked, Owes
  <2>5. ~Open(f.gen)'
    <3>1. ~Open(f.gen)
      BY <2>1, <2>3
    <3> QED BY <1>0, <3>1 DEF Open
  <2> QED BY <1>0, <1>1, <2>1, <2>2, <2>3, <2>4, <2>5, OneMoves
<1>10. CASE BackendAnswers(q)
  <2>1. frame[q].pending /\ frame[q].at \in {"sent", "writing"} /\ frame[q].answers = 0
    BY <1>2, <1>10 DEF BackendAnswers, FrameKept
  <2>2. CASE frame[q].at = "writing"
    <3>1. PICK f : f = AnswerFrame(frame[q])
      OBVIOUS
    <3>2. FrameKept(f) /\ f.at = "writing" /\ f.gen = frame[q].gen /\ f.answers = 1
      BY <1>2, <2>1, <2>2, <3>1, AnswerIsKept
    <3>3. f.gen \in 1..generation /\ (Connection.runtime # f.gen => backend # f.gen)
      BY <1>2, <2>2, <3>2 DEF Linked, Owes
    <3>4. frame' = [frame EXCEPT ![q] = f]
      BY <1>10, <2>2, <3>1 DEF BackendAnswers
    <3>5. /\ f.at # "restoring" /\ f.answers # 2
          /\ f.gen \in 1..generation' /\ (Connection'.runtime # f.gen => backend' # f.gen)
      BY <1>0, <3>2, <3>3
    <3> QED BY <1>0, <1>1, <3>2, <3>4, <3>5, OneMoves
  <2>3. CASE frame[q].at = "sent"
    <3>1. frame' = [frame EXCEPT ![q] = Done(frame[q])]
      BY <1>10, <2>3 DEF BackendAnswers
    <3> QED BY <1>2, <1>3, <2>3, <3>1
  <2> QED BY <2>1, <2>2, <2>3
<1> QED BY <1>5, <1>6, <1>7, <1>8, <1>9, <1>10

\* A restoration that fails answers every request that waits for it.
LEMMA ResumeFailsKept ==
  ASSUME AnswerInv, ResumeFails
  PROVE  ConnectionInv' /\ FramesKept' /\ \A p \in Frames : Linked(frame[p])'
<1>1. /\ UNCHANGED <<client, backend, generation, stop, ownerPhase>>
      /\ frame' = [q \in Frames |-> IF frame[q].at = "restoring" THEN Done(frame[q]) ELSE frame[q]]
  BY DEF ResumeFails, OwnerVars
<1>2. ConnectionInv' /\ Stands /\ (Connection'.retired => Connection.retired)
  BY <1>1, ClientsStay DEF AnswerInv, ConnectionInv
<1>3. generation' \in 0..MaxGenerations
  BY <1>1, OfficialConstants DEF AnswerInv, ProcessInv, Generations
<1>4. ASSUME NEW q \in Frames PROVE FrameKept(frame'[q]) /\ Linked(frame[q])'
  <2>1. FrameKept(frame[q]) /\ Linked(frame[q])
    BY DEF AnswerInv, FramesKept
  <2>2. CASE frame[q].at = "restoring"
    <3>1. PICK d : d = Done(frame[q])
      OBVIOUS
    <3>2. frame[q].answers = 0
      BY <2>1, <2>2 DEF FrameKept
    <3>3. FrameKept(d) /\ d.at = "done" /\ d.answers = 1
      BY <2>1, <2>2, <3>1, <3>2, AnswerIsKept
    <3>4. frame'[q] = d
      BY <1>1, <2>2, <3>1
    <3> QED BY <3>3, <3>4 DEF Linked, Owes
  <2>3. CASE frame[q].at # "restoring"
    <3>1. frame'[q] = frame[q]
      BY <1>1, <2>3
    <3> QED BY <1>2, <1>3, <2>1, <3>1, LinkStands DEF Linked, Owes
  <2> QED BY <2>2, <2>3
<1>5. FramesKept'
  BY <1>1, <1>4 DEF FramesKept
<1> QED BY <1>2, <1>4, <1>5

LEMMA StandingKept ==
  ASSUME AnswerInv, StepStands, generation' \in 0..MaxGenerations
  PROVE  ConnectionInv' /\ FramesKept' /\ \A p \in Frames : Linked(frame[p])'
<1>1. ConnectionInv' /\ Stands
  BY DEF StepStands
<1>2. CASE UNCHANGED frame /\ (Connection'.retired => Connection.retired)
  BY <1>1, <1>2, Unretired
<1>3. ASSUME NEW S \in SUBSET Clients, RetiresWith(S)
      PROVE  FramesKept' /\ \A p \in Frames : Linked(frame[p])'
  BY <1>1, <1>3, Retires DEF RetiresWith
<1> QED BY <1>1, <1>2, <1>3 DEF StepStands

LEMMA AnswersNext ==
  ASSUME AnswerInv, [NextOfficial]_officialVars
  PROVE  AnswerInv'
<1>1. ProcessInv' /\ generation' \in 0..MaxGenerations
  BY ProcessNext, OfficialConstants DEF AnswerInv, ProcessInv, Generations
<1>2. ASSUME NEW q \in Frames,
             \/ \E kind \in {"read", "start", "turn"} : SendFrame(q, kind)
             \/ HasConnection(q) \/ AfterRestore(q) \/ WriteDrains(q) \/ FrameWriteFails(q) \/ BackendAnswers(q)
      PROVE  AnswerInv'
  BY <1>1, <1>2, RequestStands, RequestsKept DEF AnswerInv
<1>3. CASE ResumeFails
  BY <1>1, <1>3, ResumeFailsKept DEF AnswerInv
<1>4. CASE \/ StartOwner \/ StartFails \/ BackendListens \/ StartConnects \/ StartAdvances \/ StartFinishes
           \/ AttachClient \/ DetachClient \/ Configure
           \/ \E c \in Clients : ConnectionOpens(c) \/ ConnectFails(c) \/ Initialize(c) \/ ConnectionDrops(c)
           \/ \E g \in Generations : ProcessExits(g)
           \/ CallStop \/ CloseScope \/ StopBegins \/ StopKills \/ StopSucceeds \/ StopFails
           \/ Restored \/ BackendAsks \/ DesktopReplies
  <2>1. StepStands
    BY <1>4, StepsStand DEF AnswerInv
  <2> QED BY <1>1, <2>1, StandingKept DEF AnswerInv
<1>5. CASE UNCHANGED officialVars
  <2>1. StepStands
    BY <1>5, QuietStands DEF officialVars, AnswerInv
  <2> QED BY <1>1, <2>1, StandingKept DEF AnswerInv
<1> QED BY <1>2, <1>3, <1>4, <1>5 DEF NextOfficial

LEMMA AnswersInit == InitOfficial => AnswerInv
<1> SUFFICES ASSUME InitOfficial PROVE AnswerInv
  OBVIOUS
<1>1. FrameKept(Unsent)
  BY OfficialConstants DEF FrameKept, FrameFields, Unsent
<1>2. FramesKept /\ \A q \in Frames : frame[q] = Unsent
  BY <1>1 DEF InitOfficial, FramesKept
<1>3. \A q \in Frames : Linked(frame[q])
  BY <1>2 DEF Linked, Owes, Unsent
<1>4. ConnectionInv
  <2>1. client = [c \in Clients |-> IF c = Manager
                   THEN [Detached EXCEPT !.attached = TRUE, !.configured = TRUE] ELSE Detached]
    BY DEF InitOfficial
  <2>2. Detached \in ConnectionShape /\ [Detached EXCEPT !.attached = TRUE, !.configured = TRUE] \in ConnectionShape
    <3>1. 0 \in 0..MaxGenerations
      BY OfficialConstants
    <3>2. PICK d : d = Detached
      OBVIOUS
    <3>3. d \in ConnectionShape
      BY <3>1, <3>2 DEF Detached, ConnectionShape
    <3>4. [d EXCEPT !.attached = TRUE, !.configured = TRUE] \in ConnectionShape
      BY <3>3 DEF ConnectionShape
    <3> QED BY <3>2, <3>3, <3>4
  <2>3. Connection = Detached /\ client \in [Clients -> ConnectionShape]
    BY <2>1, <2>2, OfficialConstants DEF Connection, Clients
  <2> QED BY <2>3 DEF InitOfficial, ConnectionInv, Detached
<1> QED BY <1>2, <1>3, <1>4, ProcessInit DEF AnswerInv

\* For any number of requests and generations: a request gives its admission back with its
\* answer, which no retirement, restoration or late answer repeats; answered again is only one
\* whose write was still waiting for its stream, and only on a connection that is closed.
THEOREM RequestsSettleOnce == OfficialSpec => []AnswerEndsAdmission
<1>1. AnswerInv => AnswerEndsAdmission
  <2>1. ASSUME AnswerInv, NEW q \in Frames
        PROVE  /\ frame[q].admitted => frame[q].answers = 0
               /\ frame[q].at = "done" => frame[q].answers \in 1..2 /\ ~frame[q].admitted
               /\ frame[q].answers # 0 => frame[q].at \in {"writing", "done"}
               /\ frame[q].answers >= 2 => frame[q].answers = 2 /\ frame[q].at = "done" /\ ~Open(frame[q].gen)
    <3>1. FrameKept(frame[q]) /\ Linked(frame[q])
      BY <2>1 DEF AnswerInv, FramesKept
    <3>2. frame[q].answers \in 0..2 /\ frame[q].admitted \in BOOLEAN
          /\ frame[q].at \in {"idle", "connecting", "restoring", "writing", "sent", "done"}
      BY <3>1 DEF FrameKept, FrameFields
    <3> QED BY <3>1, <3>2 DEF FrameKept, Linked
  <2> QED BY <2>1 DEF AnswerEndsAdmission
<1> QED BY <1>1, AnswersInit, AnswersNext, PTL DEF OfficialSpec

(***************************************************************************)
(* One writer of a native Session among the records.  The table of writers   *)
(* is what decides who may open one, and the invariant says why that is      *)
(* enough: the table names a record that is live or closing for what the     *)
(* adapter Session of the record writes.  A Session is reopened by the       *)
(* reference its Host learned; that it is the reference of the same record   *)
(* is what the broker's server cannot see and ConfirmedRefs says of every    *)
(* Host and of every request on its way.                                     *)
(***************************************************************************)

Refs == Natives \cup {NoNative}
Requests == [op : {"open", "turn", "reopen", "close"}, of : Hosts, ref : Refs,
             rec : 0..MaxRecords, gen : Nat]
HostFields == [at : {"none", "ready", "closed"}, link : 0..MaxLinks, rec : 0..MaxRecords, gen : Nat,
               ref : Refs, faulted : BOOLEAN, waits : BOOLEAN]
HostState == {x \in HostFields : x.at # "ready" => x.rec = 0}
LinkState == [of : Hosts \cup {Nobody}, up : BOOLEAN, served : BOOLEAN]
RecordState == [step : {"unused", "opening", "live", "closing", "gone"}, link : 0..MaxLinks, ref : Refs,
                gen : Nat, adapter : 0..MaxAdapters, awaiting : BOOLEAN, boot : BOOLEAN,
                faulted : BOOLEAN]
Steps == {"idle", "opening", "givingUp", "closingOld", "reopening"}
AdapterSteps == {"unused", "opening", "open", "leaving", "closed"}

\* The types the proof needs, sharper than the type invariant of the runs
LinkShape ==
    /\ host \in [Hosts -> HostState] /\ link \in [Links -> LinkState]
    /\ wire \in [Links -> Seq(Requests)] /\ serving \in [Links -> Steps]
    /\ \A l \in Links : link[l].up => link[l].of \in Hosts
    /\ \A l \in Links : serving[l] # "idle" => wire[l] # <<>>
ServerShape ==
    /\ record \in [Records -> RecordState]
    /\ adapter \in [Adapters -> AdapterSteps]
    /\ resuming \in [Links -> Adapters \cup {0}]
    /\ writes \in [Adapters -> Refs]
    /\ writers \in [Natives -> Records \cup {Nobody}] /\ claim \in Records \cup {Nobody}
    /\ outbox \in [Records -> SUBSET {"ref", "fault"}]

\* Records that hold an adapter Session, each one of its own
Holding == {i \in Records : record[i].step \in {"opening", "live", "closing"}}
\* What a record writes, or will, is reserved for it.
Reserved(i) == record[i].ref # NoNative => record[i].ref \in Known /\ writers[record[i].ref] = i
RecordGood(i) ==
    /\ record[i].step = "opening" => record[i].adapter \in Adapters /\ adapter[record[i].adapter] = "opening"
    /\ record[i].step \in {"live", "closing"} =>
         record[i].adapter \in Adapters /\ adapter[record[i].adapter] \in {"open", "closed"}
    /\ record[i].step \in {"opening", "live"} => Reserved(i)
    /\ record[i].ref # NoNative => record[i].step \in {"opening", "live"}
    /\ record[i].step = "live" /\ record[i].awaiting =>
         record[i].ref = NoNative /\ writes[record[i].adapter] = NoNative
    /\ record[i].step = "gone" => record[i].adapter = 0
RecordsGood ==
    /\ \A i \in Records : RecordGood(i)
    /\ \A i, j \in Holding : record[i].adapter = record[j].adapter => i = j

\* The table names a record for what its adapter Session writes.
WrittenBy(i) == writes[record[i].adapter]
Owned ==
    /\ \A i \in Records : Held(i) /\ WrittenBy(i) # NoNative => writers[WrittenBy(i)] = i
    /\ \A a \in Adapters : adapter[a] \in {"unused", "opening"} => writes[a] = NoNative

\* The reference a Host, or its request q, holds is the one its record has, as long as that lives.
Confirmed(q) ==
    /\ q.ref \in Known \cup {NoNative}
    /\ q.rec # 0 => record[q.rec].step \notin {"unused", "opening"}
    /\ q.rec # 0 /\ q.ref # NoNative /\ record[q.rec].step = "live" => q.ref = record[q.rec].ref
ConfirmedRefs ==
    /\ \A h \in Hosts : Confirmed(host[h])
    /\ \A l \in Links : \A k \in 1..Len(wire[l]) :
         Confirmed(wire[l][k]) /\ (wire[l][k].op = "reopen" => wire[l][k].ref # NoNative)

\* What is closed or being closed stays so.
Ending(c) == adapter[c] \in {"leaving", "closed"}

\* The request at the head reopens a record of its own connection, which may close meanwhile.
Reopens(l) ==
    /\ Head(wire[l]).rec # 0 /\ Head(wire[l]).ref # NoNative
    /\ record[Head(wire[l]).rec].step \notin {"unused", "opening"}
    /\ record[Head(wire[l]).rec].step = "live" => record[Head(wire[l]).rec].link = l
ServingOf(l) ==
    /\ serving[l] = "opening" => \E i \in Records : record[i].step = "opening" /\ record[i].link = l
    /\ serving[l] \in {"closingOld", "reopening"} => Reopens(l)
    /\ serving[l] = "reopening" =>
         /\ resuming[l] \in Adapters /\ adapter[resuming[l]] = "opening"
         /\ \A i \in Records : record[i].step = "opening" => record[i].adapter # resuming[l]
    /\ serving[l] = "givingUp" =>
         resuming[l] \in Adapters /\ Ending(resuming[l])
\* No two reopens fill one adapter Session.
ServingGood ==
    /\ \A l \in Links : ServingOf(l)
    /\ \A k, l \in Links :
         serving[k] = "reopening" /\ serving[l] = "reopening" /\ resuming[k] = resuming[l] => k = l
BrokerInv == LinkShape /\ ServerShape /\ RecordsGood /\ Owned /\ ConfirmedRefs /\ ServingGood


LEMMA NextOfIn == ASSUME NEW S, S # {} PROVE NextOf(S) \in S
BY DEF NextOf

(***************************************************************************)
(* The messages                                                            *)
(***************************************************************************)
LEMMA AppendKeeps ==
    ASSUME NEW s \in Seq(Requests), NEW q \in Requests
    PROVE  /\ Append(s, q) \in Seq(Requests) /\ Append(s, q) # <<>>
           /\ s # <<>> => Head(Append(s, q)) = Head(s)
           /\ \A k \in 1..Len(Append(s, q)) :
                Append(s, q)[k] = q \/ (k \in 1..Len(s) /\ Append(s, q)[k] = s[k])
OBVIOUS

LEMMA TailKeeps ==
    ASSUME NEW s \in Seq(Requests), s # <<>>
    PROVE  /\ Tail(s) \in Seq(Requests)
           /\ \A k \in 1..Len(Tail(s)) : k + 1 \in 1..Len(s) /\ Tail(s)[k] = s[k + 1]
OBVIOUS

LEMMA HeadKeeps ==
    ASSUME NEW s \in Seq(Requests), s # <<>>
    PROVE  /\ Head(s) \in Requests /\ <<Head(s)>> \in Seq(Requests) /\ <<Head(s)>> # <<>>
           /\ Head(<<Head(s)>>) = Head(s)
           /\ 1 \in 1..Len(s) /\ Head(s) = s[1]
           /\ \A k \in 1..Len(<<Head(s)>>) : <<Head(s)>>[k] = s[1]
OBVIOUS

\* What a Host is left with when its connection fails
Dropped(x) == [NoHost EXCEPT !.at = x.at, !.ref = x.ref, !.faulted = (x.at = "ready")]

DropTo(at, ref, f) == [NoHost EXCEPT !.at = at, !.ref = ref, !.faulted = f]

LEMMA DropsFields ==
    ASSUME NEW at \in {"none", "ready", "closed"}, NEW ref \in Refs, NEW f \in BOOLEAN
    PROVE  /\ DropTo(at, ref, f) \in HostState
           /\ DropTo(at, ref, f).rec = 0 /\ DropTo(at, ref, f).ref = ref
<1>1. NoHost \in HostState
    BY BrokerConstants DEF NoHost, HostState, HostFields, Refs
<1> QED BY <1>1 DEF HostState, HostFields, NoHost, DropTo

LEMMA DroppedShape ==
    ASSUME NEW x \in HostState
    PROVE  Dropped(x) \in HostState /\ Dropped(x).rec = 0 /\ Dropped(x).ref = x.ref
<1>1. PICK f \in BOOLEAN : f = (x.at = "ready")
    OBVIOUS
<1>2. x.at \in {"none", "ready", "closed"} /\ x.ref \in Refs
    BY DEF HostState, HostFields
<1>3. Dropped(x) = DropTo(x.at, x.ref, f)
    BY <1>1, Zenon DEF Dropped, DropTo
<1> QED BY <1>2, <1>3, DropsFields

LEMMA FailureEffect ==
    ASSUME LinkShape, NEW l \in Links, link[l].up, LinkFails(l)
    PROVE  /\ link' \in [Links -> LinkState]
           /\ \A k \in Links : /\ link'[k].of = link[k].of /\ link'[k].served = link[k].served
                               /\ link'[k].up => link[k].up
           /\ host' \in [Hosts -> HostState]
           /\ \A h \in Hosts : host'[h] = host[h] \/ host'[h] = Dropped(host[h])
<1>1. /\ link' = [link EXCEPT ![l].up = FALSE] /\ link \in [Links -> LinkState]
    BY DEF LinkFails, LinkShape
<1>2. link[l].of \in Hosts /\ host \in [Hosts -> HostState]
    BY DEF LinkShape
<1>3. host' = host \/ host' = [host EXCEPT ![link[l].of] = Dropped(host[link[l].of])]
    BY DEF LinkFails, Dropped
<1>4. Dropped(host[link[l].of]) \in HostState
    BY <1>2, DroppedShape
<1>5. /\ link' \in [Links -> LinkState]
      /\ \A k \in Links : /\ link'[k].of = link[k].of /\ link'[k].served = link[k].served
                          /\ link'[k].up => link[k].up
    BY <1>1 DEF LinkState
<1>6. /\ host' \in [Hosts -> HostState]
      /\ \A h \in Hosts : host'[h] = host[h] \/ host'[h] = Dropped(host[h])
    BY <1>2, <1>3, <1>4
<1> QED BY <1>5, <1>6

\* What the answer to the request at the head of a connection changes
LEMMA AnswerEffect ==
    ASSUME LinkShape, NEW l \in Links, wire[l] # <<>>, NEW x,
           link[l].up => x \in HostState, ClientAnswer(l, x)
    PROVE  /\ LinkShape'
           /\ wire' = [wire EXCEPT ![l] = Tail(wire[l])]
           /\ serving' = [serving EXCEPT ![l] = "idle"]
           /\ \A k \in Links : link'[k].of = link[k].of /\ link'[k].served = link[k].served
           /\ \A h \in Hosts : \/ host'[h] = host[h] \/ host'[h] = Dropped(host[h])
                               \/ h = link[l].of /\ link[l].up /\ host'[h] = [x EXCEPT !.waits = FALSE]
<1>1. /\ wire' = [wire EXCEPT ![l] = Tail(wire[l])]
      /\ serving' = [serving EXCEPT ![l] = "idle"]
    BY DEF ClientAnswer
<1>2. /\ link' \in [Links -> LinkState] /\ host' \in [Hosts -> HostState]
      /\ \A k \in Links : /\ link'[k].of = link[k].of /\ link'[k].served = link[k].served
                          /\ link'[k].up => link[k].up
      /\ \A h \in Hosts : \/ host'[h] = host[h] \/ host'[h] = Dropped(host[h])
                          \/ h = link[l].of /\ link[l].up /\ host'[h] = [x EXCEPT !.waits = FALSE]
    <2>1. CASE UNCHANGED <<host, link>>
        BY <2>1 DEF LinkShape
    <2>2. CASE link[l].up /\ LinkFails(l)
        BY <2>2, FailureEffect
    <2>3. CASE /\ link[l].up
               /\ host' = [host EXCEPT ![link[l].of] = [x EXCEPT !.waits = FALSE]]
               /\ UNCHANGED link
        <3>1. [x EXCEPT !.waits = FALSE] \in HostState
            BY <2>3 DEF HostState, HostFields
        <3> QED BY <2>3, <3>1 DEF LinkShape
    <2> QED BY <2>1, <2>2, <2>3 DEF ClientAnswer
<1>3. wire' \in [Links -> Seq(Requests)] /\ serving' \in [Links -> Steps]
    BY <1>1, TailKeeps DEF LinkShape, Steps
<1>4. \A k \in Links : serving'[k] # "idle" => wire'[k] # <<>>
    BY <1>1 DEF LinkShape
<1>5. \A k \in Links : link'[k].up => link'[k].of \in Hosts
    BY <1>2 DEF LinkShape
<1> QED BY <1>1, <1>2, <1>3, <1>4, <1>5 DEF LinkShape

(***************************************************************************)
(* The server                                                              *)
(***************************************************************************)
ServerInv == ServerShape /\ RecordsGood /\ Owned

\* A step of the server never makes a reference unknown, nor a record live again under another.
Advances ==
    /\ Known \subseteq Known'
    /\ \A i \in Records : record[i].step \notin {"unused", "opening"} =>
         /\ record'[i].step \notin {"unused", "opening"}
         /\ record'[i].step = "live" =>
              /\ record[i].step = "live"
              /\ record[i].ref # NoNative => record'[i].ref = record[i].ref

LEMMA KnownGrows ==
    ASSUME \A a \in Adapters : writes[a] # NoNative => writes'[a] = writes[a]
    PROVE  Known \subseteq Known'
BY DEF Known

LEMMA NoRecordShape == NoRecordYet \in RecordState
BY BrokerConstants DEF NoRecordYet, RecordState, Refs

NewRecord(l, ref, a) == [NoRecordYet EXCEPT !.step = "opening", !.link = l, !.ref = ref,
                                            !.gen = 1, !.adapter = a]

LEMMA NewRecordShape ==
    ASSUME NEW l \in Links, NEW ref \in Refs, NEW a \in Adapters
    PROVE  /\ NewRecord(l, ref, a) \in RecordState /\ NewRecord(l, ref, a).step = "opening"
           /\ NewRecord(l, ref, a).link = l /\ NewRecord(l, ref, a).ref = ref
           /\ NewRecord(l, ref, a).adapter = a /\ ~NewRecord(l, ref, a).awaiting
<1>1. l \in 0..MaxLinks /\ a \in 0..MaxAdapters /\ 1 \in Nat
    BY BrokerConstants DEF Links, Adapters
<1> QED BY <1>1 DEF NoRecordYet, RecordState, NewRecord

\* A request that is not at the head of an idle connection is being served.
LEMMA HeadIsConfirmed ==
    ASSUME BrokerInv, NEW l \in Links, wire[l] # <<>>
    PROVE  /\ Head(wire[l]) \in Requests /\ Confirmed(Head(wire[l]))
           /\ Head(wire[l]).op = "reopen" => Head(wire[l]).ref # NoNative
<1>1. wire[l] \in Seq(Requests)
    BY DEF BrokerInv, LinkShape
<1>2. Head(wire[l]) \in Requests /\ 1 \in 1..Len(wire[l]) /\ Head(wire[l]) = wire[l][1]
    BY <1>1, HeadKeeps
<1> QED BY <1>2 DEF BrokerInv, ConfirmedRefs

OpenGoesOn(l, i, a, ref) ==
    /\ record' = [record EXCEPT ![i] = NewRecord(l, ref, a)]
    /\ adapter' = [adapter EXCEPT ![a] = "opening"]
    /\ writers' = [n \in Natives |-> IF n = ref THEN i ELSE writers[n]]
    /\ claim' = IF ref = NoNative THEN i ELSE claim
    /\ UNCHANGED <<resuming, writes, outbox>>

LEMMA OpenServer ==
    ASSUME ServerInv, NEW l \in Links, NEW i \in FreeRecords, NEW a \in FreeAdapters,
           NEW ref \in Known \cup {NoNative}, ref # NoNative => writers[ref] = Nobody,
           OpenGoesOn(l, i, a, ref)
    PROVE  ServerInv' /\ Advances
<1> DEFINE new == NewRecord(l, ref, a)
<1>0. /\ i \in Records /\ record[i].step = "unused" /\ a \in Adapters /\ adapter[a] = "unused"
    BY DEF FreeRecords, FreeAdapters
<1>1. ref \in Refs
    BY BrokerConstants DEF Known, ServerInv, ServerShape, Refs
<1>2. /\ new \in RecordState /\ new.step = "opening" /\ new.link = l /\ new.ref = ref
      /\ new.adapter = a /\ ~new.awaiting
    BY <1>0, <1>1, NewRecordShape
<1> HIDE DEF new
<1>3. record' = [record EXCEPT ![i] = new]
    BY DEF OpenGoesOn, new
<1>4. ServerShape'
    <2>1. record' \in [Records -> RecordState]
        BY <1>2, <1>3 DEF ServerInv, ServerShape
    <2>2. /\ writers' \in [Natives -> Records \cup {Nobody}] /\ claim' \in Records \cup {Nobody}
        BY <1>0 DEF ServerInv, ServerShape, OpenGoesOn
    <2>3. adapter' \in [Adapters -> AdapterSteps]
        BY <1>0 DEF ServerInv, ServerShape, OpenGoesOn, AdapterSteps
    <2> QED BY <2>1, <2>2, <2>3 DEF ServerInv, ServerShape, OpenGoesOn
<1>5. Known' = Known
    BY DEF Known, OpenGoesOn
<1>6. \A j \in Records : j # i => record'[j] = record[j]
    BY <1>0, <1>3 DEF ServerInv, ServerShape
<1>7. record'[i] = new
    BY <1>0, <1>3 DEF ServerInv, ServerShape
<1>8. /\ adapter'[a] = "opening" /\ writes' = writes
      /\ \A b \in Adapters : b # a => adapter'[b] = adapter[b]
      /\ \A n \in Natives : IF n = ref THEN writers'[n] = i ELSE writers'[n] = writers[n]
    BY <1>0 DEF ServerInv, ServerShape, OpenGoesOn
<1>9. RecordsGood'
    <2>1. ASSUME NEW j \in Records PROVE RecordGood(j)'
        <3>1. CASE j = i
            BY <3>1, <1>1, <1>2, <1>5, <1>7, <1>8, <1>0 DEF RecordGood, Reserved, Refs
        <3>2. CASE j # i
            <4>1. RecordGood(j)
                BY DEF ServerInv, RecordsGood
            <4>2. record[j].step \in {"opening", "live", "closing"} => record[j].adapter # a
                BY <4>1, <1>0 DEF RecordGood
            <4>3. record[j].ref \in Refs /\ record[j].adapter \in 0..MaxAdapters
                BY DEF ServerInv, ServerShape, RecordState
            <4>4. record[j].step \in {"opening", "live"} => Reserved(j)'
                <5>1. j # Nobody
                    BY BrokerConstants DEF Records
                <5> QED BY <3>2, <1>5, <1>6, <1>8, <4>1, <4>3, <5>1 DEF RecordGood, Reserved, Refs
            <4> QED BY <3>2, <1>6, <1>8, <4>1, <4>2, <4>4 DEF RecordGood
        <3> QED BY <3>1, <3>2
    <2>2. ASSUME NEW j \in Holding', NEW k \in Holding', (record[j].adapter = record[k].adapter)'
          PROVE  j = k
        <3>1. \A m \in Holding : m # i /\ record[m].adapter # a
            BY <1>0 DEF ServerInv, RecordsGood, RecordGood, Holding
        <3>2. \A m \in Holding' : m = i \/ m \in Holding
            BY <1>6 DEF Holding
        <3>3. Holding \subseteq Records /\ i \notin Holding
            BY <3>1 DEF Holding
        <3>4. \A m \in Holding : record'[m] = record[m]
            BY <3>3, <1>6
        <3> QED BY <2>2, <3>1, <3>2, <3>4, <1>2, <1>7 DEF ServerInv, RecordsGood
    <2> QED BY <2>1, <2>2 DEF RecordsGood, Holding
<1>10. Owned'
    <2>1. ASSUME NEW j \in Records, Held(j)', WrittenBy(j)' # NoNative PROVE (writers[WrittenBy(j)] = j)'
        <3>1. j # i /\ record'[j] = record[j] /\ j # Nobody
            BY <2>1, <1>2, <1>6, <1>7, BrokerConstants DEF Held, Records
        <3>2. Held(j) /\ WrittenBy(j) # NoNative /\ writers[WrittenBy(j)] = j /\ WrittenBy(j)' = WrittenBy(j)
            BY <2>1, <3>1, <1>8 DEF Held, WrittenBy, ServerInv, Owned
        <3>3. WrittenBy(j) \in Natives
            <4>1. record[j].adapter \in Adapters
                BY <3>2 DEF Held, ServerInv, RecordsGood, RecordGood
            <4> QED BY <3>2, <4>1 DEF WrittenBy, ServerInv, ServerShape, Refs
        <3> QED BY <3>1, <3>2, <3>3, <1>8
    <2> QED BY <2>1, <1>8, <1>0 DEF ServerInv, Owned
<1>11. Advances
    BY <1>0, <1>5, <1>6 DEF Advances
<1> QED BY <1>4, <1>9, <1>10, <1>11 DEF ServerInv

\* Records of which only flags change, and none comes to wait for an identity
LEMMA AlikeServer ==
    ASSUME ServerInv, UNCHANGED <<adapter, writes, writers>>,
           \A j \in Records : /\ record'[j].step = record[j].step /\ record'[j].ref = record[j].ref
                              /\ record'[j].adapter = record[j].adapter
                              /\ record'[j].awaiting => record[j].awaiting
    PROVE  RecordsGood' /\ Owned' /\ Advances
<1>1. Known' = Known
    BY DEF Known
<1>2. Holding' = Holding /\ Holding \subseteq Records
    BY DEF Holding
<1>3. RecordsGood'
    <2>1. ASSUME NEW j \in Records PROVE RecordGood(j)'
        BY <1>1 DEF ServerInv, RecordsGood, RecordGood, Reserved
    <2> QED BY <1>2, <2>1 DEF ServerInv, RecordsGood
<1>4. Owned'
    BY DEF ServerInv, Owned, Held, WrittenBy
<1>5. Advances
    BY <1>1 DEF Advances
<1> QED BY <1>3, <1>4, <1>5

LEMMA TurnServer ==
    ASSUME ServerInv, NEW M \in SUBSET Records, UNCHANGED <<adapter, resuming, writes, writers, claim, outbox>>,
           record' = [i \in Records |->
              IF i \in M /\ record[i].awaiting THEN [record[i] EXCEPT !.boot = TRUE] ELSE record[i]]
    PROVE  ServerInv' /\ Advances
<1>1. ASSUME NEW i \in Records
      PROVE  /\ [record[i] EXCEPT !.boot = TRUE] \in RecordState
             /\ record'[i].step = record[i].step /\ record'[i].ref = record[i].ref
             /\ record'[i].adapter = record[i].adapter
             /\ record'[i].awaiting => record[i].awaiting
    <2>1. record[i] \in RecordState
        BY DEF ServerInv, ServerShape
    <2> QED BY <2>1 DEF RecordState
<1>2. ServerShape'
    BY <1>1 DEF ServerInv, ServerShape
<1> QED BY <1>1, <1>2, AlikeServer DEF ServerInv

LEMMA FaultServer ==
    ASSUME ServerInv, NEW i \in Records, Faults(i)
    PROVE  ServerInv' /\ Advances
<1>1. /\ record' = [record EXCEPT ![i].faulted = TRUE, ![i].awaiting = FALSE]
      /\ record \in [Records -> RecordState]
    BY DEF Faults, ServerInv, ServerShape
<1>2. /\ record' \in [Records -> RecordState]
      /\ \A j \in Records : /\ record'[j].step = record[j].step /\ record'[j].ref = record[j].ref
                            /\ record'[j].adapter = record[j].adapter
                            /\ record'[j].awaiting => record[j].awaiting
    <2>1. PICK r : r = [record[i] EXCEPT !.faulted = TRUE, !.awaiting = FALSE]
        OBVIOUS
    <2>2. r \in RecordState /\ r.step = record[i].step /\ r.ref = record[i].ref /\ r.adapter = record[i].adapter
          /\ r.awaiting = FALSE
        BY <1>1, <2>1 DEF RecordState
    <2>3. record' = [record EXCEPT ![i] = r]
        BY <1>1, <2>1
    <2> QED BY <1>1, <2>2, <2>3
<1>3. claim' \in Records \cup {Nobody}
    BY DEF Faults, FaultClaim, ServerInv, ServerShape
<1>4. outbox' \in [Records -> SUBSET {"ref", "fault"}]
    BY DEF Faults, ServerInv, ServerShape
<1>5. ServerShape'
    BY <1>2, <1>3, <1>4 DEF Faults, ServerInv, ServerShape
<1> QED BY <1>2, <1>5, AlikeServer DEF ServerInv, Faults

LEMMA ClosedRecordShape ==
    ASSUME NEW i \in Records, record[i] \in RecordState
    PROVE  /\ RecordClosed(i) \in RecordState /\ RecordClosed(i).step = "closing"
           /\ RecordClosed(i).adapter = record[i].adapter /\ RecordClosed(i).ref = NoNative
           /\ ~RecordClosed(i).awaiting
<1>1. NoRecordYet \in RecordState
    BY NoRecordShape
<1> QED BY <1>1 DEF NoRecordYet, RecordState, RecordClosed

\* Sessions that close keep their adapter Sessions and their writers.
LEMMA ClosingServer ==
    ASSUME ServerInv, NEW M \in SUBSET Records, \A i \in M : record[i].step = "live",
           UNCHANGED <<adapter, resuming, writes, writers, claim>>,
           outbox' \in [Records -> SUBSET {"ref", "fault"}],
           record' = [i \in Records |-> IF i \in M THEN RecordClosed(i) ELSE record[i]]
    PROVE  ServerInv' /\ Advances
<1>1. ASSUME NEW i \in Records
      PROVE  /\ record[i] \in RecordState
             /\ RecordClosed(i) \in RecordState /\ RecordClosed(i).step = "closing"
             /\ RecordClosed(i).adapter = record[i].adapter /\ RecordClosed(i).ref = NoNative
             /\ ~RecordClosed(i).awaiting
    BY ClosedRecordShape DEF ServerInv, ServerShape
<1>2. ServerShape'
    BY <1>1 DEF ServerInv, ServerShape
<1>3. Known' = Known
    BY DEF Known
<1>4. \A j \in Records :
        \/ /\ j \in M /\ record[j].step = "live" /\ record'[j].step = "closing" /\ record'[j].ref = NoNative
           /\ record'[j].adapter = record[j].adapter
        \/ j \notin M /\ record'[j] = record[j]
    BY <1>1
<1>5. Holding' = Holding /\ Holding \subseteq Records
    BY <1>4 DEF Holding
<1>6. RecordsGood'
    <2>1. ASSUME NEW j \in Records PROVE RecordGood(j)'
        BY <1>3, <1>4 DEF ServerInv, RecordsGood, RecordGood, Reserved
    <2>2. \A j \in Records : record'[j].adapter = record[j].adapter
        BY <1>4
    <2> QED BY <1>5, <2>1, <2>2 DEF ServerInv, RecordsGood
<1>7. Owned'
    <2>1. \A j \in Records : (Held(j)' => Held(j)) /\ WrittenBy(j)' = WrittenBy(j)
        BY <1>4 DEF Held, WrittenBy
    <2> QED BY <2>1 DEF ServerInv, Owned
<1>8. Advances
    BY <1>3, <1>4 DEF Advances
<1> QED BY <1>2, <1>6, <1>7, <1>8 DEF ServerInv

GoneRecord == [NoRecordYet EXCEPT !.step = "gone"]
LEMMA GoneShape == /\ GoneRecord \in RecordState /\ GoneRecord.step = "gone" /\ GoneRecord.ref = NoNative
                   /\ GoneRecord.adapter = 0
BY NoRecordShape DEF NoRecordYet, GoneRecord, RecordState

\* Of an open that fails or is given up, and of a Session that has closed, no record is left. What
\* is given up writes until it has closed.
LEMMA EndServer ==
    ASSUME ServerInv, NEW i \in Records, record[i].step \in {"opening", "closing"},
           NEW end \in {"leaving", "closed"},
           adapter' = [adapter EXCEPT ![record[i].adapter] = end],
           record' = [record EXCEPT ![i] = GoneRecord], FreesWriter(i),
           NEW ref \in Refs,
           writes' = writes \/ (record[i].step = "opening" /\ writes' = [writes EXCEPT ![record[i].adapter] = ref]),
           resuming' \in [Links -> Adapters \cup {0}], UNCHANGED outbox
    PROVE  ServerInv' /\ Advances
<1> DEFINE a == record[i].adapter
<1>1. a \in Adapters /\ adapter[a] # "unused" /\ (record[i].step = "opening" => adapter[a] = "opening")
    BY DEF ServerInv, RecordsGood, RecordGood
<1>2. \A j \in Records : j # i => record'[j] = record[j]
    BY DEF ServerInv, ServerShape
<1>3. record'[i] = GoneRecord
    BY DEF ServerInv, ServerShape
<1>4. adapter'[a] = end /\ \A b \in Adapters : b # a => adapter'[b] = adapter[b]
    BY <1>1 DEF ServerInv, ServerShape
<1>5. \A n \in Natives : writers'[n] = IF writers[n] = i THEN Nobody ELSE writers[n]
    BY DEF FreesWriter
<1>a. /\ writes' \in [Adapters -> Refs] /\ \A b \in Adapters : b # a => writes'[b] = writes[b]
      /\ writes[a] # NoNative => writes'[a] = writes[a]
    <2>1. record[i].step = "opening" => writes[a] = NoNative
        BY <1>1 DEF ServerInv, Owned
    <2> QED BY <1>1, <2>1 DEF ServerInv, ServerShape
<1>6. Known \subseteq Known'
    <2>1. \A b \in Adapters : writes[b] # NoNative => writes'[b] = writes[b]
        BY <1>a
    <2> QED BY <2>1, KnownGrows
<1>7. ServerShape'
    <2>1. record' \in [Records -> RecordState]
        BY GoneShape DEF ServerInv, ServerShape
    <2>2. adapter' \in [Adapters -> AdapterSteps]
        BY DEF ServerInv, ServerShape, AdapterSteps
    <2>3. writers' \in [Natives -> Records \cup {Nobody}] /\ claim' \in Records \cup {Nobody}
        BY DEF FreesWriter, ServerInv, ServerShape
    <2> QED BY <1>a, <2>1, <2>2, <2>3 DEF ServerInv, ServerShape
<1>8. \A j \in Holding : j # i => record[j].adapter # a
    BY DEF Holding, ServerInv, RecordsGood
<1> HIDE DEF a
<1>b. \A j \in Records : RecordGood(j) /\ record[j].ref \in Refs /\ record[j].adapter \in 0..MaxAdapters
    BY DEF ServerInv, RecordsGood, ServerShape, RecordState
<1>c. ASSUME NEW j \in Records, j # i, record[j].step \in {"opening", "live", "closing"}
      PROVE  /\ record[j].adapter \in Adapters /\ adapter'[record[j].adapter] = adapter[record[j].adapter]
             /\ writes'[record[j].adapter] = writes[record[j].adapter]
    <2>1. record[j].adapter \in Adapters /\ record[j].adapter # a
        BY <1>b, <1>c, <1>8 DEF RecordGood, Holding
    <2> QED BY <2>1, <1>4, <1>a
<1>9. RecordsGood'
    <2>1. ASSUME NEW j \in Records PROVE RecordGood(j)'
        <3>1. CASE j = i
            BY <3>1, <1>3, GoneShape DEF RecordGood
        <3>2. CASE j # i
            <4>2. record[j].step \in {"opening", "live"} => Reserved(j)'
                BY <3>2, <1>2, <1>5, <1>6, <1>b DEF RecordGood, Reserved, Refs
            <4> QED BY <3>2, <1>2, <1>b, <1>c, <4>2 DEF RecordGood
        <3> QED BY <3>1, <3>2
    <2>2. Holding' \subseteq Holding /\ i \notin Holding' /\ Holding \subseteq Records
        BY <1>2, <1>3, GoneShape DEF Holding
    <2>3. \A j, k \in Holding' : record'[j].adapter = record'[k].adapter => j = k
        BY <2>2, <1>2 DEF ServerInv, RecordsGood
    <2> QED BY <2>1, <2>3 DEF RecordsGood
<1>10. Owned'
    <2>1. ASSUME NEW j \in Records, Held(j)', WrittenBy(j)' # NoNative PROVE (writers[WrittenBy(j)] = j)'
        <3>1. j # i /\ record'[j] = record[j] /\ j # Nobody
            BY <2>1, <1>2, <1>3, GoneShape, BrokerConstants DEF Held, Records
        <3>2. Held(j) /\ WrittenBy(j)' = WrittenBy(j)
            BY <2>1, <3>1, <1>c DEF Held, WrittenBy
        <3>3. writers[WrittenBy(j)] = j /\ WrittenBy(j) \in Natives
            <4>1. record[j].adapter \in Adapters
                BY <3>1, <3>2, <1>c DEF Held
            <4> QED BY <2>1, <3>2, <4>1 DEF WrittenBy, ServerInv, ServerShape, Owned, Refs
        <3> QED BY <3>1, <3>2, <3>3, <1>5
    <2>2. ASSUME NEW b \in Adapters, adapter'[b] \in {"unused", "opening"} PROVE writes'[b] = NoNative
        <3>1. b # a
            BY <2>2, <1>4
        <3> QED BY <2>2, <3>1, <1>4, <1>a DEF ServerInv, Owned
    <2> QED BY <2>1, <2>2 DEF Owned
<1>11. Advances
    BY <1>2, <1>3, <1>6, GoneShape DEF Advances
<1> QED BY <1>7, <1>9, <1>10, <1>11 DEF ServerInv

\* The record of a Session that was opened
Relinked(r, ref, f) == [r EXCEPT !.step = "live", !.ref = ref, !.awaiting = f]
LEMMA RelinkedShape ==
    ASSUME NEW r \in RecordState, NEW ref \in Refs, NEW f \in BOOLEAN
    PROVE  /\ Relinked(r, ref, f) \in RecordState
           /\ Relinked(r, ref, f).step = "live" /\ Relinked(r, ref, f).ref = ref
           /\ Relinked(r, ref, f).adapter = r.adapter /\ Relinked(r, ref, f).link = r.link
           /\ Relinked(r, ref, f).awaiting => f
BY DEF RecordState, Relinked

\* One record becomes live, or stays so, and its adapter Session b writes ref from now on.
\* The record that is opened, reopened or identified is i.
Writing(i, b, ref) ==
    /\ record' \in [Records -> RecordState]
    /\ \A j \in Records : j # i => record'[j] = record[j]
    /\ record'[i].step = "live" /\ record'[i].ref = ref /\ record'[i].adapter = b
    /\ record'[i].awaiting => ref = NoNative
    /\ adapter' = [adapter EXCEPT ![b] = "open"]
    /\ writes' = [writes EXCEPT ![b] = ref]

LEMMA WritingServer ==
    ASSUME ServerInv, NEW i \in Records, NEW b \in Adapters, NEW ref \in Refs, Writing(i, b, ref),
           record[i].step \in {"opening", "live"},
           record[i].ref \in {NoNative, ref}, writes[b] = NoNative,
           adapter[b] \in {"opening", "open"},
           \A j \in Records \ {i} : record[j].step \in {"opening", "live", "closing"} => record[j].adapter # b,
           ref \notin Known \ {record[i].ref},
           \A n \in Natives : writers'[n] = IF n = ref THEN i ELSE writers[n],
           record[i].step = "opening" => record[i].adapter = b
    PROVE  RecordsGood' /\ Owned' /\ Advances
<1>1. /\ adapter'[b] = "open" /\ \A c \in Adapters : c # b => adapter'[c] = adapter[c]
      /\ writes'[b] = ref /\ \A c \in Adapters : c # b => writes'[c] = writes[c]
    BY DEF Writing, ServerInv, ServerShape
<1>2. Known \subseteq Known' /\ (ref # NoNative => ref \in Known')
    <2>1. \A c \in Adapters : writes[c] # NoNative => writes'[c] = writes[c]
        BY <1>1
    <2>2. ref # NoNative => ref \in Known'
        BY <1>1 DEF Known
    <2> QED BY <2>1, <2>2, KnownGrows
<1>3. RecordsGood'
    <2>1. ASSUME NEW j \in Records PROVE RecordGood(j)'
        <3>1. CASE j = i
            BY <3>1, <1>1, <1>2 DEF Writing, RecordGood, Reserved, Refs
        <3>2. CASE j # i
            <4>1. RecordGood(j) /\ record[j].ref \in Refs
                BY DEF ServerInv, RecordsGood, ServerShape, RecordState
            <4>2. record[j].step \in {"opening", "live"} => Reserved(j)'
                <5>1. CASE record[j].step \in {"opening", "live"} /\ record[j].ref # NoNative
                    <6>1. record[j].ref \in Known /\ writers[record[j].ref] = j
                        BY <5>1, <4>1 DEF RecordGood, Reserved
                    <6>2. RecordGood(i)
                        BY DEF ServerInv, RecordsGood
                    <6>3. record[j].ref # ref
                        <7>1. Reserved(i)
                            BY <6>2 DEF RecordGood
                        <7>2. ref \in Known => ref = record[i].ref
                            OBVIOUS
                        <7> QED BY <6>1, <7>1, <7>2, <5>1, <3>2 DEF Reserved
                    <6> QED BY <6>1, <6>3, <3>2, <4>1, <1>2 DEF Writing, Reserved, Refs
                <5> QED BY <5>1, <3>2 DEF Writing, Reserved
            <4>3. record[j].step \in {"opening", "live", "closing"} =>
                    adapter'[record[j].adapter] = adapter[record[j].adapter]
                    /\ writes'[record[j].adapter] = writes[record[j].adapter]
                BY <3>2, <4>1, <1>1 DEF RecordGood
            <4> QED BY <3>2, <4>1, <4>2, <4>3 DEF RecordGood, Writing
        <3> QED BY <3>1, <3>2
    <2>2. Holding' = Holding /\ Holding \subseteq Records
        BY DEF Holding, Writing
    <2>3. \A j, k \in Holding' : record'[j].adapter = record'[k].adapter => j = k
        <3>1. \A j \in Holding : j # i => record'[j].adapter = record[j].adapter /\ record[j].adapter # b
            BY <2>2 DEF Writing, Holding
        <3>2. record'[i].adapter = b
            BY DEF Writing
        <3> QED BY <2>2, <3>1, <3>2 DEF ServerInv, RecordsGood
    <2> QED BY <2>1, <2>3 DEF RecordsGood
<1>4. Owned'
    <2>1. ASSUME NEW j \in Records, Held(j)', WrittenBy(j)' # NoNative PROVE (writers[WrittenBy(j)] = j)'
        <3>1. CASE j = i
            BY <3>1, <2>1, <1>1 DEF Writing, Refs, WrittenBy
        <3>2. CASE j # i
            <4>1. RecordGood(j) /\ RecordGood(i) /\ record'[j] = record[j]
                BY <3>2 DEF Writing, ServerInv, RecordsGood
            <4>2. Held(j) /\ record[j].adapter \in Adapters \ {b}
                BY <2>1, <3>2, <4>1 DEF Held, RecordGood
            <4>3. WrittenBy(j)' = WrittenBy(j)
                BY <4>1, <4>2, <1>1 DEF WrittenBy
            <4>4. writers[WrittenBy(j)] = j /\ WrittenBy(j) \in Known /\ WrittenBy(j) \in Natives
                BY <2>1, <4>2, <4>3 DEF ServerInv, ServerShape, Owned, WrittenBy, Known, Refs
            <4>5. WrittenBy(j) # ref
                BY <2>1, <3>2, <4>1, <4>3, <4>4 DEF RecordGood, Reserved
            <4> QED BY <4>3, <4>4, <4>5
        <3> QED BY <3>1, <3>2
    <2>2. \A c \in Adapters : adapter'[c] \in {"unused", "opening"} => writes'[c] = NoNative
        BY <1>1 DEF ServerInv, Owned
    <2> QED BY <2>1, <2>2 DEF Owned
<1>5. Advances
    BY <1>2 DEF Advances, Writing
<1> QED BY <1>3, <1>4, <1>5

(***************************************************************************)
(* What is being served, and the references that are kept                  *)
(***************************************************************************)
\* Confirmed in the next state
StaysConfirmed(x) ==
    /\ x.ref \in Known' \cup {NoNative}
    /\ x.rec # 0 => record'[x.rec].step \notin {"unused", "opening"}
    /\ x.rec # 0 /\ x.ref # NoNative /\ record'[x.rec].step = "live" => x.ref = record'[x.rec].ref

LEMMA ConfirmedStays ==
    ASSUME Advances, NEW q, q.rec \in 0..MaxRecords, Confirmed(q)
    PROVE  StaysConfirmed(q)
<1>1. q.rec # 0 => q.rec \in Records
    BY BrokerConstants DEF Records
<1> QED BY <1>1 DEF Confirmed, Advances, StaysConfirmed

\* Requests that were there stay confirmed, and so do Hosts.
LEMMA RequestsStay ==
    ASSUME BrokerInv, Advances, NEW l \in Links, NEW k \in 1..Len(wire[l])
    PROVE  /\ wire[l][k] \in Requests /\ StaysConfirmed(wire[l][k])
           /\ wire[l][k].op = "reopen" => wire[l][k].ref # NoNative
<1>1. wire[l][k] \in Requests
    BY DEF BrokerInv, LinkShape
<1>2. Confirmed(wire[l][k]) /\ wire[l][k].rec \in 0..MaxRecords
    BY <1>1 DEF BrokerInv, ConfirmedRefs, Requests
<1> QED BY <1>1, <1>2, ConfirmedStays DEF BrokerInv, ConfirmedRefs

LEMMA HostsStay ==
    ASSUME BrokerInv, Advances, NEW h \in Hosts
    PROVE  /\ host[h] \in HostState /\ StaysConfirmed(host[h])
           /\ StaysConfirmed(Dropped(host[h]))
<1>1. host[h] \in HostState
    BY DEF BrokerInv, LinkShape
<1>2. Confirmed(host[h]) /\ host[h].rec \in 0..MaxRecords
    BY <1>1 DEF BrokerInv, ConfirmedRefs, HostState, HostFields
<1>3. StaysConfirmed(host[h])
    BY <1>2, ConfirmedStays
<1>4. Dropped(host[h]).rec = 0 /\ Dropped(host[h]).ref = host[h].ref
    BY <1>1, DroppedShape
<1> QED BY <1>1, <1>3, <1>4 DEF StaysConfirmed

LEMMA RefsByParts ==
    ASSUME \A h \in Hosts : StaysConfirmed(host'[h]),
           \A l \in Links : \A k \in 1..Len(wire'[l]) :
             StaysConfirmed(wire'[l][k]) /\ (wire'[l][k].op = "reopen" => wire'[l][k].ref # NoNative)
    PROVE  ConfirmedRefs'
BY DEF ConfirmedRefs, Confirmed, StaysConfirmed

\* A server step that answers nobody
LEMMA QuietRefs ==
    ASSUME BrokerInv, Advances, UNCHANGED host,
           \A l \in Links : \/ wire'[l] = wire[l] \/ wire'[l] = <<>>
                            \/ wire[l] # <<>> /\ wire'[l] = <<Head(wire[l])>>
    PROVE  ConfirmedRefs'
<1>1. \A h \in Hosts : StaysConfirmed(host'[h])
    BY HostsStay
<1>2. ASSUME NEW l \in Links, NEW k \in 1..Len(wire'[l])
      PROVE  StaysConfirmed(wire'[l][k]) /\ (wire'[l][k].op = "reopen" => wire'[l][k].ref # NoNative)
    <2>1. PICK m \in 1..Len(wire[l]) : wire'[l][k] = wire[l][m]
        <3>1. wire[l] \in Seq(Requests)
            BY DEF BrokerInv, LinkShape
        <3>2. CASE wire'[l] = wire[l]
            BY <3>2
        <3>3. CASE wire'[l] = <<>>
            BY <3>3
        <3>4. CASE wire[l] # <<>> /\ wire'[l] = <<Head(wire[l])>>
            BY <3>1, <3>4, HeadKeeps
        <3> QED BY <3>2, <3>3, <3>4
    <2> QED BY <2>1, RequestsStay
<1> QED BY <1>1, <1>2, RefsByParts

\* A server step that answers the request at the head of a connection
LEMMA AnswerRefs ==
    ASSUME BrokerInv, Advances, NEW l \in Links, wire[l] # <<>>, NEW x,
           link[l].up => x \in HostState /\ StaysConfirmed(x), ClientAnswer(l, x)
    PROVE  ConfirmedRefs'
<1>0. LinkShape
    BY DEF BrokerInv
<1>1. /\ wire' = [wire EXCEPT ![l] = Tail(wire[l])]
      /\ \A h \in Hosts : \/ host'[h] = host[h] \/ host'[h] = Dropped(host[h])
                          \/ h = link[l].of /\ link[l].up /\ host'[h] = [x EXCEPT !.waits = FALSE]
    BY <1>0, AnswerEffect
<1>2. ASSUME NEW h \in Hosts PROVE StaysConfirmed(host'[h])
    <2>1. CASE link[l].up /\ host'[h] = [x EXCEPT !.waits = FALSE]
        <3>1. host'[h].ref = x.ref /\ host'[h].rec = x.rec
            BY <2>1 DEF HostState, HostFields
        <3> QED BY <2>1, <3>1 DEF StaysConfirmed
    <2> QED BY <1>1, <2>1, HostsStay
<1>3. ASSUME NEW k \in Links, NEW n \in 1..Len(wire'[k])
      PROVE  StaysConfirmed(wire'[k][n]) /\ (wire'[k][n].op = "reopen" => wire'[k][n].ref # NoNative)
    <2>1. PICK m \in 1..Len(wire[k]) : wire'[k][n] = wire[k][m]
        <3>1. wire \in [Links -> Seq(Requests)]
            BY <1>0 DEF LinkShape
        <3>2. CASE k = l
            <4>1. wire'[l] = Tail(wire[l])
                BY <1>1, <3>1
            <4> QED BY <3>1, <3>2, <4>1, TailKeeps
        <3>3. CASE k # l
            BY <1>1, <3>1, <3>3
        <3> QED BY <3>2, <3>3
    <2> QED BY <2>1, RequestsStay
<1> QED BY <1>2, <1>3, RefsByParts

\* What one connection is serving is not disturbed by a step elsewhere.
LEMMA ServingStays ==
    ASSUME NEW l \in Links, ServingOf(l), ServerShape, serving'[l] = serving[l],
           serving[l] # "idle" => Head(wire'[l]) = Head(wire[l]) /\ Head(wire[l]).rec \in 0..MaxRecords,
           resuming'[l] = resuming[l],
           \A i \in Records : record[i].step = "opening" /\ record[i].link = l =>
              record'[i].step = "opening" /\ record'[i].link = l,
           Advances,
           \A i \in Records : record[i].step = "live" /\ record[i].link = l /\ record'[i].step = "live" =>
              record'[i].link = l,
           serving[l] = "reopening" => adapter'[resuming[l]] = "opening",
           \A c \in Adapters : Ending(c) => Ending(c)',
           \A i \in Records : record'[i].step = "opening" =>
              \/ record[i].step = "opening" /\ record'[i].adapter = record[i].adapter
              \/ record'[i].adapter \in Adapters /\ adapter[record'[i].adapter] = "unused"
    PROVE  ServingOf(l)'
<1>1. serving[l] # "idle" /\ Head(wire[l]).rec # 0 => Head(wire[l]).rec \in Records
    BY BrokerConstants DEF Records
<1>2. serving[l] = "opening" => \E i \in Records : record'[i].step = "opening" /\ record'[i].link = l
    BY DEF ServingOf
<1>3. serving[l] \in {"closingOld", "reopening"} => Reopens(l)'
    BY <1>1 DEF ServingOf, Reopens, Advances
<1>4. serving[l] = "reopening" =>
         /\ resuming[l] \in Adapters /\ adapter[resuming[l]] = "opening"
         /\ \A i \in Records : record'[i].step = "opening" => record'[i].adapter # resuming[l]
    BY DEF ServingOf
<1>5. serving[l] = "givingUp" => resuming[l] \in Adapters /\ Ending(resuming[l])'
    BY DEF ServingOf, Ending
<1> QED BY <1>2, <1>3, <1>4, <1>5 DEF ServingOf

(***************************************************************************)
(* The steps of the Hosts and of the network                               *)
(***************************************************************************)
LEMMA ServerUntouched ==
    ASSUME BrokerInv, UNCHANGED <<serving, Server>>,
           \A l \in Links : serving[l] # "idle" => Head(wire'[l]) = Head(wire[l])
    PROVE  RecordsGood' /\ Owned' /\ Advances /\ ServingGood'
<1>1. Known' = Known /\ Holding' = Holding
    BY DEF Known, Holding, Server
<1>2. RecordsGood' /\ Owned'
    BY <1>1 DEF BrokerInv, RecordsGood, RecordGood, Reserved, Owned, Held, WrittenBy, Server
<1>3. Advances
    BY <1>1 DEF Advances, Server
<1>4. \A l \in Links : ServingOf(l)'
    BY DEF BrokerInv, ServingGood, ServingOf, Reopens, Ending, Server
<1> QED BY <1>2, <1>3, <1>4 DEF BrokerInv, ServingGood, Server

LEMMA SendKeeps ==
    ASSUME BrokerInv, Advances, NEW h \in Hosts, Up(h), NEW q \in Requests, StaysConfirmed(q),
           q.op = "reopen" => q.ref # NoNative, Sends(h, q)
    PROVE  /\ wire' \in [Links -> Seq(Requests)]
           /\ \A l \in Links : wire[l] # <<>> => wire'[l] # <<>> /\ Head(wire'[l]) = Head(wire[l])
           /\ \A l \in Links : \A k \in 1..Len(wire'[l]) :
                StaysConfirmed(wire'[l][k]) /\ (wire'[l][k].op = "reopen" => wire'[l][k].ref # NoNative)
<1>1. wire \in [Links -> Seq(Requests)] /\ host[h].link \in Links
    BY BrokerConstants DEF BrokerInv, LinkShape, Up, HostState, HostFields, Links
<1>2. wire' = [wire EXCEPT ![host[h].link] = Append(wire[host[h].link], q)]
    BY DEF Sends
<1>3. wire' \in [Links -> Seq(Requests)]
    BY <1>1, <1>2, AppendKeeps
<1>4. ASSUME NEW l \in Links, wire[l] # <<>>
      PROVE  wire'[l] # <<>> /\ Head(wire'[l]) = Head(wire[l])
    BY <1>1, <1>2, <1>4, AppendKeeps
<1>5. ASSUME NEW l \in Links, NEW k \in 1..Len(wire'[l])
      PROVE  StaysConfirmed(wire'[l][k]) /\ (wire'[l][k].op = "reopen" => wire'[l][k].ref # NoNative)
    <2>1. wire'[l][k] = q \/ \E m \in 1..Len(wire[l]) : wire'[l][k] = wire[l][m]
        BY <1>1, <1>2, AppendKeeps
    <2> QED BY <2>1, RequestsStay
<1> QED BY <1>3, <1>4, <1>5

LEMMA RequestShape ==
    ASSUME BrokerInv, NEW h \in Hosts, NEW op \in {"open", "turn", "reopen", "close"}, NEW ref \in Refs
    PROVE  /\ Request(h, op, ref) \in Requests /\ Request(h, op, ref).op = op
           /\ Request(h, op, ref).ref = ref /\ Request(h, op, ref).rec = host[h].rec
<1>1. host[h] \in HostFields
    BY DEF BrokerInv, LinkShape, HostState
<1> QED BY <1>1 DEF Request, Requests, HostFields

\* A Host that changes, while the connections only take a request more
LEMMA HostChanges ==
    ASSUME BrokerInv, NEW h \in Hosts, NEW x \in HostState, StaysConfirmed(x),
           host' = [host EXCEPT ![h] = x], UNCHANGED <<link, serving, Server, outbox>>, Advances,
           wire' \in [Links -> Seq(Requests)],
           \A l \in Links : wire[l] # <<>> => wire'[l] # <<>> /\ Head(wire'[l]) = Head(wire[l]),
           \A l \in Links : \A k \in 1..Len(wire'[l]) :
                StaysConfirmed(wire'[l][k]) /\ (wire'[l][k].op = "reopen" => wire'[l][k].ref # NoNative)
    PROVE  BrokerInv'
<1>1. LinkShape'
    BY DEF BrokerInv, LinkShape
<1>2. ServerShape'
    BY DEF BrokerInv, ServerShape, Server
<1>3. RecordsGood' /\ Owned' /\ ServingGood'
    BY ServerUntouched DEF BrokerInv, LinkShape
<1>4. \A k \in Hosts : StaysConfirmed(host'[k])
    BY HostsStay DEF BrokerInv, LinkShape
<1>5. ConfirmedRefs'
    BY <1>4, RefsByParts
<1> QED BY <1>1, <1>2, <1>3, <1>5 DEF BrokerInv

LEMMA WiresStay ==
    ASSUME BrokerInv, Advances, wire' = wire
    PROVE  /\ wire' \in [Links -> Seq(Requests)]
           /\ \A l \in Links : wire[l] # <<>> => wire'[l] # <<>> /\ Head(wire'[l]) = Head(wire[l])
           /\ \A l \in Links : \A k \in 1..Len(wire'[l]) :
                StaysConfirmed(wire'[l][k]) /\ (wire'[l][k].op = "reopen" => wire'[l][k].ref # NoNative)
<1>1. wire \in [Links -> Seq(Requests)]
    BY DEF BrokerInv, LinkShape
<1> QED BY <1>1, RequestsStay

LEMMA WaitsShape ==
    ASSUME BrokerInv, Advances, NEW h \in Hosts, NEW f \in BOOLEAN
    PROVE  [host[h] EXCEPT !.waits = f] \in HostState /\ StaysConfirmed([host[h] EXCEPT !.waits = f])
<1>1. host[h] \in HostState /\ StaysConfirmed(host[h])
    BY HostsStay
<1>2. /\ [host[h] EXCEPT !.waits = f] \in HostState
      /\ [host[h] EXCEPT !.waits = f].rec = host[h].rec /\ [host[h] EXCEPT !.waits = f].ref = host[h].ref
    BY <1>1 DEF HostState, HostFields
<1> QED BY <1>1, <1>2 DEF StaysConfirmed

LEMMA StandingStill ==
    ASSUME BrokerInv, UNCHANGED Server PROVE Advances
<1>1. Known' = Known
    BY DEF Known, Server
<1> QED BY <1>1 DEF Advances, Server

LEMMA OpenSessionStep ==
    ASSUME BrokerInv, NEW h \in Hosts, OpenSession(h)
    PROVE  BrokerInv'
<1>0. Advances
    BY StandingStill DEF OpenSession
<1>1. PICK ref \in Known \cup {NoNative} : Sends(h, Request(h, "open", ref))
    BY DEF OpenSession
<1>2. ref \in Refs /\ host[h].rec = 0
    <2>1. ref \in Refs
        BY BrokerConstants DEF Known, BrokerInv, ServerShape, Refs
    <2> QED BY <2>1 DEF OpenSession, BrokerInv, LinkShape, HostState
<1> DEFINE q == Request(h, "open", ref)
<1>3. q \in Requests /\ q.op = "open" /\ q.ref = ref /\ q.rec = 0
    BY <1>2, RequestShape
<1>4. StaysConfirmed(q)
    BY <1>0, <1>3 DEF StaysConfirmed, Advances
<1>5. /\ wire' \in [Links -> Seq(Requests)]
      /\ \A l \in Links : wire[l] # <<>> => wire'[l] # <<>> /\ Head(wire'[l]) = Head(wire[l])
      /\ \A l \in Links : \A k \in 1..Len(wire'[l]) :
           StaysConfirmed(wire'[l][k]) /\ (wire'[l][k].op = "reopen" => wire'[l][k].ref # NoNative)
    BY <1>0, <1>1, <1>3, <1>4, SendKeeps DEF OpenSession
<1>6. host' = [host EXCEPT ![h] = [host[h] EXCEPT !.waits = TRUE]]
    BY DEF OpenSession
<1>7. [host[h] EXCEPT !.waits = TRUE] \in HostState /\ StaysConfirmed([host[h] EXCEPT !.waits = TRUE])
    BY <1>0, WaitsShape
<1>8. UNCHANGED <<link, serving, Server, outbox>>
    BY DEF OpenSession
<1> QED BY <1>0, <1>5, <1>6, <1>7, <1>8, HostChanges

LEMMA TurnStep ==
    ASSUME BrokerInv, NEW h \in Hosts, TurnOrRecover(h)
    PROVE  BrokerInv'
<1>0. Advances
    BY StandingStill DEF TurnOrRecover
<1>1. PICK op \in {"open", "turn", "reopen", "close"}, ref \in Refs :
        /\ Sends(h, Request(h, op, ref)) /\ ref \in {NoNative, host[h].ref}
        /\ op = "reopen" => ref # NoNative
    <2>1. host[h].ref \in Refs /\ NoNative \in Refs
        BY DEF BrokerInv, LinkShape, HostState, HostFields, Refs
    <2>2. Recovery(h) \in {"open", "reopen"}
        BY DEF Recovery
    <2>3. \/ host[h].ref # NoNative /\ Sends(h, Request(h, Recovery(h), host[h].ref))
          \/ Sends(h, Request(h, "turn", NoNative))
        BY DEF TurnOrRecover
    <2> QED BY <2>1, <2>2, <2>3
<1> DEFINE q == Request(h, op, ref)
<1>2. q \in Requests /\ q.op = op /\ q.ref = ref /\ q.rec = host[h].rec
    BY RequestShape
<1>3. StaysConfirmed(host[h])
    BY <1>0, HostsStay
<1>4. StaysConfirmed(q)
    BY <1>1, <1>2, <1>3 DEF StaysConfirmed
<1>5. /\ wire' \in [Links -> Seq(Requests)]
      /\ \A l \in Links : wire[l] # <<>> => wire'[l] # <<>> /\ Head(wire'[l]) = Head(wire[l])
      /\ \A l \in Links : \A k \in 1..Len(wire'[l]) :
           StaysConfirmed(wire'[l][k]) /\ (wire'[l][k].op = "reopen" => wire'[l][k].ref # NoNative)
    BY <1>0, <1>1, <1>2, <1>4, SendKeeps DEF TurnOrRecover
<1>6. host' = [host EXCEPT ![h] = [host[h] EXCEPT !.waits = TRUE]]
    BY DEF TurnOrRecover
<1>7. [host[h] EXCEPT !.waits = TRUE] \in HostState /\ StaysConfirmed([host[h] EXCEPT !.waits = TRUE])
    BY <1>0, WaitsShape
<1>8. UNCHANGED <<link, serving, Server, outbox>>
    BY DEF TurnOrRecover
<1> QED BY <1>0, <1>5, <1>6, <1>7, <1>8, HostChanges

ClosedHost(l) == [NoHost EXCEPT !.at = "closed", !.link = l]
LEMMA ClosedHostShape ==
    ASSUME NEW l \in 0..MaxLinks
    PROVE  ClosedHost(l) \in HostState /\ ClosedHost(l).rec = 0 /\ ClosedHost(l).ref = NoNative
<1>1. NoHost \in HostState
    BY BrokerConstants DEF NoHost, HostState, HostFields, Refs
<1> QED BY <1>1 DEF HostState, HostFields, NoHost, ClosedHost

LEMMA CloseStep ==
    ASSUME BrokerInv, NEW h \in Hosts, CloseSession(h)
    PROVE  BrokerInv'
<1>0. Advances
    BY StandingStill DEF CloseSession
<1>1. /\ wire' \in [Links -> Seq(Requests)]
      /\ \A l \in Links : wire[l] # <<>> => wire'[l] # <<>> /\ Head(wire'[l]) = Head(wire[l])
      /\ \A l \in Links : \A k \in 1..Len(wire'[l]) :
           StaysConfirmed(wire'[l][k]) /\ (wire'[l][k].op = "reopen" => wire'[l][k].ref # NoNative)
    <2>1. CASE wire' = wire
        BY <1>0, <2>1, WiresStay
    <2>2. CASE Up(h) /\ Sends(h, Request(h, "close", NoNative))
        <3> DEFINE q == Request(h, "close", NoNative)
        <3>1. q \in Requests /\ q.op = "close" /\ q.ref = NoNative /\ q.rec = host[h].rec
            BY RequestShape DEF Refs
        <3>2. StaysConfirmed(q)
            BY <1>0, <3>1, HostsStay DEF StaysConfirmed
        <3> QED BY <1>0, <2>2, <3>1, <3>2, SendKeeps
    <2> QED BY <2>1, <2>2 DEF CloseSession
<1>2. host' = [host EXCEPT ![h] = ClosedHost(host[h].link)]
    BY DEF CloseSession, ClosedHost
<1>3. host[h].link \in 0..MaxLinks
    BY DEF BrokerInv, LinkShape, HostState, HostFields
<1>4. ClosedHost(host[h].link) \in HostState /\ StaysConfirmed(ClosedHost(host[h].link))
    BY <1>3, ClosedHostShape DEF StaysConfirmed
<1>5. UNCHANGED <<link, serving, Server, outbox>>
    BY DEF CloseSession
<1> QED BY <1>0, <1>1, <1>2, <1>4, <1>5, HostChanges

\* Hosts and connections that change, while no request moves
LEMMA EndsChange ==
    ASSUME BrokerInv, UNCHANGED <<wire, serving, Server>>, Advances,
           outbox' \in [Records -> SUBSET {"ref", "fault"}],
           link' \in [Links -> LinkState], \A k \in Links : link'[k].up => link'[k].of \in Hosts,
           host' \in [Hosts -> HostState], \A h \in Hosts : StaysConfirmed(host'[h])
    PROVE  BrokerInv'
<1>1. LinkShape'
    BY DEF BrokerInv, LinkShape
<1>2. ServerShape'
    BY DEF BrokerInv, ServerShape, Server
<1>3. RecordsGood' /\ Owned' /\ ServingGood'
    BY ServerUntouched DEF BrokerInv, LinkShape
<1>4. ConfirmedRefs'
    BY WiresStay, RefsByParts
<1> QED BY <1>1, <1>2, <1>3, <1>4 DEF BrokerInv

LEMMA LossStep ==
    ASSUME BrokerInv, NEW l \in Links, link[l].up, LinkFails(l), UNCHANGED <<wire, serving, Server, outbox>>
    PROVE  BrokerInv'
<1>0. Advances
    BY StandingStill
<1>1. LinkShape
    BY DEF BrokerInv
<1>2. /\ link' \in [Links -> LinkState]
      /\ \A k \in Links : /\ link'[k].of = link[k].of /\ link'[k].served = link[k].served
                          /\ link'[k].up => link[k].up
      /\ host' \in [Hosts -> HostState]
      /\ \A h \in Hosts : host'[h] = host[h] \/ host'[h] = Dropped(host[h])
    BY <1>1, FailureEffect
<1>3. \A k \in Links : link'[k].up => link'[k].of \in Hosts
    BY <1>1, <1>2 DEF LinkShape
<1>4. \A h \in Hosts : StaysConfirmed(host'[h])
    BY <1>0, <1>2, HostsStay
<1>5. outbox' \in [Records -> SUBSET {"ref", "fault"}]
    BY DEF BrokerInv, ServerShape
<1> QED BY <1>0, <1>2, <1>3, <1>4, <1>5, EndsChange

LEMMA TimeoutStep ==
    ASSUME BrokerInv, NEW h \in Hosts, TimesOutRequest(h)
    PROVE  BrokerInv'
<1>0. Advances /\ UNCHANGED <<wire, serving, Server, outbox>>
    BY StandingStill DEF TimesOutRequest
<1>1. CASE LinkFails(host[h].link)
    <2>1. host[h].link \in Links /\ link[host[h].link].up
        BY BrokerConstants DEF TimesOutRequest, Up, BrokerInv, LinkShape, HostState, HostFields, Links
    <2> QED BY <1>0, <1>1, <2>1, LossStep
<1>2. CASE host' = [host EXCEPT ![h] = [host[h] EXCEPT !.waits = FALSE]] /\ UNCHANGED link
    <2>1. [host[h] EXCEPT !.waits = FALSE] \in HostState /\ StaysConfirmed([host[h] EXCEPT !.waits = FALSE])
        BY <1>0, WaitsShape
    <2>2. /\ wire' \in [Links -> Seq(Requests)]
          /\ \A l \in Links : wire[l] # <<>> => wire'[l] # <<>> /\ Head(wire'[l]) = Head(wire[l])
          /\ \A l \in Links : \A k \in 1..Len(wire'[l]) :
               StaysConfirmed(wire'[l][k]) /\ (wire'[l][k].op = "reopen" => wire'[l][k].ref # NoNative)
        BY <1>0, WiresStay
    <2> QED BY <1>0, <1>2, <2>1, <2>2, HostChanges
<1> QED BY <1>1, <1>2 DEF TimesOutRequest

LEMMA ConnectStep ==
    ASSUME BrokerInv, NEW h \in Hosts, Connect(h)
    PROVE  BrokerInv'
<1>0. Advances
    BY StandingStill DEF Connect
<1>1. PICK m \in Links : /\ link' = [link EXCEPT ![m] = [of |-> h, up |-> TRUE, served |-> TRUE]]
                         /\ host' = [host EXCEPT ![h].link = m]
    <2> DEFINE m == NextOf({l \in Links : link[l].of = Nobody})
    <2>1. m \in {l \in Links : link[l].of = Nobody}
        BY NextOfIn DEF Connect
    <2>2. link' = [link EXCEPT ![m] = [of |-> h, up |-> TRUE, served |-> TRUE]] /\ host' = [host EXCEPT ![h].link = m]
        BY DEF Connect
    <2> QED BY <2>1, <2>2
<1>2. host[h] \in HostState /\ StaysConfirmed(host[h])
    BY <1>0, HostsStay
<1>3. /\ [host[h] EXCEPT !.link = m] \in HostState
      /\ [host[h] EXCEPT !.link = m].rec = host[h].rec /\ [host[h] EXCEPT !.link = m].ref = host[h].ref
    <2>1. m \in 0..MaxLinks
        BY BrokerConstants DEF Links
    <2> QED BY <1>2, <2>1 DEF HostState, HostFields
<1>4. StaysConfirmed([host[h] EXCEPT !.link = m])
    BY <1>2, <1>3 DEF StaysConfirmed
<1>5. host' = [host EXCEPT ![h] = [host[h] EXCEPT !.link = m]] /\ host \in [Hosts -> HostState]
    BY <1>1 DEF BrokerInv, LinkShape
<1>6. host' \in [Hosts -> HostState] /\ \A k \in Hosts : StaysConfirmed(host'[k])
    BY <1>0, <1>3, <1>4, <1>5, HostsStay
<1>7. link' \in [Links -> LinkState] /\ \A k \in Links : link'[k].up => link'[k].of \in Hosts
    <2>1. [of |-> h, up |-> TRUE, served |-> TRUE] \in LinkState
        BY DEF LinkState
    <2>2. link \in [Links -> LinkState] /\ \A k \in Links : link[k].up => link[k].of \in Hosts
        BY DEF BrokerInv, LinkShape
    <2> QED BY <1>1, <2>1, <2>2
<1>8. outbox' \in [Records -> SUBSET {"ref", "fault"}] /\ UNCHANGED <<wire, serving, Server>>
    BY DEF Connect, BrokerInv, ServerShape
<1> QED BY <1>0, <1>6, <1>7, <1>8, EndsChange

Heard(x, f, ref) == [x EXCEPT !.faulted = f, !.ref = ref]
LEMMA HeardShape ==
    ASSUME NEW x \in HostState, NEW f \in BOOLEAN, NEW ref \in Refs
    PROVE  Heard(x, f, ref) \in HostState /\ Heard(x, f, ref).rec = x.rec /\ Heard(x, f, ref).ref = ref
BY DEF HostState, HostFields, Heard

LEMMA ReceivesStep ==
    ASSUME BrokerInv, NEW i \in Records, Receives(i)
    PROVE  BrokerInv'
<1>0. Advances
    BY StandingStill DEF Receives
<1>1. ASSUME NEW h \in Hosts
      PROVE  host'[h] \in HostState /\ StaysConfirmed(host'[h])
    <2>0. host[h] \in HostState /\ StaysConfirmed(host[h])
        BY <1>0, HostsStay
    <2>1. CASE Current(h, i)
        <3>1. PICK f \in BOOLEAN : f = (host[h].faulted \/ "fault" \in outbox[i])
            OBVIOUS
        <3>2. PICK ref \in Refs : ref = IF "ref" \in outbox[i] THEN record[i].ref ELSE host[h].ref
            BY <2>0 DEF BrokerInv, ServerShape, RecordState, HostState, HostFields
        <3>3. host'[h] = Heard(host[h], f, ref)
            BY <2>1, <3>1, <3>2, Zenon DEF Receives, Heard
        <3>4. host'[h] \in HostState /\ host'[h].rec = host[h].rec /\ host'[h].ref = ref
            BY <2>0, <3>3, HeardShape
        <3>5. host[h].rec = i /\ record' = record
            BY <2>1 DEF Current, Receives, Server
        <3>6. record[i].ref \in Known' \cup {NoNative}
            <4>1. RecordGood(i)
                BY DEF BrokerInv, RecordsGood
            <4> QED BY <1>0, <4>1 DEF RecordGood, Reserved, Advances
        <3> QED BY <2>0, <3>2, <3>4, <3>5, <3>6 DEF StaysConfirmed
    <2>2. CASE ~Current(h, i)
        BY <2>0, <2>2 DEF Receives
    <2> QED BY <2>1, <2>2
<1>2. host' \in [Hosts -> HostState]
    <2>1. host' = [h \in Hosts |-> host'[h]]
        BY DEF Receives
    <2> QED BY <1>1, <2>1
<1>3. UNCHANGED <<wire, serving, Server, link>> /\ outbox' \in [Records -> SUBSET {"ref", "fault"}]
    BY DEF Receives, BrokerInv, ServerShape
<1>4. link' \in [Links -> LinkState] /\ \A k \in Links : link'[k].up => link'[k].of \in Hosts
    BY <1>3 DEF BrokerInv, LinkShape
<1> QED BY <1>0, <1>1, <1>2, <1>3, <1>4, EndsChange

(***************************************************************************)
(* The steps of the broker                                                 *)
(***************************************************************************)
\* A step for one connection, or for none, leaves what the others are being served.
LEMMA OthersServed ==
    ASSUME BrokerInv, Advances, NEW l, l \in Links => ServingOf(l)',
           \A k \in Links \ {l} : /\ serving'[k] = serving[k] /\ resuming'[k] = resuming[k]
                                  /\ serving[k] # "idle" => Head(wire'[k]) = Head(wire[k])
                                  /\ serving[k] = "reopening" => adapter'[resuming[k]] = "opening",
           l \in Links /\ serving'[l] = "reopening" =>
              \A k \in Links \ {l} : serving[k] = "reopening" => resuming[k] # resuming'[l],
           \A i \in Records : record[i].link # l =>
              /\ record[i].step = "opening" => record'[i].step = "opening" /\ record'[i].link = record[i].link
              /\ record[i].step = "live" /\ record'[i].step = "live" => record'[i].link = record[i].link,
           \A c \in Adapters : Ending(c) => Ending(c)',
           \A i \in Records : record'[i].step = "opening" =>
              \/ record[i].step = "opening" /\ record'[i].adapter = record[i].adapter
              \/ record'[i].adapter \in Adapters /\ adapter[record'[i].adapter] = "unused"
    PROVE  ServingGood'
<1>1. ASSUME NEW k \in Links, k # l PROVE ServingOf(k)'
    <2>1. ServingOf(k) /\ ServerShape
        BY DEF BrokerInv, ServingGood
    <2>2. serving[k] # "idle" => Head(wire'[k]) = Head(wire[k]) /\ Head(wire[k]).rec \in 0..MaxRecords
        <3>1. serving[k] # "idle" => wire[k] # <<>>
            BY DEF BrokerInv, LinkShape
        <3> QED BY <1>1, <3>1, HeadIsConfirmed DEF Requests
    <2> QED BY <1>1, <2>1, <2>2, ServingStays
<1>2. ASSUME NEW j \in Links, NEW k \in Links, serving'[j] = "reopening", serving'[k] = "reopening",
             resuming'[j] = resuming'[k]
      PROVE  j = k
    <2>1. CASE j # l /\ k # l
        BY <1>2, <2>1 DEF BrokerInv, ServingGood
    <2>2. CASE j = l \/ k = l
        BY <1>2, <2>2
    <2> QED BY <2>1, <2>2
<1> QED BY <1>1, <1>2 DEF ServingGood

LEMMA IdleIsServed == ASSUME NEW l \in Links, serving'[l] = "idle" PROVE ServingOf(l)'
BY DEF ServingOf

\* What the server steps that answer a request have in common
LEMMA AnswerStep ==
    ASSUME BrokerInv, ServerInv', Advances, NEW l \in Links, wire[l] # <<>>, NEW x,
           link[l].up => x \in HostState /\ StaysConfirmed(x), ClientAnswer(l, x),
           \A k \in Links \ {l} : resuming'[k] = resuming[k]
                                  /\ (serving[k] = "reopening" => adapter'[resuming[k]] = "opening"),
           \A i \in Records : record[i].link # l =>
              /\ record[i].step = "opening" => record'[i].step = "opening" /\ record'[i].link = record[i].link
              /\ record[i].step = "live" /\ record'[i].step = "live" => record'[i].link = record[i].link,
           \A c \in Adapters : Ending(c) => Ending(c)',
           \A i \in Records : record'[i].step = "opening" =>
              record[i].step = "opening" /\ record'[i].adapter = record[i].adapter
    PROVE  BrokerInv'
<1>1. LinkShape
    BY DEF BrokerInv
<1>2. /\ LinkShape'
      /\ wire' = [wire EXCEPT ![l] = Tail(wire[l])]
      /\ serving' = [serving EXCEPT ![l] = "idle"]
    BY <1>1, AnswerEffect
<1>3. ConfirmedRefs'
    BY AnswerRefs
<1>4. /\ serving'[l] = "idle"
      /\ \A k \in Links \ {l} : serving'[k] = serving[k] /\ wire'[k] = wire[k]
    BY <1>1, <1>2 DEF LinkShape
<1>5. ServingOf(l)'
    BY <1>4, IdleIsServed
<1>6. ServingGood'
    BY <1>4, <1>5, OthersServed
<1> QED BY <1>2, <1>3, <1>6 DEF BrokerInv, ServerInv

LEMMA EndingStays == ASSUME UNCHANGED adapter PROVE \A c \in Adapters : Ending(c) => Ending(c)'
BY DEF Ending

LEMMA AnswersSelf ==
    ASSUME BrokerInv, Advances, NEW l \in Links
    PROVE  link[l].up => host[link[l].of] \in HostState /\ StaysConfirmed(host[link[l].of])
<1>1. link[l].up => link[l].of \in Hosts
    BY DEF BrokerInv, LinkShape
<1> QED BY <1>1, HostsStay

LEMMA Untouched == ASSUME ServerInv, UNCHANGED <<Server, outbox>> PROVE ServerInv' /\ Advances
<1>1. Known' = Known /\ Holding' = Holding
    BY DEF Known, Holding, Server
<1> QED BY <1>1 DEF ServerInv, ServerShape, RecordsGood, RecordGood, Reserved, Owned, Held, WrittenBy, Server, Advances

LEMMA AnswerOnly ==
    ASSUME BrokerInv, UNCHANGED <<Server, outbox>>, NEW l \in Links, wire[l] # <<>>, NEW x,
           link[l].up => x \in HostState /\ StaysConfirmed(x), ClientAnswer(l, x)
    PROVE  BrokerInv'
<1>1. ServerInv' /\ Advances
    BY Untouched DEF BrokerInv, ServerInv
<1>2. UNCHANGED <<record, adapter, resuming>>
    BY DEF Server
<1>3. \A k \in Links \ {l} : serving[k] = "reopening" => adapter'[resuming[k]] = "opening"
    BY <1>2 DEF BrokerInv, ServingGood, ServingOf
<1> QED BY <1>1, <1>2, <1>3, EndingStays, AnswerStep

LEMMA RefusedOnly ==
    ASSUME BrokerInv, UNCHANGED <<Server, outbox>>, NEW l \in Links, wire[l] # <<>>, Refused(l)
    PROVE  BrokerInv'
<1>1. Advances
    BY StandingStill
<1> QED BY <1>1, AnswersSelf, AnswerOnly DEF Refused

LEMMA ServeOpenStep ==
    ASSUME BrokerInv, NEW l \in Links, ServeOpen(l)
    PROVE  BrokerInv'
<1>0. wire[l] # <<>> /\ serving[l] = "idle" /\ outbox' = outbox
    BY DEF ServeOpen, Asked
<1>1. CASE Refused(l) /\ UNCHANGED Server
    BY <1>0, <1>1, RefusedOnly
<1>2. CASE ~(OpenBusy(Head(wire[l]).ref) \/ FreeRecords = {} \/ FreeAdapters = {})
    <2> DEFINE ref == Head(wire[l]).ref
               i == NextOf(FreeRecords)
               a == NextOf(FreeAdapters)
    <2>1. i \in FreeRecords /\ a \in FreeAdapters
        BY <1>2, NextOfIn
    <2>2. ref \in Known \cup {NoNative} /\ (ref # NoNative => writers[ref] = Nobody)
        BY <1>0, <1>2, HeadIsConfirmed DEF Confirmed, OpenBusy
    <2>3. /\ OpenGoesOn(l, i, a, ref)
          /\ serving' = [serving EXCEPT ![l] = "opening"] /\ UNCHANGED <<host, link, wire>>
        BY <1>2 DEF ServeOpen, OpenGoesOn, NewRecord
    <2>4. ServerInv' /\ Advances
        BY <2>1, <2>2, <2>3, OpenServer DEF BrokerInv, ServerInv
    <2>5. LinkShape'
        BY <1>0, <2>3 DEF BrokerInv, LinkShape, Steps
    <2>6. ConfirmedRefs'
        BY <2>3, <2>4, QuietRefs
    <2>7. /\ record'[i].step = "opening" /\ record'[i].link = l /\ record'[i].adapter = a
          /\ \A j \in Records : j # i => record'[j] = record[j]
          /\ i \in Records /\ record[i].step = "unused" /\ a \in Adapters /\ adapter[a] = "unused"
          /\ \A c \in Adapters : c # a => adapter'[c] = adapter[c]
        <3>1. ref \in Refs
            BY <2>2, BrokerConstants DEF Known, BrokerInv, ServerShape, Refs
        <3>2. i \in Records /\ record[i].step = "unused" /\ a \in Adapters /\ adapter[a] = "unused"
            BY <2>1 DEF FreeRecords, FreeAdapters
        <3>3. /\ record \in [Records -> RecordState]
              /\ adapter \in [Adapters -> AdapterSteps]
            BY DEF BrokerInv, ServerShape
        <3>4. /\ record' = [record EXCEPT ![i] = NewRecord(l, ref, a)]
              /\ adapter' = [adapter EXCEPT ![a] = "opening"]
            BY <2>3 DEF OpenGoesOn
        <3>5. /\ NewRecord(l, ref, a).step = "opening" /\ NewRecord(l, ref, a).link = l
              /\ NewRecord(l, ref, a).adapter = a
            BY <3>1, <3>2, NewRecordShape
        <3> HIDE DEF i, a, ref
        <3> QED BY <3>2, <3>3, <3>4, <3>5
    <2>8. serving'[l] = "opening" /\ \A k \in Links \ {l} : serving'[k] = serving[k]
        BY <2>3 DEF BrokerInv, LinkShape
    <2>9. ServingOf(l)'
        BY <2>7, <2>8 DEF ServingOf
    <2>10. resuming' = resuming
        BY <2>3 DEF OpenGoesOn
    <2>11. \A k \in Links \ {l} : serving[k] = "reopening" => adapter'[resuming[k]] = "opening"
        BY <2>7 DEF BrokerInv, ServingGood, ServingOf
    <2> HIDE DEF i, a, ref
    <2>12. ServingGood'
        <3>1. \A c \in Adapters : Ending(c) => Ending(c)'
            BY <2>7 DEF Ending
        <3> QED BY <2>3, <2>4, <2>7, <2>8, <2>9, <2>10, <2>11, <3>1, OthersServed
    <2> QED BY <2>4, <2>5, <2>6, <2>12 DEF BrokerInv, ServerInv
<1> QED BY <1>1, <1>2 DEF ServeOpen

LEMMA OpeningRecord ==
    ASSUME BrokerInv, NEW l \in Links, serving[l] = "opening"
    PROVE  Opening(l) \in Records /\ record[Opening(l)].step = "opening" /\ record[Opening(l)].link = l
<1>1. \E i \in Records : record[i].step = "opening" /\ record[i].link = l
    BY DEF BrokerInv, ServingGood, ServingOf
<1> QED BY <1>1 DEF Opening

\* No adapter Session a reopen opens is that of a record.
LEMMA ResumedIsApart ==
    ASSUME BrokerInv, NEW k \in Links, serving[k] = "reopening", NEW i \in Records,
           record[i].step \in {"opening", "live", "closing"}
    PROVE  /\ resuming[k] \in Adapters /\ adapter[resuming[k]] = "opening"
           /\ resuming[k] # record[i].adapter /\ record[i].adapter \in Adapters
BY DEF BrokerInv, ServingGood, ServingOf, RecordsGood, RecordGood

LEMMA ResumedIsOpening ==
    ASSUME BrokerInv, NEW k \in Links, serving[k] = "reopening"
    PROVE  resuming[k] \in Adapters /\ adapter[resuming[k]] = "opening"
BY DEF BrokerInv, ServingGood, ServingOf

\* What the end of an open does to the records and to what others open
LEMMA EndsOpen ==
    ASSUME BrokerInv, NEW l \in Links, serving[l] = "opening", NEW end \in {"leaving", "closed"}, OpenEnds(l, end),
           NEW ref \in Refs,
           writes' = writes \/ writes' = [writes EXCEPT ![record[Opening(l)].adapter] = ref],
           resuming' \in [Links -> Adapters \cup {0}]
    PROVE  /\ ServerInv' /\ Advances
           /\ record[Opening(l)].adapter \in Adapters /\ adapter'[record[Opening(l)].adapter] = end
           /\ \A k \in Links : serving[k] = "reopening" => /\ adapter'[resuming[k]] = "opening"
                                                           /\ resuming[k] # record[Opening(l)].adapter
           /\ \A c \in Adapters : Ending(c) => Ending(c)'
           /\ \A j \in Records : record[j].link # l => record'[j] = record[j]
           /\ \A j \in Records : record'[j].step = "opening" => record'[j] = record[j]
<1> DEFINE i == Opening(l)
<1>0. /\ i \in Records /\ record[i].step = "opening" /\ record[i].link = l
    BY OpeningRecord
<1>1. /\ adapter' = [adapter EXCEPT ![record[i].adapter] = end]
      /\ record' = [record EXCEPT ![i] = GoneRecord] /\ FreesWriter(i)
      /\ writes' = writes \/ writes' = [writes EXCEPT ![record[i].adapter] = ref]
      /\ UNCHANGED outbox
    BY DEF OpenEnds, GoneRecord
<1> HIDE DEF i
<1>2. ServerInv' /\ Advances
    BY <1>0, <1>1, EndServer DEF BrokerInv, ServerInv
<1>a. record[i].adapter \in Adapters /\ adapter[record[i].adapter] = "opening"
    BY <1>0 DEF BrokerInv, RecordsGood, RecordGood
<1>3. /\ record'[i] = GoneRecord /\ \A j \in Records : j # i => record'[j] = record[j]
      /\ \A c \in Adapters : c # record[i].adapter => adapter'[c] = adapter[c]
      /\ adapter'[record[i].adapter] = end
    BY <1>0, <1>1, <1>a DEF BrokerInv, ServerShape
<1>4. \A k \in Links : serving[k] = "reopening" => /\ adapter'[resuming[k]] = "opening"
                                                   /\ resuming[k] # record[i].adapter
    BY <1>0, <1>3, ResumedIsApart
<1>5. \A j \in Records : record'[j].step = "opening" => record'[j] = record[j]
    BY <1>3, GoneShape
<1>6. \A c \in Adapters : Ending(c) => Ending(c)'
    BY <1>3, <1>a DEF Ending
<1>7. \A j \in Records : record[j].link # l => record'[j] = record[j]
    BY <1>0, <1>3
<1> QED BY <1>2, <1>a, <1>3, <1>4, <1>5, <1>6, <1>7 DEF i

LEMMA FailsStep ==
    ASSUME BrokerInv, NEW l \in Links, OpenFails(l)
    PROVE  BrokerInv'
<1>1. /\ serving[l] = "opening" /\ OpenEnds(l, "closed") /\ Refused(l) /\ UNCHANGED <<resuming, writes>>
      /\ wire[l] # <<>> /\ resuming' \in [Links -> Adapters \cup {0}] /\ NoNative \in Refs
    BY DEF OpenFails, BrokerInv, LinkShape, ServerShape, Refs
<1>2. /\ ServerInv' /\ Advances
      /\ \A k \in Links : serving[k] = "reopening" => adapter'[resuming[k]] = "opening"
      /\ \A c \in Adapters : Ending(c) => Ending(c)'
      /\ \A j \in Records : record[j].link # l => record'[j] = record[j]
      /\ \A j \in Records : record'[j].step = "opening" => record'[j] = record[j]
    BY <1>1, EndsOpen
<1> QED BY <1>1, <1>2, AnswersSelf, AnswerStep DEF Refused

LEMMA GivesUpStep ==
    ASSUME BrokerInv, NEW l \in Links, OpenGivesUp(l)
    PROVE  BrokerInv'
<1> DEFINE a == record[Opening(l)].adapter
<1>1. PICK ref \in Known \cup FreshNatives \cup {NoNative} : writes' = [writes EXCEPT ![a] = ref]
    BY DEF OpenGivesUp
<1>2. /\ serving[l] = "opening" /\ OpenEnds(l, "leaving") /\ UNCHANGED <<host, link, wire>>
      /\ resuming' = [resuming EXCEPT ![l] = a] /\ serving' = [serving EXCEPT ![l] = "givingUp"]
    BY DEF OpenGivesUp
<1>3. a \in Adapters
    <2>1. Opening(l) \in Records /\ record[Opening(l)].step = "opening"
        BY <1>2, OpeningRecord
    <2> QED BY <2>1 DEF BrokerInv, RecordsGood, RecordGood
<1> HIDE DEF a
<1>4. /\ resuming' \in [Links -> Adapters \cup {0}] /\ resuming'[l] = a
      /\ \A k \in Links \ {l} : resuming'[k] = resuming[k]
    BY <1>2, <1>3 DEF BrokerInv, ServerShape
<1>5. ref \in Refs
    BY <1>1, BrokerConstants DEF Known, FreshNatives, BrokerInv, ServerShape, Refs
<1>6. /\ ServerInv' /\ Advances /\ adapter'[a] = "leaving"
      /\ \A k \in Links : serving[k] = "reopening" => adapter'[resuming[k]] = "opening"
      /\ \A c \in Adapters : Ending(c) => Ending(c)'
      /\ \A j \in Records : record[j].link # l => record'[j] = record[j]
      /\ \A j \in Records : record'[j].step = "opening" => record'[j] = record[j]
    BY <1>1, <1>2, <1>4, <1>5, EndsOpen DEF a
<1>7. LinkShape'
    BY <1>2 DEF BrokerInv, LinkShape, Steps
<1>8. ConfirmedRefs'
    BY <1>2, <1>6, QuietRefs
<1>9. serving'[l] = "givingUp" /\ \A k \in Links \ {l} : serving'[k] = serving[k]
    BY <1>2 DEF BrokerInv, LinkShape
<1>10. ServingOf(l)'
    BY <1>3, <1>4, <1>6, <1>9 DEF ServingOf, Ending
<1>11. ServingGood'
    BY <1>2, <1>4, <1>6, <1>9, <1>10, OthersServed
<1> QED BY <1>6, <1>7, <1>8, <1>11 DEF BrokerInv, ServerInv

\* The old adapter Session closes, and a new one may be on its way.
LEMMA ShutServer ==
    ASSUME ServerInv, adapter' \in [Adapters -> AdapterSteps],
           \A c \in Adapters : \/ adapter'[c] = adapter[c]
                               \/ adapter[c] \in {"open", "closed"} /\ adapter'[c] = "closed"
                               \/ adapter[c] = "unused" /\ adapter'[c] = "opening",
           resuming' \in [Links -> Adapters \cup {0}],
           UNCHANGED <<record, writes, writers, claim, outbox>>
    PROVE  ServerInv' /\ Advances /\ \A c \in Adapters : Ending(c) => Ending(c)'
<1>1. Known' = Known /\ Holding' = Holding
    BY DEF Known, Holding
<1>3. ASSUME NEW j \in Records PROVE RecordGood(j)'
    <2>1. RecordGood(j)
        BY DEF ServerInv, RecordsGood
    <2> QED BY <1>1, <2>1 DEF RecordGood, Reserved
<1>4. RecordsGood'
    BY <1>1, <1>3 DEF ServerInv, RecordsGood
<1>5. Owned'
    <2>1. ASSUME NEW c \in Adapters, adapter'[c] \in {"unused", "opening"} PROVE writes'[c] = NoNative
        BY <2>1 DEF ServerInv, Owned
    <2>2. \A j \in Records : Held(j)' = Held(j) /\ WrittenBy(j)' = WrittenBy(j)
        BY DEF Held, WrittenBy
    <2> QED BY <2>1, <2>2 DEF ServerInv, Owned
<1>6. ServerShape'
    BY DEF ServerInv, ServerShape
<1>7. Advances
    BY <1>1 DEF Advances
<1>8. \A c \in Adapters : Ending(c) => Ending(c)'
    BY DEF Ending
<1> QED BY <1>4, <1>5, <1>6, <1>7, <1>8 DEF ServerInv

\* What no record names may close or begin to write, and nothing else sees it.
LEMMA LooseServer ==
    ASSUME BrokerInv, NEW c \in Adapters, NEW end \in {"open", "closed"},
           \A i \in Records : record[i].step \in {"opening", "live", "closing"} => record[i].adapter # c,
           adapter' = [adapter EXCEPT ![c] = end], NEW ref \in Refs,
           writes' = writes \/ (writes[c] = NoNative /\ writes' = [writes EXCEPT ![c] = ref]),
           resuming' \in [Links -> Adapters \cup {0}], UNCHANGED <<record, writers, claim, outbox>>
    PROVE  ServerInv' /\ Advances
<1>1. /\ adapter' \in [Adapters -> AdapterSteps] /\ writes' \in [Adapters -> Refs]
      /\ \A b \in Adapters \ {c} : adapter'[b] = adapter[b] /\ writes'[b] = writes[b]
      /\ adapter'[c] = end /\ (writes[c] # NoNative => writes'[c] = writes[c])
    BY DEF BrokerInv, ServerShape, AdapterSteps
<1>2. Known \subseteq Known' /\ Holding' = Holding
    <2>1. \A b \in Adapters : writes[b] # NoNative => writes'[b] = writes[b]
        BY <1>1
    <2> QED BY <2>1, KnownGrows DEF Holding
<1>3. ServerShape'
    BY <1>1 DEF BrokerInv, ServerShape
<1>4. ASSUME NEW j \in Records, record[j].step \in {"opening", "live", "closing"}
      PROVE  /\ record[j].adapter \in Adapters /\ adapter'[record[j].adapter] = adapter[record[j].adapter]
             /\ writes'[record[j].adapter] = writes[record[j].adapter]
    <2>1. record[j].adapter \in Adapters
        BY <1>4 DEF BrokerInv, RecordsGood, RecordGood
    <2> QED BY <2>1, <1>1, <1>4
<1>5. ASSUME NEW j \in Records PROVE RecordGood(j)'
    <2>1. RecordGood(j)
        BY DEF BrokerInv, RecordsGood
    <2> QED BY <1>2, <1>4, <2>1 DEF RecordGood, Reserved
<1>6. RecordsGood'
    BY <1>2, <1>5 DEF BrokerInv, RecordsGood
<1>7. Owned'
    <2>1. \A j \in Records : Held(j)' => Held(j) /\ WrittenBy(j)' = WrittenBy(j)
        BY <1>4 DEF Held, WrittenBy
    <2>2. \A b \in Adapters : adapter'[b] \in {"unused", "opening"} => writes'[b] = NoNative
        BY <1>1 DEF BrokerInv, Owned
    <2> QED BY <2>1, <2>2 DEF BrokerInv, Owned
<1>8. Advances
    BY <1>2 DEF Advances
<1> QED BY <1>3, <1>6, <1>7, <1>8 DEF ServerInv

LEMMA GivenUpStep ==
    ASSUME BrokerInv, NEW l \in Links, GivenUpCloses(l)
    PROVE  BrokerInv'
<1> DEFINE c == resuming[l]
<1>1. /\ serving[l] = "givingUp" /\ Refused(l) /\ UNCHANGED <<record, writes, writers, claim, outbox>>
      /\ adapter' = [adapter EXCEPT ![c] = "closed"] /\ resuming' = [resuming EXCEPT ![l] = 0]
    BY DEF GivenUpCloses
<1>2. wire[l] # <<>> /\ c \in Adapters /\ Ending(c)
    BY <1>1 DEF BrokerInv, LinkShape, ServingGood, ServingOf
<1> HIDE DEF c
<1>3. /\ resuming' \in [Links -> Adapters \cup {0}] /\ NoNative \in Refs
      /\ \A k \in Links \ {l} : resuming'[k] = resuming[k]
    BY <1>1 DEF BrokerInv, ServerShape, Refs
<1>4. \A b \in Adapters : adapter'[b] = IF b = c THEN "closed" ELSE adapter[b]
    BY <1>1, <1>2 DEF BrokerInv, ServerShape
<1>6. ServerInv' /\ Advances
    <2>1. CASE adapter[c] = "leaving"
        <3>1. \A i \in Records : record[i].step \in {"opening", "live", "closing"} => record[i].adapter # c
            BY <2>1 DEF BrokerInv, RecordsGood, RecordGood
        <3> QED BY <1>1, <1>2, <1>3, <3>1, LooseServer
    <2>2. CASE adapter[c] = "closed"
        <3>1. \A b \in Adapters : adapter'[b] = adapter[b]
            BY <2>2, <1>4
        <3>2. adapter' \in [Adapters -> AdapterSteps]
            BY <1>1 DEF BrokerInv, ServerShape, AdapterSteps
        <3> QED BY <1>1, <1>3, <3>1, <3>2, ShutServer DEF BrokerInv, ServerInv
    <2> QED BY <1>2, <2>1, <2>2 DEF Ending
<1>7. \A k \in Links : serving[k] = "reopening" => adapter'[resuming[k]] = "opening"
    BY <1>2, <1>4, ResumedIsOpening DEF Ending
<1>8. \A b \in Adapters : Ending(b) => Ending(b)'
    BY <1>4 DEF Ending
<1> QED BY <1>1, <1>2, <1>3, <1>6, <1>7, <1>8, AnswersSelf, AnswerStep DEF Refused

\* What a Host is told of a Session that was opened
Readied(x, i, ref) == [x EXCEPT !.at = "ready", !.rec = i, !.gen = 1, !.ref = ref, !.faulted = FALSE]
LEMMA ReadiedShape ==
    ASSUME NEW x \in HostState, NEW i \in Records, NEW ref \in Refs
    PROVE  Readied(x, i, ref) \in HostState /\ Readied(x, i, ref).rec = i /\ Readied(x, i, ref).ref = ref
<1>1. i \in 0..MaxRecords /\ 1 \in Nat
    BY BrokerConstants DEF Records
<1> QED BY <1>1 DEF HostState, HostFields, Readied

LEMMA ReturnsStep ==
    ASSUME BrokerInv, NEW l \in Links, OpenReturns(l)
    PROVE  BrokerInv'
<1> DEFINE i == Opening(l)
           a == record[i].adapter
<1>0. /\ i \in Records /\ record[i].step = "opening" /\ record[i].link = l
      /\ wire[l] # <<>>
    BY OpeningRecord DEF OpenReturns, BrokerInv, LinkShape
<1>1. PICK ref \in (IF record[i].ref # NoNative THEN {record[i].ref} ELSE FreshNatives \union {NoNative}) :
        /\ adapter' = [adapter EXCEPT ![a] = "open"]
        /\ writes' = [writes EXCEPT ![a] = ref]
        /\ record' = [record EXCEPT ![i].step = "live", ![i].ref = ref, ![i].awaiting = (ref = NoNative)]
        /\ writers' = [n \in Natives |-> IF n = ref THEN i ELSE writers[n]]
        /\ claim' = IF ref # NoNative /\ claim = i THEN Nobody ELSE claim
        /\ ClientAnswer(l, [host[link[l].of] EXCEPT !.at = "ready", !.rec = i, !.gen = 1,
                                             !.ref = ref, !.faulted = FALSE])
    BY DEF OpenReturns
<1>2. resuming' = resuming /\ outbox' = outbox
    BY DEF OpenReturns
<1> HIDE DEF i
<1>3. RecordGood(i) /\ record[i] \in RecordState /\ record \in [Records -> RecordState]
    BY <1>0 DEF BrokerInv, RecordsGood, ServerShape
<1>4. ref \in Refs /\ record[i].ref \in {NoNative, ref} /\ ref \notin Known \ {record[i].ref}
    BY <1>1, <1>3 DEF RecordState, Refs, FreshNatives
<1>5. a \in Adapters /\ adapter[a] = "opening" /\ writes[a] = NoNative
    BY <1>0, <1>3 DEF RecordGood, BrokerInv, Owned
<1>6. PICK f \in BOOLEAN : f = (ref = NoNative)
    OBVIOUS
<1>7. record' = [record EXCEPT ![i] = Relinked(record[i], ref, f)]
    BY <1>1, <1>6, Zenon DEF Relinked
<1>8. /\ Relinked(record[i], ref, f) \in RecordState
      /\ Relinked(record[i], ref, f).step = "live" /\ Relinked(record[i], ref, f).ref = ref
      /\ Relinked(record[i], ref, f).adapter = record[i].adapter
      /\ Relinked(record[i], ref, f).link = record[i].link
      /\ Relinked(record[i], ref, f).awaiting => f
    BY <1>3, <1>4, RelinkedShape
<1>9. /\ record' \in [Records -> RecordState] /\ \A j \in Records : j # i => record'[j] = record[j]
      /\ record'[i].step = "live" /\ record'[i].ref = ref /\ record'[i].adapter = a
      /\ record'[i].link = l
      /\ record'[i].awaiting => ref = NoNative
    BY <1>0, <1>3, <1>6, <1>7, <1>8
<1> HIDE DEF a
<1>10. Writing(i, a, ref)
    BY <1>1, <1>9 DEF Writing
<1>11. \A j \in Records \ {i} : record[j].step \in {"opening", "live", "closing"} => record[j].adapter # a
    BY <1>0 DEF a, BrokerInv, RecordsGood, Holding
<1>12. \A n \in Natives : writers'[n] = IF n = ref THEN i ELSE writers[n]
    BY <1>1
<1>13. RecordsGood' /\ Owned' /\ Advances
    <2>1. record[i].adapter = a
        BY DEF a
    <2> QED BY <1>0, <1>4, <1>5, <1>10, <1>11, <1>12, <2>1, WritingServer DEF BrokerInv, ServerInv
<1>14. ServerShape'
    <2>1. writers' \in [Natives -> Records \cup {Nobody}] /\ claim' \in Records \cup {Nobody}
        BY <1>0, <1>1 DEF BrokerInv, ServerShape
    <2>2. adapter' \in [Adapters -> AdapterSteps] /\ writes' \in [Adapters -> Refs]
        BY <1>1, <1>4 DEF BrokerInv, ServerShape, AdapterSteps
    <2> QED BY <1>2, <1>9, <2>1, <2>2 DEF BrokerInv, ServerShape
<1>15. \A c \in Adapters : c # a => adapter'[c] = adapter[c]
    BY <1>1 DEF BrokerInv, ServerShape
<1>16. \A k \in Links : serving[k] = "reopening" => adapter'[resuming[k]] = "opening"
    BY <1>0, <1>15, ResumedIsApart DEF a
<1>17. \A c \in Adapters : Ending(c) => Ending(c)'
    BY <1>5, <1>15 DEF Ending
<1>18. \A j \in Records : record'[j].step = "opening" =>
         record[j].step = "opening" /\ record'[j].adapter = record[j].adapter
    BY <1>9
<1>19. \A j \in Records : record[j].link # l => record'[j] = record[j]
    BY <1>0, <1>9
<1> DEFINE x == Readied(host[link[l].of], i, ref)
<1>20. ClientAnswer(l, x)
    BY <1>1 DEF Readied
<1>21. link[l].up => x \in HostState /\ StaysConfirmed(x)
    <2>1. link[l].up => host[link[l].of] \in HostState
        BY DEF BrokerInv, LinkShape
    <2>2. link[l].up => x \in HostState /\ x.rec = i /\ x.ref = ref
        BY <1>0, <1>4, <2>1, ReadiedShape
    <2>3. ref \in Known' \cup {NoNative}
        BY <1>9, <1>0, <1>13 DEF RecordsGood, RecordGood, Reserved
    <2> HIDE DEF x
    <2> QED BY <2>2, <2>3, <1>9 DEF StaysConfirmed
<1> HIDE DEF x
<1> QED BY <1>0, <1>2, <1>13, <1>14, <1>16, <1>17, <1>18, <1>19, <1>20, <1>21, AnswerStep DEF ServerInv

LEMMA ServeTurnStep ==
    ASSUME BrokerInv, NEW l \in Links, ServeTurn(l)
    PROVE  BrokerInv'
<1>1. /\ wire[l] # <<>> /\ Refused(l) /\ UNCHANGED <<adapter, resuming, writes, writers, claim, outbox>>
      /\ record' = [i \in Records |->
            IF i \in Mine(l) /\ record[i].awaiting THEN [record[i] EXCEPT !.boot = TRUE] ELSE record[i]]
    BY DEF ServeTurn, Asked
<1>2. Mine(l) \in SUBSET Records
    BY DEF Mine
<1>3. ServerInv' /\ Advances
    BY <1>1, <1>2, TurnServer DEF BrokerInv, ServerInv
<1>4. ASSUME NEW i \in Records
      PROVE  /\ record'[i].step = record[i].step /\ record'[i].link = record[i].link
             /\ record'[i].adapter = record[i].adapter
    <2>1. record[i] \in RecordState
        BY DEF BrokerInv, ServerShape
    <2> QED BY <1>1, <2>1 DEF RecordState
<1>5. \A k \in Links : serving[k] = "reopening" => adapter'[resuming[k]] = "opening"
    BY <1>1 DEF BrokerInv, ServingGood, ServingOf
<1> QED BY <1>1, <1>3, <1>4, <1>5, EndingStays, AnswersSelf, AnswerStep DEF Refused

LEMMA ServeCloseStep ==
    ASSUME BrokerInv, NEW l \in Links, ServeClose(l)
    PROVE  BrokerInv'
<1>0. record = [i \in Records |-> record[i]] /\ outbox \in [Records -> SUBSET {"ref", "fault"}]
    BY DEF BrokerInv, ServerShape
<1>1. /\ wire[l] # <<>> /\ Refused(l) /\ UNCHANGED <<adapter, resuming, writes, writers, claim>>
      /\ record' = [i \in Records |-> IF i \in Mine(l) THEN RecordClosed(i) ELSE record[i]]
      /\ outbox' \in [Records -> SUBSET {"ref", "fault"}]
    BY <1>0 DEF ServeClose, Asked
<1>2. Mine(l) \in SUBSET Records /\ \A i \in Mine(l) : record[i].step = "live" /\ record[i].link = l
    BY DEF Mine
<1>3. ServerInv' /\ Advances
    BY <1>1, <1>2, ClosingServer DEF BrokerInv, ServerInv
<1>4. \A i \in Records : record[i].link # l => record'[i] = record[i]
    BY <1>1, <1>2
<1>5. \A i \in Records : record'[i].step = "opening" => record'[i] = record[i]
    <2>1. \A i \in Records : RecordClosed(i).step = "closing"
        BY ClosedRecordShape DEF BrokerInv, ServerShape
    <2> QED BY <1>1, <2>1
<1>6. \A k \in Links : serving[k] = "reopening" => adapter'[resuming[k]] = "opening"
    BY <1>1 DEF BrokerInv, ServingGood, ServingOf
<1> QED BY <1>1, <1>3, <1>4, <1>5, <1>6, EndingStays, AnswersSelf, AnswerStep DEF Refused

\* What a Host is told of a Session that was reopened
Mended(x, gen) == [x EXCEPT !.faulted = FALSE, !.gen = gen]
LEMMA MendedShape ==
    ASSUME NEW x \in HostState, NEW gen \in Nat, StaysConfirmed(x)
    PROVE  Mended(x, gen) \in HostState /\ StaysConfirmed(Mended(x, gen))
<1>1. /\ Mended(x, gen) \in HostState /\ Mended(x, gen).rec = x.rec /\ Mended(x, gen).ref = x.ref
    BY DEF HostState, HostFields, Mended
<1> QED BY <1>1 DEF StaysConfirmed

LEMMA ServeReopenStep ==
    ASSUME BrokerInv, NEW l \in Links, ServeReopen(l)
    PROVE  BrokerInv'
<1>0. wire[l] # <<>> /\ serving[l] = "idle" /\ UNCHANGED <<Server, outbox>> /\ Head(wire[l]).op = "reopen"
    BY DEF ServeReopen, Asked
<1>a. ServerInv' /\ Advances
    BY <1>0, Untouched DEF BrokerInv, ServerInv
<1>1. CASE Refused(l)
    BY <1>0, <1>1, RefusedOnly
<1>2. ASSUME NEW i \in Mine(l),
             ClientAnswer(l, [host[link[l].of] EXCEPT !.faulted = FALSE, !.gen = record[i].gen])
      PROVE  BrokerInv'
    <2> DEFINE x == Mended(host[link[l].of], record[i].gen)
    <2>1. record[i].gen \in Nat
        BY DEF Mine, BrokerInv, ServerShape, RecordState
    <2>2. link[l].up => x \in HostState /\ StaysConfirmed(x)
        BY <2>1, <1>a, AnswersSelf, MendedShape
    <2>3. ClientAnswer(l, x)
        BY <1>2 DEF Mended
    <2> HIDE DEF x
    <2> QED BY <1>0, <2>2, <2>3, AnswerOnly
<1>3. ASSUME NEW i \in Mine(l), record[i].ref # NoNative,
             serving' = [serving EXCEPT ![l] = "closingOld"], UNCHANGED <<host, link, wire>>
      PROVE  BrokerInv'
    <2>1. LinkShape'
        BY <1>0, <1>3 DEF BrokerInv, LinkShape, Steps
    <2>2. ConfirmedRefs'
        BY <1>3, <1>a, QuietRefs
    <2>3. serving'[l] = "closingOld" /\ \A k \in Links \ {l} : serving'[k] = serving[k]
        BY <1>3 DEF BrokerInv, LinkShape
    <2>4. ServingOf(l)'
        <3>1. /\ Head(wire[l]).rec = i /\ i # 0 /\ record[i].step = "live" /\ record[i].link = l
            BY BrokerConstants DEF Mine, Records
        <3>2. Head(wire[l]).ref # NoNative
            BY <1>0, HeadIsConfirmed
        <3>3. Reopens(l)'
            BY <1>0, <1>3, <3>1, <3>2 DEF Reopens, Server
        <3> QED BY <2>3, <3>3 DEF ServingOf
    <2>5. UNCHANGED <<record, adapter, resuming>>
        BY <1>0 DEF Server
    <2>6. \A k \in Links : serving[k] = "reopening" => adapter'[resuming[k]] = "opening"
        BY <2>5 DEF BrokerInv, ServingGood, ServingOf
    <2>7. ServingGood'
        BY <1>3, <1>a, <2>3, <2>4, <2>5, <2>6, EndingStays, OthersServed
    <2> QED BY <1>a, <2>1, <2>2, <2>7 DEF BrokerInv, ServerInv
<1> QED BY <1>1, <1>2, <1>3 DEF ServeReopen

\* What a reopen closes was open or closed, or its record has closed it already.
LEMMA ReopenedIsHeld ==
    ASSUME BrokerInv, NEW l \in Links, serving[l] \in {"closingOld", "reopening"}
    PROVE  /\ wire[l] # <<>> /\ Head(wire[l]) \in Requests /\ Confirmed(Head(wire[l]))
           /\ Head(wire[l]).rec \in Records /\ Reopens(l)
           /\ record[Head(wire[l]).rec].step \in {"live", "closing", "gone"}
           /\ \/ /\ record[Head(wire[l]).rec].adapter \in Adapters
                 /\ adapter[record[Head(wire[l]).rec].adapter] \in {"open", "closed"}
              \/ record[Head(wire[l]).rec].adapter \notin Adapters
<1>1. wire[l] # <<>> /\ Reopens(l)
    BY DEF BrokerInv, LinkShape, ServingGood, ServingOf
<1>2. Head(wire[l]) \in Requests /\ Confirmed(Head(wire[l]))
    BY <1>1, HeadIsConfirmed
<1>3. Head(wire[l]).rec \in Records
    BY <1>1, <1>2, BrokerConstants DEF Reopens, Requests, Records
<1> DEFINE i == Head(wire[l]).rec
<1>4. RecordGood(i) /\ record[i] \in RecordState /\ i \in Records /\ record[i].step \notin {"unused", "opening"}
    BY <1>1, <1>3 DEF BrokerInv, RecordsGood, ServerShape, Reopens
<1> HIDE DEF i
<1>5. /\ record[i].step \in {"live", "closing", "gone"}
      /\ \/ record[i].adapter \in Adapters /\ adapter[record[i].adapter] \in {"open", "closed"}
         \/ record[i].adapter \notin Adapters
    BY <1>4 DEF RecordGood, RecordState, Adapters
<1> QED BY <1>1, <1>2, <1>3, <1>5 DEF i

LEMMA ReopenClosesStep ==
    ASSUME BrokerInv, NEW l \in Links, ReopenCloses(l)
    PROVE  BrokerInv'
<1> DEFINE i == Head(wire[l]).rec
           c == record[i].adapter
<1>0. /\ wire[l] # <<>> /\ serving[l] = "closingOld" /\ Reopens(l)
      /\ UNCHANGED <<record, writes, writers, claim, outbox>>
      /\ (c \in Adapters /\ adapter[c] \in {"open", "closed"}) \/ c \notin Adapters
    <2>1. serving[l] = "closingOld" /\ UNCHANGED <<record, writes, writers, claim, outbox>>
        BY DEF ReopenCloses
    <2> QED BY <2>1, ReopenedIsHeld
<1>3. /\ adapter \in [Adapters -> AdapterSteps]
      /\ resuming \in [Links -> Adapters \cup {0}] /\ ServerInv
    BY DEF BrokerInv, ServerShape, ServerInv
<1>4. CASE /\ adapter' = [adapter EXCEPT ![c] = "closed"]
           /\ Refused(l) /\ UNCHANGED resuming
    <2> HIDE DEF i, c
    <2>1. /\ adapter' \in [Adapters -> AdapterSteps]
          /\ \A d \in Adapters : \/ adapter'[d] = adapter[d]
                                 \/ adapter[d] \in {"open", "closed"} /\ adapter'[d] = "closed"
        <3>1. CASE c \in Adapters
            BY <3>1, <1>0, <1>3, <1>4 DEF AdapterSteps
        <3>2. CASE c \notin Adapters
            BY <3>2, <1>3, <1>4
        <3> QED BY <3>1, <3>2
    <2>2. ServerInv' /\ Advances /\ \A d \in Adapters : Ending(d) => Ending(d)'
        <3>1. /\ resuming' \in [Links -> Adapters \cup {0}]
              /\ UNCHANGED <<record, writes, writers, claim, outbox>>
            BY <1>0, <1>3, <1>4
        <3> QED BY <1>3, <2>1, <3>1, ShutServer
    <2>3. \A k \in Links : serving[k] = "reopening" => adapter'[resuming[k]] = "opening"
        BY <2>1, ResumedIsOpening
    <2>4. record' = record
        BY <1>0
    <2> QED BY <1>0, <1>4, <2>2, <2>3, <2>4, AnswersSelf, AnswerStep DEF Refused
<1>5. CASE /\ FreeAdapters # {}
           /\ adapter' = [adapter EXCEPT ![c] = "closed", ![NextOf(FreeAdapters)] = "opening"]
           /\ resuming' = [resuming EXCEPT ![l] = NextOf(FreeAdapters)]
           /\ serving' = [serving EXCEPT ![l] = "reopening"] /\ UNCHANGED <<host, link, wire>>
    <2> DEFINE b == NextOf(FreeAdapters)
    <2>1. b \in Adapters /\ adapter[b] = "unused"
        BY <1>5, NextOfIn DEF FreeAdapters
    <2> HIDE DEF i, b, c
    <2>2. /\ adapter' = [adapter EXCEPT ![c] = "closed", ![b] = "opening"]
          /\ resuming' = [resuming EXCEPT ![l] = b]
        BY <1>5 DEF b
    <2>3. /\ adapter' \in [Adapters -> AdapterSteps] /\ adapter'[b] = "opening"
          /\ \A d \in Adapters : \/ adapter'[d] = adapter[d]
                                 \/ adapter[d] \in {"open", "closed"} /\ adapter'[d] = "closed"
                                 \/ adapter[d] = "unused" /\ adapter'[d] = "opening"
        <3>1. b # c
            BY <1>0, <2>1
        <3>2. /\ adapter' \in [Adapters -> AdapterSteps] /\ adapter'[b] = "opening"
              /\ c \in Adapters => adapter'[c] = "closed"
              /\ \A d \in Adapters \ {b, c} : adapter'[d] = adapter[d]
            BY <1>3, <2>1, <2>2, <3>1 DEF AdapterSteps
        <3>3. ASSUME NEW d \in Adapters
              PROVE  \/ adapter'[d] = adapter[d]
                     \/ adapter[d] \in {"open", "closed"} /\ adapter'[d] = "closed"
                     \/ adapter[d] = "unused" /\ adapter'[d] = "opening"
            <4>1. CASE d = b
                BY <4>1, <2>1, <3>2
            <4>2. CASE d = c
                BY <4>2, <1>0, <3>2
            <4> QED BY <4>1, <4>2, <3>2
        <3> QED BY <3>2, <3>3
    <2>4. /\ resuming' \in [Links -> Adapters \cup {0}] /\ resuming'[l] = b
          /\ \A k \in Links \ {l} : resuming'[k] = resuming[k]
        BY <1>3, <2>1, <2>2
    <2>5. ServerInv' /\ Advances /\ \A d \in Adapters : Ending(d) => Ending(d)'
        BY <1>0, <1>3, <2>3, <2>4, ShutServer
    <2>6. LinkShape'
        BY <1>0, <1>5 DEF BrokerInv, LinkShape, Steps
    <2>7. ConfirmedRefs'
        BY <1>5, <2>5, QuietRefs
    <2>8. serving'[l] = "reopening" /\ \A k \in Links \ {l} : serving'[k] = serving[k]
        BY <1>5 DEF BrokerInv, LinkShape
    <2>9. ASSUME NEW k \in Links, serving[k] = "reopening"
          PROVE  adapter'[resuming[k]] = "opening" /\ resuming[k] # b
        BY <2>1, <2>3, <2>9, ResumedIsOpening
    <2>10. ServingOf(l)'
        <3>1. Reopens(l)'
            BY <1>0, <1>5 DEF Reopens
        <3>2. \A j \in Records : record[j].step = "opening" => record[j].adapter # b
            BY <2>1 DEF BrokerInv, RecordsGood, RecordGood
        <3> QED BY <1>0, <2>1, <2>3, <2>4, <2>8, <3>1, <3>2 DEF ServingOf
    <2>12. ServingGood'
        <3>1. \A k \in Links \ {l} : /\ serving'[k] = serving[k] /\ resuming'[k] = resuming[k]
                                     /\ serving[k] # "idle" => Head(wire'[k]) = Head(wire[k])
                                     /\ serving[k] = "reopening" => adapter'[resuming[k]] = "opening"
            BY <1>5, <2>4, <2>8, <2>9
        <3>2. \A k \in Links \ {l} : serving[k] = "reopening" => resuming[k] # resuming'[l]
            BY <2>4, <2>9
        <3>3. record' = record
            BY <1>0
        <3> QED BY <2>5, <2>10, <3>1, <3>2, <3>3, OthersServed
    <2> QED BY <2>5, <2>6, <2>7, <2>12 DEF BrokerInv, ServerInv
<1> QED BY <1>4, <1>5 DEF ReopenCloses

Reopened(r, a, g) == [r EXCEPT !.adapter = a, !.gen = g, !.faulted = FALSE]
LEMMA ReopenedShape ==
    ASSUME NEW r \in RecordState, NEW a \in Adapters, NEW g \in Nat
    PROVE  /\ Reopened(r, a, g) \in RecordState
           /\ Reopened(r, a, g).step = r.step /\ Reopened(r, a, g).ref = r.ref
           /\ Reopened(r, a, g).adapter = a /\ Reopened(r, a, g).link = r.link
           /\ Reopened(r, a, g).awaiting => r.awaiting
<1>1. a \in 0..MaxAdapters
    BY BrokerConstants DEF Adapters
<1> QED BY <1>1 DEF RecordState, Reopened

LEMMA ReopenReturnsStep ==
    ASSUME BrokerInv, NEW l \in Links, ReopenReturns(l)
    PROVE  BrokerInv'
<1> DEFINE i == Head(wire[l]).rec
           b == resuming[l]
           ref == Head(wire[l]).ref
           gen == Head(wire[l]).gen + 1
<1>0. /\ wire[l] # <<>> /\ serving[l] = "reopening" /\ i \in Records /\ Reopens(l)
      /\ gen \in Nat /\ ref \in Refs /\ Confirmed(Head(wire[l]))
    <2>1. serving[l] = "reopening"
        BY DEF ReopenReturns
    <2> QED BY <2>1, ReopenedIsHeld DEF Requests
<1>2. /\ b \in Adapters /\ adapter[b] = "opening"
      /\ \A j \in Records : record[j].step \in {"opening", "live", "closing"} => record[j].adapter # b
    BY <1>0, ResumedIsApart, ResumedIsOpening
<1>3. writes[b] = NoNative
    BY <1>2 DEF BrokerInv, Owned
<1>4. \A k \in Links \ {l} : resuming'[k] = resuming[k] /\ (serving[k] = "reopening" => resuming[k] # b)
    BY <1>0 DEF ReopenReturns, BrokerInv, ServerShape, ServingGood
<1>5. /\ resuming' \in [Links -> Adapters \cup {0}] /\ UNCHANGED <<writers, claim, outbox>>
    BY DEF ReopenReturns, BrokerInv, ServerShape
<1>a. ASSUME NEW end \in {"open", "closed"}, adapter' = [adapter EXCEPT ![b] = end]
      PROVE  /\ adapter' \in [Adapters -> AdapterSteps] /\ adapter'[b] = end
             /\ \A d \in Adapters \ {b} : adapter'[d] = adapter[d]
             /\ \A k \in Links \ {l} : serving[k] = "reopening" => adapter'[resuming[k]] = "opening"
             /\ \A d \in Adapters : Ending(d) => Ending(d)'
    <2>1. /\ adapter' \in [Adapters -> AdapterSteps] /\ adapter'[b] = end
          /\ \A d \in Adapters \ {b} : adapter'[d] = adapter[d]
        BY <1>2, <1>a DEF BrokerInv, ServerShape, AdapterSteps
    <2>2. \A k \in Links \ {l} : serving[k] = "reopening" => adapter'[resuming[k]] = "opening"
        BY <1>4, <2>1, ResumedIsOpening
    <2> QED BY <2>1, <2>2, <1>2 DEF Ending
<1>6. CASE /\ adapter' = [adapter EXCEPT ![b] = "closed"] /\ Refused(l) /\ UNCHANGED <<record, writes>>
    <2> HIDE DEF i, b, ref, gen
    <2>1. ServerInv' /\ Advances
        BY <1>0, <1>2, <1>5, <1>6, LooseServer
    <2>2. /\ \A k \in Links \ {l} : serving[k] = "reopening" => adapter'[resuming[k]] = "opening"
          /\ \A d \in Adapters : Ending(d) => Ending(d)'
        BY <1>6, <1>a
    <2> QED BY <1>0, <1>4, <1>6, <2>1, <2>2, AnswersSelf, AnswerStep DEF Refused
<1>7. CASE /\ adapter' = [adapter EXCEPT ![b] = "open"]
           /\ writes' = [writes EXCEPT ![b] = ref]
           /\ record' = [j \in Records |->
                 IF j = i /\ record[i].step = "live"
                   THEN [record[i] EXCEPT !.adapter = b, !.gen = gen, !.faulted = FALSE]
                   ELSE record[j]]
           /\ ClientAnswer(l, [host[link[l].of] EXCEPT !.faulted = FALSE, !.gen = gen])
    <2>1. ClientAnswer(l, Mended(host[link[l].of], gen)) /\ record \in [Records -> RecordState]
        BY <1>7 DEF Mended, BrokerInv, ServerShape
    <2>2. record' = [j \in Records |->
              IF j = i /\ record[i].step = "live" THEN Reopened(record[i], b, gen) ELSE record[j]]
        BY <1>7 DEF Reopened
    <2> HIDE DEF i, b, ref, gen
    <2>3. /\ adapter' \in [Adapters -> AdapterSteps] /\ \A d \in Adapters : Ending(d) => Ending(d)'
          /\ \A k \in Links \ {l} : serving[k] = "reopening" => adapter'[resuming[k]] = "opening"
        BY <1>7, <1>a
    <2>4. ASSUME ServerInv', Advances,
                 \A j \in Records : /\ record'[j].link = record[j].link
                                    /\ record'[j].step = "opening" => record'[j] = record[j]
                                    /\ record'[j].step = record[j].step
          PROVE  BrokerInv'
        <3>1. link[l].up => /\ Mended(host[link[l].of], gen) \in HostState
                            /\ StaysConfirmed(Mended(host[link[l].of], gen))
            BY <1>0, <2>4, AnswersSelf, MendedShape
        <3> QED BY <1>0, <1>4, <2>1, <2>3, <2>4, <3>1, AnswerStep
    <2>5. CASE record[i].step = "live"
        <3>1. /\ ref = record[i].ref /\ ref # NoNative /\ record[i] \in RecordState /\ RecordGood(i)
            BY <1>0, <2>5 DEF Reopens, Confirmed, BrokerInv, ServerShape, RecordsGood, i, ref
        <3>2. record' = [record EXCEPT ![i] = Reopened(record[i], b, gen)]
            BY <2>1, <2>2, <2>5, <1>0
        <3>3. /\ record' \in [Records -> RecordState] /\ \A j \in Records : j # i => record'[j] = record[j]
              /\ record'[i].step = "live" /\ record'[i].ref = ref /\ record'[i].adapter = b
              /\ record'[i].link = record[i].link
              /\ record'[i].awaiting => record[i].awaiting
            BY <1>0, <1>2, <2>1, <2>5, <3>1, <3>2, ReopenedShape
        <3>4. Writing(i, b, ref)
            BY <1>7, <2>5, <3>1, <3>3 DEF Writing, RecordGood
        <3>5. \A n \in Natives : writers'[n] = IF n = ref THEN i ELSE writers[n]
            BY <1>5, <2>5, <3>1 DEF RecordGood, Reserved
        <3>6. RecordsGood' /\ Owned' /\ Advances
            <4>1. /\ record[i].step \in {"opening", "live"} /\ record[i].ref \in {NoNative, ref}
                  /\ adapter[b] \in {"opening", "open"} /\ record[i].step # "opening"
                  /\ ref \notin Known \ {record[i].ref} /\ ServerInv
                BY <1>2, <2>5, <3>1 DEF BrokerInv, ServerInv
            <4> QED BY <1>0, <1>2, <1>3, <3>4, <3>5, <4>1, WritingServer
        <3>7. writes' \in [Adapters -> Refs]
            BY <1>0, <1>7 DEF BrokerInv, ServerShape
        <3>8. ServerShape'
            BY <1>5, <2>3, <3>3, <3>7 DEF BrokerInv, ServerShape
        <3> QED BY <2>4, <2>5, <3>3, <3>6, <3>8 DEF ServerInv
    <2>6. CASE record[i].step # "live"
        <3>1. record' = record
            BY <2>1, <2>2, <2>6
        <3>2. ServerInv' /\ Advances
            BY <1>0, <1>2, <1>3, <1>5, <1>7, <3>1, LooseServer
        <3> QED BY <2>4, <3>1, <3>2
    <2> QED BY <2>5, <2>6
<1> QED BY <1>6, <1>7 DEF ReopenReturns

LEMMA SeesCloseStep ==
    ASSUME BrokerInv, NEW l \in Links, ServerSeesClose(l)
    PROVE  BrokerInv'
<1> DEFINE M == {i \in Records : record[i].step = "live" /\ record[i].link = l}
<1>1. /\ UNCHANGED <<host, serving, adapter, resuming, writes, writers, claim>>
      /\ link' = [link EXCEPT ![l].served = FALSE]
      /\ wire' = [wire EXCEPT ![l] = IF serving[l] = "idle" THEN <<>> ELSE <<Head(wire[l])>>]
      /\ record' = [i \in Records |-> IF i \in M THEN RecordClosed(i) ELSE record[i]]
    BY DEF ServerSeesClose
<1>2. outbox' \in [Records -> SUBSET {"ref", "fault"}]
    BY DEF ServerSeesClose, BrokerInv, ServerShape
<1>3. ServerInv' /\ Advances
    <2>1. M \in SUBSET Records /\ \A i \in M : record[i].step = "live"
        OBVIOUS
    <2> HIDE DEF M
    <2> QED BY <1>1, <1>2, <2>1, ClosingServer DEF BrokerInv, ServerInv
<1>4. /\ wire \in [Links -> Seq(Requests)] /\ \A k \in Links : serving[k] # "idle" => wire[k] # <<>>
      /\ link \in [Links -> LinkState] /\ \A k \in Links : link[k].up => link[k].of \in Hosts
    BY DEF BrokerInv, LinkShape
<1>5. /\ \A k \in Links \ {l} : wire'[k] = wire[k]
      /\ wire'[l] = IF serving[l] = "idle" THEN <<>> ELSE <<Head(wire[l])>>
    BY <1>1, <1>4
<1>6. wire' \in [Links -> Seq(Requests)] /\ \A k \in Links : serving'[k] # "idle" => wire'[k] # <<>>
    <2>1. serving[l] # "idle" => <<Head(wire[l])>> \in Seq(Requests) /\ <<Head(wire[l])>> # <<>>
        BY <1>4, HeadKeeps
    <2>2. <<>> \in Seq(Requests)
        OBVIOUS
    <2> QED BY <1>1, <1>4, <1>5, <2>1, <2>2
<1>7. link' \in [Links -> LinkState] /\ \A k \in Links : link'[k].up => link'[k].of \in Hosts
    BY <1>1, <1>4 DEF LinkState
<1>8. LinkShape'
    BY <1>1, <1>6, <1>7 DEF BrokerInv, LinkShape
<1>9. ConfirmedRefs'
    <2>1. \A k \in Links : \/ wire'[k] = wire[k] \/ wire'[k] = <<>>
                           \/ wire[k] # <<>> /\ wire'[k] = <<Head(wire[k])>>
        BY <1>4, <1>5
    <2> QED BY <1>1, <1>3, <2>1, QuietRefs
<1>10. \A i \in Records : RecordClosed(i).step = "closing"
    BY ClosedRecordShape DEF BrokerInv, ServerShape
<1>11. /\ \A i \in Records : record[i].link # l => record'[i] = record[i]
       /\ \A i \in Records : record[i].step = "opening" => record'[i] = record[i]
       /\ \A i \in Records : record'[i].step = "opening" => record'[i] = record[i]
    BY <1>1, <1>10
<1>12. ServingOf(l)'
    <2>1. serving[l] # "idle" => Head(wire'[l]) = Head(wire[l]) /\ Head(wire[l]).rec \in 0..MaxRecords
        BY <1>4, <1>5, HeadIsConfirmed, HeadKeeps DEF Requests
    <2>2. \A i \in Records : record'[i].step = "live" => record'[i] = record[i]
        BY <1>1, <1>10
    <2>3. /\ ServingOf(l) /\ ServerShape
          /\ serving[l] = "reopening" => adapter'[resuming[l]] = "opening"
          /\ serving'[l] = serving[l] /\ resuming'[l] = resuming[l]
        BY <1>1, ResumedIsOpening DEF BrokerInv, ServingGood
    <2> QED BY <1>1, <1>3, <1>11, <2>1, <2>2, <2>3, EndingStays, ServingStays
<1>13. ServingGood'
    <2>1. \A k \in Links : serving[k] = "reopening" => adapter'[resuming[k]] = "opening"
        BY <1>1, ResumedIsOpening
    <2>2. serving[l] = "reopening" => \A k \in Links \ {l} : serving[k] = "reopening" => resuming[k] # resuming[l]
        BY DEF BrokerInv, ServingGood
    <2>3. UNCHANGED <<serving, resuming, adapter>>
        BY <1>1
    <2> QED BY <1>3, <1>5, <1>11, <1>12, <2>1, <2>2, <2>3, EndingStays, OthersServed
<1> QED BY <1>3, <1>8, <1>9, <1>13 DEF BrokerInv, ServerInv

\* A step of one Session, for no connection
LEMMA SessionStep ==
    ASSUME BrokerInv, ServerInv', Advances, UNCHANGED <<host, link, wire, serving, resuming>>,
           \A k \in Links : serving[k] = "reopening" => adapter'[resuming[k]] = "opening",
           \A c \in Adapters : Ending(c) => Ending(c)',
           \A i \in Records :
              /\ record[i].step = "opening" => record'[i].step = "opening" /\ record'[i].link = record[i].link
              /\ record[i].step = "live" /\ record'[i].step = "live" => record'[i].link = record[i].link
              /\ record'[i].step = "opening" =>
                    record[i].step = "opening" /\ record'[i].adapter = record[i].adapter
    PROVE  BrokerInv'
<1>1. LinkShape'
    BY DEF BrokerInv, LinkShape
<1>2. ConfirmedRefs'
    BY QuietRefs
<1>3. 0 \notin Links
    BY DEF Links
<1>4. ServingGood'
    BY <1>3, OthersServed
<1> QED BY <1>1, <1>2, <1>4 DEF BrokerInv, ServerInv

LEMMA RecordClosesStep ==
    ASSUME BrokerInv, NEW i \in Records, RecordCloses(i)
    PROVE  BrokerInv'
<1>1. /\ record[i].step = "closing" /\ FreesWriter(i)
      /\ adapter' = [adapter EXCEPT ![record[i].adapter] = "closed"]
      /\ record' = [record EXCEPT ![i] = GoneRecord]
      /\ UNCHANGED <<host, link, wire, serving, resuming, writes, outbox>>
    BY DEF RecordCloses, GoneRecord
<1>2. ServerInv' /\ Advances
    <2>1. NoNative \in Refs /\ resuming' \in [Links -> Adapters \cup {0}]
        BY <1>1 DEF Refs, BrokerInv, ServerShape
    <2> QED BY <1>1, <2>1, EndServer DEF BrokerInv, ServerInv
<1>3. /\ record'[i] = GoneRecord /\ \A j \in Records : j # i => record'[j] = record[j]
      /\ \A c \in Adapters : c # record[i].adapter => adapter'[c] = adapter[c]
      /\ record[i].adapter \in Adapters => adapter'[record[i].adapter] = "closed"
    BY <1>1 DEF BrokerInv, ServerShape
<1>4. \A k \in Links : serving[k] = "reopening" => adapter'[resuming[k]] = "opening"
    BY <1>1, <1>3, ResumedIsApart
<1>5. \A c \in Adapters : Ending(c) => Ending(c)'
    BY <1>3 DEF Ending
<1> QED BY <1>1, <1>2, <1>3, <1>4, <1>5, GoneShape, SessionStep

Identified(r, n) == [r EXCEPT !.ref = n, !.awaiting = FALSE]
LEMMA IdentifiedShape ==
    ASSUME NEW r \in RecordState, NEW n \in Natives
    PROVE  /\ Identified(r, n) \in RecordState
           /\ Identified(r, n).step = r.step /\ Identified(r, n).ref = n
           /\ Identified(r, n).adapter = r.adapter /\ Identified(r, n).link = r.link
           /\ ~Identified(r, n).awaiting
BY DEF RecordState, Refs, Identified

LEMMA ClaimStep ==
    ASSUME BrokerInv, NEW i \in Records, ClaimIdentity(i)
    PROVE  BrokerInv'
<1> DEFINE a == record[i].adapter
<1>0. /\ record[i].step = "live" /\ adapter[a] = "open" /\ record[i].awaiting
      /\ UNCHANGED <<host, link, wire, serving, adapter, resuming>>
    BY DEF ClaimIdentity, Emits
<1>1. PICK n \in FreshNatives :
        /\ record' = [record EXCEPT ![i].ref = n, ![i].awaiting = FALSE]
        /\ writes' = [writes EXCEPT ![a] = n]
        /\ writers' = [writers EXCEPT ![n] = i]
    BY DEF ClaimIdentity
<1>2. RecordGood(i) /\ record[i] \in RecordState /\ record \in [Records -> RecordState]
    BY DEF BrokerInv, RecordsGood, ServerShape
<1>3. record[i].ref = NoNative /\ writes[a] = NoNative /\ a \in Adapters
    BY <1>0, <1>2 DEF RecordGood
<1>4. n \in Natives /\ n \notin Known /\ n # NoNative /\ n \in Refs
    BY BrokerConstants DEF FreshNatives, Refs
<1>5. record' = [record EXCEPT ![i] = Identified(record[i], n)]
    BY <1>1 DEF Identified
<1> HIDE DEF a
<1>6. /\ record' \in [Records -> RecordState] /\ \A j \in Records : j # i => record'[j] = record[j]
      /\ record'[i].step = "live" /\ record'[i].ref = n /\ record'[i].adapter = a
      /\ record'[i].link = record[i].link
      /\ ~record'[i].awaiting
    BY <1>0, <1>2, <1>4, <1>5, IdentifiedShape DEF a
<1>7. Writing(i, a, n)
    <2>1. adapter' = [adapter EXCEPT ![a] = "open"]
        BY <1>0 DEF a, BrokerInv, ServerShape
    <2> QED BY <1>1, <1>6, <2>1 DEF Writing
<1>8. \A j \in Records \ {i} : record[j].step \in {"opening", "live", "closing"} => record[j].adapter # a
    BY <1>0 DEF a, BrokerInv, RecordsGood, Holding
<1>9. \A m \in Natives : writers'[m] = IF m = n THEN i ELSE writers[m]
    BY <1>1 DEF BrokerInv, ServerShape
<1>10. RecordsGood' /\ Owned' /\ Advances
    <2>1. record[i].adapter = a /\ record[i].step \in {"opening", "live"} /\ record[i].ref \in {NoNative, n}
          /\ adapter[a] \in {"opening", "open"} /\ n \notin Known \ {record[i].ref}
        BY <1>0, <1>3, <1>4 DEF a
    <2>2. ServerInv
        BY DEF BrokerInv, ServerInv
    <2>3. record[i].step # "opening"
        BY <1>0
    <2> QED BY <1>3, <1>4, <1>7, <1>8, <1>9, <2>1, <2>2, <2>3, WritingServer
<1>11. ServerShape'
    <2>1. writers' \in [Natives -> Records \cup {Nobody}] /\ writes' \in [Adapters -> Refs]
        BY <1>1, <1>4 DEF BrokerInv, ServerShape
    <2>2. claim' \in Records \cup {Nobody} /\ outbox' \in [Records -> SUBSET {"ref", "fault"}]
        BY DEF ClaimIdentity, BrokerInv, ServerShape
    <2> QED BY <1>0, <1>6, <2>1, <2>2 DEF BrokerInv, ServerShape
<1>12. \A k \in Links : serving[k] = "reopening" => adapter'[resuming[k]] = "opening"
    BY <1>0, ResumedIsOpening
<1>13. \A j \in Records :
          /\ record[j].step = "opening" => record'[j].step = "opening" /\ record'[j].link = record[j].link
          /\ record[j].step = "live" /\ record'[j].step = "live" => record'[j].link = record[j].link
          /\ record'[j].step = "opening" =>
                record[j].step = "opening" /\ record'[j].adapter = record[j].adapter
    BY <1>0, <1>6 DEF a
<1> QED BY <1>0, <1>10, <1>11, <1>12, <1>13, EndingStays, SessionStep DEF ServerInv

LEMMA FaultStep ==
    ASSUME BrokerInv, NEW i \in Records, Faults(i)
    PROVE  BrokerInv'
<1>1. ServerInv' /\ Advances
    BY FaultServer DEF BrokerInv, ServerInv
<1>2. /\ record' = [record EXCEPT ![i].faulted = TRUE, ![i].awaiting = FALSE]
      /\ UNCHANGED <<host, link, wire, serving, adapter, resuming>>
    BY DEF Faults
<1>3. \A j \in Records : /\ record'[j].step = record[j].step /\ record'[j].link = record[j].link
                         /\ record'[j].adapter = record[j].adapter
    BY <1>2 DEF BrokerInv, ServerShape, RecordState
<1>4. \A k \in Links : serving[k] = "reopening" => adapter'[resuming[k]] = "opening"
    BY <1>2, ResumedIsOpening
<1> QED BY <1>1, <1>2, <1>3, <1>4, EndingStays, SessionStep

(***************************************************************************)
(* The invariant                                                            *)
(***************************************************************************)
LEMMA BrokerInit == InitBroker => BrokerInv
<1> SUFFICES ASSUME InitBroker PROVE BrokerInv
    OBVIOUS
<1>1. NoHost \in HostState /\ NoHost.rec = 0 /\ NoHost.ref = NoNative
    BY BrokerConstants DEF NoHost, HostState, HostFields, Refs
<1>2. LinkShape
    <2>1. <<>> \in Seq(Requests)
        OBVIOUS
    <2> QED BY <1>1, <2>1 DEF InitBroker, LinkShape, LinkState, Steps
<1>3. \A i \in Records : record[i] = NoRecordYet
    BY DEF InitBroker
<1>4. NoRecordYet.step = "unused" /\ NoRecordYet.ref = NoNative
    BY DEF NoRecordYet
<1>5. ServerShape
    BY NoRecordShape DEF InitBroker, ServerShape, Refs, AdapterSteps
<1>6. RecordsGood
    BY <1>3, <1>4 DEF RecordsGood, RecordGood, Reserved, Holding
<1>7. Owned
    BY <1>3, <1>4 DEF InitBroker, Owned, Held
<1>8. ConfirmedRefs
    <2>1. \A l \in Links : Len(wire[l]) = 0
        BY DEF InitBroker
    <2>2. \A l \in Links : 1..Len(wire[l]) = {}
        BY <2>1
    <2>3. \A h \in Hosts : host[h] = NoHost
        BY DEF InitBroker
    <2> QED BY <1>1, <2>2, <2>3 DEF ConfirmedRefs, Confirmed
<1>9. ServingGood
    BY DEF InitBroker, ServingGood, ServingOf
<1> QED BY <1>2, <1>5, <1>6, <1>7, <1>8, <1>9 DEF BrokerInv

LEMMA BrokerStep ==
    ASSUME BrokerInv, [NextBroker]_brokerVars
    PROVE  BrokerInv'
<1>1. CASE UNCHANGED brokerVars
    <2>1. Advances
        BY <1>1, StandingStill DEF brokerVars, Server
    <2>2. \A k \in Links : serving[k] = "reopening" => adapter'[resuming[k]] = "opening"
        BY <1>1, ResumedIsOpening DEF brokerVars
    <2>3. ServerInv'
        BY <1>1, Untouched DEF brokerVars, Server, BrokerInv, ServerInv
    <2> QED BY <1>1, <2>1, <2>2, <2>3, EndingStays, SessionStep DEF brokerVars
<1>2. ASSUME NEW h \in Hosts, Connect(h) \/ OpenSession(h) \/ TurnOrRecover(h) \/ CloseSession(h)
                              \/ TimesOutRequest(h)
      PROVE  BrokerInv'
    BY <1>2, ConnectStep, OpenSessionStep, TurnStep, CloseStep, TimeoutStep
<1>3. ASSUME NEW l \in Links, LoseLink(l)
      PROVE  BrokerInv'
    BY <1>3, LossStep DEF LoseLink
<1>4. ASSUME NEW l \in Links, Serves(l)
      PROVE  BrokerInv'
    BY <1>4, ServeOpenStep, ReturnsStep, FailsStep, GivesUpStep, GivenUpStep, ServeTurnStep, ServeCloseStep,
       ServeReopenStep, ReopenClosesStep, ReopenReturnsStep DEF Serves
<1>5. ASSUME NEW l \in Links, ServerSeesClose(l)
      PROVE  BrokerInv'
    BY <1>5, SeesCloseStep
<1>6. ASSUME NEW i \in Records, Receives(i) \/ RecordCloses(i) \/ ClaimIdentity(i) \/ Faults(i)
      PROVE  BrokerInv'
    BY <1>6, ReceivesStep, RecordClosesStep, ClaimStep, FaultStep
<1> QED BY <1>1, <1>2, <1>3, <1>4, <1>5, <1>6 DEF NextBroker

\* Two records that the broker serves or is closing never hold Sessions that write one native
\* Session, whatever the numbers of Hosts, connections, records and Sessions: opens that fail or
\* are given up, reopens, late identities, lost connections and late answers of the broker's
\* server, a connection lost in the middle of a reopen included.
THEOREM NativeHasOneWriter == BrokerSpec => []OneServedWriter
<1>1. BrokerInv => OneServedWriter
    <2> SUFFICES ASSUME BrokerInv, NEW i \in Records, NEW j \in Records, Held(i), Held(j), i # j,
                        WrittenBy(i) # NoNative
                 PROVE  WrittenBy(j) # WrittenBy(i)
        BY DEF OneServedWriter, WrittenBy
    <2> QED BY DEF BrokerInv, Owned
<1>2. BrokerInv /\ [NextBroker]_brokerVars => BrokerInv'
    BY BrokerStep
<1> QED BY BrokerInit, <1>1, <1>2, PTL DEF BrokerSpec


(***************************************************************************)
(* A Claude Turn and its Subagents.  While a Subagent the Session follows   *)
(* has not ended, its occupancy is that of its call or of its run: nothing  *)
(* in the stream can end it before the process does.                        *)
(***************************************************************************)

TaskStates == {"idle", "called", "running", "ended"}
SessionFields(s) ==
    {"phase", "active", "cancelled", "held", "root", "tool", "delegated", "asks", "occupancy", "idleLive",
     "quiet", "escalate", "hardCancel", "aborting", "ended", "closes", "seen", "abandoned"} \subseteq DOMAIN s
AccFields(k) == {"open", "tool", "agents", "conflict", "cancel"} \subseteq DOMAIN k

SessionBase(s) ==
    /\ SessionFields(s)
    /\ s.occupancy \in [Agents -> {"free", "spawned", "running", "notified"}]
    /\ DOMAIN s.ended = Turns \cup {OwnTurn} /\ s.active \in Turns \cup {OwnTurn, NoTurn}
    /\ s.active = NoTurn => ~s.cancelled /\ ~s.held
    /\ s.seen \subseteq Agents /\ \A a \in Agents : s.occupancy[a] # "free" => a \in s.seen
\* A Turn without Root output is held, and is not one that was cancelled.
SessionGood(s) ==
    /\ SessionBase(s)
    /\ s.active # NoTurn /\ ~s.root => s.held
    /\ s.active # NoTurn /\ s.cancelled => s.root

Engaged(s) == s.phase = "open" \/ s.active # NoTurn
Under(k, a) == k[a] \in {"called", "running"}
NoneUnder(k) == \A a \in Agents : ~Under(k, a)

\* The Session s knows what Subagents of the tasks k run, and the stream q will not mislead it.
Tracked(s, k, q) ==
    \A a \in Agents :
      /\ k[a] = "idle" => a \notin s.seen
      /\ Under(k, a) /\ a \in s.seen \ s.abandoned /\ Engaged(s) =>
           \/ s.occupancy[a] = "spawned"
           \/ /\ s.occupancy[a] = "running" /\ k[a] = "running"
              /\ \A i \in DOMAIN q : q[i].kind = "level" => a \in q[i].agents

\* A message about a Subagent comes when its task is that far.
MessageFits(m, k) ==
    /\ m.kind # "send"
    /\ m.kind \in {"spawn", "started", "launched", "settled"} => \E a \in Agents : m.agents = {a} /\ k[a] # "idle"
    /\ m.kind = "settled" => \A a \in m.agents : k[a] = "ended"
    /\ m.kind \in {"started", "launched"} => \A a \in m.agents : k[a] \in {"running", "ended"}
Lists(m, k) == m.kind = "level" => \A a \in Agents : k[a] = "running" => a \in m.agents
MessagesGood(q, k) ==
    /\ q \in Seq(NativeMessages)
    /\ \A i \in DOMAIN q : MessageFits(q[i], k)
    /\ \A i, j \in DOMAIN q :
         i < j /\ q[i].kind \in {"started", "launched"} /\ q[j].kind = "level" =>
           \A a \in q[i].agents : k[a] = "running" => a \in q[j].agents

\* The transport and the Session agree on the Turn, and who interprets the end of one that was
\* cancelled knows it.
TransportGood ==
    /\ AccFields(acc) /\ AccFields(idle)
    /\ transport \in {"none", "closed"} => ~alive /\ running = NoTurn
    /\ running # NoTurn => claude.active = running \/ (claude.active = NoTurn /\ claude.phase # "open")
    /\ claude.held => running = NoTurn
    /\ alive /\ claude.active # NoTurn /\ claude.cancelled /\ ~claude.hardCancel =>
         IF running # NoTurn THEN acc.cancel ELSE claude.idleLive /\ idle.open /\ idle.cancel

SettleInv ==
    /\ SessionGood(claude)
    /\ task \in [Agents -> TaskStates]
    /\ ~alive => NoneUnder(task)
    /\ \A a \in calls : task[a] # "idle"
    /\ MessagesGood(stream, task)
    /\ Tracked(claude, task, stream)
    /\ TransportGood

(***************************************************************************)
(* What the handlers of the Session make of its state                       *)
(***************************************************************************)

\* f has what the argument is about as s has it, but for an output seen meanwhile.
SameTurn(s, f) ==
    /\ SessionFields(f) /\ DOMAIN f.ended = DOMAIN s.ended /\ f.phase = s.phase /\ f.active = s.active
    /\ f.cancelled = s.cancelled /\ f.held = s.held /\ f.idleLive = s.idleLive
    /\ f.hardCancel = s.hardCancel /\ f.ended = s.ended /\ (s.root => f.root)
SameSession(s, f) ==
    SameTurn(s, f) /\ f.occupancy = s.occupancy /\ f.seen = s.seen /\ f.abandoned = s.abandoned

LEMMA SameIsGood ==
    ASSUME NEW s, NEW f, SessionGood(s), SameSession(s, f)
    PROVE  SessionGood(f)
BY DEF SessionGood, SessionBase, SameSession, SameTurn

LEMMA SameTwice ==
    ASSUME NEW s, NEW f, NEW g, SameSession(s, f), SameSession(f, g)
    PROVE  SameSession(s, g)
BY DEF SameSession, SameTurn

LEMMA ClosedSame ==
    ASSUME NEW s, NEW S, SessionFields(s)
    PROVE  SameSession(s, InteractionsClosed(s, S))
<1>1. PICK c : c = [q \in Interactions |-> s.closes[q] + IF q \in S THEN 1 ELSE 0]
    OBVIOUS
<1>2. InteractionsClosed(s, S) = [s EXCEPT !.asks = s.asks \ S, !.closes = c]
    BY <1>1 DEF InteractionsClosed
<1> QED BY <1>2 DEF SameSession, SameTurn, SessionFields

LEMMA ArmedSame ==
    ASSUME NEW s, SessionFields(s)
    PROVE  SameSession(s, Armed(s))
<1>1. SameSession(s, s) /\ SameSession(s, [s EXCEPT !.quiet = TRUE])
    BY DEF SameSession, SameTurn, SessionFields
<1> QED BY <1>1 DEF Armed

LEMMA ObservedSame ==
    ASSUME NEW s, SessionFields(s)
    PROVE  SameSession(s, Observed(s))
BY DEF Observed, SameSession, SameTurn, SessionFields

\* Subagents f follows are followed by s, with the same occupancy.
Follows(s, f) ==
    /\ f.seen = s.seen
    /\ \A a \in Agents : a \in f.seen \ f.abandoned /\ Engaged(f) =>
         a \notin s.abandoned /\ Engaged(s) /\ f.occupancy[a] = s.occupancy[a]

LEMMA FollowsTracks ==
    ASSUME NEW s, NEW f, NEW k, NEW q, Follows(s, f), Tracked(s, k, q)
    PROVE  Tracked(f, k, q)
BY DEF Follows, Tracked

LEMMA SameFollows ==
    ASSUME NEW s, NEW f, SameSession(s, f)
    PROVE  Follows(s, f)
BY DEF Follows, SameSession, SameTurn, Engaged

\* The Turn of s has ended.
Ended(s, f, outcome) ==
    /\ s.active # NoTurn /\ f.active = NoTurn /\ ~f.cancelled /\ ~f.held
    /\ f.ended = [s.ended EXCEPT ![s.active] = outcome]
Holds(s, f) ==
    /\ f.phase = s.phase /\ f.active = s.active /\ f.cancelled = s.cancelled /\ f.hardCancel = s.hardCancel
    /\ ~s.cancelled /\ f.held /\ f.idleLive /\ f.ended = s.ended
    /\ f.occupancy = s.occupancy /\ f.seen = s.seen /\ f.abandoned = s.abandoned

LEMMA FinishEffect ==
    ASSUME NEW s, SessionFields(s), s.occupancy \in [Agents -> {"free", "spawned", "running", "notified"}],
           NEW outcome, NEW preserve \in BOOLEAN, NEW f, f = Finish(s, outcome, preserve)
    PROVE  \/ s.active = NoTurn /\ f = s
           \/ outcome = "succeeded" /\ s.active # NoTurn /\ Holds(s, f) /\ Unsettled(s) /\ SessionFields(f)
           \/ /\ Ended(s, f, outcome) /\ SessionFields(f) /\ f.phase = s.phase
              /\ f.hardCancel = s.hardCancel /\ f.seen = s.seen
              /\ outcome = "succeeded" => s.cancelled \/ ~Unsettled(s)
              /\ preserve => f.occupancy = s.occupancy /\ f.abandoned = s.abandoned
              /\ ~preserve => f.occupancy = Free
              /\ f.abandoned = IF outcome = "failed" /\ ~preserve
                               THEN s.abandoned \cup {a \in Agents : s.occupancy[a] # "free"}
                               ELSE s.abandoned
<1>1. CASE s.active = NoTurn
    <2>1. f = s
        BY <1>1 DEF Finish
    <2> QED BY <1>1, <2>1
<1>2. CASE s.active # NoTurn
    <2>1. PICK z : z = InteractionsClosed(s, s.asks)
        OBVIOUS
    <2>2. PICK c : c = [z EXCEPT !.quiet = FALSE, !.escalate = FALSE, !.tool = FALSE, !.delegated = {}]
        OBVIOUS
    <2>3. SameSession(s, z) /\ z.root = s.root
        <3>1. SameSession(s, z)
            BY <2>1, ClosedSame
        <3>2. PICK y : y = [q \in Interactions |-> s.closes[q] + IF q \in s.asks THEN 1 ELSE 0]
            OBVIOUS
        <3>3. z = [s EXCEPT !.asks = s.asks \ s.asks, !.closes = y]
            BY <2>1, <3>2 DEF InteractionsClosed
        <3> QED BY <3>1, <3>3 DEF SessionFields
    <2>4. SameSession(z, c)
        BY <2>2, <2>3 DEF SameSession, SameTurn, SessionFields
    <2>5. SameSession(s, c)
        BY <2>3, <2>4, SameTwice
    <2>6. f = IF outcome = "succeeded" /\ ~s.cancelled /\ Unsettled(s) THEN Hold(c)
              ELSE Complete(c, outcome, preserve)
        BY <1>2, <2>1, <2>2 DEF Finish
    <2>7. CASE outcome = "succeeded" /\ ~s.cancelled /\ Unsettled(s)
        <3>1. PICK h : h = [c EXCEPT !.held = TRUE, !.idleLive = TRUE]
            OBVIOUS
        <3>2. SessionFields(h) /\ Holds(s, h)
            BY <2>5, <2>7, <3>1 DEF Holds, SameSession, SameTurn, SessionFields
        <3>3. f = Armed(h)
            BY <2>6, <2>7, <3>1 DEF Hold
        <3>4. SameSession(h, f)
            BY <3>2, <3>3, ArmedSame
        <3>5. Holds(s, f) /\ SessionFields(f)
            BY <3>2, <3>4 DEF Holds, SameSession, SameTurn
        <3> QED BY <1>2, <2>7, <3>5
    <2>8. CASE ~(outcome = "succeeded" /\ ~s.cancelled /\ Unsettled(s))
        <3>1. f = Complete(c, outcome, preserve)
            BY <2>6, <2>8
        <3>2. SessionFields(f) /\ f.active = NoTurn /\ ~f.cancelled /\ ~f.held /\ f.phase = c.phase
              /\ f.hardCancel = c.hardCancel /\ f.seen = c.seen /\ f.ended = [c.ended EXCEPT ![c.active] = outcome]
              /\ f.occupancy = (IF preserve THEN c.occupancy ELSE Free)
              /\ f.abandoned = (IF outcome = "failed" /\ ~preserve
                                THEN c.abandoned \cup {a \in Agents : c.occupancy[a] # "free"} ELSE c.abandoned)
            BY <2>5, <3>1 DEF Complete, SameSession, SameTurn, SessionFields
        <3>3. c.phase = s.phase /\ c.hardCancel = s.hardCancel /\ c.seen = s.seen /\ c.ended = s.ended
              /\ c.active = s.active /\ c.occupancy = s.occupancy /\ c.abandoned = s.abandoned
            BY <2>5 DEF SameSession, SameTurn
        <3>4. Ended(s, f, outcome)
            BY <1>2, <3>2, <3>3 DEF Ended
        <3> QED BY <2>8, <3>2, <3>3, <3>4
    <2> QED BY <2>7, <2>8
<1> QED BY <1>1, <1>2

\* A new success of f, and that nothing s follows runs.
Succeeds(s, f) == \E t \in Turns \cup {OwnTurn} : s.ended[t] # "succeeded" /\ f.ended[t] = "succeeded"
AllRest(s, k) == \A a \in Agents : a \in s.seen \ s.abandoned => ~Under(k, a)

\* A Turn ends failed, or cancelled and kept, or successful with nothing that runs; or the process
\* has gone.
LEMMA FinishKeeps ==
    ASSUME NEW s, SessionBase(s), NEW k, NEW q, Tracked(s, k, q),
           NEW outcome \in {"succeeded", "failed", "cancelled"}, NEW preserve \in BOOLEAN,
           outcome = "succeeded" => ~s.cancelled \/ NoneUnder(k),
           outcome = "failed" => ~preserve,
           outcome = "cancelled" => preserve \/ NoneUnder(k),
           NEW f, f = Finish(s, outcome, preserve)
    PROVE  /\ SessionGood(f) /\ Tracked(f, k, q) /\ f.phase = s.phase /\ f.hardCancel = s.hardCancel
           /\ f.seen = s.seen
           /\ f.active = NoTurn \/ (outcome = "succeeded" /\ f.active = s.active /\ ~f.cancelled)
           /\ Succeeds(s, f) => outcome = "succeeded" /\ AllRest(s, k)
<1>0. CASE s.active = NoTurn /\ f = s
    BY <1>0 DEF SessionGood, SessionBase, Succeeds
<1>1. CASE outcome = "succeeded" /\ s.active # NoTurn /\ Holds(s, f) /\ Unsettled(s) /\ SessionFields(f)
    <2>1. SessionGood(f)
        BY <1>1 DEF SessionBase, SessionGood, Holds
    <2>2. Follows(s, f)
        BY <1>1 DEF Follows, Holds, Engaged
    <2>3. Tracked(f, k, q)
        BY <2>2, FollowsTracks
    <2> QED BY <1>1, <2>1, <2>3 DEF Holds, Succeeds
<1>2. CASE /\ Ended(s, f, outcome) /\ SessionFields(f) /\ f.phase = s.phase
           /\ f.hardCancel = s.hardCancel /\ f.seen = s.seen
           /\ outcome = "succeeded" => s.cancelled \/ ~Unsettled(s)
           /\ preserve => f.occupancy = s.occupancy /\ f.abandoned = s.abandoned
           /\ ~preserve => f.occupancy = Free
           /\ f.abandoned = IF outcome = "failed" /\ ~preserve
                            THEN s.abandoned \cup {a \in Agents : s.occupancy[a] # "free"}
                            ELSE s.abandoned
    <2>1. Free \in [Agents -> {"free", "spawned", "running", "notified"}] /\ \A a \in Agents : Free[a] = "free"
        BY DEF Free
    <2>2. f.occupancy = s.occupancy \/ f.occupancy = Free
        BY <1>2
    <2>3. \A a \in Agents : f.occupancy[a] # "free" => a \in s.seen
        BY <2>1, <2>2 DEF SessionBase
    <2>4. SessionGood(f)
        <3>1. f.occupancy \in [Agents -> {"free", "spawned", "running", "notified"}]
            BY <2>1, <2>2 DEF SessionBase
        <3>2. DOMAIN f.ended = Turns \cup {OwnTurn}
            BY <1>2 DEF Ended, SessionBase
        <3>3. f.active = NoTurn /\ ~f.cancelled /\ ~f.held
            BY <1>2 DEF Ended
        <3> QED BY <1>2, <2>3, <3>1, <3>2, <3>3 DEF SessionGood, SessionBase
    <2>5. outcome = "succeeded" /\ ~s.cancelled => \A a \in Agents : s.occupancy[a] = "free"
        BY <1>2 DEF Unsettled
    <2>6. Tracked(f, k, q)
        <3>0. s.active # NoTurn
            BY <1>2 DEF Ended
        <3>1. CASE NoneUnder(k)
            BY <1>2, <3>1 DEF Tracked, NoneUnder
        <3>2. CASE outcome = "cancelled" /\ preserve
            <4>1. Follows(s, f)
                BY <1>2, <3>0, <3>2 DEF Follows, Engaged
            <4> QED BY <4>1, FollowsTracks
        <3>3. CASE outcome = "failed"
            <4>1. f.occupancy = Free /\ f.abandoned = s.abandoned \cup {a \in Agents : s.occupancy[a] # "free"}
                BY <1>2, <3>3
            <4>2. Follows(s, f)
                BY <1>2, <2>1, <3>0, <4>1 DEF Follows, Engaged
            <4> QED BY <4>2, FollowsTracks
        <3>4. CASE outcome = "succeeded" /\ ~s.cancelled
            <4>1. \A a \in Agents : f.occupancy[a] = s.occupancy[a]
                BY <2>1, <2>2, <2>5, <3>4
            <4>2. f.abandoned = s.abandoned
                BY <1>2, <3>4
            <4>3. Follows(s, f)
                BY <1>2, <3>0, <4>1, <4>2 DEF Follows, Engaged
            <4> QED BY <4>3, FollowsTracks
        <3> QED BY <3>1, <3>2, <3>3, <3>4
    <2>7. Succeeds(s, f) => outcome = "succeeded" /\ AllRest(s, k)
        <3>1. Succeeds(s, f) => outcome = "succeeded"
            BY <1>2 DEF Succeeds, Ended, SessionBase
        <3>2. s.active # NoTurn
            BY <1>2 DEF Ended
        <3>3. outcome = "succeeded" => AllRest(s, k)
            BY <2>5, <3>2 DEF AllRest, Tracked, Engaged, NoneUnder
        <3> QED BY <3>1, <3>3
    <2> QED BY <1>2, <2>4, <2>6, <2>7 DEF Ended
<1>3. SessionFields(s) /\ s.occupancy \in [Agents -> {"free", "spawned", "running", "notified"}]
    BY DEF SessionBase
<1>4. \/ s.active = NoTurn /\ f = s
      \/ outcome = "succeeded" /\ s.active # NoTurn /\ Holds(s, f) /\ Unsettled(s) /\ SessionFields(f)
      \/ /\ Ended(s, f, outcome) /\ SessionFields(f) /\ f.phase = s.phase
         /\ f.hardCancel = s.hardCancel /\ f.seen = s.seen
         /\ outcome = "succeeded" => s.cancelled \/ ~Unsettled(s)
         /\ preserve => f.occupancy = s.occupancy /\ f.abandoned = s.abandoned
         /\ ~preserve => f.occupancy = Free
         /\ f.abandoned = IF outcome = "failed" /\ ~preserve
                          THEN s.abandoned \cup {a \in Agents : s.occupancy[a] # "free"}
                          ELSE s.abandoned
    BY <1>3, FinishEffect
<1> HIDE DEF SessionBase
<1> QED BY <1>0, <1>1, <1>2, <1>4

\* A fault gives up what still runs.
LEMMA FaultKeeps ==
    ASSUME NEW s, SessionGood(s), NEW k, NEW q, Tracked(s, k, q), NEW f, f = Fault(s)
    PROVE  /\ SessionGood(f) /\ Tracked(f, k, q) /\ ~Succeeds(s, f) /\ f.hardCancel = s.hardCancel
           /\ f = s \/ (f.active = NoTurn /\ f.phase = "faulted")
           /\ s.phase = "open" => f.phase = "faulted"
<1>1. CASE s.phase \in {"closed", "closing", "faulted"}
    <2>1. f = s
        BY <1>1 DEF Fault
    <2> QED BY <1>1, <2>1 DEF Succeeds
<1>2. CASE s.phase \notin {"closed", "closing", "faulted"}
    <2>1. PICK g : g = Finish(s, "failed", FALSE)
        OBVIOUS
    <2>2. SessionGood(g) /\ g.active = NoTurn /\ g.hardCancel = s.hardCancel /\ g.seen = s.seen /\ ~Succeeds(s, g)
          /\ Tracked(g, k, q)
        <3>1. CASE s.active = NoTurn
            <4>1. g = s
                BY <2>1, <3>1 DEF Finish
            <4> QED BY <3>1, <4>1 DEF Succeeds
        <3>2. CASE s.active # NoTurn
            <4>1. SessionBase(s)
                BY DEF SessionGood
            <4>2. SessionGood(g) /\ g.active = NoTurn /\ g.hardCancel = s.hardCancel /\ Tracked(g, k, q)
                <5>1. PICK o \in {"succeeded", "failed", "cancelled"} : o = "failed"
                    OBVIOUS
                <5>2. PICK p \in BOOLEAN : p = FALSE
                    OBVIOUS
                <5>3. g = Finish(s, o, p)
                    BY <2>1, <5>1, <5>2
                <5>4. /\ o = "succeeded" => ~s.cancelled \/ NoneUnder(k)
                      /\ o = "failed" => ~p
                      /\ o = "cancelled" => p \/ NoneUnder(k)
                    BY <5>1, <5>2
                <5>5. /\ SessionGood(g) /\ Tracked(g, k, q) /\ g.hardCancel = s.hardCancel
                      /\ g.active = NoTurn \/ (o = "succeeded" /\ g.active = s.active /\ ~g.cancelled)
                    BY <4>1, <5>3, <5>4, FinishKeeps
                <5>6. o # "succeeded"
                    BY <5>1
                <5> QED BY <5>5, <5>6
            <4>3. g.seen = s.seen /\ Ended(s, g, "failed")
                BY <2>1, <3>2, <4>1, FinishEffect DEF SessionBase
            <4>4. ~Succeeds(s, g)
                BY <4>1, <4>3 DEF Succeeds, Ended, SessionBase
            <4> QED BY <4>2, <4>3, <4>4
        <3> QED BY <3>1, <3>2
    <2>3. f = [g EXCEPT !.phase = "faulted", !.occupancy = Free, !.escalate = FALSE]
        BY <1>2, <2>1 DEF Fault
    <2>4. Free \in [Agents -> {"free", "spawned", "running", "notified"}] /\ \A a \in Agents : Free[a] = "free"
        BY DEF Free
    <2>5. SessionFields(f) /\ f.phase = "faulted" /\ f.occupancy = Free /\ f.active = NoTurn /\ f.seen = g.seen
          /\ f.cancelled = g.cancelled /\ f.held = g.held /\ f.ended = g.ended /\ f.hardCancel = g.hardCancel
        BY <2>2, <2>3 DEF SessionGood, SessionBase, SessionFields
    <2>6. SessionGood(f)
        BY <2>2, <2>4, <2>5 DEF SessionGood, SessionBase
    <2>7. Tracked(f, k, q)
        BY <2>2, <2>5 DEF Tracked, Engaged
    <2>8. ~Succeeds(s, f)
        BY <2>2, <2>5 DEF Succeeds
    <2> QED BY <2>2, <2>5, <2>6, <2>7, <2>8
<1> QED BY <1>1, <1>2

\* The result of a Segment: who is cancelled has no success.
LEMMA ResultKeeps ==
    ASSUME NEW s, SessionGood(s), NEW k, NEW q, Tracked(s, k, q),
           NEW outcome \in {"succeeded", "failed", "cancelled"},
           s.active # NoTurn /\ s.cancelled /\ ~s.hardCancel => outcome # "succeeded" \/ NoneUnder(k),
           NEW f, f = FinishResult(s, outcome)
    PROVE  /\ SessionGood(f) /\ Tracked(f, k, q) /\ f.phase = s.phase /\ f.hardCancel = s.hardCancel
           /\ f.seen = s.seen /\ f.active \in {NoTurn, s.active}
           /\ f.active # NoTurn /\ f.cancelled => f.hardCancel
           /\ Succeeds(s, f) => AllRest(s, k)
<1>1. CASE s.active = NoTurn \/ s.hardCancel
    <2>1. f = s
        BY <1>1 DEF FinishResult
    <2> QED BY <1>1, <2>1 DEF Succeeds
<1>2. CASE ~(s.active = NoTurn \/ s.hardCancel)
    <2>1. PICK r : r = [s EXCEPT !.root = FALSE]
        OBVIOUS
    <2>2. SessionBase(r) /\ r.active = s.active /\ r.phase = s.phase /\ r.hardCancel = s.hardCancel /\ r.cancelled = s.cancelled
          /\ r.seen = s.seen /\ r.abandoned = s.abandoned /\ r.occupancy = s.occupancy /\ r.ended = s.ended
        BY <2>1 DEF SessionGood, SessionBase, SessionFields
    <2>3. Tracked(r, k, q)
        BY <2>2, FollowsTracks DEF Follows, Engaged
    <2>4. PICK o \in {"succeeded", "failed", "cancelled"}, p \in BOOLEAN :
              /\ f = Finish(r, o, p) /\ (o = "succeeded" => outcome = "succeeded")
              /\ (o = "failed" => ~p) /\ (o = "cancelled" => p)
        BY <1>2, <2>1 DEF FinishResult
    <2>5. o = "succeeded" => ~r.cancelled \/ NoneUnder(k)
        BY <1>2, <2>2, <2>4
    <2>6. /\ SessionGood(f) /\ Tracked(f, k, q) /\ f.phase = r.phase /\ f.hardCancel = r.hardCancel
          /\ f.seen = r.seen /\ (f.active = NoTurn \/ (o = "succeeded" /\ f.active = r.active /\ ~f.cancelled))
          /\ Succeeds(r, f) => AllRest(r, k)
        <3>1. r.active # NoTurn
            BY <1>2, <2>2
        <3>2. o = "cancelled" => p \/ NoneUnder(k)
            BY <2>4
        <3> QED BY <2>2, <2>3, <2>4, <2>5, <3>1, <3>2, FinishKeeps
    <2> QED BY <2>2, <2>6 DEF Succeeds, AllRest
<1> QED BY <1>1, <1>2

(***************************************************************************)
(* Messages, as they are read                                              *)
(***************************************************************************)

LEMMA ReadOne ==
    ASSUME NEW k, NEW q, MessagesGood(q, k), q # <<>>
    PROVE  /\ MessagesGood(Tail(q), k) /\ Head(q) \in NativeMessages /\ MessageFits(Head(q), k)
           /\ \A i \in DOMAIN Tail(q) : i + 1 \in DOMAIN q /\ Tail(q)[i] = q[i + 1] /\ 1 < i + 1
           /\ 1 \in DOMAIN q /\ Head(q) = q[1]
<1>1. q \in Seq(NativeMessages)
    BY DEF MessagesGood
<1>2. Len(q) \in Nat /\ Len(q) # 0 /\ DOMAIN q = 1..Len(q) /\ Head(q) = q[1] /\ q[1] \in NativeMessages
      /\ Tail(q) \in Seq(NativeMessages) /\ Len(Tail(q)) = Len(q) - 1
      /\ \A i \in 1..Len(Tail(q)) : Tail(q)[i] = q[i + 1]
    BY <1>1, HeadTailProperties, EmptySeq
<1>3. DOMAIN Tail(q) = 1..(Len(q) - 1)
    BY <1>2
<1>4. \A i \in DOMAIN Tail(q) : i \in Int /\ i + 1 \in DOMAIN q /\ Tail(q)[i] = q[i + 1] /\ 1 < i + 1
    BY <1>2, <1>3
<1>5. \A i \in DOMAIN Tail(q) : MessageFits(Tail(q)[i], k)
    BY <1>4 DEF MessagesGood
<1>6. ASSUME NEW i \in DOMAIN Tail(q), NEW j \in DOMAIN Tail(q), i < j,
             Tail(q)[i].kind \in {"started", "launched"}, Tail(q)[j].kind = "level"
      PROVE  \A a \in Tail(q)[i].agents : k[a] = "running" => a \in Tail(q)[j].agents
    <2>1. i + 1 < j + 1
        BY <1>4, <1>6
    <2>2. i + 1 \in DOMAIN q /\ j + 1 \in DOMAIN q /\ Tail(q)[i] = q[i + 1] /\ Tail(q)[j] = q[j + 1]
        BY <1>4
    <2>3. q[i + 1].kind \in {"started", "launched"} /\ q[j + 1].kind = "level"
        BY <1>6, <2>2
    <2> QED BY <2>1, <2>2, <2>3 DEF MessagesGood
<1>7. MessagesGood(Tail(q), k)
    BY <1>2, <1>5, <1>6 DEF MessagesGood
<1> QED BY <1>2, <1>4, <1>7 DEF MessagesGood

LEMMA ReadTracks ==
    ASSUME NEW s, NEW k, NEW q, MessagesGood(q, k), q # <<>>, Tracked(s, k, q)
    PROVE  Tracked(s, k, Tail(q))
<1>1. \A i \in DOMAIN Tail(q) : i + 1 \in DOMAIN q /\ Tail(q)[i] = q[i + 1]
    BY ReadOne
<1> QED BY <1>1 DEF Tracked

\* What a message makes of the occupancy of one Subagent, r being the messages after it.
LEMMA MovedTracks ==
    ASSUME NEW s, SessionGood(s), NEW f, SameTurn(s, f), NEW k, NEW q, Tracked(s, k, q),
           NEW r, \A i \in DOMAIN r : \E j \in DOMAIN q : r[i] = q[j],
           f.abandoned = s.abandoned, s.seen \subseteq f.seen, f.seen \subseteq Agents,
           f.occupancy \in [Agents -> {"free", "spawned", "running", "notified"}],
           \A a \in Agents :
             /\ a \in f.seen => a \in s.seen \/ (k[a] # "idle" /\ f.occupancy[a] = "spawned")
             /\ f.occupancy[a] # "free" => s.occupancy[a] # "free" \/ a \in f.seen
             /\ \/ f.occupancy[a] = s.occupancy[a]
                \/ f.occupancy[a] = "spawned"
                \/ /\ f.occupancy[a] = "running" /\ k[a] # "called"
                   /\ k[a] = "running" => \A i \in DOMAIN r : r[i].kind = "level" => a \in r[i].agents
                \/ k[a] = "ended"
                \/ ~(Under(k, a) /\ a \in s.seen \ s.abandoned /\ Engaged(s))
    PROVE  SessionGood(f) /\ Tracked(f, k, r)
<1>1. SessionGood(f)
    BY DEF SessionGood, SessionBase, SameTurn
<1>2. Engaged(f) = Engaged(s)
    BY DEF SameTurn, Engaged
<1>3. ASSUME NEW a \in Agents PROVE k[a] = "idle" => a \notin f.seen
    BY DEF Tracked
<1>4. ASSUME NEW a \in Agents, Under(k, a), a \in f.seen \ f.abandoned, Engaged(f)
      PROVE  \/ f.occupancy[a] = "spawned"
             \/ /\ f.occupancy[a] = "running" /\ k[a] = "running"
                /\ \A i \in DOMAIN r : r[i].kind = "level" => a \in r[i].agents
    <2>1. CASE f.occupancy[a] = "spawned"
        BY <2>1
    <2>2. CASE f.occupancy[a] # "spawned"
        <3>1. a \in s.seen \ s.abandoned /\ Engaged(s) /\ k[a] # "ended"
            BY <1>2, <1>4, <2>2 DEF Under
        <3>2. \/ s.occupancy[a] = "spawned"
              \/ /\ s.occupancy[a] = "running" /\ k[a] = "running"
                 /\ \A i \in DOMAIN q : q[i].kind = "level" => a \in q[i].agents
            BY <1>4, <3>1 DEF Tracked
        <3>3. CASE f.occupancy[a] = s.occupancy[a]
            BY <2>2, <3>2, <3>3
        <3>4. CASE f.occupancy[a] = "running" /\ k[a] # "called"
                   /\ (k[a] = "running" => \A i \in DOMAIN r : r[i].kind = "level" => a \in r[i].agents)
            BY <1>4, <3>4 DEF Under
        <3> QED BY <1>4, <2>2, <3>1, <3>3, <3>4
    <2> QED BY <2>1, <2>2
<1> QED BY <1>1, <1>3, <1>4 DEF Tracked

LEMMA SettleKeeps ==
    ASSUME NEW s, SessionGood(s), NEW k, NEW q, Tracked(s, k, q), NEW a \in Agents, k[a] = "ended",
           NEW f, f = Settle(s, a), NEW r, \A i \in DOMAIN r : \E j \in DOMAIN q : r[i] = q[j]
    PROVE  SessionGood(f) /\ Tracked(f, k, r) /\ SameTurn(s, f)
<1>1. PICK o : o = [s.occupancy EXCEPT ![a] = IF s.occupancy[a] = "free" THEN s.occupancy[a] ELSE "notified"]
    OBVIOUS
<1>2. PICK t : t = [s EXCEPT !.occupancy = o]
    OBVIOUS
<1>3. /\ o \in [Agents -> {"free", "spawned", "running", "notified"}]
      /\ \A b \in Agents : (o[b] # "free" => s.occupancy[b] # "free") /\ (b # a => o[b] = s.occupancy[b])
    BY <1>1 DEF SessionGood, SessionBase
<1>4. f = t \/ f = Armed(t)
    BY <1>1, <1>2 DEF Settle, Notify
<1>5. SameTurn(s, t) /\ t.occupancy = o /\ t.seen = s.seen /\ t.abandoned = s.abandoned
    BY <1>2 DEF SameTurn, SessionGood, SessionBase, SessionFields
<1>6. SameTurn(s, f) /\ f.occupancy = o /\ f.seen = s.seen /\ f.abandoned = s.abandoned
    <2>1. SameSession(t, t) /\ SameSession(t, Armed(t))
        BY <1>5, ArmedSame DEF SameSession, SameTurn
    <2> QED BY <1>4, <1>5, <2>1 DEF SameSession, SameTurn
<1>7. \A b \in Agents :
             /\ b \in f.seen => b \in s.seen \/ (k[b] # "idle" /\ f.occupancy[b] = "spawned")
             /\ f.occupancy[b] # "free" => s.occupancy[b] # "free" \/ b \in f.seen
             /\ \/ f.occupancy[b] = s.occupancy[b]
                \/ f.occupancy[b] = "spawned"
                \/ /\ f.occupancy[b] = "running" /\ k[b] # "called"
                   /\ k[b] = "running" => \A i \in DOMAIN r : r[i].kind = "level" => b \in r[i].agents
                \/ k[b] = "ended"
                \/ ~(Under(k, b) /\ b \in s.seen \ s.abandoned /\ Engaged(s))
    BY <1>3, <1>6
<1>8. s.seen \subseteq f.seen /\ f.seen \subseteq Agents /\ f.occupancy \in [Agents -> {"free", "spawned", "running", "notified"}]
    BY <1>3, <1>6 DEF SessionGood, SessionBase
<1> QED BY <1>6, <1>7, <1>8, MovedTracks

LEMMA SubjectIs == ASSUME NEW m, NEW a, m.agents = {a} PROVE Subject(m) = a
BY DEF Subject

LEMMA EventKeeps ==
    ASSUME NEW s, SessionGood(s), NEW k \in [Agents -> TaskStates], NEW q, q # <<>>, MessagesGood(q, k), Tracked(s, k, q),
           NEW f, f = TurnEvent(s, Head(q))
    PROVE  SessionGood(f) /\ Tracked(f, k, Tail(q)) /\ SameTurn(s, f)
<1>1. PICK m : m = Head(q)
    OBVIOUS
<1>2. PICK r : r = Tail(q)
    OBVIOUS
<1>3. m \in NativeMessages /\ MessageFits(m, k) /\ 1 \in DOMAIN q /\ m = q[1]
      /\ \A i \in DOMAIN r : i + 1 \in DOMAIN q /\ r[i] = q[i + 1] /\ 1 < i + 1
    BY <1>1, <1>2, ReadOne
<1>4. SessionFields(s) /\ \A i \in DOMAIN r : \E j \in DOMAIN q : r[i] = q[j]
    BY <1>3 DEF SessionGood, SessionBase
<1>5. m.kind \in Kinds /\ m.kind # "send"
    BY <1>3 DEF NativeMessages, MessageFits
<1>6. SameSession(s, f) => SessionGood(f) /\ Tracked(f, k, r) /\ SameTurn(s, f)
    <2>1. Tracked(s, k, r)
        BY <1>2, ReadTracks
    <2> QED BY <2>1, SameIsGood, SameFollows, FollowsTracks DEF SameSession
<1> DEFINE Moves(o) ==
       /\ SameTurn(s, f) /\ f.abandoned = s.abandoned /\ s.seen \subseteq f.seen /\ f.seen \subseteq Agents
       /\ f.occupancy = o /\ o \in [Agents -> {"free", "spawned", "running", "notified"}]
       /\ \A a \in Agents :
             /\ a \in f.seen => a \in s.seen \/ (k[a] # "idle" /\ o[a] = "spawned")
             /\ o[a] # "free" => s.occupancy[a] # "free" \/ a \in f.seen
             /\ \/ o[a] = s.occupancy[a]
                \/ o[a] = "spawned"
                \/ /\ o[a] = "running" /\ k[a] # "called"
                   /\ k[a] = "running" => \A i \in DOMAIN r : r[i].kind = "level" => a \in r[i].agents
                \/ k[a] = "ended"
                \/ ~(Under(k, a) /\ a \in s.seen \ s.abandoned /\ Engaged(s))
<1>7. ASSUME NEW o, Moves(o) PROVE SessionGood(f) /\ Tracked(f, k, r) /\ SameTurn(s, f)
    <2>1. /\ SameTurn(s, f) /\ f.abandoned = s.abandoned /\ s.seen \subseteq f.seen /\ f.seen \subseteq Agents
          /\ f.occupancy \in [Agents -> {"free", "spawned", "running", "notified"}]
        BY <1>7
    <2>2. \A a \in Agents :
             /\ a \in f.seen => a \in s.seen \/ (k[a] # "idle" /\ f.occupancy[a] = "spawned")
             /\ f.occupancy[a] # "free" => s.occupancy[a] # "free" \/ a \in f.seen
             /\ \/ f.occupancy[a] = s.occupancy[a]
                \/ f.occupancy[a] = "spawned"
                \/ /\ f.occupancy[a] = "running" /\ k[a] # "called"
                   /\ k[a] = "running" => \A i \in DOMAIN r : r[i].kind = "level" => a \in r[i].agents
                \/ k[a] = "ended"
                \/ ~(Under(k, a) /\ a \in s.seen \ s.abandoned /\ Engaged(s))
        BY <1>7
    <2> HIDE DEF Moves
    <2> QED BY <1>4, <2>1, <2>2, MovedTracks
<1>8. CASE m.kind \in {"output", "tool", "toolDone", "result"}
    <2>1. SameSession(s, Observed(s)) /\ SameSession(s, s)
        BY <1>4, ObservedSame DEF SameSession, SameTurn, SessionFields
    <2>2. f \in {s, Observed(s), [Observed(s) EXCEPT !.tool = TRUE], [s EXCEPT !.tool = FALSE]}
        BY <1>1, <1>8 DEF TurnEvent
    <2>3. SameSession(s, [Observed(s) EXCEPT !.tool = TRUE]) /\ SameSession(s, [s EXCEPT !.tool = FALSE])
        BY <2>1, <1>4 DEF SameSession, SameTurn, SessionFields
    <2>4. SameSession(s, f)
        BY <2>1, <2>2, <2>3
    <2> QED BY <1>2, <1>6, <2>4
<1>9. CASE m.kind = "spawn"
    <2>1. PICK a \in Agents : m.agents = {a} /\ k[a] # "idle"
        BY <1>3, <1>9 DEF MessageFits
    <2>2. PICK o : o = [s.occupancy EXCEPT ![a] = IF s.occupancy[a] = "free" THEN "spawned" ELSE s.occupancy[a]]
        OBVIOUS
    <2>3. PICK g : g = Observed(s)
        OBVIOUS
    <2>4. SameSession(s, g)
        BY <1>4, <2>3, ObservedSame
    <2>5. f = [g EXCEPT !.delegated = g.delegated \cup m.agents, !.seen = g.seen \cup m.agents,
                        !.occupancy = OccupySpawn(g.occupancy, a)]
        BY <1>1, <1>9, <2>1, <2>3, SubjectIs DEF TurnEvent
    <2>6. OccupySpawn(g.occupancy, a) = o
        BY <2>2, <2>4 DEF OccupySpawn, SameSession
    <2>7. SameTurn(s, f) /\ f.abandoned = s.abandoned /\ f.seen = s.seen \cup {a} /\ f.occupancy = o
        BY <2>1, <2>4, <2>5, <2>6 DEF SameSession, SameTurn, SessionFields
    <2>8. o \in [Agents -> {"free", "spawned", "running", "notified"}] /\ s.seen \subseteq Agents
          /\ (\A b \in Agents : b # a => o[b] = s.occupancy[b])
          /\ o[a] = (IF s.occupancy[a] = "free" THEN "spawned" ELSE s.occupancy[a])
          /\ (s.occupancy[a] # "free" => a \in s.seen)
        BY <2>2 DEF SessionGood, SessionBase
    <2>9. Moves(o)
        BY <2>1, <2>7, <2>8
    <2> QED BY <1>2, <1>7, <2>9
<1>10. CASE m.kind \in {"started", "launched"}
    <2>1. PICK a \in Agents : m.agents = {a} /\ k[a] \in {"running", "ended"}
        BY <1>3, <1>10 DEF MessageFits
    <2>2. PICK o : o = [s.occupancy EXCEPT ![a] = IF s.occupancy[a] = "spawned" THEN "running" ELSE s.occupancy[a]]
        OBVIOUS
    <2>3. f = [s EXCEPT !.occupancy = o] \/ f = [s EXCEPT !.delegated = s.delegated \ m.agents, !.occupancy = o]
        <3>1. Subject(m) = a
            BY <2>1, SubjectIs
        <3>2. Bind(s.occupancy, a) = o
            BY <2>2 DEF Bind
        <3>3. CASE m.kind = "started"
            BY <1>1, <3>1, <3>2, <3>3 DEF TurnEvent
        <3>4. CASE m.kind = "launched"
            BY <1>1, <3>1, <3>2, <3>4 DEF TurnEvent
        <3> QED BY <1>10, <3>3, <3>4
    <2>4. SameTurn(s, f) /\ f.abandoned = s.abandoned /\ f.seen = s.seen /\ f.occupancy = o
        BY <1>4, <2>3 DEF SameTurn, SessionFields
    <2>5. o \in [Agents -> {"free", "spawned", "running", "notified"}] /\ s.seen \subseteq Agents
          /\ (\A b \in Agents : b # a => o[b] = s.occupancy[b])
          /\ o[a] = (IF s.occupancy[a] = "spawned" THEN "running" ELSE s.occupancy[a])
        BY <2>2 DEF SessionGood, SessionBase
    <2>6. ASSUME NEW i \in DOMAIN r, r[i].kind = "level", k[a] = "running" PROVE a \in r[i].agents
        <3>1. i + 1 \in DOMAIN q /\ 1 < i + 1 /\ r[i] = q[i + 1]
            BY <1>3
        <3>2. q[1].kind \in {"started", "launched"} /\ q[i + 1].kind = "level" /\ a \in q[1].agents
            BY <1>3, <1>10, <2>1, <2>6, <3>1
        <3> QED BY <1>3, <2>6, <3>1, <3>2 DEF MessagesGood
    <2>7. k[a] # "called"
        BY <2>1
    <2>8. Moves(o)
        BY <2>1, <2>4, <2>5, <2>6, <2>7
    <2> QED BY <1>2, <1>7, <2>8
<1>11. CASE m.kind = "settled"
    <2>1. PICK a \in Agents : m.agents = {a} /\ k[a] = "ended"
        BY <1>3, <1>11 DEF MessageFits
    <2>2. f = Settle(s, a)
        BY <1>1, <1>11, <2>1, SubjectIs DEF TurnEvent
    <2>3. SessionGood(f) /\ Tracked(f, k, r) /\ SameTurn(s, f)
        BY <1>4, <2>1, <2>2, SettleKeeps
    <2> QED BY <1>2, <2>3
<1>12. CASE m.kind = "level"
    <2>1. PICK o : o = [a \in Agents |-> IF s.occupancy[a] = "running" /\ a \notin m.agents THEN "notified" ELSE s.occupancy[a]]
        OBVIOUS
    <2>2. PICK g : g = [s EXCEPT !.occupancy = o]
        OBVIOUS
    <2>3. f = Armed(g)
        BY <1>1, <1>12, <2>1, <2>2 DEF TurnEvent, ObserveLive
    <2>4. SameTurn(s, g) /\ g.abandoned = s.abandoned /\ g.seen = s.seen /\ g.occupancy = o
        BY <1>4, <2>2 DEF SameTurn, SessionFields
    <2>5. SameTurn(s, f) /\ f.abandoned = s.abandoned /\ f.seen = s.seen /\ f.occupancy = o
        <3>1. SameSession(g, f)
            BY <2>3, <2>4, ArmedSame DEF SameTurn
        <3> QED BY <2>4, <3>1 DEF SameSession, SameTurn
    <2>6. o \in [Agents -> {"free", "spawned", "running", "notified"}] /\ s.seen \subseteq Agents
        BY <2>1 DEF SessionGood, SessionBase
    <2>7. ASSUME NEW a \in Agents
          PROVE  /\ o[a] # "free" => s.occupancy[a] # "free"
                 /\ o[a] = s.occupancy[a] \/ ~(Under(k, a) /\ a \in s.seen \ s.abandoned /\ Engaged(s))
        <3>1. o[a] = IF s.occupancy[a] = "running" /\ a \notin m.agents THEN "notified" ELSE s.occupancy[a]
            BY <2>1
        <3>2. CASE s.occupancy[a] = "running" /\ a \notin m.agents
            BY <1>3, <1>12, <3>1, <3>2 DEF Tracked
        <3> QED BY <3>1, <3>2
    <2>8. Moves(o)
        BY <2>5, <2>6, <2>7
    <2> QED BY <1>2, <1>7, <2>8
<1> QED BY <1>5, <1>8, <1>9, <1>10, <1>11, <1>12 DEF Kinds

LEMMA SessionEventKeeps ==
    ASSUME NEW s, SessionGood(s), NEW k \in [Agents -> TaskStates], NEW q, q # <<>>, MessagesGood(q, k), Tracked(s, k, q),
           NEW f, f \in {s, TurnEvent(s, Head(q)), SessionEvent(s, Head(q))} \/ (Head(q).kind = "settled" /\ f = Settle(s, Subject(Head(q))))
    PROVE  SessionGood(f) /\ Tracked(f, k, Tail(q)) /\ SameTurn(s, f)
<1>1. f = s \/ f = TurnEvent(s, Head(q)) \/ (Head(q).kind = "settled" /\ f = Settle(s, Subject(Head(q))))
    BY DEF SessionEvent
<1>2. CASE f = s
    BY <1>2, ReadTracks DEF SameTurn, SessionGood, SessionBase
<1>3. CASE f = TurnEvent(s, Head(q))
    BY <1>3, EventKeeps
<1>4. CASE Head(q).kind = "settled" /\ f = Settle(s, Subject(Head(q)))
    <2>1. MessageFits(Head(q), k) /\ \A i \in DOMAIN Tail(q) : i + 1 \in DOMAIN q /\ Tail(q)[i] = q[i + 1]
        BY ReadOne
    <2>2. PICK a \in Agents : Head(q).agents = {a} /\ k[a] = "ended"
        BY <1>4, <2>1 DEF MessageFits
    <2>3. f = Settle(s, a)
        BY <1>4, <2>2, SubjectIs
    <2>4. \A i \in DOMAIN Tail(q) : \E j \in DOMAIN q : Tail(q)[i] = q[j]
        BY <2>1
    <2> QED BY <2>2, <2>3, <2>4, SettleKeeps
<1> QED BY <1>1, <1>2, <1>3, <1>4

(***************************************************************************)
(* Tasks that go on, and messages that come                                 *)
(***************************************************************************)

\* What a task may become, when no Subagent is resumed.
GoesOn(x, y) ==
    \/ y = x
    \/ x = "idle" /\ y = "called"
    \/ x = "called" /\ y = "running"
    \/ x # "idle" /\ y = "ended"

LEMMA TasksGoOn ==
    ASSUME NEW k \in [Agents -> TaskStates], NEW l \in [Agents -> TaskStates],
           \A a \in Agents : GoesOn(k[a], l[a]), NEW q, MessagesGood(q, k), NEW s, Tracked(s, k, q)
    PROVE  MessagesGood(q, l) /\ Tracked(s, l, q)
<1>1. \A a \in Agents : /\ k[a] # "idle" => l[a] # "idle"
                        /\ k[a] = "ended" => l[a] = "ended"
                        /\ k[a] \in {"running", "ended"} => l[a] \in {"running", "ended"}
                        /\ l[a] = "running" => k[a] \in {"called", "running"}
                        /\ l[a] = "called" => k[a] \in {"idle", "called"}
    BY DEF GoesOn
<1>2. ASSUME NEW m, MessageFits(m, k) PROVE MessageFits(m, l)
    <2>1. m.kind \in {"spawn", "started", "launched", "settled"} => \E a \in Agents : m.agents = {a} /\ l[a] # "idle"
        BY <1>1, <1>2 DEF MessageFits
    <2>2. m.kind = "settled" => \A a \in m.agents : l[a] = "ended"
        BY <1>1, <1>2 DEF MessageFits
    <2>3. m.kind \in {"started", "launched"} => \A a \in m.agents : l[a] \in {"running", "ended"}
        BY <1>1, <1>2 DEF MessageFits
    <2> QED BY <1>2, <2>1, <2>2, <2>3 DEF MessageFits
<1>3. ASSUME NEW m, MessageFits(m, k), m.kind \in {"started", "launched"}, NEW a \in m.agents, l[a] = "running"
      PROVE  k[a] = "running"
    <2>1. a \in Agents /\ k[a] \in {"running", "ended"}
        BY <1>3 DEF MessageFits
    <2> QED BY <1>1, <1>3, <2>1
<1>4. MessagesGood(q, l)
    <2>1. q \in Seq(NativeMessages) /\ \A i \in DOMAIN q : MessageFits(q[i], k) /\ MessageFits(q[i], l)
        BY <1>2 DEF MessagesGood
    <2>2. ASSUME NEW i \in DOMAIN q, NEW j \in DOMAIN q, i < j, q[i].kind \in {"started", "launched"}, q[j].kind = "level",
                 NEW a \in q[i].agents, l[a] = "running"
          PROVE  a \in q[j].agents
        <3>1. k[a] = "running"
            BY <1>3, <2>1, <2>2
        <3> QED BY <2>2, <3>1 DEF MessagesGood
    <2> QED BY <2>1, <2>2 DEF MessagesGood
<1>5. ASSUME NEW a \in Agents
      PROVE  /\ l[a] = "idle" => a \notin s.seen
             /\ Under(l, a) /\ a \in s.seen \ s.abandoned /\ Engaged(s) =>
                  \/ s.occupancy[a] = "spawned"
                  \/ /\ s.occupancy[a] = "running" /\ l[a] = "running"
                     /\ \A i \in DOMAIN q : q[i].kind = "level" => a \in q[i].agents
    <2>1. l[a] = "idle" => k[a] = "idle"
        BY <1>1
    <2>2. Under(l, a) /\ a \in s.seen => Under(k, a)
        BY <1>1 DEF Under, Tracked
    <2>3. k[a] = "running" /\ Under(l, a) => l[a] = "running"
        BY <1>1 DEF Under
    <2> QED BY <2>1, <2>2, <2>3 DEF Tracked
<1> QED BY <1>4, <1>5 DEF Tracked

LEMMA OneComes ==
    ASSUME NEW k, NEW q, MessagesGood(q, k), NEW s, Tracked(s, k, q),
           NEW m \in NativeMessages, MessageFits(m, k), Lists(m, k)
    PROVE  MessagesGood(Append(q, m), k) /\ Tracked(s, k, Append(q, m))
<1>1. PICK r : r = Append(q, m)
    OBVIOUS
<1>2. q \in Seq(NativeMessages)
    BY DEF MessagesGood
<1>3. /\ r \in Seq(NativeMessages) /\ Len(q) \in Nat /\ Len(r) = Len(q) + 1
      /\ \A i \in 1..Len(q) : r[i] = q[i]
      /\ r[Len(q) + 1] = m
      /\ DOMAIN q = 1..Len(q) /\ DOMAIN r = 1..Len(r)
    BY <1>1, <1>2, AppendProperties, LenProperties
<1>4. \A i \in DOMAIN r : i \in Nat /\ ((i \in DOMAIN q /\ r[i] = q[i]) \/ (i = Len(q) + 1 /\ r[i] = m))
    BY <1>3
<1>5. \A i \in DOMAIN q : i \in Nat /\ i < Len(q) + 1
    BY <1>3
<1>6. \A i \in DOMAIN r : MessageFits(r[i], k)
    BY <1>4 DEF MessagesGood
<1>7. ASSUME NEW i \in DOMAIN r, NEW j \in DOMAIN r, i < j, r[i].kind \in {"started", "launched"}, r[j].kind = "level",
             NEW a \in r[i].agents, k[a] = "running"
      PROVE  a \in r[j].agents
    <2>1. i \in DOMAIN q /\ r[i] = q[i]
        <3>1. j \in Nat /\ j <= Len(q) + 1
            BY <1>3, <1>4, <1>5
        <3> QED BY <1>3, <1>4, <1>7, <3>1
    <2>2. CASE j \in DOMAIN q /\ r[j] = q[j]
        BY <1>7, <2>1, <2>2 DEF MessagesGood
    <2>3. CASE r[j] = m
        <3>1. a \in Agents
            BY <1>6, <1>7 DEF MessageFits
        <3> QED BY <1>7, <2>3, <3>1 DEF Lists
    <2> QED BY <1>4, <2>2, <2>3
<1>8. ASSUME NEW a \in Agents, \A i \in DOMAIN q : q[i].kind = "level" => a \in q[i].agents, k[a] = "running"
      PROVE  \A i \in DOMAIN r : r[i].kind = "level" => a \in r[i].agents
    BY <1>4, <1>8 DEF Lists
<1>9. MessagesGood(r, k)
    BY <1>3, <1>6, <1>7 DEF MessagesGood
<1>10. Tracked(s, k, r)
    BY <1>8 DEF Tracked
<1> QED BY <1>1, <1>9, <1>10

LEMMA TheyCome ==
    ASSUME NEW k, NEW q, MessagesGood(q, k), NEW s, Tracked(s, k, q),
           NEW m \in NativeMessages, MessageFits(m, k), Lists(m, k),
           NEW n \in NativeMessages, MessageFits(n, k), Lists(n, k),
           NEW r, r \in {q, q \o <<m>>, q \o <<m, n>>}
    PROVE  MessagesGood(r, k) /\ Tracked(s, k, r)
<1>1. q \in Seq(NativeMessages)
    BY DEF MessagesGood
<1>2. q \o <<m>> = Append(q, m)
    BY <1>1, AppendIsConcat
<1>3. Append(q, m) \in Seq(NativeMessages)
    BY <1>1, AppendProperties
<1>4. q \o <<m, n>> = Append(Append(q, m), n)
    <2>1. PICK S : S = NativeMessages
        OBVIOUS
    <2>2. m \in S /\ n \in S /\ q \in Seq(S)
        BY <1>1, <2>1
    <2>3. PICK w : w = <<m, n>>
        OBVIOUS
    <2>4. w \in Seq(S) /\ Len(w) = 2 /\ w[1] = m /\ w[2] = n
        BY <2>2, <2>3
    <2>5. PICK x : x = q \o w
        OBVIOUS
    <2>6. /\ x \in Seq(S) /\ Len(x) = Len(q) + 2 /\ Len(q) \in Nat
          /\ \A i \in 1..Len(x) : x[i] = IF i <= Len(q) THEN q[i] ELSE w[i - Len(q)]
        <3>1. /\ q \o w \in Seq(S) /\ Len(q \o w) = Len(q) + Len(w)
              /\ \A i \in 1..(Len(q) + Len(w)) : (q \o w)[i] = IF i <= Len(q) THEN q[i] ELSE w[i - Len(q)]
            BY <2>2, <2>4, ConcatProperties
        <3>2. x \in Seq(S) /\ Len(x) = Len(q) + 2
              /\ \A i \in 1..(Len(q) + 2) : x[i] = IF i <= Len(q) THEN q[i] ELSE w[i - Len(q)]
            BY <2>4, <2>5, <3>1
        <3>3. Len(q) \in Nat
            BY <2>2, LenProperties
        <3> QED BY <3>2, <3>3
    <2>7. PICK y : y = Append(q, m)
        OBVIOUS
    <2>8. y \in Seq(S) /\ Len(y) = Len(q) + 1 /\ (\A i \in 1..Len(q) : y[i] = q[i]) /\ y[Len(q) + 1] = m
        BY <2>2, <2>7, AppendProperties
    <2>9. PICK z : z = Append(y, n)
        OBVIOUS
    <2>10. z \in Seq(S) /\ Len(z) = Len(y) + 1 /\ (\A i \in 1..Len(y) : z[i] = y[i]) /\ z[Len(y) + 1] = n
        BY <2>2, <2>8, <2>9, AppendProperties
    <2>11. ASSUME NEW i \in 1..Len(x) PROVE x[i] = z[i]
        <3>1. i \in 1..Len(q) \/ i = Len(q) + 1 \/ i = Len(q) + 2
            BY <2>6
        <3> QED BY <2>4, <2>6, <2>8, <2>10, <3>1
    <2>12. Len(x) = Len(z)
        BY <2>6, <2>8, <2>10
    <2>13. x = z
        BY <2>6, <2>10, <2>11, <2>12, SeqEqual
    <2> QED BY <2>3, <2>5, <2>7, <2>9, <2>13
<1>5. MessagesGood(Append(q, m), k) /\ Tracked(s, k, Append(q, m))
    BY OneComes
<1>6. MessagesGood(Append(Append(q, m), n), k) /\ Tracked(s, k, Append(Append(q, m), n))
    BY <1>5, OneComes
<1> QED BY <1>2, <1>4, <1>5, <1>6

\* What the process may write, whatever its tasks.
Told(m) == m \in NativeMessages /\ m.kind \in {"output", "tool", "toolDone", "result"}
LEMMA MessagesAre ==
    /\ \A x \in {"output", "tool", "toolDone"} : Told(NativeMessage(x))
    /\ \A x \in {"success", "error", "aborted"} : Told(Result(x))
    /\ \A m, k : Told(m) => MessageFits(m, k) /\ Lists(m, k)
    /\ \A x \in Kinds, a \in Agents : About(x, a) \in NativeMessages /\ About(x, a).kind = x /\ About(x, a).agents = {a}
    /\ \A S \in SUBSET Agents : Level(S) \in NativeMessages /\ Level(S).kind = "level" /\ Level(S).agents = S
<1>1. \A x \in Kinds : NativeMessage(x) \in NativeMessages /\ NativeMessage(x).kind = x
    BY DEF NativeMessage, NativeMessages
<1>2. \A x \in {"output", "tool", "toolDone"} : Told(NativeMessage(x))
    BY <1>1 DEF Told, Kinds
<1>3. \A x \in {"success", "error", "aborted"} : Told(Result(x))
    BY DEF Told, Result, NativeMessage, NativeMessages, Kinds
<1>4. \A x \in Kinds, a \in Agents : About(x, a) \in NativeMessages /\ About(x, a).kind = x /\ About(x, a).agents = {a}
    BY DEF About, NativeMessage, NativeMessages
<1>5. \A S \in SUBSET Agents : Level(S) \in NativeMessages /\ Level(S).kind = "level" /\ Level(S).agents = S
    BY DEF Level, NativeMessage, NativeMessages, Kinds
<1>6. \A m, k : Told(m) => MessageFits(m, k) /\ Lists(m, k)
    BY DEF Told, MessageFits, Lists
<1> QED BY <1>2, <1>3, <1>4, <1>5, <1>6

(***************************************************************************)
(* Steps of the process: the Session does not change                        *)
(***************************************************************************)

SettledStep == SettleInv' /\ (Succeeds(claude, claude') => AllRest(claude, task))

\* A step of the process, by what it does to its tasks and what it writes.
Writes(m, n) ==
    /\ m \in NativeMessages /\ MessageFits(m, task') /\ Lists(m, task')
    /\ n \in NativeMessages /\ MessageFits(n, task') /\ Lists(n, task')
    /\ stream' \in {stream, stream \o <<m>>, stream \o <<m, n>>}
Proceeds ==
    /\ SessionQuiet /\ alive' \in {alive, FALSE} /\ task' \in [Agents -> TaskStates]
    /\ \A a \in Agents : GoesOn(task[a], task'[a])
    /\ alive' # alive => NoneUnder(task')
    /\ \A a \in calls' : task'[a] # "idle"
    /\ \E m, n : Writes(m, n)

LEMMA ProcessKeeps ==
    ASSUME SettleInv, alive, Proceeds
    PROVE  SettledStep
<1>1. claude' = claude /\ running' = running /\ acc' = acc /\ idle' = idle /\ transport' = transport
    BY DEF Proceeds, SessionQuiet, readVars
<1>2. MessagesGood(stream', task') /\ Tracked(claude, task', stream')
    <2>1. MessagesGood(stream, task') /\ Tracked(claude, task', stream)
        BY TasksGoOn DEF Proceeds, SettleInv
    <2>2. PICK m, n : Writes(m, n)
        BY DEF Proceeds
    <2> QED BY <2>1, <2>2, TheyCome DEF Writes
<1>3. alive' => alive
    BY DEF Proceeds
<1>4. ~alive' => NoneUnder(task')
    BY DEF Proceeds
<1>5. TransportGood'
    BY <1>1, <1>3 DEF TransportGood, SettleInv, AccFields
<1>6. SettleInv'
    BY <1>1, <1>2, <1>4, <1>5 DEF SettleInv, Proceeds
<1>7. ~Succeeds(claude, claude')
    BY <1>1 DEF Succeeds
<1> QED BY <1>6, <1>7 DEF SettledStep

\* A step that leaves the tasks alone.
LEMMA TalkKeeps ==
    ASSUME SettleInv, alive, SessionQuiet, alive' = alive, task' = task, calls' = calls,
           NEW m, Told(m), stream' \in {stream, stream \o <<m>>}
    PROVE  SettledStep
<1>1. Writes(m, m)
    BY MessagesAre DEF Writes, Told
<1>2. Proceeds
    BY <1>1 DEF Proceeds, GoesOn, SettleInv
<1> QED BY <1>2, ProcessKeeps

LEMMA TalkSteps ==
    ASSUME SettleInv, BeginPrompt \/ BeginOwn \/ LetGo \/ Absorb \/ UseTool \/ ToolReturns
    PROVE  SettledStep
<1>1. alive /\ SessionQuiet /\ alive' = alive /\ task' = task /\ calls' = calls
    BY DEF BeginPrompt, BeginOwn, LetGo, Absorb, UseTool, ToolReturns
<1>2. PICK m : Told(m) /\ stream' \in {stream, stream \o <<m>>}
    BY MessagesAre DEF BeginPrompt, BeginOwn, LetGo, Absorb, UseTool, ToolReturns, Emit
<1> QED BY <1>1, <1>2, TalkKeeps

LEMMA DelegateKeeps ==
    ASSUME SettleInv, Resumes = FALSE, NEW a \in Agents, Delegate(a)
    PROVE  SettledStep
<1>1. alive /\ SessionQuiet /\ alive' = alive /\ task[a] = "idle" /\ stream' = stream \o <<About("spawn", a)>>
      /\ task' = [task EXCEPT ![a] = "called"] /\ calls' = calls \cup {a}
    BY DEF Delegate, Emit
<1>2. task \in [Agents -> TaskStates]
    BY DEF SettleInv
<1>3. task' \in [Agents -> TaskStates] /\ task'[a] = "called" /\ \A b \in Agents : b # a => task'[b] = task[b]
    BY <1>1, <1>2 DEF TaskStates
<1>4. PICK m : m = About("spawn", a)
    OBVIOUS
<1>5. m \in NativeMessages /\ m.kind = "spawn" /\ m.agents = {a}
    BY <1>4, MessagesAre DEF Kinds
<1>6. Writes(m, m)
    BY <1>1, <1>3, <1>4, <1>5 DEF Writes, MessageFits, Lists
<1>7. \A b \in Agents : GoesOn(task[b], task'[b])
    BY <1>1, <1>3 DEF GoesOn
<1>8. \A b \in calls' : task'[b] # "idle"
    BY <1>1, <1>2 DEF SettleInv
<1>9. Proceeds
    BY <1>1, <1>3, <1>6, <1>7, <1>8 DEF Proceeds
<1> QED BY <1>1, <1>9, ProcessKeeps

LEMMA TaskStartsKeeps ==
    ASSUME SettleInv, NEW a \in Agents, TaskStarts(a)
    PROVE  SettledStep
<1>1. alive /\ SessionQuiet /\ alive' = alive /\ task[a] = "called" /\ task' = [task EXCEPT ![a] = "running"]
      /\ stream' = stream \o <<About("started", a), Level(Live \cup {a})>> /\ calls' = calls
    BY DEF TaskStarts, Emit
<1>2. task \in [Agents -> TaskStates]
    BY DEF SettleInv
<1>3. task' \in [Agents -> TaskStates] /\ task'[a] = "running" /\ \A b \in Agents : b # a => task'[b] = task[b]
    BY <1>1, <1>2 DEF TaskStates
<1>4. PICK m, n : m = About("started", a) /\ n = Level(Live \cup {a})
    OBVIOUS
<1>5. /\ m \in NativeMessages /\ m.kind = "started" /\ m.agents = {a}
      /\ n \in NativeMessages /\ n.kind = "level" /\ n.agents = Live \cup {a}
    BY <1>4, MessagesAre DEF Kinds, Live
<1>6. Writes(m, n)
    BY <1>1, <1>3, <1>4, <1>5 DEF Writes, MessageFits, Lists, Live
<1>7. \A b \in Agents : GoesOn(task[b], task'[b])
    BY <1>1, <1>3 DEF GoesOn
<1>8. \A b \in calls' : task'[b] # "idle"
    BY <1>1, <1>2 DEF SettleInv
<1>9. Proceeds
    BY <1>1, <1>3, <1>6, <1>7, <1>8 DEF Proceeds
<1> QED BY <1>1, <1>9, ProcessKeeps

LEMMA CallReturnsKeeps ==
    ASSUME SettleInv, NEW a \in Agents, CallReturns(a)
    PROVE  SettledStep
<1>1. alive /\ SessionQuiet /\ alive' = alive /\ a \in calls /\ task[a] # "called" /\ task' = task
      /\ stream' = stream \o <<About("launched", a)>> /\ calls' = calls \ {a}
    BY DEF CallReturns, Emit
<1>2. task[a] \in {"running", "ended"}
    BY <1>1 DEF SettleInv, TaskStates
<1>3. PICK m : m = About("launched", a)
    OBVIOUS
<1>4. m \in NativeMessages /\ m.kind = "launched" /\ m.agents = {a}
    BY <1>3, MessagesAre DEF Kinds
<1>5. Writes(m, m)
    BY <1>1, <1>2, <1>3, <1>4 DEF Writes, MessageFits, Lists
<1>6. Proceeds
    BY <1>1, <1>5 DEF Proceeds, GoesOn, SettleInv
<1> QED BY <1>1, <1>6, ProcessKeeps

LEMMA TaskEndsKeeps ==
    ASSUME SettleInv, NEW a \in Agents, TaskEnds(a)
    PROVE  SettledStep
<1>1. alive /\ SessionQuiet /\ alive' = alive /\ task[a] = "running" /\ task' = [task EXCEPT ![a] = "ended"] /\ calls' = calls
    BY DEF TaskEnds
<1>2. task \in [Agents -> TaskStates]
    BY DEF SettleInv
<1>3. task' \in [Agents -> TaskStates] /\ task'[a] = "ended" /\ \A b \in Agents : b # a => task'[b] = task[b]
    BY <1>1, <1>2 DEF TaskStates
<1>4. PICK m, n : m = About("settled", a) /\ n = Level(Live \ {a})
    OBVIOUS
<1>5. /\ m \in NativeMessages /\ m.kind = "settled" /\ m.agents = {a}
      /\ n \in NativeMessages /\ n.kind = "level" /\ n.agents = Live \ {a}
    BY <1>4, MessagesAre DEF Kinds, Live
<1>6. stream' \in {stream \o <<m, n>>, stream \o <<n, m>>, stream \o <<n>>}
    BY <1>4 DEF TaskEnds, Emit
<1>7. /\ MessageFits(m, task') /\ Lists(m, task')
      /\ MessageFits(n, task') /\ Lists(n, task')
    BY <1>3, <1>5 DEF MessageFits, Lists, Live
<1>8. Writes(m, n) \/ Writes(n, m)
    BY <1>5, <1>6, <1>7 DEF Writes
<1>9. \A b \in Agents : GoesOn(task[b], task'[b])
    BY <1>1, <1>3 DEF GoesOn
<1>10. \A b \in calls' : task'[b] # "idle"
    BY <1>1, <1>2 DEF SettleInv
<1>11. Proceeds
    BY <1>1, <1>3, <1>8, <1>9, <1>10 DEF Proceeds
<1> QED BY <1>1, <1>11, ProcessKeeps

LEMMA OtherTaskKeeps ==
    ASSUME SettleInv, OtherTaskChanges
    PROVE  SettledStep
<1>1. alive /\ SessionQuiet /\ alive' = alive /\ task' = task /\ calls' = calls /\ stream' = stream \o <<Level(Live)>>
    BY DEF OtherTaskChanges, nativeVars, Emit
<1>2. PICK n : n = Level(Live)
    OBVIOUS
<1>3. n \in NativeMessages /\ n.kind = "level" /\ n.agents = Live
    BY <1>2, MessagesAre DEF Live
<1>4. Writes(n, n)
    BY <1>1, <1>2, <1>3 DEF Writes, MessageFits, Lists, Live
<1>5. Proceeds
    BY <1>1, <1>4 DEF Proceeds, GoesOn, SettleInv
<1> QED BY <1>1, <1>5, ProcessKeeps

LEMMA EndSegmentKeeps ==
    ASSUME SettleInv, NEW end \in {"success", "error", "aborted"}, EndSegment(end)
    PROVE  SettledStep
<1>1. alive /\ SessionQuiet /\ alive' = alive /\ stream' = stream \o <<Result(end)>> /\ calls' = {}
      /\ task' = [a \in Agents |-> IF task[a] = "called" THEN "ended" ELSE task[a]]
    BY DEF EndSegment, Emit
<1>2. task' \in [Agents -> TaskStates] /\ \A a \in Agents : GoesOn(task[a], task'[a])
    BY <1>1 DEF SettleInv, TaskStates, GoesOn
<1>3. PICK m : m = Result(end)
    OBVIOUS
<1>4. Told(m)
    BY <1>3, MessagesAre
<1>5. Writes(m, m)
    BY <1>1, <1>3, <1>4, MessagesAre DEF Writes, Told
<1>6. Proceeds
    BY <1>1, <1>2, <1>5 DEF Proceeds
<1> QED BY <1>1, <1>6, ProcessKeeps

LEMMA DeadTasks ==
    ASSUME SettleInv
    PROVE  Dead \in [Agents -> TaskStates] /\ NoneUnder(Dead) /\ \A a \in Agents : GoesOn(task[a], Dead[a])
BY DEF SettleInv, TaskStates, GoesOn, Dead, NoneUnder, Under

LEMMA DiesKeeps ==
    ASSUME SettleInv, Dies
    PROVE  SettledStep
<1>1. alive /\ SessionQuiet /\ alive' = FALSE /\ stream' = stream /\ calls' = {} /\ task' = Dead
    BY DEF Dies, Killed
<1>2. PICK m : m = NativeMessage("output")
    OBVIOUS
<1>3. Writes(m, m)
    BY <1>1, <1>2, MessagesAre DEF Writes, Told
<1>4. Proceeds
    BY <1>1, <1>3, DeadTasks DEF Proceeds
<1> QED BY <1>1, <1>4, ProcessKeeps

(***************************************************************************)
(* Steps of the Session and of the transport: the tasks do not change       *)
(***************************************************************************)

Still == UNCHANGED <<alive, task, calls, stream>>

\* Who interprets the result of a cancelled Turn knows it, for a Session s.
Warned(s) ==
    alive /\ s.active # NoTurn /\ s.cancelled /\ ~s.hardCancel =>
         IF running # NoTurn THEN acc.cancel ELSE s.idleLive /\ idle.open /\ idle.cancel

LEMMA StillKeeps ==
    ASSUME SettleInv, Still, SessionGood(claude'), Tracked(claude', task, stream), TransportGood'
    PROVE  SettleInv'
BY DEF SettleInv, Still

LEMMA SameTransport ==
    ASSUME TransportGood, NEW s, SameTurn(s, claude'), UNCHANGED <<alive, running, transport>>,
           running # NoTurn => s.active = running \/ (s.active = NoTurn /\ s.phase # "open"),
           s.held => running = NoTurn, AccFields(acc'), AccFields(idle'),
           alive /\ s.active # NoTurn /\ s.cancelled /\ ~s.hardCancel =>
             IF running # NoTurn THEN acc'.cancel ELSE s.idleLive /\ idle'.open /\ idle'.cancel
    PROVE  TransportGood'
BY DEF TransportGood, SameTurn

\* The Session is the same but for an output it has seen, its interactions and its timers.
LEMMA QuietKeeps ==
    ASSUME SettleInv, Still, SameSession(claude, claude'), UNCHANGED <<running, acc, idle, transport>>
    PROVE  SettledStep
<1>1. SessionGood(claude')
    BY SameIsGood DEF SettleInv
<1>2. Tracked(claude', task, stream)
    BY SameFollows, FollowsTracks DEF SettleInv
<1>3. SameTurn(claude, claude')
    BY DEF SameSession
<1>4. TransportGood'
    BY <1>3, SameTransport DEF SettleInv, TransportGood, Still
<1>5. ~Succeeds(claude, claude')
    BY <1>3 DEF SameTurn, Succeeds
<1> QED BY <1>1, <1>2, <1>4, <1>5, StillKeeps DEF SettledStep

LEMMA SelfSame ==
    ASSUME NEW s, SessionGood(s)
    PROVE  SessionFields(s) /\ SameSession(s, s)
BY DEF SessionGood, SessionBase, SameSession, SameTurn

LEMMA AskKeeps ==
    ASSUME SettleInv, NEW q \in Interactions, AskPermission(q)
    PROVE  SettledStep
<1>1. Still /\ UNCHANGED <<running, acc, idle, transport>>
    BY DEF AskPermission, Still
<1>2. SessionFields(claude) /\ SameSession(claude, claude)
    BY SelfSame DEF SettleInv
<1>3. PICK g : g = Observed(claude)
    OBVIOUS
<1>4. SameSession(claude, g)
    BY <1>2, <1>3, ObservedSame
<1>5. claude' = claude \/ claude' = [g EXCEPT !.asks = g.asks \cup {q}]
    BY <1>3 DEF AskPermission
<1>6. SameSession(g, [g EXCEPT !.asks = g.asks \cup {q}])
    BY <1>4 DEF SameSession, SameTurn, SessionFields
<1>7. SameSession(claude, claude')
    BY <1>2, <1>4, <1>5, <1>6, SameTwice
<1> QED BY <1>1, <1>7, QuietKeeps

LEMMA SettledKeeps ==
    ASSUME SettleInv, NEW q \in Interactions, Settled(q)
    PROVE  SettledStep
<1>1. Still /\ UNCHANGED <<running, acc, idle, transport>>
    BY DEF Settled, Still
<1>2. SessionFields(claude) /\ SameSession(claude, claude)
    BY SelfSame DEF SettleInv
<1>3. claude' = claude \/ claude' = InteractionsClosed(claude, {q} \cap claude.asks)
    BY DEF Settled
<1>4. SameSession(claude, claude')
    BY <1>2, <1>3, ClosedSame
<1> QED BY <1>1, <1>4, QuietKeeps

LEMMA AbortReturnsKeeps ==
    ASSUME SettleInv, AbortReturns
    PROVE  SettledStep
<1>1. Still /\ UNCHANGED <<running, acc, idle, transport>>
    BY DEF AbortReturns, Still, Steady, readVars
<1>2. SessionFields(claude)
    BY SelfSame DEF SettleInv
<1>3. PICK e : claude' = [claude EXCEPT !.aborting = "none", !.escalate = e]
    BY DEF AbortReturns
<1>4. SameSession(claude, claude')
    BY <1>2, <1>3 DEF SameSession, SameTurn, SessionFields
<1> QED BY <1>1, <1>4, QuietKeeps

\* The transport closes under a Session s that has the Turn of claude.
Likewise(s) ==
    /\ s.active = claude.active /\ s.held = claude.held /\ s.ended = claude.ended
    /\ s.phase = "open" => claude.phase = "open"

LEMMA ClosesKeeps ==
    ASSUME SettleInv, NEW s, SessionGood(s), Tracked(s, task, stream), Likewise(s), Warned(s), TransportCloses(s),
           s.seen = claude.seen
    PROVE  SettledStep
<1>1. Still /\ UNCHANGED <<running, acc, idle>> /\ transport' \notin {"none", "closed"}
    BY DEF TransportCloses, Still, Steady, readVars
<1>2. SessionFields(s) /\ SameSession(s, s)
    BY SelfSame
<1>3. claude' = s
    BY DEF TransportCloses
<1>4. SameSession(s, claude')
    BY <1>2, <1>3
<1>5. SessionGood(claude')
    BY <1>4, SameIsGood
<1>6. Tracked(claude', task, stream)
    BY <1>4, SameFollows, FollowsTracks
<1>7. TransportGood'
    BY <1>1, <1>4 DEF TransportGood, SettleInv, Still, SameSession, SameTurn, Likewise, Warned
<1>8. ~Succeeds(claude, claude')
    BY <1>4 DEF SameSession, SameTurn, Likewise, Succeeds
<1> QED BY <1>1, <1>5, <1>6, <1>7, <1>8, StillKeeps DEF SettledStep

LEMMA StopsKeeps ==
    ASSUME SettleInv, StopsProcess
    PROVE  SettledStep
<1>1. Still /\ UNCHANGED <<running, acc, idle>> /\ transport' = "stopping"
    BY DEF StopsProcess, Still
<1>2. claude' = claude \/ claude' = InteractionsClosed(claude, pending \cap claude.asks)
    BY DEF StopsProcess
<1>3. SameSession(claude, claude')
    BY <1>2, SelfSame, ClosedSame DEF SettleInv
<1>4. SessionGood(claude')
    BY <1>3, SameIsGood DEF SettleInv
<1>5. Tracked(claude', task, stream)
    BY <1>3, SameFollows, FollowsTracks DEF SettleInv
<1>6. TransportGood'
    BY <1>1, <1>3 DEF SettleInv, TransportGood, SameSession, SameTurn, Still
<1>7. ~Succeeds(claude, claude')
    BY <1>3 DEF SameSession, SameTurn, Succeeds
<1> QED BY <1>1, <1>4, <1>5, <1>6, <1>7, StillKeeps DEF SettledStep

LEMMA HardCancelKeeps ==
    ASSUME SettleInv, NEW s, SessionGood(s), Tracked(s, task, stream), Likewise(s), s.seen = claude.seen, HardCancel(s)
    PROVE  SettledStep
<1>1. SessionFields(s)
    BY DEF SessionGood, SessionBase
<1>2. CASE transport = "closed"
    <2>1. PICK b : b = [s EXCEPT !.hardCancel = FALSE, !.escalate = FALSE]
        OBVIOUS
    <2>2. claude' = Finish(b, "cancelled", FALSE) /\ transport' = "none" /\ Steady /\ UNCHANGED readVars
        <3>1. [[s EXCEPT !.hardCancel = TRUE, !.escalate = FALSE] EXCEPT !.hardCancel = FALSE]
              = [s EXCEPT !.hardCancel = FALSE, !.escalate = FALSE]
            BY <1>1 DEF SessionFields
        <3> QED BY <1>2, <2>1, <3>1 DEF HardCancel
    <2>3. ~alive /\ running = NoTurn /\ NoneUnder(task)
        BY <1>2 DEF SettleInv, TransportGood
    <2>4. SessionBase(b) /\ b.ended = s.ended /\ Follows(s, b)
        BY <1>1, <2>1 DEF SessionGood, SessionBase, SessionFields, Follows, Engaged
    <2>5. Tracked(b, task, stream)
        BY <2>4, FollowsTracks
    <2>6. PICK o \in {"succeeded", "failed", "cancelled"} : o = "cancelled"
        OBVIOUS
    <2>7. PICK p \in BOOLEAN : p = FALSE
        OBVIOUS
    <2>8. claude' = Finish(b, o, p) /\ (o = "succeeded" => ~b.cancelled \/ NoneUnder(task)) /\ (o = "failed" => ~p)
          /\ (o = "cancelled" => p \/ NoneUnder(task)) /\ o # "succeeded"
        BY <2>2, <2>3, <2>6, <2>7
    <2>9. /\ SessionGood(claude') /\ Tracked(claude', task, stream)
          /\ claude'.active = NoTurn \/ (o = "succeeded" /\ claude'.active = b.active /\ ~claude'.cancelled)
          /\ Succeeds(b, claude') => o = "succeeded" /\ AllRest(b, task)
        BY <2>4, <2>5, <2>8, FinishKeeps
    <2>10. Still /\ UNCHANGED <<running, acc, idle>>
        BY <2>2 DEF Still, Steady, readVars
    <2>11. claude'.active = NoTurn /\ ~claude'.held
        BY <2>8, <2>9 DEF SessionGood, SessionBase
    <2>12. TransportGood'
        BY <2>2, <2>3, <2>10, <2>11 DEF TransportGood, SettleInv, Still
    <2>13. ~Succeeds(claude, claude')
        BY <2>4, <2>8, <2>9 DEF Likewise, Succeeds
    <2> QED BY <2>9, <2>10, <2>12, <2>13, StillKeeps DEF SettledStep
<1>3. CASE transport # "closed"
    <2>1. PICK b : b = [s EXCEPT !.hardCancel = TRUE, !.escalate = FALSE]
        OBVIOUS
    <2>2. TransportCloses(b)
        BY <1>3, <2>1 DEF HardCancel
    <2>3. SessionGood(b) /\ Follows(s, b) /\ Likewise(b) /\ Warned(b) /\ b.seen = claude.seen
        BY <1>1, <2>1 DEF SessionGood, SessionBase, SessionFields, Follows, Engaged, Likewise, Warned
    <2>4. Tracked(b, task, stream)
        BY <2>3, FollowsTracks
    <2> QED BY <2>2, <2>3, <2>4, ClosesKeeps
<1> QED BY <1>2, <1>3

LEMMA StartKeeps ==
    ASSUME SettleInv, NEW t \in Turns, StartHostTurn(t)
    PROVE  SettledStep
<1>1. PICK b : b = [claude EXCEPT !.active = t, !.root = TRUE]
    OBVIOUS
<1>2. claude.phase = "open" /\ claude.active = NoTurn /\ t # NoTurn /\ ~claude.held /\ ~claude.cancelled
    BY SessionAssumption DEF StartHostTurn, SettleInv, SessionGood, SessionBase
<1>3. SessionGood(b) /\ Follows(claude, b) /\ b.active = t /\ b.phase = "open" /\ ~b.held /\ ~b.cancelled
      /\ b.ended = claude.ended
    BY <1>1, <1>2 DEF SettleInv, SessionGood, SessionBase, SessionFields, Follows, Engaged
<1>4. Tracked(b, task, stream)
    BY <1>3, FollowsTracks DEF SettleInv
<1>5. UNCHANGED <<task, calls, stream, idle>>
    BY DEF StartHostTurn
<1>6. running = NoTurn
    BY <1>2, SessionAssumption DEF SettleInv, TransportGood
<1>7. CASE transport \in {"closing", "stopping", "closed"} \/ auto.started
    <2>1. claude' = Fault(b) /\ UNCHANGED <<alive, running, acc>>
          /\ transport' = IF transport = "open" THEN "closing" ELSE transport
        BY <1>1, <1>7 DEF StartHostTurn
    <2>2. SessionGood(claude') /\ Tracked(claude', task, stream) /\ ~Succeeds(b, claude') /\ claude'.active = NoTurn
        BY <1>3, <1>4, <2>1, FaultKeeps
    <2>3. ~claude'.held
        BY <2>2 DEF SessionGood, SessionBase
    <2>4. TransportGood'
        BY <1>5, <1>6, <2>1, <2>2, <2>3 DEF SettleInv, TransportGood
    <2>5. Still
        BY <1>5, <2>1 DEF Still
    <2> QED BY <1>3, <2>2, <2>4, <2>5, StillKeeps DEF SettledStep, Succeeds
<1>8. CASE ~(transport \in {"closing", "stopping", "closed"} \/ auto.started)
    <2>1. claude' = b /\ running' = t /\ acc' = Fresh /\ transport' = "open" /\ alive' = (alive \/ transport = "none")
        BY <1>1, <1>8 DEF StartHostTurn, StartsProcess
    <2>2. AccFields(Fresh)
        BY DEF AccFields, Fresh, NoAcc
    <2>3. AccFields(idle')
        BY <1>5 DEF SettleInv, TransportGood
    <2>4. TransportGood'
        BY <1>3, <1>6, <2>1, <2>2, <2>3 DEF TransportGood
    <2>5. SessionGood(claude') /\ Tracked(claude', task', stream')
        BY <1>3, <1>4, <1>5, <2>1
    <2>6. ~alive' => ~alive
        BY <2>1
    <2>7. SettleInv'
        BY <1>5, <2>4, <2>5, <2>6 DEF SettleInv
    <2>8. ~Succeeds(claude, claude')
        BY <1>3, <2>1 DEF Succeeds
    <2> QED BY <2>7, <2>8 DEF SettledStep
<1> QED BY <1>7, <1>8

LEMMA CancelKeeps ==
    ASSUME SettleInv, CancelClaudeTurn
    PROVE  SettledStep
<1>1. PICK b : b = [claude EXCEPT !.cancelled = TRUE]
    OBVIOUS
<1>2. claude.phase = "open" /\ claude.active # NoTurn
    BY DEF CancelClaudeTurn
<1>3. SessionBase(b) /\ SessionFields(b) /\ Follows(claude, b) /\ Likewise(b) /\ b.seen = claude.seen /\ b.cancelled
      /\ b.root = claude.root /\ b.hardCancel = claude.hardCancel /\ b.idleLive = claude.idleLive
    BY <1>1, <1>2 DEF SettleInv, SessionGood, SessionBase, SessionFields, Follows, Engaged, Likewise
<1>4. Tracked(b, task, stream)
    BY <1>3, FollowsTracks DEF SettleInv
<1>5. ~(claude.held /\ ~claude.root) => SessionGood(b)
    BY <1>2, <1>3 DEF SettleInv, SessionGood, Likewise
<1>6. CASE claude.held /\ ~claude.root
    <2>1. claude' = Finish(b, "cancelled", TRUE) /\ idle' = Kept(claude', idle)
          /\ Steady /\ UNCHANGED <<running, acc, transport>>
        BY <1>1, <1>6 DEF CancelClaudeTurn
    <2>2. PICK o \in {"succeeded", "failed", "cancelled"} : o = "cancelled"
        OBVIOUS
    <2>3. PICK p \in BOOLEAN : p = TRUE
        OBVIOUS
    <2>4. claude' = Finish(b, o, p) /\ (o = "succeeded" => ~b.cancelled \/ NoneUnder(task)) /\ (o = "failed" => ~p)
          /\ (o = "cancelled" => p \/ NoneUnder(task)) /\ o # "succeeded"
        BY <2>1, <2>2, <2>3
    <2>5. /\ SessionGood(claude') /\ Tracked(claude', task, stream)
          /\ claude'.active = NoTurn \/ (o = "succeeded" /\ claude'.active = b.active /\ ~claude'.cancelled)
          /\ Succeeds(b, claude') => o = "succeeded" /\ AllRest(b, task)
        BY <1>3, <1>4, <2>4, FinishKeeps
    <2>6. claude'.active = NoTurn /\ ~claude'.held
        BY <2>4, <2>5 DEF SessionGood, SessionBase
    <2>7. running = NoTurn /\ AccFields(idle')
        BY <1>6, <2>1 DEF SettleInv, TransportGood, Kept, AccFields, NoAcc
    <2>8. Still
        BY <2>1 DEF Still, Steady
    <2>9. TransportGood'
        BY <2>1, <2>6, <2>7, <2>8 DEF SettleInv, TransportGood, Still
    <2>10. ~Succeeds(claude, claude')
        BY <1>3, <2>4, <2>5 DEF Likewise, Succeeds
    <2> QED BY <2>5, <2>8, <2>9, <2>10, StillKeeps DEF SettledStep
<1>7. CASE ~(claude.held /\ ~claude.root) /\ HardCancel(b)
    BY <1>3, <1>4, <1>5, <1>7, HardCancelKeeps
<1>8. CASE /\ ~(claude.held /\ ~claude.root)
           /\ running # NoTurn \/ (claude.idleLive /\ idle.open)
           /\ acc' = IF running # NoTurn THEN [acc EXCEPT !.cancel = TRUE] ELSE acc
           /\ idle' = IF running = NoTurn THEN [idle EXCEPT !.cancel = TRUE] ELSE idle
           /\ claude' = [b EXCEPT !.aborting = "waits"]
           /\ UNCHANGED <<alive, calls, task, stream, running, transport>>
    <2>1. SameSession(b, claude')
        BY <1>3, <1>8 DEF SessionFields, SameSession, SameTurn
    <2>2. SessionGood(claude') /\ Tracked(claude', task, stream)
        BY <1>4, <1>5, <1>8, <2>1, SameIsGood, SameFollows, FollowsTracks
    <2>3. /\ AccFields(acc') /\ AccFields(idle')
          /\ IF running # NoTurn THEN acc'.cancel ELSE b.idleLive /\ idle'.open /\ idle'.cancel
        BY <1>3, <1>8 DEF SettleInv, TransportGood, AccFields
    <2>4. TransportGood'
        BY <1>3, <1>8, <2>1, <2>3, SameTransport DEF SettleInv, TransportGood, SameSession, SameTurn, Likewise
    <2>5. Still
        BY <1>8 DEF Still
    <2>6. ~Succeeds(claude, claude')
        BY <1>3, <2>1 DEF Likewise, Succeeds, SameSession, SameTurn
    <2> QED BY <2>2, <2>4, <2>5, <2>6, StillKeeps DEF SettledStep
<1> QED BY <1>1, <1>6, <1>7, <1>8 DEF CancelClaudeTurn

LEMMA AbortTimesOutKeeps ==
    ASSUME SettleInv, AbortTimesOut
    PROVE  SettledStep
<1>1. PICK b : b = [claude EXCEPT !.aborting = "none"]
    OBVIOUS
<1>2. SameSession(claude, b)
    BY <1>1, SelfSame DEF SettleInv, SessionFields, SameSession, SameTurn
<1>3. SessionGood(b) /\ Tracked(b, task, stream) /\ Likewise(b) /\ b.seen = claude.seen
    BY <1>2, SameIsGood, SameFollows, FollowsTracks DEF SettleInv, SameSession, SameTurn, Likewise
<1>4. Warned(b)
    BY <1>2 DEF SettleInv, TransportGood, Warned, SameSession, SameTurn
<1>5. HardCancel(b) \/ TransportCloses(b)
    BY <1>1 DEF AbortTimesOut
<1> QED BY <1>3, <1>4, <1>5, HardCancelKeeps, ClosesKeeps

LEMMA HardCancelsKeeps ==
    ASSUME SettleInv, HardCancels
    PROVE  SettledStep
<1>1. HardCancel(claude) /\ Likewise(claude)
    BY DEF HardCancels, Likewise
<1> QED BY <1>1, HardCancelKeeps DEF SettleInv

LEMMA QuiescesKeeps ==
    ASSUME SettleInv, Quiesces
    PROVE  SettledStep
<1>1. PICK g : g = [claude EXCEPT !.quiet = FALSE]
    OBVIOUS
<1>2. PICK l : l = [g EXCEPT !.occupancy = ReleaseContinuations(g.occupancy)]
    OBVIOUS
<1>3. SameSession(claude, g)
    BY <1>1, SelfSame DEF SettleInv, SessionFields, SameSession, SameTurn
<1>4. Still /\ UNCHANGED <<running, acc, transport>> /\ idle' = Kept(claude', idle)
    BY DEF Quiesces, Still, Steady
<1>5. AccFields(idle') /\ (claude'.idleLive => idle' = idle)
    BY <1>4 DEF SettleInv, TransportGood, Kept, AccFields, NoAcc
<1>6. SettleInv /\ ~Succeeds(claude, claude') /\ SessionGood(claude') /\ Tracked(claude', task, stream) /\ SameTurn(claude, claude')
      => SettledStep
    <2> SUFFICES ASSUME ~Succeeds(claude, claude'), SessionGood(claude'), Tracked(claude', task, stream), SameTurn(claude, claude')
                 PROVE  SettledStep
        OBVIOUS
    <2>1. TransportGood'
        BY <1>4, <1>5 DEF SettleInv, TransportGood, Still, SameTurn
    <2> QED BY <1>4, <2>1, StillKeeps DEF SettledStep
<1>7. CASE claude' = g
    <2>1. SessionGood(claude') /\ Tracked(claude', task, stream) /\ SameTurn(claude, claude')
        BY <1>3, <1>7, SameIsGood, SameFollows, FollowsTracks DEF SettleInv, SameSession
    <2> QED BY <1>6, <2>1 DEF SameTurn, Succeeds
<1>8. CASE ~(claude.active = NoTurn \/ ~claude.held \/ claude.root \/ claude.phase # "open")
           /\ claude' = IF Unsettled(l) THEN l ELSE Finish(l, "succeeded", FALSE)
    <2>1. SameTurn(claude, l) /\ l.seen = claude.seen /\ l.abandoned = claude.abandoned
          /\ l.occupancy = ReleaseContinuations(claude.occupancy)
        BY <1>2, <1>3 DEF SameSession, SameTurn, SessionFields
    <2>2. l.occupancy \in [Agents -> {"free", "spawned", "running", "notified"}]
          /\ \A a \in Agents : l.occupancy[a] = IF claude.occupancy[a] = "notified" THEN "free" ELSE claude.occupancy[a]
        BY <2>1 DEF ReleaseContinuations, SettleInv, SessionGood, SessionBase
    <2>3. \A a \in Agents :
             /\ l.occupancy[a] # "free" => claude.occupancy[a] # "free"
             /\ \/ l.occupancy[a] = claude.occupancy[a]
                \/ ~(Under(task, a) /\ a \in claude.seen \ claude.abandoned /\ Engaged(claude))
        BY <2>2 DEF SettleInv, Tracked
    <2>4. claude.seen \subseteq Agents
        BY DEF SettleInv, SessionGood, SessionBase
    <2>5. SessionGood(l) /\ Tracked(l, task, stream)
        BY <2>1, <2>2, <2>3, <2>4, MovedTracks DEF SettleInv
    <2>6. CASE claude' = l
        BY <1>6, <2>1, <2>5, <2>6 DEF SameTurn, Succeeds
    <2>7. CASE claude' = Finish(l, "succeeded", FALSE)
        <3>1. ~l.cancelled /\ l.active = claude.active
            BY <1>8, <2>1 DEF SettleInv, SessionGood, SameTurn
        <3>2. SessionBase(l)
            BY <2>5 DEF SessionGood
        <3>3. PICK o \in {"succeeded", "failed", "cancelled"} : o = "succeeded"
            OBVIOUS
        <3>4. PICK p \in BOOLEAN : p = FALSE
            OBVIOUS
        <3>5. claude' = Finish(l, o, p) /\ (o = "succeeded" => ~l.cancelled \/ NoneUnder(task)) /\ (o = "failed" => ~p)
              /\ (o = "cancelled" => p \/ NoneUnder(task))
            BY <2>7, <3>1, <3>3, <3>4
        <3>6. /\ SessionGood(claude') /\ Tracked(claude', task, stream)
              /\ claude'.active = NoTurn \/ (o = "succeeded" /\ claude'.active = l.active /\ ~claude'.cancelled)
              /\ Succeeds(l, claude') => o = "succeeded" /\ AllRest(l, task)
            BY <2>5, <3>2, <3>5, FinishKeeps
        <3>7. running = NoTurn
            BY <1>8 DEF SettleInv, TransportGood
        <3>8. claude'.active = NoTurn \/ ~claude'.cancelled
            BY <3>6
        <3>9. TransportGood'
            BY <1>4, <1>5, <3>7, <3>8 DEF SettleInv, TransportGood, Still
        <3>10. Succeeds(claude, claude') => AllRest(claude, task)
            BY <2>1, <3>6 DEF SameTurn, Succeeds, AllRest
        <3> QED BY <1>4, <3>6, <3>9, <3>10, StillKeeps DEF SettledStep
    <2> QED BY <1>8, <2>6, <2>7
<1>9. claude' = IF claude.active = NoTurn \/ ~claude.held \/ claude.root \/ claude.phase # "open" THEN g
                ELSE IF Unsettled(l) THEN l ELSE Finish(l, "succeeded", FALSE)
    BY <1>1, <1>2 DEF Quiesces
<1> QED BY <1>7, <1>8, <1>9

\* A Turn that ends failed gives up what still runs.
LEMMA FailedKeeps ==
    ASSUME NEW s, SessionGood(s), NEW k, NEW q, Tracked(s, k, q), NEW f, f = Finish(s, "failed", FALSE)
    PROVE  SessionGood(f) /\ Tracked(f, k, q) /\ f.active = NoTurn /\ ~Succeeds(s, f)
<1>1. PICK o \in {"succeeded", "failed", "cancelled"} : o = "failed"
    OBVIOUS
<1>2. PICK p \in BOOLEAN : p = FALSE
    OBVIOUS
<1>3. f = Finish(s, o, p) /\ (o = "succeeded" => ~s.cancelled \/ NoneUnder(k)) /\ (o = "failed" => ~p)
      /\ (o = "cancelled" => p \/ NoneUnder(k)) /\ o # "succeeded"
    BY <1>1, <1>2
<1>4. SessionBase(s)
    BY DEF SessionGood
<1>5. PICK g : g = Finish(s, o, p)
    OBVIOUS
<1>6. /\ SessionGood(g) /\ Tracked(g, k, q)
      /\ g.active = NoTurn \/ (o = "succeeded" /\ g.active = s.active /\ ~g.cancelled)
      /\ Succeeds(s, g) => o = "succeeded" /\ AllRest(s, k)
    BY <1>3, <1>4, <1>5, FinishKeeps
<1>7. /\ SessionGood(f) /\ Tracked(f, k, q)
      /\ f.active = NoTurn \/ (o = "succeeded" /\ f.active = s.active /\ ~f.cancelled)
      /\ Succeeds(s, f) => o = "succeeded" /\ AllRest(s, k)
    BY <1>3, <1>5, <1>6
<1> QED BY <1>3, <1>7

\* Without a Turn and no longer open, the Session follows nothing.
LEMMA IdleIsGood ==
    ASSUME NEW g, SessionGood(g), g.active = NoTurn, NEW k, NEW q, Tracked(g, k, q),
           NEW f, f \in {[g EXCEPT !.phase = "closed"], [g EXCEPT !.phase = "closed", !.occupancy = Free]}
    PROVE  /\ SessionGood(f) /\ Tracked(f, k, q) /\ f.active = NoTurn /\ f.phase = "closed" /\ f.ended = g.ended
<1>1. Free \in [Agents -> {"free", "spawned", "running", "notified"}] /\ \A a \in Agents : Free[a] = "free"
    BY DEF Free
<1>2. SessionFields(f) /\ f.phase = "closed" /\ f.occupancy \in {g.occupancy, Free} /\ f.active = NoTurn /\ f.seen = g.seen
      /\ f.cancelled = g.cancelled /\ f.held = g.held /\ f.ended = g.ended
    BY DEF SessionGood, SessionBase, SessionFields
<1>3. SessionGood(f)
    BY <1>1, <1>2 DEF SessionGood, SessionBase
<1>4. Tracked(f, k, q)
    BY <1>2 DEF Tracked, Engaged
<1> QED BY <1>2, <1>3, <1>4

LEMMA CloseKeeps ==
    ASSUME SettleInv, CloseClaude
    PROVE  SettledStep
<1>1. PICK b : b = [claude EXCEPT !.phase = "closing", !.escalate = FALSE, !.quiet = FALSE]
    OBVIOUS
<1>2. SessionGood(b) /\ Follows(claude, b) /\ Likewise(b) /\ b.seen = claude.seen /\ b.cancelled = claude.cancelled
      /\ b.hardCancel = claude.hardCancel /\ b.idleLive = claude.idleLive
    <2>1. SessionFields(b) /\ b.phase = "closing" /\ b.active = claude.active /\ b.held = claude.held /\ b.ended = claude.ended
          /\ b.root = claude.root /\ b.occupancy = claude.occupancy /\ b.abandoned = claude.abandoned
          /\ b.seen = claude.seen /\ b.cancelled = claude.cancelled
          /\ b.hardCancel = claude.hardCancel /\ b.idleLive = claude.idleLive
        BY <1>1 DEF SettleInv, SessionGood, SessionBase, SessionFields
    <2> QED BY <2>1 DEF SettleInv, SessionGood, SessionBase, Follows, Engaged, Likewise
<1>3. Tracked(b, task, stream) /\ Warned(b)
    BY <1>2, FollowsTracks DEF SettleInv, TransportGood, Warned, Likewise
<1>4. CASE TransportCloses(b)
    BY <1>2, <1>3, <1>4, ClosesKeeps
<1>5. CASE claude' = [Finish(b, "failed", FALSE) EXCEPT !.phase = "closed"] /\ Steady /\ UNCHANGED <<readVars, transport>>
    <2>1. PICK g : g = Finish(b, "failed", FALSE)
        OBVIOUS
    <2>2. SessionGood(g) /\ Tracked(g, task, stream) /\ g.active = NoTurn /\ ~Succeeds(b, g)
        BY <1>2, <1>3, <2>1, FailedKeeps
    <2>3. SessionGood(claude') /\ Tracked(claude', task, stream) /\ claude'.active = NoTurn /\ claude'.phase = "closed"
          /\ claude'.ended = g.ended
        BY <1>5, <2>1, <2>2, IdleIsGood
    <2>4. Still /\ UNCHANGED <<running, acc, idle, transport>>
        BY <1>5 DEF Still, Steady, readVars
    <2>5. ~claude'.held
        BY <2>3 DEF SessionGood, SessionBase
    <2>6. TransportGood'
        BY <2>3, <2>4, <2>5 DEF SettleInv, TransportGood, Still
    <2>7. ~Succeeds(claude, claude')
        BY <1>2, <2>2, <2>3 DEF Likewise, Succeeds
    <2> QED BY <2>3, <2>4, <2>6, <2>7, StillKeeps DEF SettledStep
<1> QED BY <1>1, <1>4, <1>5 DEF CloseClaude

LEMMA ClosedKeeps ==
    ASSUME SettleInv, TransportClosed
    PROVE  SettledStep
<1>1. PICK b : b = [claude EXCEPT !.idleLive = FALSE, !.hardCancel = FALSE]
    OBVIOUS
<1>2. SessionGood(b) /\ b.ended = claude.ended /\ b.seen = claude.seen
    <2>1. SessionFields(b) /\ b.phase = claude.phase /\ b.active = claude.active /\ b.held = claude.held /\ b.ended = claude.ended
          /\ b.root = claude.root /\ b.occupancy = claude.occupancy /\ b.abandoned = claude.abandoned
          /\ b.seen = claude.seen /\ b.cancelled = claude.cancelled
        BY <1>1 DEF SettleInv, SessionGood, SessionBase, SessionFields
    <2> QED BY <2>1 DEF SettleInv, SessionGood, SessionBase
<1>3. stream' = <<>> /\ alive' = FALSE /\ calls' = {} /\ task' = Dead /\ running' = NoTurn /\ acc' = NoAcc /\ idle' = NoAcc
    BY DEF TransportClosed, Killed
<1>4. Tracked(b, task', <<>>)
    <2>1. \A a \in Agents : task'[a] = "idle" => a \notin b.seen
        BY <1>2, <1>3, DeadTasks DEF SettleInv, Tracked, GoesOn
    <2>2. NoneUnder(task')
        BY <1>3, DeadTasks
    <2> QED BY <2>1, <2>2 DEF Tracked, NoneUnder
<1>5. \/ claude' = [Finish(b, "failed", FALSE) EXCEPT !.phase = "closed", !.occupancy = Free]
      \/ claude' = Finish(b, "cancelled", FALSE)
      \/ claude' = Fault(b)
      \/ claude' = b
    BY <1>1 DEF TransportClosed
<1>6. SessionGood(claude') /\ Tracked(claude', task', <<>>) /\ ~Succeeds(b, claude')
    <2>1. CASE claude' = b
        BY <1>2, <1>4, <2>1 DEF Succeeds
    <2>2. CASE claude' = Fault(b)
        BY <1>2, <1>4, <2>2, FaultKeeps
    <2>3. CASE claude' = Finish(b, "cancelled", FALSE)
        <3>1. PICK o \in {"succeeded", "failed", "cancelled"} : o = "cancelled"
            OBVIOUS
        <3>2. PICK p \in BOOLEAN : p = FALSE
            OBVIOUS
        <3>3. NoneUnder(task')
            BY <1>3, DeadTasks
        <3>4. claude' = Finish(b, o, p) /\ (o = "succeeded" => ~b.cancelled \/ NoneUnder(task')) /\ (o = "failed" => ~p)
              /\ (o = "cancelled" => p \/ NoneUnder(task')) /\ o # "succeeded"
            BY <2>3, <3>1, <3>2, <3>3
        <3>5. SessionBase(b)
            BY <1>2 DEF SessionGood
        <3>6. /\ SessionGood(claude') /\ Tracked(claude', task', <<>>)
              /\ Succeeds(b, claude') => o = "succeeded" /\ AllRest(b, task')
            BY <1>4, <3>4, <3>5, FinishKeeps
        <3> QED BY <3>4, <3>6
    <2>4. CASE claude' = [Finish(b, "failed", FALSE) EXCEPT !.phase = "closed", !.occupancy = Free]
        <3>1. PICK g : g = Finish(b, "failed", FALSE)
            OBVIOUS
        <3>2. SessionGood(g) /\ Tracked(g, task', <<>>) /\ g.active = NoTurn /\ ~Succeeds(b, g)
            BY <1>2, <1>4, <3>1, FailedKeeps
        <3>3. SessionGood(claude') /\ Tracked(claude', task', <<>>) /\ claude'.ended = g.ended
            BY <2>4, <3>1, <3>2, IdleIsGood
        <3> QED BY <3>2, <3>3 DEF Succeeds
    <2> QED BY <1>5, <2>1, <2>2, <2>3, <2>4
<1>7. MessagesGood(<<>>, task')
    BY EmptySeq DEF MessagesGood
<1>8. AccFields(NoAcc)
    BY DEF AccFields, NoAcc
<1>9. TransportGood'
    BY <1>3, <1>8 DEF TransportGood
<1>10. SettleInv'
    BY <1>3, <1>6, <1>7, <1>9, DeadTasks DEF SettleInv
<1>11. ~Succeeds(claude, claude')
    BY <1>2, <1>6 DEF Succeeds
<1> QED BY <1>10, <1>11 DEF SettledStep

LEMMA QueryEndsKeeps ==
    ASSUME SettleInv, QueryEnds
    PROVE  SettledStep
<1>1. PICK b : claude' = Fault(b) /\ b \in {claude, InteractionsClosed(claude, pending \cap claude.asks)}
    BY DEF QueryEnds
<1>2. SameSession(claude, b)
    BY <1>1, SelfSame, ClosedSame DEF SettleInv
<1>3. SessionGood(b) /\ Tracked(b, task, stream) /\ b.ended = claude.ended
    BY <1>2, SameIsGood, SameFollows, FollowsTracks DEF SettleInv, SameSession, SameTurn
<1>4. SessionGood(claude') /\ Tracked(claude', task, stream) /\ ~Succeeds(b, claude')
    BY <1>1, <1>3, FaultKeeps
<1>5. Still /\ running' = NoTurn /\ acc' = NoAcc /\ idle' = NoAcc /\ transport' = "closing" /\ ~alive
    BY DEF QueryEnds, Still
<1>6. AccFields(NoAcc)
    BY DEF AccFields, NoAcc
<1>7. TransportGood'
    BY <1>5, <1>6 DEF TransportGood, Still
<1>8. ~Succeeds(claude, claude')
    BY <1>3, <1>4 DEF Succeeds
<1> QED BY <1>4, <1>5, <1>7, <1>8, StillKeeps DEF SettledStep

(***************************************************************************)
(* Messages the transport reads                                             *)
(***************************************************************************)

LEMMA TerminalIs ==
    ASSUME NEW k, NEW end
    PROVE  /\ Terminal(k, end) \in {"succeeded", "failed", "cancelled"}
           /\ k.cancel => Terminal(k, end) # "succeeded"
BY DEF Terminal

LEMMA AccsAre ==
    ASSUME NEW k, AccFields(k), NEW m
    PROVE  /\ AccFields(Consumed(k, m)) /\ Consumed(k, m).open = k.open /\ Consumed(k, m).cancel = k.cancel
           /\ AccFields(Opened(k)) /\ (k.open => Opened(k) = k) /\ AccFields(NoAcc)
           /\ \A s : AccFields(Kept(s, k))
<1>1. PICK x, y, z : Consumed(k, m) = [k EXCEPT !.tool = x, !.agents = y, !.conflict = z]
    BY DEF Consumed
<1>2. AccFields(Fresh) /\ AccFields(NoAcc)
    BY DEF AccFields, Fresh, NoAcc
<1> QED BY <1>1, <1>2 DEF AccFields, Opened, Kept

\* One message is read: the process and its tasks stay.
LEMMA ReadKeeps ==
    ASSUME SettleInv, ReadMessage, SessionGood(claude'), Tracked(claude', task, Tail(stream)), TransportGood'
    PROVE  SettleInv'
<1>1. stream # <<>> /\ stream' = Tail(stream) /\ alive' = alive /\ calls' = calls /\ task' = task
    BY DEF ReadMessage
<1>2. MessagesGood(stream', task)
    BY <1>1, ReadOne DEF SettleInv
<1> QED BY <1>1, <1>2 DEF SettleInv

LEMMA ReadTurnKeeps ==
    ASSUME SettleInv, ReadMessage, ReadTurn
    PROVE  SettledStep
<1>1. PICK m : m = Head(stream)
    OBVIOUS
<1>2. stream # <<>> /\ running # NoTurn /\ UNCHANGED <<alive, transport>> /\ idle' = Kept(claude', idle)
    BY DEF ReadMessage, ReadTurn
<1>3. claude.active = running \/ (claude.active = NoTurn /\ claude.phase # "open")
    BY <1>2 DEF SettleInv, TransportGood
<1>4. AccFields(idle') /\ AccFields(NoAcc) /\ AccFields(Consumed(acc, m)) /\ Consumed(acc, m).cancel = acc.cancel
    BY <1>2, AccsAre DEF SettleInv, TransportGood
<1>5. ~claude.held
    BY <1>2 DEF SettleInv, TransportGood
<1>6. CASE m.kind = "result"
    <2>1. PICK c : c = IF claude.active = running /\ Listening(claude)
                       THEN InteractionsClosed(claude, pending \cap claude.asks) ELSE claude
        OBVIOUS
    <2>2. /\ running' = NoTurn /\ acc' = NoAcc
          /\ claude' = IF claude.active = running THEN FinishResult(c, Terminal(acc, m.end)) ELSE c
        BY <1>1, <1>6, <2>1 DEF ReadTurn
    <2>3. SameSession(claude, c)
        BY <2>1, SelfSame, ClosedSame DEF SettleInv
    <2>4. SessionGood(c) /\ Tracked(c, task, Tail(stream))
        <3>1. SessionGood(c) /\ Tracked(c, task, stream)
            BY <2>3, SameIsGood, SameFollows, FollowsTracks DEF SettleInv
        <3> QED BY <1>2, <3>1, ReadTracks DEF SettleInv
    <2>5. CASE claude.active # running
        <3>1. claude' = c /\ c.active = NoTurn
            BY <1>3, <2>2, <2>3, <2>5 DEF SameSession, SameTurn
        <3>2. TransportGood'
            BY <1>2, <1>4, <2>2, <2>4, <3>1 DEF SettleInv, TransportGood, SessionGood, SessionBase
        <3>3. ~Succeeds(claude, claude')
            BY <2>3, <3>1 DEF SameSession, SameTurn, Succeeds
        <3> QED BY <2>4, <3>1, <3>2, <3>3, ReadKeeps DEF SettledStep
    <2>6. CASE claude.active = running
        <3>1. PICK o \in {"succeeded", "failed", "cancelled"} : o = Terminal(acc, m.end) /\ (acc.cancel => o # "succeeded")
            BY TerminalIs
        <3>2. claude' = FinishResult(c, o)
            BY <2>2, <2>6, <3>1
        <3>3. c.active # NoTurn /\ c.cancelled /\ ~c.hardCancel => o # "succeeded" \/ NoneUnder(task)
            BY <1>2, <2>3, <3>1 DEF SettleInv, TransportGood, SameSession, SameTurn
        <3>4. /\ SessionGood(claude') /\ Tracked(claude', task, Tail(stream)) /\ claude'.hardCancel = c.hardCancel
              /\ claude'.active # NoTurn /\ claude'.cancelled => claude'.hardCancel
              /\ Succeeds(c, claude') => AllRest(c, task)
            BY <2>4, <3>2, <3>3, ResultKeeps
        <3>5. TransportGood'
            BY <1>2, <1>4, <2>2, <3>4 DEF SettleInv, TransportGood
        <3>6. Succeeds(claude, claude') => AllRest(claude, task)
            BY <2>3, <3>4 DEF SameSession, SameTurn, Succeeds, AllRest
        <3> QED BY <3>4, <3>5, <3>6, ReadKeeps DEF SettledStep
    <2> QED BY <2>5, <2>6
<1>7. CASE m.kind # "result"
    <2>1. acc' = Consumed(acc, m) /\ running' = running /\ claude' \in {claude, TurnEvent(claude, m)}
        BY <1>1, <1>7 DEF ReadTurn
    <2>2. task \in [Agents -> TaskStates]
        BY DEF SettleInv
    <2>3. SessionGood(claude') /\ Tracked(claude', task, Tail(stream)) /\ SameTurn(claude, claude')
        BY <1>1, <1>2, <2>1, <2>2, SessionEventKeeps DEF SettleInv
    <2>4. TransportGood'
        BY <1>2, <1>4, <2>1, <2>3 DEF SettleInv, TransportGood, SameTurn
    <2>5. ~Succeeds(claude, claude')
        BY <2>3 DEF SameTurn, Succeeds
    <2> QED BY <2>3, <2>4, <2>5, ReadKeeps DEF SettledStep
<1> QED BY <1>6, <1>7

LEMMA ReadHeldKeeps ==
    ASSUME SettleInv, ReadMessage, ReadHeld
    PROVE  SettledStep
<1>1. PICK m, k : m = Head(stream) /\ k = Opened(idle)
    OBVIOUS
<1>2. stream # <<>> /\ running = NoTurn /\ claude.idleLive /\ UNCHANGED <<alive, transport, running, acc>>
    BY DEF ReadMessage, ReadHeld
<1>3. AccFields(k) /\ (idle.open => k = idle) /\ AccFields(NoAcc)
    BY <1>1, AccsAre DEF SettleInv, TransportGood
<1>4. task \in [Agents -> TaskStates] /\ AccFields(acc')
    BY <1>2 DEF SettleInv, TransportGood
<1>5. CASE m.kind = "result"
    <2>1. claude' = FinishResult(claude, Terminal(k, m.end)) /\ idle' = NoAcc
        BY <1>1, <1>5 DEF ReadHeld
    <2>2. PICK o \in {"succeeded", "failed", "cancelled"} : o = Terminal(k, m.end) /\ (k.cancel => o # "succeeded")
        BY TerminalIs
    <2>3. claude.active # NoTurn /\ claude.cancelled /\ ~claude.hardCancel => o # "succeeded" \/ NoneUnder(task)
        BY <1>2, <1>3, <2>2 DEF SettleInv, TransportGood
    <2>4. Tracked(claude, task, Tail(stream))
        BY <1>2, ReadTracks DEF SettleInv
    <2>5. /\ SessionGood(claude') /\ Tracked(claude', task, Tail(stream)) /\ claude'.hardCancel = claude.hardCancel
          /\ claude'.active # NoTurn /\ claude'.cancelled => claude'.hardCancel
          /\ Succeeds(claude, claude') => AllRest(claude, task)
        BY <2>1, <2>2, <2>3, <2>4, ResultKeeps DEF SettleInv
    <2>6. TransportGood'
        BY <1>2, <1>3, <1>4, <2>1, <2>5 DEF SettleInv, TransportGood
    <2> QED BY <2>5, <2>6, ReadKeeps DEF SettledStep
<1>6. CASE m.kind # "result"
    <2>1. claude' \in {claude, SessionEvent(claude, m)} /\ idle' = Kept(claude', Consumed(k, m))
        BY <1>1, <1>6 DEF ReadHeld
    <2>2. SessionGood(claude') /\ Tracked(claude', task, Tail(stream)) /\ SameTurn(claude, claude')
        BY <1>1, <1>2, <1>4, <2>1, SessionEventKeeps DEF SettleInv
    <2>3. idle' = Consumed(k, m)
        BY <1>2, <2>1, <2>2 DEF Kept, SameTurn
    <2>4. AccFields(idle') /\ idle'.open = k.open /\ idle'.cancel = k.cancel
        BY <1>3, <2>3, AccsAre
    <2>5. TransportGood'
        BY <1>2, <1>3, <1>4, <2>2, <2>4 DEF SettleInv, TransportGood, SameTurn
    <2>6. ~Succeeds(claude, claude')
        BY <2>2 DEF SameTurn, Succeeds
    <2> QED BY <2>2, <2>5, <2>6, ReadKeeps DEF SettledStep
<1> QED BY <1>5, <1>6

LEMMA AutonomousKeeps ==
    ASSUME NEW s, SessionGood(s), NEW k, NEW q, Tracked(s, k, q), NEW f, f = Autonomous(s)
    PROVE  /\ SessionGood(f) /\ Tracked(f, k, q) /\ f.seen = s.seen /\ f.abandoned = s.abandoned
           /\ f.held = s.held /\ f.idleLive = s.idleLive
           /\ f = s \/ ~f.cancelled
           /\ \A t \in Turns \cup {OwnTurn} : f.ended[t] = "succeeded" => s.ended[t] = "succeeded"
<1>1. CASE f = s
    BY <1>1
<1>2. CASE s.phase = "open" /\ s.active = NoTurn /\ f # s
    <2>1. PICK e : e = [s.ended EXCEPT ![OwnTurn] = "none"]
        OBVIOUS
    <2>2. f = [s EXCEPT !.active = OwnTurn, !.root = TRUE, !.ended = e]
        BY <1>2, <2>1 DEF Autonomous
    <2>3. DOMAIN e = Turns \cup {OwnTurn} /\ \A t \in Turns \cup {OwnTurn} : e[t] = "succeeded" => s.ended[t] = "succeeded"
        BY <2>1 DEF SessionGood, SessionBase
    <2>4. SessionFields(f) /\ f.active = OwnTurn /\ f.root /\ f.ended = e /\ f.seen = s.seen /\ f.abandoned = s.abandoned
          /\ f.held = s.held /\ f.idleLive = s.idleLive /\ f.cancelled = s.cancelled /\ f.occupancy = s.occupancy
          /\ f.phase = s.phase
        BY <2>2 DEF SessionGood, SessionBase, SessionFields
    <2>5. OwnTurn # NoTurn /\ ~s.cancelled
        BY <1>2, SessionAssumption DEF SessionGood, SessionBase
    <2>6. SessionGood(f)
        BY <2>3, <2>4, <2>5 DEF SessionGood, SessionBase
    <2>7. Follows(s, f)
        BY <1>2, <2>4 DEF Follows, Engaged
    <2>8. Tracked(f, k, q)
        BY <2>7, FollowsTracks
    <2> QED BY <2>3, <2>4, <2>5, <2>6, <2>8
<1> QED BY <1>1, <1>2 DEF Autonomous

LEMMA ReadAutonomousKeeps ==
    ASSUME SettleInv, ReadMessage, ReadAutonomous
    PROVE  SettledStep
<1>1. PICK m, k : m = Head(stream) /\ k = Opened(auto.acc)
    OBVIOUS
<1>2. PICK b : b = IF auto.started THEN claude ELSE Autonomous(claude)
    OBVIOUS
<1>3. /\ stream # <<>> /\ running = NoTurn /\ ~claude.idleLive /\ UNCHANGED <<alive, transport, running, acc>>
      /\ idle' = Kept(claude', idle)
    BY DEF ReadMessage, ReadAutonomous
<1>4. AccFields(acc') /\ AccFields(idle') /\ task \in [Agents -> TaskStates]
    BY <1>3, AccsAre DEF SettleInv, TransportGood
<1>5. /\ SessionGood(b) /\ Tracked(b, task, stream) /\ b.seen = claude.seen /\ b.abandoned = claude.abandoned
      /\ b = claude \/ ~b.cancelled
      /\ \A t \in Turns \cup {OwnTurn} : b.ended[t] = "succeeded" => claude.ended[t] = "succeeded"
    BY <1>2, AutonomousKeeps DEF SettleInv
<1>6. alive /\ b.active # NoTurn /\ b.cancelled => b.hardCancel
    BY <1>3, <1>5 DEF SettleInv, TransportGood
<1>7. CASE m.kind = "result"
    <2>1. claude' = FinishResult(b, Terminal(k, m.end))
        BY <1>1, <1>2, <1>7 DEF ReadAutonomous
    <2>2. PICK o \in {"succeeded", "failed", "cancelled"} : o = Terminal(k, m.end)
        BY TerminalIs
    <2>3. b.active # NoTurn /\ b.cancelled /\ ~b.hardCancel => o # "succeeded" \/ NoneUnder(task)
        BY <1>6 DEF SettleInv
    <2>4. Tracked(b, task, Tail(stream))
        BY <1>3, <1>5, ReadTracks DEF SettleInv
    <2>5. /\ SessionGood(claude') /\ Tracked(claude', task, Tail(stream))
          /\ claude'.active # NoTurn /\ claude'.cancelled => claude'.hardCancel
          /\ Succeeds(b, claude') => AllRest(b, task)
        BY <1>5, <2>1, <2>2, <2>3, <2>4, ResultKeeps
    <2>6. TransportGood'
        BY <1>3, <1>4, <2>5 DEF SettleInv, TransportGood
    <2>7. Succeeds(claude, claude') => AllRest(claude, task)
        BY <1>5, <2>5 DEF Succeeds, AllRest
    <2> QED BY <2>5, <2>6, <2>7, ReadKeeps DEF SettledStep
<1>8. CASE m.kind # "result"
    <2>1. \/ claude' = SessionEvent(b, m)
          \/ claude' \in {claude} \/ (m.kind = "settled" /\ claude' = Settle(claude, Subject(m)))
        BY <1>1, <1>2, <1>8 DEF ReadAutonomous
    <2>2. CASE claude' = SessionEvent(b, m)
        <3>1. SessionGood(claude') /\ Tracked(claude', task, Tail(stream)) /\ SameTurn(b, claude')
            BY <1>1, <1>3, <1>4, <1>5, <2>2, SessionEventKeeps DEF SettleInv
        <3>2. TransportGood'
            BY <1>3, <1>4, <1>6, <3>1 DEF SettleInv, TransportGood, SameTurn
        <3>3. ~Succeeds(claude, claude')
            BY <1>5, <3>1 DEF SameTurn, Succeeds
        <3> QED BY <3>1, <3>2, <3>3, ReadKeeps DEF SettledStep
    <2>3. CASE claude' \in {claude} \/ (m.kind = "settled" /\ claude' = Settle(claude, Subject(m)))
        <3>1. SessionGood(claude') /\ Tracked(claude', task, Tail(stream)) /\ SameTurn(claude, claude')
            BY <1>1, <1>3, <1>4, <2>3, SessionEventKeeps DEF SettleInv
        <3>2. TransportGood'
            BY <1>3, <1>4, <3>1 DEF SettleInv, TransportGood, SameTurn
        <3>3. ~Succeeds(claude, claude')
            BY <3>1 DEF SameTurn, Succeeds
        <3> QED BY <3>1, <3>2, <3>3, ReadKeeps DEF SettledStep
    <2> QED BY <2>1, <2>2, <2>3
<1> QED BY <1>7, <1>8

(***************************************************************************)
(* The steps together                                                       *)
(***************************************************************************)

LEMMA ClaudeStarts == InitClaude => SettleInv
<1> SUFFICES ASSUME InitClaude PROVE SettleInv
    OBVIOUS
<1>1. /\ claude = NewSession /\ task = [a \in Agents |-> "idle"] /\ ~alive /\ calls = {} /\ stream = <<>>
      /\ running = NoTurn /\ acc = NoAcc /\ idle = NoAcc /\ transport = "none"
    BY DEF InitClaude
<1>2. SessionFields(NewSession) /\ NewSession.active = NoTurn /\ ~NewSession.cancelled /\ ~NewSession.held
      /\ NewSession.occupancy = Free /\ NewSession.seen = {} /\ DOMAIN NewSession.ended = Turns \cup {OwnTurn}
    BY DEF SessionFields, NewSession
<1>3. Free \in [Agents -> {"free", "spawned", "running", "notified"}] /\ \A a \in Agents : Free[a] = "free"
    BY DEF Free
<1>4. SessionGood(claude)
    BY <1>1, <1>2, <1>3 DEF SessionGood, SessionBase
<1>5. task \in [Agents -> TaskStates] /\ NoneUnder(task)
    BY <1>1 DEF TaskStates, NoneUnder, Under
<1>6. MessagesGood(stream, task)
    BY <1>1, EmptySeq DEF MessagesGood
<1>7. Tracked(claude, task, stream)
    BY <1>1, <1>2, <1>5 DEF Tracked, NoneUnder
<1>8. AccFields(NoAcc)
    BY DEF AccFields, NoAcc
<1>9. TransportGood
    BY <1>1, <1>2, <1>8 DEF TransportGood
<1> QED BY <1>1, <1>4, <1>5, <1>6, <1>7, <1>9 DEF SettleInv

LEMMA ClaudeStep ==
    ASSUME Resumes = FALSE, SettleInv, NextClaude
    PROVE  SettledStep
<1>1. CASE ClaudeProcess
    <2>1. ASSUME NEW a \in Agents, Delegate(a) \/ TaskStarts(a) \/ CallReturns(a) \/ TaskEnds(a) PROVE SettledStep
        BY <2>1, DelegateKeeps, TaskStartsKeeps, CallReturnsKeeps, TaskEndsKeeps
    <2>2. ASSUME NEW q \in Interactions, AskPermission(q) \/ SignalAborts(q) PROVE SettledStep
        BY <2>2, AskKeeps, SettledKeeps DEF SignalAborts
    <2> QED BY <1>1, <2>1, <2>2, TalkSteps, OtherTaskKeeps, EndSegmentKeeps, DiesKeeps DEF ClaudeProcess
<1>2. CASE ReadMessage
    BY <1>2, ReadTurnKeeps, ReadHeldKeeps, ReadAutonomousKeeps DEF ReadMessage
<1>3. ASSUME NEW q \in Interactions, Respond(q) PROVE SettledStep
    BY <1>3, SettledKeeps DEF Respond
<1> QED BY <1>1, <1>2, <1>3, QueryEndsKeeps, StartKeeps, CancelKeeps, AbortReturnsKeeps, AbortTimesOutKeeps,
           HardCancelsKeeps, QuiescesKeeps, CloseKeeps, StopsKeeps, ClosedKeeps DEF NextClaude

LEMMA ClaudeStutters ==
    ASSUME SettleInv, UNCHANGED claudeVars
    PROVE  SettledStep
<1>1. UNCHANGED <<alive, calls, task, stream, running, acc, idle, transport, claude>>
    BY DEF claudeVars, nativeVars, readVars
<1> QED BY <1>1, SelfSame, QuietKeeps DEF SettleInv, Still

\* A Turn succeeds only when no Subagent the Session has seen it start still runs: a Turn is held
\* until every Subagent it occupied has ended, a cancelled Turn has no success, and the messages
\* about a Subagent that runs leave its occupancy alone (claude-code-adapter.ts #finish and
\* background-occupancy.ts), when Claude resumes no Subagent.
THEOREM SettledFirst ==
    ASSUME Resumes = FALSE
    PROVE  ClaudeSpec => SucceedsWhenSettled
<1>1. InitClaude => SettleInv
    BY ClaudeStarts
<1>2. SettleInv /\ [NextClaude]_claudeVars => SettledStep
    BY ClaudeStep, ClaudeStutters
<1>3. SettleInv /\ [NextClaude]_claudeVars => SettleInv'
    BY <1>2 DEF SettledStep
<1>4. SettleInv /\ [NextClaude]_claudeVars =>
        [\A t \in Turns \cup {OwnTurn} :
           claude.ended[t] = "none" /\ claude'.ended[t] = "succeeded" =>
             \A a \in Followed : task[a] # "running"]_claudeVars
    <2> SUFFICES ASSUME SettleInv, [NextClaude]_claudeVars, NEW t \in Turns \cup {OwnTurn},
                        claude.ended[t] = "none", claude'.ended[t] = "succeeded", NEW a \in Followed
                 PROVE  task[a] # "running"
        OBVIOUS
    <2>1. AllRest(claude, task)
        BY <1>2 DEF SettledStep, Succeeds
    <2>2. a \in claude.seen \ claude.abandoned /\ a \in Agents
        BY DEF Followed, SettleInv, SessionGood, SessionBase
    <2> QED BY <2>1, <2>2 DEF AllRest, Under
<1> QED BY <1>1, <1>3, <1>4, PTL DEF ClaudeSpec, SucceedsWhenSettled

=============================================================================
