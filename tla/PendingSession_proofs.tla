------------------------- MODULE PendingSession_proofs -------------------------
(***************************************************************************)
(* Four parts around a Claude Session: the claim of a reserved Session, for  *)
(* any number of wrappers, deaths and selections, while the directory's     *)
(* changes can be synced; the tokens a Session counts; what the Desktop is  *)
(* told of the Session's Thread and its Subagents; and the processes that   *)
(* the Shim supervises.                                                     *)
(***************************************************************************)
EXTENDS PendingSession, SessionUsage, SubagentThreads, ProcessTree, FiniteSetTheorems, TLAPS

\* The part of the types the claim rests on.
Typed ==
    /\ reservation \in Reservations
    /\ wrapper \in [Wrappers -> ClaudeSessions]
    /\ native \in [Wrappers -> {None, "create", "resume"}]

\* What holds of a Session s, its CLI n and the reservation r.  A CLI that may create the Session
\* belongs to a claimant, and a start on its way to such a CLI too.  A CLI belongs to a start
\* that is under way or was answered.  Input went to a Session that is claimed or has history,
\* and the claim on a Session that has history was used, so that it is never given up.
Sound(s, n, r) ==
    /\ n = "create" => s.claimed
    /\ s.claimed => r.started
    /\ s.step \notin {"starting", "running"} => n = None
    /\ s.step = "claimed" /\ s.mode = "create" => s.claimed
    /\ s.submitted => r.history \/ s.claimed
    /\ s.claimed /\ r.history => s.submitted

ClaimInv ==
    /\ Typed /\ HistoryIsClaimed
    /\ \A w \in Wrappers : Sound(wrapper[w], native[w], reservation)
    /\ \A v, w \in Wrappers : Claimed(v) /\ Claimed(w) => v = w

\* A step of w alone, which leaves it with the Session s.
Moves(w, s) ==
    /\ s \in ClaudeSessions
    /\ wrapper' = [wrapper EXCEPT ![w] = s]
    /\ native' \in [Wrappers -> {None, "create", "resume"}]
    /\ \A v \in Wrappers \ {w} : native'[v] = native[v]
    /\ reservation' \in Reservations
    /\ Sound(s, native'[w], reservation')
    /\ s.claimed => wrapper[w].claimed \/ ~reservation.started
    /\ reservation.started => reservation'.started \/ wrapper[w].claimed
    /\ reservation'.history => reservation'.started
    /\ \/ reservation'.history = reservation.history
       \/ reservation'.history /\ wrapper[w].claimed

\* What the invariant says of one wrapper before its step.
Known(w) ==
    /\ wrapper \in [Wrappers -> ClaudeSessions] /\ wrapper[w] \in ClaudeSessions
    /\ native \in [Wrappers -> {None, "create", "resume"}]
    /\ reservation \in Reservations
    /\ Sound(wrapper[w], native[w], reservation)
    /\ reservation.history => reservation.started

LEMMA Knows == ASSUME ClaimInv, NEW w \in Wrappers PROVE Known(w)
  BY DEF ClaimInv, Typed, Known, HistoryIsClaimed

\* Such a step keeps the claim with one wrapper: a claim is taken only while nobody has it, and
\* given up only by the wrapper that has it.
LEMMA MovesStep == ASSUME ClaimInv, NEW w \in Wrappers, NEW s, Moves(w, s) PROVE ClaimInv'
  <1>1. Typed'
    BY DEF ClaimInv, Typed, Moves
  <1>2. HistoryIsClaimed'
    BY DEF Moves, HistoryIsClaimed
  <1>3. wrapper'[w] = s /\ \A v \in Wrappers \ {w} : wrapper'[v] = wrapper[v]
    BY DEF ClaimInv, Typed, Moves
  <1>4. ASSUME NEW v \in Wrappers PROVE Sound(wrapper[v], native[v], reservation)'
    BY <1>3 DEF ClaimInv, Moves, Sound, Claimed
  <1>5. ASSUME NEW u \in Wrappers, NEW v \in Wrappers, Claimed(u)', Claimed(v)' PROVE u = v
    BY <1>3, <1>5 DEF ClaimInv, Moves, Sound, Claimed
  <1> QED
    BY <1>1, <1>2, <1>4, <1>5 DEF ClaimInv

\* Nothing is claimed at first.
LEMMA ClaimInit == InitPending => ClaimInv
  <1> SUFFICES ASSUME InitPending PROVE ClaimInv
    OBVIOUS
  <1>1. NoSession \in ClaudeSessions /\ reservation \in Reservations
    BY DEF InitPending, NoSession, ClaudeSessions, Reservations, None
  <1>2. Typed
    BY <1>1 DEF InitPending, Typed
  <1>3. HistoryIsClaimed
    BY DEF InitPending, HistoryIsClaimed
  <1>4. ASSUME NEW w \in Wrappers PROVE Sound(wrapper[w], native[w], reservation) /\ ~Claimed(w)
    BY DEF InitPending, Sound, Claimed, NoSession, None
  <1> QED
    BY <1>2, <1>3, <1>4 DEF ClaimInv

\* Every step of a wrapper is such a step, unless a release is not synced.
\* A wrapper without a CLI becomes the Session t, and gives up a claim it has not used.
LEMMA ReleaseStep ==
  ASSUME SyncsFail = FALSE, ClaimInv, NEW w \in Wrappers, NEW t \in ClaudeSessions, ReleaseUnused(w, t),
         t.claimed = wrapper[w].claimed, t.submitted = wrapper[w].submitted, t.step # "claimed",
         native' \in [Wrappers -> {None, "create", "resume"}], native'[w] = None,
         \A v \in Wrappers \ {w} : native'[v] = native[v]
  PROVE  ClaimInv'
  <1>1. Known(w)
    BY Knows
  <1>2. CASE Unused(w)
    <2>1. PICK s : s = [t EXCEPT !.claimed = FALSE, !.mode = "create"]
      OBVIOUS
    <2>2. s \in ClaudeSessions /\ s.claimed = FALSE /\ s.submitted = t.submitted /\ s.step = t.step
      BY <2>1 DEF ClaudeSessions
    <2>3. wrapper' = [wrapper EXCEPT ![w] = s] /\ reservation' = [reservation EXCEPT !.started = FALSE]
      BY <1>2, <2>1, SyncsFail = FALSE DEF ReleaseUnused
    <2>4. reservation' \in Reservations /\ reservation'.history = reservation.history /\ reservation'.started = FALSE
      BY <1>1, <2>3 DEF Known, Reservations
    <2>5. wrapper[w].claimed /\ ~wrapper[w].submitted
      BY <1>2 DEF Unused
    <2>6. ~reservation.history
      BY <1>1, <2>5 DEF Known, Sound
    <2>7. Sound(s, native'[w], reservation')
      BY <2>2, <2>4, <2>5 DEF Sound, None
    <2>8. Moves(w, s)
      BY <2>2, <2>3, <2>4, <2>5, <2>6, <2>7 DEF Moves
    <2> QED
      BY <2>8, MovesStep
  <1>3. CASE ~Unused(w)
    <2>1. wrapper' = [wrapper EXCEPT ![w] = t] /\ reservation' = reservation
      BY <1>3 DEF ReleaseUnused
    <2>2. Sound(t, native'[w], reservation')
      BY <1>1, <2>1 DEF Known, Sound, None
    <2>3. Moves(w, t)
      BY <1>1, <2>1, <2>2 DEF Moves, Known
    <2> QED
      BY <2>3, MovesStep
  <1> QED
    BY <1>2, <1>3

LEMMA ClaimNext ==
  ASSUME SyncsFail = FALSE, ClaimInv, [NextPending]_pendingVars
  PROVE  ClaimInv'
  <1>1. CASE UNCHANGED pendingVars
    BY <1>1 DEF pendingVars, ClaimInv, Typed, HistoryIsClaimed, Claimed
  <1>2. ASSUME NEW w \in Wrappers, MakeDirectory(w) PROVE ClaimInv'
    <2> Known(w)
      BY Knows
    <2>1. Moves(w, [wrapper[w] EXCEPT !.step = "reserving"])
      BY <1>2 DEF Moves, Known, Sound, ClaudeSessions, Reservations, HistoryIsClaimed, NoSession,
         None, MakeDirectory, InStep, Phase
    <2> QED
      BY <2>1, MovesStep
  <1>3. ASSUME NEW w \in Wrappers, WriteReservation(w) PROVE ClaimInv'
    <2> Known(w)
      BY Knows
    <2>1. ASSUME NEW c \in Configurations,
               reservation' = [reservation EXCEPT !.at = "written", !.configuration = c],
               wrapper' = [wrapper EXCEPT ![w].step = "checking"] PROVE ClaimInv'
      <3>1. PICK s : s = [wrapper[w] EXCEPT !.step = "checking"]
        OBVIOUS
      <3>2. s \in ClaudeSessions /\ s.claimed = wrapper[w].claimed /\ s.submitted = wrapper[w].submitted
            /\ s.step = "checking"
        BY <3>1 DEF Known, ClaudeSessions
      <3>3. wrapper' = [wrapper EXCEPT ![w] = s] /\ native' = native /\ wrapper[w].step = "reserving"
        BY <1>3, <2>1, <3>1 DEF WriteReservation, InStep
      <3>4. reservation' \in Reservations /\ reservation'.started = reservation.started
            /\ reservation'.history = reservation.history
        BY <2>1 DEF Known, Reservations
      <3>5. Sound(s, native'[w], reservation')
        BY <3>2, <3>3, <3>4 DEF Known, Sound, None
      <3>6. Moves(w, s)
        BY <3>2, <3>3, <3>4, <3>5 DEF Moves, Known
      <3> QED
        BY <3>6, MovesStep
    <2>2. ASSUME NEW left \in {None, "written"}, reservation' = [reservation EXCEPT !.at = left],
               wrapper' = [wrapper EXCEPT ![w] = NoSession] PROVE ClaimInv'
      <3>1. Moves(w, NoSession)
        BY <1>3, <2>2 DEF Moves, Known, Sound, ClaudeSessions, Reservations, HistoryIsClaimed,
           NoSession, None, WriteReservation, InStep, Phase
      <3> QED
        BY <3>1, MovesStep
    <2> QED
      BY <1>3, <2>1, <2>2 DEF WriteReservation
  <1>4. ASSUME NEW w \in Wrappers, CheckSource(w) PROVE ClaimInv'
    <2> Known(w)
      BY Knows
    <2>1. ASSUME wrapper' = [wrapper EXCEPT ![w].step = "idle", ![w].phase = "open"],
               reservation' = reservation PROVE ClaimInv'
      <3> DEFINE s == [wrapper[w] EXCEPT !.step = "idle", !.phase = "open"]
      <3>1. s \in ClaudeSessions
        BY <1>4, <2>1 DEF Known, ClaudeSessions, Reservations, NoSession, None, CheckSource, InStep,
           Phase
      <3>2. wrapper' = [wrapper EXCEPT ![w] = s]
        BY <1>4, <2>1 DEF Known, ClaudeSessions, CheckSource, InStep, Phase
      <3>3. reservation' \in Reservations /\ Sound(s, native'[w], reservation')
            /\ (s.claimed => wrapper[w].claimed)
        BY <1>4, <2>1 DEF Known, Sound, ClaudeSessions, Reservations, NoSession, None, CheckSource,
           InStep, Phase
      <3> HIDE DEF s
      <3>4. Moves(w, s)
        BY <1>4, <2>1, <3>1, <3>2, <3>3 DEF Moves, Known, Reservations, None, CheckSource, InStep,
           Phase
      <3> QED
        BY <3>4, MovesStep
    <2>2. ASSUME wrapper' = [wrapper EXCEPT ![w] = NoSession],
               reservation' = [reservation EXCEPT !.at = None, !.configuration = None] PROVE ClaimInv'
      <3> DEFINE s == NoSession
      <3>1. s \in ClaudeSessions
        BY <1>4, <2>2 DEF Known, ClaudeSessions, Reservations, NoSession, None, CheckSource, InStep,
           Phase
      <3>2. wrapper' = [wrapper EXCEPT ![w] = s]
        BY <1>4, <2>2 DEF Known, ClaudeSessions, CheckSource, InStep, Phase
      <3>3. reservation' \in Reservations /\ Sound(s, native'[w], reservation')
            /\ (s.claimed => wrapper[w].claimed)
        BY <1>4, <2>2 DEF Known, Sound, ClaudeSessions, Reservations, NoSession, None, CheckSource,
           InStep, Phase
      <3> HIDE DEF s
      <3>4. Moves(w, s)
        BY <1>4, <2>2, <3>1, <3>2, <3>3 DEF Moves, Known, Reservations, None, CheckSource, InStep,
           Phase
      <3> QED
        BY <3>4, MovesStep
    <2> QED
      BY <1>4, <2>1, <2>2 DEF CheckSource
  <1>5. ASSUME NEW w \in Wrappers, ReadReservation(w) PROVE ClaimInv'
    <2> Known(w)
      BY Knows
    <2>1. Moves(w, [wrapper[w] EXCEPT !.step = "opening", !.seen = reservation.started])
      BY <1>5 DEF Moves, Known, Sound, ClaudeSessions, Reservations, HistoryIsClaimed, NoSession,
         None, ReadReservation, InStep, Phase
    <2> QED
      BY <2>1, MovesStep
  <1>6. ASSUME NEW w \in Wrappers, DecideMode(w) PROVE ClaimInv'
    <2> Known(w)
      BY Knows
    <2>1. ASSUME ~wrapper[w].seen /\ reservation.history PROVE ClaimInv'
      <3> DEFINE s == NoSession
      <3>1. s \in ClaudeSessions
        BY <1>6, <2>1 DEF Known, ClaudeSessions, Reservations, NoSession, None, DecideMode, InStep,
           Phase
      <3>2. wrapper' = [wrapper EXCEPT ![w] = s]
        BY <1>6, <2>1 DEF Known, ClaudeSessions, DecideMode, InStep, Phase
      <3>3. reservation' \in Reservations /\ Sound(s, native'[w], reservation')
            /\ (s.claimed => wrapper[w].claimed)
        BY <1>6, <2>1 DEF Known, Sound, ClaudeSessions, Reservations, NoSession, None, DecideMode,
           InStep, Phase
      <3> HIDE DEF s
      <3>4. Moves(w, s)
        BY <1>6, <2>1, <3>1, <3>2, <3>3 DEF Moves, Known, Reservations, None, DecideMode, InStep,
           Phase
      <3> QED
        BY <3>4, MovesStep
    <2>2. ASSUME ~(~wrapper[w].seen /\ reservation.history) PROVE ClaimInv'
      <3> DEFINE s == [NoSession EXCEPT !.phase = "open",
                     !.mode = IF wrapper[w].seen THEN "resume" ELSE "create"]
      <3>1. s \in ClaudeSessions
        BY DEF ClaudeSessions, NoSession, None
      <3>2. wrapper' = [wrapper EXCEPT ![w] = s]
        BY <1>6, <2>2 DEF Known, ClaudeSessions, DecideMode, InStep, Phase
      <3>3. reservation' \in Reservations /\ Sound(s, native'[w], reservation')
            /\ (s.claimed => wrapper[w].claimed)
        BY <1>6, <2>2 DEF Known, Sound, ClaudeSessions, Reservations, NoSession, None, DecideMode,
           InStep, Phase
      <3> HIDE DEF s
      <3>4. Moves(w, s)
        BY <1>6, <2>2, <3>1, <3>2, <3>3 DEF Moves, Known, Reservations, None, DecideMode, InStep,
           Phase
      <3> QED
        BY <3>4, MovesStep
    <2> QED
      BY <1>6, <2>1, <2>2 DEF DecideMode
  <1>7. ASSUME NEW w \in Wrappers, StartTransport(w) PROVE ClaimInv'
    <2> Known(w)
      BY Knows
    <2>1. ASSUME wrapper[w].mode = "resume" PROVE ClaimInv'
      <3>1. Moves(w, [wrapper[w] EXCEPT !.step = "claimed"])
        BY <1>7, <2>1, SyncsFail = FALSE DEF Moves, Known, Sound, ClaudeSessions, Reservations,
           HistoryIsClaimed, NoSession, None, StartTransport, InStep, Phase
      <3> QED
        BY <3>1, MovesStep
    <2>2. ASSUME wrapper[w].mode # "resume" PROVE ClaimInv'
      <3>1. Moves(w, [wrapper[w] EXCEPT !.step = "claimed", !.claimed = TRUE])
        BY <1>7, <2>2, SyncsFail = FALSE DEF Moves, Known, Sound, ClaudeSessions, Reservations,
           HistoryIsClaimed, NoSession, None, StartTransport, InStep, Phase
      <3> QED
        BY <3>1, MovesStep
    <2> QED
      BY <1>7, <2>1, <2>2 DEF StartTransport
  <1>8. ASSUME NEW w \in Wrappers, SpawnNative(w) PROVE ClaimInv'
    <2> Known(w)
      BY Knows
    <2>1. ASSUME Phase(w, "open") PROVE ClaimInv'
      <3> DEFINE s == [wrapper[w] EXCEPT !.step = "starting"]
      <3>1. s \in ClaudeSessions
        BY <1>8, <2>1, SyncsFail = FALSE DEF Known, ClaudeSessions, Reservations, NoSession, None,
           SpawnNative, ReleaseUnused, InStep, Phase, Unused
      <3>2. wrapper' = [wrapper EXCEPT ![w] = s]
        BY <1>8, <2>1, SyncsFail = FALSE DEF Known, ClaudeSessions, SpawnNative, ReleaseUnused,
           InStep, Phase, Unused
      <3>3. reservation' \in Reservations /\ Sound(s, native'[w], reservation')
        BY <1>8, <2>1, SyncsFail = FALSE DEF Known, Sound, ClaudeSessions, Reservations, NoSession,
           None, SpawnNative, ReleaseUnused, InStep, Phase, Unused
      <3>4. Moves(w, s)
        BY <1>8, <2>1, SyncsFail = FALSE, <3>1, <3>2, <3>3 DEF Moves, Known, Sound, ClaudeSessions,
           Reservations, HistoryIsClaimed, None, SpawnNative, ReleaseUnused, InStep, Phase, Unused
      <3> QED
        BY <3>4, MovesStep
    <2>2. ASSUME ~Phase(w, "open") PROVE ClaimInv'
      <3>1. PICK t : t = [wrapper[w] EXCEPT !.step = "idle"]
        OBVIOUS
      <3>2. t \in ClaudeSessions /\ t.claimed = wrapper[w].claimed /\ t.submitted = wrapper[w].submitted /\ t.step = "idle"
        BY <3>1 DEF Known, ClaudeSessions
      <3>3. ReleaseUnused(w, t) /\ native' = native /\ wrapper[w].step = "claimed"
        BY <1>8, <2>2, <3>1 DEF SpawnNative, InStep
      <3>4. native'[w] = None
        BY <3>3 DEF Known, Sound
      <3> QED
        BY <3>2, <3>3, <3>4, ReleaseStep, SyncsFail = FALSE DEF Known
    <2> QED
      BY <2>1, <2>2
  <1>9. ASSUME NEW w \in Wrappers, NativeStarted(w) PROVE ClaimInv'
    <2> Known(w)
      BY Knows
    <2> DEFINE s == [wrapper[w] EXCEPT !.step = "running", !.mode = "resume",
                   !.submitted = @ \/ Phase(w, "open")]
    <2>1. s \in ClaudeSessions
      BY <1>9 DEF Known, ClaudeSessions, Reservations, NoSession, None, NativeStarted, InStep, Phase
    <2>2. wrapper' = [wrapper EXCEPT ![w] = s]
      BY <1>9 DEF Known, ClaudeSessions, NativeStarted, InStep, Phase
    <2>3. reservation' \in Reservations /\ Sound(s, native'[w], reservation')
          /\ (s.claimed => wrapper[w].claimed)
      BY <1>9 DEF Known, Sound, ClaudeSessions, Reservations, NoSession, None, NativeStarted,
         InStep, Phase
    <2> HIDE DEF s
    <2>4. Moves(w, s)
      BY <1>9, <2>1, <2>2, <2>3 DEF Moves, Known, Reservations, None, NativeStarted, InStep, Phase
    <2> QED
      BY <2>4, MovesStep
  <1>10. ASSUME NEW w \in Wrappers, NativeFails(w) PROVE ClaimInv'
    <2> Known(w)
      BY Knows
    <2>1. ASSUME native' = [native EXCEPT ![w] = None], ReleaseUnused(w, [wrapper[w] EXCEPT !.step = "idle"])
          PROVE  ClaimInv'
      <3>1. PICK t : t = [wrapper[w] EXCEPT !.step = "idle"]
        OBVIOUS
      <3>2. t \in ClaudeSessions /\ t.claimed = wrapper[w].claimed /\ t.submitted = wrapper[w].submitted /\ t.step = "idle"
        BY <3>1 DEF Known, ClaudeSessions
      <3>3. native' \in [Wrappers -> {None, "create", "resume"}] /\ native'[w] = None
            /\ \A v \in Wrappers \ {w} : native'[v] = native[v]
        BY <2>1 DEF Known
      <3>4. ReleaseUnused(w, t)
        BY <2>1, <3>1
      <3> QED
        BY <3>2, <3>3, <3>4, ReleaseStep, SyncsFail = FALSE
    <2>3. ASSUME wrapper' = [wrapper EXCEPT ![w].step = "running",
                                    ![w].phase = IF @ = "open" THEN "faulted" ELSE @]
               /\ UNCHANGED <<reservation, native>> PROVE ClaimInv'
      <3> DEFINE s == [wrapper[w] EXCEPT !.step = "running", !.phase = IF @ = "open" THEN "faulted" ELSE @]
      <3>1. s \in ClaudeSessions
        BY <1>10, <2>3, SyncsFail = FALSE DEF Known, ClaudeSessions, Reservations, NoSession, None,
           NativeFails, ReleaseUnused, InStep, Phase, Unused
      <3>2. wrapper' = [wrapper EXCEPT ![w] = s]
        BY <1>10, <2>3, SyncsFail = FALSE DEF Known, ClaudeSessions, NativeFails, ReleaseUnused,
           InStep, Phase, Unused
      <3>3. reservation' \in Reservations /\ Sound(s, native'[w], reservation')
        BY <1>10, <2>3, SyncsFail = FALSE DEF Known, Sound, ClaudeSessions, Reservations, NoSession,
           None, NativeFails, ReleaseUnused, InStep, Phase, Unused
      <3>4. Moves(w, s)
        BY <1>10, <2>3, SyncsFail = FALSE, <3>1, <3>2, <3>3 DEF Moves, Known, Sound, ClaudeSessions,
           Reservations, HistoryIsClaimed, None, NativeFails, ReleaseUnused, InStep, Phase, Unused
      <3> QED
        BY <3>4, MovesStep
    <2> QED
      BY <1>10, <2>1, <2>3 DEF NativeFails
  <1>11. ASSUME NEW w \in Wrappers, WriteTranscript(w) PROVE ClaimInv'
    <2> Known(w)
      BY Knows
    <2>1. Moves(w, wrapper[w])
      BY <1>11 DEF Moves, Known, Sound, ClaudeSessions, Reservations, HistoryIsClaimed, NoSession,
         None, WriteTranscript, InStep, Phase
    <2> QED
      BY <2>1, MovesStep
  <1>12. ASSUME NEW w \in Wrappers, GiveUpTransport(w) PROVE ClaimInv'
    <2> Known(w)
      BY Knows
    <2>1. ASSUME wrapper' = [wrapper EXCEPT ![w].step = "idle", ![w].mode = "resume"]
               /\ native' = [native EXCEPT ![w] = None] PROVE ClaimInv'
      <3> DEFINE s == [wrapper[w] EXCEPT !.step = "idle", !.mode = "resume"]
      <3>1. s \in ClaudeSessions
        BY <1>12, <2>1 DEF Known, ClaudeSessions, Reservations, NoSession, None, GiveUpTransport,
           InStep, Phase
      <3>2. wrapper' = [wrapper EXCEPT ![w] = s]
        BY <1>12, <2>1 DEF Known, ClaudeSessions, GiveUpTransport, InStep, Phase
      <3>3. reservation' \in Reservations /\ Sound(s, native'[w], reservation')
            /\ (s.claimed => wrapper[w].claimed)
        BY <1>12, <2>1 DEF Known, Sound, ClaudeSessions, Reservations, NoSession, None,
           GiveUpTransport, InStep, Phase
      <3> HIDE DEF s
      <3>4. Moves(w, s)
        BY <1>12, <2>1, <3>1, <3>2, <3>3 DEF Moves, Known, Reservations, None, GiveUpTransport,
           InStep, Phase
      <3> QED
        BY <3>4, MovesStep
    <2>2. ASSUME wrapper' = [wrapper EXCEPT ![w].phase = "faulted"] /\ native' = native PROVE ClaimInv'
      <3> DEFINE s == [wrapper[w] EXCEPT !.phase = "faulted"]
      <3>1. s \in ClaudeSessions
        BY <1>12, <2>2 DEF Known, ClaudeSessions, Reservations, NoSession, None, GiveUpTransport,
           InStep, Phase
      <3>2. wrapper' = [wrapper EXCEPT ![w] = s]
        BY <1>12, <2>2 DEF Known, ClaudeSessions, GiveUpTransport, InStep, Phase
      <3>3. reservation' \in Reservations /\ Sound(s, native'[w], reservation')
            /\ (s.claimed => wrapper[w].claimed)
        BY <1>12, <2>2 DEF Known, Sound, ClaudeSessions, Reservations, NoSession, None,
           GiveUpTransport, InStep, Phase
      <3> HIDE DEF s
      <3>4. Moves(w, s)
        BY <1>12, <2>2, <3>1, <3>2, <3>3 DEF Moves, Known, Reservations, None, GiveUpTransport,
           InStep, Phase
      <3> QED
        BY <3>4, MovesStep
    <2> QED
      BY <1>12, <2>1, <2>2 DEF GiveUpTransport
  <1>13. ASSUME NEW w \in Wrappers, NEW c \in Configurations, SelectConfiguration(w, c) PROVE ClaimInv'
    <2> Known(w)
      BY Knows
    <2>1. Moves(w, [wrapper[w] EXCEPT !.choice = c, !.task = IF InStep(w, "running") THEN "native" ELSE "save"])
      BY <1>13 DEF Moves, Known, Sound, ClaudeSessions, Reservations, HistoryIsClaimed, NoSession,
         None, SelectConfiguration, InStep, Phase
    <2> QED
      BY <2>1, MovesStep
  <1>14. ASSUME NEW w \in Wrappers, SetNative(w) PROVE ClaimInv'
    <2> Known(w)
      BY Knows
    <2>1. ASSUME wrapper' = [wrapper EXCEPT ![w].task = "save"] PROVE ClaimInv'
      <3> DEFINE s == [wrapper[w] EXCEPT !.task = "save"]
      <3>1. s \in ClaudeSessions
        BY <1>14, <2>1 DEF Known, ClaudeSessions, Reservations, NoSession, None, SetNative, InStep,
           Phase
      <3>2. wrapper' = [wrapper EXCEPT ![w] = s]
        BY <1>14, <2>1 DEF Known, ClaudeSessions, SetNative, InStep, Phase
      <3>3. reservation' \in Reservations /\ Sound(s, native'[w], reservation')
            /\ (s.claimed => wrapper[w].claimed)
        BY <1>14, <2>1 DEF Known, Sound, ClaudeSessions, Reservations, NoSession, None, SetNative,
           InStep, Phase
      <3> HIDE DEF s
      <3>4. Moves(w, s)
        BY <1>14, <2>1, <3>1, <3>2, <3>3 DEF Moves, Known, Reservations, None, SetNative, InStep,
           Phase
      <3> QED
        BY <3>4, MovesStep
    <2>2. ASSUME wrapper' = [wrapper EXCEPT ![w].task = None, ![w].choice = None] PROVE ClaimInv'
      <3> DEFINE s == [wrapper[w] EXCEPT !.task = None, !.choice = None]
      <3>1. s \in ClaudeSessions
        BY <1>14, <2>2 DEF Known, ClaudeSessions, Reservations, NoSession, None, SetNative, InStep,
           Phase
      <3>2. wrapper' = [wrapper EXCEPT ![w] = s]
        BY <1>14, <2>2 DEF Known, ClaudeSessions, SetNative, InStep, Phase
      <3>3. reservation' \in Reservations /\ Sound(s, native'[w], reservation')
            /\ (s.claimed => wrapper[w].claimed)
        BY <1>14, <2>2 DEF Known, Sound, ClaudeSessions, Reservations, NoSession, None, SetNative,
           InStep, Phase
      <3> HIDE DEF s
      <3>4. Moves(w, s)
        BY <1>14, <2>2, <3>1, <3>2, <3>3 DEF Moves, Known, Reservations, None, SetNative, InStep,
           Phase
      <3> QED
        BY <3>4, MovesStep
    <2> QED
      BY <1>14, <2>1, <2>2 DEF SetNative
  <1>15. ASSUME NEW w \in Wrappers, SaveConfiguration(w) PROVE ClaimInv'
    <2> Known(w)
      BY Knows
    <2>1. ASSUME wrapper' = [wrapper EXCEPT ![w].task = None, ![w].choice = None],
               reservation' = [reservation EXCEPT !.configuration = wrapper[w].choice] PROVE ClaimInv'
      <3> DEFINE s == [wrapper[w] EXCEPT !.task = None, !.choice = None]
      <3>1. s \in ClaudeSessions
        BY <1>15, <2>1 DEF Known, ClaudeSessions, Reservations, NoSession, None, SaveConfiguration,
           SaveFails, Faulted, InStep, Phase
      <3>2. wrapper' = [wrapper EXCEPT ![w] = s]
        BY <1>15, <2>1 DEF Known, ClaudeSessions, SaveConfiguration, SaveFails, Faulted, InStep,
           Phase
      <3>3. reservation' \in Reservations /\ Sound(s, native'[w], reservation')
            /\ (s.claimed => wrapper[w].claimed)
        BY <1>15, <2>1 DEF Known, Sound, ClaudeSessions, Reservations, NoSession, None,
           SaveConfiguration, SaveFails, Faulted, InStep, Phase
      <3> HIDE DEF s
      <3>4. Moves(w, s)
        BY <1>15, <2>1, <3>1, <3>2, <3>3 DEF Moves, Known, Reservations, None, SaveConfiguration,
           SaveFails, Faulted, InStep, Phase
      <3> QED
        BY <3>4, MovesStep
    <2>2. ASSUME NEW written \in {reservation.configuration, wrapper[w].choice},
               SaveFails(w, written) PROVE ClaimInv'
      <3> DEFINE s == [wrapper[w] EXCEPT !.task = None, !.choice = None, !.phase = Faulted(w)]
      <3>1. s \in ClaudeSessions
        BY <1>15, <2>2 DEF Known, ClaudeSessions, Reservations, NoSession, None, SaveConfiguration,
           SaveFails, Faulted, InStep, Phase
      <3>2. wrapper' = [wrapper EXCEPT ![w] = s]
        BY <1>15, <2>2 DEF Known, ClaudeSessions, SaveConfiguration, SaveFails, Faulted, InStep,
           Phase
      <3>3. reservation' \in Reservations /\ Sound(s, native'[w], reservation')
            /\ (s.claimed => wrapper[w].claimed)
        BY <1>15, <2>2 DEF Known, Sound, ClaudeSessions, Reservations, NoSession, None,
           SaveConfiguration, SaveFails, Faulted, InStep, Phase
      <3> HIDE DEF s
      <3>4. Moves(w, s)
        BY <1>15, <2>2, <3>1, <3>2, <3>3 DEF Moves, Known, Reservations, None, SaveConfiguration,
           SaveFails, Faulted, InStep, Phase
      <3> QED
        BY <3>4, MovesStep
    <2> QED
      BY <1>15, <2>1, <2>2 DEF SaveConfiguration, SaveFails, Faulted
  <1>16. ASSUME NEW w \in Wrappers, FaultCloses(w) PROVE ClaimInv'
    <2> Known(w)
      BY Knows
    <2>1. Moves(w, wrapper[w])
      BY <1>16 DEF Moves, Known, Sound, ClaudeSessions, Reservations, HistoryIsClaimed, NoSession,
         None, FaultCloses, InStep, Phase
    <2> QED
      BY <2>1, MovesStep
  <1>17. ASSUME NEW w \in Wrappers, BeginClose(w) PROVE ClaimInv'
    <2> Known(w)
      BY Knows
    <2>1. Moves(w, [wrapper[w] EXCEPT !.phase = "closing"])
      BY <1>17 DEF Moves, Known, Sound, ClaudeSessions, Reservations, HistoryIsClaimed, NoSession,
         None, BeginClose, InStep, Phase
    <2> QED
      BY <2>1, MovesStep
  <1>18. ASSUME NEW w \in Wrappers, CloseTransport(w) PROVE ClaimInv'
    <2> Known(w)
      BY Knows
    <2>1. ASSUME wrapper' = wrapper /\ native' = [native EXCEPT ![w] = None] PROVE ClaimInv'
      <3>1. Moves(w, wrapper[w])
        BY <1>18, <2>1 DEF Moves, Known, Sound, ClaudeSessions, Reservations, HistoryIsClaimed,
           NoSession, None, CloseTransport, InStep, Phase
      <3> QED
        BY <3>1, MovesStep
    <2>2. ASSUME wrapper' = [wrapper EXCEPT ![w].failed = TRUE] /\ native' = native PROVE ClaimInv'
      <3>1. PICK s : s = [wrapper[w] EXCEPT !.failed = TRUE]
        OBVIOUS
      <3>2. /\ s \in ClaudeSessions /\ s.claimed = wrapper[w].claimed /\ s.step = wrapper[w].step
            /\ s.mode = wrapper[w].mode /\ s.submitted = wrapper[w].submitted
        BY <3>1 DEF Known, ClaudeSessions
      <3>3. wrapper' = [wrapper EXCEPT ![w] = s] /\ native' = native /\ reservation' = reservation
        BY <1>18, <2>2, <3>1 DEF CloseTransport
      <3>4. Moves(w, s)
        BY <3>2, <3>3 DEF Moves, Known, Sound
      <3> QED
        BY <3>4, MovesStep
    <2> QED
      BY <1>18, <2>1, <2>2 DEF CloseTransport
  <1>19. ASSUME NEW w \in Wrappers, CloseTimesOut(w) PROVE ClaimInv'
    <2> Known(w)
      BY Knows
    <2>1. PICK s : s = [wrapper[w] EXCEPT !.failed = TRUE]
      OBVIOUS
    <2>2. /\ s \in ClaudeSessions /\ s.claimed = wrapper[w].claimed /\ s.step = wrapper[w].step
          /\ s.mode = wrapper[w].mode /\ s.submitted = wrapper[w].submitted
      BY <2>1 DEF Known, ClaudeSessions
    <2>3. wrapper' = [wrapper EXCEPT ![w] = s] /\ native' = native /\ reservation' = reservation
      BY <1>19, <2>1 DEF CloseTimesOut
    <2>4. Moves(w, s)
      BY <2>2, <2>3 DEF Moves, Known, Sound
    <2> QED
      BY <2>4, MovesStep
  <1>20. ASSUME NEW w \in Wrappers, FinishClose(w) PROVE ClaimInv'
    <2> Known(w)
      BY Knows
    <2>1. ASSUME wrapper[w].failed PROVE ClaimInv'
      <3> DEFINE s == [wrapper[w] EXCEPT !.phase = "closed", !.failed = FALSE]
      <3>1. s \in ClaudeSessions
        BY <1>20, <2>1, SyncsFail = FALSE DEF Known, ClaudeSessions, Reservations, NoSession, None,
           FinishClose, ReleaseUnused, InFlight, InStep, Phase, Unused
      <3>2. wrapper' = [wrapper EXCEPT ![w] = s]
        BY <1>20, <2>1, SyncsFail = FALSE DEF Known, ClaudeSessions, FinishClose, ReleaseUnused,
           InFlight, InStep, Phase, Unused
      <3>3. reservation' \in Reservations /\ Sound(s, native'[w], reservation')
        BY <1>20, <2>1, SyncsFail = FALSE DEF Known, Sound, ClaudeSessions, Reservations, NoSession,
           None, FinishClose, ReleaseUnused, InFlight, InStep, Phase, Unused
      <3>4. Moves(w, s)
        BY <1>20, <2>1, SyncsFail = FALSE, <3>1, <3>2, <3>3 DEF Moves, Known, Sound, ClaudeSessions,
           Reservations, HistoryIsClaimed, None, FinishClose, ReleaseUnused, InFlight, InStep,
           Phase, Unused
      <3> QED
        BY <3>4, MovesStep
    <2>2. ASSUME ~wrapper[w].failed PROVE ClaimInv'
      <3>1. PICK t : t = [wrapper[w] EXCEPT !.phase = "closed"]
        OBVIOUS
      <3>2. t \in ClaudeSessions /\ t.claimed = wrapper[w].claimed /\ t.submitted = wrapper[w].submitted
            /\ t.step = wrapper[w].step
        BY <3>1 DEF Known, ClaudeSessions
      <3>3. ReleaseUnused(w, t) /\ native' = native /\ native[w] = None /\ t.step # "claimed"
        BY <1>20, <2>2, <3>1, <3>2 DEF FinishClose, InFlight
      <3> QED
        BY <3>2, <3>3, ReleaseStep, SyncsFail = FALSE DEF Known
    <2> QED
      BY <2>1, <2>2
  <1>21. ASSUME NEW w \in Wrappers, ForgetSession(w) PROVE ClaimInv'
    <2> Known(w)
      BY Knows
    <2>1. Moves(w, NoSession)
      BY <1>21 DEF Moves, Known, Sound, ClaudeSessions, Reservations, HistoryIsClaimed, NoSession,
         None, ForgetSession, InFlight, InStep, Phase
    <2> QED
      BY <2>1, MovesStep
  <1>22. ASSUME NEW w \in Wrappers, WrapperDies(w) PROVE ClaimInv'
    <2> Known(w)
      BY Knows
    <2>1. Moves(w, NoSession)
      BY <1>22 DEF Moves, Known, Sound, ClaudeSessions, Reservations, HistoryIsClaimed, NoSession,
         None, WrapperDies, InStep, Phase
    <2> QED
      BY <2>1, MovesStep
  <1> QED
    BY <1>1, <1>2, <1>3, <1>4, <1>5, <1>6, <1>7, <1>8, <1>9, <1>10, <1>11, <1>12, <1>13, <1>14,
       <1>15, <1>16, <1>17, <1>18, <1>19, <1>20, <1>21, <1>22 DEF NextPending

\* When directories can be synced, one wrapper at most holds the claim, and only its CLI may create
\* the Session.
THEOREM SoleCreator == ASSUME SyncsFail = FALSE PROVE PendingSpec => []OneCreator
  <1>1. InitPending => ClaimInv
    BY ClaimInit
  <1>2. ClaimInv /\ [NextPending]_pendingVars => ClaimInv'
    BY ClaimNext
  <1>3. ClaimInv => OneCreator
    BY DEF ClaimInv, Sound, OneCreator, Claimed
  <1> QED
    BY <1>1, <1>2, <1>3, PTL DEF PendingSpec

\* When directories can be synced, a Session that has history stays claimed, so it is resumed and
\* never created again.
THEOREM HistoryKeepsClaim == ASSUME SyncsFail = FALSE PROVE PendingSpec => []HistoryIsClaimed
  <1>1. InitPending => ClaimInv
    BY ClaimInit
  <1>2. ClaimInv /\ [NextPending]_pendingVars => ClaimInv'
    BY ClaimNext
  <1>3. ClaimInv => HistoryIsClaimed
    BY DEF ClaimInv
  <1> QED
    BY <1>1, <1>2, <1>3, PTL DEF PendingSpec

(***************************************************************************)
(* The tokens of a Session.  Only the newest request is ever counted: its   *)
(* message counts it when it ends, or leaves it sparse, and then the        *)
(* repetition of the message and the reading of the transcript count it,    *)
(* each by its name.  A boundary that is raised takes the readings of older *)
(* requests out of the count.                                               *)
(***************************************************************************)

NameKinds == {"message", "request"}
Counts == [made : Nat, before : Nat, corrected : Nat, estimated : Nat,
           names : SUBSET (Nat \X NameKinds), sparse : BOOLEAN]
Sessions == [phase : {"open", "closed"}, process : Nat, running : BOOLEAN, generation : Nat,
             turn : Nat, turns : Nat]
TranscriptReads == [request : Nat, latest : BOOLEAN, generation : Nat, turn : Nat]

\* A reading that may still count: the newest request's, in the Turn that made it.
MayCount(read) == read.latest /\ read.turn = session.turn
Uncounted ==
    /\ \A k \in NameKinds : <<counted.made, k>> \notin counted.names
    /\ counted.sparse \/ \E read \in reads : MayCount(read)

UsageInv ==
    /\ counted \in Counts /\ session \in Sessions
    /\ reads \subseteq TranscriptReads
    /\ session.turn <= session.turns
    /\ \A read \in reads : read.turn <= session.turns /\ (read.latest => read.request = counted.made)
    /\ counted.before <= counted.made /\ counted.corrected <= counted.made
    /\ IsFiniteSet(counted.names)
    /\ counted.corrected + counted.estimated <= counted.made + Cardinality(TwiceNamed)
    /\ Uncounted => counted.corrected + counted.estimated < counted.made + Cardinality(TwiceNamed)

\* A request that is named gets no second name, or it is one that is named twice.
LEMMA TwiceGrows ==
    ASSUME counted.names \in SUBSET (Nat \X NameKinds), IsFiniteSet(counted.names),
           NEW n \in Nat, NEW k \in NameKinds, <<n, k>> \notin counted.names,
           counted'.names = counted.names \cup {<<n, k>>}
    PROVE  /\ IsFiniteSet(counted'.names)
           /\ Cardinality(TwiceNamed) \in Nat /\ Cardinality(TwiceNamed') \in Nat
           /\ Cardinality(TwiceNamed) <= Cardinality(TwiceNamed')
           /\ (\E other \in NameKinds : <<n, other>> \in counted.names) =>
                 Cardinality(TwiceNamed') = Cardinality(TwiceNamed) + 1
<1>1. IsFiniteSet(counted'.names)
    BY FS_AddElement
<1>2. TwiceNamed \subseteq counted.names /\ TwiceNamed' \subseteq counted'.names
    BY DEF TwiceNamed
<1>3. IsFiniteSet(TwiceNamed) /\ IsFiniteSet(TwiceNamed')
    BY <1>1, <1>2, FS_Subset
<1>4. Cardinality(TwiceNamed) \in Nat /\ Cardinality(TwiceNamed') \in Nat
    BY <1>3, FS_CardinalityType
<1>5. TwiceNamed \subseteq TwiceNamed'
    BY DEF TwiceNamed
<1>6. Cardinality(TwiceNamed) <= Cardinality(TwiceNamed')
    BY <1>3, <1>5, FS_Subset
<1>7. ASSUME NEW other \in NameKinds, <<n, other>> \in counted.names
      PROVE  Cardinality(TwiceNamed') = Cardinality(TwiceNamed) + 1
    <2>1. other # k
        BY <1>7
    <2>2. <<n, "request">> \notin TwiceNamed
        BY DEF TwiceNamed, NameKinds
    <2>3. TwiceNamed' = TwiceNamed \cup {<<n, "request">>}
        <3>1. <<n, "request">> \in TwiceNamed'
            BY <1>7, <2>1 DEF TwiceNamed, NameKinds
        <3>2. ASSUME NEW name \in TwiceNamed', name # <<n, "request">> PROVE name \in TwiceNamed
            <4>1. /\ name \in counted'.names /\ name[2] = "request"
                  /\ <<name[1], "message">> \in counted'.names
                BY <3>2 DEF TwiceNamed
            <4>2. name \in Nat \X NameKinds
                BY <4>1
            <4>3. name = <<name[1], "request">> /\ name[1] # n
                BY <3>2, <4>1, <4>2
            <4>4. name \in counted.names /\ <<name[1], "message">> \in counted.names
                BY <4>1, <4>3
            <4> QED BY <4>1, <4>4 DEF TwiceNamed
        <3> QED BY <1>5, <3>1, <3>2
    <2> QED BY <1>3, <2>2, <2>3, FS_AddElement
<1> QED BY <1>1, <1>4, <1>6, <1>7

LEMMA TwiceSame ==
    ASSUME UsageInv, counted'.names = counted.names
    PROVE  /\ IsFiniteSet(counted'.names) /\ TwiceNamed' = TwiceNamed
           /\ Cardinality(TwiceNamed) \in Nat
<1>1. IsFiniteSet(TwiceNamed)
    BY FS_Subset DEF UsageInv, TwiceNamed
<1> QED BY <1>1, FS_CardinalityType DEF UsageInv, TwiceNamed

LEMMA UsageInit == InitUsage => UsageInv
<1> SUFFICES ASSUME InitUsage PROVE UsageInv
    OBVIOUS
<1>1. counted.names = {} /\ TwiceNamed = {}
    BY DEF InitUsage, TwiceNamed
<1>2. IsFiniteSet(counted.names) /\ Cardinality(TwiceNamed) = 0
    BY <1>1, FS_EmptySet
<1> QED BY <1>2 DEF InitUsage, UsageInv, Uncounted, MayCount, Counts, Sessions, TranscriptReads

LEMMA OutdatedShape ==
    ASSUME NEW read \in TranscriptReads
    PROVE  Outdated(read) \in TranscriptReads /\ Outdated(read).turn = read.turn /\ ~Outdated(read).latest
BY DEF Outdated, TranscriptReads

LEMMA BoundaryEnds ==
    ASSUME UsageInv
    PROVE  /\ BoundaryRaised \subseteq TranscriptReads
           /\ \A read \in BoundaryRaised : read.turn <= session.turns /\ ~read.latest
<1> SUFFICES ASSUME NEW r \in BoundaryRaised
             PROVE  r \in TranscriptReads /\ r.turn <= session.turns /\ ~r.latest
    OBVIOUS
<1>1. PICK read \in reads : r = Outdated(read)
    BY DEF BoundaryRaised
<1>2. read \in TranscriptReads /\ read.turn <= session.turns
    BY DEF UsageInv
<1> QED BY <1>1, <1>2, OutdatedShape

\* The counts as the steps change them
Begun(x, before) == [x EXCEPT !.estimated = 0, !.names = {}, !.sparse = FALSE, !.before = before]
Counted(x, name, sparse) == [x EXCEPT !.names = x.names \cup {name}, !.estimated = x.estimated + 1,
                                      !.sparse = sparse]
Settled(x, sum) == [x EXCEPT !.corrected = sum, !.estimated = 0, !.sparse = FALSE]
Completed(x, r) == [x EXCEPT !.made = r, !.names = x.names \cup {<<r, "message">>},
                             !.estimated = x.estimated + 1, !.sparse = FALSE]

LEMMA BegunShape ==
    ASSUME NEW x \in Counts, NEW n \in Nat
    PROVE  /\ Begun(x, n) \in Counts /\ Begun(x, n).made = x.made /\ Begun(x, n).before = n
           /\ Begun(x, n).corrected = x.corrected /\ Begun(x, n).estimated = 0 /\ ~Begun(x, n).sparse
           /\ Begun(x, n).names = {}
BY DEF Begun, Counts

LEMMA CountedShape ==
    ASSUME NEW x \in Counts, NEW name \in Nat \X NameKinds, NEW sparse \in BOOLEAN
    PROVE  /\ Counted(x, name, sparse) \in Counts /\ Counted(x, name, sparse).made = x.made
           /\ Counted(x, name, sparse).before = x.before /\ Counted(x, name, sparse).names = x.names \cup {name}
           /\ Counted(x, name, sparse).corrected = x.corrected
           /\ Counted(x, name, sparse).estimated = x.estimated + 1
<1>1. PICK names \in SUBSET (Nat \X NameKinds) : names = x.names \cup {name}
    BY DEF Counts
<1>2. PICK sum \in Nat : sum = x.estimated + 1
    BY DEF Counts
<1>3. Counted(x, name, sparse) = [x EXCEPT !.names = names, !.estimated = sum, !.sparse = sparse]
    BY <1>1, <1>2 DEF Counted
<1> QED BY <1>1, <1>2, <1>3 DEF Counts

LEMMA SettledShape ==
    ASSUME NEW x \in Counts, NEW n \in Nat
    PROVE  /\ Settled(x, n) \in Counts /\ Settled(x, n).made = x.made /\ Settled(x, n).before = x.before
           /\ Settled(x, n).corrected = n /\ Settled(x, n).estimated = 0 /\ ~Settled(x, n).sparse
           /\ Settled(x, n).names = x.names
BY DEF Settled, Counts

LEMMA CompletedShape ==
    ASSUME NEW x \in Counts, NEW n \in Nat
    PROVE  /\ Completed(x, n) \in Counts /\ Completed(x, n).made = n /\ Completed(x, n).before = x.before
           /\ Completed(x, n).names = x.names \cup {<<n, "message">>} /\ Completed(x, n).corrected = x.corrected
           /\ Completed(x, n).estimated = x.estimated + 1
<1>0. <<n, "message">> \in Nat \X NameKinds /\ x.names \in SUBSET (Nat \X NameKinds)
    BY DEF Counts, NameKinds
<1>1. PICK names \in SUBSET (Nat \X NameKinds) : names = x.names \cup {<<n, "message">>}
    BY <1>0
<1>2. PICK sum \in Nat : sum = x.estimated + 1
    BY DEF Counts
<1>3. Completed(x, n) = [x EXCEPT !.made = n, !.names = names, !.estimated = sum, !.sparse = FALSE]
    BY <1>1, <1>2 DEF Completed
<1> QED BY <1>1, <1>2, <1>3 DEF Counts

\* The Session as the steps change it
Turned(x, process) == [x EXCEPT !.turn = x.turns + 1, !.turns = x.turns + 1,
                                !.generation = x.generation + 1, !.running = TRUE, !.process = process]
Ended(x, phase) == [x EXCEPT !.phase = phase, !.turn = 0, !.running = FALSE]
LEMMA TurnedShape ==
    ASSUME NEW x \in Sessions, NEW n \in Nat
    PROVE  /\ Turned(x, n) \in Sessions
           /\ Turned(x, n).turn = x.turns + 1 /\ Turned(x, n).turns = x.turns + 1
<1>1. PICK turns \in Nat, generation \in Nat : turns = x.turns + 1 /\ generation = x.generation + 1
    BY DEF Sessions
<1>2. Turned(x, n) = [x EXCEPT !.turn = turns, !.turns = turns, !.generation = generation,
                               !.running = TRUE, !.process = n]
    BY <1>1 DEF Turned
<1> QED BY <1>1, <1>2 DEF Sessions

LEMMA EndedShape ==
    ASSUME NEW x \in Sessions, NEW phase \in {"open", "closed"}
    PROVE  Ended(x, phase) \in Sessions /\ Ended(x, phase).turn = 0 /\ Ended(x, phase).turns = x.turns
BY DEF Ended, Sessions

LEMMA HeldShape ==
    ASSUME NEW x \in Sessions, NEW n \in Nat
    PROVE  /\ [x EXCEPT !.turn = n] \in Sessions /\ [x EXCEPT !.turn = n].turn = n
           /\ [x EXCEPT !.turn = n].turns = x.turns
           /\ [x EXCEPT !.generation = n] \in Sessions /\ [x EXCEPT !.generation = n].turn = x.turn
           /\ [x EXCEPT !.generation = n].turns = x.turns
<1>1. /\ [x EXCEPT !.turn = n] \in Sessions /\ [x EXCEPT !.turn = n].turn = n
      /\ [x EXCEPT !.turn = n].turns = x.turns
    BY DEF Sessions
<1>2. /\ [x EXCEPT !.generation = n] \in Sessions /\ [x EXCEPT !.generation = n].turn = x.turn
      /\ [x EXCEPT !.generation = n].turns = x.turns
    BY DEF Sessions
<1> QED BY <1>1, <1>2

LEMMA TurnCounts ==
    ASSUME UsageInv, StartTurn PROVE UsageInv'
<1>0. counted \in Counts /\ session \in Sessions
    BY DEF UsageInv
<1>1. PICK before : before = IF session.running THEN counted.before ELSE counted.made
    OBVIOUS
<1>2. PICK process : process = IF session.running THEN session.process ELSE session.process + 1
    OBVIOUS
<1>3. before \in Nat /\ before <= counted.made /\ process \in Nat
    BY <1>0, <1>1, <1>2 DEF UsageInv, Counts, Sessions
<1>4. counted' = Begun(counted, before) /\ session' = Turned(session, process) /\ UNCHANGED <<reads, usage>>
    BY <1>1, <1>2 DEF StartTurn, Begun, Turned
<1>5. /\ counted' \in Counts /\ counted'.made = counted.made /\ counted'.corrected = counted.corrected
      /\ counted'.estimated = 0 /\ counted'.before = before /\ ~counted'.sparse /\ counted'.names = {}
    BY <1>0, <1>3, <1>4, BegunShape
<1>t. IsFiniteSet(counted'.names) /\ Cardinality(TwiceNamed') = 0
    <2>1. TwiceNamed' = {}
        BY <1>5 DEF TwiceNamed
    <2> QED BY <1>5, <2>1, FS_EmptySet
<1>6. /\ session' \in Sessions /\ session'.turn = session.turns + 1 /\ session'.turns = session.turns + 1
    BY <1>0, <1>3, <1>4, TurnedShape
<1>7. /\ session.turns \in Nat /\ counted.corrected \in Nat /\ counted.estimated \in Nat /\ counted.made \in Nat
      /\ \A read \in reads : read.turn \in Nat
    BY <1>0 DEF Counts, Sessions, TranscriptReads, UsageInv
<1>8. ~Uncounted'
    BY <1>4, <1>5, <1>6, <1>7 DEF Uncounted, MayCount, UsageInv
<1> QED BY <1>3, <1>4, <1>5, <1>t, <1>6, <1>7, <1>8 DEF UsageInv

\* The newest request is counted by a name, unless it was counted by that name.
LEMMA CountCounts ==
    ASSUME UsageInv, NEW sparse \in BOOLEAN, NEW k \in NameKinds,
           Uncounted \/ \E other \in NameKinds : <<counted.made, other>> \in counted.names,
           Count(<<counted.made, k>>, sparse)
    PROVE  /\ counted' \in Counts
           /\ counted'.made = counted.made /\ counted'.before = counted.before
           /\ counted'.corrected = counted.corrected
           /\ <<counted.made, k>> \in counted'.names /\ IsFiniteSet(counted'.names)
           /\ counted'.corrected + counted'.estimated <= counted.made + Cardinality(TwiceNamed')
<1>0. counted \in Counts
    BY DEF UsageInv
<1>1. PICK name : name = <<counted.made, k>>
    OBVIOUS
<1>2. name \in Nat \X NameKinds /\ counted.corrected \in Nat /\ counted.estimated \in Nat /\ counted.made \in Nat
    BY <1>0, <1>1 DEF Counts
<1>3. CASE name \in counted.names
    <2>1. counted' = [counted EXCEPT !.sparse = sparse] /\ UNCHANGED usage
        BY <1>1, <1>3 DEF Count
    <2>2. counted' \in Counts /\ counted'.made = counted.made /\ counted'.before = counted.before
        BY <1>0, <2>1 DEF Counts
    <2>3. /\ counted'.names = counted.names /\ counted'.corrected = counted.corrected
          /\ counted'.estimated = counted.estimated
        BY <1>0, <2>1 DEF Counts
    <2>4. IsFiniteSet(counted'.names) /\ TwiceNamed' = TwiceNamed
        BY <2>3, TwiceSame
    <2> QED BY <1>1, <1>3, <2>2, <2>3, <2>4 DEF UsageInv
<1>4. CASE name \notin counted.names
    <2>1. counted' = Counted(counted, name, sparse)
        BY <1>1, <1>4 DEF Count, PublishUsage, Counted
    <2>2. /\ counted' \in Counts /\ counted'.made = counted.made /\ counted'.before = counted.before
          /\ counted'.names = counted.names \cup {name} /\ counted'.corrected = counted.corrected
          /\ counted'.estimated = counted.estimated + 1
        BY <1>0, <1>2, <2>1, CountedShape
    <2>3. /\ counted.names \in SUBSET (Nat \X NameKinds) /\ IsFiniteSet(counted.names)
          /\ counted'.names = counted.names \cup {<<counted.made, k>>} /\ <<counted.made, k>> \notin counted.names
        BY <1>0, <1>1, <1>4, <2>2 DEF Counts, UsageInv
    <2>4. /\ IsFiniteSet(counted'.names)
          /\ Cardinality(TwiceNamed) \in Nat /\ Cardinality(TwiceNamed') \in Nat
          /\ Cardinality(TwiceNamed) <= Cardinality(TwiceNamed')
          /\ (\E other \in NameKinds : <<counted.made, other>> \in counted.names) =>
                Cardinality(TwiceNamed') = Cardinality(TwiceNamed) + 1
        BY <1>2, <2>3, TwiceGrows
    <2>5. \/ counted.corrected + counted.estimated < counted.made + Cardinality(TwiceNamed)
          \/ /\ counted.corrected + counted.estimated <= counted.made + Cardinality(TwiceNamed)
             /\ Cardinality(TwiceNamed') = Cardinality(TwiceNamed) + 1
        BY <2>4 DEF UsageInv
    <2>6. counted.corrected + counted.estimated + 1 <= counted.made + Cardinality(TwiceNamed')
        BY <1>2, <2>4, <2>5
    <2> QED BY <1>2, <2>2, <2>3, <2>4, <2>6
<1> QED BY <1>3, <1>4

LEMMA MessageCounts ==
    ASSUME UsageInv, MessageCompleted PROVE UsageInv'
<1>0. counted \in Counts /\ session \in Sessions /\ UNCHANGED session
    BY DEF UsageInv, MessageCompleted
<1>1. PICK r : r = counted.made + 1
    OBVIOUS
<1>2. /\ r \in Nat /\ counted.made < r /\ counted.made \in Nat /\ counted.corrected \in Nat
      /\ counted.estimated \in Nat /\ counted.before \in Nat
    BY <1>0, <1>1 DEF Counts
<1>i. /\ counted.corrected + counted.estimated <= counted.made + Cardinality(TwiceNamed)
      /\ counted.before <= counted.made /\ counted.corrected <= counted.made
      /\ counted.names \in SUBSET (Nat \X NameKinds) /\ IsFiniteSet(counted.names)
    BY <1>0 DEF UsageInv, Counts
<1>3. CASE /\ counted' = [counted EXCEPT !.made = r, !.names = counted.names \cup {<<r, "message">>},
                                         !.estimated = counted.estimated + 1, !.sparse = FALSE]
           /\ PublishUsage(counted.corrected + counted.estimated + 1, usage.context)
           /\ reads' = BoundaryRaised
    <2>1. counted' = Completed(counted, r)
        BY <1>3 DEF Completed
    <2>2. /\ counted' \in Counts /\ counted'.made = r /\ counted'.before = counted.before
          /\ counted'.names = counted.names \cup {<<r, "message">>} /\ counted'.corrected = counted.corrected
          /\ counted'.estimated = counted.estimated + 1
        BY <1>0, <1>2, <2>1, CompletedShape
    <2>3. /\ IsFiniteSet(counted'.names) /\ Cardinality(TwiceNamed) \in Nat /\ Cardinality(TwiceNamed') \in Nat
          /\ Cardinality(TwiceNamed) <= Cardinality(TwiceNamed')
        <3>1. CASE <<r, "message">> \in counted.names
            <4>1. counted'.names = counted.names
                BY <2>2, <3>1
            <4> QED BY <4>1, TwiceSame
        <3>2. CASE <<r, "message">> \notin counted.names
            <4>1. "message" \in NameKinds
                BY DEF NameKinds
            <4> QED BY <1>2, <1>i, <2>2, <3>2, <4>1, TwiceGrows
        <3> QED BY <3>1, <3>2
    <2>4. ~Uncounted'
        BY <2>2 DEF Uncounted, NameKinds
    <2>5. /\ counted'.corrected + counted'.estimated <= counted'.made + Cardinality(TwiceNamed')
          /\ counted'.before <= counted'.made /\ counted'.corrected <= counted'.made
        BY <1>1, <1>2, <1>i, <2>2, <2>3
    <2> QED BY <1>0, <1>3, <2>2, <2>3, <2>4, <2>5, BoundaryEnds DEF UsageInv
<1>4. CASE /\ counted' = [counted EXCEPT !.made = r, !.sparse = TRUE]
           /\ reads' = BoundaryRaised \cup
                 {[request |-> r, latest |-> TRUE, generation |-> session.generation,
                   turn |-> session.turn]}
           /\ UNCHANGED usage
    <2>1. /\ counted' \in Counts /\ counted'.made = r /\ counted'.before = counted.before
          /\ counted'.corrected = counted.corrected /\ counted'.estimated = counted.estimated
          /\ counted'.names = counted.names
        BY <1>0, <1>2, <1>4 DEF Counts
    <2>2. PICK new : new = [request |-> r, latest |-> TRUE, generation |-> session.generation,
                            turn |-> session.turn]
        OBVIOUS
    <2>3. new \in TranscriptReads /\ new.request = r /\ new.turn = session.turn
        BY <1>0, <1>2, <2>2 DEF TranscriptReads, Sessions
    <2>4. /\ reads' \subseteq TranscriptReads
          /\ \A read \in reads' : read.turn <= session.turns /\ (read.latest => read.request = r)
        BY <1>4, <2>2, <2>3, BoundaryEnds DEF UsageInv
    <2>5. /\ IsFiniteSet(counted'.names) /\ TwiceNamed' = TwiceNamed /\ Cardinality(TwiceNamed) \in Nat
        BY <2>1, TwiceSame
    <2>6. /\ counted'.corrected + counted'.estimated < counted'.made + Cardinality(TwiceNamed')
          /\ counted'.corrected + counted'.estimated <= counted'.made + Cardinality(TwiceNamed')
          /\ counted'.before <= counted'.made /\ counted'.corrected <= counted'.made
        BY <1>1, <1>2, <1>i, <2>1, <2>5
    <2> QED BY <1>0, <2>1, <2>4, <2>5, <2>6 DEF UsageInv
<1> QED BY <1>1, <1>3, <1>4 DEF MessageCompleted

LEMMA RepeatCounts ==
    ASSUME UsageInv, UsageRepeated PROVE UsageInv'
<1>1. /\ Count(<<counted.made, "message">>, FALSE) /\ counted.sparse
      /\ reads' = BoundaryRaised /\ UNCHANGED session
    BY DEF UsageRepeated
<1>2. "message" \in NameKinds /\ (Uncounted \/ \E other \in NameKinds : <<counted.made, other>> \in counted.names)
    BY <1>1 DEF Uncounted, NameKinds
<1>3. /\ counted' \in Counts
      /\ counted'.made = counted.made /\ counted'.before = counted.before
      /\ counted'.corrected = counted.corrected
      /\ <<counted.made, "message">> \in counted'.names /\ IsFiniteSet(counted'.names)
      /\ counted'.corrected + counted'.estimated <= counted.made + Cardinality(TwiceNamed')
    BY <1>1, <1>2, CountCounts
<1>4. ~Uncounted'
    BY <1>2, <1>3 DEF Uncounted
<1> QED BY <1>1, <1>3, <1>4, BoundaryEnds DEF UsageInv

LEMMA ReadCounts ==
    ASSUME UsageInv, NEW read \in reads, TranscriptRead(read) \/ TranscriptGivesUp(read)
    PROVE  UsageInv'
<1>0. UNCHANGED session /\ reads' = reads \ {read}
    BY DEF TranscriptRead, TranscriptGivesUp
<1>1. CASE UNCHANGED <<counted, usage>>
    <2>1. Uncounted' => Uncounted
        BY <1>0, <1>1 DEF Uncounted, MayCount
    <2>2. IsFiniteSet(counted'.names) /\ TwiceNamed' = TwiceNamed
        BY <1>1, TwiceSame
    <2> QED BY <1>0, <1>1, <2>1, <2>2 DEF UsageInv
<1>2. ASSUME NEW k \in NameKinds, ~Overtaken(read), Count(<<read.request, k>>, counted.sparse)
      PROVE  UsageInv'
    <2>1. MayCount(read) /\ read.request = counted.made
        BY <1>2 DEF Overtaken, MayCount, UsageInv
    <2>2. Count(<<counted.made, k>>, counted.sparse) /\ counted.sparse \in BOOLEAN
        BY <1>2, <2>1 DEF UsageInv, Counts
    <2>3. Uncounted \/ \E other \in NameKinds : <<counted.made, other>> \in counted.names
        BY <2>1 DEF Uncounted
    <2>4. /\ counted' \in Counts
          /\ counted'.made = counted.made /\ counted'.before = counted.before
          /\ counted'.corrected = counted.corrected
          /\ <<counted.made, k>> \in counted'.names /\ IsFiniteSet(counted'.names)
          /\ counted'.corrected + counted'.estimated <= counted.made + Cardinality(TwiceNamed')
        BY <2>2, <2>3, CountCounts
    <2>5. ~Uncounted'
        BY <2>4 DEF Uncounted
    <2> QED BY <1>0, <2>4, <2>5 DEF UsageInv
<1> QED BY <1>1, <1>2 DEF TranscriptRead, TranscriptGivesUp, NameKinds

LEMMA ResultCounts ==
    ASSUME UsageInv, NEW held \in BOOLEAN, ResultArrives(held) PROVE UsageInv'
<1>0. counted \in Counts /\ session \in Sessions
    BY DEF UsageInv
<1>1. PICK turn : turn = IF held THEN session.turn ELSE 0
    OBVIOUS
<1>2. /\ session' = [session EXCEPT !.turn = turn] /\ counted' = Settled(counted, Corrected)
      /\ reads' = BoundaryRaised
    BY <1>1 DEF ResultArrives, Settled
<1>3. Corrected \in Nat /\ Corrected <= counted.made
    BY <1>0 DEF UsageInv, Corrected, Counts
<1>4. turn \in Nat /\ turn <= session.turns
    BY <1>0, <1>1 DEF UsageInv, Sessions
<1>5. session' \in Sessions /\ session'.turn = turn /\ session'.turns = session.turns
    BY <1>0, <1>2, <1>4, HeldShape
<1>6. /\ counted' \in Counts /\ counted'.made = counted.made /\ counted'.before = counted.before
      /\ counted'.corrected = Corrected /\ counted'.estimated = 0 /\ ~counted'.sparse
      /\ counted'.names = counted.names
    BY <1>0, <1>2, <1>3, SettledShape
<1>7. ~Uncounted'
    BY <1>2, <1>6, BoundaryEnds DEF Uncounted, MayCount
<1>t. IsFiniteSet(counted'.names) /\ TwiceNamed' = TwiceNamed /\ Cardinality(TwiceNamed) \in Nat
    BY <1>6, TwiceSame
<1>8. counted'.corrected + counted'.estimated <= counted.made + Cardinality(TwiceNamed')
    <2>1. counted.made \in Nat
        BY <1>0 DEF Counts
    <2> QED BY <1>3, <1>6, <1>t, <2>1
<1> QED BY <1>2, <1>3, <1>4, <1>5, <1>6, <1>7, <1>t, <1>8, BoundaryEnds DEF UsageInv

\* Steps that count nothing
LEMMA NothingCounts ==
    ASSUME UsageInv, UNCHANGED counted,
           reads' = reads \/ reads' = BoundaryRaised,
           session' \in Sessions, session'.turns = session.turns,
           session'.turn = session.turn \/ (session'.turn = 0 /\ reads' = BoundaryRaised)
    PROVE  UsageInv'
<1>1. Uncounted' => Uncounted
    BY BoundaryEnds DEF Uncounted, MayCount
<1>2. session'.turn <= session'.turns
    BY DEF UsageInv, Sessions
<1>3. /\ reads' \subseteq TranscriptReads
      /\ \A read \in reads' : read.turn <= session'.turns /\ (read.latest => read.request = counted'.made)
    BY BoundaryEnds DEF UsageInv
<1>4. IsFiniteSet(counted'.names) /\ TwiceNamed' = TwiceNamed
    BY TwiceSame
<1> QED BY <1>1, <1>2, <1>3, <1>4 DEF UsageInv

LEMMA OthersCount ==
    ASSUME UsageInv,
           \/ Select \/ HardCancelled \/ RefreshUsage \/ SendContextRead \/ ContextAnswered
           \/ ContextFails \/ TimePasses \/ CloseSession \/ UNCHANGED usageVars
    PROVE  UsageInv'
<1>0. session \in Sessions /\ session.phase \in {"open", "closed"} /\ session.generation + 1 \in Nat
    BY DEF UsageInv, Sessions
<1>1. /\ UNCHANGED counted /\ (reads' = reads \/ reads' = BoundaryRaised)
      /\ \/ session' = session \/ session' = [session EXCEPT !.generation = session.generation + 1]
         \/ reads' = BoundaryRaised /\ session' = [session EXCEPT !.turn = 0, !.running = FALSE]
         \/ reads' = BoundaryRaised
            /\ session' = [session EXCEPT !.phase = "closed", !.turn = 0, !.running = FALSE]
    BY DEF Select, HardCancelled, RefreshUsage, SendContextRead, ContextAnswered, ContextFails,
           TimePasses, CloseSession, usageVars
<1>2. [session EXCEPT !.turn = 0, !.running = FALSE] = Ended(session, session.phase)
    BY <1>0 DEF Ended, Sessions
<1>3. \/ session' = session \/ session' = [session EXCEPT !.generation = session.generation + 1]
      \/ reads' = BoundaryRaised
         /\ \E phase \in {"open", "closed"} : session' = Ended(session, phase)
    BY <1>0, <1>1, <1>2 DEF Ended
<1>4. /\ session' \in Sessions /\ session'.turns = session.turns
      /\ session'.turn = session.turn \/ (session'.turn = 0 /\ reads' = BoundaryRaised)
    <2>1. CASE session' = session
        BY <1>0, <2>1
    <2>2. CASE session' = [session EXCEPT !.generation = session.generation + 1]
        BY <1>0, <2>2, HeldShape
    <2>3. ASSUME NEW phase \in {"open", "closed"}, session' = Ended(session, phase), reads' = BoundaryRaised
          PROVE  /\ session' \in Sessions /\ session'.turns = session.turns
                 /\ session'.turn = session.turn \/ (session'.turn = 0 /\ reads' = BoundaryRaised)
        BY <1>0, <2>3, EndedShape
    <2> QED BY <1>3, <2>1, <2>2, <2>3
<1> QED BY <1>1, <1>4, NothingCounts

LEMMA UsageStep ==
    ASSUME UsageInv, [NextUsage]_usageVars
    PROVE  UsageInv'
<1>1. CASE StartTurn \/ MessageCompleted \/ UsageRepeated
    BY <1>1, TurnCounts, MessageCounts, RepeatCounts
<1>2. ASSUME NEW read \in reads, TranscriptRead(read) \/ TranscriptGivesUp(read) PROVE UsageInv'
    BY <1>2, ReadCounts
<1>3. ASSUME NEW held \in BOOLEAN, ResultArrives(held) PROVE UsageInv'
    BY <1>3, ResultCounts
<1>4. CASE \/ Select \/ HardCancelled \/ RefreshUsage \/ SendContextRead \/ ContextAnswered
           \/ ContextFails \/ TimePasses \/ CloseSession \/ UNCHANGED usageVars
    BY <1>4, OthersCount
<1> QED BY <1>1, <1>2, <1>3, <1>4 DEF NextUsage

\* For any numbers of requests, Turns, selections and processes: a request is counted twice only
\* under two names, and nothing else makes the count exceed what was spent.
THEOREM SpendsAreNamed == UsageSpec => []OvercountsByNameOnly
<1>1. UsageInv => OvercountsByNameOnly
    BY DEF UsageInv, OvercountsByNameOnly
<1>2. UsageInv /\ [NextUsage]_usageVars => UsageInv'
    BY UsageStep
<1> QED BY UsageInit, <1>1, <1>2, PTL DEF UsageSpec

(***************************************************************************)
(* The parent is announced idle only over quiet children.  Two arguments    *)
(* meet.  The outputs come in order: a delegation, which alone can make a    *)
(* child active, is handled between the start and the completion of a Turn,  *)
(* when the parent is announced active.  And a child announced as active is  *)
(* in the register of running Subagents, or its end is being read, which no  *)
(* output outlives.                                                         *)
(***************************************************************************)

Kinds == {"turnStarted", "delegation", "turnCompleted", "settled", "transcript"}
Later == {"settled", "transcript"}
StatusMaps == UNION {[S -> {"active", "idle"}] : S \in SUBSET Subagents}
Outputs == {o \in [kind : Kinds, status : StatusMaps] :
              o.kind \in Later => \A s, r \in DOMAIN o.status : s = r}

\* The outputs q that wait behind one of this kind being handled: what may come before and after
\* the start and the completion of a Turn, and when the parent is announced active.
Ordered(q, hostTurn, agentTurn, kind, parent) ==
    /\ kind \in Kinds \cup {"none", "announce"}
    /\ ~hostTurn => /\ ~agentTurn /\ kind \in {"none", "announce"} \cup Later
                    /\ \A k \in 1..Len(q) : q[k].kind \in Later
    /\ agentTurn => kind # "turnCompleted" /\ \A k \in 1..Len(q) : q[k].kind # "turnCompleted"
    /\ kind = "turnCompleted" => \A k \in 1..Len(q) : q[k].kind \in Later
    /\ \A k \in 1..Len(q) : q[k].kind = "turnCompleted" =>
         \A j \in 1..Len(q) : j > k => q[j].kind \in Later
    /\ \A k \in 1..Len(q) : q[k].kind = "turnStarted" =>
         /\ kind \notin {"delegation", "turnCompleted", "turnStarted"}
         /\ \A j \in 1..Len(q) : j < k => q[j].kind \in Later
    /\ hostTurn /\ kind # "turnStarted" /\ (\A k \in 1..Len(q) : q[k].kind # "turnStarted") =>
         parent = "active" /\ kind # "announce"

\* A child announced as active is known to run, or its end is being read.
Reading(task, t) == \E s \in Subagents : task[s].step = "refresh" /\ task[s].thread = t
Shown(thread, status, running, task) ==
    \A t \in Threads : thread[t] = "active" =>
        status[t] = "active" /\ (t \in running \/ Reading(task, t))

\* The parts of the output being handled
Parts(task, kind) ==
    /\ DOMAIN task = Subagents
    /\ \A s \in Subagents :
         /\ "step" \in DOMAIN task[s]
         /\ task[s].step = "refresh" =>
              {"thread", "round"} \subseteq DOMAIN task[s] /\ kind \in {"delegation", "settled"}
    /\ kind \in Later => \A s, r \in Subagents : task[s].step # "rest" /\ task[r].step # "rest" => s = r

Fields ==
    /\ {"turn", "status", "outputs", "turns", "items"} \subseteq DOMAIN agents
    /\ {"turn", "status", "running", "record", "ready", "open", "end"} \subseteq DOMAIN hosted
    /\ {"output", "task"} \subseteq DOMAIN handling /\ {"kind", "status"} \subseteq DOMAIN handling.output
    /\ {"parent", "thread", "turns"} \subseteq DOMAIN announced
    /\ agents.turn \in BOOLEAN /\ hosted.turn \in BOOLEAN
    /\ agents.outputs \in Seq(Outputs)
    /\ DOMAIN hosted.status = Threads /\ DOMAIN announced.thread = Threads

OrderInv == Ordered(agents.outputs, hosted.turn, agents.turn, handling.output.kind, announced.parent)
PartsInv == Parts(handling.task, handling.output.kind)
ShownInv == Shown(announced.thread, hosted.status, hosted.running, handling.task)

QuietInv == Fields /\ OrderInv /\ PartsInv /\ ShownInv /\ ParentIdleIsQuiet

(***************************************************************************)
(* The outputs                                                              *)
(***************************************************************************)
LEMMA AppendOrdered ==
    ASSUME NEW q \in Seq(Outputs), NEW o \in Outputs, NEW h \in BOOLEAN, NEW a \in BOOLEAN, NEW kind, NEW parent,
           Ordered(q, h, a, kind, parent),
           NEW h2 \in BOOLEAN, NEW a2 \in BOOLEAN,
           \/ o.kind \in Later /\ h2 = h /\ a2 = a
           \/ o.kind = "delegation" /\ a /\ h2 = h /\ a2 = a
           \/ o.kind = "turnCompleted" /\ a /\ ~a2 /\ h2 = h
           \/ o.kind = "turnStarted" /\ ~h /\ h2 /\ a2
    PROVE  Append(q, o) \in Seq(Outputs) /\ Ordered(Append(q, o), h2, a2, kind, parent)
<1>1. /\ Append(q, o) \in Seq(Outputs) /\ Len(Append(q, o)) = Len(q) + 1 /\ Len(q) \in Nat
      /\ Append(q, o)[Len(q) + 1] = o
      /\ \A k \in 1..Len(q) : Append(q, o)[k] = q[k]
    OBVIOUS
<1> DEFINE p == Append(q, o)
           n == Len(q) + 1
<1>2. /\ p[n] = o /\ n \in 1..Len(p) /\ \A k \in 1..Len(q) : p[k] = q[k] /\ k < n /\ k \in 1..Len(p)
      /\ \A k \in 1..Len(p) : k \in 1..Len(q) \/ k = n
    BY <1>1
<1>3. p \in Seq(Outputs) /\ (a => h)
    BY <1>1 DEF Ordered
<1>4. 1..Len(q) \subseteq Nat /\ 1..Len(p) \subseteq Nat /\ n \in Nat
    BY <1>1
<1> HIDE DEF p, n
<1>5. CASE o.kind \in Later /\ h2 = h /\ a2 = a
    <2>1. \A k \in 1..Len(p) : p[k].kind \notin Later => k \in 1..Len(q) /\ p[k] = q[k]
        BY <1>2, <1>5
    <2>2. ~h => \A k \in 1..Len(p) : p[k].kind \in Later
        BY <2>1 DEF Ordered
    <2>3. a => \A k \in 1..Len(p) : p[k].kind # "turnCompleted"
        BY <2>1 DEF Ordered, Later
    <2>4. kind = "turnCompleted" => \A k \in 1..Len(p) : p[k].kind \in Later
        BY <2>1 DEF Ordered
    <2>5. \A k \in 1..Len(p) : p[k].kind = "turnCompleted" => \A j \in 1..Len(p) : j > k => p[j].kind \in Later
        BY <2>1 DEF Ordered, Later
    <2>6. \A k \in 1..Len(p) : p[k].kind = "turnStarted" =>
             /\ kind \notin {"delegation", "turnCompleted", "turnStarted"}
             /\ \A j \in 1..Len(p) : j < k => p[j].kind \in Later
        BY <2>1 DEF Ordered, Later
    <2>7. (\A k \in 1..Len(p) : p[k].kind # "turnStarted") => \A k \in 1..Len(q) : q[k].kind # "turnStarted"
        BY <1>2
    <2>8. /\ kind \in Kinds \cup {"none", "announce"} /\ (~h => ~a /\ kind \in {"none", "announce"} \cup Later)
          /\ (a => kind # "turnCompleted")
          /\ (h /\ kind # "turnStarted" /\ (\A k \in 1..Len(q) : q[k].kind # "turnStarted") =>
                parent = "active" /\ kind # "announce")
        BY DEF Ordered
    <2>9. Ordered(p, h, a, kind, parent)
        BY <2>2, <2>3, <2>4, <2>5, <2>6, <2>7, <2>8 DEF Ordered
    <2> QED BY <1>3, <1>5, <2>9 DEF p
<1>6. CASE o.kind = "delegation" /\ a /\ h2 = h /\ a2 = a
    BY <1>2, <1>3, <1>4, <1>6 DEF Ordered, Later
<1>7. CASE o.kind = "turnCompleted" /\ a /\ ~a2 /\ h2 = h
    BY <1>2, <1>3, <1>4, <1>7 DEF Ordered, Later
<1>8. CASE o.kind = "turnStarted" /\ ~h /\ h2 /\ a2
    BY <1>2, <1>3, <1>4, <1>8 DEF Ordered, Later
<1> QED BY <1>3, <1>5, <1>6, <1>7, <1>8 DEF p

LEMMA TailOrdered ==
    ASSUME NEW q \in Seq(Outputs), q # <<>>, NEW h \in BOOLEAN, NEW a \in BOOLEAN, NEW parent,
           Ordered(q, h, a, "none", parent)
    PROVE  /\ Tail(q) \in Seq(Outputs) /\ Head(q) \in Outputs
           /\ Ordered(Tail(q), h, a, Head(q).kind, parent)
<1>1. /\ Tail(q) \in Seq(Outputs) /\ Head(q) \in Outputs /\ Head(q) = q[1] /\ 1 \in 1..Len(q) /\ Len(q) \in Nat
      /\ Len(Tail(q)) = Len(q) - 1
      /\ \A k \in 1..Len(Tail(q)) : k + 1 \in 1..Len(q) /\ 1 < k + 1 /\ k \in Nat /\ Tail(q)[k] = q[k + 1]
      /\ \A k \in 1..Len(q) : k = 1 \/ (k - 1 \in 1..Len(Tail(q)) /\ Tail(q)[k - 1] = q[k])
    OBVIOUS
<1>2. Head(q).kind \in Kinds
    BY <1>1 DEF Outputs
<1> DEFINE p == Tail(q)
           e == Head(q).kind
<1>3. /\ e = q[1].kind /\ e \in Kinds /\ 1 \in 1..Len(q)
      /\ \A k \in 1..Len(p) : k + 1 \in 1..Len(q) /\ 1 < k + 1 /\ p[k] = q[k + 1]
      /\ \A k \in 1..Len(q) : k = 1 \/ (k - 1 \in 1..Len(p) /\ p[k - 1] = q[k])
      /\ \A j, k \in 1..Len(p) : (j > k => j + 1 > k + 1) /\ (j < k => j + 1 < k + 1)
    BY <1>1, <1>2
<1> HIDE DEF p, e
<1>4. ~h => ~a /\ e \in Later /\ \A k \in 1..Len(p) : p[k].kind \in Later
    BY <1>3 DEF Ordered
<1>5. a => e # "turnCompleted" /\ \A k \in 1..Len(p) : p[k].kind # "turnCompleted"
    BY <1>3 DEF Ordered
<1>6. e = "turnCompleted" => \A k \in 1..Len(p) : p[k].kind \in Later
    BY <1>3 DEF Ordered
<1>7. \A k \in 1..Len(p) : p[k].kind = "turnCompleted" => \A j \in 1..Len(p) : j > k => p[j].kind \in Later
    <2> SUFFICES ASSUME NEW k \in 1..Len(p), p[k].kind = "turnCompleted", NEW j \in 1..Len(p), j > k
                 PROVE  p[j].kind \in Later
        OBVIOUS
    <2>1. k + 1 \in 1..Len(q) /\ q[k + 1].kind = "turnCompleted" /\ j + 1 \in 1..Len(q) /\ j + 1 > k + 1
          /\ p[j] = q[j + 1]
        BY <1>3
    <2> QED BY <2>1 DEF Ordered
<1>8. \A k \in 1..Len(p) : p[k].kind = "turnStarted" =>
         /\ e \notin {"delegation", "turnCompleted", "turnStarted"}
         /\ \A j \in 1..Len(p) : j < k => p[j].kind \in Later
    <2> SUFFICES ASSUME NEW k \in 1..Len(p), p[k].kind = "turnStarted"
                 PROVE  /\ e \notin {"delegation", "turnCompleted", "turnStarted"}
                        /\ \A j \in 1..Len(p) : j < k => p[j].kind \in Later
        OBVIOUS
    <2>1. k + 1 \in 1..Len(q) /\ 1 < k + 1 /\ q[k + 1].kind = "turnStarted"
        BY <1>3
    <2>2. \A j \in 1..Len(q) : j < k + 1 => q[j].kind \in Later
        BY <2>1 DEF Ordered
    <2>3. e \in Later
        BY <1>3, <2>1, <2>2
    <2>4. \A j \in 1..Len(p) : j < k => p[j].kind \in Later
        BY <1>3, <2>2
    <2> QED BY <2>3, <2>4 DEF Later
<1>9. h /\ e # "turnStarted" /\ (\A k \in 1..Len(p) : p[k].kind # "turnStarted") =>
         parent = "active" /\ e # "announce"
    BY <1>3 DEF Ordered, Kinds
<1> QED BY <1>1, <1>3, <1>4, <1>5, <1>6, <1>7, <1>8, <1>9 DEF Ordered, p, e, Later

\* What is handled makes room for the next output, and may change what the parent is announced as.
LEMMA HandledOrdered ==
    ASSUME NEW q, NEW h, NEW a, NEW kind, NEW parent, NEW next, Ordered(q, h, a, kind, parent),
           \/ kind \in {"turnStarted"} /\ next = "active"
           \/ kind \in {"delegation", "settled", "transcript"} /\ next = parent
           \/ kind \in Later /\ ~h
           \/ kind = "announce"
    PROVE  Ordered(q, h, a, "none", next)
BY DEF Ordered, Later

LEMMA CompletedOrdered ==
    ASSUME NEW q, NEW h, NEW a, NEW parent, Ordered(q, h, a, "turnCompleted", parent)
    PROVE  Ordered(q, FALSE, a, "announce", parent)
BY DEF Ordered, Later

LEMMA StatusMapIs ==
    ASSUME NEW S \in SUBSET Subagents, NEW f \in [S -> {"active", "idle"}]
    PROVE  f \in StatusMaps
BY DEF StatusMaps

LEMMA EmptyMap == <<>> \in StatusMaps /\ DOMAIN <<>> = {}
<1>1. <<>> \in [{} -> {"active", "idle"}] /\ DOMAIN <<>> = {}
    OBVIOUS
<1> QED BY <1>1, StatusMapIs

LEMMA OutputIs ==
    /\ [kind |-> "turnStarted", status |-> <<>>] \in Outputs
    /\ [kind |-> "turnCompleted", status |-> <<>>] \in Outputs
    /\ \A m \in StatusMaps : [kind |-> "delegation", status |-> m] \in Outputs
    /\ \A s \in Subagents, st \in {"active", "idle"}, kind \in {"settled", "transcript", "delegation"} :
         [kind |-> kind, status |-> Only(s, st)] \in Outputs
<1>1. \A s \in Subagents, st \in {"active", "idle"} :
         Only(s, st) \in StatusMaps /\ DOMAIN Only(s, st) = {s}
    <2> SUFFICES ASSUME NEW s \in Subagents, NEW st \in {"active", "idle"}
                 PROVE  Only(s, st) \in StatusMaps /\ DOMAIN Only(s, st) = {s}
        OBVIOUS
    <2>1. Only(s, st) \in [{s} -> {"active", "idle"}] /\ DOMAIN Only(s, st) = {s} /\ {s} \in SUBSET Subagents
        BY DEF Only
    <2> QED BY <2>1, StatusMapIs
<1>2. \A s \in Subagents, st \in {"active", "idle"}, kind \in {"settled", "transcript", "delegation"} :
         [kind |-> kind, status |-> Only(s, st)] \in Outputs
    <2> SUFFICES ASSUME NEW s \in Subagents, NEW st \in {"active", "idle"},
                        NEW kind \in {"settled", "transcript", "delegation"}
                 PROVE  [kind |-> kind, status |-> Only(s, st)] \in Outputs
        OBVIOUS
    <2>1. PICK m \in StatusMaps : m = Only(s, st) /\ DOMAIN m = {s}
        BY <1>1
    <2>2. [kind |-> kind, status |-> m] \in [kind : Kinds, status : StatusMaps]
        BY DEF Kinds
    <2>3. \A a, b \in DOMAIN m : a = b
        BY <2>1
    <2>4. [kind |-> kind, status |-> m] \in Outputs
        BY <2>2, <2>3 DEF Outputs
    <2> QED BY <2>1, <2>4
<1>3. \A m \in StatusMaps : [kind |-> "delegation", status |-> m] \in Outputs
    BY DEF Outputs, Kinds, Later
<1>4. /\ [kind |-> "turnStarted", status |-> <<>>] \in Outputs
      /\ [kind |-> "turnCompleted", status |-> <<>>] \in Outputs
    BY EmptyMap DEF Outputs, Kinds, Later
<1> QED BY <1>2, <1>3, <1>4

(***************************************************************************)
(* The steps of the Session                                                 *)
(***************************************************************************)
LEMMA PutsEffect ==
    ASSUME NEW x, {"turn", "status", "outputs", "turns", "items"} \subseteq DOMAIN x, NEW kind, NEW status
    PROVE  /\ {"turn", "status", "outputs", "turns", "items"} \subseteq DOMAIN Puts(x, kind, status)
           /\ Puts(x, kind, status).outputs = Append(x.outputs, [kind |-> kind, status |-> status])
           /\ Puts(x, kind, status).turn = x.turn
BY DEF Puts

\* One output more
LEMMA SessionPuts ==
    ASSUME QuietInv, NEW o \in Outputs, agents'.outputs = Append(agents.outputs, o),
           {"turn", "status", "outputs", "turns", "items"} \subseteq DOMAIN agents', agents'.turn \in BOOLEAN,
           UNCHANGED <<handling, announced>>,
           hosted' = hosted \/ hosted' = [hosted EXCEPT !.turn = TRUE],
           \/ o.kind \in Later /\ hosted' = hosted /\ agents'.turn = agents.turn
           \/ o.kind = "delegation" /\ agents.turn /\ hosted' = hosted /\ agents'.turn = agents.turn
           \/ o.kind = "turnCompleted" /\ agents.turn /\ ~agents'.turn /\ hosted' = hosted
           \/ o.kind = "turnStarted" /\ ~hosted.turn /\ hosted'.turn /\ agents'.turn
    PROVE  QuietInv'
<1>1. /\ hosted'.turn \in BOOLEAN /\ hosted'.status = hosted.status /\ hosted'.running = hosted.running
      /\ {"turn", "status", "running", "record", "ready", "open", "end"} \subseteq DOMAIN hosted'
      /\ hosted' = hosted => hosted'.turn = hosted.turn
    BY DEF QuietInv, Fields
<1>2. /\ agents'.outputs \in Seq(Outputs)
      /\ Ordered(agents'.outputs, hosted'.turn, agents'.turn, handling.output.kind, announced.parent)
    BY <1>1, AppendOrdered DEF QuietInv, Fields, OrderInv
<1>3. Fields'
    BY <1>1, <1>2 DEF QuietInv, Fields
<1> QED BY <1>1, <1>2, <1>3 DEF QuietInv, OrderInv, PartsInv, ShownInv, ParentIdleIsQuiet

LEMMA StartParentTurnStep == ASSUME QuietInv, StartParentTurn PROVE QuietInv'
<1> DEFINE x == [agents EXCEPT !.turn = TRUE, !.turns = @ + 1]
<1>1. /\ {"turn", "status", "outputs", "turns", "items"} \subseteq DOMAIN x /\ x.turn = TRUE
      /\ x.outputs = agents.outputs
    BY DEF QuietInv, Fields
<1>2. /\ agents' = Puts(x, "turnStarted", <<>>) /\ hosted' = [hosted EXCEPT !.turn = TRUE] /\ ~hosted.turn
      /\ UNCHANGED <<handling, announced>>
    BY DEF StartParentTurn
<1>3. hosted'.turn
    BY <1>2 DEF QuietInv, Fields
<1> HIDE DEF x
<1>4. /\ {"turn", "status", "outputs", "turns", "items"} \subseteq DOMAIN agents' /\ agents'.turn = TRUE
      /\ agents'.outputs = Append(agents.outputs, [kind |-> "turnStarted", status |-> <<>>])
    BY <1>1, <1>2, PutsEffect
<1>5. PICK o \in Outputs : o = [kind |-> "turnStarted", status |-> <<>>] /\ o.kind = "turnStarted"
    BY OutputIs
<1>6. agents'.outputs = Append(agents.outputs, o)
    BY <1>4, <1>5
<1> QED BY <1>2, <1>3, <1>4, <1>5, <1>6, SessionPuts

LEMMA ListsStep ==
    ASSUME QuietInv, NEW x, NEW m \in StatusMaps, agents.turn,
           {"turn", "status", "outputs", "turns", "items"} \subseteq DOMAIN x,
           x.outputs = agents.outputs, x.turn = agents.turn,
           agents' = Puts(x, "delegation", m), UNCHANGED <<hosted, handling, announced>>
    PROVE  QuietInv'
<1>e. agents' = Puts(x, "delegation", m)
    OBVIOUS
<1>f. /\ {"turn", "status", "outputs", "turns", "items"} \subseteq DOMAIN Puts(x, "delegation", m)
      /\ Puts(x, "delegation", m).outputs = Append(x.outputs, [kind |-> "delegation", status |-> m])
      /\ Puts(x, "delegation", m).turn = x.turn
    BY PutsEffect
<1>1. /\ {"turn", "status", "outputs", "turns", "items"} \subseteq DOMAIN agents' /\ agents'.turn = agents.turn
      /\ agents'.outputs = Append(agents.outputs, [kind |-> "delegation", status |-> m])
    BY <1>e, <1>f
<1>2. PICK o \in Outputs : o = [kind |-> "delegation", status |-> m] /\ o.kind = "delegation"
    BY OutputIs
<1>3. agents'.outputs = Append(agents.outputs, o)
    BY <1>1, <1>2
<1>4. agents'.turn \in BOOLEAN
    BY <1>1 DEF QuietInv, Fields
<1> QED BY <1>1, <1>2, <1>3, <1>4, SessionPuts

LEMMA DelegateStep == ASSUME QuietInv, NEW S \in SUBSET Subagents, DelegateTo(S) PROVE QuietInv'
<1> DEFINE y == [agents EXCEPT !.status = [s \in Subagents |-> IF s \in S THEN "running" ELSE agents.status[s]]]
           x == [y EXCEPT !.items = y.items + 1]
           st == [s \in S |-> "active"]
           m == [s \in S |-> st[s]]
<1>1. /\ {"turn", "status", "outputs", "turns", "items"} \subseteq DOMAIN x /\ x.turn = agents.turn
      /\ x.outputs = agents.outputs
    BY DEF QuietInv, Fields
<1>2. m \in [S -> {"active", "idle"}]
    OBVIOUS
<1>3. agents' = Puts(x, "delegation", m) /\ UNCHANGED <<hosted, handling, announced>> /\ agents.turn
    BY DEF DelegateTo, Lists
<1> HIDE DEF x, m
<1>4. m \in StatusMaps
    BY <1>2, StatusMapIs
<1> QED BY <1>1, <1>3, <1>4, ListsStep

LEMMA UpdateStep == ASSUME QuietInv, NEW S \in SUBSET Subagents, UpdateDelegation(S) PROVE QuietInv'
<1> DEFINE x == [agents EXCEPT !.items = agents.items + 1]
           st == [s \in S |-> IF s \in Running THEN "active" ELSE "idle"]
           m == [s \in S |-> st[s]]
<1>1. /\ {"turn", "status", "outputs", "turns", "items"} \subseteq DOMAIN x /\ x.turn = agents.turn
      /\ x.outputs = agents.outputs
    BY DEF QuietInv, Fields
<1>2. m \in [S -> {"active", "idle"}]
    OBVIOUS
<1>3. agents' = Puts(x, "delegation", m) /\ UNCHANGED <<hosted, handling, announced>> /\ agents.turn
    BY DEF UpdateDelegation, Lists
<1> HIDE DEF x, m
<1>4. m \in StatusMaps
    BY <1>2, StatusMapIs
<1> QED BY <1>1, <1>3, <1>4, ListsStep

\* An output that any time may bring
LEMMA LaterStep ==
    ASSUME QuietInv, NEW x, NEW s \in Subagents, NEW st \in {"active", "idle"}, NEW kind \in Later,
           {"turn", "status", "outputs", "turns", "items"} \subseteq DOMAIN x,
           x.outputs = agents.outputs, x.turn = agents.turn,
           agents' = Puts(x, kind, Only(s, st)), UNCHANGED <<hosted, handling, announced>>
    PROVE  QuietInv'
<1>1. /\ {"turn", "status", "outputs", "turns", "items"} \subseteq DOMAIN agents' /\ agents'.turn = agents.turn
      /\ agents'.outputs = Append(agents.outputs, [kind |-> kind, status |-> Only(s, st)])
    BY PutsEffect
<1>2. PICK o \in Outputs : o = [kind |-> kind, status |-> Only(s, st)] /\ o.kind = kind
    BY OutputIs DEF Later
<1>3. agents'.outputs = Append(agents.outputs, o)
    BY <1>1, <1>2
<1>4. agents'.turn \in BOOLEAN
    BY <1>1 DEF QuietInv, Fields
<1> QED BY <1>1, <1>2, <1>3, <1>4, SessionPuts

LEMMA GrowStep == ASSUME QuietInv, NEW s \in Subagents, GrowTranscript(s) PROVE QuietInv'
<1> DEFINE x == [agents EXCEPT !.items = agents.items + 1]
<1>1. /\ {"turn", "status", "outputs", "turns", "items"} \subseteq DOMAIN x /\ x.turn = agents.turn
      /\ x.outputs = agents.outputs
    BY DEF QuietInv, Fields
<1>2. agents' = Puts(x, "transcript", Only(s, "active")) /\ UNCHANGED <<hosted, handling, announced>>
    BY DEF GrowTranscript
<1>3. "transcript" \in Later /\ "active" \in {"active", "idle"}
    BY DEF Later
<1> HIDE DEF x
<1> QED BY <1>1, <1>2, <1>3, LaterStep

LEMMA SettleStep == ASSUME QuietInv, NEW s \in Subagents, SettleSubagent(s) PROVE QuietInv'
<1> DEFINE x == [agents EXCEPT !.status[s] = "ended"]
           y == Puts(x, "delegation", Only(s, "idle"))
<1>1. /\ {"turn", "status", "outputs", "turns", "items"} \subseteq DOMAIN x /\ x.turn = agents.turn
      /\ x.outputs = agents.outputs
    BY DEF QuietInv, Fields
<1>2. /\ \/ agents' = Puts(x, "settled", Only(s, "idle"))
         \/ agents.turn /\ agents' = y
         \/ agents.turn /\ agents' = Puts(y, "settled", Only(s, "idle"))
      /\ UNCHANGED <<hosted, handling, announced>>
    BY DEF SettleSubagent
<1>3. /\ "settled" \in Later /\ "idle" \in {"active", "idle"} 
      /\ Only(s, "idle") \in [{s} -> {"active", "idle"}] /\ {s} \in SUBSET Subagents
    BY DEF Later, Only
<1>4. Only(s, "idle") \in StatusMaps
    BY <1>3, StatusMapIs
<1> HIDE DEF x
<1>5. /\ {"turn", "status", "outputs", "turns", "items"} \subseteq DOMAIN y /\ y.turn = agents.turn
      /\ y.outputs = Append(agents.outputs, [kind |-> "delegation", status |-> Only(s, "idle")])
    BY <1>1, PutsEffect
<1> HIDE DEF y
<1>6. CASE agents' = Puts(x, "settled", Only(s, "idle"))
    BY <1>1, <1>2, <1>3, <1>6, LaterStep
<1>7. CASE agents.turn /\ agents' = y
    BY <1>1, <1>2, <1>4, <1>7, ListsStep DEF y
<1>8. CASE agents.turn /\ agents' = Puts(y, "settled", Only(s, "idle"))
    <2>1. PICK o \in Outputs : o = [kind |-> "delegation", status |-> Only(s, "idle")] /\ o.kind = "delegation"
        BY OutputIs
    <2>2. PICK p \in Outputs : p = [kind |-> "settled", status |-> Only(s, "idle")] /\ p.kind = "settled"
        BY OutputIs
    <2>3. /\ {"turn", "status", "outputs", "turns", "items"} \subseteq DOMAIN agents' /\ agents'.turn = agents.turn
          /\ agents'.outputs = Append(y.outputs, p)
        <3>1. PICK v : v = y
            OBVIOUS
        <3>2. {"turn", "status", "outputs", "turns", "items"} \subseteq DOMAIN v
            BY <1>5, <3>1
        <3>3. /\ {"turn", "status", "outputs", "turns", "items"} \subseteq DOMAIN Puts(v, "settled", Only(s, "idle"))
              /\ Puts(v, "settled", Only(s, "idle")).outputs
                   = Append(v.outputs, [kind |-> "settled", status |-> Only(s, "idle")])
              /\ Puts(v, "settled", Only(s, "idle")).turn = v.turn
            BY <3>2, PutsEffect
        <3>4. agents' = Puts(v, "settled", Only(s, "idle"))
            BY <1>8, <3>1
        <3> QED BY <1>5, <2>2, <3>1, <3>3, <3>4
    <2>4. /\ y.outputs = Append(agents.outputs, o) /\ agents.turn \in BOOLEAN /\ hosted.turn \in BOOLEAN
          /\ agents.outputs \in Seq(Outputs)
        BY <1>5, <2>1 DEF QuietInv, Fields
    <2>5. /\ y.outputs \in Seq(Outputs)
          /\ Ordered(y.outputs, hosted.turn, agents.turn, handling.output.kind, announced.parent)
        <3>1. Ordered(agents.outputs, hosted.turn, agents.turn, handling.output.kind, announced.parent)
            BY DEF QuietInv, OrderInv
        <3>2. PICK q \in Seq(Outputs), h \in BOOLEAN, a \in BOOLEAN : q = agents.outputs /\ h = hosted.turn /\ a = agents.turn
            BY <2>4
        <3>3. Ordered(q, h, a, handling.output.kind, announced.parent) /\ o.kind = "delegation" /\ a
            BY <1>8, <2>1, <3>1, <3>2
        <3>4. Append(q, o) \in Seq(Outputs) /\ Ordered(Append(q, o), h, a, handling.output.kind, announced.parent)
            BY <3>3, AppendOrdered
        <3> QED BY <2>4, <3>2, <3>4
    <2>6. /\ agents'.outputs \in Seq(Outputs)
          /\ Ordered(agents'.outputs, hosted.turn, agents.turn, handling.output.kind, announced.parent)
        <3>1. PICK q \in Seq(Outputs), h \in BOOLEAN, a \in BOOLEAN : q = y.outputs /\ h = hosted.turn /\ a = agents.turn
            BY <2>4, <2>5
        <3>2. Ordered(q, h, a, handling.output.kind, announced.parent) /\ p.kind \in Later
            BY <1>3, <2>2, <2>5, <3>1
        <3>3. Append(q, p) \in Seq(Outputs) /\ Ordered(Append(q, p), h, a, handling.output.kind, announced.parent)
            BY <3>2, AppendOrdered
        <3> QED BY <2>3, <3>1, <3>3
    <2> QED BY <1>2, <2>3, <2>6 DEF QuietInv, Fields, OrderInv, PartsInv, ShownInv, ParentIdleIsQuiet
<1> QED BY <1>2, <1>6, <1>7, <1>8

LEMMA EndTurnStep == ASSUME QuietInv, EndParentTurn PROVE QuietInv'
<1> DEFINE x == [agents EXCEPT !.turn = FALSE]
<1>1. /\ {"turn", "status", "outputs", "turns", "items"} \subseteq DOMAIN x /\ x.turn = FALSE
      /\ x.outputs = agents.outputs
    BY DEF QuietInv, Fields
<1>2. /\ agents' = Puts(x, "turnCompleted", <<>>) /\ agents.turn
      /\ UNCHANGED <<hosted, handling, announced>>
    BY DEF EndParentTurn
<1> HIDE DEF x
<1>3. /\ {"turn", "status", "outputs", "turns", "items"} \subseteq DOMAIN agents' /\ agents'.turn = FALSE
      /\ agents'.outputs = Append(agents.outputs, [kind |-> "turnCompleted", status |-> <<>>])
    BY <1>1, <1>2, PutsEffect
<1>4. PICK o \in Outputs : o = [kind |-> "turnCompleted", status |-> <<>>] /\ o.kind = "turnCompleted"
    BY OutputIs
<1>5. agents'.outputs = Append(agents.outputs, o)
    BY <1>3, <1>4
<1> QED BY <1>2, <1>3, <1>4, <1>5, SessionPuts

(***************************************************************************)
(* The outputs that are handled                                             *)
(***************************************************************************)
LEMMA TakeStep == ASSUME QuietInv, TakeOutput PROVE QuietInv'
<1> DEFINE q == agents.outputs
           o == Head(agents.outputs)
           task == [s \in Subagents |-> IF s \in DOMAIN o.status THEN [step |-> "find"] ELSE Rest]
<1>1. /\ q \in Seq(Outputs) /\ q # <<>> /\ agents' = [agents EXCEPT !.outputs = Tail(q)]
      /\ handling' = [output |-> o, task |-> task] /\ UNCHANGED <<hosted, announced>>
      /\ handling.output.kind = "none"
    BY DEF TakeOutput, QuietInv, Fields, NoOutput
<1>2. agents'.outputs = Tail(q) /\ agents'.turn = agents.turn /\ DOMAIN agents' = DOMAIN agents
    BY <1>1 DEF QuietInv, Fields
<1>3. /\ Tail(q) \in Seq(Outputs) /\ o \in Outputs
      /\ Ordered(Tail(q), hosted.turn, agents.turn, o.kind, announced.parent)
    BY <1>1, TailOrdered DEF QuietInv, Fields, OrderInv
<1> HIDE DEF q, o
<1>4. handling'.output = o /\ handling'.task = task /\ {"output", "task"} \subseteq DOMAIN handling'
    BY <1>1
<1>5. /\ DOMAIN task = Subagents
      /\ \A s \in Subagents : /\ task[s].step # "refresh" /\ "step" \in DOMAIN task[s]
                              /\ task[s].step # "rest" => s \in DOMAIN o.status
    BY DEF Rest
<1>6. {"kind", "status"} \subseteq DOMAIN o /\ (o.kind \in Later => \A s, r \in DOMAIN o.status : s = r)
    BY <1>3 DEF Outputs
<1> HIDE DEF task
<1>7. Parts(task, o.kind)
    BY <1>5, <1>6 DEF Parts
<1>8. Fields'
    BY <1>1, <1>2, <1>3, <1>4, <1>6 DEF QuietInv, Fields
<1>9. \A t \in Threads : ~Reading(handling.task, t)
    BY <1>1 DEF QuietInv, PartsInv, Parts, Reading
<1>10. ShownInv'
    BY <1>1, <1>9 DEF QuietInv, ShownInv, Shown
<1> QED BY <1>1, <1>2, <1>3, <1>4, <1>7, <1>8, <1>10 DEF QuietInv, OrderInv, PartsInv, ParentIdleIsQuiet

\* An output is handled, and no end is being read.
LEMMA HandledStep ==
    ASSUME QuietInv, NEW task, Handled(task), NEW next, DOMAIN task = Subagents,
           \A s \in Subagents : "step" \in DOMAIN task[s] /\ task[s].step # "refresh",
           \A t \in Threads : ~Reading(handling.task, t),
           UNCHANGED <<agents, hosted>>,
           {"parent", "thread", "turns"} \subseteq DOMAIN announced',
           announced'.thread = announced.thread, announced'.parent = next,
           LET kind == handling.output.kind IN
           \/ kind \in {"turnStarted"} /\ next = "active"
           \/ kind \in {"delegation", "settled", "transcript"} /\ next = announced.parent
           \/ kind \in Later /\ ~hosted.turn /\ hosted.running = {}
           \/ kind = "announce" /\ (next = "active" \/ hosted.running = {})
    PROVE  QuietInv'
<1>1. handling'.output.kind = "none" /\ handling'.task = task
      /\ {"output", "task"} \subseteq DOMAIN handling' /\ {"kind", "status"} \subseteq DOMAIN handling'.output
    BY DEF Handled, NoOutput
<1>2. Ordered(agents.outputs, hosted.turn, agents.turn, "none", next)
    BY HandledOrdered DEF QuietInv, OrderInv
<1>3. Parts(task, "none")
    BY DEF Parts, Later
<1>4. Fields'
    BY <1>1 DEF QuietInv, Fields
<1>5. ShownInv'
    BY DEF QuietInv, ShownInv, Shown
<1>6. ParentIdleIsQuiet'
    <2>1. CASE hosted.running = {}
        BY <2>1 DEF QuietInv, ShownInv, Shown, ParentIdleIsQuiet
    <2>2. CASE next = announced.parent \/ next = "active"
        BY <2>2 DEF QuietInv, ParentIdleIsQuiet
    <2> QED BY <2>1, <2>2
<1> QED BY <1>1, <1>2, <1>3, <1>4, <1>5, <1>6 DEF QuietInv, OrderInv, PartsInv

LEMMA NoneRead ==
    ASSUME QuietInv, \/ handling.output.kind \notin {"delegation", "settled"}
                     \/ Resting
                     \/ \E s \in Subagents : /\ handling.task[s] = [step |-> "find"]
                                             /\ handling.output.kind \in Later
    PROVE  /\ \A t \in Threads : ~Reading(handling.task, t)
           /\ DOMAIN handling.task = Subagents
           /\ \A s \in Subagents : "step" \in DOMAIN handling.task[s] /\ handling.task[s].step # "refresh"
BY DEF QuietInv, PartsInv, Parts, Reading, Resting, Rest

LEMMA TurnStartedStep == ASSUME QuietInv, TurnStarted PROVE QuietInv'
<1>1. /\ handling.output.kind = "turnStarted" /\ Handled(handling.task) /\ UNCHANGED <<agents, hosted>>
      /\ announced' = [announced EXCEPT !.parent = "active"]
    BY DEF TurnStarted, HandlesOutput
<1>2. /\ {"parent", "thread", "turns"} \subseteq DOMAIN announced' /\ announced'.thread = announced.thread
      /\ announced'.parent = "active"
    BY <1>1 DEF QuietInv, Fields
<1> QED BY <1>1, <1>2, NoneRead, HandledStep

LEMMA TurnCompletedStep == ASSUME QuietInv, TurnCompleted PROVE QuietInv'
<1> DEFINE h == [hosted EXCEPT !.turn = FALSE]
<1>1. /\ handling.output.kind = "turnCompleted" /\ UNCHANGED <<agents, announced>>
      /\ handling' = [handling EXCEPT !.output.kind = "announce"]
      /\ hosted' = h \/ hosted' = [h EXCEPT !.end = "over"]
    BY DEF TurnCompleted, HandlesOutput, SignalActiveWork
<1>2. /\ hosted'.turn = FALSE /\ hosted'.status = hosted.status /\ hosted'.running = hosted.running
      /\ DOMAIN hosted' = DOMAIN hosted
    BY <1>1 DEF QuietInv, Fields
<1>3. /\ handling'.output.kind = "announce" /\ handling'.task = handling.task
      /\ DOMAIN handling' = DOMAIN handling /\ DOMAIN handling'.output = DOMAIN handling.output
    BY <1>1 DEF QuietInv, Fields
<1>4. Ordered(agents.outputs, FALSE, agents.turn, "announce", announced.parent)
    BY <1>1, CompletedOrdered DEF QuietInv, OrderInv
<1>5. Parts(handling.task, "announce")
    BY <1>1 DEF QuietInv, PartsInv, Parts, Later
<1>6. Fields'
    BY <1>1, <1>2, <1>3 DEF QuietInv, Fields
<1> QED BY <1>1, <1>2, <1>3, <1>4, <1>5, <1>6 DEF QuietInv, OrderInv, PartsInv, ShownInv, ParentIdleIsQuiet

LEMMA AnnounceStep == ASSUME QuietInv, AnnounceTurnEnd PROVE QuietInv'
<1>1. PICK next : next = IF hosted.running # {} THEN "active" ELSE "idle"
    OBVIOUS
<1>2. /\ handling.output.kind = "announce" /\ Handled(handling.task) /\ UNCHANGED <<agents, hosted>>
      /\ announced' = [announced EXCEPT !.parent = next]
    BY <1>1 DEF AnnounceTurnEnd, HandlesOutput
<1>3. /\ {"parent", "thread", "turns"} \subseteq DOMAIN announced' /\ announced'.thread = announced.thread
      /\ announced'.parent = next
    BY <1>2 DEF QuietInv, Fields
<1> QED BY <1>1, <1>2, <1>3, NoneRead, HandledStep

LEMMA ShownStep == ASSUME QuietInv, DelegationShown \/ SettlementShown PROVE QuietInv'
<1>1. /\ Resting /\ Handled(handling.task) /\ UNCHANGED <<agents, hosted>>
      /\ handling.output.kind \in {"delegation", "settled"}
      /\ \/ announced' = announced
         \/ /\ handling.output.kind = "settled" /\ ~hosted.turn /\ hosted.running = {}
            /\ announced' = [announced EXCEPT !.parent = "idle"]
    BY DEF DelegationShown, SettlementShown, HandlesOutput
<1>2. /\ {"parent", "thread", "turns"} \subseteq DOMAIN announced' /\ announced'.thread = announced.thread
    BY <1>1 DEF QuietInv, Fields
<1> QED BY <1>1, <1>2, NoneRead, HandledStep DEF Later

LEMMA RestFor ==
    ASSUME QuietInv, NEW s \in Subagents,
           \A r \in Subagents : "step" \in DOMAIN handling.task[r] /\ handling.task[r].step # "refresh"
    PROVE  LET task == [handling.task EXCEPT ![s] = Rest] IN
           /\ DOMAIN task = Subagents
           /\ \A r \in Subagents : "step" \in DOMAIN task[r] /\ task[r].step # "refresh"
BY DEF QuietInv, PartsInv, Parts, Rest

LEMMA NoChildStep ==
    ASSUME QuietInv, NEW s \in Subagents, NoSuchChild(s) \/ TranscriptChanged(s) PROVE QuietInv'
<1>1. /\ handling.task[s] = [step |-> "find"] /\ handling.output.kind \in {"settled", "transcript"}
      /\ Handled([handling.task EXCEPT ![s] = Rest]) /\ UNCHANGED <<agents, hosted>>
      /\ \/ announced' = announced
         \/ \E t, turns : announced' = [announced EXCEPT !.turns[t] = turns]
    BY DEF NoSuchChild, TranscriptChanged, HandlesOutput
<1>2. /\ {"parent", "thread", "turns"} \subseteq DOMAIN announced' /\ announced'.thread = announced.thread
      /\ announced'.parent = announced.parent
    BY <1>1 DEF QuietInv, Fields
<1>3. /\ \A t \in Threads : ~Reading(handling.task, t)
      /\ \A r \in Subagents : "step" \in DOMAIN handling.task[r] /\ handling.task[r].step # "refresh"
    BY <1>1, NoneRead DEF Later
<1> DEFINE task == [handling.task EXCEPT ![s] = Rest]
<1>4. /\ DOMAIN task = Subagents
      /\ \A r \in Subagents : "step" \in DOMAIN task[r] /\ task[r].step # "refresh"
    BY <1>3, RestFor
<1>5. Handled(task)
    BY <1>1
<1> HIDE DEF task
<1> QED BY <1>1, <1>2, <1>3, <1>4, <1>5, HandledStep

(***************************************************************************)
(* The children                                                             *)
(***************************************************************************)

\* A part of an output is handled that is about the child Thread t.
LEMMA ChildStep ==
    ASSUME QuietInv, NEW s \in Subagents, NEW t, UNCHANGED agents,
           handling.output.kind \in {"delegation", "settled"}, handling.task[s].step # "rest",
           handling.task[s].step = "refresh" => handling.task[s].thread = t,
           {"turn", "status", "running", "record", "ready", "open", "end"} \subseteq DOMAIN hosted',
           hosted'.turn = hosted.turn, DOMAIN hosted'.status = Threads,
           \A u \in Threads \ {t} : /\ hosted'.status[u] = hosted.status[u]
                                    /\ u \in hosted.running => u \in hosted'.running,
           {"parent", "thread", "turns"} \subseteq DOMAIN announced', announced'.parent = announced.parent,
           DOMAIN announced'.thread = Threads,
           \A u \in Threads \ {t} : announced'.thread[u] = announced.thread[u],
           {"output", "task"} \subseteq DOMAIN handling', handling'.output = handling.output,
           DOMAIN handling'.task = Subagents,
           \A r \in Subagents \ {s} : handling'.task[r] = handling.task[r],
           "step" \in DOMAIN handling'.task[s],
           handling'.task[s].step = "refresh" => {"thread", "round"} \subseteq DOMAIN handling'.task[s],
           t \in Threads /\ announced'.thread[t] = "active" =>
             /\ hosted'.status[t] = "active" /\ (t \in hosted'.running \/ Reading(handling'.task, t))
             /\ handling.output.kind = "settled" => announced.thread[t] = "active"
    PROVE  QuietInv'
<1>1. Fields'
    BY DEF QuietInv, Fields
<1>2. Parts(handling'.task, handling.output.kind)
    BY DEF QuietInv, PartsInv, Parts, Later
<1>3. \A u \in Threads : u # t /\ Reading(handling.task, u) => Reading(handling'.task, u)
    BY DEF Reading
<1>4. ShownInv'
    BY <1>3 DEF QuietInv, ShownInv, Shown
<1>5. handling.output.kind = "delegation" => announced.parent # "idle"
    BY DEF QuietInv, Fields, OrderInv, Ordered, Later
<1>6. ParentIdleIsQuiet'
    <2>1. CASE handling.output.kind = "delegation"
        BY <1>5, <2>1 DEF ParentIdleIsQuiet
    <2>2. CASE handling.output.kind = "settled"
        BY <2>2 DEF QuietInv, ParentIdleIsQuiet
    <2> QED BY <2>1, <2>2
<1>7. OrderInv'
    BY DEF QuietInv, OrderInv
<1> QED BY <1>1, <1>2, <1>4, <1>6, <1>7 DEF QuietInv, PartsInv

LEMMA SignalEffect ==
    ASSUME NEW h, {"turn", "status", "running", "record", "ready", "open", "end"} \subseteq DOMAIN h
    PROVE  /\ {"turn", "status", "running", "record", "ready", "open", "end"} \subseteq DOMAIN SignalActiveWork(h)
           /\ SignalActiveWork(h).turn = h.turn /\ SignalActiveWork(h).status = h.status
           /\ SignalActiveWork(h).running = h.running
BY DEF SignalActiveWork

LEMMA TrackEffect ==
    ASSUME NEW h, {"turn", "status", "running", "record", "ready", "open", "end"} \subseteq DOMAIN h, NEW t, NEW status
    PROVE  /\ {"turn", "status", "running", "record", "ready", "open", "end"} \subseteq DOMAIN TrackRunning(h, t, status)
           /\ TrackRunning(h, t, status).turn = h.turn /\ TrackRunning(h, t, status).status = h.status
           /\ h.running \ {t} \subseteq TrackRunning(h, t, status).running
           /\ status = "active" => t \in TrackRunning(h, t, status).running
<1>1. CASE status = "active"
    BY <1>1 DEF TrackRunning
<1>2. CASE status # "active" /\ h.running = {}
    BY <1>2 DEF TrackRunning
<1>3. CASE status # "active" /\ h.running # {}
    <2>1. PICK g : g = [h EXCEPT !.running = h.running \ {t}]
        OBVIOUS
    <2>2. /\ {"turn", "status", "running", "record", "ready", "open", "end"} \subseteq DOMAIN g
          /\ g.turn = h.turn /\ g.status = h.status /\ g.running = h.running \ {t}
        BY <2>1
    <2>3. TrackRunning(h, t, status) = SignalActiveWork(g)
        BY <1>3, <2>1 DEF TrackRunning
    <2> QED BY <1>3, <2>2, <2>3, SignalEffect
<1> QED BY <1>1, <1>2, <1>3

\* The part of s becomes one of this kind.
LEMMA TaskEffect ==
    ASSUME QuietInv, NEW s \in Subagents, NEW task, handling' = [handling EXCEPT !.task[s] = task]
    PROVE  /\ {"output", "task"} \subseteq DOMAIN handling' /\ handling'.output = handling.output
           /\ DOMAIN handling'.task = Subagents /\ handling'.task[s] = task
           /\ \A r \in Subagents \ {s} : handling'.task[r] = handling.task[r]
BY DEF QuietInv, Fields, PartsInv, Parts

LEMMA ThreadEffect ==
    ASSUME QuietInv, NEW t, NEW status,
           announced' = announced \/ announced' = [announced EXCEPT !.thread[t] = status]
    PROVE  /\ {"parent", "thread", "turns"} \subseteq DOMAIN announced' /\ announced'.parent = announced.parent
           /\ DOMAIN announced'.thread = Threads
           /\ \A u \in Threads \ {t} : announced'.thread[u] = announced.thread[u]
           /\ t \in Threads /\ announced' # announced => announced'.thread[t] = status
BY DEF QuietInv, Fields

\* The status of a child Thread is set once the register of running ones has been.
LEMMA SetStatusStep ==
    ASSUME QuietInv, NEW s \in Subagents, NEW t \in Threads, NEW h, NEW status, UNCHANGED agents,
           handling.task[s] = [step |-> "find"], handling.output.kind \in {"delegation", "settled"},
           handling.output.kind = "settled" => status = "idle",
           {"turn", "status", "running", "record", "ready", "open", "end"} \subseteq DOMAIN h,
           h.turn = hosted.turn, h.status = hosted.status, hosted.running \ {t} \subseteq h.running,
           status = "active" => t \in h.running,
           SetStatus(s, h, t, status)
    PROVE  QuietInv'
<1>1. PICK seen : seen = [h EXCEPT !.open[t] = IF h.open[t] \in Status THEN status ELSE h.open[t]]
    OBVIOUS
<1>2. /\ {"turn", "status", "running", "record", "ready", "open", "end"} \subseteq DOMAIN seen
      /\ seen.turn = hosted.turn /\ seen.status = hosted.status /\ seen.running = h.running
    BY <1>1
<1>3. handling.task[s].step # "rest" /\ handling.task[s].step # "refresh" /\ DOMAIN hosted.status = Threads
    BY DEF QuietInv, Fields
<1>4. CASE status = "idle" /\ h.status[t] = "active"
    <2>1. /\ hosted' = seen /\ announced' = announced
          /\ handling' = [handling EXCEPT !.task[s] = [step |-> "refresh", thread |-> t, round |-> 1]]
        BY <1>1, <1>4, Zenon DEF SetStatus
    <2>2. PICK task : task = [step |-> "refresh", thread |-> t, round |-> 1]
        OBVIOUS
    <2>3. task.step = "refresh" /\ task.thread = t /\ {"step", "thread", "round"} \subseteq DOMAIN task
        BY <2>2
    <2>4. /\ {"output", "task"} \subseteq DOMAIN handling' /\ handling'.output = handling.output
          /\ DOMAIN handling'.task = Subagents /\ handling'.task[s] = task
          /\ \A r \in Subagents \ {s} : handling'.task[r] = handling.task[r]
        BY <2>1, <2>2, TaskEffect
    <2>5. Reading(handling'.task, t)
        BY <2>3, <2>4 DEF Reading
    <2>6. /\ {"parent", "thread", "turns"} \subseteq DOMAIN announced' /\ DOMAIN announced'.thread = Threads
        BY <2>1 DEF QuietInv, Fields
    <2>7. announced'.thread[t] = "active" => hosted'.status[t] = "active" /\ announced.thread[t] = "active"
        BY <1>2, <2>1 DEF QuietInv, ShownInv, Shown
    <2> QED BY <1>2, <1>3, <2>1, <2>3, <2>4, <2>5, <2>6, <2>7, ChildStep
<1>5. CASE ~(status = "idle" /\ h.status[t] = "active")
    <2>1. /\ hosted' = [seen EXCEPT !.status[t] = status]
          /\ announced' = IF h.status[t] = status THEN announced
                       ELSE [announced EXCEPT !.thread[t] = status]
          /\ handling' = [handling EXCEPT !.task[s] = Rest]
        BY <1>1, <1>5, Zenon DEF SetStatus
    <2>2. PICK task : task = Rest
        OBVIOUS
    <2>3. task.step = "rest" /\ "step" \in DOMAIN task
        BY <2>2 DEF Rest
    <2>4. /\ {"output", "task"} \subseteq DOMAIN handling' /\ handling'.output = handling.output
          /\ DOMAIN handling'.task = Subagents /\ handling'.task[s] = task
          /\ \A r \in Subagents \ {s} : handling'.task[r] = handling.task[r]
        BY <2>1, <2>2, TaskEffect
    <2>5. /\ {"turn", "status", "running", "record", "ready", "open", "end"} \subseteq DOMAIN hosted'
          /\ hosted'.turn = hosted.turn /\ DOMAIN hosted'.status = Threads /\ hosted'.running = h.running
          /\ hosted'.status[t] = status
          /\ \A u \in Threads \ {t} : hosted'.status[u] = hosted.status[u]
        BY <1>2, <1>3, <2>1
    <2>6. /\ {"parent", "thread", "turns"} \subseteq DOMAIN announced' /\ announced'.parent = announced.parent
          /\ DOMAIN announced'.thread = Threads
          /\ \A u \in Threads \ {t} : announced'.thread[u] = announced.thread[u]
          /\ announced' # announced => announced'.thread[t] = status
        BY <2>1, ThreadEffect
    <2>7. announced'.thread[t] = "active" =>
             status = "active" /\ handling.output.kind = "delegation"
        BY <1>5, <2>1, <2>6 DEF QuietInv, ShownInv, Shown
    <2> QED BY <1>3, <2>3, <2>4, <2>5, <2>6, <2>7, ChildStep
<1> QED BY <1>4, <1>5

LEMMA SettledStep == ASSUME QuietInv, NEW s \in Subagents, SubagentSettled(s) PROVE QuietInv'
<1>1. PICK t \in Threads : SetStatus(s, TrackRunning(hosted, t, "idle"), t, "idle")
    BY DEF SubagentSettled, ThreadsOf
<1>2. PICK h : h = TrackRunning(hosted, t, "idle")
    OBVIOUS
<1>3. /\ {"turn", "status", "running", "record", "ready", "open", "end"} \subseteq DOMAIN h
      /\ h.turn = hosted.turn /\ h.status = hosted.status /\ hosted.running \ {t} \subseteq h.running
    BY <1>2, TrackEffect DEF QuietInv, Fields
<1>4. /\ UNCHANGED agents /\ handling.task[s] = [step |-> "find"] /\ handling.output.kind = "settled"
      /\ SetStatus(s, h, t, "idle")
    BY <1>1, <1>2 DEF SubagentSettled, HandlesOutput
<1>5. PICK status : status = "idle"
    OBVIOUS
<1>6. SetStatus(s, h, t, status)
    BY <1>4, <1>5
<1> QED BY <1>3, <1>4, <1>5, <1>6, SetStatusStep

LEMMA MaterializeStep == ASSUME QuietInv, NEW s \in Subagents, Materialize(s) PROVE QuietInv'
<1>1. PICK status : status = handling.output.status[s]
    OBVIOUS
<1>2. PICK t \in Threads :
        LET h == [hosted EXCEPT !.record[t] = s, !.ready = @ \cup {t}]
        IN IF hosted.status[t] # Absent
           THEN SetStatus(s, TrackRunning(h, t, status), t, status)
           ELSE /\ hosted' = TrackRunning([h EXCEPT !.status[t] = status], t, status)
                /\ announced' = [announced EXCEPT !.thread[t] = status]
                /\ handling' = [handling EXCEPT !.task[s] = Rest]
    BY <1>1 DEF Materialize
<1>3. PICK h : h = [hosted EXCEPT !.record[t] = s, !.ready = hosted.ready \cup {t}]
    OBVIOUS
<1>4. /\ {"turn", "status", "running", "record", "ready", "open", "end"} \subseteq DOMAIN h
      /\ h.turn = hosted.turn /\ h.status = hosted.status /\ h.running = hosted.running
      /\ DOMAIN hosted.status = Threads
    BY <1>3 DEF QuietInv, Fields
<1>5. /\ UNCHANGED agents /\ handling.task[s] = [step |-> "find"] /\ handling.output.kind = "delegation"
      /\ handling.task[s].step # "rest" /\ handling.task[s].step # "refresh"
    BY DEF Materialize, HandlesOutput
<1>6. CASE hosted.status[t] # Absent
    <2>1. SetStatus(s, TrackRunning(h, t, status), t, status)
        BY <1>2, <1>3, <1>6
    <2>2. PICK g : g = TrackRunning(h, t, status)
        OBVIOUS
    <2>3. /\ {"turn", "status", "running", "record", "ready", "open", "end"} \subseteq DOMAIN g
          /\ g.turn = hosted.turn /\ g.status = hosted.status /\ hosted.running \ {t} \subseteq g.running
          /\ status = "active" => t \in g.running
        BY <1>4, <2>2, TrackEffect
    <2>4. SetStatus(s, g, t, status)
        BY <2>1, <2>2
    <2> QED BY <1>5, <2>3, <2>4, SetStatusStep
<1>7. CASE hosted.status[t] = Absent
    <2>1. PICK k : k = [h EXCEPT !.status[t] = status]
        OBVIOUS
    <2>2. /\ {"turn", "status", "running", "record", "ready", "open", "end"} \subseteq DOMAIN k
          /\ k.turn = hosted.turn /\ DOMAIN k.status = Threads /\ k.running = hosted.running
          /\ k.status[t] = status /\ \A u \in Threads \ {t} : k.status[u] = hosted.status[u]
        BY <1>4, <2>1
    <2>3. /\ hosted' = TrackRunning(k, t, status)
          /\ announced' = [announced EXCEPT !.thread[t] = status]
          /\ handling' = [handling EXCEPT !.task[s] = Rest]
        BY <1>2, <1>3, <1>7, <2>1
    <2>4. /\ {"turn", "status", "running", "record", "ready", "open", "end"} \subseteq DOMAIN hosted'
          /\ hosted'.turn = k.turn /\ hosted'.status = k.status /\ k.running \ {t} \subseteq hosted'.running
          /\ status = "active" => t \in hosted'.running
        BY <2>2, <2>3, TrackEffect
    <2>5. PICK task : task = Rest
        OBVIOUS
    <2>6. task.step = "rest" /\ "step" \in DOMAIN task
        BY <2>5 DEF Rest
    <2>7. /\ {"output", "task"} \subseteq DOMAIN handling' /\ handling'.output = handling.output
          /\ DOMAIN handling'.task = Subagents /\ handling'.task[s] = task
          /\ \A r \in Subagents \ {s} : handling'.task[r] = handling.task[r]
        BY <2>3, <2>5, TaskEffect
    <2>8. /\ {"parent", "thread", "turns"} \subseteq DOMAIN announced' /\ announced'.parent = announced.parent
          /\ DOMAIN announced'.thread = Threads /\ announced'.thread[t] = status
          /\ \A u \in Threads \ {t} : announced'.thread[u] = announced.thread[u]
        BY <2>3 DEF QuietInv, Fields
    <2> QED BY <1>5, <2>2, <2>4, <2>6, <2>7, <2>8, ChildStep
<1> QED BY <1>6, <1>7

LEMMA FailsStep == ASSUME QuietInv, NEW s \in Subagents, MaterializeFails(s) PROVE QuietInv'
<1>1. /\ handling.task[s] = [step |-> "find"] /\ handling.output.kind = "delegation"
      /\ handling' = [handling EXCEPT !.task[s] = Rest] /\ UNCHANGED <<agents, announced>>
      /\ hosted' = hosted \/ \E t : hosted' = [hosted EXCEPT !.record[t] = s]
    BY DEF MaterializeFails, HandlesOutput
<1>2. /\ {"turn", "status", "running", "record", "ready", "open", "end"} \subseteq DOMAIN hosted'
      /\ hosted'.turn = hosted.turn /\ hosted'.status = hosted.status /\ hosted'.running = hosted.running
      /\ DOMAIN hosted.status = Threads
      /\ {"parent", "thread", "turns"} \subseteq DOMAIN announced /\ DOMAIN announced.thread = Threads
    BY <1>1 DEF QuietInv, Fields
<1>3. PICK task : task = Rest
    OBVIOUS
<1>4. task.step = "rest" /\ "step" \in DOMAIN task
    BY <1>3 DEF Rest
<1>5. /\ {"output", "task"} \subseteq DOMAIN handling' /\ handling'.output = handling.output
      /\ DOMAIN handling'.task = Subagents /\ handling'.task[s] = task
      /\ \A r \in Subagents \ {s} : handling'.task[r] = handling.task[r]
    BY <1>1, <1>3, TaskEffect
<1>6. handling.task[s].step # "rest" /\ handling.task[s].step # "refresh"
    BY <1>1
<1>7. \A t : Reading(handling.task, t) => Reading(handling'.task, t)
    BY <1>5, <1>6 DEF Reading
<1>8. PICK t : t = s
    OBVIOUS
<1>9. t \in Threads /\ announced'.thread[t] = "active" =>
        hosted'.status[t] = "active" /\ (t \in hosted'.running \/ Reading(handling'.task, t))
    BY <1>1, <1>2, <1>7 DEF QuietInv, ShownInv, Shown
<1> QED BY <1>1, <1>2, <1>4, <1>5, <1>6, <1>9, ChildStep

LEMMA AgainStep == ASSUME QuietInv, NEW s \in Subagents, RefreshAgain(s) PROVE QuietInv'
<1>1. PICK t : t = handling.task[s].thread
    OBVIOUS
<1>2. /\ handling.task[s].step = "refresh" /\ UNCHANGED <<agents, hosted>>
      /\ \E turns : announced' = [announced EXCEPT !.turns[t] = turns]
      /\ handling' = [handling EXCEPT !.task[s].round = handling.task[s].round + 1]
    BY <1>1 DEF RefreshAgain, Refreshes
<1>3. /\ {"parent", "thread", "turns"} \subseteq DOMAIN announced' /\ announced'.parent = announced.parent
      /\ announced'.thread = announced.thread /\ DOMAIN announced.thread = Threads
      /\ DOMAIN hosted.status = Threads
      /\ {"turn", "status", "running", "record", "ready", "open", "end"} \subseteq DOMAIN hosted
    BY <1>2 DEF QuietInv, Fields
<1>4. {"step", "thread", "round"} \subseteq DOMAIN handling.task[s] /\ handling.output.kind \in {"delegation", "settled"}
    BY <1>2 DEF QuietInv, PartsInv, Parts
<1>5. PICK task : task = [handling.task[s] EXCEPT !.round = handling.task[s].round + 1]
    OBVIOUS
<1>6. task.step = "refresh" /\ task.thread = t /\ {"step", "thread", "round"} \subseteq DOMAIN task
    BY <1>1, <1>2, <1>4, <1>5
<1>7. handling' = [handling EXCEPT !.task[s] = task]
    BY <1>2, <1>5
<1>8. /\ {"output", "task"} \subseteq DOMAIN handling' /\ handling'.output = handling.output
      /\ DOMAIN handling'.task = Subagents /\ handling'.task[s] = task
      /\ \A r \in Subagents \ {s} : handling'.task[r] = handling.task[r]
    BY <1>7, TaskEffect
<1>9. Reading(handling'.task, t)
    BY <1>6, <1>8 DEF Reading
<1>10. t \in Threads /\ announced'.thread[t] = "active" =>
         hosted'.status[t] = "active" /\ announced.thread[t] = "active"
    BY <1>2, <1>3 DEF QuietInv, ShownInv, Shown
<1> QED BY <1>1, <1>2, <1>3, <1>4, <1>6, <1>8, <1>9, <1>10, ChildStep

LEMMA LastStep == ASSUME QuietInv, NEW s \in Subagents, RefreshLast(s) PROVE QuietInv'
<1>1. PICK t : t = handling.task[s].thread
    OBVIOUS
<1>2. /\ handling.task[s].step = "refresh" /\ UNCHANGED agents
      /\ \E turns : announced' = [announced EXCEPT !.turns[t] = turns, !.thread[t] = "idle"]
      /\ handling' = [handling EXCEPT !.task[s] = Rest] /\ hosted' = [hosted EXCEPT !.status[t] = "idle"]
    BY <1>1 DEF RefreshLast, Refreshes
<1>3. /\ {"parent", "thread", "turns"} \subseteq DOMAIN announced' /\ announced'.parent = announced.parent
      /\ DOMAIN announced'.thread = Threads
      /\ \A u \in Threads \ {t} : announced'.thread[u] = announced.thread[u]
      /\ t \in Threads => announced'.thread[t] = "idle"
    BY <1>2 DEF QuietInv, Fields
<1>4. /\ {"turn", "status", "running", "record", "ready", "open", "end"} \subseteq DOMAIN hosted'
      /\ hosted'.turn = hosted.turn /\ hosted'.running = hosted.running /\ DOMAIN hosted'.status = Threads
      /\ \A u \in Threads \ {t} : hosted'.status[u] = hosted.status[u]
    BY <1>2 DEF QuietInv, Fields
<1>5. handling.output.kind \in {"delegation", "settled"}
    BY <1>2 DEF QuietInv, PartsInv, Parts
<1>6. PICK task : task = Rest
    OBVIOUS
<1>7. task.step = "rest" /\ "step" \in DOMAIN task
    BY <1>6 DEF Rest
<1>8. /\ {"output", "task"} \subseteq DOMAIN handling' /\ handling'.output = handling.output
      /\ DOMAIN handling'.task = Subagents /\ handling'.task[s] = task
      /\ \A r \in Subagents \ {s} : handling'.task[r] = handling.task[r]
    BY <1>2, <1>6, TaskEffect
<1> QED BY <1>1, <1>2, <1>3, <1>4, <1>5, <1>7, <1>8, ChildStep

(***************************************************************************)
(* The requests                                                             *)
(***************************************************************************)
LEMMA RequestPreserves ==
    ASSUME QuietInv, UNCHANGED <<agents, handling>>,
           {"turn", "status", "running", "record", "ready", "open", "end"} \subseteq DOMAIN hosted',
           hosted'.turn = hosted.turn, hosted'.status = hosted.status, hosted'.running = hosted.running,
           {"parent", "thread", "turns"} \subseteq DOMAIN announced', announced'.parent = announced.parent,
           DOMAIN announced'.thread = Threads,
           \A u \in Threads : announced'.thread[u] = "active" => announced.thread[u] = "active"
    PROVE  QuietInv'
<1>1. Fields'
    BY DEF QuietInv, Fields
<1>2. ShownInv' /\ ParentIdleIsQuiet'
    BY DEF QuietInv, ShownInv, Shown, ParentIdleIsQuiet
<1> QED BY <1>1, <1>2 DEF QuietInv, OrderInv, PartsInv

LEMMA RequestsStep ==
    ASSUME QuietInv,
           \/ Disconnect \/ AwaitWork
           \/ \E t \in Threads : \/ OpenChild(t) \/ ChildOpened(t) \/ ChildUnreadable(t)
                                 \/ ListTurns(t) \/ DeleteThread(t)
    PROVE  QuietInv'
<1>1. UNCHANGED <<agents, handling>>
    BY DEF Disconnect, AwaitWork, OpenChild, ChildOpened, ChildUnreadable, ListTurns, DeleteThread
<1>2. DOMAIN announced.thread = Threads /\ {"parent", "thread", "turns"} \subseteq DOMAIN announced
    BY DEF QuietInv, Fields
<1>3. CASE Disconnect \/ AwaitWork
    <2>1. PICK v : hosted' = [hosted EXCEPT !.end = v] /\ announced' = announced
        BY <1>3 DEF Disconnect, AwaitWork
    <2>2. /\ {"turn", "status", "running", "record", "ready", "open", "end"} \subseteq DOMAIN hosted'
          /\ hosted'.turn = hosted.turn /\ hosted'.status = hosted.status /\ hosted'.running = hosted.running
        BY <2>1 DEF QuietInv, Fields
    <2> QED BY <1>1, <1>2, <2>1, <2>2, RequestPreserves
<1>4. ASSUME NEW t \in Threads, OpenChild(t) \/ ChildUnreadable(t) PROVE QuietInv'
    <2>1. PICK v : hosted' = [hosted EXCEPT !.open[t] = v] /\ announced' = announced
        BY <1>4 DEF OpenChild, ChildUnreadable
    <2>2. /\ {"turn", "status", "running", "record", "ready", "open", "end"} \subseteq DOMAIN hosted'
          /\ hosted'.turn = hosted.turn /\ hosted'.status = hosted.status /\ hosted'.running = hosted.running
        BY <2>1 DEF QuietInv, Fields
    <2> QED BY <1>1, <1>2, <2>1, <2>2, RequestPreserves
<1>5. ASSUME NEW t \in Threads, ChildOpened(t) \/ ListTurns(t) PROVE QuietInv'
    <2>1. /\ hosted' = hosted \/ \E v : hosted' = [hosted EXCEPT !.open[t] = v]
          /\ \E v : announced' = [announced EXCEPT !.turns[t] = v]
        BY <1>5 DEF ChildOpened, ListTurns
    <2>2. /\ {"turn", "status", "running", "record", "ready", "open", "end"} \subseteq DOMAIN hosted'
          /\ hosted'.turn = hosted.turn /\ hosted'.status = hosted.status /\ hosted'.running = hosted.running
        BY <2>1 DEF QuietInv, Fields
    <2>3. /\ {"parent", "thread", "turns"} \subseteq DOMAIN announced' /\ announced'.parent = announced.parent
          /\ announced'.thread = announced.thread
        BY <1>2, <2>1
    <2> QED BY <1>1, <1>2, <2>2, <2>3, RequestPreserves
<1>6. ASSUME NEW t \in Threads, DeleteThread(t) PROVE QuietInv'
    <2>1. /\ hosted' = [hosted EXCEPT !.record[t] = Absent, !.ready = @ \ {t}, !.open[t] = Absent]
          /\ announced' = [announced EXCEPT !.thread[t] = Absent, !.turns[t] = Absent]
        BY <1>6 DEF DeleteThread
    <2>2. /\ {"turn", "status", "running", "record", "ready", "open", "end"} \subseteq DOMAIN hosted'
          /\ hosted'.turn = hosted.turn /\ hosted'.status = hosted.status /\ hosted'.running = hosted.running
        BY <2>1 DEF QuietInv, Fields
    <2>3. /\ {"parent", "thread", "turns"} \subseteq DOMAIN announced' /\ announced'.parent = announced.parent
          /\ DOMAIN announced'.thread = Threads
          /\ \A u \in Threads : announced'.thread[u] = "active" => announced.thread[u] = "active"
        BY <1>2, <2>1 DEF Absent
    <2> QED BY <1>1, <2>2, <2>3, RequestPreserves
<1> QED BY <1>3, <1>4, <1>5, <1>6

LEMMA QuietInit == ASSUME InitSubagents PROVE QuietInv
<1>1. /\ agents.turn = FALSE /\ agents.outputs = <<>> /\ hosted.turn = FALSE
      /\ handling.output = NoOutput /\ handling.task = [s \in Subagents |-> Rest]
      /\ announced.thread = [t \in Threads |-> Absent]
      /\ {"turn", "status", "outputs", "turns", "items"} \subseteq DOMAIN agents
      /\ {"turn", "status", "running", "record", "ready", "open", "end"} \subseteq DOMAIN hosted
      /\ {"output", "task"} \subseteq DOMAIN handling /\ {"parent", "thread", "turns"} \subseteq DOMAIN announced
      /\ DOMAIN hosted.status = Threads /\ DOMAIN announced.thread = Threads
    BY DEF InitSubagents
<1>2. /\ handling.output.kind = "none" /\ {"kind", "status"} \subseteq DOMAIN handling.output
    BY <1>1 DEF NoOutput
<1>3. agents.outputs \in Seq(Outputs) /\ Len(agents.outputs) = 0 /\ 1..Len(agents.outputs) = {}
    BY <1>1
<1>4. Fields
    BY <1>1, <1>2, <1>3 DEF Fields
<1>5. OrderInv
    BY <1>1, <1>2, <1>3 DEF OrderInv, Ordered
<1>6. PartsInv
    BY <1>1, <1>2 DEF PartsInv, Parts, Rest, Later
<1>7. ShownInv /\ ParentIdleIsQuiet
    BY <1>1 DEF ShownInv, Shown, ParentIdleIsQuiet, Absent
<1> QED BY <1>4, <1>5, <1>6, <1>7 DEF QuietInv

LEMMA QuietStep == ASSUME QuietInv, [NextSubagents]_subagentVars PROVE QuietInv'
<1>1. CASE SessionStep
    BY <1>1, EndTurnStep, SettleStep DEF SessionStep
<1>2. CASE OutputStep
    BY <1>2, TakeStep, TurnStartedStep, TurnCompletedStep, AnnounceStep, ShownStep, MaterializeStep,
       FailsStep, NoChildStep, SettledStep, AgainStep, LastStep DEF OutputStep
<1>3. CASE RequestStep
    BY <1>3, StartParentTurnStep, RequestsStep DEF RequestStep
<1>4. CASE \E S \in SUBSET Subagents : DelegateTo(S) \/ UpdateDelegation(S)
    BY <1>4, DelegateStep, UpdateStep
<1>5. CASE \E s \in Subagents : GrowTranscript(s)
    BY <1>5, GrowStep
<1>6. CASE UNCHANGED subagentVars
    BY <1>6 DEF subagentVars, QuietInv, Fields, OrderInv, PartsInv, ShownInv, ParentIdleIsQuiet
<1> QED BY <1>1, <1>2, <1>3, <1>4, <1>5, <1>6 DEF NextSubagents

\* However the outputs of the parent's Session, the readings of its children's histories and the
\* Desktop's requests come between each other, and whichever readings or writes fail: the Desktop
\* is told that the parent is idle only while no child Thread it knows of is shown as active.
THEOREM IdleParentIsQuiet == SubagentSpec => []ParentIdleIsQuiet
<1>1. InitSubagents => QuietInv
    BY QuietInit
<1>2. QuietInv /\ [NextSubagents]_subagentVars => QuietInv'
    BY QuietStep
<1>3. QuietInv => ParentIdleIsQuiet
    BY DEF QuietInv
<1> QED BY <1>1, <1>2, <1>3, PTL DEF SubagentSpec

(***************************************************************************)
(* The process tree (ProcessTree)                                            *)
(***************************************************************************)

(* What the machine looks like: start times are the names of the processes, and a process the
   Shim's program forked has a living parent of that program that is older, or none. *)
TableShape ==
    /\ \A p \in Existing : table[p].start <= starts
    /\ \A p, q \in Existing : table[p].start = table[q].start => p = q
    /\ \A p \in Existing : table[p].parent # 0 =>
          /\ table[p].parent \in Existing /\ table[table[p].parent].start < table[p].start
          /\ table[p].ours /\ table[table[p].parent].ours

(* The ledger, the targets and the hits are of processes that have been; the root is in the ledger,
   and no other holder of its number. *)
LedgerShape ==
    /\ \A s \in known : s.start <= starts
    /\ \A s \in targets : s.start <= starts
    /\ hit \subseteq 1 .. starts
    /\ [pid |-> Root, start |-> 1] \in known
    /\ \A s \in known : s.pid = Root => s.start = 1

(* On Linux what the Shim knows of, means to signal or has signalled is its own program's. *)
OursOnly == world.linux =>
    /\ \A s \in known : SameInstance(s) => table[s.pid].ours
    /\ \A s \in targets : SameInstance(s) => table[s.pid].ours
    /\ \A p \in Existing : table[p].start \in hit => table[p].ours

(* When no process ends before its children are observed, each is in the ledger or has a parent to
   be found by, and all are in the ledger while they are signalled. *)
EachObserved == (~world.hides /\ shim.at # "failed") =>
    /\ shim.guard
    /\ \A p \in Existing : table[p].ours => Snapshot(p) \in known \/ table[p].parent # 0
    /\ shim.at = "signalling" => \A p \in Existing : table[p].ours => Snapshot(p) \in known
    /\ shim.at = "done" => \A p \in Existing : ~table[p].ours

TreeInv == TreeTypeOK /\ TableShape /\ LedgerShape /\ OursOnly /\ EachObserved

(* Of some subsets of a finite set one contains no other: the induction over finite sets, without an
   operator to instantiate. *)
LEMMA MinimalSubset ==
    ASSUME NEW S, IsFiniteSet(S), NEW T \in SUBSET SUBSET S, T # {}
    PROVE  \E x \in T : \A y \in T : y \subseteq x => y = x
<1>1. IsWellFoundedOn(StrictSubsetOrdering(S), SUBSET S)
    BY FS_StrictSubsetOrderingWellFounded, FS_FiniteSubsetsOfFinite
<1>2. PICK x \in T : \A y \in T : ~ (<<y, x>> \in StrictSubsetOrdering(S))
    BY <1>1, WFMin
<1>3. ASSUME NEW y \in T, y \subseteq x PROVE y = x
    <2>1. <<y, x>> \in (SUBSET S) \X (SUBSET S) OBVIOUS
    <2> QED BY <1>2, <1>3, <2>1 DEF StrictSubsetOrdering
<1> QED BY <1>3

(* Every set of numbers has a least one. *)
LEMMA LeastStart ==
    ASSUME NEW T \in SUBSET Nat, T # {}
    PROVE  \E n \in T : \A m \in T : n <= m
<1>1. PICK b \in T : TRUE
    OBVIOUS
<1> DEFINE Below == {0 .. n : n \in {m \in T : m <= b}}
<1>2. IsFiniteSet(0 .. b)
    BY FS_Interval
<1>3. Below \in SUBSET SUBSET (0 .. b) /\ Below # {}
    OBVIOUS
<1>4. PICK x \in Below : \A y \in Below : y \subseteq x => y = x
    <2> DEFINE I == 0 .. b
    <2>1. IsFiniteSet(I) /\ Below \in SUBSET SUBSET I /\ Below # {}
        BY <1>2, <1>3
    <2> HIDE DEF Below, I
    <2> QED BY <2>1, MinimalSubset
<1>5. PICK n \in T : n <= b /\ x = 0 .. n
    BY <1>4
<1>6. ASSUME NEW m \in T, ~ (n <= m) PROVE FALSE
    <2>1. 0 .. m \in Below /\ 0 .. m \subseteq 0 .. n
        BY <1>5, <1>6
    <2>2. 0 .. m = 0 .. n
        BY <1>4, <1>5, <2>1
    <2>3. n \in 0 .. n /\ n \notin 0 .. m
        BY <1>5, <1>6
    <2> QED BY <2>2, <2>3
<1> QED BY <1>6

(* Descendants has the numbers and their children, and nothing else. *)
LEMMA DescendantsClosed ==
    ASSUME NEW pids \in SUBSET Pids, NEW among \in SUBSET Pids
    PROVE  /\ pids \subseteq Descendants(pids, among)
           /\ Descendants(pids, among) \subseteq Pids
           /\ \A q \in among : table[q].parent \in Descendants(pids, among)
                                  => q \in Descendants(pids, among)
BY DEF Descendants

LEMMA DescendantsLeast ==
    ASSUME NEW pids \in SUBSET Pids, NEW among \in SUBSET Pids, NEW set \in SUBSET Pids,
           pids \subseteq set, \A q \in among : table[q].parent \in set => q \in set
    PROVE  Descendants(pids, among) \subseteq set
BY DEF Descendants

(* A process of the program that is one of the numbers, or has a parent, is reached. *)
LEMMA OursAreReached ==
    ASSUME TreeTypeOK, TableShape, NEW pids \in SUBSET Pids, NEW among \in SUBSET Existing,
           \A p \in Existing : table[p].ours =>
               p \in pids \/ (p \in among /\ table[p].parent # 0)
    PROVE  \A p \in Existing : table[p].ours => p \in Descendants(pids, among)
<1> DEFINE D == Descendants(pids, among)
<1> DEFINE T == {p \in Existing : table[p].ours /\ p \notin D}
<1>1. pids \subseteq D /\ \A q \in among : table[q].parent \in D => q \in D
    BY DescendantsClosed DEF Existing
<1>2. SUFFICES ASSUME T # {} PROVE FALSE
    OBVIOUS
<1> DEFINE B == {table[p].start : p \in T}
<1>3. B \in SUBSET Nat /\ B # {}
    BY <1>2 DEF TreeTypeOK, Existing
<1>4. PICK n \in B : \A m \in B : n <= m
    <2> HIDE DEF B
    <2> QED BY <1>3, LeastStart
<1>5. PICK p \in T : table[p].start = n
    BY <1>4
<1>6. p \in among /\ table[p].parent # 0
    BY <1>1, <1>5
<1>7. /\ table[p].parent \in Existing /\ table[table[p].parent].start < table[p].start
      /\ table[table[p].parent].ours
    BY <1>5, <1>6 DEF TableShape
<1>8. table[p].parent \in T
    BY <1>1, <1>5, <1>6, <1>7
<1>9. table[p].start <= table[table[p].parent].start
    BY <1>4, <1>5, <1>8
<1> QED BY <1>3, <1>4, <1>5, <1>7, <1>8, <1>9 DEF TreeTypeOK, Existing

LEMMA RootStart ==
    ASSUME LedgerShape PROVE StartOf(Root) = 1
BY DEF LedgerShape, StartOf

LEMMA SeenExist ==
    ASSUME TreeTypeOK
    PROVE  Seen \subseteq Existing /\ InGroup \subseteq Existing /\ Existing \subseteq Pids
BY DEF Seen, InGroup, Existing

LEMMA LedgerTyped ==
    ASSUME TreeTypeOK
    PROVE  Ledger \subseteq [pid : Pids, start : 1 .. MaxStarts]
<1>1. Refreshed \subseteq known
    BY DEF Refreshed
<1>2. \A p \in Existing : Snapshot(p) \in [pid : Pids, start : 1 .. MaxStarts]
    BY TreeBoundsAssumption DEF Existing, Snapshot, TreeTypeOK
<1> QED BY <1>1, <1>2, SeenExist DEF Ledger, TreeTypeOK

LEMMA RefreshedNumbers ==
    ASSUME TreeTypeOK
    PROVE  NumbersOf(Refreshed) \in SUBSET Pids
BY DEF NumbersOf, Refreshed, TreeTypeOK

(* The root keeps its place in the ledger. *)
LEMMA RootKept ==
    ASSUME TreeTypeOK, TableShape, LedgerShape
    PROVE  /\ [pid |-> Root, start |-> 1] \in Ledger
           /\ \A s \in Ledger : s.pid = Root => s.start = 1
           /\ \A s \in Ledger : s.start <= starts
<1>1. [pid |-> Root, start |-> 1] \in Refreshed /\ Refreshed \subseteq known
    BY DEF LedgerShape, Refreshed
<1>2. Root \in NumbersOf(Refreshed)
    <2>1. [pid |-> Root, start |-> 1].pid = Root OBVIOUS
    <2> QED BY <1>1, <2>1 DEF NumbersOf
<1>3. \A s \in Ledger : s \in known \/ \E p \in Existing : p # Root /\ s = Snapshot(p)
    BY <1>1, <1>2, SeenExist DEF Ledger
<1>4. ASSUME NEW s \in Ledger
      PROVE  (s.pid = Root => s.start = 1) /\ s.start <= starts
    <2>1. CASE s \in known BY <2>1 DEF LedgerShape
    <2>2. CASE \E p \in Existing : p # Root /\ s = Snapshot(p)
        BY <2>2 DEF Snapshot, TableShape
    <2> QED BY <1>3, <2>1, <2>2
<1> QED BY <1>1, <1>4 DEF Ledger

(* Where the number of the root has not been taken by another process, what is left of the ledger
   is the root and processes that are the same instances. *)
LEMMA RefreshedIsSame ==
    ASSUME TreeTypeOK, LedgerShape, ~RootReused, NEW s \in Refreshed, s.pid \in Seen
    PROVE  SameInstance(s)
<1>1. CASE s.pid = Root
    BY <1>1, RootStart, SeenExist DEF RootReused, SameInstance, Refreshed, LedgerShape
<1>2. CASE s.pid # Root BY <1>2 DEF Refreshed
<1> QED BY <1>1, <1>2

(* On Linux an observation claims no process of another program. *)
LEMMA LinuxLedgerIsOurs ==
    ASSUME TreeInv, world.linux, ~ObserveFails
    PROVE  \A s \in Ledger : SameInstance(s) => table[s.pid].ours
<1> DEFINE Mine == {p \in Pids : p \in Existing => table[p].ours}
<1>1. Seen = Existing /\ ~RootReused /\ Unattributed = {}
    BY DEF ObserveFails, Seen
<1>2. ASSUME NEW s \in Refreshed, s.pid \in Existing PROVE table[s.pid].ours
    <2>1. s \in known BY DEF Refreshed
    <2>2. SameInstance(s) BY <1>1, <1>2, RefreshedIsSame DEF TreeInv
    <2> QED BY <2>1, <2>2 DEF TreeInv, OursOnly
<1>3. NumbersOf(Refreshed) \subseteq Mine
    BY <1>2, RefreshedNumbers DEF NumbersOf, TreeInv
<1>4. \A q \in Existing : table[q].parent \in Mine => q \in Mine
    BY PidsAssumption DEF TreeInv, TableShape, Existing
<1>5. OfLineage \subseteq Mine
    <2> DEFINE N == NumbersOf(Refreshed)
    <2>1. N \in SUBSET Pids BY RefreshedNumbers DEF TreeInv
    <2>2. Mine \in SUBSET Pids /\ Existing \in SUBSET Pids BY DEF Existing
    <2>3. OfLineage = Descendants(N, Existing) BY <1>1 DEF OfLineage
    <2>4. N \subseteq Mine BY <1>3
    <2> HIDE DEF N, Mine
    <2> QED BY <1>4, <2>1, <2>2, <2>3, <2>4, DescendantsLeast
<1>6. ASSUME NEW p \in InGroup PROVE table[p].ours
    <2>1. p \in Existing BY DEF InGroup
    <2>2. Snapshot(p) \in Refreshed \/ p \in OfLineage BY <1>1 DEF Unattributed
    <2>3. CASE Snapshot(p) \in Refreshed
        <3>1. Snapshot(p).pid = p BY DEF Snapshot
        <3> QED BY <1>2, <2>1, <2>3, <3>1
    <2>4. CASE p \in OfLineage BY <1>5, <2>1, <2>4
    <2> QED BY <2>2, <2>3, <2>4
<1>7. ASSUME NEW s \in Ledger, SameInstance(s) PROVE table[s.pid].ours
    <2>1. CASE s \in Refreshed BY <1>2, <1>7, <2>1 DEF SameInstance
    <2>2. CASE \E p \in InGroup \cup (OfLineage \cap Seen) : s = Snapshot(p)
        BY <1>1, <1>5, <1>6, <1>7, <2>2 DEF SameInstance, Snapshot
    <2> QED BY <2>1, <2>2 DEF Ledger
<1> QED BY <1>7

(* Where every process is in the ledger or has a parent, an observation finds them all. *)
LEMMA ObservationFindsOurs ==
    ASSUME TreeInv, ~ObserveFails, ~world.hides, shim.at # "failed"
    PROVE  \A p \in Existing : table[p].ours => Snapshot(p) \in Ledger
<1>1. \A p \in Existing : table[p].ours => Snapshot(p) \in known \/ table[p].parent # 0
    BY DEF TreeInv, EachObserved
<1>2. \A p \in Existing : Snapshot(p) \in known => p \in NumbersOf(known)
    BY DEF NumbersOf, Snapshot
<1>3. ASSUME NEW p \in Existing, table[p].ours PROVE p \in Seen
    <2>1. CASE world.linux BY <2>1 DEF Seen
    <2>2. CASE ~world.linux
        <3> DEFINE N == NumbersOf(known) \cup {Root} \cup InGroup
        <3>1. N \in SUBSET Pids
            BY PidsAssumption DEF NumbersOf, TreeInv, TreeTypeOK, InGroup, Existing
        <3>2. \A q \in Existing : table[q].ours =>
                  q \in N \/ (q \in Existing /\ table[q].parent # 0)
            BY <1>1, <1>2
        <3>3. Seen = Existing \cap Descendants(N, Existing) BY <2>2 DEF Seen
        <3> HIDE DEF N
        <3>4. p \in Descendants(N, Existing) BY <1>3, <3>1, <3>2, OursAreReached DEF TreeInv
        <3> QED BY <3>3, <3>4
    <2> QED BY <2>1, <2>2
<1>4. ASSUME NEW p \in Existing, table[p].ours, Snapshot(p) \in known
      PROVE  Snapshot(p) \in Refreshed
    BY <1>3, <1>4 DEF Refreshed, SameInstance, Snapshot
<1>5. ASSUME NEW p \in Existing, table[p].ours PROVE p \in OfLineage
    <2> DEFINE N == NumbersOf(Refreshed)
    <2>1. N \in SUBSET Pids BY RefreshedNumbers DEF TreeInv
    <2>2. Seen \in SUBSET Existing BY SeenExist DEF TreeInv
    <2>3. \A q \in Existing : table[q].ours => q \in N \/ (q \in Seen /\ table[q].parent # 0)
        <3>1. \A q \in Existing : Snapshot(q).pid = q BY DEF Snapshot
        <3> QED BY <1>1, <1>3, <1>4, <3>1 DEF NumbersOf
    <2>4. OfLineage = Descendants(N, Seen) BY DEF OfLineage
    <2> HIDE DEF N
    <2> QED BY <1>5, <2>1, <2>2, <2>3, <2>4, OursAreReached DEF TreeInv
<1>6. ASSUME NEW p \in Existing, table[p].ours PROVE Snapshot(p) \in Ledger
    <2>1. p \in OfLineage \cap Seen BY <1>3, <1>5, <1>6
    <2>2. CASE p \in NumbersOf(Refreshed)
        <3>1. PICK s \in Refreshed : s.pid = p BY <2>2 DEF NumbersOf
        <3>2. SameInstance(s)
            BY <2>1, <3>1, RefreshedIsSame DEF TreeInv, ObserveFails
        <3>3. s = Snapshot(p)
            BY <3>1, <3>2 DEF SameInstance, Snapshot, Refreshed, TreeInv, TreeTypeOK
        <3> QED BY <3>1, <3>3 DEF Ledger
    <2>3. CASE p \notin NumbersOf(Refreshed) BY <2>1, <2>3 DEF Ledger
    <2> QED BY <2>2, <2>3
<1> QED BY <1>6

(* The processes that go on, go on as they were, but for a parent that has ended. *)
Survives ==
    /\ world' = world /\ starts' = starts
    /\ Existing' \subseteq Existing
    /\ \A p \in Existing' :
          /\ table'[p].start = table[p].start /\ table'[p].ours = table[p].ours
          /\ table'[p].parent = IF table[p].parent \in Existing' THEN table[p].parent ELSE 0

LEMMA SameTableSurvives ==
    ASSUME TreeInv, UNCHANGED <<world, table, starts>>
    PROVE  Survives
<1>1. Existing' = Existing
    BY DEF Existing
<1>2. \A p \in Existing : table[p].parent \in Existing \/ table[p].parent = 0
    BY DEF TreeInv, TableShape
<1> QED BY <1>1, <1>2 DEF Survives

LEMMA EndedSurvives ==
    ASSUME TreeInv, UNCHANGED <<world, starts>>, NEW gone \in SUBSET Existing,
           table' = [q \in Pids |-> IF q \in gone THEN NoProcess
                                    ELSE IF table[q].parent \in gone
                                    THEN [table[q] EXCEPT !.parent = 0] ELSE table[q]]
    PROVE  Survives /\ Existing' = Existing \ gone
<1>1. \A q \in Pids :
          q \notin gone => /\ table'[q].start = table[q].start
                          /\ table'[q].ours = table[q].ours
                          /\ table'[q].parent = IF table[q].parent \in gone THEN 0
                                                ELSE table[q].parent
    BY DEF TreeInv, TreeTypeOK
<1>2. \A q \in gone : table'[q].start = 0
    BY DEF NoProcess, Existing
<1>3. Existing' = Existing \ gone
    BY <1>1, <1>2 DEF Existing
<1>4. \A p \in Existing : table[p].parent \in Existing \/ table[p].parent = 0
    BY DEF TreeInv, TableShape
<1>5. 0 \notin Existing
    BY PidsAssumption DEF Existing
<1> QED BY <1>1, <1>3, <1>4, <1>5 DEF Survives, Existing

LEMMA OrphanedSurvives ==
    ASSUME TreeInv, UNCHANGED <<world, starts>>, NEW p \in Existing, table' = Orphaned(p)
    PROVE  Survives /\ Existing' = Existing \ {p}
<1>1. \A q \in Pids :
          q # p => /\ table'[q].start = table[q].start
                   /\ table'[q].ours = table[q].ours
                   /\ q \in Existing => table'[q].parent = IF table[q].parent = p THEN 0
                                                           ELSE table[q].parent
    BY DEF TreeInv, TreeTypeOK, Orphaned, ChildrenOf
<1>2. table'[p].start = 0
    BY DEF NoProcess, Existing, Orphaned
<1>3. Existing' = Existing \ {p}
    BY <1>1, <1>2 DEF Existing
<1>4. \A q \in Existing : table[q].parent \in Existing \/ table[q].parent = 0
    BY DEF TreeInv, TableShape
<1>5. 0 \notin Existing
    BY PidsAssumption DEF Existing
<1> QED BY <1>1, <1>3, <1>4, <1>5 DEF Survives, Existing

LEMMA LeaveGroupSurvives ==
    ASSUME TreeInv, NEW p \in Pids, LeaveGroup(p)
    PROVE  Survives
<1>1. \A q \in Pids : /\ table'[q].start = table[q].start /\ table'[q].ours = table[q].ours
                      /\ table'[q].parent = table[q].parent
    BY DEF LeaveGroup, TreeInv, TreeTypeOK
<1>2. Existing' = Existing
    BY <1>1 DEF Existing
<1>3. \A q \in Existing : table[q].parent \in Existing \/ table[q].parent = 0
    BY DEF TreeInv, TableShape
<1> QED BY <1>1, <1>2, <1>3 DEF Survives, Existing, LeaveGroup

(* Where processes only end, the shape of the machine remains. *)
LEMMA SurvivorsKeepShape ==
    ASSUME TreeInv, Survives
    PROVE  TableShape'
<1>1. 0 \notin Existing'
    BY PidsAssumption DEF Existing
<1>2. \A p \in Existing' : table'[p].start <= starts'
    BY DEF Survives, TreeInv, TableShape
<1>3. \A p, q \in Existing' : table'[p].start = table'[q].start => p = q
    BY DEF Survives, TreeInv, TableShape
<1>4. ASSUME NEW p \in Existing', table'[p].parent # 0
      PROVE  /\ table'[p].parent \in Existing' /\ table'[table'[p].parent].start < table'[p].start
             /\ table'[p].ours /\ table'[table'[p].parent].ours
    <2>1. table'[p].parent = table[p].parent /\ table[p].parent \in Existing'
        BY <1>4 DEF Survives
    <2>2. p \in Existing /\ table[p].parent # 0
        BY <1>4, <2>1 DEF Survives
    <2> QED BY <2>1, <2>2 DEF Survives, TreeInv, TableShape
<1> QED BY <1>2, <1>3, <1>4 DEF TableShape

LEMMA SurvivorsAreKnown ==
    ASSUME Survives
    PROVE  /\ \A s : SameInstance(s)' => SameInstance(s) /\ table'[s.pid].ours = table[s.pid].ours
           /\ \A p \in Existing' : Snapshot(p)' = Snapshot(p)
BY DEF Survives, SameInstance, Snapshot

LEMMA SurvivorsAreOurs ==
    ASSUME TreeInv, Survives, known' = known, targets' \subseteq targets, hit' = hit
    PROVE  LedgerShape' /\ OursOnly'
<1>1. LedgerShape'
    BY DEF TreeInv, LedgerShape, Survives
<1>2. OursOnly'
    BY SurvivorsAreKnown DEF TreeInv, OursOnly, Survives
<1> QED BY <1>1, <1>2

(* A process that no observation has seen ends where every child of its is in the ledger. *)
LEMMA SurvivorsAreObserved ==
    ASSUME TreeInv, Survives, known' = known, shim' = shim,
           ~world.hides => \A p \in Existing' : /\ table[p].ours /\ table[p].parent # 0
                                                /\ table[p].parent \notin Existing'
                                                => Snapshot(p) \in known
    PROVE  EachObserved'
BY SurvivorsAreKnown DEF TreeInv, EachObserved, Survives

(* A process that begins has a start time that no ledger and no signal has met. *)
LEMMA BeginKeeps ==
    ASSUME TreeInv, NEW q \in Pids, NEW parent \in Pids \cup {0},
           NEW group \in Pids \cup {0}, NEW ours \in BOOLEAN, Begin(q, parent, group, ours),
           parent # 0 => parent \in Existing /\ table[parent].ours /\ ours,
           ours => parent # 0 /\ (world.hides \/ shim.at \in {"watching", "failed"})
    PROVE  TreeInv'
<1>1. /\ q \notin Existing /\ starts < MaxStarts /\ starts' = starts + 1
      /\ UNCHANGED <<world, known, shim, targets, hit>>
    BY DEF Begin, Taken
<1>2. starts \in Nat /\ MaxStarts \in Nat
    BY TreeBoundsAssumption DEF TreeInv, TreeTypeOK
<1>3. PICK r : r = [start |-> starts + 1, parent |-> parent, group |-> group, ours |-> ours]
    OBVIOUS
<1>4. table' = [table EXCEPT ![q] = r]
    BY <1>3 DEF Begin
<1>5. r \in [start : 0 .. MaxStarts, parent : Pids \cup {0}, group : Pids \cup {0}, ours : BOOLEAN]
    BY <1>1, <1>2, <1>3
<1>6. TreeTypeOK'
    BY <1>1, <1>2, <1>4, <1>5 DEF TreeInv, TreeTypeOK
<1>7. r.start = starts + 1 /\ r.parent = parent /\ r.ours = ours
    BY <1>3
<1> HIDE <1>3
<1>8. /\ \A p \in Pids : p # q => table'[p] = table[p]
      /\ table'[q] = r
    BY <1>4 DEF TreeInv, TreeTypeOK
<1>9. Existing' = Existing \cup {q}
    BY <1>2, <1>7, <1>8 DEF Existing
<1>10. \A p \in Existing : p \in Pids /\ p # q /\ table[p].start \in Nat /\ table[p].start <= starts
    BY <1>1 DEF TreeInv, TreeTypeOK, TableShape, Existing
<1>11. TableShape'
    <2>1. \A p \in Existing' : table'[p].start <= starts'
        BY <1>1, <1>2, <1>7, <1>8, <1>9, <1>10
    <2>2. \A p, p2 \in Existing' : table'[p].start = table'[p2].start => p = p2
        BY <1>2, <1>7, <1>8, <1>9, <1>10 DEF TreeInv, TableShape
    <2>3. ASSUME NEW p \in Existing', table'[p].parent # 0
          PROVE  /\ table'[p].parent \in Existing'
                 /\ table'[table'[p].parent].start < table'[p].start
                 /\ table'[p].ours /\ table'[table'[p].parent].ours
        <3>1. CASE p = q
            BY <1>2, <1>7, <1>8, <1>9, <1>10, <2>3, <3>1
        <3>2. CASE p # q
            <4>1. p \in Existing /\ table'[p] = table[p]
                BY <1>8, <1>9, <1>10, <3>2
            <4> QED BY <1>8, <1>9, <1>10, <2>3, <4>1 DEF TreeInv, TableShape
        <3> QED BY <3>1, <3>2
    <2> QED BY <2>1, <2>2, <2>3 DEF TableShape
<1>12. LedgerShape'
    BY <1>1, <1>2 DEF TreeInv, LedgerShape, TreeTypeOK
<1>13. ASSUME NEW s \in known \cup targets, SameInstance(s)'
       PROVE  SameInstance(s) /\ table'[s.pid] = table[s.pid]
    <2>1. s.start <= starts /\ s.start \in Nat
        BY DEF TreeInv, TreeTypeOK, LedgerShape
    <2>2. s.pid # q
        BY <1>2, <1>7, <1>8, <1>13, <2>1 DEF SameInstance
    <2> QED BY <1>8, <1>9, <1>10, <1>13, <2>2 DEF SameInstance
<1>14. OursOnly'
    <2>1. \A p \in Existing' : table'[p].start \in hit' => p # q
        BY <1>1, <1>2, <1>7, <1>8 DEF TreeInv, LedgerShape
    <2> QED BY <1>1, <1>8, <1>9, <1>10, <1>13, <2>1 DEF TreeInv, OursOnly
<1>15. EachObserved'
    <2>1. \A p \in Existing : Snapshot(p)' = Snapshot(p)
        BY <1>8, <1>10 DEF Snapshot
    <2> QED BY <1>1, <1>7, <1>8, <1>9, <1>10, <2>1 DEF TreeInv, EachObserved
<1> QED BY <1>6, <1>11, <1>12, <1>14, <1>15 DEF TreeInv

(* Signals and the ends of processes leave the types as they are. *)
LEMMA EndedTyped ==
    ASSUME TreeTypeOK, NEW gone,
           table' = [q \in Pids |-> IF q \in gone THEN NoProcess
                                    ELSE IF table[q].parent \in gone
                                    THEN [table[q] EXCEPT !.parent = 0] ELSE table[q]]
    PROVE  table' \in [Pids -> [start : 0 .. MaxStarts, parent : Pids \cup {0},
                                group : Pids \cup {0}, ours : BOOLEAN]]
<1>1. NoProcess \in [start : 0 .. MaxStarts, parent : Pids \cup {0}, group : Pids \cup {0},
                     ours : BOOLEAN]
    BY TreeBoundsAssumption DEF NoProcess
<1> QED BY <1>1 DEF TreeTypeOK

LEMMA OrphanedTyped ==
    ASSUME TreeTypeOK, NEW p
    PROVE  Orphaned(p) \in [Pids -> [start : 0 .. MaxStarts, parent : Pids \cup {0},
                                     group : Pids \cup {0}, ours : BOOLEAN]]
<1>1. NoProcess \in [start : 0 .. MaxStarts, parent : Pids \cup {0}, group : Pids \cup {0},
                     ours : BOOLEAN]
    BY TreeBoundsAssumption DEF NoProcess
<1> QED BY <1>1 DEF TreeTypeOK, Orphaned

LEMMA ForkKeeps ==
    ASSUME TreeInv, NEW p \in Pids, NEW q \in Pids, Fork(p, q)
    PROVE  TreeInv'
<1>1. p \in Existing /\ table[p].ours /\ Begin(q, p, table[p].group, TRUE)
    BY DEF Fork
<1>2. p # 0 /\ table[p].group \in Pids \cup {0}
    BY PidsAssumption DEF TreeInv, TreeTypeOK
<1>3. world.hides \/ shim.at \in {"watching", "failed"}
    BY <1>1 DEF Fork, TreeInv, TreeTypeOK, EachObserved, ShimPlaces
<1> QED BY <1>1, <1>2, <1>3, BeginKeeps

LEMMA ForeignKeeps ==
    ASSUME TreeInv, NEW q \in Pids, Foreign(q)
    PROVE  TreeInv'
BY BeginKeeps DEF Foreign

LEMMA LeaveGroupKeeps ==
    ASSUME TreeInv, NEW p \in Pids, LeaveGroup(p)
    PROVE  TreeInv'
<1>1. Survives
    BY LeaveGroupSurvives
<1>2. TreeTypeOK'
    BY DEF TreeInv, TreeTypeOK, LeaveGroup
<1>3. UNCHANGED <<known, shim, targets, hit>>
    BY DEF LeaveGroup
<1>4. \A q \in Existing : table[q].parent \in Existing'  \/ table[q].parent = 0
    <2>1. \A q \in Pids : table'[q].start = table[q].start
        BY DEF LeaveGroup, TreeInv, TreeTypeOK
    <2> QED BY <2>1 DEF TreeInv, TableShape, Existing
<1>5. EachObserved'
    BY <1>1, <1>3, <1>4, SurvivorsAreObserved DEF Survives
<1> QED BY <1>1, <1>2, <1>3, <1>5, SurvivorsKeepShape, SurvivorsAreOurs DEF TreeInv

LEMMA EndKeeps ==
    ASSUME TreeInv, NEW p \in Pids, End(p)
    PROVE  TreeInv'
<1>1. p \in Existing /\ table' = Orphaned(p) /\ UNCHANGED <<world, starts, known, shim, targets, hit>>
    BY DEF End
<1>2. Survives /\ Existing' = Existing \ {p}
    BY <1>1, OrphanedSurvives
<1>3. TreeTypeOK'
    BY <1>1, OrphanedTyped DEF TreeInv, TreeTypeOK
<1>4. EachObserved'
    <2>1. ASSUME ~world.hides, NEW q \in Existing', table[q].parent # 0,
                 table[q].parent \notin Existing'
          PROVE  Snapshot(q) \in known
        <3>1. q \in Existing /\ table[q].parent = p
            BY <1>2, <2>1 DEF TreeInv, TableShape
        <3> QED BY <2>1, <3>1 DEF End, ChildrenOf
    <2> QED BY <1>1, <1>2, <2>1, SurvivorsAreObserved
<1> QED BY <1>1, <1>2, <1>3, <1>4, SurvivorsKeepShape, SurvivorsAreOurs DEF TreeInv

(* A step of the Shim that leaves the machine alone. *)
LEMMA ShimStepKeeps ==
    ASSUME TreeInv, UNCHANGED <<world, table, starts, known, targets, hit>>,
           shim' \in [at : ShimPlaces, guard : BOOLEAN, reaped : BOOLEAN, told : BOOLEAN,
                      forwarded : BOOLEAN, asked : BOOLEAN, force : BOOLEAN, forced : BOOLEAN,
                      failure : BOOLEAN],
           EachObserved'
    PROVE  TreeInv'
<1>1. Survives
    BY SameTableSurvives
<1>2. TreeTypeOK'
    BY DEF TreeInv, TreeTypeOK
<1> QED BY <1>1, <1>2, SurvivorsKeepShape, SurvivorsAreOurs DEF TreeInv

LEMMA QuietStepsKeep ==
    ASSUME TreeInv, ShutdownSignal \/ Reap \/ Unguarded \/ Signalled
    PROVE  TreeInv'
<1>1. UNCHANGED <<world, table, starts, known, targets, hit>>
    BY DEF ShutdownSignal, Reap, Unguarded, Signalled
<1>2. Existing' = Existing /\ \A p : Snapshot(p)' = Snapshot(p)
    BY <1>1 DEF Existing, Snapshot
<1>3. /\ shim' \in [at : ShimPlaces, guard : BOOLEAN, reaped : BOOLEAN, told : BOOLEAN,
                    forwarded : BOOLEAN, asked : BOOLEAN, force : BOOLEAN, forced : BOOLEAN,
                    failure : BOOLEAN]
      /\ shim'.guard = shim.guard
      /\ \/ shim'.at = shim.at
         \/ shim.at = "watching" /\ ~shim.guard
         \/ shim.at = "signalling" /\ shim'.at = "watching"
    BY DEF ShutdownSignal, Reap, Unguarded, Signalled, TreeInv, TreeTypeOK, ShimPlaces
<1>4. EachObserved'
    BY <1>1, <1>2, <1>3 DEF TreeInv, EachObserved
<1> QED BY <1>1, <1>3, <1>4, ShimStepKeeps

LEMMA TargetsTyped ==
    ASSUME TreeTypeOK
    PROVE  Targets(Owned(Ledger)) \subseteq [pid : Pids, start : 1 .. MaxStarts, grouped : BOOLEAN]
<1>1. \A k \in Owned(Ledger) : k.pid \in Pids /\ k.start \in 1 .. MaxStarts
    BY LedgerTyped DEF Owned
<1>2. ASSUME NEW k \in Owned(Ledger)
      PROVE  [pid |-> k.pid, start |-> k.start, grouped |-> table[k.pid].group = Root]
                 \in [pid : Pids, start : 1 .. MaxStarts, grouped : BOOLEAN]
    <2>1. (table[k.pid].group = Root) \in BOOLEAN
        OBVIOUS
    <2> QED BY <1>1, <2>1, Zenon
<1>3. Targets(Owned(Ledger)) = {[pid |-> k.pid, start |-> k.start,
                                 grouped |-> table[k.pid].group = Root] : k \in Owned(Ledger)}
    BY DEF Targets
<1> QED BY <1>2, <1>3, Zenon

LEMMA ObserveKeeps ==
    ASSUME TreeInv, Observe
    PROVE  TreeInv'
<1>1. UNCHANGED <<world, table, starts, hit>> /\ shim.at = "watching" /\ shim.guard
    BY DEF Observe
<1>2. Existing' = Existing /\ (\A p : Snapshot(p)' = Snapshot(p))
      /\ (\A s : SameInstance(s)' = SameInstance(s))
    BY <1>1 DEF Existing, Snapshot, SameInstance
<1>3. Survives /\ TableShape'
    BY <1>1, SameTableSurvives, SurvivorsKeepShape
<1>4. CASE ObserveFails
    <2>1. UNCHANGED <<known, targets>> /\ shim' = [shim EXCEPT !.at = "failed"]
        BY <1>4 DEF Observe
    <2>2. EachObserved' /\ TreeTypeOK'
        BY <1>1, <2>1 DEF EachObserved, TreeInv, TreeTypeOK, ShimPlaces
    <2> QED BY <1>1, <1>3, <2>1, <2>2, SurvivorsAreOurs DEF TreeInv
<1>5. CASE ~ObserveFails
    <2>1. known' = Ledger
        BY <1>5 DEF Observe
    <2>2. /\ targets' = targets \/ targets' = Targets(Owned(Ledger))
          /\ shim'.guard = shim.guard
          /\ shim'.at \in {"watching", "signalling", "done"}
          /\ shim'.at = "done" => Owned(Ledger) = {}
          /\ shim' \in [at : ShimPlaces, guard : BOOLEAN, reaped : BOOLEAN, told : BOOLEAN,
                        forwarded : BOOLEAN, asked : BOOLEAN, force : BOOLEAN, forced : BOOLEAN,
                        failure : BOOLEAN]
        <3> DEFINE L == Owned(Ledger)
        <3>1. L = Owned(Ledger)
            OBVIOUS
        <3>2. \/ EndsWithTree(L) /\ shim' = [shim EXCEPT !.at = "done"] /\ UNCHANGED targets
              \/ UNCHANGED <<shim, targets>>
              \/ /\ shim' = [shim EXCEPT !.at = "signalling", !.asked = TRUE,
                                         !.force = FALSE, !.forwarded = Forwards \/ @]
                 /\ targets' = Targets(L)
              \/ /\ shim' = [shim EXCEPT !.at = "signalling", !.force = TRUE, !.forced = TRUE]
                 /\ targets' = Targets(L)
            BY <1>5 DEF Observe
        <3>3. Forwards \in BOOLEAN
            BY DEF Forwards, TreeInv, TreeTypeOK
        <3>4. shim \in [at : ShimPlaces, guard : BOOLEAN, reaped : BOOLEAN, told : BOOLEAN,
                        forwarded : BOOLEAN, asked : BOOLEAN, force : BOOLEAN, forced : BOOLEAN,
                        failure : BOOLEAN]
            BY DEF TreeInv, TreeTypeOK
        <3> HIDE DEF L
        <3>5. CASE EndsWithTree(L) /\ shim' = [shim EXCEPT !.at = "done"] /\ UNCHANGED targets
            BY <3>1, <3>4, <3>5 DEF EndsWithTree, ShimPlaces
        <3>6. CASE UNCHANGED <<shim, targets>>
            BY <1>1, <3>4, <3>6
        <3>7. CASE /\ shim' = [shim EXCEPT !.at = "signalling", !.asked = TRUE,
                                           !.force = FALSE, !.forwarded = Forwards \/ @]
                   /\ targets' = Targets(L)
            BY <3>1, <3>3, <3>4, <3>7 DEF ShimPlaces
        <3>8. CASE /\ shim' = [shim EXCEPT !.at = "signalling", !.force = TRUE, !.forced = TRUE]
                   /\ targets' = Targets(L)
            BY <3>1, <3>4, <3>8 DEF ShimPlaces
        <3> QED BY <3>2, <3>5, <3>6, <3>7, <3>8
    <2>3. TreeTypeOK'
        BY <1>1, <2>1, <2>2, LedgerTyped, TargetsTyped DEF TreeInv, TreeTypeOK
    <2>4. ASSUME NEW s \in Targets(Owned(Ledger))
          PROVE  \E k \in Ledger : k.pid = s.pid /\ k.start = s.start
        BY DEF Targets, Owned
    <2>5. LedgerShape'
        <3>1. \A s \in targets' : s.start <= starts'
            BY <1>1, <2>2, <2>4, RootKept DEF TreeInv, LedgerShape
        <3> QED BY <1>1, <2>1, <3>1, RootKept DEF TreeInv, LedgerShape
    <2>6. OursOnly'
        <3>1. ASSUME world.linux, NEW s \in targets', SameInstance(s) PROVE table[s.pid].ours
            <4>1. CASE s \in targets BY <3>1, <4>1 DEF TreeInv, OursOnly
            <4>2. CASE s \in Targets(Owned(Ledger))
                BY <1>5, <2>4, <3>1, <4>2, LinuxLedgerIsOurs DEF SameInstance
            <4> QED BY <2>2, <4>1, <4>2
        <3> QED BY <1>1, <1>2, <1>5, <2>1, <3>1, LinuxLedgerIsOurs DEF TreeInv, OursOnly
    <2>7. EachObserved'
        <3>1. ASSUME ~world.hides, NEW p \in Existing, table[p].ours PROVE Snapshot(p) \in Ledger
            BY <1>1, <1>5, <3>1, ObservationFindsOurs
        <3>2. ASSUME ~world.hides, Owned(Ledger) = {}, NEW p \in Existing, table[p].ours
              PROVE  FALSE
            <4>1. SameInstance(Snapshot(p)) BY <3>2 DEF SameInstance, Snapshot
            <4> QED BY <3>1, <3>2, <4>1 DEF Owned
        <3> QED BY <1>1, <1>2, <2>1, <2>2, <3>1, <3>2 DEF EachObserved
    <2> QED BY <1>3, <2>3, <2>5, <2>6, <2>7 DEF TreeInv
<1> QED BY <1>4, <1>5

(* What a signal does: it reaches some processes, and some of them end by it. *)
LEMMA SignalKeeps ==
    ASSUME TreeInv, Survives, TreeTypeOK', UNCHANGED <<world, starts, known>>,
           targets' \subseteq targets, shim' = shim, shim.at # "done",
           NEW reached \in SUBSET Existing, hit' = hit \cup {table[p].start : p \in reached},
           world.linux => \A p \in reached : table[p].ours,
           shim.at \in {"signalling", "failed"}
    PROVE  TreeInv'
<1>1. TableShape'
    BY SurvivorsKeepShape
<1>2. \A p \in reached : table[p].start \in 1 .. starts
    BY DEF TreeInv, TreeTypeOK, TableShape, Existing
<1>3. LedgerShape'
    BY <1>2 DEF TreeInv, LedgerShape
<1>4. OursOnly'
    <2>1. ASSUME world.linux, NEW p \in Existing', table'[p].start \in hit'
          PROVE  table'[p].ours
        <3>1. p \in Existing /\ table'[p].start = table[p].start /\ table'[p].ours = table[p].ours
            BY <2>1 DEF Survives
        <3>2. CASE table[p].start \in hit
            BY <2>1, <3>1, <3>2 DEF TreeInv, OursOnly
        <3>3. CASE \E r \in reached : table[p].start = table[r].start
            BY <2>1, <3>1, <3>3 DEF TreeInv, TableShape
        <3> QED BY <2>1, <3>1, <3>2, <3>3
    <2> QED BY <2>1, SurvivorsAreKnown DEF TreeInv, OursOnly, Survives
<1>5. EachObserved'
    BY SurvivorsAreKnown DEF TreeInv, EachObserved, Survives
<1> QED BY <1>1, <1>3, <1>4, <1>5 DEF TreeInv

LEMMA SignalGroupKeeps ==
    ASSUME TreeInv, SignalGroup
    PROVE  TreeInv'
<1> DEFINE members == {p \in Existing : table[p].group = Root}
<1>1. /\ shim.at = "signalling" /\ ~world.linux /\ UNCHANGED <<world, starts, known, shim>>
      /\ targets' \subseteq targets
      /\ hit' = hit \cup {table[p].start : p \in members}
      /\ table' = IF shim.force
                  THEN [q \in Pids |-> IF q \in members THEN NoProcess
                                       ELSE IF table[q].parent \in members
                                       THEN [table[q] EXCEPT !.parent = 0] ELSE table[q]]
                  ELSE table
    BY DEF SignalGroup
<1>2. PICK reached : reached = members
    OBVIOUS
<1>3. reached \in SUBSET Existing
    BY <1>2
<1>4. hit' \subseteq 1 .. MaxStarts
    <2>1. \A p \in Existing : table[p].start \in 1 .. MaxStarts
        BY TreeBoundsAssumption DEF TreeInv, TreeTypeOK, Existing
    <2> QED BY <1>1, <2>1 DEF TreeInv, TreeTypeOK
<1>5. CASE shim.force
    <2>1. table' = [q \in Pids |-> IF q \in reached THEN NoProcess
                                   ELSE IF table[q].parent \in reached
                                   THEN [table[q] EXCEPT !.parent = 0] ELSE table[q]]
        BY <1>1, <1>2, <1>5
    <2>2. Survives
        BY <1>1, <1>3, <2>1, EndedSurvives
    <2>3. TreeTypeOK'
        <3>1. table' \in [Pids -> [start : 0 .. MaxStarts, parent : Pids \cup {0},
                                   group : Pids \cup {0}, ours : BOOLEAN]]
            BY <2>1, EndedTyped DEF TreeInv
        <3> QED BY <1>1, <1>4, <3>1 DEF TreeInv, TreeTypeOK
    <2> QED BY <1>1, <1>2, <1>3, <2>2, <2>3, SignalKeeps
<1>6. CASE ~shim.force
    <2>1. table' = table
        BY <1>1, <1>6
    <2>2. Survives
        BY <1>1, <2>1, SameTableSurvives
    <2>3. TreeTypeOK'
        BY <1>1, <1>4, <2>1 DEF TreeInv, TreeTypeOK
    <2> QED BY <1>1, <1>2, <1>3, <2>2, <2>3, SignalKeeps
<1> QED BY <1>5, <1>6

LEMMA SignalProcessKeeps ==
    ASSUME TreeInv, NEW s \in targets, SignalProcess(s)
    PROVE  TreeInv'
<1>1. /\ shim.at = "signalling" /\ targets' \subseteq targets
      /\ UNCHANGED <<world, starts, known>>
    BY DEF SignalProcess
<1>2. CASE s.pid \notin Existing
    <2>1. UNCHANGED <<table, hit, shim>>
        BY <1>2 DEF SignalProcess
    <2>2. Survives
        BY <1>1, <2>1, SameTableSurvives
    <2>3. TreeTypeOK'
        BY <1>1, <2>1 DEF TreeInv, TreeTypeOK
    <2>4. EachObserved'
        BY <1>1, <2>1, <2>2, SurvivorsAreKnown DEF TreeInv, EachObserved, Survives
    <2> QED BY <1>1, <2>1, <2>2, <2>3, <2>4, SurvivorsKeepShape, SurvivorsAreOurs DEF TreeInv
<1>3. CASE s.pid \in Existing /\ SameInstance(s)
    <2>1. Hit(s.pid) /\ shim' = shim
        BY <1>3 DEF SignalProcess
    <2>2. PICK reached : reached = {s.pid}
        OBVIOUS
    <2>3. hit' = hit \cup {table[p].start : p \in reached}
        BY <2>1, <2>2 DEF Hit
    <2>4. world.linux => \A p \in reached : table[p].ours
        BY <1>3, <2>2 DEF TreeInv, OursOnly
    <2>5. table' = Orphaned(s.pid) \/ table' = table
        BY <2>1 DEF Hit
    <2>6. Survives
        BY <1>1, <1>3, <2>5, OrphanedSurvives, SameTableSurvives
    <2>7. TreeTypeOK'
        <3>1. table[s.pid].start \in 1 .. MaxStarts
            BY <1>3, TreeBoundsAssumption DEF TreeInv, TreeTypeOK, Existing
        <3>2. table' \in [Pids -> [start : 0 .. MaxStarts, parent : Pids \cup {0},
                                   group : Pids \cup {0}, ours : BOOLEAN]]
            BY <2>5, OrphanedTyped DEF TreeInv, TreeTypeOK
        <3> QED BY <1>1, <2>1, <2>2, <2>3, <3>1, <3>2 DEF TreeInv, TreeTypeOK
    <2>8. reached \in SUBSET Existing
        BY <1>3, <2>2
    <2> QED BY <1>1, <2>1, <2>3, <2>4, <2>6, <2>7, <2>8, SignalKeeps
<1>4. CASE s.pid \in Existing /\ ~SameInstance(s)
    <2>1. shim' = [shim EXCEPT !.at = "failed"] /\ UNCHANGED <<table, hit>>
        BY <1>4 DEF SignalProcess
    <2>2. Survives
        BY <1>1, <2>1, SameTableSurvives
    <2>3. TreeTypeOK' /\ EachObserved'
        BY <1>1, <2>1 DEF TreeInv, TreeTypeOK, EachObserved, ShimPlaces
    <2> QED BY <1>1, <2>1, <2>2, <2>3, SurvivorsKeepShape, SurvivorsAreOurs DEF TreeInv
<1> QED BY <1>2, <1>3, <1>4

LEMMA DropGuardKeeps ==
    ASSUME TreeInv, DropGuard
    PROVE  TreeInv'
<1>1. /\ shim.at = "failed" /\ shim' = [shim EXCEPT !.failure = TRUE]
      /\ targets' = {} /\ UNCHANGED <<world, starts>>
    BY DEF DropGuard
<1>2. shim'.at = "failed" /\ EachObserved'
    BY <1>1 DEF EachObserved, TreeInv, TreeTypeOK
<1>3. shim' \in [at : ShimPlaces, guard : BOOLEAN, reaped : BOOLEAN, told : BOOLEAN,
                 forwarded : BOOLEAN, asked : BOOLEAN, force : BOOLEAN, forced : BOOLEAN,
                 failure : BOOLEAN]
    BY <1>1 DEF TreeInv, TreeTypeOK
<1>4. CASE ObserveFails \/ ~shim.guard
    <2>1. UNCHANGED <<table, known, hit>>
        BY <1>4 DEF DropGuard
    <2>2. Survives
        BY <1>1, <2>1, SameTableSurvives
    <2>3. TreeTypeOK'
        BY <1>1, <1>3, <2>1 DEF TreeInv, TreeTypeOK
    <2> QED BY <1>1, <1>2, <2>1, <2>2, <2>3, SurvivorsKeepShape, SurvivorsAreOurs DEF TreeInv
<1>5. CASE ~ (ObserveFails \/ ~shim.guard)
    <2> DEFINE owned == NumbersOf(Owned(Ledger))
    <2>1. /\ known' = Ledger /\ hit' = hit \cup {table[p].start : p \in owned}
          /\ table' = [q \in Pids |-> IF q \in owned THEN NoProcess
                                      ELSE IF table[q].parent \in owned
                                      THEN [table[q] EXCEPT !.parent = 0] ELSE table[q]]
        BY <1>5 DEF DropGuard
    <2>2. PICK reached : reached = owned
        OBVIOUS
    <2>3. reached \in SUBSET Existing
        BY <2>2 DEF NumbersOf, Owned, SameInstance
    <2>4. /\ hit' = hit \cup {table[p].start : p \in reached}
          /\ table' = [q \in Pids |-> IF q \in reached THEN NoProcess
                                      ELSE IF table[q].parent \in reached
                                      THEN [table[q] EXCEPT !.parent = 0] ELSE table[q]]
        BY <2>1, <2>2
    <2>5. \A p \in reached : \E s \in Ledger : s.pid = p /\ SameInstance(s)
        BY <2>2 DEF NumbersOf, Owned
    <2> HIDE DEF owned
    <2>6. Survives /\ Existing' = Existing \ reached
        BY <1>1, <2>3, <2>4, EndedSurvives
    <2>7. TableShape'
        BY <2>6, SurvivorsKeepShape
    <2>8. \A p \in reached : table[p].start \in 1 .. starts /\ table[p].start \in 1 .. MaxStarts
        BY <2>3, TreeBoundsAssumption DEF TreeInv, TreeTypeOK, TableShape, Existing
    <2>9. TreeTypeOK'
        <3>1. table' \in [Pids -> [start : 0 .. MaxStarts, parent : Pids \cup {0},
                                   group : Pids \cup {0}, ours : BOOLEAN]]
            BY <2>4, EndedTyped DEF TreeInv
        <3>2. known' \subseteq [pid : Pids, start : 1 .. MaxStarts]
            BY <2>1, LedgerTyped DEF TreeInv
        <3>3. hit' \subseteq 1 .. MaxStarts
            BY <2>4, <2>8 DEF TreeInv, TreeTypeOK
        <3> QED BY <1>1, <1>3, <3>1, <3>2, <3>3 DEF TreeInv, TreeTypeOK
    <2>10. LedgerShape'
        BY <1>1, <2>1, <2>4, <2>8, RootKept DEF TreeInv, LedgerShape
    <2>11. OursOnly'
        <3>1. ASSUME world.linux, NEW s \in known', SameInstance(s)' PROVE table'[s.pid].ours
            <4>1. SameInstance(s) /\ table'[s.pid].ours = table[s.pid].ours
                BY <2>6, <3>1, SurvivorsAreKnown
            <4> QED BY <1>5, <2>1, <3>1, <4>1, LinuxLedgerIsOurs
        <3>2. ASSUME world.linux, NEW p \in Existing', table'[p].start \in hit'
              PROVE  table'[p].ours
            <4>1. p \in Existing /\ p \notin reached /\ table'[p].start = table[p].start
                  /\ table'[p].ours = table[p].ours
                BY <2>6, <3>2 DEF Survives
            <4>2. \A r \in reached : table[r].start # table[p].start
                BY <2>3, <4>1 DEF TreeInv, TableShape
            <4>3. table[p].start \in hit
                BY <2>4, <3>2, <4>1, <4>2
            <4> QED BY <3>2, <4>1, <4>3 DEF TreeInv, OursOnly
        <3> QED BY <1>1, <3>1, <3>2 DEF OursOnly
    <2> QED BY <1>2, <2>7, <2>9, <2>10, <2>11 DEF TreeInv
<1> QED BY <1>4, <1>5

LEMMA TreeInitially ==
    ASSUME InitTree
    PROVE  TreeInv
<1>1. PICK r : r = [start |-> 1, parent |-> 0, group |-> Root, ours |-> TRUE]
    OBVIOUS
<1>2. table = [p \in Pids |-> IF p = Root THEN r ELSE NoProcess]
    BY <1>1 DEF InitTree
<1>3. /\ r.start = 1 /\ r.parent = 0 /\ r.ours
      /\ NoProcess.start = 0
      /\ r \in [start : 0 .. MaxStarts, parent : Pids \cup {0}, group : Pids \cup {0}, ours : BOOLEAN]
      /\ NoProcess \in [start : 0 .. MaxStarts, parent : Pids \cup {0}, group : Pids \cup {0},
                        ours : BOOLEAN]
    BY <1>1, PidsAssumption, TreeBoundsAssumption DEF NoProcess
<1>4. Existing = {Root} /\ table[Root] = r
    BY <1>2, <1>3, PidsAssumption DEF Existing
<1>5. /\ world \in [linux : BOOLEAN, hides : BOOLEAN] /\ starts = 1
      /\ known = {[pid |-> Root, start |-> 1]} /\ targets = {} /\ hit = {}
    BY DEF InitTree
<1>6. PICK guard \in {TRUE, ~world.hides} :
          shim = [at |-> "watching", guard |-> guard, reaped |-> FALSE, told |-> FALSE,
                  forwarded |-> FALSE, asked |-> FALSE, force |-> FALSE, forced |-> FALSE,
                  failure |-> FALSE]
    BY DEF InitTree
<1>7. guard \in BOOLEAN
    BY <1>5
<1>8. TreeTypeOK
    BY <1>2, <1>3, <1>5, <1>6, <1>7, PidsAssumption, TreeBoundsAssumption
    DEF TreeTypeOK, ShimPlaces
<1>9. TableShape /\ LedgerShape /\ OursOnly
    BY <1>3, <1>4, <1>5 DEF TableShape, LedgerShape, OursOnly
<1>10. EachObserved
    BY <1>3, <1>4, <1>5, <1>6 DEF EachObserved, Snapshot
<1> QED BY <1>8, <1>9, <1>10 DEF TreeInv

LEMMA TreeSteps ==
    ASSUME TreeInv, [NextTree]_treeVars
    PROVE  TreeInv'
<1>1. CASE \E p, q \in Pids : Fork(p, q)
    BY <1>1, ForkKeeps
<1>2. CASE \E p \in Pids : Foreign(p)
    BY <1>2, ForeignKeeps
<1>3. CASE \E p \in Pids : LeaveGroup(p)
    BY <1>3, LeaveGroupKeeps
<1>4. CASE \E p \in Pids : End(p)
    BY <1>4, EndKeeps
<1>5. CASE ShutdownSignal \/ Reap \/ Unguarded \/ Signalled
    BY <1>5, QuietStepsKeep
<1>6. CASE Observe
    BY <1>6, ObserveKeeps
<1>7. CASE SignalGroup
    BY <1>7, SignalGroupKeeps
<1>8. CASE DropGuard
    BY <1>8, DropGuardKeeps
<1>9. CASE \E s \in targets : SignalProcess(s)
    BY <1>9, SignalProcessKeeps
<1>10. CASE UNCHANGED treeVars
    <2>1. UNCHANGED <<world, table, starts, known, shim, targets, hit>>
        BY <1>10 DEF treeVars
    <2>2. EachObserved'
        BY <2>1 DEF TreeInv, EachObserved, Existing, Snapshot
    <2> QED BY <2>1, <2>2, ShimStepKeeps DEF TreeInv, TreeTypeOK
<1> QED BY <1>1, <1>2, <1>3, <1>4, <1>5, <1>6, <1>7, <1>8, <1>9, <1>10 DEF NextTree

(* The state of the supervision is always of its type. *)
THEOREM TreeTypeCorrect == TreeSpec => []TreeTypeOK
<1>1. TreeSpec => []TreeInv
    BY TreeInitially, TreeSteps, PTL DEF TreeSpec
<1>2. TreeInv => TreeTypeOK
    BY DEF TreeInv
<1> QED BY <1>1, <1>2, PTL

(* On Linux no signal of the Shim reaches a process of another program: numbers are used again
   and again, but what was looked at before a signal is what the pidfd holds (process.rs:389-397). *)
THEOREM LinuxForeignersSpared == TreeSpec => []LinuxSparesForeigners
<1>1. TreeSpec => []TreeInv
    BY TreeInitially, TreeSteps, PTL DEF TreeSpec
<1>2. TreeInv => LinuxSparesForeigners
    BY DEF TreeInv, OursOnly, LinuxSparesForeigners, ForeignUntouched
<1> QED BY <1>1, <1>2, PTL

(* When processes live until their children are observed, nothing the launched program forked is
   alive when the Shim reports its end (lib.rs:184-193): every process has a chain of older parents
   that ends in the ledger. *)
THEOREM ObservedTreeHasEnded == TreeSpec => []ObservedTreeEnds
<1>1. TreeSpec => []TreeInv
    BY TreeInitially, TreeSteps, PTL DEF TreeSpec
<1>2. TreeInv => ObservedTreeEnds
    BY DEF TreeInv, EachObserved, ObservedTreeEnds, NothingIsLeft
<1> QED BY <1>1, <1>2, PTL

=============================================================================
