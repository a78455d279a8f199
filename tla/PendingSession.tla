--------------------------- MODULE PendingSession ---------------------------
(***************************************************************************)
(* A Claude Session without history, as the rollback of an only Turn leaves  *)
(* it behind: a reservation on disk that any later wrapper may open, and     *)
(* that one of them claims before it starts the native CLI under the         *)
(* reserved id (packages/adapters/claude-code/src/pending-session.ts,        *)
(* claude-fork.ts, and the open, start, selection and close of               *)
(* claude-code-adapter.ts).                                                  *)
(*                                                                          *)
(* A wrapper is a process with an Adapter.  Wrappers share nothing but the   *)
(* files; each may die at any step, and its native process with it.          *)
(***************************************************************************)
EXTENDS Naturals, FiniteSets

CONSTANTS
    Wrappers,
    Configurations,   \* Model, Thinking option and Permission Mode, as one value
    SyncsFail,        \* a directory may fail to sync after its entries have changed
    MaxDeaths,        \* bound: wrappers that die
    MaxSelections     \* bound: configuration selections

ASSUME PendingAssumption ==
    Configurations # {} /\ SyncsFail \in BOOLEAN /\ MaxDeaths \in Nat /\ MaxSelections \in Nat

VARIABLES
    reservation,   \* the reserved directory, and whether the transcript has a message
    wrapper,       \* the Session of each wrapper
    native,        \* the CLI process of each wrapper, by the way it was started
    recorded,      \* the Host has recorded the Session's reference
    confirmed,     \* history: the configurations a reader may expect: the last one confirmed to a
                   \* caller, and those whose selection has been reported as failed since
    spent          \* bounds: deaths and selections

pendingVars == <<reservation, wrapper, native, recorded, confirmed, spent>>

None == "none"
NoSession == [phase |-> None, mode |-> "create", step |-> "idle", claimed |-> FALSE,
              submitted |-> FALSE, choice |-> None, task |-> None,
              seen |-> FALSE, failed |-> FALSE]

Reservations ==
    [at : {None, "directory", "written"}, started : BOOLEAN,
     configuration : Configurations \cup {None}, history : BOOLEAN]

ClaudeSessions ==
    [phase : {None, "open", "closing", "closed", "faulted"}, mode : {"create", "resume"},
     step : {"idle", "reserving", "checking", "opening", "claimed", "starting", "running"},
     claimed : BOOLEAN, submitted : BOOLEAN, choice : Configurations \cup {None},
     task : {None, "native", "save"}, seen : BOOLEAN, failed : BOOLEAN]

PendingTypeOK ==
    /\ reservation \in Reservations
    /\ wrapper \in [Wrappers -> ClaudeSessions]
    /\ native \in [Wrappers -> {None, "create", "resume"}]
    /\ recorded \in BOOLEAN /\ confirmed \subseteq Configurations
    /\ spent \in [deaths : 0 .. MaxDeaths, selections : 0 .. MaxSelections]

InitPending ==
    /\ reservation = [at |-> None, started |-> FALSE, configuration |-> None, history |-> FALSE]
    /\ wrapper = [w \in Wrappers |-> NoSession]
    /\ native = [w \in Wrappers |-> None]
    /\ recorded = FALSE /\ confirmed = {} /\ spent = [deaths |-> 0, selections |-> 0]

InStep(w, step) == wrapper[w].step = step
Phase(w, phase) == wrapper[w].phase = phase

(***************************************************************************)
(* Rollback of the only Turn: the reservation is made                       *)
(***************************************************************************)

MakeDirectory(w) ==
    /\ Phase(w, None) /\ InStep(w, "idle") /\ reservation.at = None
    /\ reservation' = [reservation EXCEPT !.at = "directory"]
    /\ wrapper' = [wrapper EXCEPT ![w].step = "reserving"]
    /\ UNCHANGED <<native, recorded, confirmed, spent>>

\* The reservation is written; or that fails, and its directory is removed again; or only the
\* sync of the directory fails, and nobody learns of it.
WriteReservation(w) ==
    /\ InStep(w, "reserving")
    /\ \/ \E c \in Configurations :
            /\ reservation' = [reservation EXCEPT !.at = "written", !.configuration = c]
            /\ wrapper' = [wrapper EXCEPT ![w].step = "checking"]
       \/ /\ \E left \in {None, "written"} : reservation' = [reservation EXCEPT !.at = left]
          /\ wrapper' = [wrapper EXCEPT ![w] = NoSession]
    /\ UNCHANGED <<native, recorded, confirmed, spent>>

\* The source's history is read once more: the reservation is used only when it has not changed.
CheckSource(w) ==
    /\ InStep(w, "checking")
    /\ \/ /\ wrapper' = [wrapper EXCEPT ![w].step = "idle", ![w].phase = "open"]
          /\ recorded' = TRUE /\ confirmed' = {reservation.configuration} /\ UNCHANGED reservation
       \/ /\ wrapper' = [wrapper EXCEPT ![w] = NoSession]
          /\ reservation' = [reservation EXCEPT !.at = None, !.configuration = None]
          /\ UNCHANGED <<recorded, confirmed>>
    /\ UNCHANGED <<native, spent>>

(***************************************************************************)
(* A later wrapper opens the Session                                        *)
(***************************************************************************)

\* The reservation and its claim are read first, the transcript after.
ReadReservation(w) ==
    /\ Phase(w, None) /\ InStep(w, "idle") /\ recorded /\ reservation.at = "written"
    /\ wrapper' = [wrapper EXCEPT ![w].step = "opening", ![w].seen = reservation.started]
    /\ UNCHANGED <<reservation, native, recorded, confirmed, spent>>

DecideMode(w) ==
    /\ InStep(w, "opening")
    /\ wrapper' = [wrapper EXCEPT ![w] =
           IF ~@.seen /\ reservation.history THEN NoSession
           ELSE [NoSession EXCEPT !.phase = "open",
                                  !.mode = IF wrapper[w].seen THEN "resume" ELSE "create"]]
    /\ UNCHANGED <<reservation, native, recorded, confirmed, spent>>

(***************************************************************************)
(* Start of the native CLI                                                  *)
(***************************************************************************)

\* ensureTransport: a Session that is to be created is claimed first, by a file only one can make.
StartTransport(w) ==
    /\ Phase(w, "open") /\ InStep(w, "idle") /\ wrapper[w].task = None
    /\ IF wrapper[w].mode = "resume"
       THEN wrapper' = [wrapper EXCEPT ![w].step = "claimed"] /\ UNCHANGED reservation
       ELSE /\ ~reservation.started
            /\ reservation' = [reservation EXCEPT !.started = TRUE]
            /\ \/ wrapper' = [wrapper EXCEPT ![w].step = "claimed", ![w].claimed = TRUE]
               \/ SyncsFail /\ UNCHANGED wrapper
    /\ UNCHANGED <<native, recorded, confirmed, spent>>

\* releaseUnusedClaim
Claimed(w) == wrapper[w].claimed
Unused(w) == wrapper[w].claimed /\ ~wrapper[w].submitted
ReleaseUnused(w, session) ==
    IF Unused(w)
    THEN /\ reservation' = [reservation EXCEPT !.started = FALSE]
         /\ \/ wrapper' = [wrapper EXCEPT ![w] = [session EXCEPT !.claimed = FALSE,
                                                                 !.mode = "create"]]
            \/ SyncsFail /\ wrapper' = [wrapper EXCEPT ![w] = session]
    ELSE wrapper' = [wrapper EXCEPT ![w] = session] /\ UNCHANGED reservation

SpawnNative(w) ==
    /\ InStep(w, "claimed")
    /\ \/ /\ Phase(w, "open")
          /\ wrapper' = [wrapper EXCEPT ![w].step = "starting"]
          /\ native' = [native EXCEPT ![w] = wrapper[w].mode]
          /\ UNCHANGED reservation
       \/ /\ ~Phase(w, "open")
          /\ ReleaseUnused(w, [wrapper[w] EXCEPT !.step = "idle"]) /\ UNCHANGED native
    /\ UNCHANGED <<recorded, confirmed, spent>>

\* The CLI creates a Session only under a free id and resumes only one it has a transcript of.
\* The Turn that asked for the start is submitted in the same breath, unless the Session closes.
NativeStarted(w) ==
    /\ InStep(w, "starting") /\ native[w] # None
    /\ (native[w] = "resume") = reservation.history
    /\ wrapper' = [wrapper EXCEPT ![w].step = "running", ![w].mode = "resume",
                                  ![w].submitted = @ \/ Phase(w, "open")]
    /\ UNCHANGED <<reservation, native, recorded, confirmed, spent>>

\* A failed start closes the transport; one that cannot be closed faults the Session, which keeps
\* it.
NativeFails(w) ==
    /\ InStep(w, "starting")
    /\ \/ /\ native' = [native EXCEPT ![w] = None]
          /\ ReleaseUnused(w, [wrapper[w] EXCEPT !.step = "idle"])
       \/ /\ native[w] # None
          /\ wrapper' = [wrapper EXCEPT ![w].step = "running",
                                        ![w].phase = IF @ = "open" THEN "faulted" ELSE @]
          /\ UNCHANGED <<reservation, native>>
    /\ UNCHANGED <<recorded, confirmed, spent>>

WriteTranscript(w) ==
    /\ native[w] # None /\ wrapper[w].submitted /\ ~reservation.history
    /\ reservation' = [reservation EXCEPT !.history = TRUE]
    /\ UNCHANGED <<wrapper, native, recorded, confirmed, spent>>

\* hardCancel: the transport is given up and the next Turn resumes.
GiveUpTransport(w) ==
    /\ Phase(w, "open") /\ InStep(w, "running") /\ wrapper[w].submitted
    /\ \/ /\ native' = [native EXCEPT ![w] = None]
          /\ wrapper' = [wrapper EXCEPT ![w].step = "idle", ![w].mode = "resume"]
       \/ wrapper' = [wrapper EXCEPT ![w].phase = "faulted"] /\ UNCHANGED native
    /\ UNCHANGED <<reservation, recorded, confirmed, spent>>

(***************************************************************************)
(* Selections                                                               *)
(***************************************************************************)

\* A running CLI is told first, then the reservation is written anew.
SelectConfiguration(w, c) ==
    /\ Phase(w, "open") /\ wrapper[w].step \in {"idle", "running"} /\ wrapper[w].task = None
    /\ spent.selections < MaxSelections
    /\ spent' = [spent EXCEPT !.selections = @ + 1]
    /\ wrapper' = [wrapper EXCEPT ![w].choice = c,
                                  ![w].task = IF InStep(w, "running") THEN "native" ELSE "save"]
    /\ UNCHANGED <<reservation, native, recorded, confirmed>>

SetNative(w) ==
    /\ wrapper[w].task = "native"
    /\ \/ wrapper' = [wrapper EXCEPT ![w].task = "save"]
       \/ wrapper' = [wrapper EXCEPT ![w].task = None, ![w].choice = None]
    /\ UNCHANGED <<reservation, native, recorded, confirmed, spent>>

\* saveConfiguration writes beside the reservation, syncs and renames.
Faulted(w) == IF Phase(w, "open") THEN "faulted" ELSE wrapper[w].phase
SaveFails(w, written) ==
    /\ reservation' = [reservation EXCEPT !.configuration = written]
    /\ confirmed' = confirmed \cup {wrapper[w].choice}
    /\ wrapper' = [wrapper EXCEPT ![w].task = None, ![w].choice = None,
                                  ![w].phase = Faulted(w)]
SaveConfiguration(w) ==
    /\ wrapper[w].task = "save"
    /\ \/ /\ reservation' = [reservation EXCEPT !.configuration = wrapper[w].choice]
          /\ confirmed' = {wrapper[w].choice}
          /\ wrapper' = [wrapper EXCEPT ![w].task = None, ![w].choice = None]
       \/ \E written \in {reservation.configuration, wrapper[w].choice} : SaveFails(w, written)
    /\ UNCHANGED <<native, recorded, spent>>

(***************************************************************************)
(* Close, fault and death                                                   *)
(***************************************************************************)

\* A faulted Session closes its transport in the background and stays owned until it is closed.
FaultCloses(w) ==
    /\ Phase(w, "faulted") /\ native[w] # None /\ native' = [native EXCEPT ![w] = None]
    /\ UNCHANGED <<reservation, wrapper, recorded, confirmed, spent>>

BeginClose(w) ==
    /\ wrapper[w].phase \in {"open", "faulted"}
    /\ wrapper' = [wrapper EXCEPT ![w].phase = "closing"]
    /\ UNCHANGED <<reservation, native, recorded, confirmed, spent>>

\* The transport, a selection and a start that still run are each given time to settle.
CloseTransport(w) ==
    /\ Phase(w, "closing") /\ native[w] # None /\ ~wrapper[w].failed
    /\ \/ native' = [native EXCEPT ![w] = None] /\ UNCHANGED wrapper
       \/ wrapper' = [wrapper EXCEPT ![w].failed = TRUE] /\ UNCHANGED native
    /\ UNCHANGED <<reservation, recorded, confirmed, spent>>

InFlight(w) == wrapper[w].task # None \/ wrapper[w].step \in {"claimed", "starting"}
CloseTimesOut(w) ==
    /\ Phase(w, "closing") /\ InFlight(w) /\ ~wrapper[w].failed
    /\ wrapper' = [wrapper EXCEPT ![w].failed = TRUE]
    /\ UNCHANGED <<reservation, native, recorded, confirmed, spent>>

FinishCloseAnyway(w) ==
    /\ Phase(w, "closing")
    /\ wrapper[w].failed \/ (native[w] = None /\ ~InFlight(w))
    /\ ReleaseUnused(w, [wrapper[w] EXCEPT !.phase = "closed"])
    /\ UNCHANGED <<native, recorded, confirmed, spent>>
FinishClose(w) ==
    /\ Phase(w, "closing")
    /\ \/ /\ wrapper[w].failed
          /\ wrapper' = [wrapper EXCEPT ![w].phase = "closed", ![w].failed = FALSE]
          /\ UNCHANGED reservation
       \/ /\ ~wrapper[w].failed /\ native[w] = None /\ ~InFlight(w)
          /\ ReleaseUnused(w, [wrapper[w] EXCEPT !.phase = "closed"])
    /\ UNCHANGED <<native, recorded, confirmed, spent>>

\* A wrapper that has closed its Session may open it again.
ForgetSession(w) ==
    /\ Phase(w, "closed") /\ native[w] = None /\ ~InFlight(w)
    /\ wrapper' = [wrapper EXCEPT ![w] = NoSession]
    /\ UNCHANGED <<reservation, native, recorded, confirmed, spent>>

WrapperDies(w) ==
    /\ spent.deaths < MaxDeaths /\ wrapper[w] # NoSession
    /\ spent' = [spent EXCEPT !.deaths = @ + 1]
    /\ wrapper' = [wrapper EXCEPT ![w] = NoSession] /\ native' = [native EXCEPT ![w] = None]
    /\ UNCHANGED <<reservation, recorded, confirmed>>

NextPending ==
    \E w \in Wrappers :
        \/ MakeDirectory(w) \/ WriteReservation(w) \/ CheckSource(w)
        \/ ReadReservation(w) \/ DecideMode(w)
        \/ StartTransport(w) \/ SpawnNative(w) \/ NativeStarted(w) \/ NativeFails(w)
        \/ WriteTranscript(w) \/ GiveUpTransport(w)
        \/ \E c \in Configurations : SelectConfiguration(w, c)
        \/ SetNative(w) \/ SaveConfiguration(w)
        \/ FaultCloses(w) \/ BeginClose(w) \/ CloseTransport(w) \/ CloseTimesOut(w)
        \/ FinishClose(w) \/ ForgetSession(w) \/ WrapperDies(w)

PendingSpec == InitPending /\ [][NextPending]_pendingVars

(***************************************************************************)
(* Properties                                                               *)
(***************************************************************************)

\* At most one wrapper holds the claim, only its CLI creates the Session, and the claim is there as
\* long as that CLI may be: it is released only after a proven end (pending-session.ts:161, 171).
OneCreator ==
    /\ \A v, w \in Wrappers : Claimed(v) /\ Claimed(w) => v = w
    /\ \A w \in Wrappers : native[w] = "create" => Claimed(w)
    /\ \A w \in Wrappers : Claimed(w) => reservation.started

\* A Session that has history keeps its claim, so a later wrapper resumes it and never finds
\* history where it expects none (claude-code-adapter.ts:3103).
HistoryIsClaimed == reservation.history => reservation.started

\* A recorded reference can be read, with a configuration its callers know of.
ReservationIsReadable ==
    recorded => reservation.at = "written" /\ reservation.configuration \in confirmed

\* A claimed Session without history has a claimant that may still start or release it.  Not so
\* once the claimant has died, or could not prove its transport's end.
UnusedIsStartable ==
    reservation.started /\ ~reservation.history =>
        \E w \in Wrappers : Claimed(w) /\ (Phase(w, "closed") => InFlight(w))
=============================================================================
