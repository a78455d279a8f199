--------------------------- MODULE MCExternalTurns ---------------------------
(***************************************************************************)
(* Instances of ExternalTurns.  TurnsSpec joins two: three requests of the   *)
(* Desktop beside one queued submission, and two requests beside two         *)
(* submissions and an injected text.                                         *)
(***************************************************************************)
EXTENDS ExternalTurns, TLC

CONSTANTS r1, r2, r3, s1, s2, a1, c1

NextTurns ==
    /\ Next
    /\ \/ Cardinality(added') <= 1 /\ \A c \in Contexts : context'[c] = "absent"
       \/ Cardinality({r \in Requests : pc'[r] # "unsent"}) <= 2

TurnsSpec == Init /\ [][NextTurns]_vars

RequestSymmetry == Permutations({r1, r2, r3})
TurnsSymmetry == RequestSymmetry \cup Permutations(Subs)
=============================================================================
