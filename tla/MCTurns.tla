------------------------------- MODULE MCTurns -------------------------------
(***************************************************************************)
(* Instances of the components that run work, side by side: the Turns of a  *)
(* Thread in the Host, and the broker whose native Sessions two Hosts open. *)
(* A behaviour is one of the component that part names.                     *)
(***************************************************************************)
EXTENDS MCExternalTurns, HarnessBroker

CONSTANTS h1, h2, n1, n2

VARIABLE part

workVars == <<part, vars, brokerVars>>

InitWork == part \in {"turns", "broker"} /\ Init /\ InitBroker

NextWork ==
    \/ part = "turns" /\ NextTurns /\ UNCHANGED <<part, brokerVars>>
    \/ part = "broker" /\ NextBroker /\ UNCHANGED <<part, vars>>

WorkSpec == InitWork /\ [][NextWork]_workVars

WorkSymmetry == TurnsSymmetry \cup Permutations(Hosts)
=============================================================================
