---------------------------- MODULE MCHarnessBroker ----------------------------
(***************************************************************************)
(* Two Hosts over one broker, with the native Sessions they may open.      *)
(***************************************************************************)
EXTENDS HarnessBroker, TLC

CONSTANTS h1, h2, n1, n2

BrokerSymmetry == Permutations(Hosts)
=============================================================================
