------------------------------ MODULE MCDesktop ------------------------------
(***************************************************************************)
(* Instances of the two halves of the hot attachment, side by side: the      *)
(* controller in the menu process and the bridge inside the Desktop.  A      *)
(* behaviour is one of the component that part names.                        *)
(***************************************************************************)
EXTENDS HotAttach, DesktopBridge

CONSTANTS s1, s2, s3, r1, r2, c1

VARIABLE part

attachmentVars == <<part, vars, bridgeVars>>

InitDesktop == part \in {"controller", "bridge"} /\ Init /\ InitBridge

NextDesktop ==
    \/ part = "controller" /\ Next /\ UNCHANGED <<part, bridgeVars>>
    \/ part = "bridge" /\ NextBridge /\ UNCHANGED <<part, vars>>

DesktopSpec == InitDesktop /\ [][NextDesktop]_attachmentVars

DesktopSymmetry == Permutations(Sessions) \cup Permutations(Requests)
=============================================================================
