------------------------------- MODULE MCLive -------------------------------
(***************************************************************************)
(* What must eventually happen in four components, side by side.  A          *)
(* behaviour is one of the component that part names, under the fairness of  *)
(* that component.                                                           *)
(***************************************************************************)
EXTENDS HotAttach, DesktopBridge, OfficialRuntime, ClaudeSession

CONSTANTS s1, d1, f1, a1, t1

VARIABLE part

allVars == <<part, vars, bridgeVars, officialVars, claudeVars>>

InitLive ==
    /\ part \in {"controller", "bridge", "official", "claude"}
    /\ Init /\ InitBridge /\ InitOfficial /\ InitClaude

NextLive ==
    \/ part = "controller" /\ Next /\ UNCHANGED <<part, bridgeVars, officialVars, claudeVars>>
    \/ part = "bridge" /\ NextBridge /\ UNCHANGED <<part, vars, officialVars, claudeVars>>
    \/ part = "official" /\ NextOfficial /\ UNCHANGED <<part, vars, bridgeVars, claudeVars>>
    \/ part = "claude" /\ NextClaude /\ UNCHANGED <<part, vars, bridgeVars, officialVars>>

LiveSpec ==
    /\ InitLive /\ [][NextLive]_allVars
    /\ \/ part = "controller" /\ Fairness
       \/ part = "bridge" /\ BridgeFairness
       \/ part = "official" /\ OfficialFairness
       \/ part = "claude" /\ ClaudeFairness
=============================================================================
