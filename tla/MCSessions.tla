------------------------------ MODULE MCSessions ------------------------------
(***************************************************************************)
(* Instances of the components behind a Session, side by side: the owner of *)
(* the official backends, one Claude Session, the Thread of a Session with  *)
(* those of its Subagents, and the process tree of the shim.  A behaviour   *)
(* is one of the component that part names; the machine varies only in      *)
(* those of the tree.                                                       *)
(***************************************************************************)
EXTENDS OfficialRuntime, ClaudeSession, SubagentThreads, ProcessTree, TLC

CONSTANTS f1, f2

VARIABLE part

sessionsVars == <<part, officialVars, claudeVars, subagentVars, treeVars>>

InitSessions ==
    /\ part \in {"official", "claude", "subagents", "tree"}
    /\ InitOfficial /\ InitClaude /\ InitSubagents /\ InitTree
    /\ part = "tree" \/ world = [linux |-> TRUE, hides |-> FALSE]

NextSessions ==
    /\ UNCHANGED part
    /\ IF part = "official" THEN NextOfficial ELSE UNCHANGED officialVars
    /\ IF part = "claude" THEN NextClaude ELSE UNCHANGED claudeVars
    /\ IF part = "subagents" THEN NextSubagents ELSE UNCHANGED subagentVars
    /\ IF part = "tree" THEN NextTree ELSE UNCHANGED treeVars

SessionsSpec == InitSessions /\ [][NextSessions]_sessionsVars

SessionsSymmetry == Permutations(Frames)
=============================================================================
