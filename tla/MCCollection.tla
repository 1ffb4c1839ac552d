---------------------------- MODULE MCCollection ----------------------------
(* Small instances of Collection for TLC.                                  *)
EXTENDS Collection, TLC

CONSTANTS i1, j1, a1, a2

MCIncidentOf == [j \in Job |-> i1]
MCAgentOf    == [j \in Job |-> IF j = j1 THEN a1 ELSE a2]

Sessions == Permutations(Session)
=============================================================================
