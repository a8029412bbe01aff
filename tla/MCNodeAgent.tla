------------------------------ MODULE MCNodeAgent ------------------------------
(* TLC instance of NodeAgent and of the quotes that its attempts carry.      *)
(* Attempts may take longer than the interval, so abandoned handlers overlap *)
(* the attempts that follow.                                                 *)
EXTENDS AgentEvidence

MCSkews == {-1, 0, 4}
MCPcrLists == {<<>>, <<7>>, <<8>>, <<7, 8>>, <<8, 7>>, <<7, 7>>, <<7, 24>>}
================================================================================
