---------------------------- MODULE MCAgentTrust ----------------------------
(***************************************************************************)
(* Instances of AgentTrust: a narrow and a full allowlist, the default key *)
(* and one it is rotated to.                                               *)
(***************************************************************************)
EXTENDS AgentTrust, TLC

CONSTANTS t1, t2, a1, route, budget, v1, v2, c1, c2

AllScopes == {route, budget}
NarrowAndFull == {{route}, {route, budget}}
Symmetry == Permutations(Threads) \cup Permutations(Certs)
=============================================================================
