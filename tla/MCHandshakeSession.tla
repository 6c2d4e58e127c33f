------------------------- MODULE MCHandshakeSession -------------------------
(***************************************************************************)
(* Instances of HandshakeSession: the client's token covers all but the    *)
(* commerce agent; another one covers everything, but was issued for       *)
(* another agent.                                                          *)
(***************************************************************************)
EXTENDS HandshakeSession, TLC

CONSTANTS t1, t2, own, foreign

AllScopes == {"preferences", "route_plan", "wait_time_alert", "policy_check",
              "session_commit", "safety_notice"}
ScopeOf == (own :> AllScopes \ {"policy_check"}) @@ (foreign :> AllScopes)
Declared == {{"route_plan"}, {"policy_check"}}
Symmetry == Permutations(Threads)
=============================================================================
