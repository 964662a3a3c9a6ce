---------------------------- MODULE MCNodeItems ----------------------------
(* Two workers serving the same chat session: one with two items, "Continue *)
(* On Fail" and the Agent Plane, one with a single item and neither.        *)
EXTENDS NodeItems, TLC

CONSTANTS w1, w2

MCItems == w1 :> 2 @@ w2 :> 1
=============================================================================
