---------------------------- MODULE MCAgentReplay ----------------------------
EXTENDS AgentReplay, TLC

(* Two agents one after the other, the same two side by side, and three    *)
(* one after the other.                                                    *)
Sequence == <<{"a"}, {"b"}>>
Siblings == <<{"a", "b"}>>
Long == <<{"a"}, {"b"}, {"c"}>>
SomeShapes == {Sequence, Siblings, Long}
RunsOf == (Sequence :> 3 @@ Long :> 3 @@ Siblings :> 2)
EditsOf == (Sequence :> 1 @@ Long :> 1 @@ Siblings :> 0)
=============================================================================
