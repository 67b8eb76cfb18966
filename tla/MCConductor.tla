----------------------------- MODULE MCConductor -----------------------------
EXTENDS Conductor, TLC

Parallel(agents, k) == [kind |-> "parallel", agents |-> agents, quorum |-> k]
Loop(agents) == [kind |-> "loop", agents |-> agents]

(* A join of two branches, a quorum of one of two, a loop of two rounds    *)
(* and an agent followed by a merge, both held at checkpoints.             *)
Join == <<Parallel({"a", "b"}, 2)>>
Quorum == <<Parallel({"a", "b"}, 1)>>
Rounds == <<Loop(<<"a", "b">>)>>
Merged == <<Parallel({"a"}, 1), [kind |-> "merge"]>>
SomePlans == {Join, Quorum, Rounds, Merged}
Held == {Rounds, Merged}
VerbsOf == (Join :> 1 @@ Quorum :> 1 @@ Rounds :> 2 @@ Merged :> 2)
=============================================================================
