------------------------------- MODULE MCFiberVM -------------------------------
(* Instances of FiberVM for TLC.                                               *)
EXTENDS FiberVM, TLC

(* The slots are interchangeable.                                              *)
AnyRank == [i \in Slot |-> 0]
Names == Permutations(Kont) \cup Permutations(Slot)

(* Once a continuation has outlived its run, the instance is smaller: three    *)
(* slots between arena and chains, and two continuations.                      *)
SmallOnceStale ==
  (\E k \in Kont : chain[k].stale) =>
    /\ Cardinality({i \in Slot : slot[i] # "absent"} \cup UNION {chain[k].ids : k \in Kont}) <= 3
    /\ Cardinality({k \in Kont : kont[k] # "unused"}) <= 2
===============================================================================
