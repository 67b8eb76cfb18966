------------------------------ MODULE MCScheduler ------------------------------
(* Instances of Scheduler for TLC: the identifiers are model values of the     *)
(* cfg files, the relations between them are given here.                       *)
EXTENDS Scheduler, TLC

(* Ids are interchangeable: the specification never orders or names them.      *)
Symmetric == Permutations(Task) \cup Permutations(Promise)
               \cup Permutations(ExtPromise) \cup Permutations(Sem)

(* Waits without cycles: everybody for external promises, the root for tasks.  *)
AcyclicWait == (Owner \X ExtPromise) \cup ({Root} \X Task)

Idle == {PRIORITY_IDLE}
Normal == {PRIORITY_NORMAL}
Own == {OwnPriority}
OwnOrIdle == {OwnPriority, PRIORITY_IDLE}
===============================================================================
