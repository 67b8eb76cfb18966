--------------------------- MODULE MCSchedulerOrder ----------------------------
(* Instances of SchedulerOrder for TLC.                                        *)
EXTENDS SchedulerOrder, TLC

Symmetric == Permutations(Task)

RootAndPeers == (Owner \X (Promise \cup ExtPromise)) \cup ({Root} \X Task)

IdleOrHigh == {PRIORITY_IDLE, PRIORITY_HIGH}
Own == {OwnPriority}
===============================================================================
