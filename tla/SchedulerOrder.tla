---------------------------- MODULE SchedulerOrder -----------------------------
(* Scheduler with a history variable, for promises about the order in which    *)
(* continuations run.  It records steps and never influences one.              *)
EXTENDS Scheduler

VARIABLES
  owed      \* per owner, who its CompletePromise/FailPromise woke and has not run

ovars == <<vars, owed>>

(* The step resolves promise p from inside the run and suspends its completer. *)
Settles(p) ==
  /\ pc \in {"user", "effect"} /\ pc' = "drain"
  /\ status[p] = "pending" /\ status'[p] \in Terminal

WokenBy(p) == {waiters[p][i].owner : i \in Fired(p, status'[p])}

Dispatches == pc = "pop" /\ pc' = "user"

RecordOwed ==
  owed' = [o \in Owner |->
             IF Dispatches THEN owed[o] \ {cur'}
             ELSE IF o = cur THEN owed[o] \cup UNION {WokenBy(p) : p \in {p \in Promise : Settles(p)}}
             ELSE owed[o]]

OrderInit == Init /\ owed = [o \in Owner |-> {}]
OrderNext == Next /\ RecordOwed
OrderSpec == OrderInit /\ [][OrderNext]_ovars

-------------------------------------------------------------------------------
(* Who may be overtaken: a cancelled task never runs again, and a daemon waits *)
(* behind a shielded external wait.                                            *)
Excused(o) == IsCancelled(o) \/ (IsDaemon(o) /\ ExtPromise # {})

(* The tasks a resolution woke run before its completer resumes, unless they   *)
(* are excused: a publisher never gets ahead of the listeners it woke, which   *)
(* would lose its next event.                                                  *)
WokenRunFirst ==
  pc \in {"user", "effect"} => \A o \in owed[cur] : Excused(o)

===============================================================================
