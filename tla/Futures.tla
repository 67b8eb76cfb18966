-------------------------------- MODULE Futures --------------------------------
(* What the scheduler promises about tasks, promises and external promises,    *)
(* with no heap, registrations or permits: cells that are written once, and    *)
(* owners that wait for one of a set of cells or for all of them.              *)
EXTENDS FiniteSets

CONSTANTS
  Owner,     \* who waits
  Waitable   \* what is waited for; a task is both

VARIABLES
  outcome,   \* per waitable, its state
  waiting    \* per owner, what it waits for

fvars == <<outcome, waiting>>

Outcome == {"completed", "failed", "cancelled"}
Idle == [mode |-> "none", keys |-> {}]
Waiting == [mode : {"any", "all"}, keys : SUBSET Waitable] \cup {Idle}

Init ==
  /\ outcome = [k \in Waitable |-> "unborn"]
  /\ waiting = [o \in Owner |-> Idle]

Awaited == UNION {waiting[o].keys : o \in Owner}

(* The outcomes W are forgotten: nobody can ask for them any more.             *)
Forgotten(W) == [k \in Waitable |-> IF k \in W THEN "gone" ELSE outcome[k]]
Forgettable(W) == \A k \in W : outcome[k] \in Outcome

Create(k, W) ==
  /\ outcome[k] = "unborn" /\ Forgettable(W)
  /\ outcome' = [Forgotten(W) EXCEPT ![k] = "pending"]
  /\ UNCHANGED waiting

Forget(W) == Forgettable(W) /\ outcome' = Forgotten(W) /\ UNCHANGED waiting

Block(o, mode, keys) ==
  /\ waiting[o] = Idle
  /\ keys # {} /\ \A k \in keys : outcome[k] = "pending"
  /\ waiting' = [waiting EXCEPT ![o] = [mode |-> mode, keys |-> keys]]
  /\ UNCHANGED outcome

(* The wait w after k got the outcome st: over for one of several keys, for a  *)
(* failure and for the last key, one key shorter otherwise.                    *)
AfterSettle(w, k, st) ==
  IF k \notin w.keys THEN w
  ELSE IF w.mode = "any" \/ st # "completed" \/ w.keys = {k} THEN Idle
  ELSE [w EXCEPT !.keys = @ \ {k}]

(* A cancelled owner waits for nothing any more.                               *)
Settle(k, st) ==
  /\ outcome[k] = "pending"
  /\ outcome' = [outcome EXCEPT ![k] = st]
  /\ waiting' = [o \in Owner |-> IF o = k /\ st = "cancelled" THEN Idle
                                 ELSE AfterSettle(waiting[o], k, st)]

Next ==
  \/ \E W \in SUBSET Waitable : Forget(W) \/ \E k \in Waitable : Create(k, W)
  \/ \E k \in Waitable, st \in Outcome : Settle(k, st)
  \/ \E o \in Owner, mode \in {"any", "all"}, keys \in SUBSET Waitable :
        Block(o, mode, keys)

Spec == Init /\ [][Next]_fvars

-------------------------------------------------------------------------------
TypeOK ==
  /\ outcome \in [Waitable -> {"unborn", "pending", "gone"} \cup Outcome]
  /\ waiting \in [Owner -> Waiting]

(* No lost wakeup: whoever waits, waits for cells that are all undecided.      *)
NoLostWakeup == \A o \in Owner : \A k \in waiting[o].keys : outcome[k] = "pending"
===============================================================================
