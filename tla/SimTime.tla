-------------------------------- MODULE SimTime --------------------------------
(* doeff_time's sim_time_handler: Delay, WaitUntil, ScheduleAt and SetTime over *)
(* a virtual clock that one idle-priority driver task advances.  The scheduler  *)
(* is what its clients see of it (module Scheduler has the whole of it): a      *)
(* queue per priority, one turn at a time, Spawn, Wait and CompletePromise.     *)
(* A Tell changes no state: the writer it is forwarded to answers at once.      *)
EXTENDS Naturals, FiniteSets, Sequences, FiniteSetsExt

CONSTANTS
  Task,      \* the root body and the tasks it may spawn
  Root,      \* the root body
  Driver,    \* the clock driver, not a user task
  None,      \* no turn is being taken
  Start,     \* start_time of the handler
  Priorities,\* bound: the priorities tasks are spawned with
  MaxTime,   \* bound: times are 0 .. MaxTime
  MaxOps     \* bound: effects the user's tasks perform in one run

ASSUME TaskAssumption == Root \in Task /\ Driver \notin Task /\ None \notin Task \cup {Driver}
ASSUME BoundAssumption ==
  MaxTime \in Nat /\ MaxOps \in Nat /\ Start \in 0 .. MaxTime /\ Priorities \subseteq {0, 10, 20}

VARIABLES
  clock,     \* _clock.current_time
  queue,     \* _time_queue: [time, id, task], task waiting on promise id
  driving,   \* _driver_running
  fired,     \* ids of the completed promises
  ready,     \* the scheduler's ready heap: a queue per priority
  cur,       \* whose turn it is
  phase,     \* where each task is, see Phase
  cancelled, \* the tasks a Cancel reached before they ended
  prio,      \* a task's priority
  due,       \* the time a deferred or waiting task is to run at
  owes,      \* the promise a task waits on or is about to
  nextId,    \* the next promise
  ops, over  \* effects performed; how the run ended

turns == <<ready, cur, phase, cancelled, prio, owes, over>>
time == <<clock, queue, driving, due>>
tvars == <<turns, time, fired, nextId, ops>>

IDLE == 0
NORMAL == 10
HIGH == 20
Priority == {IDLE, NORMAL, HIGH}
Phase == {"unborn", "run", "deferred", "arming", "sleeping", "woken", "listening",
          "heard", "publishing", "ended"}
Times == 0 .. MaxTime
Live(t) == phase[t] \notin {"unborn", "ended"} /\ t \notin cancelled

TimeInit ==
  /\ clock = Start /\ queue = {} /\ driving = FALSE /\ due = [t \in Task |-> 0]
  /\ ready = [p \in Priority |-> <<>>] /\ cur = Root /\ over = "no"
  /\ phase = [t \in Task |-> IF t = Root THEN "run" ELSE "unborn"]
  /\ cancelled = {} /\ prio = [t \in Task |-> NORMAL] /\ owes = [t \in Task |-> 0]
  /\ fired = {} /\ nextId = 1 /\ ops = 0

-------------------------------------------------------------------------------
(* The scheduler.                                                              *)

PrioOf(w) == IF w = Driver THEN IDLE ELSE prio[w]
Queued(heap, w, p) == [heap EXCEPT ![p] = Append(@, w)]

(* The caller performs an effect of its program.                               *)
Performs(t) ==
  /\ cur = t /\ phase[t] = "run" /\ over = "no"
  /\ ops < MaxOps /\ ops' = ops + 1

Pick ==
  LET p == Max({q \in Priority : ready[q] # <<>>})
      w == Head(ready[p])
  IN /\ cur = None /\ over = "no" /\ \E q \in Priority : ready[q] # <<>>
     /\ ready' = [ready EXCEPT ![p] = Tail(@)]
     /\ cur' = IF w \in cancelled THEN None ELSE w
     /\ phase' = [t \in Task |-> IF t = w /\ phase[t] \in {"woken", "heard"} THEN "run"
                                ELSE phase[t]]
     /\ UNCHANGED <<cancelled, prio, owes, over, time, fired, nextId, ops>>

DeclareDeadlock ==
  /\ cur = None /\ over = "no" /\ \A q \in Priority : ready[q] = <<>>
  /\ over' = "deadlock"
  /\ UNCHANGED <<ready, cur, phase, cancelled, prio, owes, time, fired, nextId, ops>>

Unborn == {u \in Task : phase[u] = "unborn"}
Fresh == CHOOSE u \in Unborn : TRUE
Born(t, p, start) ==
  /\ Performs(t) /\ Unborn # {}
  /\ phase' = [phase EXCEPT ![Fresh] = start] /\ prio' = [prio EXCEPT ![Fresh] = p]
  /\ ready' = Queued(Queued(ready, Fresh, p), t, prio[t]) /\ cur' = None

Spawn(t, p) ==
  /\ Born(t, p, "run")
  /\ UNCHANGED <<cancelled, owes, over, time, fired, nextId>>

Cancel(t, u) ==
  /\ Performs(t) /\ u \notin {t, Root} /\ Live(u)
  /\ cancelled' = cancelled \cup {u}
  /\ UNCHANGED <<ready, cur, phase, prio, owes, over, time, fired, nextId>>

End(t) ==
  /\ cur = t /\ phase[t] = "run" /\ over = "no"
  /\ phase' = [phase EXCEPT ![t] = "ended"] /\ cur' = None
  /\ over' = IF t = Root THEN "returned" ELSE over
  /\ UNCHANGED <<ready, cancelled, prio, owes, time, fired, nextId, ops>>

(* CompletePromise by w: the waiter, if one is parked (cancelled or not), is    *)
(* queued at its priority and w behind it at the lower of the two.              *)
Waiter(id) == {t \in Task : owes[t] = id /\ phase[t] \in {"sleeping", "listening"}}
Woken(id) == [t \in Task |-> IF t \notin Waiter(id) THEN phase[t]
                             ELSE IF phase[t] = "sleeping" THEN "woken" ELSE "heard"]
CompleterPrio_Own(w, id) == PrioOf(w)       \* those it wakes are not considered
CompleterPrio(w, id) == Min({PrioOf(w)} \cup {prio[t] : t \in Waiter(id)})
CompletePromise(w, id) ==
  LET woken == Waiter(id)
      heap == IF woken = {} THEN ready
              ELSE LET t == CHOOSE t \in woken : TRUE IN Queued(ready, t, prio[t])
  IN /\ fired' = fired \cup {id}
     /\ ready' = Queued(heap, w, CompleterPrio(w, id)) /\ cur' = None

-------------------------------------------------------------------------------
(* The time handler.                                                           *)

(* _ensure_clock_driver: the flag is set before Spawn gives up the turn, the   *)
(* performer is queued behind the new driver.                                  *)
NextId == nextId + 1
EnsureDriver(t) ==
  /\ driving' = TRUE
  /\ ready' = Queued(Queued(ready, Driver, IDLE), t, prio[t]) /\ cur' = None

(* _wait_for_time, up to the point where the task gives up its turn.           *)
WaitForTime(t, target) ==
  /\ queue' = queue \cup {[time |-> target, id |-> nextId, task |-> t]}
  /\ owes' = [owes EXCEPT ![t] = nextId] /\ nextId' = NextId
  /\ IF driving
     THEN /\ phase' = [phase EXCEPT ![t] = "sleeping"]
          /\ cur' = None /\ UNCHANGED <<ready, driving>>
     ELSE phase' = [phase EXCEPT ![t] = "arming"] /\ EnsureDriver(t)
  /\ due' = [due EXCEPT ![t] = target]
  /\ UNCHANGED <<clock, cancelled, prio, fired, over>>

(* The rest of it: Wait(promise.future) after the spawned driver was queued.   *)
Arm(t) ==
  /\ cur = t /\ phase[t] = "arming"
  /\ IF owes[t] \in fired
     THEN phase' = [phase EXCEPT ![t] = "run"] /\ UNCHANGED cur
     ELSE phase' = [phase EXCEPT ![t] = "sleeping"] /\ cur' = None
  /\ UNCHANGED <<ready, cancelled, prio, owes, over, time, fired, nextId, ops>>

Delay(t, d) == Performs(t) /\ clock + d \in Times /\ WaitForTime(t, clock + d)
WaitUntil(t, x) == Performs(t) /\ WaitForTime(t, Max({clock, x}))

ScheduleAt(t, x) ==
  /\ Born(t, NORMAL, "deferred") /\ due' = [due EXCEPT ![Fresh] = x]
  /\ UNCHANGED <<cancelled, owes, over, clock, queue, driving, fired, nextId>>

StartDeferred(t) ==
  cur = t /\ phase[t] = "deferred" /\ WaitForTime(t, due[t]) /\ UNCHANGED ops

SetTime(t, x) ==
  /\ Performs(t) /\ clock' = x
  /\ IF queue # {} /\ ~driving THEN EnsureDriver(t) ELSE UNCHANGED <<ready, cur, driving>>
  /\ UNCHANGED <<phase, cancelled, prio, owes, over, queue, due, fired, nextId>>

(* The clock driver's turn, at its start or after CompletePromise: both are at *)
(* the head of its loop.                                                       *)
Earlier_Bug(e, f) == e.id <= f.id           \* first registered, not earliest
Earlier(e, f) == e.time < f.time \/ (e.time = f.time /\ e.id <= f.id)
Earliest == CHOOSE e \in queue : \A f \in queue : Earlier(e, f)
DriverLeaves_Bug ==                         \* the flag stays up
  cur = Driver /\ queue = {} /\ cur' = None /\ UNCHANGED <<driving, ready>>
DriverLeaves ==
  cur = Driver /\ queue = {} /\ cur' = None /\ driving' = FALSE /\ UNCHANGED ready

DriverEnds ==
  /\ DriverLeaves
  /\ UNCHANGED <<clock, queue, due, phase, cancelled, prio, owes, over, fired,
                 nextId, ops>>

Advance ==
  /\ cur = Driver /\ queue # {} /\ over = "no"
  /\ queue' = queue \ {Earliest} /\ clock' = Max({clock, Earliest.time})
  /\ CompletePromise(Driver, Earliest.id)
  /\ phase' = Woken(Earliest.id)
  /\ UNCHANGED <<driving, due, cancelled, prio, owes, over, nextId, ops>>

TimeNext ==
  \/ Pick \/ DeclareDeadlock \/ DriverEnds \/ Advance
  \/ \E t \in Task :
       \/ End(t) \/ Arm(t) \/ StartDeferred(t)
       \/ \E x \in Times : Delay(t, x) \/ WaitUntil(t, x) \/ ScheduleAt(t, x) \/ SetTime(t, x)
       \/ \E u \in Task : Cancel(t, u)
       \/ \E p \in Priorities : Spawn(t, p)
================================================================================
