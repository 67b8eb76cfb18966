------------------------------- MODULE SimEvents -------------------------------
(* doeff_events' event_handler installed around doeff_time's sim_time_handler:  *)
(* services that wait for a virtual time, publish, and listen.                  *)
EXTENDS SimTime

CONSTANTS
  Event, Type,   \* what is published, and the classes listeners register for
  Interests,     \* the sets of classes listeners register for
  IsA            \* [Event -> SUBSET Type]: the classes an event is an instance of

ASSUME EventAssumption == Interests \subseteq (SUBSET Type) \ {{}} /\ IsA \in [Event -> SUBSET Type]

VARIABLES
  listeners,   \* [type, id, task]: promise id of task is in the list of type
  todo,        \* per publisher, the matched promises it has not completed
  plain,       \* publishers whose last event matched no IDLE listener
  unheard      \* per publisher, those it woke that have not taken their turn

evars == <<listeners, todo, plain, unheard>>
vars == <<tvars, evars>>

Init ==
  /\ TimeInit /\ listeners = {}
  /\ todo = [t \in Task |-> {}] /\ plain = {}
  /\ unheard = [t \in Task |-> {}]

WaitForEvent(t, types) ==
  /\ Performs(t)
  /\ listeners' = listeners \cup [type : types, id : {nextId}, task : {t}]
  /\ owes' = [owes EXCEPT ![t] = nextId] /\ nextId' = nextId + 1
  /\ phase' = [phase EXCEPT ![t] = "listening"] /\ cur' = None
  /\ UNCHANGED <<ready, cancelled, prio, over, time, fired, todo, plain, unheard>>

(* _matching_promises: the promises in the lists of the event's classes, each   *)
(* once; the order of those lists is left open.                                 *)
Matching(e) == {[id |-> l.id, task |-> l.task] : l \in {l \in listeners : l.type \in IsA[e]}}

(* _remove_promises: out of every list, not only the matching one.              *)
Without_Bug(ps) ==                          \* the whole list of a matched promise
  {l \in listeners : \A p \in ps : \A m \in listeners : m.id = p.id => m.type # l.type}
Without_Late(ps) == listeners               \* left to the listeners' own turns
Without(ps) == {l \in listeners : \A p \in ps : l.id # p.id}

Publish(t, e) ==
  LET matched == Matching(e) IN
  /\ Performs(t)
  /\ listeners' = Without(matched)
  /\ todo' = [todo EXCEPT ![t] = matched]
  /\ plain' = IF \E p \in matched : prio[p.task] = IDLE THEN plain \ {t} ELSE plain \cup {t}
  /\ phase' = [phase EXCEPT ![t] = IF matched = {} THEN "run" ELSE "publishing"]
  /\ UNCHANGED <<ready, cur, cancelled, prio, owes, over, time, fired, nextId, unheard>>

(* One round of Publish's loop: CompletePromise(promise, event).                *)
Deliver(t) ==
  /\ cur = t /\ phase[t] = "publishing"
  /\ \E p \in todo[t] :
       /\ CompletePromise(t, p.id)
       /\ todo' = [todo EXCEPT ![t] = @ \ {p}]
       /\ unheard' = [unheard EXCEPT ![t] = @ \cup Waiter(p.id)]
       /\ phase' = [Woken(p.id) EXCEPT ![t] = IF todo'[t] = {} THEN "run" ELSE @]
  /\ UNCHANGED <<cancelled, prio, owes, over, time, nextId, listeners, plain, ops>>

(* WaitForEvent's finally, in the turn of the listener an event woke.           *)
ForgetHeard ==
  /\ listeners' = {l \in listeners : ~(l.task = cur' /\ phase[l.task] = "heard")}
  /\ unheard' = [t \in Task |-> unheard[t] \ {cur'}]

EventNext == \E t \in Task : \/ Deliver(t) \/ \E e \in Event : Publish(t, e)
                             \/ \E types \in Interests : WaitForEvent(t, types)

Next ==
  \/ EventNext
  \/ TimeNext /\ ForgetHeard /\ UNCHANGED <<todo, plain>>

Spec == Init /\ [][Next]_vars

-------------------------------------------------------------------------------
TypeOK ==
  /\ clock \in Times /\ driving \in BOOLEAN /\ due \in [Task -> Times]
  /\ queue \subseteq [time : Times, id : 1 .. nextId - 1, task : Task]
  /\ ready \in [Priority -> Seq(Task \cup {Driver})] /\ cur \in Task \cup {Driver, None}
  /\ phase \in [Task -> Phase] /\ cancelled \subseteq Task \ {Root}
  /\ prio \in [Task -> Priority] /\ owes \in [Task -> 0 .. nextId - 1]
  /\ fired \subseteq 1 .. nextId - 1 /\ nextId \in Nat /\ ops \in 0 .. MaxOps
  /\ over \in {"no", "returned", "deadlock"} /\ plain \subseteq Task
  /\ listeners \subseteq [type : Type, id : 1 .. nextId - 1, task : Task]
  /\ todo \in [Task -> SUBSET [id : 1 .. nextId - 1, task : Task]]
  /\ unheard \in [Task -> SUBSET Task]

Places(heap, w) == UNION {{p} \X {i \in DOMAIN heap[p] : heap[p][i] = w} : p \in Priority}
Turns(w) == Cardinality(Places(ready, w)) + (IF cur = w THEN 1 ELSE 0)
DriverServes == Turns(Driver) = (IF driving THEN 1 ELSE 0) /\ (queue # {} => driving)
TimeIsReached == over = "deadlock" => \A t \in Task : Live(t) => phase[t] # "sleeping"

(* The flag that keeps a second clock driver from being spawned is up exactly   *)
(* while one driver has a turn to come, and while a time is awaited it is up:   *)
(* the clock is neither forgotten nor driven twice.  So the scheduler finds     *)
(* nothing to run only when nobody waits for a time, whoever registered one     *)
(* while the driver was leaving.                                                *)
ClockServed == TypeOK /\ DriverServes /\ TimeIsReached

(* No promise is completed twice: what is listed, and what a publisher has yet  *)
(* to complete, is pending, and no two publishers hold the same promise.        *)
PromiseOnce ==
  /\ \A l \in listeners : phase[l.task] # "heard" => l.id \notin fired
  /\ \A t \in Task : \A p \in todo[t] :
       p.id \notin fired /\ \A u \in Task \ {t} : p \notin todo[u]

(* A live listener is registered for an event, or its publisher is about to     *)
(* wake it, once; only a publisher cancelled between two of its listeners       *)
(* strands one.                                                                 *)
NoneLeftBehind ==
  /\ PromiseOnce
  /\ \A t \in Task : Live(t) /\ phase[t] = "listening" =>
       \/ \E l \in listeners : l.id = owes[t]
       \/ \E u \in Task : phase[u] = "publishing" /\ [id |-> owes[t], task |-> t] \in todo[u]

(* A task above IDLE comes back from Delay, WaitUntil or ScheduleAt when the    *)
(* time it asked for has come, and before any other that waits for a later one. *)
OnTime ==
  [][\A t \in Task : phase[t] = "woken" /\ cur' = t /\ prio[t] # IDLE =>
       /\ clock >= due[t]
       /\ \A u \in Task : Live(u) /\ phase[u] = "sleeping" =>
            due[t] < due[u] \/ (due[t] = due[u] /\ owes[t] < owes[u])]_vars

(* Until those an event was published to have had their turn, its publisher     *)
(* does not publish again, so a listener that registers again in its turn       *)
(* misses none of its events, and the driver does not move the clock: they hear *)
(* it at the virtual time it was published at.  (An IDLE listener or publisher  *)
(* is no faster than the driver.)                                               *)
DeliveryFirst ==
  [][\A t \in Task :
       /\ (\E e \in Event : Publish(t, e)) => \A u \in unheard[t] : ~Live(u)
       /\ cur = Driver /\ queue' # queue /\ t \in plain /\ Live(t) /\ prio[t] # IDLE =>
            (\A p \in todo[t] : ~Live(p.task)) /\ (\A u \in unheard[t] : ~Live(u))]_vars
================================================================================
