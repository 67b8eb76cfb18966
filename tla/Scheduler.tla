------------------------------- MODULE Scheduler -------------------------------
(* The cooperative scheduler of doeff: scheduler.py in doeff-core-effects.     *)
(*                                                                             *)
(* One program point (pc) is active at a time: user code of the owner cur, the *)
(* handler of the effect it performed, or the dispatch loop pick_next.  Only   *)
(* ExternalPromise.complete/fail runs beside it, on foreign threads, and only  *)
(* touches the thread-safe queue extq.  Effects that suspend their performer   *)
(* store its one-shot continuation in the ready heap, in a waiters entry, in a *)
(* Gather/Race state or in a semaphore queue; the model follows where it is.   *)
EXTENDS Integers, FiniteSets, Sequences, SequencesExt

CONSTANTS
  Root,             \* the owner of the root body (owner_tid None in the code)
  Task,             \* task ids
  Promise,          \* ids of internal promises
  ExtPromise,       \* ids of external promises
  Sem,              \* semaphore ids
  None,             \* no waitable, no semaphore
  Ops,              \* the kinds of effects the user programs perform
  SpawnPriorities,  \* priorities passed to Spawn
  WaitPriorities,   \* priorities passed to Wait, OwnPriority for None
  DaemonFlags,      \* values of daemon passed to Spawn
  PermitCounts,     \* values of permits passed to CreateSemaphore
  MayWait,          \* pairs <<owner, waitable>>: who may wait for what
  Droppable,        \* waitables whose handles may die before the run ends
  MaxKeys,          \* bound on the arguments of one Gather or Race
  MaxPuts,          \* bound on complete/fail calls per external promise
  Bracketed         \* TRUE: programs release only permits they hold

PRIORITY_IDLE == 0
PRIORITY_EXTERNAL_WAIT == 5
PRIORITY_NORMAL == 10
PRIORITY_HIGH == 20
Priority == {PRIORITY_IDLE, PRIORITY_EXTERNAL_WAIT, PRIORITY_NORMAL, PRIORITY_HIGH}
OwnPriority == -1

Owner == Task \cup {Root}
Waitable == Task \cup Promise \cup ExtPromise

ASSUME DistinctIds ==
  /\ Root \notin Waitable \cup Sem \cup {None}
  /\ None \notin Waitable \cup Sem
  /\ Task \cap (Promise \cup ExtPromise) = {}
  /\ Promise \cap ExtPromise = {}
  /\ Sem \cap Waitable = {}

ASSUME Parameters ==
  /\ SpawnPriorities \subseteq Priority
  /\ WaitPriorities \subseteq Priority \cup {OwnPriority}
  /\ DaemonFlags \subseteq BOOLEAN
  /\ PermitCounts \subseteq Nat \ {0}
  /\ MayWait \subseteq Owner \X Waitable
  /\ Droppable \subseteq Waitable
  /\ MaxKeys \in Nat /\ MaxPuts \in Nat /\ Bracketed \in BOOLEAN

VARIABLES
  status,      \* status of every task and promise
  meta,        \* priority and daemon flag a task was spawned with
  handles,     \* waitables some live Task, Promise or Future object denotes
  waiters,     \* per waitable, the registrations parked on it, oldest first
  join,        \* per owner, keys and remaining count of its open Gather/Race
  ready,       \* the heap: per priority, the queued entries in seq order
  held,        \* per priority, how many entries pick_next holds out of the heap
  permits, maxPermits,  \* per semaphore; maxPermits = 0 before its creation
  semWaiters,  \* per semaphore, the parked owners
  holders,     \* per semaphore, how many permits each owner is noted to hold
  extq,        \* completions put by foreign threads and not yet drained
  puts,        \* calls of complete/fail so far, for MaxPuts
  pc, cur      \* the active program point and the owner it runs for

objs == <<status, meta, handles>>
parked == <<waiters, join>>
heap == <<ready, held>>
sems == <<permits, maxPermits, semWaiters, holders>>
ext == <<extq, puts>>
vars == <<objs, parked, heap, sems, ext, pc, cur>>

Terminal == {"completed", "failed", "cancelled"}
Ended == {"returned", "warned", "raised", "deadlock", "none"}

(* A registration parked on a waitable.  wake is the priority at which its     *)
(* owner is queued, OwnPriority standing for None.                             *)
Registration == [type : {"wait", "wait_external", "gather", "race"},
                 owner : Owner, wake : Priority \cup {OwnPriority}]

(* An entry of the ready heap.  key is the semaphore of a sem_resume and the   *)
(* external promise of a wait_external placeholder.                            *)
Entry == [kind : {"new", "resume", "raise", "sem_resume", "wait_external"},
          owner : Owner, key : Waitable \cup Sem \cup {None}, claimed : BOOLEAN]

NoJoin == [keys |-> {}, remaining |-> 0]

Init ==
  /\ status = [w \in Waitable |-> "unborn"]
  /\ meta = [t \in Task |-> [priority |-> PRIORITY_NORMAL, daemon |-> FALSE]]
  /\ handles = {}
  /\ waiters = [w \in Waitable |-> <<>>]
  /\ join = [o \in Owner |-> NoJoin]
  /\ ready = [p \in Priority |-> <<>>]
  /\ held = [p \in Priority |-> 0]
  /\ permits = [s \in Sem |-> 0]
  /\ maxPermits = [s \in Sem |-> 0]
  /\ semWaiters = [s \in Sem |-> <<>>]
  /\ holders = [s \in Sem |-> [o \in Owner |-> 0]]
  /\ extq = <<>>
  /\ puts = [e \in ExtPromise |-> 0]
  /\ pc = "user"
  /\ cur = Root

-------------------------------------------------------------------------------
(* Owners and entries.                                                         *)

IsCancelled(o) == o \in Task /\ status[o] = "cancelled"
IsDaemon(o) == o \in Task /\ meta[o].daemon
TaskPriority(o) == IF o \in Task THEN meta[o].priority ELSE PRIORITY_NORMAL

MkEntry(kind, o) == [kind |-> kind, owner |-> o, key |-> None, claimed |-> FALSE]
Placeholder(o, e) ==
  [kind |-> "wait_external", owner |-> o, key |-> e, claimed |-> FALSE]

(* An entry that still runs something: placeholders never do, and an entry of  *)
(* a cancelled owner is dropped when it is popped.                             *)
Runnable(e) == e.kind # "wait_external" /\ ~IsCancelled(e.owner)

Enqueue(heapOf, e, p) == [heapOf EXCEPT ![p] = Append(@, e)]

(* The elements of s at the indices I, in order.                               *)
Subsequence(s, I) ==
  [n \in 1..Cardinality(I) |->
     s[CHOOSE i \in I : Cardinality({j \in I : j < i}) = n - 1]]

(* waiters[k][i] is the first, the last, registration of its owner on k.       *)
SameOwner(k, i) == {j \in DOMAIN waiters[k] : waiters[k][j].owner = waiters[k][i].owner}
FirstOfOwner(k, i) == \A j \in SameOwner(k, i) : i <= j
LastOfOwner(k, i) == \A j \in SameOwner(k, i) : j <= i

(* The indices of the registrations of o's Gather on k.                        *)
GatheredOn(k, o) ==
  {i \in DOMAIN waiters[k] : waiters[k][i].owner = o /\ waiters[k][i].type = "gather"}

(* The indices of the waiters parked on k that are queued when k reaches st: a *)
(* Wait always is; a Race by its first registration, a Gather by its first one *)
(* when k did not complete, else by the one that brings remaining to zero.     *)
Fired(k, st) ==
  LET GatherFires(i) ==
        IF st # "completed" THEN FirstOfOwner(k, i)
        ELSE /\ LastOfOwner(k, i)
             /\ Cardinality(SameOwner(k, i)) = join[waiters[k][i].owner].remaining
  IN  {i \in DOMAIN waiters[k] :
         CASE waiters[k][i].type = "race"   -> FirstOfOwner(k, i)
           [] waiters[k][i].type = "gather" -> GatherFires(i)
           [] OTHER -> TRUE}

(* Owners whose Race, or whose Gather on a failure, is decided by k reaching   *)
(* st: their registrations on the other keys are removed.                      *)
Decided_Bug(k, st) ==                \* a failing Gather leaves its registrations
  {waiters[k][i].owner : i \in {i \in DOMAIN waiters[k] : waiters[k][i].type = "race"}}
Decided(k, st) ==
  {waiters[k][i].owner : i \in
     {i \in DOMAIN waiters[k] : \/ waiters[k][i].type = "race"
                                \/ waiters[k][i].type = "gather" /\ st # "completed"}}

(* The indices of the fired registrations that are queued at priority p.       *)
WokenAt(k, st, p) ==
  {i \in Fired(k, st) :
     LET r == waiters[k][i]
     IN  p = IF r.wake = OwnPriority THEN TaskPriority(r.owner) ELSE r.wake}

WaitersAfter(k, st) ==
  LET Stays(r) == ~(r.type \in {"gather", "race"} /\ r.owner \in Decided(k, st))
  IN  [w \in Waitable |->
         IF w = k THEN <<>>
         ELSE IF \A i \in DOMAIN waiters[w] : Stays(waiters[w][i]) THEN waiters[w]
         ELSE Subsequence(waiters[w], {i \in DOMAIN waiters[w] : Stays(waiters[w][i])})]

JoinAfter_Bug(k, st) ==              \* the count does not go down
  [o \in Owner |-> IF o \in Decided(k, st) THEN NoJoin ELSE join[o]]
JoinAfter(k, st) ==
  LET Over(o) == \/ o \in Decided(k, st)
                 \/ /\ GatheredOn(k, o) # {}
                    /\ Cardinality(GatheredOn(k, o)) = join[o].remaining
  IN  [o \in Owner |->
         IF Over(o) THEN NoJoin
         ELSE [join[o] EXCEPT !.remaining = @ - Cardinality(GatheredOn(k, o))]]

(* The placeholder e is claimed when k reaches st.                             *)
Claims(e, k, st) ==
  /\ e.kind = "wait_external"
  /\ \/ e.owner \in Decided(k, st)
     \/ e.key = k /\ \E i \in DOMAIN waiters[k] :
                        waiters[k][i].owner = e.owner /\ waiters[k][i].type # "wait"

ReadyAfter(k, st) ==
  LET Woken == [i \in DOMAIN waiters[k] |->
                  MkEntry(IF st = "completed" THEN "resume" ELSE "raise",
                          waiters[k][i].owner)]
      Claimed(e) == IF Claims(e, k, st) THEN [e EXCEPT !.claimed = TRUE] ELSE e
  IN  [p \in Priority |->
         [n \in DOMAIN ready[p] |-> Claimed(ready[p][n])]
         \o Subsequence(Woken, WokenAt(k, st, p))]

(* k reaches st and its waiters are woken; status, waiters, join.              *)
Resolve(k, st) ==
  /\ status' = [status EXCEPT ![k] = st]
  /\ waiters' = WaitersAfter(k, st)
  /\ join' = JoinAfter(k, st)

(* resolve and queue the woken, nothing else                                   *)
ResolveAndWake(k, st) == Resolve(k, st) /\ ready' = ReadyAfter(k, st)

-------------------------------------------------------------------------------
(* Semaphores.                                                                 *)

LiveWaiters(s) == {i \in DOMAIN semWaiters[s] : ~IsCancelled(semWaiters[s][i])}
FirstLive(s) == CHOOSE i \in LiveWaiters(s) : \A j \in LiveWaiters(s) : i <= j

NextOwner(s) == semWaiters[s][FirstLive(s)]
AfterGrant(s) ==
  IF LiveWaiters(s) = {} THEN <<>>
  ELSE SubSeq(semWaiters[s], FirstLive(s) + 1, Len(semWaiters[s]))

(* The holders h with one permit less of from and one more of to; None: nobody.*)
MovePermit(h, from, to) ==
  [o \in Owner |-> h[o] - (IF o = from THEN 1 ELSE 0) + (IF o = to THEN 1 ELSE 0)]

(* One permit of s goes from from (None: from nobody) to the first live waiter.*)
Grant(s, from) ==
  /\ semWaiters' = [semWaiters EXCEPT ![s] = AfterGrant(s)]
  /\ holders' = [holders EXCEPT ![s] =
                   MovePermit(@, from, IF LiveWaiters(s) = {} THEN None ELSE NextOwner(s))]

Transferred(heapOf, s) ==
  IF LiveWaiters(s) = {} THEN heapOf
  ELSE Enqueue(heapOf, [MkEntry("sem_resume", NextOwner(s)) EXCEPT !.key = s],
               TaskPriority(NextOwner(s)))

PrunedWaiters == [s \in Sem |-> Subsequence(semWaiters[s], LiveWaiters(s))]
Blocked_Bug == {}                    \* the semaphore queues are not looked at
Blocked == {s \in Sem : LiveWaiters(s) # {}}

(* The blocked semaphores all of whose holders are parked in the queues of     *)
(* such semaphores: the greatest fixpoint the code computes by pruning.        *)
Unreleasable ==
  LET ParkedIn(D) == UNION {{semWaiters[s][i] : i \in LiveWaiters(s)} : s \in D}
      HoldersOf(s) == {o \in Owner : holders[s][o] > 0}
      Stuck(D) == \A s \in D : HoldersOf(s) # {} /\ HoldersOf(s) \subseteq ParkedIn(D)
  IN  UNION {D \in SUBSET Blocked : Stuck(D)}

-------------------------------------------------------------------------------
(* Terminal, unobserved entries are deleted by the sweep that every 1024th     *)
(* allocation runs; any allocation may be such a one.                          *)

Joining ==
  {o \in Owner : \E w \in Waitable : \E i \in DOMAIN waiters[w] :
     waiters[w][i].owner = o /\ waiters[w][i].type \in {"gather", "race"}}

Protected == UNION {join[o].keys : o \in Joining}

Sweepable_Bug(w) ==                  \* keys of an open Gather are not protected
  /\ status[w] \in {"completed", "failed"}
  /\ waiters[w] = <<>>
  /\ w \notin handles
Sweepable(w) ==
  /\ status[w] \in {"completed", "failed"}
  /\ waiters[w] = <<>>
  /\ w \notin Protected
  /\ w \notin handles

Swept == [w \in Waitable |-> IF Sweepable(w) THEN "swept" ELSE status[w]]

(* fresh_id, then the new entry k                                              *)
Allocate(k) ==
  /\ status[k] = "unborn"
  /\ \E sweeps \in BOOLEAN :
       status' = [(IF sweeps THEN Swept ELSE status) EXCEPT ![k] = "pending"]
  /\ handles' = handles \cup {k}

-------------------------------------------------------------------------------
(* Handlers of the effects.  Every handler first drains extq (DrainOne), then  *)
(* either resumes the performer at once (Reply) or goes to pick_next (Suspend).*)

Handle(op) == op \in Ops /\ pc \in {"user", "effect"} /\ extq = <<>>
Reply == pc' = "user" /\ UNCHANGED cur
Suspend == pc' = "drain" /\ UNCHANGED cur

Spawn(t, prio, daemon) ==
  /\ Handle("spawn")
  /\ Allocate(t)
  /\ meta' = [meta EXCEPT ![t] = [priority |-> prio, daemon |-> daemon]]
  /\ ready' = Enqueue(Enqueue(ready, MkEntry("new", t), prio),
                      MkEntry("resume", cur), TaskPriority(cur))
  /\ Suspend
  /\ UNCHANGED <<parked, held, sems, ext>>

TaskCompleted(st) ==
  /\ pc \in {"user", "effect"} /\ extq = <<>>
  /\ cur \in Task
  /\ IF IsCancelled(cur) THEN UNCHANGED <<status, parked, ready>>
     ELSE ResolveAndWake(cur, st)
  /\ Suspend
  /\ UNCHANGED <<meta, handles, held, sems, ext>>

(* The effect returns or throws at once and changes no state of the scheduler. *)
Answer == Reply /\ UNCHANGED <<objs, parked, heap, sems, ext>>

Park(k, type, wake) ==
  waiters' = [waiters EXCEPT ![k] =
                Append(@, [type |-> type, owner |-> cur, wake |-> wake])]

(* A pending external promise is shielded by a placeholder, unless the caller  *)
(* listens in the background with PRIORITY_IDLE.                               *)
WaitPending(k, prio) ==
  /\ IF k \notin ExtPromise
     THEN Park(k, "wait", prio) /\ UNCHANGED ready
     ELSE IF prio = PRIORITY_IDLE
          THEN Park(k, "wait", OwnPriority) /\ UNCHANGED ready
          ELSE /\ Park(k, "wait_external", prio)
               /\ ready' = Enqueue(ready, Placeholder(cur, k), PRIORITY_EXTERNAL_WAIT)
  /\ Suspend
  /\ UNCHANGED <<objs, join, held, sems, ext>>

Wait(k, prio) ==
  /\ Handle("wait")
  /\ k \in handles /\ <<cur, k>> \in MayWait
  /\ IF status[k] \in Terminal THEN Answer ELSE WaitPending(k, prio)

(* Park cur on the keys at the indices I of ks, in order, with a placeholder   *)
(* for each of them that is an external promise.                               *)
RegisterJoin(type, ks, I, remaining) ==
  LET reg == [type |-> type, owner |-> cur, wake |-> OwnPriority]
      On(w) == {i \in I : ks[i] = w}
      shields == [i \in DOMAIN ks |-> Placeholder(cur, ks[i])]
  IN  /\ waiters' = [w \in Waitable |->
                       waiters[w] \o [n \in 1..Cardinality(On(w)) |-> reg]]
      /\ ready' = [ready EXCEPT ![PRIORITY_EXTERNAL_WAIT] =
                     @ \o Subsequence(shields, {i \in I : ks[i] \in ExtPromise})]
      /\ join' = [join EXCEPT ![cur] =
                    [keys |-> {ks[i] : i \in DOMAIN ks}, remaining |-> remaining]]
      /\ Suspend
      /\ UNCHANGED <<objs, held, sems, ext>>

KeyLists ==
  UNION {[1..n -> {k \in handles : <<cur, k>> \in MayWait}] : n \in 0..MaxKeys}

Pending(ks) == {i \in DOMAIN ks : status[ks[i]] \notin Terminal}

Gather(ks) ==
  /\ Handle("gather")
  /\ ks \in KeyLists
  /\ IF \/ \E i \in DOMAIN ks : status[ks[i]] \in {"failed", "cancelled"}
        \/ \A i \in DOMAIN ks : status[ks[i]] \in Terminal
     THEN Answer
     ELSE RegisterJoin("gather", ks, Pending(ks), Cardinality(Pending(ks)))

RaceAnswered(ks) == ks = <<>> \/ \E i \in DOMAIN ks : status[ks[i]] \in Terminal

Race(ks) ==
  /\ Handle("race")
  /\ ks \in KeyLists
  /\ IF RaceAnswered(ks) THEN Answer ELSE RegisterJoin("race", ks, DOMAIN ks, 0)

Cancel(t) ==
  /\ Handle("cancel")
  /\ t \in Task \cap handles
  /\ IF status[t] \in {"pending", "running"} THEN ResolveAndWake(t, "cancelled")
     ELSE UNCHANGED <<status, parked, ready>>
  /\ Reply
  /\ UNCHANGED <<meta, handles, held, sems, ext>>

CreatePromise(p) ==
  /\ Handle("promise")
  /\ Allocate(p)
  /\ Reply
  /\ UNCHANGED <<meta, parked, heap, sems, ext>>

(* The performer is queued behind the tasks it woke: at the lowest of its own  *)
(* priority and theirs, after them.                                            *)
CompleterPriority_Bug(k, st) == TaskPriority(cur)  \* the woken are not considered
CompleterPriority(k, st) ==
  Min({TaskPriority(cur)} \cup {p \in Priority : WokenAt(k, st, p) # {}})

(* A resolution of p from inside the run is refused with an error.             *)
Refused(p) == p \in ExtPromise \/ status[p] # "pending"

(* CompletePromise (st = completed) and FailPromise (st = failed)              *)
SettlePromise(p, st) ==
  /\ Handle("promise")
  /\ p \in handles \ Task
  /\ IF Refused(p) THEN Answer
     ELSE /\ Resolve(p, st)
          /\ ready' = Enqueue(ReadyAfter(p, st), MkEntry("resume", cur),
                              CompleterPriority(p, st))
          /\ Suspend
          /\ UNCHANGED <<meta, handles, held, sems, ext>>

CreateExternalPromise(e) ==
  /\ Handle("external")
  /\ Allocate(e)
  /\ Reply
  /\ UNCHANGED <<meta, parked, heap, sems, ext>>

CreateSemaphore(s, n) ==
  /\ Handle("semaphore")
  /\ maxPermits[s] = 0
  /\ \E sweeps \in BOOLEAN : status' = IF sweeps THEN Swept ELSE status
  /\ permits' = [permits EXCEPT ![s] = n]
  /\ maxPermits' = [maxPermits EXCEPT ![s] = n]
  /\ Reply
  /\ UNCHANGED <<meta, handles, parked, heap, semWaiters, holders, ext>>

HasPermit(s) == permits[s] > 0

AcquireSemaphore(s) ==
  /\ Handle("semaphore")
  /\ maxPermits[s] > 0
  /\ IF HasPermit(s)
     THEN /\ permits' = [permits EXCEPT ![s] = @ - 1]
          /\ holders' = [holders EXCEPT ![s][cur] = @ + 1]
          /\ Reply
          /\ UNCHANGED semWaiters
     ELSE /\ semWaiters' = [semWaiters EXCEPT ![s] = Append(@, cur)]
          /\ Suspend
          /\ UNCHANGED <<permits, holders>>
  /\ UNCHANGED <<objs, parked, heap, maxPermits, ext>>

(* The permit goes to the first live waiter, else to the pool; with a full     *)
(* pool the release is refused, the cancelled waiters being dropped even then. *)
ReleaseSemaphore(s) ==
  LET refused == LiveWaiters(s) = {} /\ permits[s] >= maxPermits[s]
  IN  /\ Handle("semaphore")
      /\ maxPermits[s] > 0
      /\ Bracketed => holders[s][cur] > 0
      /\ Grant(s, IF holders[s][cur] > 0 /\ ~refused THEN cur ELSE None)
      /\ ready' = Transferred(ready, s)
      /\ permits' = [permits EXCEPT ![s] =
                       IF LiveWaiters(s) = {} /\ ~refused THEN @ + 1 ELSE @]
      /\ Reply
      /\ UNCHANGED <<objs, parked, held, maxPermits, ext>>

-------------------------------------------------------------------------------
(* pick_next: drain extq, then pop entries until one runs.                     *)

DrainOne_Bug ==                      \* the last completion wins
  LET m == Head(extq)
  IN  /\ pc \in {"user", "effect", "drain", "afterPlaceholder"}
      /\ extq # <<>>
      /\ ResolveAndWake(m.key, m.result)
      /\ extq' = Tail(extq)
      /\ pc' = IF pc = "user" THEN "effect" ELSE pc
      /\ UNCHANGED <<meta, handles, held, sems, puts, cur>>
DrainOne ==
  LET m == Head(extq)
  IN  /\ pc \in {"user", "effect", "drain", "afterPlaceholder"}
      /\ extq # <<>>
      /\ IF status[m.key] = "pending" THEN ResolveAndWake(m.key, m.result)
         ELSE UNCHANGED <<status, parked, ready>>
      /\ extq' = Tail(extq)
      /\ pc' = IF pc = "user" THEN "effect" ELSE pc
      /\ UNCHANGED <<meta, handles, held, sems, puts, cur>>

DrainDone ==
  /\ pc = "drain" /\ extq = <<>>
  /\ pc' = "pop"
  /\ UNCHANGED <<objs, parked, heap, sems, ext, cur>>

Unheld(p) == held[p] < Len(ready[p])
InHeap(p) == {ready[p][n] : n \in held[p] + 1 .. Len(ready[p])}

has_live_ready_entry_Bug(includeDaemons) ==  \* tasks not started are overlooked
  \E p \in Priority : \E e \in InHeap(p) :
     Runnable(e) /\ e.kind # "new" /\ (includeDaemons \/ ~IsDaemon(e.owner))
has_live_ready_entry(includeDaemons) ==
  \E p \in Priority : \E e \in InHeap(p) :
     Runnable(e) /\ (includeDaemons \/ ~IsDaemon(e.owner))

(* p is the priority the heap pops from, e the entry it pops                   *)
Popping(p, e) ==
  /\ pc = "pop"
  /\ Unheld(p) /\ \A q \in Priority : q > p => ~Unheld(q)
  /\ e = ready[p][held[p] + 1]

Without(p) == [ready EXCEPT ![p] = RemoveAt(@, held[p] + 1)]
Hold(p) == held' = [held EXCEPT ![p] = @ + 1]
ShieldDeferred_Bug == FALSE          \* the shield ends with the deferral
ShieldDeferred == \E p \in Priority : held[p] > 0
Shielded(e) == ShieldDeferred /\ Runnable(e) /\ IsDaemon(e.owner)

(* A runnable entry leaves the heap and its owner runs; what was held returns. *)
Dispatch(p, e) ==
  /\ Popping(p, e) /\ Runnable(e) /\ ~Shielded(e)
  /\ ready' = Without(p)
  /\ held' = [q \in Priority |-> 0]
  /\ status' = IF e.kind = "new" THEN [status EXCEPT ![e.owner] = "running"] ELSE status
  /\ pc' = "user" /\ cur' = e.owner
  /\ UNCHANGED <<meta, handles, parked, sems, ext>>

(* A daemon's entry stays behind a placeholder deferred earlier in this pass.  *)
HoldDaemon(p, e) ==
  /\ Popping(p, e) /\ Shielded(e)
  /\ Hold(p)
  /\ UNCHANGED <<objs, parked, ready, sems, ext, pc, cur>>

DropDead(p, e) ==
  /\ Popping(p, e)
  /\ e.kind # "sem_resume"
  /\ IsCancelled(e.owner) \/ e.claimed
  /\ ready' = Without(p)
  /\ UNCHANGED <<objs, parked, held, sems, ext, pc, cur>>

(* The permit that travelled to a task cancelled on the way is released again. *)
DropDeadGrant_Bug(p, e) ==           \* it goes to the pool past the waiters
  /\ Popping(p, e)
  /\ e.kind = "sem_resume" /\ IsCancelled(e.owner)
  /\ holders' = [holders EXCEPT ![e.key][e.owner] = @ - 1]
  /\ permits' = [permits EXCEPT ![e.key] = @ + 1]
  /\ ready' = Without(p)
  /\ UNCHANGED <<objs, parked, held, semWaiters, maxPermits, ext, pc, cur>>
DropDeadGrant_Unnoted(p, e) ==       \* the cancelled receiver stays a holder
  /\ Popping(p, e)
  /\ e.kind = "sem_resume" /\ IsCancelled(e.owner)
  /\ Grant(e.key, None)
  /\ ready' = Transferred(Without(p), e.key)
  /\ permits' = [permits EXCEPT ![e.key] = IF LiveWaiters(e.key) = {} THEN @ + 1 ELSE @]
  /\ UNCHANGED <<objs, parked, held, maxPermits, ext, pc, cur>>
DropDeadGrant(p, e) ==
  /\ Popping(p, e)
  /\ e.kind = "sem_resume" /\ IsCancelled(e.owner)
  /\ Grant(e.key, e.owner)
  /\ ready' = Transferred(Without(p), e.key)
  /\ permits' = [permits EXCEPT ![e.key] = IF LiveWaiters(e.key) = {} THEN @ + 1 ELSE @]
  /\ UNCHANGED <<objs, parked, held, maxPermits, ext, pc, cur>>

LivePlaceholder_Bug(e) ==            \* a claimed placeholder still blocks
  e.kind = "wait_external" /\ ~IsCancelled(e.owner)
LivePlaceholder(e) ==
  e.kind = "wait_external" /\ ~e.claimed /\ ~IsCancelled(e.owner)

DeferPlaceholder(p, e) ==
  /\ Popping(p, e) /\ LivePlaceholder(e)
  /\ has_live_ready_entry(FALSE)
  /\ Hold(p)
  /\ UNCHANGED <<objs, parked, ready, sems, ext, pc, cur>>

(* Only daemons, or nothing, can run: block for a completion.  The placeholder *)
(* is left at the head of its priority until the wait is over; nothing pops    *)
(* meanwhile.  With nothing left to run, a semaphore cycle ends the run.       *)
BlockOnPlaceholder(p, e) ==
  /\ Popping(p, e) /\ LivePlaceholder(e)
  /\ ~has_live_ready_entry(FALSE)
  /\ IF has_live_ready_entry(TRUE)
     THEN pc' = "placeholder" /\ UNCHANGED semWaiters
     ELSE /\ semWaiters' = PrunedWaiters
          /\ pc' = IF Unreleasable # {} THEN "deadlock" ELSE "placeholder"
  /\ UNCHANGED <<objs, parked, heap, permits, maxPermits, holders, ext, cur>>

(* The blocking get of _drain_one_external returns.                            *)
Unblock ==
  LET m == Head(extq)
  IN  /\ pc \in {"placeholder", "block"}
      /\ extq # <<>>
      /\ IF status[m.key] = "pending" THEN ResolveAndWake(m.key, m.result)
         ELSE UNCHANGED <<status, parked, ready>>
      /\ extq' = Tail(extq)
      /\ pc' = IF pc = "block" THEN "drain" ELSE "afterPlaceholder"
      /\ UNCHANGED <<meta, handles, held, sems, puts, cur>>

(* An unclaimed placeholder is queued again, with a new seq.                   *)
RequeuePlaceholder ==
  LET p == PRIORITY_EXTERNAL_WAIT
      e == ready[p][held[p] + 1]
  IN  /\ pc = "afterPlaceholder" /\ extq = <<>>
      /\ ready' = IF e.claimed THEN Without(p) ELSE Enqueue(Without(p), e, p)
      /\ pc' = "pop"
      /\ UNCHANGED <<objs, parked, held, sems, ext, cur>>

LiveRegistered(w) == \E i \in DOMAIN waiters[w] : ~IsCancelled(waiters[w][i].owner)

has_pending_external_waiters_Bug ==  \* background listeners do not count
  \E e \in ExtPromise : status[e] = "pending" /\
     \E i \in DOMAIN waiters[e] :
        waiters[e][i].type # "wait" /\ ~IsCancelled(waiters[e][i].owner)
has_pending_external_waiters ==
  \E e \in ExtPromise : status[e] = "pending" /\ LiveRegistered(e)

(* The heap is empty: block, diagnose a deadlock, or return Pure(None).        *)
NothingReady ==
  /\ pc = "pop"
  /\ \A p \in Priority : ~Unheld(p)
  /\ semWaiters' = PrunedWaiters
  /\ pc' = IF has_pending_external_waiters
           THEN IF Unreleasable # {} THEN "deadlock" ELSE "block"
           ELSE IF Blocked # {} \/ \E w \in Waitable : LiveRegistered(w)
           THEN "deadlock"
           ELSE IF \A w \in Waitable : waiters[w] = <<>> THEN "none" ELSE "block"
  /\ UNCHANGED <<objs, parked, heap, permits, maxPermits, holders, ext, cur>>

-------------------------------------------------------------------------------
(* The end of the root body, interrupts, and the environment.                  *)

abandoned_ready_Bug ==               \* tasks not started are overlooked
  \E p \in Priority : \E e \in InHeap(p) :
     Runnable(e) /\ e.kind # "new" /\ ~IsDaemon(e.owner)
abandoned_ready == has_live_ready_entry(FALSE)
parked_for_close_out ==
  \E w \in Waitable : \E i \in DOMAIN waiters[w] :
     LET o == waiters[w][i].owner IN ~IsCancelled(o) /\ ~IsDaemon(o)

RootReturn ==
  /\ pc = "user" /\ cur = Root
  /\ pc' = IF abandoned_ready \/ parked_for_close_out THEN "warned" ELSE "returned"
  /\ UNCHANGED <<objs, parked, heap, sems, ext, cur>>

RootRaise ==
  /\ "raise" \in Ops
  /\ pc = "user" /\ cur = Root
  /\ pc' = "raised"
  /\ UNCHANGED <<objs, parked, heap, sems, ext, cur>>

(* KeyboardInterrupt or SystemExit in a task: its waiters are woken and the    *)
(* run unwinds.                                                                *)
TaskInterrupted ==
  /\ "raise" \in Ops
  /\ pc = "user" /\ cur \in Task
  /\ IF status[cur] \in Terminal THEN UNCHANGED <<status, parked, ready>>
     ELSE ResolveAndWake(cur, "failed")
  /\ pc' = "raised"
  /\ UNCHANGED <<meta, handles, held, sems, ext, cur>>

(* complete (result = completed) or fail (failed) on an external promise, from *)
(* any thread, at any time                                                     *)
Put(e, result) ==
  /\ pc \notin Ended
  /\ e \in handles /\ puts[e] < MaxPuts
  /\ extq' = Append(extq, [key |-> e, result |-> result])
  /\ puts' = [puts EXCEPT ![e] = @ + 1]
  /\ UNCHANGED <<objs, parked, heap, sems, pc, cur>>

(* The last Task, Promise and Future object of k dies.                         *)
DropHandle(k) ==
  /\ pc \notin Ended
  /\ k \in handles \cap Droppable
  /\ handles' = handles \ {k}
  /\ UNCHANGED <<status, meta, parked, heap, sems, ext, pc, cur>>

UserEffect ==
  \/ \E t \in Task, prio \in SpawnPriorities, daemon \in DaemonFlags :
        Spawn(t, prio, daemon)
  \/ \E k \in Waitable, prio \in WaitPriorities : Wait(k, prio)
  \/ \E ks \in KeyLists : Gather(ks)
  \/ \E ks \in KeyLists : Race(ks)
  \/ \E t \in Task : Cancel(t)
  \/ \E p \in Promise : CreatePromise(p)
  \/ \E p \in Promise \cup ExtPromise, st \in {"completed", "failed"} :
        SettlePromise(p, st)
  \/ \E e \in ExtPromise : CreateExternalPromise(e)
  \/ \E s \in Sem, n \in PermitCounts : CreateSemaphore(s, n)
  \/ \E s \in Sem : AcquireSemaphore(s) \/ ReleaseSemaphore(s)

(* Any other effect: after the drain it passes on to the outer handlers.       *)
PassEffect == pc = "effect" /\ extq = <<>> /\ Answer

OwnerEnds ==
  \/ \E st \in {"completed", "failed"} : TaskCompleted(st)
  \/ RootReturn
  \/ RootRaise
  \/ TaskInterrupted

Pop ==
  \E p \in Priority : \E e \in InHeap(p) :
     \/ Dispatch(p, e)
     \/ HoldDaemon(p, e)
     \/ DropDead(p, e)
     \/ DropDeadGrant(p, e)
     \/ DeferPlaceholder(p, e)
     \/ BlockOnPlaceholder(p, e)

SchedulerStep ==
  \/ DrainOne
  \/ DrainDone
  \/ Pop
  \/ Unblock
  \/ RequeuePlaceholder
  \/ NothingReady

Environment ==
  \/ \E e \in ExtPromise, result \in {"completed", "failed"} : Put(e, result)
  \/ \E k \in Waitable : DropHandle(k)

Next == UserEffect \/ PassEffect \/ OwnerEnds \/ SchedulerStep \/ Environment

Spec == Init /\ [][Next]_vars

(* Fairness: the dispatch loop keeps running; a program that has control ends  *)
(* or suspends sooner or later; foreign threads settle the external promises   *)
(* that were created.                                                          *)
Fairness ==
  /\ WF_vars(SchedulerStep)
  /\ WF_vars(OwnerEnds) /\ WF_vars(PassEffect)
  /\ \A e \in ExtPromise : WF_vars(\E result \in {"completed", "failed"} : Put(e, result))

FairSpec == Spec /\ Fairness

-------------------------------------------------------------------------------
(* Properties.                                                                 *)

(* Every variable has its type: statuses, registrations and heap entries are   *)
(* of the shapes the handlers of scheduler.py create.                          *)
TypeOK ==
  /\ status \in [Waitable -> {"unborn", "pending", "running", "swept"} \cup Terminal]
  /\ meta \in [Task -> [priority : Priority, daemon : BOOLEAN]]
  /\ handles \subseteq Waitable
  /\ waiters \in [Waitable -> Seq(Registration)]
  /\ join \in [Owner -> [keys : SUBSET Waitable, remaining : Int]]
  /\ ready \in [Priority -> Seq(Entry)]
  /\ held \in [Priority -> Nat]
  /\ permits \in [Sem -> Nat] /\ maxPermits \in [Sem -> Nat]
  /\ semWaiters \in [Sem -> Seq(Owner)]
  /\ holders \in [Sem -> [Owner -> Int]]
  /\ extq \in Seq([key : ExtPromise, result : {"completed", "failed"}])
  /\ puts \in [ExtPromise -> Nat]
  /\ pc \in {"user", "effect", "drain", "pop", "placeholder", "afterPlaceholder",
             "block"} \cup Ended
  /\ cur \in Owner

(* Where the sequences f[k] have an element of X, by key and index.            *)
Found(f, X) ==
  UNION {{<<k, n>> : n \in {n \in DOMAIN f[k] : f[k][n] \in X}} : k \in DOMAIN f}

QueuedFor(o) == {e \in Entry : e.owner = o /\ e.kind # "wait_external"}
WaitsOf(o) == {r \in Registration : r.owner = o /\ r.type \in {"wait", "wait_external"}}

(* How many places hold the one-shot continuation of o, a Gather or Race       *)
(* counting once for all its registrations.                                    *)
Places(o) ==
    (IF cur = o /\ pc \in {"user", "effect"} THEN 1 ELSE 0)
  + Cardinality(Found(ready, QueuedFor(o)))
  + Cardinality(Found(waiters, WaitsOf(o)))
  + (IF o \in Joining THEN 1 ELSE 0)
  + Cardinality(Found(semWaiters, {o}))

(* A continuation is never lost and never resumed twice: while the run goes on,*)
(* the root and every unfinished task is in exactly one place, a cancelled one *)
(* in at most one (its entries are dropped lazily), a finished one in none,    *)
(* through every wake, fail-fast Gather, Race and permit transfer. pick_next   *)
(* does not fall through to Pure(None) while the root body is unfinished, which*)
(* would make the run succeed with None.                                       *)
OneShot ==
  /\ pc # "none"
  /\ pc \notin Ended =>
      /\ Places(Root) = 1
      /\ \A t \in Task :
           CASE status[t] \in {"pending", "running"} -> Places(t) = 1
             [] status[t] = "cancelled" -> Places(t) <= 1
             [] OTHER -> Places(t) = 0

(* The scheduler never blocks while non-daemon work could run, on a            *)
(* placeholder (a completer below the shield would starve) or with an empty    *)
(* heap (nothing may then be held out of it either).                           *)
NeverBlocksOverWork ==
  /\ pc = "placeholder" =>
       ~\E p \in Priority : \E n \in DOMAIN ready[p] :
          Runnable(ready[p][n]) /\ ~IsDaemon(ready[p][n].owner)
  /\ pc = "block" => \A p \in Priority : ready[p] = <<>>

(* While it blocks there is an external completion that wakes a live waiter:   *)
(* otherwise the run would hang for ever instead of failing loudly.            *)
NoSilentHang ==
  pc \in {"placeholder", "block"} => has_pending_external_waiters

(* A daemon below the shield never gets to run while a live external wait      *)
(* shields it, also when the placeholder was deferred for other work.          *)
ShieldHolds ==
  [][\A p \in Priority :
       (/\ pc = "pop" /\ pc' = "user" /\ IsDaemon(cur')
        /\ Unheld(p) /\ \A q \in Priority : q > p => ~Unheld(q)
        /\ p < PRIORITY_EXTERNAL_WAIT)
       => \A n \in DOMAIN ready[PRIORITY_EXTERNAL_WAIT] :
            ~LivePlaceholder(ready[PRIORITY_EXTERNAL_WAIT][n])]_vars

InFlightHeld ==
  \A p \in Priority : \A n \in DOMAIN ready[p] :
     ready[p][n].kind = "sem_resume" => holders[ready[p][n].key][ready[p][n].owner] > 0

(* The permits of s its owners are noted to hold, each of them once.           *)
HeldPermits(s) == UNION {{<<o, i>> : i \in 1..holders[s][o]} : o \in Owner}

PermitsConserved ==
  \A s \in Sem :
    /\ \A o \in Owner : holders[s][o] >= 0
    /\ Bracketed => permits[s] + Cardinality(HeldPermits(s)) = maxPermits[s]

(* Permits are neither lost nor made up: those in the pool and those the       *)
(* owners hold are the permits the semaphore was created with; a permit        *)
(* travelling to an owner is one the owner is noted to hold, so that it can be *)
(* returned if the owner is cancelled on the way.                              *)
PermitsAccounted == TypeOK /\ InFlightHeld /\ PermitsConserved

(* A permit is in the pool only when no live owner is parked for it, also      *)
(* after the receiver of a permit was cancelled on the way.                    *)
NoIdlePermit ==
  \A s \in Sem : permits[s] > 0 =>
    \A i \in DOMAIN semWaiters[s] : IsCancelled(semWaiters[s][i])

(* The scheduler never reads an entry the sweep deleted: not of an owner that  *)
(* is still queued, parked or running, nor of a key of an open Gather or Race. *)
SweptUnused ==
  LET Gone(k) == k \in Waitable /\ status[k] = "swept"
  IN  /\ ~Gone(cur) \/ pc \notin {"user", "effect"}
      /\ \A w \in Waitable : \A n \in DOMAIN waiters[w] : ~Gone(waiters[w][n].owner)
      /\ \A p \in Priority : \A n \in DOMAIN ready[p] :
           ready[p][n].kind # "wait_external" => ~Gone(ready[p][n].owner)
      /\ \A s \in Sem : \A n \in DOMAIN semWaiters[s] : ~Gone(semWaiters[s][n])
      /\ \A k \in Protected \cup handles : ~Gone(k)

(* A resolved waitable keeps its outcome until it is swept: no completion that *)
(* is late, repeated or raced by a cancellation rewrites what waiters saw.     *)
OutcomeStable ==
  [][\A w \in Waitable :
       status[w] \in Terminal =>
         status'[w] = status[w] \/ (status[w] # "cancelled" /\ status'[w] = "swept")]_vars

(* When the root body returns silently, no non-daemon task is left unfinished. *)
(* (Of programs without semaphores: root_close_out looks at the heap and at    *)
(* the waiters, not at the semaphore queues.)                                  *)
CloseOutComplete ==
  pc = "returned" =>
    \A t \in Task : status[t] \in {"pending", "running"} => IsDaemon(t)

(* With waits that cannot form a cycle, no run is diagnosed as deadlocked.     *)
NoFalseDeadlock == pc # "deadlock"

(* Every run comes to an end when its programs and the foreign threads do      *)
(* their part.                                                                 *)
EveryRunEnds == <>(pc \in Ended)

-------------------------------------------------------------------------------
(* The scheduler implements Futures: an owner waits while it is registered or  *)
(* its join is open, a cancelled one no longer; the heap, the shields and the  *)
(* permits are hidden.                                                         *)

RegisteredOn(o) == {w \in Waitable : \E i \in DOMAIN waiters[w] : waiters[w][i].owner = o}

WaitMode(o) == IF \E w \in RegisteredOn(o) : GatheredOn(w, o) # {} THEN "all" ELSE "any"

F == INSTANCE Futures WITH
       outcome <- [w \in Waitable |-> CASE status[w] = "running" -> "pending"
                                        [] status[w] = "swept" -> "gone"
                                        [] OTHER -> status[w]],
       waiting <- [o \in Owner |->
                     IF IsCancelled(o) \/ (RegisteredOn(o) = {} /\ join[o] = NoJoin)
                     THEN [mode |-> "none", keys |-> {}]
                     ELSE [mode |-> WaitMode(o), keys |-> RegisteredOn(o)]]

(* Every step of the scheduler is a step of Futures or none: a Wait, Gather or *)
(* Race ends exactly when its condition on the outcomes is met, never earlier  *)
(* and never later, whatever the order of completions, failures, cancellations *)
(* and sweeps, and outcomes are written once.                                  *)
ImplementsFutures == F!Spec
===============================================================================
