-------------------------- MODULE SchedulerTheorems ---------------------------
(* What the scheduler's inductive invariant gives: one outcome per waitable,   *)
(* no outcome swept while somebody can ask for it, permits handed on, a        *)
(* scheduler that blocks only when it has nothing to do and somebody outside   *)
(* to wait for, that every step is one of Futures, and that a publisher runs   *)
(* on after the listeners it woke.                                             *)
EXTENDS SchedulerProofs, SchedulerOrder, WellFoundedInduction

(* Whoever is running, queued or parked anywhere is unfinished or cancelled,   *)
(* after the end of the run too.                                               *)
Anywhere(o) ==
  \/ Running(o)
  \/ Found(ready, QueuedFor(o)) # {}
  \/ Found(waiters, WaitsOf(o)) # {} \/ Found(waiters, JoinsOf(o)) # {}
  \/ Found(semWaiters, {o}) # {}
NoGhosts == \A o \in Owner : Anywhere(o) => Unfinished(o) \/ IsCancelled(o)

(* What is observed is there; only tasks run.                                  *)
Kept ==
  /\ \A k \in Protected \cup handles : status[k] # "swept"
  /\ \A k \in handles : status[k] # "unborn"
  /\ \A w \in Waitable \ Owner : status[w] # "running"

(* A semaphore has no queue before its creation, none of live owners while its *)
(* pool has permits.                                                           *)
QueuesServed ==
  \A s \in Sem :
    /\ maxPermits[s] = 0 => semWaiters[s] = <<>>
    /\ permits[s] > 0 => \A i \in DOMAIN semWaiters[s] : IsCancelled(semWaiters[s][i])

(* Behind every live placeholder is a pending external promise on which its    *)
(* owner is registered.                                                        *)
Shield(e) ==
  /\ e.key \in ExtPromise /\ status[e.key] = "pending"
  /\ \E i \in DOMAIN waiters[e.key] :
        waiters[e.key][i].owner = e.owner /\ waiters[e.key][i].type # "wait"
ShieldsLive ==
  \A p \in Priority : \A n \in DOMAIN ready[p] :
    LivePlaceholder(ready[p][n]) => Shield(ready[p][n])

-------------------------------------------------------------------------------
(* The initial state.                                                          *)
LEMMA InitEmpty ==
  ASSUME Init
  PROVE  /\ TypeOK
         /\ \A X : /\ Found(ready, X) = {} /\ Found(waiters, X) = {}
                   /\ Found(semWaiters, X) = {}
<1>1. TypeOK
  <2>1. PRIORITY_NORMAL \in Priority /\ \A T : <<>> \in Seq(T)
    BY DEF Priority
  <2>2. Root \in Owner /\ "user" \notin Terminal
    BY DEF Owner, Terminal
  <2>. QED  BY <2>1, <2>2 DEF Init, TypeOK, NoJoin
<1>2. \A X : Occ(<<>>, X) = {}
  BY DEF Occ
<1>3. ASSUME NEW X
      PROVE  Found(ready, X) = {} /\ Found(waiters, X) = {} /\ Found(semWaiters, X) = {}
  <2>1. /\ DOMAIN ready = Priority /\ DOMAIN waiters = Waitable /\ DOMAIN semWaiters = Sem
    BY DEF Init
  <2>2. /\ \A p \in Priority : ready[p] = <<>>
        /\ \A w \in Waitable : waiters[w] = <<>>
        /\ \A s \in Sem : semWaiters[s] = <<>>
    BY DEF Init
  <2>3. Found(ready, X) = {}
    BY <1>2, <2>1, <2>2, FoundEmpty
  <2>4. Found(waiters, X) = {}
    BY <1>2, <2>1, <2>2, FoundEmpty
  <2>5. Found(semWaiters, X) = {}
    BY <1>2, <2>1, <2>2, FoundEmpty
  <2>. QED  BY <2>3, <2>4, <2>5
<1>. QED  BY <1>1, <1>3

(* The inductive invariant holds when the scheduler starts: only the root is  *)
(* queued.                                                                    *)
LEMMA InitIInv == ASSUME Init PROVE IInv
<1>1. Frame
  <2>1. HeapInOrder
    BY DEF Init, HeapInOrder, InOrder
  <2>2. \A p \in Priority : held[p] <= Len(ready[p]) /\ ~(held[p] > 0)
    BY DEF Init
  <2>. QED  BY <2>1, <2>2, InitEmpty DEF Frame, HeldForWork, Init
<1>2. ASSUME NEW o \in Owner PROVE Located(o)
  <2>1. PICK place \in PlaceName \cup {"nowhere"} : place = IF o = Root THEN "run" ELSE "nowhere"
    BY DEF PlaceName
  <2>2. At(o, place)
    BY <2>1, InitEmpty DEF At, Site, Running, Init
  <2>3. Fits(o, place)
    BY <2>1 DEF Fits, Unfinished, IsCancelled, Init, Owner, Waitable
  <2>. QED  BY <2>2, <2>3 DEF Located
<1>3. JoinCounts
  BY InitEmpty DEF JoinCounts, Counted
<1>. QED  BY <1>1, <1>2, <1>3 DEF IInv, Placed, Init

(* Every reachable state satisfies the inductive invariant.                    *)
THEOREM Inductive == Spec => []IInv
<1>1. Init => IInv
  BY InitIInv
<1>2. IInv /\ [Next]_vars => IInv'
  BY IInvNext
<1>. QED  BY <1>1, <1>2, PTL DEF Spec

(* Every variable of the scheduler keeps its type, for every set of ids and   *)
(* every program.                                                             *)
THEOREM TypesCorrect == Spec => []TypeOK
<1>1. IInv => TypeOK
  BY DEF IInv, Frame
<1>. QED  BY <1>1, Inductive, PTL

-------------------------------------------------------------------------------
(* One place for each continuation.                                            *)
LEMMA SingleCounts ==
  ASSUME NEW S PROVE (S = {} => Cardinality(S) = 0) /\ (Single(S) => Cardinality(S) = 1)
BY FS_EmptySet, FS_Singleton DEF Single

(* The owners with an open Gather or Race.                                     *)
LEMMA JoiningFound ==
  ASSUME TypeOK, NEW o \in Owner PROVE o \in Joining <=> Found(waiters, JoinsOf(o)) # {}
<1>1. \A w \in Waitable : waiters[w] \in Seq(Registration) /\ DOMAIN waiters = Waitable
  BY DEF TypeOK
<1>2. \A w \in Waitable : \A i \in DOMAIN waiters[w] : waiters[w][i] \in Registration
  BY <1>1
<1>3. ASSUME o \in Joining PROVE Found(waiters, JoinsOf(o)) # {}
  <2>1. PICK w \in Waitable : \E i \in DOMAIN waiters[w] :
          waiters[w][i].owner = o /\ waiters[w][i].type \in {"gather", "race"}
    BY <1>3 DEF Joining
  <2>2. PICK i \in DOMAIN waiters[w] :
          waiters[w][i].owner = o /\ waiters[w][i].type \in {"gather", "race"}
    BY <2>1
  <2>3. i \in Occ(waiters[w], JoinsOf(o)) /\ w \in DOMAIN waiters
    BY <1>1, <1>2, <2>2 DEF Occ, JoinsOf
  <2>. QED  BY <2>3, FoundMember
<1>4. ASSUME Found(waiters, JoinsOf(o)) # {} PROVE o \in Joining
  <2>1. PICK z \in Found(waiters, JoinsOf(o)) : TRUE
    BY <1>4
  <2>2. z = <<z[1], z[2]>>
    BY FoundMember
  <2>3. z[1] \in DOMAIN waiters /\ z[2] \in Occ(waiters[z[1]], JoinsOf(o))
    BY <2>2, FoundMember
  <2>4. z[1] \in Waitable
    BY <2>3 DEF TypeOK
  <2>. QED  BY <2>3, <2>4 DEF Joining, Occ, JoinsOf
<1>. QED  BY <1>3, <1>4

(* The place an owner is in, and the number of places TLC counts.             *)
LEMMA PlacesAt ==
  ASSUME TypeOK, NEW o \in Owner, NEW place \in PlaceName \cup {"nowhere"}, At(o, place)
  PROVE  Places(o) = IF place = "nowhere" THEN 0 ELSE 1
<1>1. Running(o) <=> place = "run"
  BY DEF At, Site
<1>2. Cardinality(Found(ready, QueuedFor(o))) = IF place = "heap" THEN 1 ELSE 0
  BY SingleCounts DEF At, Site
<1>3. Cardinality(Found(waiters, WaitsOf(o))) = IF place = "wait" THEN 1 ELSE 0
  BY SingleCounts DEF At, Site
<1>4. o \in Joining <=> place = "join"
  BY JoiningFound DEF At, Site
<1>5. Cardinality(Found(semWaiters, {o})) = IF place = "sem" THEN 1 ELSE 0
  BY SingleCounts DEF At, Site
<1>. QED  BY <1>1, <1>2, <1>3, <1>4, <1>5 DEF Places, Running, PlaceName

(* A continuation is never lost and never resumed twice (OneShot): through     *)
(* every wake, fail-fast Gather, Race, permit transfer and lazy drop of        *)
(* scheduler.py each unfinished owner is in exactly one place; and pick_next   *)
(* never falls through to Pure(None).                                          *)
THEOREM OneShotHolds == Spec => []OneShot
<1>1. ASSUME IInv PROVE OneShot
  <2>1. TypeOK /\ Placed /\ pc # "none"
    BY <1>1 DEF IInv, Frame
  <2>2. ASSUME pc \notin Ended
        PROVE  /\ Places(Root) = 1
               /\ \A t \in Task :
                    CASE status[t] \in {"pending", "running"} -> Places(t) = 1
                      [] status[t] = "cancelled" -> Places(t) <= 1
                      [] OTHER -> Places(t) = 0
    <3>1. ASSUME NEW o \in Owner
          PROVE  /\ Places(o) = 0 \/ Places(o) = 1
                 /\ Unfinished(o) => Places(o) = 1
                 /\ Places(o) # 0 => Unfinished(o) \/ IsCancelled(o)
      <4>1. PICK place \in PlaceName \cup {"nowhere"} : At(o, place) /\ Fits(o, place)
        BY <2>1, <2>2 DEF Placed, Located
      <4>2. Places(o) = IF place = "nowhere" THEN 0 ELSE 1
        BY <2>1, <4>1, PlacesAt
      <4>. QED  BY <4>1, <4>2 DEF Fits
    <3>2. Places(Root) = 1
      BY <3>1 DEF Owner, Unfinished
    <3>3. ASSUME NEW t \in Task
          PROVE  CASE status[t] \in {"pending", "running"} -> Places(t) = 1
                   [] status[t] = "cancelled" -> Places(t) <= 1
                   [] OTHER -> Places(t) = 0
      <4>1. t \in Owner /\ t # Root
        BY DistinctIds DEF Owner, Waitable
      <4>2. status[t] \in {"pending", "running"} => Places(t) = 1
        BY <3>1, <4>1 DEF Unfinished
      <4>3. Places(t) <= 1
        BY <3>1, <4>1
      <4>4. status[t] \notin {"pending", "running", "cancelled"} => Places(t) = 0
        BY <3>1, <4>1 DEF Unfinished, IsCancelled
      <4>. QED  BY <4>2, <4>3, <4>4
    <3>. QED  BY <3>2, <3>3
  <2>. QED  BY <2>1, <2>2 DEF OneShot
<1>. QED  BY <1>1, Inductive, PTL

-------------------------------------------------------------------------------
(* The unclaimed placeholders of a heap.                                       *)
Shields(h) ==
  {e \in Entry : /\ e.kind = "wait_external" /\ ~e.claimed
                 /\ \E p \in Priority : \E n \in DOMAIN h[p] : h[p][n] = e}

(* The permits that travel in a heap.                                          *)
Grants(h) ==
  {e \in Entry : /\ e.kind = "sem_resume"
                 /\ \E p \in Priority : \E n \in DOMAIN h[p] : h[p][n] = e}

(* An entry put into the heap is the only placeholder, or the only permit, it  *)
(* adds.                                                                       *)
LEMMA ShieldsEnqueued ==
  ASSUME NEW h \in Heaps, NEW e \in Entry, NEW p \in Priority
  PROVE  /\ Shields(Enqueue(h, e, p)) \subseteq Shields(h) \cup {e}
         /\ e.kind # "wait_external" => Shields(Enqueue(h, e, p)) \subseteq Shields(h)
         /\ Grants(Enqueue(h, e, p)) \subseteq Grants(h) \cup {e}
         /\ e.kind # "sem_resume" => Grants(Enqueue(h, e, p)) \subseteq Grants(h)
<1>1. /\ Enqueue(h, e, p)[p] = Append(h[p], e) /\ h[p] \in Seq(Entry)
      /\ \A q \in Priority \ {p} : Enqueue(h, e, p)[q] = h[q]
  BY DEF Enqueue, Heaps
<1>2. \A n \in DOMAIN Append(h[p], e) :
        Append(h[p], e)[n] = e \/ (n \in DOMAIN h[p] /\ Append(h[p], e)[n] = h[p][n])
  BY <1>1
<1>3. ASSUME NEW q \in Priority, NEW n \in DOMAIN Enqueue(h, e, p)[q]
      PROVE  \/ Enqueue(h, e, p)[q][n] = e
             \/ n \in DOMAIN h[q] /\ Enqueue(h, e, p)[q][n] = h[q][n]
  <2>1. CASE q = p
    BY <1>1, <1>2, <2>1
  <2>2. CASE q # p
    BY <1>1, <2>2
  <2>. QED  BY <2>1, <2>2
<1>4. /\ Shields(Enqueue(h, e, p)) \subseteq Shields(h) \cup {e}
      /\ e.kind # "wait_external" => Shields(Enqueue(h, e, p)) \subseteq Shields(h)
  BY <1>3 DEF Shields
<1>5. /\ Grants(Enqueue(h, e, p)) \subseteq Grants(h) \cup {e}
      /\ e.kind # "sem_resume" => Grants(Enqueue(h, e, p)) \subseteq Grants(h)
  BY <1>3 DEF Grants
<1>. QED  BY <1>4, <1>5

(* A pop adds no placeholder and no permit.                                   *)
LEMMA ShieldsPopped ==
  ASSUME NEW h \in Heaps, NEW p \in Priority, NEW x \in DOMAIN h[p]
  PROVE  /\ Shields([h EXCEPT ![p] = RemoveAt(@, x)]) \subseteq Shields(h)
         /\ Grants([h EXCEPT ![p] = RemoveAt(@, x)]) \subseteq Grants(h)
<1>1. PICK g \in Heaps :
        /\ g = [h EXCEPT ![p] = RemoveAt(@, x)]
        /\ Len(g[p]) = Len(h[p]) - 1 /\ \A q \in Priority \ {p} : g[q] = h[q]
        /\ \A n \in 1..(Len(h[p]) - 1) : g[p][n] = IF n < x THEN h[p][n] ELSE h[p][n + 1]
  <2> DEFINE f == [h EXCEPT ![p] = RemoveAt(@, x)]
  <2>1. /\ f \in Heaps
        /\ Len(f[p]) = Len(h[p]) - 1
        /\ \A q \in Priority \ {p} : f[q] = h[q]
        /\ \A n \in 1..(Len(h[p]) - 1) : f[p][n] = IF n < x THEN h[p][n] ELSE h[p][n + 1]
        /\ InOrder(h) => InOrder(f)
        /\ \A X : /\ h[p][x] \notin X => ExistsBijection(Found(f, X), Found(h, X))
                  /\ h[p][x] \in X /\ Single(Found(h, X)) => Found(f, X) = {}
    BY WithoutKeeps
  <2> HIDE DEF f
  <2>. QED  BY <2>1 DEF f
<1>3. h[p] \in Seq(Entry) /\ g[p] \in Seq(Entry) /\ Len(h[p]) \in Nat /\ DOMAIN h[p] = 1..Len(h[p])
  BY DEF Heaps
<1>4. ASSUME NEW q \in Priority, NEW n \in DOMAIN g[q] PROVE \E m \in DOMAIN h[q] : h[q][m] = g[q][n]
  <2>1. CASE q # p
    BY <1>1, <1>4, <2>1
  <2>2. CASE q = p
    <3>1. n \in 1..(Len(h[p]) - 1)
      BY <1>1, <1>3, <1>4, <2>2
    <3>2. n \in DOMAIN h[p] /\ n + 1 \in DOMAIN h[p]
      BY <1>3, <3>1
    <3>. QED  BY <1>1, <2>2, <3>1, <3>2
  <2>. QED  BY <2>1, <2>2
<1>5. Shields(g) \subseteq Shields(h)
  BY <1>4 DEF Shields
<1>6. Grants(g) \subseteq Grants(h)
  BY <1>4 DEF Grants
<1>. QED  BY <1>1, <1>5, <1>6

(* Waking the waiters of an external promise claims their placeholders, and   *)
(* adds none, nor a permit.                                                   *)
LEMMA ShieldsWoken ==
  ASSUME TypeOK, NEW k \in Waitable, NEW st \in Terminal
  PROVE  /\ Shields(ReadyAfter(k, st)) \subseteq {e \in Shields(ready) : ~Claims(e, k, st)}
         /\ Grants(ReadyAfter(k, st)) \subseteq Grants(ready)
<1>1. PICK g \in Heaps : g = ReadyAfter(k, st)
  BY ReadyWoken DEF Heaps
<1>2. \A p \in Priority :
        /\ \A n \in 1..Len(ready[p]) :
             g[p][n] = IF Claims(ready[p][n], k, st) THEN [ready[p][n] EXCEPT !.claimed = TRUE]
                       ELSE ready[p][n]
        /\ \A n \in (Len(ready[p]) + 1)..Len(g[p]) :
             \E o : g[p][n] = MkEntry(IF st = "completed" THEN "resume" ELSE "raise", o)
  BY <1>1, ReadyWoken
<1>3. ASSUME NEW p \in Priority, NEW n \in DOMAIN g[p]
      PROVE  \/ /\ n \in DOMAIN ready[p] /\ ready[p][n] \in Entry
                /\ \/ g[p][n] = ready[p][n] /\ ~Claims(ready[p][n], k, st)
                   \/ g[p][n].kind = "wait_external" /\ g[p][n].claimed
             \/ g[p][n].kind \in {"resume", "raise"}
  <2>1. /\ ready[p] \in Seq(Entry) /\ g[p] \in Seq(Entry) /\ Len(ready[p]) \in Nat /\ Len(g[p]) \in Nat
        /\ DOMAIN ready[p] = 1..Len(ready[p]) /\ DOMAIN g[p] = 1..Len(g[p])
    BY DEF Heaps, TypeOK
  <2>2. CASE n \in 1..Len(ready[p])
    <3>1. ready[p][n] \in Entry /\ n \in DOMAIN ready[p]
      BY <2>1, <2>2
    <3>2. Claims(ready[p][n], k, st) => g[p][n].kind = "wait_external" /\ g[p][n].claimed
      <4>1. Claims(ready[p][n], k, st) => ready[p][n].kind = "wait_external"
        BY DEF Claims
      <4>2. /\ [ready[p][n] EXCEPT !.claimed = TRUE].claimed
            /\ [ready[p][n] EXCEPT !.claimed = TRUE].kind = ready[p][n].kind
        BY <3>1 DEF Entry
      <4>. QED  BY <1>2, <2>2, <4>1, <4>2
    <3>. QED  BY <1>2, <2>2, <3>1, <3>2
  <2>3. CASE n \notin 1..Len(ready[p])
    <3>1. n \in (Len(ready[p]) + 1)..Len(g[p])
      BY <2>1, <2>3
    <3>2. PICK o : g[p][n] = MkEntry(IF st = "completed" THEN "resume" ELSE "raise", o)
      BY <1>2, <3>1
    <3>. QED  BY <3>2 DEF MkEntry
  <2>. QED  BY <2>2, <2>3
<1>4. Shields(g) \subseteq {e \in Shields(ready) : ~Claims(e, k, st)}
  BY <1>3 DEF Shields
<1>5. Grants(g) \subseteq Grants(ready)
  BY <1>3 DEF Grants
<1>. QED  BY <1>1, <1>4, <1>5

(* Handing over a permit adds no placeholder.                                 *)
LEMMA ShieldsGranted ==
  ASSUME TypeOK, NEW s \in Sem, NEW h \in Heaps
  PROVE  Shields(Transferred(h, s)) \subseteq Shields(h)
<1>1. CASE LiveWaiters(s) = {}
  BY <1>1 DEF Transferred
<1>2. CASE LiveWaiters(s) # {}
  <2>1. NextOwner(s) \in Owner /\ TaskPriority(NextOwner(s)) \in Priority
    BY <1>2, FirstLiveFacts, EntriesTyped
  <2>2. PICK e \in Entry : e.kind = "sem_resume" /\
                           Transferred(h, s) = Enqueue(h, e, TaskPriority(NextOwner(s)))
    BY <1>2, <2>1 DEF Transferred, MkEntry, Entry
  <2>. QED  BY <2>1, <2>2, ShieldsEnqueued
<1>. QED  BY <1>1, <1>2

(* The running task has not ended, unless it was cancelled while it ran.      *)
LEMMA RunningStatus ==
  ASSUME IInv, pc \in {"user", "effect"}, cur \in Task
  PROVE  status[cur] \in {"pending", "running", "cancelled"}
<1>1. pc \notin Ended /\ cur \in Owner /\ Safe /\ cur # Root
  BY DistinctIds DEF Ended, Owner, IInv, Frame, Safe, Waitable
<1>2. PICK place : At(cur, place) /\ Fits(cur, place) /\ place = "run"
  BY <1>1, AtRun
<1>. QED  BY <1>1, <1>2 DEF Fits, Unfinished, IsCancelled

-------------------------------------------------------------------------------
(* What a step does to the statuses, the registrations and the unclaimed       *)
(* placeholders: it leaves the registrations alone and sweeps, allocates or    *)
(* starts; or decides one waitable; or parks the running owner on one waitable *)
(* or on the keys of a Gather or Race.                                         *)
Undecided(k) == status[k] \in {"pending", "running"}
Performing == pc \in {"user", "effect"}

Moved ==
  /\ UNCHANGED parked /\ Shields(ready') \subseteq Shields(ready)
  /\ \/ status' = status \/ status' = Swept
     \/ \E k \in Waitable : Allocate(k)
     \/ \E t \in Task : Undecided(t) /\ status' = [status EXCEPT ![t] = "running"]
Settled ==
  \E k \in Waitable, st \in Terminal :
    /\ Undecided(k) /\ Resolve(k, st)
    /\ Shields(ready') \subseteq {e \in Shields(ready) : ~Claims(e, k, st)}
ParkedOnOne ==
  \E k \in handles, prio \in WaitPriorities :
    /\ Performing /\ <<cur, k>> \in MayWait
    /\ status[k] \notin Terminal /\ WaitPending(k, prio)
ParkedOnMany ==
  \E ks \in KeyLists, type \in {"gather", "race"}, remaining \in Int :
    \E I \in SUBSET DOMAIN ks :
      /\ Performing
      /\ I # {} /\ \A i \in I : status[ks[i]] \notin Terminal
      /\ RegisterJoin(type, ks, I, remaining)
Step == Moved \/ Settled \/ ParkedOnOne \/ ParkedOnMany

(* Every step of the scheduler is of one of these four shapes.                 *)
LEMMA Steps == ASSUME IInv, [Next]_vars PROVE Step
<1>1. /\ TypeOK /\ Frame /\ Safe /\ ready \in Heaps
      /\ status \in [Waitable -> {"unborn", "pending", "running", "swept"} \cup Terminal]
  BY EntriesTyped DEF IInv, Frame, Safe, TypeOK
<1>2. ASSUME UNCHANGED parked, Shields(ready') \subseteq Shields(ready),
             \/ status' = status \/ status' = Swept
             \/ \E k \in Waitable : Allocate(k)
             \/ \E t \in Task : Undecided(t) /\ status' = [status EXCEPT ![t] = "running"]
      PROVE  Step
  BY <1>2 DEF Step, Moved
<1>3. ASSUME NEW k \in Waitable, NEW st \in Terminal, Undecided(k), ResolveAndWake(k, st) PROVE Step
  <2>1. Resolve(k, st) /\ Shields(ready') \subseteq {e \in Shields(ready) : ~Claims(e, k, st)}
    BY <1>1, <1>3, ShieldsWoken DEF ResolveAndWake
  <2>. QED  BY <1>3, <2>1 DEF Step, Settled
<1>4. ASSUME UNCHANGED parked, ready' = ready, status' = status PROVE Step
  BY <1>2, <1>4
<1>5. ASSUME NEW t \in Task, NEW prio \in SpawnPriorities, NEW daemon \in DaemonFlags,
             Spawn(t, prio, daemon)
      PROVE  Step
  <2>1. /\ t \in Owner /\ t \in Waitable /\ prio \in Priority /\ cur \in Owner
        /\ TaskPriority(cur) \in Priority
    BY <1>1, Parameters, EntriesTyped DEF Owner, Waitable
  <2>2. PICK e \in Entry : e = MkEntry("new", t) /\ e.kind = "new"
    BY <1>1, <2>1, EntriesTyped
  <2>3. PICK h \in Heaps : h = Enqueue(ready, e, prio) /\ Shields(h) \subseteq Shields(ready)
    BY <1>1, <2>1, <2>2, EnqueueKeeps, ShieldsEnqueued
  <2>4. PICK f \in Entry : f = MkEntry("resume", cur) /\ f.kind = "resume"
    BY <1>1, <2>1, EntriesTyped
  <2>5. ready' = Enqueue(h, f, TaskPriority(cur)) /\ UNCHANGED parked /\ Allocate(t)
    BY <1>5, <2>2, <2>3, <2>4 DEF Spawn
  <2>6. Shields(ready') \subseteq Shields(ready)
    BY <2>1, <2>3, <2>4, <2>5, ShieldsEnqueued
  <2>. QED  BY <1>2, <2>1, <2>5, <2>6
<1>6. ASSUME NEW p \in Promise \cup ExtPromise, NEW st \in {"completed", "failed"},
             SettlePromise(p, st)
      PROVE  Step
  <2>1. p \in Waitable /\ st \in Terminal /\ cur \in Owner
    BY <1>1 DEF Waitable, Terminal, TypeOK
  <2>2. CASE Answer
    BY <1>4, <2>2 DEF Answer, objs, heap
  <2>3. CASE /\ Resolve(p, st) /\ Undecided(p)
             /\ ready' = Enqueue(ReadyAfter(p, st), MkEntry("resume", cur), CompleterPriority(p, st))
    <3>1. PICK e \in Entry : e = MkEntry("resume", cur) /\ e.kind = "resume"
      BY <1>1, <2>1, EntriesTyped
    <3>2. PICK h \in Heaps : h = ReadyAfter(p, st)
      BY <1>1, <2>1, ReadyWoken DEF Heaps
    <3>3. Shields(h) \subseteq {i \in Shields(ready) : ~Claims(i, p, st)}
      BY <1>1, <2>1, <3>2, ShieldsWoken
    <3>4. PICK q \in Priority : q = CompleterPriority(p, st)
      BY <1>1, CompleterTyped
    <3>5. Shields(ready') \subseteq Shields(h)
      BY <2>3, <3>1, <3>2, <3>4, ShieldsEnqueued
    <3>. QED  BY <2>1, <2>3, <3>3, <3>5 DEF Step, Settled
  <2>. QED  BY <1>6, <2>2, <2>3 DEF SettlePromise, Refused, Undecided
<1>7. ASSUME NEW s \in Sem, ReleaseSemaphore(s) PROVE Step
  <2>1. Shields(ready') \subseteq Shields(ready)
    BY <1>1, <1>7, ShieldsGranted DEF ReleaseSemaphore
  <2>. QED  BY <1>2, <1>7, <2>1 DEF ReleaseSemaphore, objs
<1>8. ASSUME NEW k \in Waitable, NEW prio \in WaitPriorities, Wait(k, prio) PROVE Step
  BY <1>4, <1>8 DEF Wait, Answer, Handle, Performing, Step, ParkedOnOne, objs, heap
<1>9. ASSUME NEW ks \in KeyLists, Gather(ks) PROVE Step
  <2>1. Pending(ks) \in SUBSET DOMAIN ks /\ \A i \in Pending(ks) : status[ks[i]] \notin Terminal
    BY DEF Pending
  <2>2. Cardinality(Pending(ks)) \in Int
    BY <1>1, KeyListTyped, PendingKeys
  <2>3. CASE Answer
    BY <1>4, <2>3 DEF Answer, objs, heap
  <2>4. CASE ~Answer
    <3>1. /\ RegisterJoin("gather", ks, Pending(ks), Cardinality(Pending(ks)))
          /\ Pending(ks) # {} /\ Performing
      BY <1>9, <2>4 DEF Gather, Handle, Performing, Pending
    <3>. QED  BY <2>1, <2>2, <3>1 DEF Step, ParkedOnMany
  <2>. QED  BY <2>3, <2>4
<1>10. ASSUME NEW ks \in KeyLists, Race(ks) PROVE Step
  <2>1. CASE Answer
    BY <1>4, <2>1 DEF Answer, objs, heap
  <2>2. CASE ~Answer
    <3>1. /\ RegisterJoin("race", ks, DOMAIN ks, 0) /\ Performing /\ ks # <<>>
          /\ \A i \in DOMAIN ks : status[ks[i]] \notin Terminal
      BY <1>10, <2>2 DEF Race, RaceAnswered, Handle, Performing
    <3>2. DOMAIN ks # {}
      <4>1. PICK m \in Nat : ks \in [1..m -> Waitable]
        BY <1>1, KeyListTyped
      <4>. QED  BY <3>1, <4>1
    <3>3. DOMAIN ks \in SUBSET DOMAIN ks /\ 0 \in Int
      OBVIOUS
    <3>. QED  BY <3>1, <3>2, <3>3 DEF Step, ParkedOnMany
  <2>. QED  BY <2>1, <2>2
<1>11. ASSUME UserEffect PROVE Step
  <2>1. ASSUME NEW t \in Task, Cancel(t) PROVE Step
    BY <1>3, <1>4, <2>1 DEF Cancel, Waitable, Terminal, Undecided
  <2>2. ASSUME NEW k \in Waitable, \/ \E p \in Promise : k = p /\ CreatePromise(p)
                                   \/ \E e \in ExtPromise : k = e /\ CreateExternalPromise(e)
        PROVE  Step
    BY <1>2, <2>2 DEF CreatePromise, CreateExternalPromise, heap
  <2>3. ASSUME NEW s \in Sem, NEW n \in PermitCounts, CreateSemaphore(s, n) PROVE Step
    BY <1>2, <2>3 DEF CreateSemaphore, heap
  <2>4. ASSUME NEW s \in Sem, AcquireSemaphore(s) PROVE Step
    BY <1>4, <2>4 DEF AcquireSemaphore, objs, heap
  <2>. QED  BY <1>5, <1>6, <1>7, <1>8, <1>9, <1>10, <1>11, <2>1, <2>2, <2>3, <2>4
            DEF UserEffect, Waitable
<1>12. ASSUME OwnerEnds PROVE Step
  <2>1. ASSUME cur \in Task, Performing
        PROVE  cur \in Waitable /\ (Undecided(cur) \/ IsCancelled(cur))
    BY <1>1, <2>1, RunningStatus DEF Performing, Undecided, IsCancelled, Waitable
  <2>2. ASSUME NEW st \in {"completed", "failed"}, TaskCompleted(st) PROVE Step
    BY <1>3, <1>4, <2>1, <2>2 DEF TaskCompleted, Waitable, Terminal, Performing
  <2>3. ASSUME TaskInterrupted PROVE Step
    BY <1>3, <1>4, <2>1, <2>3 DEF TaskInterrupted, Waitable, Terminal, Performing, IsCancelled
  <2>. QED  BY <1>4, <1>12, <2>2, <2>3 DEF OwnerEnds, RootReturn, RootRaise, objs, heap
<1>13. ASSUME DrainOne \/ Unblock PROVE Step
  <2>1. Head(extq) \in [key : ExtPromise, result : {"completed", "failed"}]
    <3> DEFINE T == [key : ExtPromise, result : {"completed", "failed"}]
    <3>1. extq \in Seq(T) /\ extq # <<>>
      BY <1>1, <1>13 DEF TypeOK, DrainOne, Unblock
    <3> HIDE DEF T
    <3>2. Head(extq) \in T
      BY <3>1
    <3>. QED  BY <3>2 DEF T
  <2>2. PICK m \in [key : ExtPromise, result : {"completed", "failed"}] : m = Head(extq)
    BY <2>1
  <2>3. m.key \in Waitable /\ m.result \in Terminal
    BY DEF Waitable, Terminal
  <2>. QED  BY <1>3, <1>4, <1>13, <2>2, <2>3 DEF DrainOne, Unblock, Undecided
<1>14. ASSUME NEW p \in Priority, NEW e, Popping(p, e),
              ready' = Without(p) \/ (e.key \in Sem /\ ready' = Transferred(Without(p), e.key))
       PROVE  Shields(ready') \subseteq Shields(ready)
  <2>1. /\ held[p] + 1 \in DOMAIN ready[p] /\ Without(p) \in Heaps
    BY <1>1, <1>14, Popped
  <2>2. Shields(Without(p)) \subseteq Shields(ready)
    BY <1>1, <2>1, ShieldsPopped DEF Without
  <2>. QED  BY <1>1, <1>14, <2>1, <2>2, ShieldsGranted
<1>15. ASSUME Pop PROVE Step
  <2>1. ASSUME NEW p \in Priority, NEW e, Dispatch(p, e) PROVE Step
    <3>1. /\ Popping(p, e) /\ e.kind # "wait_external" /\ ~IsCancelled(e.owner)
          /\ status' = IF e.kind = "new" THEN [status EXCEPT ![e.owner] = "running"] ELSE status
      BY <2>1 DEF Dispatch, Runnable
    <3>2. e \in Entry /\ e.owner \in Owner /\ e \in QueuedFor(e.owner)
      BY <1>1, <3>1, Popped DEF Entry, QueuedFor
    <3>3. PICK place : /\ Fits(e.owner, place) /\ place = "heap"
      BY <1>1, <3>1, <3>2, PopPlaces
    <3>4. Unfinished(e.owner)
      BY <3>1, <3>3 DEF Fits
    <3>5. UNCHANGED parked /\ Shields(ready') \subseteq Shields(ready)
      BY <1>14, <2>1, <3>1 DEF Dispatch
    <3>6. CASE e.owner \in Task
      BY <1>2, <3>1, <3>4, <3>5, <3>6, DistinctIds DEF Unfinished, Undecided, Waitable
    <3>7. CASE e.owner = Root
      <4>1. status' = status
        BY <1>1, <3>1, <3>7, DistinctIds
      <4>. QED  BY <1>2, <3>5, <4>1
    <3>. QED  BY <3>2, <3>6, <3>7 DEF Owner
  <2>2. ASSUME NEW p \in Priority, NEW e, DropDead(p, e) PROVE Step
    BY <1>2, <1>14, <2>2 DEF DropDead, objs
  <2>3. ASSUME NEW p \in Priority, NEW e, DropDeadGrant(p, e) PROVE Step
    <3>1. e.key \in Sem
      BY <1>1, <2>3, Popped DEF DropDeadGrant
    <3>. QED  BY <1>2, <1>14, <2>3, <3>1 DEF DropDeadGrant, objs
  <2>. QED  BY <1>4, <1>15, <2>1, <2>2, <2>3 DEF Pop, HoldDaemon, DeferPlaceholder,
               BlockOnPlaceholder, objs, heap
<1>16. ASSUME RequeuePlaceholder PROVE Step
  <2> DEFINE E == PRIORITY_EXTERNAL_WAIT
  <2>1. /\ pc = "afterPlaceholder" /\ E \in Priority /\ \A q \in Priority : held[q] = 0
    BY <1>1, <1>16, NothingHeld DEF RequeuePlaceholder, Priority
  <2>2. ready[E] \in Seq(Entry) /\ ready[E] # <<>>
    BY <1>1, <2>1 DEF Frame, HeldForWork, TypeOK
  <2>3. 1 \in DOMAIN ready[E] /\ held[E] + 1 = 1 /\ ready[E][1] \in Entry
    BY <2>1, <2>2
  <2>4. PICK e \in Entry : e = ready[E][1] /\ e = ready[E][held[E] + 1]
    BY <2>3
  <2>5. /\ ready' = IF e.claimed THEN Without(E) ELSE Enqueue(Without(E), e, E)
        /\ UNCHANGED <<objs, parked>>
    BY <1>16, <2>4 DEF RequeuePlaceholder
  <2>6. PICK h \in Heaps : h = Without(E) /\ Shields(h) \subseteq Shields(ready)
    <3>1. Without(E) = [ready EXCEPT ![E] = RemoveAt(@, 1)]
      BY <2>3 DEF Without
    <3>2. [ready EXCEPT ![E] = RemoveAt(@, 1)] \in Heaps
      BY <1>1, <2>1, <2>3, WithoutKeeps
    <3>. QED  BY <1>1, <2>1, <2>3, <3>1, <3>2, ShieldsPopped
  <2>7. e.kind = "wait_external" /\ ~e.claimed => e \in Shields(ready)
    BY <2>1, <2>3, <2>4 DEF Shields
  <2>8. e.kind = "wait_external"
    BY <1>1, <2>1, <2>4 DEF Frame, HeldForWork
  <2>9. Shields(ready') \subseteq Shields(ready)
    <3>1. CASE e.claimed
      BY <2>5, <2>6, <3>1
    <3>2. CASE ~e.claimed
      <4>1. Shields(Enqueue(h, e, E)) \subseteq Shields(h) \cup {e}
        BY <2>1, ShieldsEnqueued
      <4>. QED  BY <2>5, <2>6, <2>7, <2>8, <3>2, <4>1
    <3>. QED  BY <3>1, <3>2
  <2>. QED  BY <1>2, <2>5, <2>9 DEF objs
<1>17. ASSUME SchedulerStep PROVE Step
  BY <1>4, <1>13, <1>15, <1>16, <1>17 DEF SchedulerStep, DrainDone, NothingReady, objs, heap
<1>18. ASSUME PassEffect \/ Environment \/ UNCHANGED vars PROVE Step
  BY <1>4, <1>18 DEF PassEffect, Answer, Environment, Put, DropHandle, vars, objs, heap
<1>. QED  BY <1>11, <1>12, <1>17, <1>18 DEF Next

(* How a status moves.                                                         *)
Moves(w) ==
  \/ status'[w] = status[w]
  \/ status[w] = "unborn" /\ status'[w] = "pending"
  \/ Sweepable(w) /\ status'[w] = "swept"
  \/ w \in Owner /\ Undecided(w) /\ status'[w] = "running"
  \/ Undecided(w) /\ status'[w] \in Terminal

(* A step that leaves the registrations alone decides nothing.                 *)
LEMMA NothingDecided ==
  ASSUME TypeOK, Moved, NEW w \in Waitable
  PROVE  Moves(w) /\ (Undecided(w) => status'[w] \in {"pending", "running"})
<1>1. /\ status \in [Waitable -> {"unborn", "pending", "running", "swept"} \cup Terminal]
      /\ Swept \in [Waitable -> {"unborn", "pending", "running", "swept"} \cup Terminal]
  BY StatusTyped DEF TypeOK
<1>2. CASE status' = status
  BY <1>2 DEF Moves, Undecided
<1>3. Swept[w] = status[w] \/ (Sweepable(w) /\ Swept[w] = "swept")
  BY DEF Swept
<1>4. Sweepable(w) => ~Undecided(w)
  BY DEF Sweepable, Undecided
<1>5. CASE status' = Swept
  BY <1>3, <1>4, <1>5 DEF Moves, Undecided
<1>6. ASSUME NEW k \in Waitable, Allocate(k)
      PROVE  Moves(w) /\ (Undecided(w) => status'[w] \in {"pending", "running"})
  <2>1. CASE w = k
    BY <1>1, <1>6, <2>1 DEF Moves, Allocate, Undecided
  <2>2. CASE w # k
    <3>1. status'[w] = status[w] \/ status'[w] = Swept[w]
      BY <1>1, <1>6, <2>2 DEF Allocate
    <3>. QED  BY <1>3, <1>4, <3>1 DEF Moves, Undecided
  <2>. QED  BY <2>1, <2>2
<1>7. ASSUME NEW t \in Task, Undecided(t), status' = [status EXCEPT ![t] = "running"]
      PROVE  Moves(w) /\ (Undecided(w) => status'[w] \in {"pending", "running"})
  BY <1>1, <1>7 DEF Moves, Undecided, Owner
<1>. QED  BY <1>2, <1>5, <1>6, <1>7 DEF Moved

(* Every way a step can change one waitable's status: born, started, decided   *)
(* once, swept after it was decided.                                           *)
LEMMA StatusMoves ==
  ASSUME IInv, [Next]_vars, NEW w \in Waitable PROVE Moves(w)
<1>1. /\ TypeOK
      /\ status \in [Waitable -> {"unborn", "pending", "running", "swept"} \cup Terminal]
  BY DEF IInv, Frame, TypeOK
<1>2. CASE Moved
  BY <1>1, <1>2, NothingDecided
<1>3. CASE Settled
  BY <1>1, <1>3 DEF Settled, Resolve, Moves, Undecided
<1>4. CASE ParkedOnOne \/ ParkedOnMany
  BY <1>4 DEF ParkedOnOne, ParkedOnMany, WaitPending, RegisterJoin, objs, Moves
<1>. QED  BY <1>2, <1>3, <1>4, Steps DEF Step

(* A resolved waitable keeps its outcome until it is swept (OutcomeStable): no *)
(* late or repeated complete or fail, no second settlement, no end of a        *)
(* cancelled task and no late cancellation rewrites it.                        *)
THEOREM OutcomesStable == Spec => OutcomeStable
<1> DEFINE Stable == \A w \in Waitable :
             status[w] \in Terminal =>
               status'[w] = status[w] \/ (status[w] # "cancelled" /\ status'[w] = "swept")
<1>1. ASSUME IInv, [Next]_vars PROVE Stable
  <2>1. ASSUME NEW w \in Waitable, status[w] \in Terminal
        PROVE  status'[w] = status[w] \/ (status[w] # "cancelled" /\ status'[w] = "swept")
    BY <1>1, <2>1, StatusMoves DEF Moves, Undecided, Terminal, Sweepable
  <2>. QED  BY <2>1
<1>2. IInv /\ [Next]_vars => [Stable]_vars
  BY <1>1
<1> HIDE DEF Stable
<1>3. Spec => [][Stable]_vars
  BY <1>2, Inductive, PTL DEF Spec
<1>. QED  BY <1>3 DEF Stable, OutcomeStable

-------------------------------------------------------------------------------
(* The keys the sweep must spare, read off the registrations: those of the    *)
(* joins that are parked.                                                     *)
LEMMA ProtectedFound ==
  TypeOK => \A k : k \in Protected <=>
              \E o \in Owner : Found(waiters, JoinsOf(o)) # {} /\ k \in join[o].keys
<1>1. \A o \in Joining : o \in Owner
  BY DEF Joining
<1>. QED  BY <1>1, JoiningFound DEF Protected

(* No step puts an unobserved waitable under the protection of a Gather.       *)
LEMMA ProtectedShrinks ==
  ASSUME TypeOK, TypeOK', Step PROVE Protected' \subseteq Protected \cup handles
<1>1. ASSUME UNCHANGED parked PROVE Protected' = Protected
  BY <1>1 DEF parked, Protected, Joining
<1>2. (TypeOK => \A k : k \in Protected <=>
         \E o \in Owner : Found(waiters, JoinsOf(o)) # {} /\ k \in join[o].keys)'
  BY ProtectedFound, PTL
<1>3. SUFFICES ASSUME ~UNCHANGED parked, NEW o \in Owner, Found(waiters', JoinsOf(o)) # {}
               PROVE  \/ join'[o].keys \subseteq handles
                      \/ Found(waiters, JoinsOf(o)) # {} /\ join'[o].keys \subseteq join[o].keys
  BY <1>1, <1>2, ProtectedFound
<1>4. join \in [Owner -> [keys : SUBSET Waitable, remaining : Int]]
  BY DEF TypeOK
<1>5. ASSUME NEW k \in Waitable, NEW st \in Terminal, Resolve(k, st)
      PROVE  Found(waiters, JoinsOf(o)) # {} /\ join'[o].keys \subseteq join[o].keys
  <2>1. waiters' = WaitersAfter(k, st) /\ join' = JoinAfter(k, st)
    BY <1>5 DEF Resolve
  <2>2. Found(waiters, JoinsOf(o)) # {}
    <3>1. JoinsOf(o) \in SUBSET Registration /\ JoinsOf(o) \subseteq JoinsOf(o)
      BY DEF JoinsOf
    <3>2. o \notin Decided(k, st)
      BY <1>3, <2>1, <3>1, WaitersWoken
    <3>3. ExistsBijection(Found(WaitersAfter(k, st), JoinsOf(o)),
                          FoundIn(waiters, JoinsOf(o), Waitable \ {k}))
      BY <3>1, <3>2, WaitersWoken
    <3>4. FoundIn(waiters, JoinsOf(o), Waitable \ {k}) # {}
      BY <1>3, <2>1, <3>3, BijectionAlike
    <3>. QED  BY <3>4 DEF FoundIn
  <2>3. join'[o] = NoJoin
        \/ join'[o] = [join[o] EXCEPT !.remaining = @ - Cardinality(GatheredOn(k, o))]
    BY <2>1 DEF JoinAfter
  <2>4. join[o] \in [keys : SUBSET Waitable, remaining : Int]
    BY <1>4
  <2>5. join'[o].keys \subseteq join[o].keys
    BY <2>3, <2>4 DEF NoJoin
  <2>. QED  BY <2>2, <2>5
<1>6. ASSUME NEW k \in handles, NEW prio \in WaitPriorities, WaitPending(k, prio)
      PROVE  Found(waiters, JoinsOf(o)) # {} /\ join'[o].keys \subseteq join[o].keys
  <2>1. join' = join /\ k \in Waitable /\ prio \in Priority \cup {OwnPriority} /\ cur \in Owner
    BY <1>6, Parameters DEF WaitPending, TypeOK
  <2>2. PICK r \in Registration :
          /\ waiters' = [waiters EXCEPT ![k] = Append(@, r)] /\ r.type \in {"wait", "wait_external"}
    <3>1. \A type \in {"wait", "wait_external"} : \A wake \in Priority \cup {OwnPriority} :
             [type |-> type, owner |-> cur, wake |-> wake] \in Registration
      BY <2>1 DEF Registration
    <3>2. \E type \in {"wait", "wait_external"} : \E wake \in Priority \cup {OwnPriority} :
             Park(k, type, wake)
      BY <1>6, <2>1 DEF WaitPending
    <3>. QED  BY <3>1, <3>2 DEF Park
  <2>3. r \notin JoinsOf(o) /\ waiters \in [Waitable -> Seq(Registration)]
    BY <2>2 DEF JoinsOf, TypeOK
  <2>4. ASSUME NEW X
        PROVE  LET g == [waiters EXCEPT ![k] = Append(@, r)] IN
               /\ g \in [Waitable -> Seq(Registration)]
               /\ r \notin X => Found(g, X) = Found(waiters, X)
               /\ r \in X /\ Found(waiters, X) = {} => Single(Found(g, X))
    BY <2>1, <2>3, FamilyAppend
  <2>. QED  BY <1>3, <2>1, <2>2, <2>3, <2>4
<1>7. ASSUME NEW ks \in KeyLists, NEW type \in {"gather", "race"}, NEW remaining \in Int,
             NEW I \in SUBSET DOMAIN ks, RegisterJoin(type, ks, I, remaining)
      PROVE  \/ join'[o].keys \subseteq handles
             \/ Found(waiters, JoinsOf(o)) # {} /\ join'[o].keys \subseteq join[o].keys
  <2>1. \A i \in DOMAIN ks : ks[i] \in handles
    <3>1. PICK n \in 0..MaxKeys : ks \in [1..n -> {k \in handles : <<cur, k>> \in MayWait}]
      BY DEF KeyLists
    <3>. QED  BY <3>1
  <2>2. join' = [join EXCEPT ![cur] = [keys |-> {ks[i] : i \in DOMAIN ks}, remaining |-> remaining]]
    BY <1>7 DEF RegisterJoin
  <2>3. CASE o = cur
    BY <1>4, <2>1, <2>2, <2>3
  <2>4. CASE o # cur
    <3>1. join'[o] = join[o]
      BY <1>4, <2>2, <2>4
    <3>2. Found(waiters', JoinsOf(o)) = Found(waiters, JoinsOf(o))
      <4>1. PICK m \in Nat : ks \in [1..m -> Waitable]
        BY KeyListTyped
      <4>2. PICK r \in Registration : r = [type |-> type, owner |-> cur, wake |-> OwnPriority]
        BY DEF Registration, TypeOK
      <4>3. waiters' = Parked(ks, I, r) /\ I \in SUBSET (1..m) /\ r \notin JoinsOf(o)
        BY <1>7, <2>4, <4>1, <4>2 DEF RegisterJoin, Parked, JoinsOf
      <4>4. /\ Parked(ks, I, r) \in [Waitable -> Seq(Registration)]
            /\ IsFiniteSet(I)
            /\ \A X : /\ r \notin X => Found(Parked(ks, I, r), X) = Found(waiters, X)
                      /\ r \in X /\ Found(waiters, X) = {}
                           => ExistsBijection(Found(Parked(ks, I, r), X), I)
        BY <4>1, <4>3, Registered
      <4>. QED  BY <4>3, <4>4
    <3>. QED  BY <1>3, <3>1, <3>2
  <2>. QED  BY <2>3, <2>4
<1>. QED  BY <1>3, <1>5, <1>6, <1>7 DEF Step, Moved, Settled, ParkedOnOne, ParkedOnMany

(* A step drops handles or allocates one.                                     *)
LEMMA HandlesMoved ==
  ASSUME [Next]_vars
  PROVE  handles' \subseteq handles \/ \E k \in Waitable : Allocate(k)
<1>1. CASE handles' = handles
  BY <1>1
<1>2. CASE Environment
  BY <1>2 DEF Environment, Put, DropHandle, objs
<1>3. CASE UserEffect
  <2>1. ASSUME NEW k \in Waitable, NEW prio \in WaitPriorities, Wait(k, prio) PROVE handles' = handles
    BY <2>1 DEF Wait, Answer, WaitPending, objs
  <2>2. ASSUME NEW ks \in KeyLists, Gather(ks) \/ Race(ks) PROVE handles' = handles
    BY <2>2 DEF Gather, Race, Answer, RegisterJoin, objs
  <2>3. ASSUME NEW p \in Promise \cup ExtPromise, NEW st \in {"completed", "failed"},
               SettlePromise(p, st)
        PROVE  handles' = handles
    BY <2>3 DEF SettlePromise, Answer, objs
  <2>4. ASSUME NEW t \in Task, Cancel(t) PROVE handles' = handles
    BY <2>4 DEF Cancel
  <2>5. ASSUME NEW s \in Sem, \/ \E n \in PermitCounts : CreateSemaphore(s, n)
                              \/ AcquireSemaphore(s) \/ ReleaseSemaphore(s)
        PROVE  handles' = handles
    BY <2>5 DEF CreateSemaphore, AcquireSemaphore, ReleaseSemaphore, objs
  <2>. QED  BY <1>3, <2>1, <2>2, <2>3, <2>4, <2>5 DEF UserEffect, Spawn, CreatePromise,
               CreateExternalPromise, Waitable
<1>4. CASE PassEffect \/ OwnerEnds \/ UNCHANGED vars
  BY <1>4 DEF PassEffect, Answer, OwnerEnds, TaskCompleted, RootReturn, RootRaise,
              TaskInterrupted, objs, vars
<1>5. CASE SchedulerStep
  BY <1>5 DEF SchedulerStep, DrainOne, DrainDone, Unblock, RequeuePlaceholder, NothingReady, Pop,
              Dispatch, HoldDaemon, DropDead, DropDeadGrant, DeferPlaceholder,
              BlockOnPlaceholder, objs
<1>. QED  BY <1>2, <1>3, <1>4, <1>5 DEF Next

(* Whatever a handle or a parked join can still ask for has not been swept.   *)
LEMMA KeptNext == ASSUME IInv, Kept, [Next]_vars PROVE Kept'
<1>1. TypeOK /\ TypeOK'
  BY FrameNext DEF IInv, Frame
<1>2. \A w \in Waitable : Moves(w)
  BY StatusMoves
<1>3. Protected \subseteq Waitable /\ handles \subseteq Waitable
  BY <1>1, ProtectedFound DEF TypeOK
<1>4. Protected' \subseteq Protected \cup handles
  BY <1>1, ProtectedShrinks, Steps
<1>5. \A k \in Protected \cup handles : status'[k] # "swept"
  BY <1>2, <1>3 DEF Kept, Moves, Sweepable, Terminal
<1>6. \A k \in handles : status'[k] # "unborn"
  BY <1>2, <1>3 DEF Kept, Moves, Terminal
<1>7. ASSUME NEW k \in handles', k \notin handles PROVE status'[k] = "pending"
  <2>1. PICK j \in Waitable : Allocate(j)
    BY <1>7, HandlesMoved
  <2>2. k = j
    BY <1>7, <2>1 DEF Allocate
  <2>3. Swept \in [Waitable -> {"unborn", "pending", "running", "swept"} \cup Terminal]
    BY <1>1, StatusTyped
  <2>. QED  BY <1>1, <2>1, <2>2, <2>3 DEF Allocate, TypeOK
<1>8. \A w \in Waitable \ Owner : status'[w] # "running"
  BY <1>2 DEF Kept, Moves, Terminal
<1>. QED  BY <1>4, <1>5, <1>6, <1>7, <1>8 DEF Kept

(* Nothing happens after the run has ended.                                   *)
LEMMA NoStepEnded == ASSUME Next PROVE pc \notin Ended
<1>1. ASSUME UserEffect PROVE pc \notin Ended
  <2>1. pc \in {"user", "effect"}
    <3>1. ASSUME NEW ks \in KeyLists, Gather(ks) \/ Race(ks) PROVE pc \in {"user", "effect"}
      BY <3>1 DEF Gather, Race, Handle
    <3>2. ASSUME NEW s \in Sem, \/ \E n \in PermitCounts : CreateSemaphore(s, n)
                                \/ AcquireSemaphore(s) \/ ReleaseSemaphore(s)
          PROVE  pc \in {"user", "effect"}
      BY <3>2 DEF CreateSemaphore, AcquireSemaphore, ReleaseSemaphore, Handle
    <3>. QED  BY <1>1, <3>1, <3>2 DEF UserEffect, Spawn, Wait, Cancel, CreatePromise,
                 SettlePromise, CreateExternalPromise, Handle
  <2>. QED  BY <2>1 DEF Ended
<1>2. ASSUME PassEffect \/ OwnerEnds PROVE pc \notin Ended
  BY <1>2 DEF PassEffect, OwnerEnds, TaskCompleted, RootReturn, RootRaise, TaskInterrupted, Ended
<1>3. ASSUME Pop PROVE pc \notin Ended
  <2>1. PICK p \in Priority : \E e : Popping(p, e)
    BY <1>3 DEF Pop, Dispatch, HoldDaemon, DropDead, DropDeadGrant, DeferPlaceholder,
                BlockOnPlaceholder
  <2>. QED  BY <2>1 DEF Popping, Ended
<1>4. ASSUME SchedulerStep \/ Environment PROVE pc \notin Ended
  BY <1>3, <1>4 DEF SchedulerStep, Environment, DrainOne, DrainDone, Unblock, RequeuePlaceholder,
                    NothingReady, Put, DropHandle, Ended
<1>. QED  BY <1>1, <1>2, <1>3, <1>4 DEF Next

(* The steps that end the run.                                                 *)
LEMMA Ending ==
  ASSUME Next, pc' \in Ended
  PROVE  \/ RootReturn \/ RootRaise \/ TaskInterrupted \/ NothingReady
         \/ \E p \in Priority : \E e : BlockOnPlaceholder(p, e)
<1>1. CASE UserEffect \/ PassEffect
  <2>1. pc' \in {"user", "drain"}
    BY <1>1 DEF UserEffect, PassEffect, Spawn, Wait, WaitPending, Gather, Race, RegisterJoin, Cancel,
                CreatePromise, SettlePromise, CreateExternalPromise, CreateSemaphore,
                AcquireSemaphore, ReleaseSemaphore, Answer, Reply, Suspend
  <2>. QED  BY <2>1 DEF Ended
<1>2. CASE OwnerEnds
  BY <1>2 DEF OwnerEnds, TaskCompleted, Suspend, Ended
<1>3. CASE SchedulerStep
  BY <1>3, NoStepEnded DEF SchedulerStep, DrainOne, DrainDone, Unblock, RequeuePlaceholder, Pop,
       Dispatch, HoldDaemon, DropDead, DropDeadGrant, DeferPlaceholder, Ended
<1>4. CASE Environment
  BY <1>4 DEF Environment, Put, DropHandle
<1>. QED  BY <1>1, <1>2, <1>3, <1>4 DEF Next

(* Whoever is in its place is unfinished, or cancelled.                       *)
LEMMA PlacedGhosts ==
  \A o \in Owner : Located(o) /\ Anywhere(o) => Unfinished(o) \/ IsCancelled(o)
BY DEF Located, At, Site, Anywhere, Fits

(* No step leaves a finished task running, queued or parked.                  *)
LEMMA NoGhostsNext == ASSUME IInv, NoGhosts, [Next]_vars PROVE NoGhosts'
<1>0. (\A o \in Owner : Located(o) /\ Anywhere(o) => Unfinished(o) \/ IsCancelled(o))'
  BY PlacedGhosts, PTL
<1>1. IInv' /\ TypeOK /\ Safe
  BY IInvNext DEF IInv, Frame, Safe
<1>2. CASE pc' \notin Ended
  <2>1. \A o \in Owner : Located(o)'
    BY <1>1, <1>2 DEF IInv, Placed
  <2>. QED  BY <1>0, <2>1 DEF NoGhosts
<1>3. CASE UNCHANGED vars
  <2>1. UNCHANGED <<status, waiters, ready, semWaiters, cur, pc>>
    BY <1>3 DEF vars, objs, parked, heap, sems
  <2>2. ASSUME NEW o \in Owner, Anywhere(o)' PROVE (Unfinished(o) \/ IsCancelled(o))'
    BY <2>1, <2>2 DEF NoGhosts, Anywhere, Unfinished, IsCancelled, Running
  <2>. QED  BY <2>2 DEF NoGhosts
<1>4. CASE Next /\ pc' \in Ended
  <2>1. pc \notin Ended
    BY <1>4, NoStepEnded
  <2>2. ASSUME NEW o \in Owner, Anywhere(o)' PROVE (Unfinished(o) \/ IsCancelled(o))'
    <3>1. ~Running(o)'
      BY <1>4 DEF Running, Ended
    <3>2. CASE RootReturn \/ RootRaise
      <4>1. UNCHANGED <<status, waiters, ready, semWaiters>>
        BY <3>2 DEF RootReturn, RootRaise, objs, parked, heap, sems
      <4>. QED  BY <2>2, <3>1, <4>1 DEF NoGhosts, Anywhere, Unfinished, IsCancelled
    <3>3. CASE TaskInterrupted
      <4>1. /\ cur \in Task /\ cur \in Owner /\ cur \in Waitable /\ pc = "user"
            /\ "failed" \in Terminal /\ semWaiters' = semWaiters
        BY <3>3 DEF TaskInterrupted, Owner, Waitable, Terminal, sems
      <4>2. CASE UNCHANGED <<status, parked, ready>>
        BY <2>2, <3>1, <4>1, <4>2 DEF NoGhosts, Anywhere, Unfinished, IsCancelled, parked
      <4>3. CASE ResolveAndWake(cur, "failed")
        <5>1. PICK place \in PlaceName \cup {"nowhere"} :
                /\ Site(place, Running(o), Found(ReadyAfter(cur, "failed"), QueuedFor(o)),
                        Found(WaitersAfter(cur, "failed"), WaitsOf(o)),
                        Found(WaitersAfter(cur, "failed"), JoinsOf(o)), Found(semWaiters, {o}))
                /\ Fits(o, place)
          BY <1>1, <2>1, <4>1, WakeStep DEF Safe
        <5>2. /\ ready' = ReadyAfter(cur, "failed") /\ waiters' = WaitersAfter(cur, "failed")
              /\ status' = [status EXCEPT ![cur] = "failed"]
          BY <4>3 DEF ResolveAndWake, Resolve
        <5>3. place \notin {"nowhere", "run"}
          BY <2>2, <3>1, <4>1, <5>1, <5>2 DEF Anywhere, Site
        <5>4. o # cur
          BY <4>1, <5>1, <5>3 DEF Site, Running
        <5>5. o \in Task => status'[o] = status[o]
          BY <1>1, <5>2, <5>4 DEF TypeOK, Waitable
        <5>6. Fits(o, place)'
          BY <5>1, <5>5, FitsKept
        <5>. QED  BY <5>3, <5>6 DEF Fits
      <4>. QED  BY <3>3, <4>2, <4>3 DEF TaskInterrupted
    <3>4. CASE NothingReady \/ \E p \in Priority : \E e : BlockOnPlaceholder(p, e)
      <4>1. /\ UNCHANGED <<status, parked, waiters, ready, cur>>
            /\ pc \notin {"user", "effect"} /\ pc' \notin {"user", "effect"}
            /\ semWaiters' = semWaiters \/ semWaiters' = PrunedWaiters
        BY <1>4, <3>4 DEF NothingReady, BlockOnPlaceholder, Popping, objs, parked, heap, Ended
      <4>2. CASE semWaiters' = PrunedWaiters
        <5>1. Located(o)'
          BY <1>1, <2>1, <4>1, <4>2, PruneStep
        <5>. QED  BY <1>0, <2>2, <5>1
      <4>3. CASE semWaiters' = semWaiters
        BY <2>2, <3>1, <4>1, <4>3 DEF NoGhosts, Anywhere, Unfinished, IsCancelled
      <4>. QED  BY <4>1, <4>2, <4>3
    <3>. QED  BY <1>4, <3>2, <3>3, <3>4, Ending
  <2>. QED  BY <2>2 DEF NoGhosts
<1>. QED  BY <1>2, <1>3, <1>4

(* At the start nothing was swept.                                            *)
LEMMA InitKept == ASSUME Init PROVE Kept
<1>1. Protected = {}
  BY InitEmpty, ProtectedFound
<1>. QED  BY <1>1 DEF Kept, Init

(* Before the first step only the root is anywhere.                            *)
LEMMA InitNoGhosts == ASSUME Init PROVE NoGhosts
<1>1. \A o \in Owner : Anywhere(o) => o = Root
  BY InitEmpty DEF Anywhere, Running, Init
<1>. QED  BY <1>1 DEF NoGhosts, Unfinished

(* The scheduler never reads an entry the sweep deleted (SweptUnused): not of  *)
(* an owner that is still running, queued or parked, nor of a key of an open   *)
(* Gather or Race, whatever _sweep_terminal_entries deletes and whenever.      *)
THEOREM SweptStayUnused == Spec => []SweptUnused
<1>1. Init => NoGhosts /\ Kept
  BY InitNoGhosts, InitKept
<1>2. IInv /\ NoGhosts /\ Kept /\ [Next]_vars => (NoGhosts /\ Kept)'
  BY NoGhostsNext, KeptNext
<1>3. ASSUME TypeOK, NoGhosts, Kept PROVE SweptUnused
  <2>1. ASSUME NEW o \in Owner, Anywhere(o) PROVE ~(o \in Waitable /\ status[o] = "swept")
    BY <1>3, <2>1, DistinctIds DEF NoGhosts, Unfinished, IsCancelled
  <2>2. cur \in Owner /\ (pc \in {"user", "effect"} => Anywhere(cur))
    BY <1>3 DEF TypeOK, Anywhere, Running
  <2>3. ASSUME NEW w \in Waitable, NEW n \in DOMAIN waiters[w]
        PROVE  waiters[w][n].owner \in Owner /\ Anywhere(waiters[w][n].owner)
    <3>1. waiters[w] \in Seq(Registration) /\ w \in DOMAIN waiters
      BY <1>3 DEF TypeOK
    <3>2. waiters[w][n] \in Registration
      BY <3>1
    <3>3. waiters[w][n].owner \in Owner
          /\ \/ waiters[w][n] \in WaitsOf(waiters[w][n].owner)
             \/ waiters[w][n] \in JoinsOf(waiters[w][n].owner)
      BY <3>2 DEF WaitsOf, JoinsOf, Registration
    <3>4. \/ n \in Occ(waiters[w], WaitsOf(waiters[w][n].owner))
          \/ n \in Occ(waiters[w], JoinsOf(waiters[w][n].owner))
      BY <3>3 DEF Occ
    <3>. QED  BY <3>1, <3>3, <3>4, FoundMember DEF Anywhere
  <2>4. ASSUME NEW p \in Priority, NEW n \in DOMAIN ready[p], ready[p][n].kind # "wait_external"
        PROVE  ready[p][n].owner \in Owner /\ Anywhere(ready[p][n].owner)
    <3>1. ready[p] \in Seq(Entry) /\ p \in DOMAIN ready
      BY <1>3 DEF TypeOK
    <3>2. ready[p][n] \in Entry
      BY <3>1
    <3>3. ready[p][n].owner \in Owner /\ n \in Occ(ready[p], QueuedFor(ready[p][n].owner))
      BY <2>4, <3>2 DEF QueuedFor, Entry, Occ
    <3>. QED  BY <3>1, <3>3, FoundMember DEF Anywhere
  <2>5. ASSUME NEW s \in Sem, NEW n \in DOMAIN semWaiters[s]
        PROVE  semWaiters[s][n] \in Owner /\ Anywhere(semWaiters[s][n])
    <3>1. semWaiters[s] \in Seq(Owner) /\ s \in DOMAIN semWaiters
      BY <1>3 DEF TypeOK
    <3>2. semWaiters[s][n] \in Owner /\ n \in Occ(semWaiters[s], {semWaiters[s][n]})
      BY <3>1 DEF Occ
    <3>. QED  BY <3>1, <3>2, FoundMember DEF Anywhere
  <2>. QED  BY <1>3, <2>1, <2>2, <2>3, <2>4, <2>5 DEF SweptUnused, Kept
<1>4. IInv => TypeOK
  BY DEF IInv, Frame
<1>. QED  BY <1>1, <1>2, <1>3, <1>4, Inductive, PTL DEF Spec

-------------------------------------------------------------------------------
(* How a semaphore moves: its pool, its queue.                                 *)
SemMoves(s) ==
  \/ /\ permits'[s] = permits[s] /\ maxPermits'[s] = maxPermits[s]
     /\ semWaiters'[s] = semWaiters[s] \/ semWaiters'[s] = PrunedWaiters[s]
  \/ maxPermits[s] = 0 /\ maxPermits'[s] > 0 /\ semWaiters'[s] = semWaiters[s]
  \/ /\ permits[s] > 0 /\ maxPermits'[s] = maxPermits[s] /\ semWaiters'[s] = semWaiters[s]
  \/ /\ permits[s] = 0 /\ permits'[s] = 0 /\ maxPermits'[s] = maxPermits[s] /\ maxPermits[s] > 0
  \/ /\ maxPermits'[s] = maxPermits[s] /\ semWaiters'[s] = AfterGrant(s)
     /\ permits'[s] # permits[s] => LiveWaiters(s) = {}

(* Every way a step can change a semaphore: created, acquired, queued for,    *)
(* handed over, put back, pruned.                                             *)
LEMMA SemMoved == ASSUME IInv, [Next]_vars, NEW s \in Sem PROVE SemMoves(s)
<1>1. /\ TypeOK /\ Frame /\ permits \in [Sem -> Nat] /\ maxPermits \in [Sem -> Nat]
      /\ semWaiters \in [Sem -> Seq(Owner)]
  BY DEF IInv, Frame, TypeOK
<1>2. ASSUME UNCHANGED <<permits, maxPermits, semWaiters>> PROVE SemMoves(s)
  BY <1>2 DEF SemMoves
<1>3. ASSUME UNCHANGED <<permits, maxPermits>>, semWaiters' = PrunedWaiters PROVE SemMoves(s)
  BY <1>3 DEF SemMoves
<1>4. ASSUME NEW i \in Sem, AcquireSemaphore(i) PROVE SemMoves(s)
  <2>1. CASE i # s
    BY <1>1, <1>4, <2>1 DEF AcquireSemaphore, SemMoves
  <2>2. CASE i = s /\ HasPermit(s)
    BY <1>1, <1>4, <2>2 DEF AcquireSemaphore, SemMoves, HasPermit
  <2>3. CASE i = s /\ ~HasPermit(s)
    <3>1. permits[s] = 0 /\ permits' = permits /\ maxPermits' = maxPermits /\ maxPermits[s] > 0
      BY <1>1, <1>4, <2>3 DEF AcquireSemaphore, HasPermit
    <3>. QED  BY <3>1 DEF SemMoves
  <2>. QED  BY <2>1, <2>2, <2>3
<1>5. ASSUME NEW i \in Sem, NEW from, Grant(i, from), UNCHANGED maxPermits,
             permits' = permits \/
               (LiveWaiters(i) = {} /\ permits' = [permits EXCEPT ![i] = @ + 1])
      PROVE  SemMoves(s)
  <2>1. semWaiters' = [semWaiters EXCEPT ![i] = AfterGrant(i)]
    BY <1>5 DEF Grant
  <2>2. CASE i # s
    BY <1>1, <1>5, <2>1, <2>2 DEF SemMoves
  <2>3. CASE i = s
    BY <1>1, <1>5, <2>1, <2>3 DEF SemMoves
  <2>. QED  BY <2>2, <2>3
<1>6. ASSUME NEW i \in Sem, NEW n \in PermitCounts, CreateSemaphore(i, n) PROVE SemMoves(s)
  <2>1. n \in Nat \ {0}
    BY Parameters
  <2>. QED  BY <1>1, <1>6, <2>1 DEF CreateSemaphore, SemMoves
<1>7. ASSUME NEW i \in Sem, ReleaseSemaphore(i) PROVE SemMoves(s)
  <2>1. PICK from : Grant(i, from)
    BY <1>7 DEF ReleaseSemaphore
  <2>2. permits[i] \in Nat /\ [permits EXCEPT ![i] = @] = permits
    BY <1>1
  <2>3. permits' = permits \/ (LiveWaiters(i) = {} /\ permits' = [permits EXCEPT ![i] = @ + 1])
    BY <1>7, <2>2 DEF ReleaseSemaphore
  <2>4. UNCHANGED maxPermits
    BY <1>7 DEF ReleaseSemaphore
  <2>. QED  BY <1>5, <2>1, <2>3, <2>4
<1>8. ASSUME NEW p \in Priority, NEW e, DropDeadGrant(p, e) PROVE SemMoves(s)
  <2>1. e.key \in Sem
    BY <1>1, <1>8, Popped DEF DropDeadGrant, Frame
  <2>2. permits[e.key] \in Nat /\ [permits EXCEPT ![e.key] = @] = permits
    BY <1>1, <2>1
  <2>3. \/ permits' = permits
        \/ LiveWaiters(e.key) = {} /\ permits' = [permits EXCEPT ![e.key] = @ + 1]
    BY <1>8, <2>2 DEF DropDeadGrant
  <2>4. UNCHANGED maxPermits /\ Grant(e.key, e.owner)
    BY <1>8 DEF DropDeadGrant
  <2>. QED  BY <1>5, <2>1, <2>3, <2>4
<1>9. ASSUME UserEffect PROVE SemMoves(s)
  <2>1. ASSUME NEW k \in Waitable, NEW prio \in WaitPriorities, Wait(k, prio) PROVE SemMoves(s)
    BY <1>2, <2>1 DEF Wait, WaitPending, Answer, sems
  <2>2. ASSUME NEW ks \in KeyLists, Gather(ks) \/ Race(ks) PROVE SemMoves(s)
    BY <1>2, <2>2 DEF Gather, Race, RegisterJoin, Answer, sems
  <2>3. ASSUME NEW p \in Promise \cup ExtPromise, NEW st \in {"completed", "failed"},
               SettlePromise(p, st)
        PROVE  SemMoves(s)
    BY <1>2, <2>3 DEF SettlePromise, Answer, sems
  <2>. QED  BY <1>2, <1>4, <1>6, <1>7, <1>9, <2>1, <2>2, <2>3 DEF UserEffect, Spawn, Cancel,
               CreatePromise, CreateExternalPromise, sems
<1>10. ASSUME PassEffect \/ OwnerEnds \/ Environment \/ UNCHANGED vars PROVE SemMoves(s)
  BY <1>2, <1>10 DEF PassEffect, Answer, OwnerEnds, TaskCompleted, RootReturn, RootRaise,
                     TaskInterrupted, Environment, Put, DropHandle, vars, sems
<1>11. ASSUME Pop PROVE SemMoves(s)
  <2>1. ASSUME NEW p \in Priority, NEW e, BlockOnPlaceholder(p, e) PROVE SemMoves(s)
    BY <1>2, <1>3, <2>1 DEF BlockOnPlaceholder
  <2>. QED  BY <1>2, <1>8, <1>11, <2>1 DEF Pop, Dispatch, HoldDaemon, DropDead,
               DeferPlaceholder, sems
<1>12. ASSUME SchedulerStep PROVE SemMoves(s)
  BY <1>2, <1>3, <1>11, <1>12 DEF SchedulerStep, DrainOne, DrainDone, Unblock,
               RequeuePlaceholder, NothingReady, sems
<1>. QED  BY <1>9, <1>10, <1>12 DEF Next

(* No step leaves a free permit beside a live waiter.                         *)
LEMMA QueuesServedNext == ASSUME IInv, QueuesServed, [Next]_vars PROVE QueuesServed'
<1>1. TypeOK /\ TypeOK'
  BY FrameNext DEF IInv, Frame
<1>2. ASSUME NEW o, IsCancelled(o) PROVE o \in Task /\ status'[o] = "cancelled"
  <2>1. o \in Waitable /\ Moves(o)
    BY <1>2, StatusMoves DEF IsCancelled, Waitable
  <2>. QED  BY <1>2, <2>1 DEF IsCancelled, Moves, Undecided, Sweepable
<1>3. SUFFICES ASSUME NEW s \in Sem
               PROVE  /\ maxPermits'[s] = 0 => semWaiters'[s] = <<>>
                      /\ permits'[s] > 0 =>
                           \A i \in DOMAIN semWaiters'[s] :
                             semWaiters'[s][i] \in Task /\ status'[semWaiters'[s][i]] = "cancelled"
  BY DEF QueuesServed, IsCancelled
<1>4. /\ permits[s] \in Nat /\ maxPermits[s] \in Nat /\ semWaiters[s] \in Seq(Owner)
      /\ permits'[s] \in Nat /\ maxPermits'[s] \in Nat
      /\ maxPermits[s] = 0 => semWaiters[s] = <<>>
      /\ permits[s] > 0 => \A i \in DOMAIN semWaiters[s] : IsCancelled(semWaiters[s][i])
  BY <1>1 DEF TypeOK, QueuesServed
<1>5. /\ AfterGrant(s) \in Seq(Owner) /\ LiveWaiters(s) \in SUBSET DOMAIN semWaiters[s]
      /\ \A n \in DOMAIN AfterGrant(s) : \E m \in DOMAIN semWaiters[s] :
           AfterGrant(s)[n] = semWaiters[s][m]
  BY <1>1, GrantQueue DEF LiveWaiters
<1>6. LiveWaiters(s) = {} => AfterGrant(s) = <<>> /\ PrunedWaiters[s] = <<>>
  <2>1. ASSUME LiveWaiters(s) = {} PROVE PrunedWaiters[s] = <<>>
    <3>1. PrunedWaiters[s] = Subsequence(semWaiters[s], {}) /\ {} \in SUBSET DOMAIN semWaiters[s]
      BY <2>1 DEF PrunedWaiters
    <3>2. Subsequence(semWaiters[s], {}) \in Seq(Owner)
          /\ Len(Subsequence(semWaiters[s], {})) = Cardinality({}) /\ Cardinality({}) = 0
      BY <1>4, <3>1, SubsequenceFacts, FS_EmptySet
    <3>. QED  BY <3>1, <3>2
  <2>. QED  BY <2>1 DEF AfterGrant
<1>7. semWaiters[s] = <<>> => LiveWaiters(s) = {}
  BY <1>5
<1>8. (\A i \in DOMAIN semWaiters[s] : IsCancelled(semWaiters[s][i])) => LiveWaiters(s) = {}
  BY DEF LiveWaiters
<1>9. SemMoves(s)
  BY SemMoved
<1>10. CASE /\ permits'[s] = permits[s] /\ maxPermits'[s] = maxPermits[s]
            /\ semWaiters'[s] = semWaiters[s] \/ semWaiters'[s] = PrunedWaiters[s]
  BY <1>2, <1>4, <1>6, <1>7, <1>8, <1>10
<1>11. CASE maxPermits[s] = 0 /\ maxPermits'[s] > 0 /\ semWaiters'[s] = semWaiters[s]
  BY <1>4, <1>11
<1>12. CASE permits[s] > 0 /\ maxPermits'[s] = maxPermits[s] /\ semWaiters'[s] = semWaiters[s]
  BY <1>2, <1>4, <1>12
<1>13. CASE permits'[s] = 0 /\ maxPermits'[s] = maxPermits[s] /\ maxPermits[s] > 0
  BY <1>4, <1>13
<1>14. CASE /\ maxPermits'[s] = maxPermits[s] /\ semWaiters'[s] = AfterGrant(s)
            /\ permits'[s] # permits[s] => LiveWaiters(s) = {}
  BY <1>2, <1>4, <1>5, <1>6, <1>7, <1>14
<1>. QED  BY <1>9, <1>10, <1>11, <1>12, <1>13, <1>14 DEF SemMoves

(* A permit is in the pool only when no live owner is parked for it            *)
(* (NoIdlePermit): ReleaseSemaphore and the return of a permit that travelled  *)
(* to a cancelled task look at the queue first, whatever was cancelled since.  *)
THEOREM PermitsServe == Spec => []NoIdlePermit
<1>1. Init => QueuesServed
  BY DEF Init, QueuesServed
<1>2. IInv /\ QueuesServed /\ [Next]_vars => QueuesServed'
  BY QueuesServedNext
<1>3. QueuesServed => NoIdlePermit
  BY DEF QueuesServed, NoIdlePermit
<1>. QED  BY <1>1, <1>2, <1>3, Inductive, PTL DEF Spec

-------------------------------------------------------------------------------
(* What a Gather or Race adds: a placeholder for each external promise it      *)
(* waits for, and a registration behind it.                                    *)
Added(ks, I) == {Placeholder(cur, ks[i]) : i \in {i \in I : ks[i] \in ExtPromise}}

(* A parked Gather or Race adds a placeholder for each external key, and the  *)
(* registration that goes with it.                                            *)
LEMMA JoinShields ==
  ASSUME TypeOK, NEW m \in Nat, NEW ks \in [1..m -> Waitable], NEW I \in SUBSET (1..m),
         NEW type \in {"gather", "race"}, NEW remaining, RegisterJoin(type, ks, I, remaining)
  PROVE  /\ Shields(ready') \subseteq Shields(ready) \cup Added(ks, I)
         /\ \A w \in Waitable : \A n \in DOMAIN waiters[w] :
              n \in DOMAIN waiters'[w] /\ waiters'[w][n] = waiters[w][n]
         /\ \A i \in I : \E n \in DOMAIN waiters'[ks[i]] :
              waiters'[ks[i]][n].owner = cur /\ waiters'[ks[i]][n].type = type
         /\ Grants(ready') \subseteq Grants(ready)
         /\ \A q \in Priority : \A n \in DOMAIN ready[q] :
              n \in DOMAIN ready'[q] /\ ready'[q][n] = ready[q][n]
<1> DEFINE r == [type |-> type, owner |-> cur, wake |-> OwnPriority]
           On(w) == {i \in I : ks[i] = w}
           shields == [i \in DOMAIN ks |-> Placeholder(cur, ks[i])]
           J == {i \in I : ks[i] \in ExtPromise}
           E == PRIORITY_EXTERNAL_WAIT
           t == Subsequence(shields, J)
           T(w) == [n \in 1..Cardinality(On(w)) |-> r]
<1>1. /\ waiters' = [w \in Waitable |-> waiters[w] \o T(w)]
      /\ ready' = [ready EXCEPT ![E] = @ \o t]
  BY DEF RegisterJoin
<1>2. cur \in Owner /\ DOMAIN ks = 1..m /\ r \in Registration
  BY DEF TypeOK, Registration
<1>3. shields \in Seq(Entry) /\ J \in SUBSET DOMAIN shields /\ DOMAIN shields = 1..m
  <2>1. \A i \in 1..m : Placeholder(cur, ks[i]) \in Entry
    BY <1>2, EntriesTyped
  <2>2. shields = [i \in 1..m |-> Placeholder(cur, ks[i])]
    BY <1>2
  <2> HIDE DEF shields
  <2>3. shields \in [1..m -> Entry]
    BY <2>1, <2>2
  <2>4. shields \in Seq(Entry) /\ DOMAIN shields = 1..m
    BY <2>3
  <2>. QED  BY <2>4
<1>4. /\ t \in Seq(Entry)
      /\ \A n \in DOMAIN t : t[n] \in Added(ks, I)
  <2>1. /\ t \in Seq(Entry) /\ Len(t) = Cardinality(J)
        /\ \E f \in Bijection(1..Cardinality(J), J) :
             \A n \in 1..Cardinality(J) : t[n] = shields[f[n]]
    <3> HIDE DEF shields, J
    <3>. QED  BY <1>3, SubsequenceFacts
  <2>2. PICK f \in Bijection(1..Cardinality(J), J) :
           \A n \in 1..Cardinality(J) : t[n] = shields[f[n]]
    BY <2>1
  <2>3. \A n \in 1..Cardinality(J) : f[n] \in J
    BY DEF Bijection, Injection, IsInjective
  <2>4. DOMAIN t = 1..Cardinality(J)
    <3> HIDE DEF t, J
    <3>. QED  BY <2>1
  <2>5. \A n \in 1..Cardinality(J) : t[n] = Placeholder(cur, ks[f[n]])
    BY <1>2, <2>2, <2>3
  <2>. QED  BY <2>1, <2>3, <2>4, <2>5 DEF Added
<1>5. \A w \in Waitable : IsFiniteSet(On(w)) /\ Cardinality(On(w)) \in Nat
  <2>1. IsFiniteSet(1..m)
    BY FS_Interval
  <2>. QED  BY <2>1, FS_Subset, FS_CardinalityType
<1>6. ASSUME NEW w \in Waitable
      PROVE  /\ \A n \in DOMAIN waiters[w] :
                   n \in DOMAIN waiters'[w] /\ waiters'[w][n] = waiters[w][n]
             /\ \A i \in I : ks[i] = w => \E n \in DOMAIN waiters'[w] : waiters'[w][n] = r
  <2>0. /\ T(w) \in Seq(Registration) /\ Len(T(w)) = Cardinality(On(w))
        /\ \A n \in 1..Len(T(w)) : T(w)[n] = r
    <3>1. PICK c \in Nat : c = Cardinality(On(w))
      BY <1>5
    <3> HIDE DEF On, r
    <3>2. T(w) = [n \in 1..c |-> r]
      BY <3>1
    <3>. QED  BY <1>2, <3>1, <3>2
  <2> HIDE DEF T
  <2>1. /\ waiters[w] \in Seq(Registration) /\ T(w) \in Seq(Registration)
        /\ waiters'[w] = waiters[w] \o T(w) /\ Cardinality(On(w)) \in Nat
    BY <1>1, <1>5, <2>0 DEF TypeOK
  <2>2. Len(T(w)) = Cardinality(On(w)) /\ \A n \in 1..Len(T(w)) : T(w)[n] = r
    BY <2>0
  <2>3. ASSUME NEW i \in I, ks[i] = w PROVE Len(T(w)) > 0
    <3>1. On(w) # {}
      BY <2>3
    <3>2. Cardinality(On(w)) # 0
      BY <1>5, <3>1, FS_EmptySet
    <3>. QED  BY <2>1, <2>2, <3>2
  <2>4. /\ Len(waiters'[w]) = Len(waiters[w]) + Len(T(w))
        /\ DOMAIN waiters'[w] = 1..(Len(waiters[w]) + Len(T(w)))
        /\ Len(waiters[w]) \in Nat /\ Len(T(w)) \in Nat
        /\ \A n \in 1..Len(waiters[w]) : waiters'[w][n] = waiters[w][n]
        /\ \A n \in 1..Len(T(w)) : waiters'[w][Len(waiters[w]) + n] = T(w)[n]
    BY <2>1
  <2>5. DOMAIN waiters[w] = 1..Len(waiters[w])
    BY <2>1
  <2>6. ASSUME NEW i \in I, ks[i] = w PROVE \E n \in DOMAIN waiters'[w] : waiters'[w][n] = r
    <3>1. Len(waiters[w]) + 1 \in DOMAIN waiters'[w] /\ 1 \in 1..Len(T(w))
      BY <2>3, <2>4, <2>6
    <3>2. waiters'[w][Len(waiters[w]) + 1] = r
      BY <2>2, <2>4, <3>1
    <3>. QED  BY <3>1, <3>2
  <2>. QED  BY <2>4, <2>5, <2>6
<1>7. /\ Shields(ready') \subseteq Shields(ready) \cup Added(ks, I)
      /\ Grants(ready') \subseteq Grants(ready)
      /\ \A q \in Priority : \A n \in DOMAIN ready[q] :
           n \in DOMAIN ready'[q] /\ ready'[q][n] = ready[q][n]
  <2>1. PICK u \in Seq(Entry) : u = t
    BY <1>4
  <2>2. E \in Priority /\ ready[E] \in Seq(Entry) /\ DOMAIN ready = Priority
    BY DEF TypeOK, Priority
  <2>3. /\ ready'[E] = ready[E] \o u /\ \A q \in Priority \ {E} : ready'[q] = ready[q]
        /\ \A n \in DOMAIN u : u[n] \in Added(ks, I)
    BY <1>1, <1>4, <2>1, <2>2
  <2>4. /\ Len(ready[E]) \in Nat /\ Len(u) \in Nat /\ DOMAIN u = 1..Len(u)
        /\ DOMAIN ready'[E] = 1..(Len(ready[E]) + Len(u)) /\ DOMAIN ready[E] = 1..Len(ready[E])
        /\ \A n \in 1..Len(ready[E]) : ready'[E][n] = ready[E][n]
        /\ \A n \in 1..Len(u) : ready'[E][Len(ready[E]) + n] = u[n]
    BY <2>2, <2>3
  <2> HIDE DEF E
  <2>5. ASSUME NEW q \in Priority, NEW n \in DOMAIN ready'[q]
        PROVE  \/ n \in DOMAIN ready[q] /\ ready'[q][n] = ready[q][n]
               \/ ready'[q][n] \in Added(ks, I)
    <3>1. CASE q # E
      BY <2>3, <3>1
    <3>2. CASE q = E /\ n <= Len(ready[E])
      BY <2>4, <3>2
    <3>3. CASE q = E /\ ~(n <= Len(ready[E]))
      <4>1. n - Len(ready[E]) \in 1..Len(u) /\ n = Len(ready[E]) + (n - Len(ready[E]))
        BY <2>4, <3>3
      <4>. QED  BY <2>3, <2>4, <3>3, <4>1
    <3>. QED  BY <3>1, <3>2, <3>3
  <2>6. ASSUME NEW e \in Shields(ready')
        PROVE  e \in Shields(ready) \cup Added(ks, I)
    <3>1. e \in Entry /\ e.kind = "wait_external" /\ ~e.claimed
      BY DEF Shields
    <3>2. PICK q \in Priority : \E n \in DOMAIN ready'[q] : ready'[q][n] = e
      BY DEF Shields
    <3>3. PICK n \in DOMAIN ready'[q] : ready'[q][n] = e
      BY <3>2
    <3>4. CASE n \in DOMAIN ready[q] /\ ready'[q][n] = ready[q][n]
      <4>1. n \in DOMAIN ready[q] /\ ready[q][n] = e
        BY <3>3, <3>4
      <4>. QED  BY <3>1, <4>1 DEF Shields
    <3>5. CASE ready'[q][n] \in Added(ks, I)
      BY <3>3, <3>5
    <3>. QED  BY <2>5, <3>4, <3>5
  <2>7. \A e \in Added(ks, I) : e.kind = "wait_external"
    BY DEF Added, Placeholder
  <2>8. Grants(ready') \subseteq Grants(ready)
    BY <2>5, <2>7 DEF Grants
  <2>9. \A q \in Priority : \A n \in DOMAIN ready[q] :
          n \in DOMAIN ready'[q] /\ ready'[q][n] = ready[q][n]
    <3> TAKE q \in Priority
    <3> TAKE n \in DOMAIN ready[q]
    <3>1. CASE q # E
      <4>1. ready'[q] = ready[q]
        BY <2>3, <3>1
      <4>. QED  BY <4>1
    <3>2. CASE q = E
      <4>1. n \in 1..Len(ready[E]) /\ n \in 1..(Len(ready[E]) + Len(u))
        BY <2>4, <3>2
      <4>. QED  BY <2>4, <3>2, <4>1
    <3>. QED  BY <3>1, <3>2
  <2>. QED  BY <2>6, <2>8, <2>9
<1>8. ASSUME NEW i \in I
      PROVE  \E n \in DOMAIN waiters'[ks[i]] :
               waiters'[ks[i]][n].owner = cur /\ waiters'[ks[i]][n].type = type
  <2>1. PICK w \in Waitable : w = ks[i]
    BY <1>2
  <2>2. r.owner = cur /\ r.type = type
    OBVIOUS
  <2> HIDE DEF r
  <2>3. PICK n \in DOMAIN waiters'[w] : waiters'[w][n] = r
    BY <1>6, <2>1
  <2>. QED  BY <2>1, <2>2, <2>3
<1> HIDE DEF r, On, shields, J, E, t, T
<1>. QED  BY <1>6, <1>7, <1>8

(* A parked Wait on an external promise adds one placeholder, and the         *)
(* registration that goes with it.                                            *)
LEMMA WaitShields ==
  ASSUME TypeOK, NEW k \in Waitable, NEW prio \in WaitPriorities, WaitPending(k, prio)
  PROVE  /\ \/ Shields(ready') \subseteq Shields(ready)
            \/ /\ k \in ExtPromise /\ Shields(ready') \subseteq Shields(ready) \cup {Placeholder(cur, k)}
               /\ \E n \in DOMAIN waiters'[k] :
                     waiters'[k][n].owner = cur /\ waiters'[k][n].type = "wait_external"
         /\ \A w \in Waitable : \A n \in DOMAIN waiters[w] :
              n \in DOMAIN waiters'[w] /\ waiters'[w][n] = waiters[w][n]
<1>1. PICK r : /\ waiters' = [waiters EXCEPT ![k] = Append(@, r)] /\ r.owner = cur
               /\ \/ ready' = ready
                  \/ /\ k \in ExtPromise /\ r.type = "wait_external"
                     /\ ready' = Enqueue(ready, Placeholder(cur, k), PRIORITY_EXTERNAL_WAIT)
  BY DEF WaitPending, Park
<1>2. waiters \in [Waitable -> Seq(Registration)] /\ waiters[k] \in Seq(Registration)
  BY DEF TypeOK
<1>3. /\ waiters'[k] = Append(waiters[k], r) /\ \A w \in Waitable \ {k} : waiters'[w] = waiters[w]
  BY <1>1, <1>2
<1>4. /\ \A n \in DOMAIN waiters[k] : n \in DOMAIN waiters'[k] /\ waiters'[k][n] = waiters[k][n]
      /\ Len(waiters[k]) + 1 \in DOMAIN waiters'[k] /\ waiters'[k][Len(waiters[k]) + 1] = r
  BY <1>2, <1>3
<1>5. \A w \in Waitable : \A n \in DOMAIN waiters[w] :
        n \in DOMAIN waiters'[w] /\ waiters'[w][n] = waiters[w][n]
  BY <1>3, <1>4
<1>6. /\ Placeholder(cur, k) \in Entry /\ ready \in Heaps /\ PRIORITY_EXTERNAL_WAIT \in Priority
  BY EntriesTyped DEF Priority
<1>7. CASE ready' = ready
  BY <1>5, <1>7
<1>8. CASE /\ k \in ExtPromise /\ r.type = "wait_external"
           /\ ready' = Enqueue(ready, Placeholder(cur, k), PRIORITY_EXTERNAL_WAIT)
  <2>1. Shields(ready') \subseteq Shields(ready) \cup {Placeholder(cur, k)}
    BY <1>6, <1>8, ShieldsEnqueued
  <2>. QED  BY <1>1, <1>4, <1>5, <1>8, <2>1
<1>. QED  BY <1>1, <1>7, <1>8

(* ShieldsLive, read off the set of unclaimed placeholders.                   *)
LEMMA ShieldsAre ==
  TypeOK => (ShieldsLive <=> \A e \in Shields(ready) : IsCancelled(e.owner) \/ Shield(e))
<1> SUFFICES ASSUME TypeOK
             PROVE  ShieldsLive <=> \A e \in Shields(ready) : IsCancelled(e.owner) \/ Shield(e)
  OBVIOUS
<1>1. \A p \in Priority : ready[p] \in Seq(Entry)
  BY DEF TypeOK
<1>2. \A p \in Priority : \A n \in DOMAIN ready[p] : ready[p][n] \in Entry
  BY <1>1
<1>. QED  BY <1>2 DEF ShieldsLive, Shields, LivePlaceholder

(* An unclaimed placeholder of a live owner always has a pending external     *)
(* promise and a registration behind it.                                      *)
LEMMA ShieldsNext == ASSUME IInv, Kept, ShieldsLive, [Next]_vars PROVE ShieldsLive'
<1>1. /\ TypeOK /\ TypeOK' /\ waiters \in [Waitable -> Seq(Registration)]
      /\ status \in [Waitable -> {"unborn", "pending", "running", "swept"} \cup Terminal]
      /\ handles \subseteq Waitable
  BY FrameNext DEF IInv, Frame, TypeOK
<1>2. (TypeOK => (ShieldsLive <=> \A e \in Shields(ready) : IsCancelled(e.owner) \/ Shield(e)))'
  BY ShieldsAre, PTL
<1>3. SUFFICES ASSUME NEW e \in Shields(ready'), ~(e.owner \in Task /\ status'[e.owner] = "cancelled")
               PROVE  /\ e.key \in ExtPromise /\ status'[e.key] = "pending"
                      /\ \E i \in DOMAIN waiters'[e.key] :
                           waiters'[e.key][i].owner = e.owner /\ waiters'[e.key][i].type # "wait"
  BY <1>1, <1>2 DEF IsCancelled, Shield
<1>4. ~IsCancelled(e.owner)
  <2>1. ASSUME e.owner \in Task PROVE Moves(e.owner)
    BY <2>1, StatusMoves DEF Waitable
  <2>. QED  BY <1>3, <2>1 DEF IsCancelled, Moves, Undecided, Sweepable
<1>5. e \in Shields(ready) => Shield(e)
  BY <1>1, <1>4, ShieldsAre
<1>6. \A k \in ExtPromise : k \in Waitable /\ k \notin Owner
  BY DistinctIds DEF Waitable, Owner
<1>7. \A k \in handles \cap ExtPromise : status[k] \notin Terminal => status[k] = "pending"
  BY <1>1, <1>6 DEF Kept
<1>8. CASE Moved
  <2>1. ASSUME NEW k \in ExtPromise, status[k] = "pending" PROVE status'[k] = "pending"
    <3>1. status'[k] \in {"pending", "running"}
      BY <1>1, <1>6, <1>8, <2>1, NothingDecided DEF Undecided
    <3>. QED  BY <1>6, <3>1, KeptNext DEF Kept
  <2>. QED  BY <1>5, <1>8, <2>1 DEF Moved, parked, Shield
<1>9. ASSUME NEW k \in Waitable, NEW st \in Terminal, Resolve(k, st),
             Shields(ready') \subseteq {i \in Shields(ready) : ~Claims(i, k, st)}
      PROVE  /\ e.key \in ExtPromise /\ status'[e.key] = "pending"
             /\ \E i \in DOMAIN waiters'[e.key] :
                  waiters'[e.key][i].owner = e.owner /\ waiters'[e.key][i].type # "wait"
  <2>1. Shield(e) /\ ~Claims(e, k, st) /\ e.kind = "wait_external"
    BY <1>5, <1>9 DEF Shields
  <2>2. e.key # k /\ e.owner \notin Decided(k, st) /\ e.key \in Waitable
    BY <1>6, <2>1 DEF Claims, Shield
  <2>3. PICK i \in DOMAIN waiters[e.key] :
          waiters[e.key][i].owner = e.owner /\ waiters[e.key][i].type # "wait"
    BY <2>1 DEF Shield
  <2>4. \E n \in DOMAIN WaitersAfter(k, st)[e.key] :
          WaitersAfter(k, st)[e.key][n] = waiters[e.key][i]
    <3>1. \/ \E n \in DOMAIN WaitersAfter(k, st)[e.key] :
                WaitersAfter(k, st)[e.key][n] = waiters[e.key][i]
          \/ /\ waiters[e.key][i].type \in {"gather", "race"}
             /\ waiters[e.key][i].owner \in Decided(k, st)
      <4>1. e.key \in Waitable \ {k}
        BY <2>2
      <4>. QED  BY <1>1, <4>1, WaitersWoken
    <3>. QED  BY <2>2, <2>3, <3>1
  <2>5. status'[e.key] = "pending" /\ e.key \in ExtPromise
    BY <1>1, <1>9, <2>1, <2>2 DEF Resolve, Shield
  <2>. QED  BY <1>9, <2>3, <2>4, <2>5 DEF Resolve
<1>10. ASSUME NEW k \in handles, NEW prio \in WaitPriorities, status[k] \notin Terminal,
              WaitPending(k, prio)
       PROVE  /\ e.key \in ExtPromise /\ status'[e.key] = "pending"
              /\ \E i \in DOMAIN waiters'[e.key] :
                   waiters'[e.key][i].owner = e.owner /\ waiters'[e.key][i].type # "wait"
  <2>1. UNCHANGED status /\ k \in Waitable
    BY <1>1, <1>10 DEF WaitPending, objs
  <2>2. \A w \in Waitable : \A n \in DOMAIN waiters[w] :
          n \in DOMAIN waiters'[w] /\ waiters'[w][n] = waiters[w][n]
    BY <1>1, <1>10, <2>1, WaitShields
  <2>3. CASE e \in Shields(ready)
    BY <1>5, <1>6, <2>1, <2>2, <2>3 DEF Shield
  <2>4. CASE e \notin Shields(ready)
    <3>1. /\ k \in ExtPromise /\ e = Placeholder(cur, k)
          /\ \E n \in DOMAIN waiters'[k] :
                waiters'[k][n].owner = cur /\ waiters'[k][n].type = "wait_external"
      BY <1>1, <1>10, <2>1, <2>4, WaitShields
    <3>2. e.key = k /\ e.owner = cur
      BY <3>1 DEF Placeholder
    <3>. QED  BY <1>7, <1>10, <2>1, <3>1, <3>2
  <2>. QED  BY <2>3, <2>4
<1>11. ASSUME NEW ks \in KeyLists, NEW type \in {"gather", "race"}, NEW remaining \in Int,
              NEW I \in SUBSET DOMAIN ks, \A i \in I : status[ks[i]] \notin Terminal,
              RegisterJoin(type, ks, I, remaining)
       PROVE  /\ e.key \in ExtPromise /\ status'[e.key] = "pending"
              /\ \E i \in DOMAIN waiters'[e.key] :
                   waiters'[e.key][i].owner = e.owner /\ waiters'[e.key][i].type # "wait"
  <2>1. UNCHANGED status
    BY <1>11 DEF RegisterJoin, objs
  <2>2. PICK m \in Nat : ks \in [1..m -> Waitable]
    BY <1>1, KeyListTyped
  <2>3. /\ Shields(ready') \subseteq Shields(ready) \cup Added(ks, I)
        /\ \A w \in Waitable : \A n \in DOMAIN waiters[w] :
             n \in DOMAIN waiters'[w] /\ waiters'[w][n] = waiters[w][n]
        /\ \A i \in I : \E n \in DOMAIN waiters'[ks[i]] :
             waiters'[ks[i]][n].owner = cur /\ waiters'[ks[i]][n].type = type
    <3>1. PICK J \in SUBSET (1..m) : J = I
      BY <2>2
    <3>2. RegisterJoin(type, ks, J, remaining)
      BY <1>11, <3>1
    <3>3. /\ Shields(ready') \subseteq Shields(ready) \cup Added(ks, J)
          /\ \A w \in Waitable : \A n \in DOMAIN waiters[w] :
               n \in DOMAIN waiters'[w] /\ waiters'[w][n] = waiters[w][n]
          /\ \A i \in J : \E n \in DOMAIN waiters'[ks[i]] :
               waiters'[ks[i]][n].owner = cur /\ waiters'[ks[i]][n].type = type
      BY <1>1, <2>2, <3>2, JoinShields
    <3>. QED  BY <3>1, <3>3
  <2>4. CASE e \in Shields(ready)
    BY <1>5, <1>6, <2>1, <2>3, <2>4 DEF Shield
  <2>5. CASE e \notin Shields(ready)
    <3>1. PICK i \in I : ks[i] \in ExtPromise /\ e = Placeholder(cur, ks[i])
      BY <2>3, <2>5 DEF Added
    <3>2. e.key = ks[i] /\ e.owner = cur
      BY <3>1 DEF Placeholder
    <3>3. ks[i] \in handles
      <4>1. PICK n \in 0..MaxKeys : ks \in [1..n -> {k \in handles : <<cur, k>> \in MayWait}]
        BY DEF KeyLists
      <4>. QED  BY <4>1
    <3>4. status'[ks[i]] = "pending"
      BY <1>7, <1>11, <2>1, <3>1, <3>3
    <3>5. \E n \in DOMAIN waiters'[ks[i]] :
            waiters'[ks[i]][n].owner = cur /\ waiters'[ks[i]][n].type # "wait"
      BY <1>11, <2>3
    <3>. QED  BY <3>1, <3>2, <3>4, <3>5
  <2>. QED  BY <2>4, <2>5
<1>. QED  BY <1>8, <1>9, <1>10, <1>11, Steps DEF Step, Settled, ParkedOnOne, ParkedOnMany

(* The scheduler goes to block only from a placeholder with nothing else      *)
(* live, or from an empty pass.                                               *)
LEMMA Blocking ==
  ASSUME [Next]_vars, pc' \in {"placeholder", "block"}
  PROVE  \/ pc' = pc /\ UNCHANGED <<status, meta, waiters, ready>>
         \/ \E p \in Priority : \E e : BlockOnPlaceholder(p, e)
         \/ NothingReady
<1>1. CASE UserEffect \/ PassEffect
  <2>1. pc' \in {"user", "drain"}
    BY <1>1 DEF UserEffect, PassEffect, Spawn, Wait, WaitPending, Gather, Race, RegisterJoin, Cancel,
                CreatePromise, SettlePromise, CreateExternalPromise, CreateSemaphore,
                AcquireSemaphore, ReleaseSemaphore, Answer, Reply, Suspend
  <2>. QED  BY <2>1
<1>2. CASE OwnerEnds
  BY <1>2 DEF OwnerEnds, TaskCompleted, Suspend, RootReturn, RootRaise, TaskInterrupted
<1>3. CASE SchedulerStep
  <2>1. CASE Pop
    BY <2>1 DEF Pop, Dispatch, HoldDaemon, DropDead, DropDeadGrant, DeferPlaceholder, Popping
  <2>. QED  BY <1>3, <2>1 DEF SchedulerStep, DrainOne, DrainDone, Unblock, RequeuePlaceholder
<1>4. CASE Environment \/ UNCHANGED vars
  BY <1>4 DEF Environment, Put, DropHandle, vars, objs, parked, heap
<1>. QED  BY <1>1, <1>2, <1>3, <1>4 DEF Next

(* pick_next blocks (NeverBlocksOverWork) only when no entry that runs live,   *)
(* non-daemon work is queued anywhere, above or below the placeholder, held or *)
(* not, and on an empty heap only when it is empty.                            *)
THEOREM BlocksOnlyIdle == Spec => []NeverBlocksOverWork
<1>1. Init => NeverBlocksOverWork
  BY DEF Init, NeverBlocksOverWork
<1>2. ASSUME IInv, NeverBlocksOverWork, [Next]_vars PROVE NeverBlocksOverWork'
  <2>1. SUFFICES ASSUME pc' \in {"placeholder", "block"} PROVE NeverBlocksOverWork'
    BY DEF NeverBlocksOverWork
  <2>2. Frame /\ TypeOK
    BY <1>2 DEF IInv, Frame
  <2>3. CASE pc' = pc /\ UNCHANGED <<status, meta, waiters, ready>>
    BY <1>2, <2>3 DEF NeverBlocksOverWork, Runnable, IsDaemon, IsCancelled
  <2>4. ASSUME NEW p \in Priority, NEW e, BlockOnPlaceholder(p, e) PROVE NeverBlocksOverWork'
    <3>1. /\ ~LiveIn(ready, held) /\ pc' # "block" /\ UNCHANGED <<ready, status, meta>>
          /\ ~has_live_ready_entry(FALSE)
      BY <2>1, <2>2, <2>4, LiveInHeap DEF BlockOnPlaceholder, objs, heap
    <3>2. ASSUME NEW q \in Priority, NEW n \in DOMAIN ready[q] PROVE n > held[q]
      <4>1. held[q] \in Nat /\ ~(held[q] > 0) /\ ready[q] \in Seq(Entry)
        BY <2>2, <3>1 DEF Frame, HeldForWork, TypeOK
      <4>2. n \in 1..Len(ready[q])
        BY <4>1
      <4>. QED  BY <4>1, <4>2
    <3>. QED  BY <3>1, <3>2 DEF NeverBlocksOverWork, LiveIn, Runnable, IsDaemon, IsCancelled
  <2>5. CASE NothingReady
    <3>1. (\A p \in Priority : ready[p] = <<>>) /\ ready' = ready /\ pc' # "placeholder"
      BY <2>2, <2>5, NothingReadyFrame DEF NothingReady, heap
    <3>. QED  BY <3>1 DEF NeverBlocksOverWork
  <2>. QED  BY <1>2, <2>1, <2>3, <2>4, <2>5, Blocking
<1>. QED  BY <1>1, <1>2, Inductive, PTL DEF Spec

(* With nothing left to run, a live owner is registered or blocked.            *)
LEMMA RootParked ==
  ASSUME Frame, Safe, NothingReady
  PROVE  Blocked # {} \/ \E w \in Waitable : LiveRegistered(w)
<1>1. SUFFICES ASSUME Blocked = {}, \A w \in Waitable : ~LiveRegistered(w) PROVE FALSE
  OBVIOUS
<1>2. /\ TypeOK /\ pc = "pop" /\ pc \notin Ended /\ Root \in Owner /\ ~IsCancelled(Root)
  BY DistinctIds DEF Safe, NothingReady, Ended, Owner, IsCancelled, Waitable
<1>3. PICK place \in PlaceName \cup {"nowhere"} :
        /\ At(Root, place) /\ Fits(Root, place)
        /\ place = "run" <=> Root = cur /\ pc \in {"user", "effect"}
  BY <1>2, AtRun
<1>4. place \notin {"run", "nowhere"}
  BY <1>2, <1>3 DEF Fits, Unfinished
<1>5. Found(ready, QueuedFor(Root)) = {}
  <2>1. DOMAIN ready = Priority /\ \A p \in Priority : ready[p] = <<>>
    BY <1>2, NothingReadyFrame DEF TypeOK
  <2>2. \A p \in Priority : Occ(ready[p], QueuedFor(Root)) = {}
    BY <2>1 DEF Occ
  <2>. QED  BY <2>1, <2>2, FoundEmpty
<1>6. Found(waiters, WaitsOf(Root)) = {} /\ Found(waiters, JoinsOf(Root)) = {}
  <2>1. DOMAIN waiters = Waitable
    BY <1>2 DEF TypeOK
  <2>2. \A w \in Waitable : Occ(waiters[w], WaitsOf(Root)) = {} /\ Occ(waiters[w], JoinsOf(Root)) = {}
    BY <1>1, <1>2 DEF Occ, LiveRegistered, WaitsOf, JoinsOf
  <2>. QED  BY <2>1, <2>2, FoundEmpty
<1>7. Found(semWaiters, {Root}) = {}
  <2>1. DOMAIN semWaiters = Sem
    BY <1>2 DEF TypeOK
  <2>2. \A s \in Sem : Occ(semWaiters[s], {Root}) = {}
    BY <1>1, <1>2 DEF Blocked, LiveWaiters, Occ
  <2>. QED  BY <2>1, <2>2, FoundEmpty
<1>. QED  BY <1>3, <1>4, <1>5, <1>6, <1>7 DEF At, Site, Single, PlaceName

(* No step makes the scheduler block with nothing to wait for.                *)
LEMMA HangNext ==
  ASSUME IInv, ShieldsLive, NoSilentHang, [Next]_vars PROVE NoSilentHang'
<1>1. SUFFICES ASSUME pc' \in {"placeholder", "block"} PROVE has_pending_external_waiters'
  BY DEF NoSilentHang
<1>2. Frame /\ TypeOK /\ Safe
  BY DEF IInv, Frame, Safe
<1>3. ASSUME has_pending_external_waiters, UNCHANGED <<status, waiters>>
      PROVE  has_pending_external_waiters'
  BY <1>3 DEF has_pending_external_waiters, LiveRegistered, IsCancelled
<1>4. CASE pc' = pc /\ UNCHANGED <<status, meta, waiters, ready>>
  BY <1>1, <1>3, <1>4 DEF NoSilentHang
<1>5. ASSUME NEW p \in Priority, NEW e, BlockOnPlaceholder(p, e) PROVE has_pending_external_waiters'
  <2>1. Popping(p, e) /\ LivePlaceholder(e) /\ UNCHANGED <<status, waiters>>
    BY <1>5 DEF BlockOnPlaceholder, objs, parked
  <2>2. Shield(e) /\ ~IsCancelled(e.owner)
    BY <1>2, <2>1, Popped DEF ShieldsLive, LivePlaceholder
  <2>3. has_pending_external_waiters
    BY <2>2 DEF Shield, has_pending_external_waiters, LiveRegistered
  <2>. QED  BY <1>3, <2>1, <2>3
<1>6. CASE NothingReady
  <2>1. has_pending_external_waiters
    BY <1>1, <1>2, <1>6, RootParked DEF NothingReady
  <2>. QED  BY <1>3, <1>6, <2>1 DEF NothingReady, objs, parked
<1>. QED  BY <1>1, <1>4, <1>5, <1>6, Blocking

(* While the scheduler blocks, an external completion is still to come that    *)
(* wakes a live waiter (NoSilentHang): behind every live placeholder is the    *)
(* registration it shields, on a promise that is pending, because every        *)
(* resolution claims the placeholders of the waiters it wakes or decides; and  *)
(* an empty heap without such waiters is diagnosed as a deadlock.              *)
THEOREM BlocksForAnAnswer == Spec => []NoSilentHang
<1>1. Init => Kept /\ ShieldsLive /\ NoSilentHang
  <2>1. Init => Kept
    BY InitKept
  <2>. QED  BY <2>1 DEF Init, ShieldsLive, NoSilentHang
<1>2. IInv /\ Kept /\ ShieldsLive /\ NoSilentHang /\ [Next]_vars
        => (Kept /\ ShieldsLive /\ NoSilentHang)'
  BY KeptNext, ShieldsNext, HangNext
<1>. QED  BY <1>1, <1>2, Inductive, PTL DEF Spec

(* A daemon that starts to run was popped by Dispatch, and was not shielded.   *)
LEMMA ShieldStep == ASSUME TypeOK, [Next]_vars PROVE
  \A p \in Priority :
       (/\ pc = "pop" /\ pc' = "user" /\ IsDaemon(cur')
        /\ Unheld(p) /\ \A q \in Priority : q > p => ~Unheld(q)
        /\ p < PRIORITY_EXTERNAL_WAIT)
       => \A n \in DOMAIN ready[PRIORITY_EXTERNAL_WAIT] :
            ~LivePlaceholder(ready[PRIORITY_EXTERNAL_WAIT][n])
<1> SUFFICES ASSUME NEW p \in Priority, pc = "pop", pc' = "user", IsDaemon(cur'), Unheld(p),
                    \A q \in Priority : q > p => ~Unheld(q), p < PRIORITY_EXTERNAL_WAIT,
                    NEW n \in DOMAIN ready[PRIORITY_EXTERNAL_WAIT]
             PROVE  FALSE
  OBVIOUS
<1>1. \E q \in Priority : \E e : Dispatch(q, e)
  <2>1. CASE UserEffect
    BY <2>1 DEF UserEffect, Spawn, Wait, Gather, Race, Cancel, CreatePromise, SettlePromise,
      CreateExternalPromise, CreateSemaphore, AcquireSemaphore, ReleaseSemaphore, Handle
  <2>2. CASE PassEffect \/ OwnerEnds \/ Environment
    BY <2>2 DEF PassEffect, OwnerEnds, TaskCompleted, RootReturn, RootRaise, TaskInterrupted,
      Environment, Put, DropHandle
  <2>3. CASE DrainOne \/ DrainDone \/ Unblock \/ RequeuePlaceholder \/ NothingReady
    BY <2>3 DEF DrainOne, DrainDone, Unblock, RequeuePlaceholder, NothingReady
  <2>4. CASE Pop
    BY <2>4 DEF Pop, HoldDaemon, DropDead, DropDeadGrant, DeferPlaceholder, BlockOnPlaceholder
  <2>5. CASE UNCHANGED vars
    BY <2>5 DEF vars
  <2>. QED  BY <2>1, <2>2, <2>3, <2>4, <2>5 DEF Next, SchedulerStep
<1>2. PICK q \in Priority : \E e : Dispatch(q, e)
  BY <1>1
<1>3. PICK e : Dispatch(q, e)
  BY <1>2
<1>4. e.owner = cur' /\ Runnable(e) /\ ~Shielded(e) /\ UNCHANGED meta
  BY <1>3 DEF Dispatch
<1>5. ~ShieldDeferred
  BY <1>4 DEF Shielded, IsDaemon
<1>6. ready[PRIORITY_EXTERNAL_WAIT] \in Seq(Entry) /\ held[PRIORITY_EXTERNAL_WAIT] \in Nat
  BY DEF TypeOK, Priority
<1>7. ~Unheld(PRIORITY_EXTERNAL_WAIT)
  BY DEF Priority, PRIORITY_EXTERNAL_WAIT, PRIORITY_IDLE, PRIORITY_NORMAL, PRIORITY_HIGH
<1>8. held[PRIORITY_EXTERNAL_WAIT] > 0
  BY <1>6, <1>7 DEF Unheld
<1>. QED  BY <1>5, <1>8 DEF ShieldDeferred, Priority

(* A daemon below the shield never gets to run while a live external wait      *)
(* shields it (ShieldHolds): Shielded asks for the placeholders still queued   *)
(* and for those already held out of the heap, so that the order in which      *)
(* pick_next pops them does not matter.                                        *)
THEOREM ShieldStands == Spec => ShieldHolds
<1>1. IInv /\ [Next]_vars =>
  \A p \in Priority :
       (/\ pc = "pop" /\ pc' = "user" /\ IsDaemon(cur')
        /\ Unheld(p) /\ \A q \in Priority : q > p => ~Unheld(q)
        /\ p < PRIORITY_EXTERNAL_WAIT)
       => \A n \in DOMAIN ready[PRIORITY_EXTERNAL_WAIT] :
            ~LivePlaceholder(ready[PRIORITY_EXTERNAL_WAIT][n])
  BY ShieldStep DEF IInv, Frame
<1>. QED  BY <1>1, Inductive, PTL DEF Spec, ShieldHolds

(* At a silent return every unfinished task is a daemon or parked for a permit.*)
Leftover ==
  pc = "returned" =>
    \A t \in Task : status[t] \in {"pending", "running"} =>
                      IsDaemon(t) \/ Found(semWaiters, {t}) # {}

(* A root that returns without reporting leaves no unfinished task but        *)
(* daemons and those queued for a permit.                                     *)
LEMMA ReturnLeaves == ASSUME Frame, Safe, RootReturn PROVE Leftover'
<1>1. /\ TypeOK /\ pc = "user" /\ pc \notin Ended /\ cur = Root
      /\ UNCHANGED <<status, meta, semWaiters>>
      /\ pc' = "returned" => ~abandoned_ready /\ ~parked_for_close_out
  BY DEF Safe, RootReturn, Ended, objs, sems
<1>2. SUFFICES ASSUME ~abandoned_ready, ~parked_for_close_out, NEW t \in Task,
                      status[t] \in {"pending", "running"}, ~IsDaemon(t)
               PROVE  Found(semWaiters, {t}) # {}
  BY <1>1 DEF Leftover, IsDaemon
<1>3. t \in Owner /\ t # Root /\ ~IsCancelled(t)
  BY <1>2, DistinctIds DEF Owner, Waitable, IsCancelled
<1>4. PICK place \in PlaceName \cup {"nowhere"} :
        /\ At(t, place) /\ Fits(t, place)
        /\ place = "run" <=> t = cur /\ pc \in {"user", "effect"}
  BY <1>1, <1>3, AtRun
<1>5. place \notin {"run", "nowhere"}
  BY <1>1, <1>2, <1>3, <1>4 DEF Fits, Unfinished
<1>6. Found(ready, QueuedFor(t)) = {}
  <2>1. DOMAIN ready = Priority /\ ~LiveIn(ready, held) /\ \A p \in Priority : held[p] = 0
    BY <1>1, <1>2, LiveInHeap, NothingHeld DEF TypeOK, abandoned_ready
  <2>2. ASSUME NEW p \in Priority PROVE Occ(ready[p], QueuedFor(t)) = {}
    <3>1. ready[p] \in Seq(Entry)
      BY <1>1 DEF TypeOK
    <3>2. \A n \in DOMAIN ready[p] : n > 0
      BY <3>1
    <3>. QED  BY <1>2, <1>3, <2>1, <3>2 DEF Occ, LiveIn, QueuedFor, Runnable
  <2>. QED  BY <2>1, <2>2, FoundEmpty
<1>7. Found(waiters, WaitsOf(t)) = {} /\ Found(waiters, JoinsOf(t)) = {}
  <2>1. DOMAIN waiters = Waitable
    BY <1>1 DEF TypeOK
  <2>2. \A w \in Waitable : Occ(waiters[w], WaitsOf(t)) = {} /\ Occ(waiters[w], JoinsOf(t)) = {}
    BY <1>2, <1>3 DEF Occ, parked_for_close_out, WaitsOf, JoinsOf
  <2>. QED  BY <2>1, <2>2, FoundEmpty
<1>. QED  BY <1>4, <1>5, <1>6, <1>7 DEF At, Site, Single, PlaceName

(* root_close_out (CloseOutComplete): without semaphores, a run that ends      *)
(* silently leaves no non-daemon task unfinished, whether it was never started,*)
(* is queued, waits, or is in a Gather or Race.                                *)
THEOREM CloseOutTells == ASSUME Sem = {} PROVE Spec => []CloseOutComplete
<1>1. Init => Leftover
  BY DEF Init, Leftover
<1>2. ASSUME IInv, Leftover, [Next]_vars PROVE Leftover'
  <2>1. CASE UNCHANGED vars
    BY <1>2, <2>1 DEF Leftover, IsDaemon, vars, objs, sems
  <2>2. CASE Next /\ pc' = "returned"
    <3>1. pc' \in Ended
      BY <2>2 DEF Ended
    <3>2. RootReturn
      BY <2>2, <3>1, Ending DEF RootRaise, TaskInterrupted, NothingReady, BlockOnPlaceholder
    <3>. QED  BY <1>2, <3>2, ReturnLeaves DEF IInv, Frame, Safe
  <2>. QED  BY <1>2, <2>1, <2>2 DEF Leftover
<1>3. IInv /\ Leftover => CloseOutComplete
  <2>1. ASSUME IInv, NEW t PROVE Found(semWaiters, {t}) = {}
    <3>1. DOMAIN semWaiters = {}
      BY <2>1 DEF IInv, Frame, TypeOK
    <3>. QED  BY <3>1, FoundEmpty
  <2>. QED  BY <2>1 DEF Leftover, CloseOutComplete
<1>. QED  BY <1>1, <1>2, <1>3, Inductive, PTL DEF Spec

-------------------------------------------------------------------------------
(* Counting permits: one pair per permit an owner is noted to hold.            *)
Notes(h) == UNION {{<<o, i>> : i \in 1..h[o]} : o \in Owner}

(* A pair is noted when its number is among those of its owner.                *)
LEMMA Noted ==
  ASSUME NEW h
  PROVE  /\ \A o, i : <<o, i>> \in Notes(h) <=> o \in Owner /\ i \in 1..h[o]
         /\ \A z \in Notes(h) : z = <<z[1], z[2]>>
<1>1. ASSUME NEW o, NEW i PROVE <<o, i>> \in Notes(h) <=> o \in Owner /\ i \in 1..h[o]
  <2>1. ASSUME <<o, i>> \in Notes(h) PROVE o \in Owner /\ i \in 1..h[o]
    <3>1. PICK q \in Owner : <<o, i>> \in {<<q, j>> : j \in 1..h[q]}
      BY <2>1 DEF Notes
    <3>. QED  BY <3>1
  <2>2. ASSUME o \in Owner, i \in 1..h[o] PROVE <<o, i>> \in Notes(h)
    <3>1. <<o, i>> \in {<<o, j>> : j \in 1..h[o]}
      BY <2>2
    <3>. QED  BY <2>2, <3>1 DEF Notes
  <2>. QED  BY <2>1, <2>2
<1>2. \A z \in Notes(h) : z = <<z[1], z[2]>>
  BY DEF Notes
<1>. QED  BY <1>1, <1>2

(* One permit more for o.                                                      *)
LEMMA NotedMore ==
  ASSUME NEW g \in [Owner -> Nat], NEW h \in [Owner -> Nat], NEW o \in Owner,
         h[o] = g[o] + 1, \A q \in Owner \ {o} : h[q] = g[q]
  PROVE  /\ IsFiniteSet(Notes(g)) <=> IsFiniteSet(Notes(h))
         /\ IsFiniteSet(Notes(g)) => /\ Cardinality(Notes(g)) \in Nat
                                     /\ Cardinality(Notes(h)) = Cardinality(Notes(g)) + 1
<1> DEFINE x == <<o, g[o] + 1>>
<1>1. x \notin Notes(g)
  BY Noted
<1>2. Notes(h) \subseteq Notes(g) \cup {x}
  <2>1. ASSUME NEW z \in Notes(h) PROVE z \in Notes(g) \cup {x}
    <3>1. z = <<z[1], z[2]>> /\ z[1] \in Owner /\ z[2] \in 1..h[z[1]]
      BY Noted
    <3>2. z[2] \in 1..g[z[1]] \/ (z[1] = o /\ z[2] = g[o] + 1)
      BY <3>1
    <3>. QED  BY <3>1, <3>2, Noted
  <2>. QED  BY <2>1
<1>3. Notes(g) \subseteq Notes(h) /\ x \in Notes(h)
  <2>1. ASSUME NEW z \in Notes(g) PROVE z \in Notes(h)
    <3>1. z = <<z[1], z[2]>> /\ z[1] \in Owner /\ z[2] \in 1..g[z[1]]
      BY Noted
    <3>2. z[2] \in 1..h[z[1]]
      BY <3>1
    <3>. QED  BY <3>1, <3>2, Noted
  <2>2. g[o] + 1 \in 1..h[o]
    OBVIOUS
  <2>. QED  BY <2>1, <2>2, Noted
<1>4. Notes(h) = Notes(g) \cup {x}
  BY <1>2, <1>3
<1> HIDE DEF x
<1>5. IsFiniteSet(Notes(h)) => IsFiniteSet(Notes(g))
  BY <1>3, FS_Subset
<1>. QED  BY <1>1, <1>4, <1>5, FS_AddElement, FS_CardinalityType

(* A permit that moves from from to to.                                        *)
LEMMA NotedMoved ==
  ASSUME NEW h \in [Owner -> Nat], NEW from \in Owner, h[from] > 0, IsFiniteSet(Notes(h))
  PROVE  /\ MovePermit(h, from, None) \in [Owner -> Nat]
         /\ IsFiniteSet(Notes(MovePermit(h, from, None)))
         /\ Cardinality(Notes(MovePermit(h, from, None))) + 1 = Cardinality(Notes(h))
         /\ \A to \in Owner :
              /\ MovePermit(h, from, to) \in [Owner -> Nat]
              /\ IsFiniteSet(Notes(MovePermit(h, from, to)))
              /\ Cardinality(Notes(MovePermit(h, from, to))) = Cardinality(Notes(h))
<1>1. None \notin Owner
  BY DistinctIds DEF Owner, Waitable
<1>0. ASSUME NEW to PROVE MovePermit(h, from, to) \in [Owner -> Nat]
  <2>1. ASSUME NEW q \in Owner
        PROVE  h[q] - (IF q = from THEN 1 ELSE 0) + (IF q = to THEN 1 ELSE 0) \in Nat
    <3>1. h[q] \in Nat /\ (q = from => h[q] > 0)
      OBVIOUS
    <3>2. CASE q = from /\ q = to
      BY <3>1, <3>2
    <3>3. CASE q = from /\ q # to
      BY <3>1, <3>3
    <3>4. CASE q # from
      BY <3>1, <3>4
    <3>. QED  BY <3>2, <3>3, <3>4
  <2>. QED  BY <2>1 DEF MovePermit
<1>2. PICK g \in [Owner -> Nat] : g = MovePermit(h, from, None)
  BY <1>0
<1>3. h[from] = g[from] + 1 /\ \A q \in Owner \ {from} : h[q] = g[q]
  BY <1>1, <1>2 DEF MovePermit
<1>4. /\ IsFiniteSet(Notes(g)) /\ Cardinality(Notes(g)) \in Nat
      /\ Cardinality(Notes(h)) = Cardinality(Notes(g)) + 1
  BY <1>3, NotedMore
<1>5. ASSUME NEW to \in Owner
      PROVE  /\ MovePermit(h, from, to) \in [Owner -> Nat]
             /\ IsFiniteSet(Notes(MovePermit(h, from, to)))
             /\ Cardinality(Notes(MovePermit(h, from, to))) = Cardinality(Notes(h))
  <2>1. PICK f \in [Owner -> Nat] : f = MovePermit(h, from, to)
    BY <1>0
  <2>2. f[to] = g[to] + 1 /\ \A q \in Owner \ {to} : f[q] = g[q]
    BY <1>1, <1>2, <2>1 DEF MovePermit
  <2>3. IsFiniteSet(Notes(f)) /\ Cardinality(Notes(f)) = Cardinality(Notes(g)) + 1
    BY <1>4, <2>2, NotedMore
  <2>. QED  BY <1>4, <2>1, <2>3
<1>. QED  BY <1>2, <1>4, <1>5

(* What a step does to the permits, the notes of who holds them, and those     *)
(* that travel: nothing; or a semaphore is created; or the running owner takes *)
(* a permit from the pool; or one permit is passed on from an owner that is    *)
(* noted for it and is not queued any more; or, where the caller holds none or *)
(* the pool is full, from nobody.                                              *)
Quiet == UNCHANGED <<permits, maxPermits, holders>> /\ Grants(ready') \subseteq Grants(ready)
Created(s, n) ==
  /\ maxPermits[s] = 0
  /\ permits' = [permits EXCEPT ![s] = n] /\ maxPermits' = [maxPermits EXCEPT ![s] = n]
  /\ UNCHANGED <<holders, ready>>
Taken(s) ==
  /\ permits[s] > 0
  /\ permits' = [permits EXCEPT ![s] = @ - 1]
  /\ holders' = [holders EXCEPT ![s][cur] = @ + 1]
  /\ UNCHANGED <<maxPermits, ready>>
Passed(s, from, h) ==
  /\ Grant(s, from) /\ ready' = Transferred(h, s)
  /\ holders[s][from] > 0
  /\ Grants(h) \subseteq Grants(ready) /\ \A e \in Grants(h) : e.owner # from
  /\ permits' = [permits EXCEPT ![s] = IF LiveWaiters(s) = {} THEN @ + 1 ELSE @]
  /\ UNCHANGED maxPermits
MadeUp(s) ==
  /\ Grant(s, None) /\ ready' = Transferred(ready, s)
  /\ ~Bracketed \/ (permits[s] >= maxPermits[s] /\ holders[s][cur] > 0)
PermitStep ==
  \/ Quiet
  \/ \E s \in Sem, n \in Nat : Created(s, n)
  \/ \E s \in Sem : Taken(s)
  \/ \E s \in Sem, from \in Owner, h \in Heaps : Passed(s, from, h)
  \/ \E s \in Sem : MadeUp(s)

(* Every travelling permit is noted for its receiver.                          *)
InFlight == \A e \in Grants(ready) : holders[e.key][e.owner] > 0
NoDebts == \A s \in Sem : \A o \in Owner : holders[s][o] >= 0
Conserved ==
  Bracketed => \A s \in Sem : /\ IsFiniteSet(Notes(holders[s]))
                              /\ permits[s] + Cardinality(Notes(holders[s])) = maxPermits[s]
Accounts == InFlight /\ NoDebts /\ Conserved

(* The travelling permits are entries of their receivers.                      *)
LEMMA GrantsFound ==
  ASSUME NEW h \in Heaps, NEW e \in Grants(h)
  PROVE  e.owner \in Owner /\ Found(h, QueuedFor(e.owner)) # {}
<1>1. e \in Entry /\ e.kind = "sem_resume"
  BY DEF Grants
<1>2. PICK p \in Priority : \E n \in DOMAIN h[p] : h[p][n] = e
  BY DEF Grants
<1>3. PICK n \in DOMAIN h[p] : h[p][n] = e
  BY <1>2
<1>4. e.owner \in Owner /\ e \in QueuedFor(e.owner)
  BY <1>1 DEF QueuedFor, Entry
<1>5. <<p, n>> \in Found(h, QueuedFor(e.owner))
  BY <1>3, <1>4, FoundMember DEF Occ, Heaps
<1>. QED  BY <1>4, <1>5

(* Every step is one of these.                                                 *)
LEMMA PermitSteps == ASSUME IInv, InFlight, [Next]_vars PROVE PermitStep
<1>1. /\ TypeOK /\ Frame /\ Safe /\ ready \in Heaps /\ cur \in Owner
      /\ \A o \in Owner : TaskPriority(o) \in Priority
  BY EntriesTyped DEF IInv, Frame, Safe
<1>2. ASSUME UNCHANGED sems, Grants(ready') \subseteq Grants(ready) PROVE PermitStep
  BY <1>2 DEF PermitStep, Quiet, sems
<1>3. ASSUME UNCHANGED sems, ready' = ready PROVE PermitStep
  BY <1>2, <1>3
<1>4. ASSUME NEW k \in Waitable, NEW st \in Terminal, UNCHANGED sems, ResolveAndWake(k, st)
      PROVE  PermitStep
  <2>1. ready' = ReadyAfter(k, st) /\ Grants(ReadyAfter(k, st)) \subseteq Grants(ready)
    BY <1>1, <1>4, ShieldsWoken DEF ResolveAndWake
  <2>. QED  BY <1>2, <1>4, <2>1
<1>5. ASSUME NEW t \in Task, NEW prio \in SpawnPriorities, NEW daemon \in DaemonFlags,
             Spawn(t, prio, daemon)
      PROVE  PermitStep
  <2>1. t \in Owner /\ prio \in Priority
    BY Parameters DEF Owner
  <2>2. PICK e \in Entry : e = MkEntry("new", t) /\ e.kind = "new"
    BY <1>1, <2>1, EntriesTyped
  <2>3. PICK h \in Heaps : h = Enqueue(ready, e, prio) /\ Grants(h) \subseteq Grants(ready)
    BY <1>1, <2>1, <2>2, EnqueueKeeps, ShieldsEnqueued
  <2>4. PICK f \in Entry : f = MkEntry("resume", cur) /\ f.kind = "resume"
    BY <1>1, EntriesTyped
  <2>5. ready' = Enqueue(h, f, TaskPriority(cur)) /\ UNCHANGED sems
    BY <1>5, <2>2, <2>3, <2>4 DEF Spawn
  <2>6. Grants(ready') \subseteq Grants(h)
    BY <1>1, <2>4, <2>5, ShieldsEnqueued
  <2>. QED  BY <1>2, <2>3, <2>5, <2>6
<1>6. ASSUME NEW p \in Promise \cup ExtPromise, NEW st \in {"completed", "failed"},
             SettlePromise(p, st)
      PROVE  PermitStep
  <2>1. p \in Waitable /\ st \in Terminal
    BY DEF Waitable, Terminal
  <2>2. CASE Answer
    BY <1>3, <2>2 DEF Answer, heap
  <2>3. CASE /\ ready' = Enqueue(ReadyAfter(p, st), MkEntry("resume", cur), CompleterPriority(p, st))
             /\ UNCHANGED sems
    <3>1. PICK e \in Entry : e = MkEntry("resume", cur) /\ e.kind = "resume"
      BY <1>1, EntriesTyped
    <3>2. PICK h \in Heaps : h = ReadyAfter(p, st) /\ Grants(h) \subseteq Grants(ready)
      BY <1>1, <2>1, ReadyWoken, ShieldsWoken DEF Heaps
    <3>3. PICK q \in Priority : q = CompleterPriority(p, st)
      BY <1>1, CompleterTyped
    <3>4. Grants(ready') \subseteq Grants(h)
      BY <2>3, <3>1, <3>2, <3>3, ShieldsEnqueued
    <3>. QED  BY <1>2, <2>3, <3>2, <3>4
  <2>. QED  BY <1>6, <2>2, <2>3 DEF SettlePromise
<1>7. ASSUME NEW k \in Waitable, NEW prio \in WaitPriorities, Wait(k, prio) PROVE PermitStep
  <2>1. PICK e \in Entry : e = Placeholder(cur, k) /\ e.kind = "wait_external"
    BY <1>1, EntriesTyped
  <2>2. Grants(Enqueue(ready, e, PRIORITY_EXTERNAL_WAIT)) \subseteq Grants(ready)
    BY <1>1, <2>1, ShieldsEnqueued DEF Priority
  <2>3. CASE Answer
    BY <1>3, <2>3 DEF Answer, heap
  <2>4. CASE WaitPending(k, prio)
    <3>1. UNCHANGED sems /\ (ready' = ready \/ ready' = Enqueue(ready, e, PRIORITY_EXTERNAL_WAIT))
      BY <2>1, <2>4 DEF WaitPending
    <3>. QED  BY <1>2, <1>3, <2>2, <3>1
  <2>. QED  BY <1>7, <2>3, <2>4 DEF Wait
<1>8. ASSUME NEW ks \in KeyLists, Gather(ks) \/ Race(ks) PROVE PermitStep
  <2>1. CASE Answer
    BY <1>3, <2>1 DEF Answer, heap
  <2>2. ASSUME NEW type \in {"gather", "race"}, NEW remaining, NEW I \in SUBSET DOMAIN ks,
               RegisterJoin(type, ks, I, remaining)
        PROVE  PermitStep
    <3>1. PICK m \in Nat : ks \in [1..m -> Waitable]
      BY <1>1, KeyListTyped
    <3>2. I \in SUBSET (1..m)
      BY <3>1
    <3>3. Grants(ready') \subseteq Grants(ready)
      BY <1>1, <2>2, <3>1, <3>2, JoinShields
    <3>. QED  BY <1>2, <2>2, <3>3 DEF RegisterJoin
  <2>3. Pending(ks) \in SUBSET DOMAIN ks /\ DOMAIN ks \in SUBSET DOMAIN ks
    BY DEF Pending
  <2>. QED  BY <1>8, <2>1, <2>2, <2>3 DEF Gather, Race
<1>9. ASSUME NEW s \in Sem, NEW n \in PermitCounts, CreateSemaphore(s, n) PROVE PermitStep
  <2>1. n \in Nat
    BY Parameters
  <2>. QED  BY <1>9, <2>1 DEF CreateSemaphore, PermitStep, Created, heap
<1>10. ASSUME NEW s \in Sem, AcquireSemaphore(s) PROVE PermitStep
  BY <1>10 DEF AcquireSemaphore, HasPermit, PermitStep, Taken, Quiet, heap
<1>11. ASSUME NEW s \in Sem, ReleaseSemaphore(s) PROVE PermitStep
  <2> DEFINE refused == LiveWaiters(s) = {} /\ permits[s] >= maxPermits[s]
  <2>1. /\ Bracketed => holders[s][cur] > 0
        /\ Grant(s, IF holders[s][cur] > 0 /\ ~refused THEN cur ELSE None)
        /\ ready' = Transferred(ready, s) /\ UNCHANGED maxPermits
        /\ permits' = [permits EXCEPT ![s] = IF LiveWaiters(s) = {} /\ ~refused THEN @ + 1 ELSE @]
        /\ pc \in {"user", "effect"} /\ pc \notin Ended
    BY <1>11 DEF ReleaseSemaphore, Handle, Ended
  <2>2. CASE ~(holders[s][cur] > 0 /\ ~refused)
    BY <2>1, <2>2 DEF PermitStep, MadeUp
  <2>3. CASE holders[s][cur] > 0 /\ ~refused
    <3>1. Found(ready, QueuedFor(cur)) = {}
      <4>1. PICK place : At(cur, place) /\ place = "run"
        BY <1>1, <2>1, AtRun
      <4>. QED  BY <4>1 DEF At, Site
    <3>2. \A e \in Grants(ready) : e.owner # cur
      BY <1>1, <3>1, GrantsFound
    <3>3. Passed(s, cur, ready)
      BY <2>1, <2>3, <3>2 DEF Passed
    <3>. QED  BY <1>1, <3>3 DEF PermitStep
  <2>. QED  BY <2>2, <2>3
<1>12. ASSUME UserEffect PROVE PermitStep
  <2>1. ASSUME NEW t \in Task, Cancel(t) PROVE PermitStep
    BY <1>3, <1>4, <2>1 DEF Cancel, Waitable, Terminal
  <2>2. ASSUME \/ \E p \in Promise : CreatePromise(p)
               \/ \E e \in ExtPromise : CreateExternalPromise(e)
        PROVE  PermitStep
    BY <1>3, <2>2 DEF CreatePromise, CreateExternalPromise, heap
  <2>. QED  BY <1>5, <1>6, <1>7, <1>8, <1>9, <1>10, <1>11, <1>12, <2>1, <2>2 DEF UserEffect
<1>13. ASSUME OwnerEnds PROVE PermitStep
  <2>1. ASSUME NEW st \in {"completed", "failed"}, TaskCompleted(st) PROVE PermitStep
    BY <1>3, <1>4, <2>1 DEF TaskCompleted, Waitable, Terminal
  <2>2. ASSUME TaskInterrupted PROVE PermitStep
    BY <1>3, <1>4, <2>2 DEF TaskInterrupted, Waitable, Terminal
  <2>. QED  BY <1>3, <1>13, <2>1, <2>2 DEF OwnerEnds, RootReturn, RootRaise, heap
<1>14. ASSUME DrainOne \/ Unblock PROVE PermitStep
  <2>1. Head(extq) \in [key : ExtPromise, result : {"completed", "failed"}]
    <3> DEFINE T == [key : ExtPromise, result : {"completed", "failed"}]
    <3>1. extq \in Seq(T) /\ extq # <<>>
      BY <1>1, <1>14 DEF TypeOK, DrainOne, Unblock
    <3> HIDE DEF T
    <3>2. Head(extq) \in T
      BY <3>1
    <3>. QED  BY <3>2 DEF T
  <2>2. PICK m \in [key : ExtPromise, result : {"completed", "failed"}] : m = Head(extq)
    BY <2>1
  <2>3. m.key \in Waitable /\ m.result \in Terminal
    BY DEF Waitable, Terminal
  <2>. QED  BY <1>3, <1>4, <1>14, <2>2, <2>3 DEF DrainOne, Unblock
<1>15. ASSUME NEW p \in Priority, NEW e, Popping(p, e)
       PROVE  Without(p) \in Heaps /\ Grants(Without(p)) \subseteq Grants(ready)
  <2>1. held[p] + 1 \in DOMAIN ready[p] /\ Without(p) \in Heaps
    BY <1>1, <1>15, Popped
  <2>. QED  BY <1>1, <2>1, ShieldsPopped DEF Without
<1>16. ASSUME Pop PROVE PermitStep
  <2>1. ASSUME NEW p \in Priority, NEW e, Dispatch(p, e) \/ DropDead(p, e) PROVE PermitStep
    BY <1>2, <1>15, <2>1 DEF Dispatch, DropDead
  <2>2. ASSUME NEW p \in Priority, NEW e, DropDeadGrant(p, e) PROVE PermitStep
    <3>1. /\ Popping(p, e) /\ e.kind = "sem_resume" /\ Grant(e.key, e.owner)
          /\ ready' = Transferred(Without(p), e.key) /\ UNCHANGED maxPermits
          /\ permits' = [permits EXCEPT ![e.key] = IF LiveWaiters(e.key) = {} THEN @ + 1 ELSE @]
      BY <2>2 DEF DropDeadGrant
    <3>2. /\ e.key \in Sem /\ e \in Entry /\ e = ready[p][held[p] + 1]
          /\ held[p] + 1 \in DOMAIN ready[p]
      BY <1>1, <3>1, Popped
    <3>3. e.owner \in Owner /\ e \in QueuedFor(e.owner) /\ e \in Grants(ready)
      BY <3>1, <3>2 DEF Entry, QueuedFor, Grants
    <3>4. Found(Without(p), QueuedFor(e.owner)) = {}
      BY <1>1, <3>1, <3>3, PopPlaces
    <3>5. \A f \in Grants(Without(p)) : f.owner # e.owner
      BY <1>15, <3>1, <3>4, GrantsFound
    <3>6. Passed(e.key, e.owner, Without(p))
      BY <1>15, <3>1, <3>3, <3>5 DEF Passed, InFlight
    <3>. QED  BY <1>15, <3>1, <3>2, <3>3, <3>6 DEF PermitStep
  <2>3. ASSUME NEW p \in Priority, NEW e, BlockOnPlaceholder(p, e) PROVE PermitStep
    BY <2>3 DEF BlockOnPlaceholder, PermitStep, Quiet, heap
  <2>. QED  BY <1>3, <1>16, <2>1, <2>2, <2>3 DEF Pop, HoldDaemon, DeferPlaceholder
<1>17. ASSUME RequeuePlaceholder PROVE PermitStep
  <2> DEFINE E == PRIORITY_EXTERNAL_WAIT
  <2>1. /\ pc = "afterPlaceholder" /\ E \in Priority /\ \A q \in Priority : held[q] = 0
    BY <1>1, <1>17, NothingHeld DEF RequeuePlaceholder, Priority
  <2>2. ready[E] \in Seq(Entry) /\ ready[E] # <<>>
    BY <1>1, <2>1 DEF Frame, HeldForWork, TypeOK
  <2>3. 1 \in DOMAIN ready[E] /\ held[E] + 1 = 1 /\ ready[E][1] \in Entry
    BY <2>1, <2>2
  <2>4. PICK e \in Entry : e = ready[E][1] /\ e = ready[E][held[E] + 1]
    BY <2>3
  <2>5. /\ ready' = IF e.claimed THEN Without(E) ELSE Enqueue(Without(E), e, E)
        /\ UNCHANGED sems
    BY <1>17, <2>4 DEF RequeuePlaceholder
  <2>6. PICK h \in Heaps : h = Without(E) /\ Grants(h) \subseteq Grants(ready)
    <3>1. Without(E) = [ready EXCEPT ![E] = RemoveAt(@, 1)]
      BY <2>3 DEF Without
    <3>2. [ready EXCEPT ![E] = RemoveAt(@, 1)] \in Heaps
      BY <1>1, <2>1, <2>3, WithoutKeeps
    <3>. QED  BY <1>1, <2>1, <2>3, <3>1, <3>2, ShieldsPopped
  <2>7. e.kind = "wait_external"
    BY <1>1, <2>1, <2>4 DEF Frame, HeldForWork
  <2>8. Grants(ready') \subseteq Grants(ready)
    BY <2>1, <2>5, <2>6, <2>7, ShieldsEnqueued
  <2>. QED  BY <1>2, <2>5, <2>8
<1>18. ASSUME NothingReady PROVE PermitStep
  BY <1>18 DEF NothingReady, PermitStep, Quiet, heap
<1>19. ASSUME SchedulerStep PROVE PermitStep
  BY <1>3, <1>14, <1>16, <1>17, <1>18, <1>19 DEF SchedulerStep, DrainDone, heap
<1>20. ASSUME PassEffect \/ Environment \/ UNCHANGED vars PROVE PermitStep
  BY <1>3, <1>20 DEF PassEffect, Answer, Environment, Put, DropHandle, vars, heap
<1>. QED  BY <1>12, <1>13, <1>19, <1>20 DEF Next

(* What handing a permit over adds to those that travel.                       *)
LEMMA GrantsHandedOver ==
  ASSUME TypeOK, NEW s \in Sem, NEW h \in Heaps
  PROVE  \A e \in Grants(Transferred(h, s)) :
           e \in Grants(h) \/ (LiveWaiters(s) # {} /\ e.key = s /\ e.owner = NextOwner(s))
<1>1. CASE LiveWaiters(s) = {}
  BY <1>1 DEF Transferred
<1>2. CASE LiveWaiters(s) # {}
  <2>1. NextOwner(s) \in Owner /\ TaskPriority(NextOwner(s)) \in Priority
    BY <1>2, FirstLiveFacts, EntriesTyped
  <2>2. PICK e \in Entry : /\ e.key = s /\ e.owner = NextOwner(s)
                           /\ Transferred(h, s) = Enqueue(h, e, TaskPriority(NextOwner(s)))
    BY <1>2, <2>1 DEF Transferred, MkEntry, Entry
  <2>3. Grants(Transferred(h, s)) \subseteq Grants(h) \cup {e}
    BY <2>1, <2>2, ShieldsEnqueued
  <2>. QED  BY <1>2, <2>2, <2>3
<1>. QED  BY <1>1, <1>2

(* No step loses a permit, or makes one up.                                    *)
LEMMA AccountsNext == ASSUME IInv, IInv', Accounts, PermitStep PROVE Accounts'
<1>1. /\ TypeOK /\ ready \in Heaps /\ cur \in Owner /\ HeapInOrder
      /\ permits \in [Sem -> Nat] /\ maxPermits \in [Sem -> Nat]
      /\ holders \in [Sem -> [Owner -> Int]] /\ holders' \in [Sem -> [Owner -> Int]]
  BY EntriesTyped DEF IInv, Frame, TypeOK
<1>2. \A s \in Sem : holders[s] \in [Owner -> Nat]
  <2>1. ASSUME NEW s \in Sem PROVE holders[s] \in [Owner -> Nat]
    <3>1. holders[s] \in [Owner -> Int] /\ \A o \in Owner : holders[s][o] >= 0
      BY <1>1 DEF Accounts, NoDebts
    <3>. QED  BY <3>1
  <2>. QED  BY <2>1
<1>3. \A e \in Grants(ready) : e.key \in Sem /\ e.owner \in Owner
  <2>1. ASSUME NEW e \in Grants(ready) PROVE e.key \in Sem /\ e.owner \in Owner
    <3>1. PICK p \in Priority : \E n \in DOMAIN ready[p] : ready[p][n] = e
      BY DEF Grants
    <3>2. PICK n \in DOMAIN ready[p] : ready[p][n] = e
      BY <3>1
    <3>. QED  BY <1>1, <3>2 DEF HeapInOrder, InOrder, Grants, Entry
  <2>. QED  BY <2>1
<1>4. CASE Quiet
  BY <1>4 DEF Quiet, Accounts, InFlight, NoDebts, Conserved
<1>5. ASSUME NEW s \in Sem, NEW n \in Nat, Created(s, n) PROVE Accounts'
  <2>1. InFlight' /\ NoDebts'
    BY <1>5 DEF Created, Accounts, InFlight, NoDebts
  <2>2. ASSUME Bracketed, NEW z \in Sem
        PROVE  /\ IsFiniteSet(Notes(holders'[z]))
               /\ permits'[z] + Cardinality(Notes(holders'[z])) = maxPermits'[z]
    <3>1. /\ IsFiniteSet(Notes(holders[z]))
          /\ permits[z] + Cardinality(Notes(holders[z])) = maxPermits[z]
      BY <2>2 DEF Accounts, Conserved
    <3>2. Cardinality(Notes(holders[z])) \in Nat
      BY <3>1, FS_CardinalityType
    <3>3. CASE z = s
      <4>1. Cardinality(Notes(holders[s])) = 0 /\ permits'[s] = n /\ maxPermits'[s] = n
        BY <1>1, <1>5, <3>1, <3>2, <3>3 DEF Created
      <4>. QED  BY <1>5, <3>1, <3>3, <4>1 DEF Created
    <3>4. CASE z # s
      BY <1>1, <1>5, <3>1, <3>4 DEF Created
    <3>. QED  BY <3>3, <3>4
  <2>. QED  BY <2>1, <2>2 DEF Accounts, Conserved
<1>6. ASSUME NEW s \in Sem, Taken(s) PROVE Accounts'
  <2>1. /\ holders'[s][cur] = holders[s][cur] + 1
        /\ \A q \in Owner \ {cur} : holders'[s][q] = holders[s][q]
        /\ \A z \in Sem \ {s} : holders'[z] = holders[z] /\ permits'[z] = permits[z]
        /\ permits'[s] = permits[s] - 1 /\ maxPermits' = maxPermits /\ ready' = ready
        /\ permits[s] > 0
    BY <1>1, <1>6 DEF Taken
  <2>2. \A z \in Sem : \A o \in Owner : holders'[z][o] >= holders[z][o]
    BY <1>1, <2>1
  <2>3. InFlight'
    <3>1. ASSUME NEW e \in Grants(ready) PROVE holders'[e.key][e.owner] > 0
      <4>1. holders[e.key][e.owner] > 0 /\ holders'[e.key][e.owner] >= holders[e.key][e.owner]
        BY <1>3, <2>2 DEF Accounts, InFlight
      <4>2. holders[e.key][e.owner] \in Int /\ holders'[e.key][e.owner] \in Int
        BY <1>1, <1>3
      <4>. QED  BY <4>1, <4>2
    <3>. QED  BY <2>1, <3>1 DEF InFlight
  <2>4. \A z \in Sem : holders'[z] \in [Owner -> Nat]
    <3>1. ASSUME NEW z \in Sem PROVE holders'[z] \in [Owner -> Nat]
      <4>1. holders'[z] \in [Owner -> Int] /\ \A o \in Owner : holders'[z][o] >= 0
        BY <1>1, <1>2, <2>2
      <4>. QED  BY <4>1
    <3>. QED  BY <3>1
  <2>5. ASSUME Bracketed, NEW z \in Sem
        PROVE  /\ IsFiniteSet(Notes(holders'[z]))
               /\ permits'[z] + Cardinality(Notes(holders'[z])) = maxPermits'[z]
    <3>1. /\ IsFiniteSet(Notes(holders[z]))
          /\ permits[z] + Cardinality(Notes(holders[z])) = maxPermits[z]
      BY <2>5 DEF Accounts, Conserved
    <3>2. CASE z # s
      BY <2>1, <3>1, <3>2
    <3>3. CASE z = s
      <4>1. PICK g \in [Owner -> Nat] : g = holders[s]
        BY <1>2
      <4>2. PICK h \in [Owner -> Nat] : h = holders'[s]
        BY <2>4
      <4>3. h[cur] = g[cur] + 1 /\ \A q \in Owner \ {cur} : h[q] = g[q]
        BY <2>1, <4>1, <4>2
      <4>0. IsFiniteSet(Notes(g))
        BY <3>1, <3>3, <4>1
      <4>4. /\ IsFiniteSet(Notes(h)) /\ Cardinality(Notes(g)) \in Nat
            /\ Cardinality(Notes(h)) = Cardinality(Notes(g)) + 1
        <5>1. cur \in Owner
          BY <1>1
        <5>. QED  BY <4>0, <4>3, <5>1, NotedMore
      <4>. QED  BY <1>1, <2>1, <3>1, <3>3, <4>1, <4>2, <4>4
    <3>. QED  BY <3>2, <3>3
  <2>. QED  BY <2>3, <2>4, <2>5 DEF Accounts, NoDebts, Conserved
<1>7. ASSUME NEW s \in Sem, NEW from \in Owner, NEW h \in Heaps, Passed(s, from, h) PROVE Accounts'
  <2> DEFINE to == IF LiveWaiters(s) = {} THEN None ELSE NextOwner(s)
  <2>1. /\ holders'[s] = MovePermit(holders[s], from, to)
        /\ \A z \in Sem \ {s} : holders'[z] = holders[z] /\ permits'[z] = permits[z]
        /\ permits'[s] = IF LiveWaiters(s) = {} THEN permits[s] + 1 ELSE permits[s]
        /\ maxPermits' = maxPermits /\ ready' = Transferred(h, s)
        /\ holders[s][from] > 0
        /\ Grants(h) \subseteq Grants(ready) /\ \A e \in Grants(h) : e.owner # from
    BY <1>1, <1>7 DEF Passed, Grant
  <2>2. LiveWaiters(s) # {} => NextOwner(s) \in Owner /\ NextOwner(s) # None
    BY <1>1, FirstLiveFacts, DistinctIds DEF Owner, Waitable
  <2>3. \A q \in Owner :
          /\ holders'[s][q] = holders[s][q] - (IF q = from THEN 1 ELSE 0) + (IF q = to THEN 1 ELSE 0)
    BY <2>1 DEF MovePermit
  <2>4. \A z \in Sem : \A q \in Owner :
          /\ holders[z][q] \in Nat /\ holders'[z][q] >= 0
          /\ z # s \/ q # from => holders'[z][q] >= holders[z][q]
          /\ z = s /\ q = to /\ q # from => holders'[z][q] > 0
    <3>1. ASSUME NEW z \in Sem, NEW q \in Owner
          PROVE  /\ holders[z][q] \in Nat /\ holders'[z][q] >= 0
                 /\ z # s \/ q # from => holders'[z][q] >= holders[z][q]
                 /\ z = s /\ q = to /\ q # from => holders'[z][q] > 0
      <4>1. holders[z][q] \in Nat
        BY <1>2
      <4>2. CASE z # s
        BY <2>1, <4>1, <4>2
      <4>3. CASE z = s
        <5> HIDE DEF to
        <5>1. q = from => holders[s][q] > 0
          BY <2>1
        <5>. QED  BY <2>3, <4>1, <4>3, <5>1
      <4>. QED  BY <4>2, <4>3
    <3>. QED  BY <3>1
  <2>5. InFlight'
    <3>1. ASSUME NEW e \in Grants(Transferred(h, s)) PROVE holders'[e.key][e.owner] > 0
      <4>1. CASE e \in Grants(h)
        <5>1. e \in Grants(ready) /\ e.key \in Sem /\ e.owner \in Owner /\ e.owner # from
          BY <1>3, <2>1, <4>1
        <5>2. holders[e.key][e.owner] > 0 /\ holders'[e.key][e.owner] >= holders[e.key][e.owner]
          BY <2>4, <5>1 DEF Accounts, InFlight
        <5>3. holders[e.key][e.owner] \in Int /\ holders'[e.key][e.owner] \in Int
          BY <1>1, <5>1
        <5>. QED  BY <5>2, <5>3
      <4>2. CASE LiveWaiters(s) # {} /\ e.key = s /\ e.owner = NextOwner(s)
        <5>1. CASE NextOwner(s) # from
          BY <2>2, <2>4, <4>2, <5>1
        <5>2. CASE NextOwner(s) = from
          <6>1. holders'[s][from] = holders[s][from] - 1 + 1
            BY <2>3, <4>2, <5>2
          <6>. QED  BY <1>2, <2>1, <4>2, <5>2, <6>1
        <5>. QED  BY <5>1, <5>2
      <4>. QED  BY <1>1, <4>1, <4>2, GrantsHandedOver
    <3>. QED  BY <2>1, <3>1 DEF InFlight
  <2>6. ASSUME Bracketed, NEW z \in Sem
        PROVE  /\ IsFiniteSet(Notes(holders'[z]))
               /\ permits'[z] + Cardinality(Notes(holders'[z])) = maxPermits'[z]
    <3>1. /\ IsFiniteSet(Notes(holders[z]))
          /\ permits[z] + Cardinality(Notes(holders[z])) = maxPermits[z]
      BY <2>6 DEF Accounts, Conserved
    <3>2. CASE z # s
      BY <2>1, <3>1, <3>2
    <3>3. CASE z = s
      <4>1. PICK g \in [Owner -> Nat] : g = holders[s] /\ g[from] > 0 /\ IsFiniteSet(Notes(g))
        BY <1>2, <2>1, <3>1, <3>3
      <4>2. Cardinality(Notes(g)) \in Nat /\ permits[s] \in Nat
        BY <1>1, <4>1, FS_CardinalityType
      <4>3. CASE LiveWaiters(s) = {}
        <5>1. PICK f : f = MovePermit(g, from, None)
          OBVIOUS
        <5>2. holders'[s] = f
          BY <2>1, <4>1, <4>3, <5>1
        <5>3. IsFiniteSet(Notes(f)) /\ Cardinality(Notes(f)) + 1 = Cardinality(Notes(g))
          BY <4>1, <5>1, NotedMoved
        <5>4. Cardinality(Notes(f)) \in Nat
          BY <5>3, FS_CardinalityType
        <5>. QED  BY <2>1, <3>1, <3>3, <4>1, <4>2, <4>3, <5>2, <5>3, <5>4
      <4>4. CASE LiveWaiters(s) # {}
        <5>1. PICK f : f = MovePermit(g, from, NextOwner(s))
          OBVIOUS
        <5>2. holders'[s] = f
          BY <2>1, <4>1, <4>4, <5>1
        <5>3. IsFiniteSet(Notes(f)) /\ Cardinality(Notes(f)) = Cardinality(Notes(g))
          BY <2>2, <4>1, <4>4, <5>1, NotedMoved
        <5>. QED  BY <2>1, <3>1, <3>3, <4>1, <4>2, <4>4, <5>2, <5>3
      <4>. QED  BY <4>3, <4>4
    <3>. QED  BY <3>2, <3>3
  <2>7. NoDebts'
    BY <2>4 DEF NoDebts
  <2>. QED  BY <2>5, <2>6, <2>7 DEF Accounts, Conserved
<1>8. ASSUME NEW s \in Sem, MadeUp(s) PROVE Accounts'
  <2>1. ~Bracketed
    <3>1. SUFFICES ASSUME Bracketed PROVE FALSE
      OBVIOUS
    <3>2. /\ IsFiniteSet(Notes(holders[s])) /\ permits[s] >= maxPermits[s] /\ holders[s][cur] > 0
          /\ permits[s] + Cardinality(Notes(holders[s])) = maxPermits[s]
      BY <1>8, <3>1 DEF Accounts, Conserved, MadeUp
    <3>3. <<cur, 1>> \in Notes(holders[s])
      BY <1>1, <3>2, Noted
    <3>4. Cardinality(Notes(holders[s])) \in Nat /\ Cardinality(Notes(holders[s])) # 0
      BY <3>2, <3>3, FS_CardinalityType, FS_EmptySet
    <3>. QED  BY <1>1, <3>2, <3>4
  <2> DEFINE to == IF LiveWaiters(s) = {} THEN None ELSE NextOwner(s)
  <2>2. /\ holders'[s] = MovePermit(holders[s], None, to)
        /\ \A z \in Sem \ {s} : holders'[z] = holders[z]
        /\ ready' = Transferred(ready, s)
    BY <1>1, <1>8 DEF MadeUp, Grant
  <2>3. None \notin Owner
    BY DistinctIds DEF Owner, Waitable
  <2>4. \A q \in Owner : holders'[s][q] = holders[s][q] + (IF q = to THEN 1 ELSE 0)
    <3> HIDE DEF to
    <3>. QED  BY <1>2, <2>2, <2>3 DEF MovePermit
  <2>5. \A z \in Sem : \A q \in Owner :
          /\ holders[z][q] \in Nat /\ holders'[z][q] >= holders[z][q] /\ holders'[z][q] >= 0
          /\ z = s /\ q = to => holders'[z][q] > 0
    <3> HIDE DEF to
    <3>. QED  BY <1>2, <2>2, <2>4
  <2>6. ASSUME NEW e \in Grants(Transferred(ready, s)) PROVE holders'[e.key][e.owner] > 0
    <3>1. CASE e \in Grants(ready)
      <4>1. holders[e.key][e.owner] > 0 /\ e.key \in Sem /\ e.owner \in Owner
        BY <1>3, <3>1 DEF Accounts, InFlight
      <4>2. holders'[e.key][e.owner] >= holders[e.key][e.owner] /\ holders'[e.key][e.owner] \in Int
            /\ holders[e.key][e.owner] \in Int
        BY <1>1, <2>5, <4>1
      <4>. QED  BY <4>1, <4>2
    <3>2. CASE LiveWaiters(s) # {} /\ e.key = s /\ e.owner = NextOwner(s)
      <4>1. NextOwner(s) \in Owner
        BY <1>1, <3>2, FirstLiveFacts
      <4>. QED  BY <2>5, <3>2, <4>1
    <3>. QED  BY <1>1, <3>1, <3>2, GrantsHandedOver
  <2>. QED  BY <2>1, <2>2, <2>5, <2>6 DEF Accounts, InFlight, NoDebts, Conserved
<1>. QED  BY <1>4, <1>5, <1>6, <1>7, <1>8 DEF PermitStep

(* Permits are neither lost nor made up (PermitsAccounted), for any number of  *)
(* semaphores, permits and owners: a permit in flight is noted for the owner   *)
(* it travels to, who is queued with it once and cannot release meanwhile, so  *)
(* that the return of a cancelled receiver's permit always finds its note.     *)
THEOREM PermitsKept == Spec => []PermitsAccounted
<1>1. Init => Accounts
  <2> SUFFICES ASSUME Init PROVE Accounts
    OBVIOUS
  <2>1. /\ \A p \in Priority : DOMAIN ready[p] = {}
        /\ \A s \in Sem : holders[s] = [o \in Owner |-> 0] /\ permits[s] = 0 /\ maxPermits[s] = 0
    BY DEF Init
  <2>2. ASSUME NEW s \in Sem PROVE Notes(holders[s]) = {}
    <3>1. \A o \in Owner : 1..holders[s][o] = {}
      BY <2>1
    <3>. QED  BY <3>1 DEF Notes
  <2>. QED  BY <2>1, <2>2, FS_EmptySet DEF Accounts, InFlight, NoDebts, Conserved, Grants
<1>2. IInv /\ IInv' /\ Accounts /\ [Next]_vars => Accounts'
  BY PermitSteps, AccountsNext DEF Accounts
<1>3. IInv /\ Accounts => PermitsAccounted
  <2> SUFFICES ASSUME IInv, Accounts PROVE PermitsAccounted
    OBVIOUS
  <2>1. TypeOK /\ ready \in Heaps
    BY EntriesTyped DEF IInv, Frame
  <2>2. ASSUME NEW p \in Priority, NEW n \in DOMAIN ready[p], ready[p][n].kind = "sem_resume"
        PROVE  ready[p][n] \in Grants(ready)
    <3>1. ready[p] \in Seq(Entry)
      BY <2>1 DEF Heaps
    <3>2. ready[p][n] \in Entry
      BY <3>1
    <3>. QED  BY <2>2, <3>2 DEF Grants
  <2>3. InFlightHeld
    BY <2>2 DEF InFlightHeld, Accounts, InFlight
  <2>4. \A s \in Sem : HeldPermits(s) = Notes(holders[s])
    BY DEF HeldPermits, Notes
  <2>5. PermitsConserved
    BY <2>4 DEF PermitsConserved, Accounts, NoDebts, Conserved
  <2>. QED  BY <2>1, <2>3, <2>5 DEF PermitsAccounted
<1>. QED  BY <1>1, <1>2, <1>3, Inductive, PTL DEF Spec

-------------------------------------------------------------------------------
(* The refinement: every step of the scheduler is a step of Futures.           *)

(* A Wait adds one registration, of its owner on its waitable.                 *)
LEMMA WaitRegisters ==
  ASSUME TypeOK, NEW k \in Waitable, NEW prio \in WaitPriorities, WaitPending(k, prio)
  PROVE  \E r \in Registration :
           /\ waiters' = [waiters EXCEPT ![k] = Append(@, r)]
           /\ r.type \in {"wait", "wait_external"} /\ r.owner = cur
<1>1. prio \in Priority \cup {OwnPriority} /\ cur \in Owner
  BY Parameters DEF TypeOK
<1>2. \A type \in {"wait", "wait_external"} : \A wake \in Priority \cup {OwnPriority} :
         [type |-> type, owner |-> cur, wake |-> wake] \in Registration
  BY <1>1 DEF Registration
<1>3. PICK type \in {"wait", "wait_external"}, wake \in Priority \cup {OwnPriority} :
         Park(k, type, wake)
  BY <1>1 DEF WaitPending
<1>. QED  BY <1>2, <1>3 DEF Park

(* A Gather or Race adds registrations of its owner, one kind, on its keys.    *)
LEMMA JoinRegisters ==
  ASSUME TypeOK, NEW ks \in KeyLists, NEW I \in SUBSET DOMAIN ks,
         NEW type \in {"gather", "race"}, NEW remaining, RegisterJoin(type, ks, I, remaining)
  PROVE  /\ Shields(ready') \subseteq Shields(ready) \cup Added(ks, I)
         /\ \A w \in Waitable : \A n \in DOMAIN waiters[w] :
              n \in DOMAIN waiters'[w] /\ waiters'[w][n] = waiters[w][n]
         /\ \A i \in I : \E n \in DOMAIN waiters'[ks[i]] :
              waiters'[ks[i]][n].owner = cur /\ waiters'[ks[i]][n].type = type
         /\ waiters' \in [Waitable -> Seq(Registration)]
         /\ \A w \in Waitable \ {ks[i] : i \in I} : waiters'[w] = waiters[w]
         /\ \A X : (\A r \in X : ~(r.owner = cur /\ r.type = type))
                  => Found(waiters', X) = Found(waiters, X)
<1>1. PICK m \in Nat : ks \in [1..m -> Waitable]
  BY KeyListTyped
<1>2. PICK J \in SUBSET (1..m) : J = I
  BY <1>1
<1>3. RegisterJoin(type, ks, J, remaining)
  BY <1>2
<1>4. PICK r \in Registration : r = [type |-> type, owner |-> cur, wake |-> OwnPriority]
  BY DEF Registration, TypeOK
<1>5. waiters' = Parked(ks, J, r)
  BY <1>3, <1>4 DEF RegisterJoin, Parked
<1>6. /\ Parked(ks, J, r) \in [Waitable -> Seq(Registration)]
      /\ IsFiniteSet(J)
      /\ \A X : /\ r \notin X => Found(Parked(ks, J, r), X) = Found(waiters, X)
                /\ r \in X /\ Found(waiters, X) = {}
                     => ExistsBijection(Found(Parked(ks, J, r), X), J)
  BY <1>1, Registered
<1>7. /\ Shields(ready') \subseteq Shields(ready) \cup Added(ks, J)
      /\ \A w \in Waitable : \A n \in DOMAIN waiters[w] :
           n \in DOMAIN waiters'[w] /\ waiters'[w][n] = waiters[w][n]
      /\ \A i \in J : \E n \in DOMAIN waiters'[ks[i]] :
           waiters'[ks[i]][n].owner = cur /\ waiters'[ks[i]][n].type = type
  BY <1>1, <1>3, JoinShields
<1>8. ASSUME NEW w \in Waitable, w \notin {ks[i] : i \in J} PROVE waiters'[w] = waiters[w]
  <2>1. {i \in J : ks[i] = w} = {}
    BY <1>8
  <2>2. waiters'[w] = waiters[w] \o [n \in 1..Cardinality({}) |-> r]
    BY <1>5, <2>1 DEF Parked
  <2>3. Cardinality({}) = 0 /\ waiters[w] \in Seq(Registration)
    BY FS_EmptySet DEF TypeOK
  <2>. QED  BY <2>2, <2>3
<1>9. ASSUME NEW X, \A q \in X : ~(q.owner = cur /\ q.type = type)
      PROVE  Found(waiters', X) = Found(waiters, X)
  <2>1. r \notin X
    BY <1>4, <1>9
  <2>. QED  BY <1>5, <1>6, <2>1
<1>. QED  BY <1>2, <1>5, <1>6, <1>7, <1>8, <1>9

(* A Gather or Race that has no registration left is over: the count in its    *)
(* join went down with every key, and fail-fast removes both together.         *)
JoinsClosed == \A o \in Owner : Found(waiters, JoinsOf(o)) = {} => join[o] = NoJoin

(* A registration of o on w is found with those of its kind.                   *)
LEMMA Here ==
  ASSUME TypeOK, NEW o \in Owner, NEW w \in Waitable, NEW i \in DOMAIN waiters[w],
         waiters[w][i].owner = o
  PROVE  /\ waiters[w][i] \in Registration
         /\ waiters[w][i].type \in {"wait", "wait_external"} => <<w, i>> \in Found(waiters, WaitsOf(o))
         /\ waiters[w][i].type \in {"gather", "race"} => <<w, i>> \in Found(waiters, JoinsOf(o))
         /\ waiters[w][i].type = "gather" => <<w, i>> \in Found(waiters, GathersOf(o))
         /\ waiters[w][i].type = "race" => <<w, i>> \in Found(waiters, RacesOf(o))
<1>1. DOMAIN waiters = Waitable /\ waiters[w] \in Seq(Registration)
  BY DEF TypeOK
<1>2. waiters[w][i] \in Registration
  BY <1>1
<1>3. \A X : waiters[w][i] \in X => <<w, i>> \in Found(waiters, X)
  BY <1>1, FoundMember DEF Occ
<1>. QED  BY <1>2, <1>3 DEF WaitsOf, JoinsOf, GathersOf, RacesOf

AllOf(o, types) ==
  \A w \in Waitable : \A i \in DOMAIN waiters[w] :
    waiters[w][i].owner = o => waiters[w][i].type \in types

(* An owner is registered by one Wait on one waitable, or by one Gather or one *)
(* Race; while it runs, nowhere.                                               *)
LEMMA ParkedHow ==
  ASSUME IInv, JoinsClosed, pc \notin Ended, NEW o \in Owner
  PROVE  /\ Performing /\ o = cur => RegisteredOn(o) = {}
         /\ RegisteredOn(o) = {} => join[o] = NoJoin
         /\ \/ /\ AllOf(o, {"wait", "wait_external"}) /\ join[o] = NoJoin
               /\ \A v, w \in RegisteredOn(o) : v = w
            \/ AllOf(o, {"gather"})
            \/ AllOf(o, {"race"})
<1>1. TypeOK /\ Safe
  BY DEF IInv, Frame, Safe
<1>2. PICK place \in PlaceName \cup {"nowhere"} :
           /\ At(o, place) /\ Fits(o, place)
           /\ place = "run" <=> o = cur /\ pc \in {"user", "effect"}
  BY <1>1, AtRun
<1>3. /\ Found(waiters, WaitsOf(o)) # {} => place = "wait" /\ Single(Found(waiters, WaitsOf(o)))
      /\ Found(waiters, JoinsOf(o)) # {} <=> place = "join"
  BY <1>2 DEF At, Site
<1>4. ASSUME NEW w \in Waitable, NEW i \in DOMAIN waiters[w], waiters[w][i].owner = o
      PROVE  /\ waiters[w][i] \in Registration
             /\ waiters[w][i].type \in {"wait", "wait_external"} => <<w, i>> \in Found(waiters, WaitsOf(o))
             /\ waiters[w][i].type \in {"gather", "race"} => <<w, i>> \in Found(waiters, JoinsOf(o))
             /\ waiters[w][i].type = "gather" => <<w, i>> \in Found(waiters, GathersOf(o))
             /\ waiters[w][i].type = "race" => <<w, i>> \in Found(waiters, RacesOf(o))
  BY <1>1, <1>4, Here
<1>5. Performing /\ o = cur => RegisteredOn(o) = {}
  <2>1. SUFFICES ASSUME place = "run" PROVE RegisteredOn(o) = {}
    BY <1>2 DEF Performing
  <2>. QED  BY <1>3, <1>4, <2>1 DEF RegisteredOn, Registration
<1>6. RegisteredOn(o) = {} => Found(waiters, JoinsOf(o)) = {}
  <2>1. ASSUME NEW z \in Found(waiters, JoinsOf(o)) PROVE RegisteredOn(o) # {}
    <3>1. z[1] \in DOMAIN waiters /\ z[2] \in Occ(waiters[z[1]], JoinsOf(o))
      BY <2>1, FoundMember
    <3>2. z[1] \in Waitable
      BY <1>1, <3>1 DEF TypeOK
    <3>. QED  BY <3>1, <3>2 DEF RegisteredOn, Occ, JoinsOf
  <2>. QED  BY <2>1
<1>7. CASE place = "join"
  <2>1. AllOf(o, {"gather", "race"})
    BY <1>3, <1>4, <1>7 DEF AllOf, Registration
  <2>2. Found(waiters, GathersOf(o)) = {} \/ Found(waiters, RacesOf(o)) = {}
    BY DEF IInv, JoinCounts, Counted
  <2>3. AllOf(o, {"gather"}) \/ AllOf(o, {"race"})
    BY <1>4, <2>1, <2>2 DEF AllOf
  <2>. QED  BY <1>5, <1>6, <2>3 DEF JoinsClosed
<1>8. CASE place # "join"
  <2>1. AllOf(o, {"wait", "wait_external"}) /\ join[o] = NoJoin
    BY <1>3, <1>4, <1>8 DEF AllOf, Registration, JoinsClosed
  <2>2. ASSUME NEW v \in RegisteredOn(o), NEW w \in RegisteredOn(o) PROVE v = w
    <3>1. /\ v \in Waitable /\ w \in Waitable
          /\ \E i \in DOMAIN waiters[v] : <<v, i>> \in Found(waiters, WaitsOf(o))
          /\ \E i \in DOMAIN waiters[w] : <<w, i>> \in Found(waiters, WaitsOf(o))
      BY <1>4, <2>1 DEF RegisteredOn, AllOf
    <3>2. Single(Found(waiters, WaitsOf(o)))
      BY <1>3, <3>1
    <3>. QED  BY <3>1, <3>2 DEF Single
  <2>. QED  BY <1>5, <2>1, <2>2
<1>. QED  BY <1>7, <1>8

(* Every step keeps the joins closed that have no registration.                *)
LEMMA JoinsClosedNext == ASSUME IInv, JoinsClosed, [Next]_vars PROVE JoinsClosed'
<1>1. TypeOK /\ JoinCounts /\ join \in [Owner -> [keys : SUBSET Waitable, remaining : Int]]
      /\ waiters \in [Waitable -> Seq(Registration)] /\ handles \subseteq Waitable /\ cur \in Owner
  BY DEF IInv, Frame, TypeOK
<1>2. SUFFICES ASSUME NEW o \in Owner, Found(waiters', JoinsOf(o)) = {} PROVE join'[o] = NoJoin
  BY DEF JoinsClosed
<1>3. CASE Moved
  BY <1>2, <1>3 DEF Moved, parked, JoinsClosed
<1>4. ASSUME NEW k \in Waitable, NEW st \in Terminal, Resolve(k, st) PROVE join'[o] = NoJoin
  <2>1. waiters' = WaitersAfter(k, st) /\ join' = JoinAfter(k, st)
    BY <1>4 DEF Resolve
  <2>2. CASE o \in Decided(k, st)
    BY <2>1, <2>2 DEF JoinAfter
  <2>3. CASE o \notin Decided(k, st)
    <3>1. FoundIn(waiters, JoinsOf(o), Waitable \ {k}) = {}
      <4>1. JoinsOf(o) \in SUBSET Registration
        BY DEF JoinsOf
      <4>2. ExistsBijection(Found(WaitersAfter(k, st), JoinsOf(o)),
                            FoundIn(waiters, JoinsOf(o), Waitable \ {k}))
        BY <1>1, <2>3, <4>1, WaitersWoken
      <4>. QED  BY <1>2, <2>1, <4>2, BijectionAlike
    <3>2. \A z \in Found(waiters, JoinsOf(o)) : z[1] = k
      <4>1. ASSUME NEW z \in Found(waiters, JoinsOf(o)) PROVE z[1] \in Waitable
        BY <1>1, <4>1, FoundMember
      <4>. QED  BY <3>1, <4>1 DEF FoundIn
    <3>3. CASE GatheredOn(k, o) = {}
      <4>1. \A i \in DOMAIN waiters[k] : <<k, i>> \notin Found(waiters, JoinsOf(o))
        <5>1. SUFFICES ASSUME NEW i \in DOMAIN waiters[k], <<k, i>> \in Found(waiters, JoinsOf(o))
                       PROVE  FALSE
          OBVIOUS
        <5>2. waiters[k][i] \in JoinsOf(o)
          BY <5>1, FoundMember DEF Occ
        <5>3. waiters[k][i].type = "race" /\ waiters[k][i].owner = o
          BY <3>3, <5>2 DEF JoinsOf, GatheredOn
        <5>. QED  BY <2>3, <5>3 DEF Decided
      <4>2. Found(waiters, JoinsOf(o)) = {}
        <5>1. ASSUME NEW z \in Found(waiters, JoinsOf(o)) PROVE FALSE
          <6>1. z = <<z[1], z[2]>> /\ z[2] \in Occ(waiters[z[1]], JoinsOf(o)) /\ z[1] = k
            BY <3>2, FoundMember
          <6>. QED  BY <4>1, <6>1 DEF Occ
        <5>. QED  BY <5>1
      <4>3. join[o] = NoJoin
        BY <4>2 DEF JoinsClosed
      <4>4. Cardinality(GatheredOn(k, o)) = 0
        BY <3>3, FS_EmptySet
      <4>. QED  BY <2>1, <4>3, <4>4 DEF JoinAfter, NoJoin
    <3>4. CASE GatheredOn(k, o) # {}
      <4>1. ExistsBijection(Found(waiters, GathersOf(o)), GatheredOn(k, o))
        <5> DEFINE A == Found(waiters, GathersOf(o))
                   f == [z \in A |-> z[2]]
        <5>1. ASSUME NEW z \in A PROVE z = <<k, z[2]>> /\ z[2] \in GatheredOn(k, o)
          <6>1. z = <<z[1], z[2]>> /\ z[1] \in Waitable /\ z[2] \in Occ(waiters[z[1]], GathersOf(o))
            BY <1>1, FoundMember
          <6>2. z \in Found(waiters, JoinsOf(o))
            <7>1. GathersOf(o) \subseteq JoinsOf(o)
              BY DEF GathersOf, JoinsOf
            <7>. QED  BY <7>1, FoundUnion
          <6>. QED  BY <3>2, <6>1, <6>2 DEF Occ, GathersOf, GatheredOn
        <5>2. ASSUME NEW i \in GatheredOn(k, o) PROVE \E z \in A : f[z] = i
          <6>1. i \in DOMAIN waiters[k] /\ waiters[k][i].owner = o /\ waiters[k][i].type = "gather"
            BY DEF GatheredOn
          <6>2. <<k, i>> \in A
            BY <1>1, <6>1, Here
          <6>. QED  BY <6>2
        <5> HIDE DEF A
        <5>3. f \in [A -> GatheredOn(k, o)] /\ \A y, z \in A : f[y] = f[z] => y = z
          BY <5>1
        <5>4. f \in Bijection(A, GatheredOn(k, o))
          BY <5>2, <5>3 DEF Bijection, Injection, Surjection, IsInjective
        <5>. QED  BY <5>4 DEF ExistsBijection, A
      <4>2. Found(waiters, GathersOf(o)) # {}
        BY <3>4, <4>1, BijectionAlike
      <4>3. /\ IsFiniteSet(Found(waiters, GathersOf(o)))
            /\ Cardinality(Found(waiters, GathersOf(o))) = join[o].remaining
        BY <1>1, <4>2 DEF JoinCounts, Counted
      <4>4. Cardinality(GatheredOn(k, o)) = join[o].remaining
        BY <4>1, <4>3, FS_Bijection
      <4>. QED  BY <2>1, <3>4, <4>4 DEF JoinAfter
    <3>. QED  BY <3>3, <3>4
  <2>. QED  BY <2>2, <2>3
<1>5. ASSUME NEW k \in handles, NEW prio \in WaitPriorities, WaitPending(k, prio)
      PROVE  join'[o] = NoJoin
  <2>1. join' = join /\ k \in Waitable
    BY <1>1, <1>5 DEF WaitPending
  <2>2. PICK r \in Registration :
          /\ waiters' = [waiters EXCEPT ![k] = Append(@, r)] /\ r.type \in {"wait", "wait_external"}
    BY <1>1, <1>5, WaitRegisters
  <2>3. r \notin JoinsOf(o)
    BY <2>2 DEF JoinsOf
  <2>4. LET g == [waiters EXCEPT ![k] = Append(@, r)] IN
        /\ g \in [Waitable -> Seq(Registration)]
        /\ r \notin JoinsOf(o) => Found(g, JoinsOf(o)) = Found(waiters, JoinsOf(o))
        /\ r \in JoinsOf(o) /\ Found(waiters, JoinsOf(o)) = {} => Single(Found(g, JoinsOf(o)))
    BY <1>1, <2>1, FamilyAppend
  <2>. QED  BY <1>2, <2>1, <2>2, <2>3, <2>4 DEF JoinsClosed
<1>6. ASSUME NEW ks \in KeyLists, NEW type \in {"gather", "race"}, NEW remaining \in Int,
             NEW I \in SUBSET DOMAIN ks, I # {}, RegisterJoin(type, ks, I, remaining)
      PROVE  join'[o] = NoJoin
  <2>1. /\ Shields(ready') \subseteq Shields(ready) \cup Added(ks, I)
        /\ \A w \in Waitable : \A n \in DOMAIN waiters[w] :
             n \in DOMAIN waiters'[w] /\ waiters'[w][n] = waiters[w][n]
        /\ \A i \in I : \E n \in DOMAIN waiters'[ks[i]] :
             waiters'[ks[i]][n].owner = cur /\ waiters'[ks[i]][n].type = type
        /\ waiters' \in [Waitable -> Seq(Registration)]
        /\ \A w \in Waitable \ {ks[i] : i \in I} : waiters'[w] = waiters[w]
        /\ \A X : (\A r \in X : ~(r.owner = cur /\ r.type = type))
                 => Found(waiters', X) = Found(waiters, X)
    BY <1>1, <1>6, JoinRegisters
  <2>2. CASE o = cur
    <3>1. PICK i \in I : \E n \in DOMAIN waiters'[ks[i]] :
            waiters'[ks[i]][n].owner = cur /\ waiters'[ks[i]][n].type = type
      BY <1>6, <2>1
    <3>2. PICK n \in DOMAIN waiters'[ks[i]] :
            waiters'[ks[i]][n].owner = cur /\ waiters'[ks[i]][n].type = type
      BY <3>1
    <3>3. ks[i] \in Waitable
      <4>1. PICK m \in Nat : ks \in [1..m -> Waitable]
        BY <1>1, KeyListTyped
      <4>. QED  BY <4>1
    <3>4. waiters'[ks[i]][n] \in Registration
      <4>1. PICK s \in Seq(Registration) : s = waiters'[ks[i]]
        BY <2>1, <3>3
      <4>. QED  BY <3>2, <4>1
    <3>5. <<ks[i], n>> \in Found(waiters', JoinsOf(o))
      BY <2>1, <2>2, <3>2, <3>3, <3>4, FoundMember DEF Occ, JoinsOf
    <3>. QED  BY <1>2, <3>5
  <2>3. CASE o # cur
    <3>1. join'[o] = join[o]
      BY <1>1, <1>6, <2>3 DEF RegisterJoin
    <3>2. \A r \in JoinsOf(o) : ~(r.owner = cur /\ r.type = type)
      BY <2>3 DEF JoinsOf
    <3>3. Found(waiters', JoinsOf(o)) = Found(waiters, JoinsOf(o))
      BY <2>1, <3>2
    <3>. QED  BY <1>2, <3>1, <3>3 DEF JoinsClosed
  <2>. QED  BY <2>2, <2>3
<1>. QED  BY <1>3, <1>4, <1>5, <1>6, Steps DEF Step, Settled, ParkedOnOne, ParkedOnMany

(* What F says of o and of w.                                                  *)
Waits(o) ==
  IF IsCancelled(o) \/ (RegisteredOn(o) = {} /\ join[o] = NoJoin)
  THEN [mode |-> "none", keys |-> {}]
  ELSE [mode |-> WaitMode(o), keys |-> RegisteredOn(o)]
Verdict(w) == CASE status[w] = "running" -> "pending"
                [] status[w] = "swept" -> "gone"
                [] OTHER -> status[w]

Owned(o) == {r \in Registration : r.owner = o}

(* The registrations of an owner, as places of the waiter lists.               *)
LEMMA RegisteredFound ==
  TypeOK => \A o \in Owner : \A w \in Waitable :
    /\ w \in RegisteredOn(o) <=> \E n : <<w, n>> \in Found(waiters, Owned(o))
    /\ GatheredOn(w, o) # {} <=> \E n : <<w, n>> \in Found(waiters, GathersOf(o))
<1> SUFFICES ASSUME TypeOK, NEW o \in Owner, NEW w \in Waitable
             PROVE  /\ w \in RegisteredOn(o) <=> \E n : <<w, n>> \in Found(waiters, Owned(o))
                    /\ GatheredOn(w, o) # {} <=> \E n : <<w, n>> \in Found(waiters, GathersOf(o))
  OBVIOUS
<1>1. w \in DOMAIN waiters /\ \A n \in DOMAIN waiters[w] : waiters[w][n] \in Registration
  <2>1. w \in DOMAIN waiters /\ waiters[w] \in Seq(Registration)
    BY DEF TypeOK
  <2>. QED  BY <2>1
<1>2. ASSUME NEW X, NEW n
      PROVE  <<w, n>> \in Found(waiters, X) <=> n \in DOMAIN waiters[w] /\ waiters[w][n] \in X
  BY <1>1, FoundMember DEF Occ
<1>3. \A n : <<w, n>> \in Found(waiters, Owned(o)) <=>
               n \in DOMAIN waiters[w] /\ waiters[w][n].owner = o
  BY <1>1, <1>2 DEF Owned
<1>4. \A n : <<w, n>> \in Found(waiters, GathersOf(o)) <=> n \in GatheredOn(w, o)
  BY <1>1, <1>2 DEF GathersOf, GatheredOn
<1>5. w \in RegisteredOn(o) <=> \E n : <<w, n>> \in Found(waiters, Owned(o))
  BY <1>3 DEF RegisteredOn
<1>6. GatheredOn(w, o) # {} <=> \E n : <<w, n>> \in Found(waiters, GathersOf(o))
  BY <1>4
<1>. QED  BY <1>5, <1>6

(* With no registration left, F's owner waits for nothing.                     *)
LEMMA WaitsAre ==
  TypeOK /\ JoinsClosed =>
    \A o \in Owner :
      Waits(o) = IF IsCancelled(o) \/ RegisteredOn(o) = {} THEN [mode |-> "none", keys |-> {}]
                 ELSE [mode |-> WaitMode(o), keys |-> RegisteredOn(o)]
<1> SUFFICES ASSUME TypeOK, JoinsClosed, NEW o \in Owner, RegisteredOn(o) = {}
             PROVE  join[o] = NoJoin
  BY DEF Waits
<1>1. ASSUME NEW z \in Found(waiters, JoinsOf(o)) PROVE FALSE
  <2>1. z = <<z[1], z[2]>> /\ z[1] \in Waitable /\ z[2] \in DOMAIN waiters[z[1]]
        /\ waiters[z[1]][z[2]] \in JoinsOf(o)
    BY FoundMember DEF Occ, TypeOK
  <2>. QED  BY <2>1 DEF RegisteredOn, JoinsOf
<1>. QED  BY <1>1 DEF JoinsClosed

(* A Gather waits for all its keys, a Wait or a Race for any.                  *)
LEMMA ModeIs ==
  \A o : /\ AllOf(o, {"gather"}) /\ RegisteredOn(o) # {} => WaitMode(o) = "all"
         /\ AllOf(o, {"race"}) \/ AllOf(o, {"wait", "wait_external"}) => WaitMode(o) = "any"
BY DEF AllOf, RegisteredOn, GatheredOn, WaitMode

(* An owner whose registrations stay where they are waits for the same.        *)
LEMMA SameWaits ==
  ASSUME TypeOK, TypeOK'
  PROVE  \A p \in Owner :
           /\ Found(waiters', Owned(p)) = Found(waiters, Owned(p))
           /\ Found(waiters', GathersOf(p)) = Found(waiters, GathersOf(p))
           => RegisteredOn(p)' = RegisteredOn(p) /\ WaitMode(p)' = WaitMode(p)
<1>1. (TypeOK => \A o \in Owner : \A w \in Waitable :
         /\ w \in RegisteredOn(o) <=> \E n : <<w, n>> \in Found(waiters, Owned(o))
         /\ GatheredOn(w, o) # {} <=> \E n : <<w, n>> \in Found(waiters, GathersOf(o)))'
  BY RegisteredFound, PTL
<1> SUFFICES ASSUME NEW p \in Owner,
                    Found(waiters', Owned(p)) = Found(waiters, Owned(p)),
                    Found(waiters', GathersOf(p)) = Found(waiters, GathersOf(p))
             PROVE  RegisteredOn(p)' = RegisteredOn(p) /\ WaitMode(p)' = WaitMode(p)
  OBVIOUS
<1>2. \A w \in Waitable : /\ w \in RegisteredOn(p)' <=> w \in RegisteredOn(p)
                          /\ GatheredOn(w, p)' # {} <=> GatheredOn(w, p) # {}
  BY <1>1, RegisteredFound
<1>3. RegisteredOn(p)' \subseteq Waitable /\ RegisteredOn(p) \subseteq Waitable
  BY DEF RegisteredOn
<1>4. RegisteredOn(p)' = RegisteredOn(p)
  BY <1>2, <1>3
<1>. QED  BY <1>2, <1>3, <1>4 DEF WaitMode

(* Once k is decided, an owner is registered on what is left of its keys; of   *)
(* none when its Race, or its failing Gather, was decided by it.               *)
LEMMA RegistrationsLeft ==
  ASSUME IInv, JoinsClosed, pc \notin Ended, NEW k \in Waitable, NEW st \in Terminal, Resolve(k, st),
         NEW o \in Owner
  PROVE  /\ RegisteredOn(o)' = IF o \in Decided(k, st) THEN {} ELSE RegisteredOn(o) \ {k}
         /\ o \in Decided(k, st) => k \in RegisteredOn(o)
         /\ \A types : AllOf(o, types) => AllOf(o, types)'
<1>1. TypeOK /\ waiters' = WaitersAfter(k, st)
  BY DEF IInv, Frame, Resolve
<1>2. /\ \A w \in Waitable : \A n \in DOMAIN waiters'[w] :
           /\ w # k
           /\ \E m \in DOMAIN waiters[w] :
                /\ waiters'[w][n] = waiters[w][m]
                /\ ~(/\ waiters[w][m].type \in {"gather", "race"}
                     /\ waiters[w][m].owner \in Decided(k, st))
      /\ \A w \in Waitable \ {k} : \A m \in DOMAIN waiters[w] :
           \/ \E n \in DOMAIN waiters'[w] : waiters'[w][n] = waiters[w][m]
           \/ /\ waiters[w][m].type \in {"gather", "race"}
              /\ waiters[w][m].owner \in Decided(k, st)
  <2>1. /\ WaitersAfter(k, st) \in [Waitable -> Seq(Registration)]
        /\ \A w \in Waitable : \A n \in DOMAIN WaitersAfter(k, st)[w] :
             /\ w # k
             /\ \E m \in DOMAIN waiters[w] :
                  /\ WaitersAfter(k, st)[w][n] = waiters[w][m]
                  /\ ~(/\ waiters[w][m].type \in {"gather", "race"}
                       /\ waiters[w][m].owner \in Decided(k, st))
        /\ \A w \in Waitable \ {k} : \A m \in DOMAIN waiters[w] :
             \/ \E n \in DOMAIN WaitersAfter(k, st)[w] :
                   WaitersAfter(k, st)[w][n] = waiters[w][m]
             \/ /\ waiters[w][m].type \in {"gather", "race"}
                /\ waiters[w][m].owner \in Decided(k, st)
    BY <1>1, WaitersWoken
  <2>. QED  BY <1>1, <2>1
<1>3. \A types : AllOf(o, types) => AllOf(o, types)'
  BY <1>2 DEF AllOf
<1>4. o \in Decided(k, st) =>
        \E i \in DOMAIN waiters[k] : /\ waiters[k][i].owner = o
                                     /\ waiters[k][i].type \in {"gather", "race"}
  BY DEF Decided
<1>5. CASE o \in Decided(k, st)
  <2>1. AllOf(o, {"gather"}) \/ AllOf(o, {"race"})
    BY <1>4, <1>5, ParkedHow DEF AllOf
  <2>2. RegisteredOn(o)' = {}
    BY <1>2, <1>5, <2>1 DEF RegisteredOn, AllOf
  <2>. QED  BY <1>3, <1>4, <1>5, <2>2 DEF RegisteredOn
<1>6. CASE o \notin Decided(k, st)
  <2>1. \A w \in Waitable : w \in RegisteredOn(o)' <=> w # k /\ w \in RegisteredOn(o)
    BY <1>2, <1>6 DEF RegisteredOn
  <2>2. RegisteredOn(o)' \subseteq Waitable /\ RegisteredOn(o) \subseteq Waitable
    BY DEF RegisteredOn
  <2>. QED  BY <1>3, <1>6, <2>1, <2>2
<1>. QED  BY <1>5, <1>6

(* A decision of k is a Settle: it ends every wait that k decides, and no      *)
(* other.                                                                      *)
LEMMA SettleMaps ==
  ASSUME IInv, JoinsClosed, IInv', JoinsClosed', pc \notin Ended,
         NEW k \in Waitable, NEW st \in Terminal, Undecided(k), Resolve(k, st)
  PROVE  F!Settle(k, st)
<1>0. (TypeOK /\ JoinsClosed =>
         \A o \in Owner :
           Waits(o) = IF IsCancelled(o) \/ RegisteredOn(o) = {} THEN [mode |-> "none", keys |-> {}]
                      ELSE [mode |-> WaitMode(o), keys |-> RegisteredOn(o)])'
  BY WaitsAre, PTL
<1>00. (\A o : /\ AllOf(o, {"gather"}) /\ RegisteredOn(o) # {} => WaitMode(o) = "all"
               /\ AllOf(o, {"race"}) \/ AllOf(o, {"wait", "wait_external"}) => WaitMode(o) = "any")'
  BY ModeIs, PTL
<1>1. /\ TypeOK /\ TypeOK' /\ status' = [status EXCEPT ![k] = st]
      /\ status \in [Waitable -> {"unborn", "pending", "running", "swept"} \cup Terminal]
  BY DEF IInv, Frame, Resolve, TypeOK
<1>2. /\ Verdict(k) = "pending"
      /\ \A w \in Waitable : Verdict(w)' = IF w = k THEN st ELSE Verdict(w)
  BY <1>1 DEF Verdict, Undecided, Terminal
<1>3. ASSUME NEW o \in Owner
      PROVE  Waits(o)' = IF o = k /\ st = "cancelled" THEN F!Idle
                         ELSE F!AfterSettle(Waits(o), k, st)
  <2>1. /\ RegisteredOn(o)' = IF o \in Decided(k, st) THEN {} ELSE RegisteredOn(o) \ {k}
        /\ o \in Decided(k, st) => k \in RegisteredOn(o)
        /\ \A types : AllOf(o, types) => AllOf(o, types)'
    BY RegistrationsLeft
  <2>2. \/ /\ AllOf(o, {"wait", "wait_external"}) /\ join[o] = NoJoin
           /\ \A v, w \in RegisteredOn(o) : v = w
        \/ AllOf(o, {"gather"})
        \/ AllOf(o, {"race"})
    BY ParkedHow
  <2>3. Waits(o) = IF IsCancelled(o) \/ RegisteredOn(o) = {} THEN F!Idle
                   ELSE [mode |-> WaitMode(o), keys |-> RegisteredOn(o)]
    BY <1>1, WaitsAre DEF F!Idle
  <2>4. Waits(o)' = IF IsCancelled(o)' \/ RegisteredOn(o)' = {} THEN F!Idle
                    ELSE [mode |-> WaitMode(o)', keys |-> RegisteredOn(o)']
    BY <1>0, <1>1 DEF F!Idle
  <2>5. /\ AllOf(o, {"gather"}) /\ RegisteredOn(o) # {} => WaitMode(o) = "all"
        /\ AllOf(o, {"race"}) \/ AllOf(o, {"wait", "wait_external"}) => WaitMode(o) = "any"
    BY ModeIs
  <2>6. /\ AllOf(o, {"gather"})' /\ RegisteredOn(o)' # {} => WaitMode(o)' = "all"
        /\ AllOf(o, {"race"})' \/ AllOf(o, {"wait", "wait_external"})' => WaitMode(o)' = "any"
    BY <1>00
  <2>7. IsCancelled(o)' <=> IsCancelled(o) \/ (o = k /\ st = "cancelled")
    <3>1. o = k => o \in Task
      BY DistinctIds DEF Owner
    <3>2. IsCancelled(o) => o # k
      BY DEF IsCancelled, Undecided
    <3>. QED  BY <1>1, <3>1, <3>2 DEF IsCancelled, Waitable
  <2>8. CASE IsCancelled(o)'
    BY <2>3, <2>4, <2>7, <2>8 DEF F!AfterSettle, F!Idle
  <2>9. CASE ~IsCancelled(o)' /\ k \notin RegisteredOn(o)
    <3>1. RegisteredOn(o)' = RegisteredOn(o)
      BY <2>1, <2>9
    <3>2. RegisteredOn(o) # {} => WaitMode(o)' = WaitMode(o)
      BY <2>1, <2>2, <2>5, <2>6, <3>1
    <3>3. Waits(o)' = Waits(o) /\ k \notin Waits(o).keys
      BY <2>3, <2>4, <2>7, <2>9, <3>1, <3>2 DEF F!Idle
    <3>. QED  BY <2>7, <2>9, <3>3 DEF F!AfterSettle
  <2>10. CASE ~IsCancelled(o)' /\ k \in RegisteredOn(o)
    <3>1. Waits(o) = [mode |-> WaitMode(o), keys |-> RegisteredOn(o)] /\ ~IsCancelled(o)
      BY <2>3, <2>7, <2>10
    <3>2. CASE AllOf(o, {"wait", "wait_external"}) /\ \A v, w \in RegisteredOn(o) : v = w
      <4>1. RegisteredOn(o)' = {}
        BY <2>1, <2>10, <3>2
      <4>. QED  BY <2>4, <2>5, <2>7, <2>10, <3>1, <3>2, <4>1 DEF F!AfterSettle
    <3>3. CASE AllOf(o, {"race"})
      <4>1. o \in Decided(k, st)
        BY <2>10, <3>3 DEF RegisteredOn, AllOf, Decided
      <4>. QED  BY <2>1, <2>4, <2>5, <2>7, <2>10, <3>1, <3>3, <4>1 DEF F!AfterSettle
    <3>4. CASE AllOf(o, {"gather"}) /\ st # "completed"
      <4>1. o \in Decided(k, st)
        BY <2>10, <3>4 DEF RegisteredOn, AllOf, Decided
      <4>. QED  BY <2>1, <2>4, <2>7, <2>10, <3>1, <3>4, <4>1 DEF F!AfterSettle
    <3>5. CASE AllOf(o, {"gather"}) /\ st = "completed"
      <4>1. o \notin Decided(k, st)
        BY <3>5 DEF AllOf, Decided
      <4>2. RegisteredOn(o)' = RegisteredOn(o) \ {k}
        BY <2>1, <4>1
      <4>3. CASE RegisteredOn(o) = {k}
        BY <2>4, <2>7, <2>10, <3>1, <4>2, <4>3 DEF F!AfterSettle
      <4>4. CASE RegisteredOn(o) # {k}
        <5>1. RegisteredOn(o)' # {} /\ WaitMode(o) = "all" /\ WaitMode(o)' = "all"
          BY <2>1, <2>5, <2>6, <2>10, <3>5, <4>2, <4>4
        <5>. QED  BY <2>4, <2>7, <2>10, <3>1, <3>5, <4>2, <4>4, <5>1 DEF F!AfterSettle
      <4>. QED  BY <4>3, <4>4
    <3>. QED  BY <2>2, <3>2, <3>3, <3>4, <3>5
  <2>. QED  BY <2>8, <2>9, <2>10
<1>. QED  BY <1>2, <1>3 DEF F!Settle, Verdict, Waits

(* Parking the running owner on undecided waitables is a Block, unless the     *)
(* owner was cancelled meanwhile: then nobody waits for it.                    *)
LEMMA ParkMaps ==
  ASSUME IInv, JoinsClosed, IInv', JoinsClosed', pc \notin Ended, Performing, UNCHANGED status,
         NEW K \in SUBSET Waitable, K # {}, \A k \in K : Undecided(k), NEW mode \in {"any", "all"},
         \A o \in Owner \ {cur} : RegisteredOn(o)' = RegisteredOn(o) /\ WaitMode(o)' = WaitMode(o),
         cur' = cur, RegisteredOn(cur)' = K, WaitMode(cur)' = mode
  PROVE  [F!Next]_(F!fvars)
<1>0. (TypeOK /\ JoinsClosed =>
         \A o \in Owner :
           Waits(o) = IF IsCancelled(o) \/ RegisteredOn(o) = {} THEN [mode |-> "none", keys |-> {}]
                      ELSE [mode |-> WaitMode(o), keys |-> RegisteredOn(o)])'
  BY WaitsAre, PTL
<1>1. TypeOK /\ TypeOK' /\ cur \in Owner
  BY DEF IInv, Frame, TypeOK
<1>2. \A o \in Owner : IsCancelled(o)' <=> IsCancelled(o)
  BY DEF IsCancelled
<1>3. \A o \in Owner \ {cur} : Waits(o)' = Waits(o)
  BY <1>0, <1>1, <1>2, WaitsAre
<1>4. \A w \in Waitable : Verdict(w)' = Verdict(w)
  BY DEF Verdict
<1>5. \A k \in K : Verdict(k) = "pending"
  BY DEF Verdict, Undecided
<1>6. Waits(cur) = F!Idle
  BY <1>1, ParkedHow DEF Waits, F!Idle
<1>7. Waits(cur)' = IF IsCancelled(cur) THEN F!Idle ELSE [mode |-> mode, keys |-> K]
  BY <1>0, <1>1, <1>2 DEF F!Idle
<1>8. CASE IsCancelled(cur)
  <2>1. \A o \in Owner : Waits(o)' = Waits(o)
    BY <1>3, <1>6, <1>7, <1>8
  <2>. QED  BY <1>4, <2>1 DEF F!fvars, Verdict, Waits
<1>9. CASE ~IsCancelled(cur)
  <2>1. \A o \in Owner : Waits(o)' = IF o = cur THEN [mode |-> mode, keys |-> K] ELSE Waits(o)
    BY <1>3, <1>7, <1>9
  <2>2. F!Block(cur, mode, K)
    BY <1>1, <1>4, <1>5, <1>6, <2>1 DEF F!Block, Verdict, Waits
  <2>. QED  BY <1>1, <2>2 DEF F!Next
<1>. QED  BY <1>8, <1>9

(* A parked Wait.                                                              *)
LEMMA WaitMaps ==
  ASSUME IInv, JoinsClosed, IInv', JoinsClosed', Kept, pc \notin Ended, Performing,
         NEW k \in handles, NEW prio \in WaitPriorities, status[k] \notin Terminal,
         WaitPending(k, prio)
  PROVE  [F!Next]_(F!fvars)
<1>1. /\ TypeOK /\ TypeOK' /\ cur \in Owner /\ k \in Waitable /\ UNCHANGED <<status, cur>>
      /\ waiters \in [Waitable -> Seq(Registration)]
      /\ status \in [Waitable -> {"unborn", "pending", "running", "swept"} \cup Terminal]
  BY DEF IInv, Frame, TypeOK, WaitPending, objs, Suspend
<1>2. PICK r \in Registration :
        /\ waiters' = [waiters EXCEPT ![k] = Append(@, r)]
        /\ r.type \in {"wait", "wait_external"} /\ r.owner = cur
  BY <1>1, WaitRegisters
<1>3. ASSUME NEW X, r \notin X PROVE Found(waiters', X) = Found(waiters, X)
  <2>1. LET g == [waiters EXCEPT ![k] = Append(@, r)] IN
        /\ g \in [Waitable -> Seq(Registration)]
        /\ r \notin X => Found(g, X) = Found(waiters, X)
        /\ r \in X /\ Found(waiters, X) = {} => Single(Found(g, X))
    BY <1>1, FamilyAppend
  <2>. QED  BY <1>2, <1>3, <2>1
<1>4. \A o \in Owner \ {cur} : RegisteredOn(o)' = RegisteredOn(o) /\ WaitMode(o)' = WaitMode(o)
  <2>1. \A o \in Owner \ {cur} : r \notin Owned(o) /\ r \notin GathersOf(o)
    BY <1>2 DEF Owned, GathersOf
  <2>. QED  BY <1>1, <1>3, <2>1, SameWaits
<1>5. RegisteredOn(cur) = {}
  BY <1>1, ParkedHow
<1>6. /\ \A w \in Waitable \ {k} : waiters'[w] = waiters[w]
      /\ \A n \in DOMAIN waiters'[k] :
           waiters'[k][n] = r \/ (n \in DOMAIN waiters[k] /\ waiters'[k][n] = waiters[k][n])
      /\ \E n \in DOMAIN waiters'[k] : waiters'[k][n] = r
  <2>1. waiters[k] \in Seq(Registration) /\ waiters'[k] = Append(waiters[k], r)
    BY <1>1, <1>2
  <2>2. /\ Len(waiters[k]) \in Nat /\ DOMAIN waiters[k] = 1..Len(waiters[k])
        /\ DOMAIN waiters'[k] = 1..(Len(waiters[k]) + 1)
        /\ waiters'[k][Len(waiters[k]) + 1] = r
        /\ \A n \in 1..Len(waiters[k]) : waiters'[k][n] = waiters[k][n]
    BY <2>1
  <2>3. \A n \in 1..(Len(waiters[k]) + 1) : n \in 1..Len(waiters[k]) \/ n = Len(waiters[k]) + 1
    BY <2>2
  <2>4. Len(waiters[k]) + 1 \in 1..(Len(waiters[k]) + 1)
    BY <2>2
  <2>. QED  BY <1>1, <1>2, <2>2, <2>3, <2>4
<1>7. RegisteredOn(cur)' = {k}
  BY <1>1, <1>2, <1>5, <1>6 DEF RegisteredOn
<1>8. WaitMode(cur)' = "any"
  <2>1. GatheredOn(k, cur)' = {}
    BY <1>1, <1>2, <1>5, <1>6 DEF GatheredOn, RegisteredOn
  <2>. QED  BY <1>7, <2>1 DEF WaitMode
<1>9. Undecided(k)
  BY <1>1 DEF Kept, Undecided
<1>10. PICK K \in SUBSET Waitable : K = {k}
  BY <1>1
<1>11. PICK mode \in {"any", "all"} : mode = "any"
  OBVIOUS
<1>. QED  BY <1>1, <1>4, <1>7, <1>8, <1>9, <1>10, <1>11, ParkMaps

(* A parked Gather waits for all its pending keys, a parked Race for any key.  *)
LEMMA JoinMaps ==
  ASSUME IInv, JoinsClosed, IInv', JoinsClosed', Kept, pc \notin Ended, Performing,
         NEW ks \in KeyLists, NEW type \in {"gather", "race"}, NEW remaining \in Int,
         NEW I \in SUBSET DOMAIN ks, I # {}, \A i \in I : status[ks[i]] \notin Terminal,
         RegisterJoin(type, ks, I, remaining)
  PROVE  [F!Next]_(F!fvars)
<1>0. (TypeOK => \A o \in Owner : \A w \in Waitable :
         /\ w \in RegisteredOn(o) <=> \E n : <<w, n>> \in Found(waiters, Owned(o))
         /\ GatheredOn(w, o) # {} <=> \E n : <<w, n>> \in Found(waiters, GathersOf(o)))'
  BY RegisteredFound, PTL
<1>1. /\ TypeOK /\ TypeOK' /\ cur \in Owner /\ UNCHANGED <<status, cur>>
      /\ status \in [Waitable -> {"unborn", "pending", "running", "swept"} \cup Terminal]
  BY DEF IInv, Frame, TypeOK, RegisterJoin, objs, Suspend
<1>2. /\ Shields(ready') \subseteq Shields(ready) \cup Added(ks, I)
      /\ \A w \in Waitable : \A n \in DOMAIN waiters[w] :
           n \in DOMAIN waiters'[w] /\ waiters'[w][n] = waiters[w][n]
      /\ \A i \in I : \E n \in DOMAIN waiters'[ks[i]] :
           waiters'[ks[i]][n].owner = cur /\ waiters'[ks[i]][n].type = type
      /\ waiters' \in [Waitable -> Seq(Registration)]
      /\ \A w \in Waitable \ {ks[i] : i \in I} : waiters'[w] = waiters[w]
      /\ \A X : (\A r \in X : ~(r.owner = cur /\ r.type = type))
               => Found(waiters', X) = Found(waiters, X)
  BY <1>1, JoinRegisters
<1>3. \A i \in I : ks[i] \in handles /\ ks[i] \in Waitable
  <2>1. PICK n \in 0..MaxKeys : ks \in [1..n -> {k \in handles : <<cur, k>> \in MayWait}]
    BY DEF KeyLists
  <2>. QED  BY <1>1, <2>1 DEF TypeOK
<1>4. PICK K \in SUBSET Waitable : K = {ks[i] : i \in I}
  BY <1>3
<1>5. K # {} /\ \A k \in K : Undecided(k)
  BY <1>1, <1>3, <1>4 DEF Kept, Undecided
<1>6. \A o \in Owner \ {cur} : RegisteredOn(o)' = RegisteredOn(o) /\ WaitMode(o)' = WaitMode(o)
  <2>1. ASSUME NEW o \in Owner \ {cur}
        PROVE  /\ Found(waiters', Owned(o)) = Found(waiters, Owned(o))
               /\ Found(waiters', GathersOf(o)) = Found(waiters, GathersOf(o))
    <3>1. \A r \in Owned(o) : ~(r.owner = cur /\ r.type = type)
      BY DEF Owned
    <3>2. \A r \in GathersOf(o) : ~(r.owner = cur /\ r.type = type)
      BY DEF GathersOf
    <3>. QED  BY <1>2, <3>1, <3>2
  <2>. QED  BY <1>1, <2>1, SameWaits
<1>7. RegisteredOn(cur) = {}
  BY <1>1, ParkedHow
<1>8. RegisteredOn(cur)' = K
  <2>1. ASSUME NEW i \in I PROVE ks[i] \in RegisteredOn(cur)'
    BY <1>1, <1>2, <1>3 DEF RegisteredOn
  <2>2. ASSUME NEW w \in Waitable, w \notin K PROVE w \notin RegisteredOn(cur)'
    BY <1>1, <1>2, <1>4, <1>7, <2>2 DEF RegisteredOn
  <2>3. RegisteredOn(cur)' \subseteq Waitable
    BY DEF RegisteredOn
  <2>. QED  BY <1>4, <2>1, <2>2, <2>3
<1>9. CASE type = "gather"
  <2>1. WaitMode(cur)' = "all"
    <3>1. PICK i \in I : TRUE
      OBVIOUS
    <3>2. ks[i] \in RegisteredOn(cur)' /\ GatheredOn(ks[i], cur)' # {}
      BY <1>1, <1>2, <1>4, <1>8, <1>9, <3>1 DEF GatheredOn
    <3>. QED  BY <3>2 DEF WaitMode
  <2>2. PICK mode \in {"any", "all"} : mode = "all"
    OBVIOUS
  <2>. QED  BY <1>1, <1>5, <1>6, <1>8, <2>1, <2>2, ParkMaps
<1>10. CASE type = "race"
  <2>1. Found(waiters', GathersOf(cur)) = Found(waiters, GathersOf(cur))
    <3>1. \A r \in GathersOf(cur) : ~(r.owner = cur /\ r.type = type)
      BY <1>10 DEF GathersOf
    <3>. QED  BY <1>2, <3>1
  <2>2. \A w \in Waitable : GatheredOn(w, cur) = {}
    BY <1>7 DEF GatheredOn, RegisteredOn
  <2>3. \A w \in Waitable : GatheredOn(w, cur)' = {}
    BY <1>0, <1>1, <2>1, <2>2, RegisteredFound
  <2>4. WaitMode(cur)' = "any"
    BY <2>3 DEF WaitMode, RegisteredOn
  <2>5. PICK mode \in {"any", "all"} : mode = "any"
    OBVIOUS
  <2>. QED  BY <1>1, <1>5, <1>6, <1>8, <2>4, <2>5, ParkMaps
<1>. QED  BY <1>9, <1>10

(* A step that leaves the registrations and the joins where they are creates,  *)
(* forgets, or is not visible.                                                 *)
LEMMA MovedMaps == ASSUME TypeOK, Moved PROVE [F!Next]_(F!fvars)
<1>1. /\ status \in [Waitable -> {"unborn", "pending", "running", "swept"} \cup Terminal]
      /\ UNCHANGED parked
  BY DEF TypeOK, Moved
<1>2. ASSUME \A t \in Task : IsCancelled(t)' <=> IsCancelled(t)
      PROVE  \A o \in Owner : Waits(o)' = Waits(o)
  BY <1>1, <1>2 DEF Waits, IsCancelled, RegisteredOn, WaitMode, GatheredOn, parked
<1>3. CASE status' = status
  <2>1. \A o \in Owner : Waits(o)' = Waits(o)
    BY <1>2, <1>3 DEF IsCancelled
  <2>2. \A w \in Waitable : Verdict(w)' = Verdict(w)
    BY <1>3 DEF Verdict
  <2>. QED  BY <2>1, <2>2 DEF F!fvars, Verdict, Waits
<1>4. CASE \E t \in Task : Undecided(t) /\ status' = [status EXCEPT ![t] = "running"]
  <2>1. PICK t \in Task : Undecided(t) /\ status' = [status EXCEPT ![t] = "running"]
    BY <1>4
  <2>2. \A w \in Waitable : status'[w] = IF w = t THEN "running" ELSE status[w]
    BY <1>1, <2>1
  <2>3. \A o \in Owner : Waits(o)' = Waits(o)
    BY <1>2, <2>1, <2>2 DEF IsCancelled, Undecided, Waitable
  <2>4. \A w \in Waitable : Verdict(w)' = Verdict(w)
    BY <2>1, <2>2 DEF Verdict, Undecided
  <2>. QED  BY <2>3, <2>4 DEF F!fvars, Verdict, Waits
<1>5. PICK W \in SUBSET Waitable : W = {w \in Waitable : Sweepable(w)}
  OBVIOUS
<1>6. \A w \in W : Verdict(w) \in F!Outcome
  BY <1>5 DEF Sweepable, Verdict, F!Outcome
<1>7. \A w \in Waitable : Swept[w] = IF w \in W THEN "swept" ELSE status[w]
  BY <1>5 DEF Swept
<1>8. CASE status' = Swept
  <2>1. \A o \in Owner : Waits(o)' = Waits(o)
    BY <1>2, <1>5, <1>7, <1>8 DEF IsCancelled, Sweepable, Waitable
  <2>2. \A w \in Waitable : Verdict(w)' = IF w \in W THEN "gone" ELSE Verdict(w)
    BY <1>7, <1>8 DEF Verdict
  <2>3. F!Forget(W)
    BY <1>6, <2>1, <2>2 DEF F!Forget, F!Forgettable, F!Forgotten, Verdict, Waits
  <2>. QED  BY <2>3 DEF F!Next
<1>9. ASSUME NEW k \in Waitable, Allocate(k) PROVE F!Next
  <2>1. status[k] = "unborn" /\ Verdict(k) = "unborn"
    BY <1>9 DEF Allocate, Verdict
  <2>2. PICK V \in SUBSET Waitable :
          /\ V = {} \/ V = W
          /\ \A w \in Waitable :
               status'[w] = IF w = k THEN "pending" ELSE IF w \in V THEN "swept" ELSE status[w]
    <3>1. \/ status' = [Swept EXCEPT ![k] = "pending"]
          \/ status' = [status EXCEPT ![k] = "pending"]
      BY <1>9 DEF Allocate
    <3>2. CASE status' = [Swept EXCEPT ![k] = "pending"]
      <4>1. \A w \in Waitable : status'[w] = IF w = k THEN "pending" ELSE Swept[w]
        BY <3>2 DEF Swept
      <4>. QED  BY <1>7, <4>1
    <3>3. CASE status' = [status EXCEPT ![k] = "pending"]
      <4>1. \A w \in Waitable : status'[w] = IF w = k THEN "pending" ELSE status[w]
        BY <1>1, <3>3
      <4>2. PICK V \in SUBSET Waitable : V = {}
        OBVIOUS
      <4>3. \A w \in Waitable :
              status'[w] = IF w = k THEN "pending" ELSE IF w \in V THEN "swept" ELSE status[w]
        BY <4>1, <4>2
      <4>. QED  BY <4>2, <4>3
    <3>. QED  BY <3>1, <3>2, <3>3
  <2>3. \A w \in V : Verdict(w) \in F!Outcome /\ w # k
    BY <1>6, <2>1, <2>2 DEF F!Outcome
  <2>4. \A o \in Owner : Waits(o)' = Waits(o)
    BY <1>2, <1>5, <2>1, <2>2 DEF IsCancelled, Sweepable, Waitable
  <2>5. \A w \in Waitable :
          Verdict(w)' = IF w = k THEN "pending" ELSE IF w \in V THEN "gone" ELSE Verdict(w)
    BY <2>2 DEF Verdict
  <2>6. F!Create(k, V)
    BY <2>1, <2>3, <2>4, <2>5 DEF F!Create, F!Forgettable, F!Forgotten, Verdict, Waits
  <2>. QED  BY <2>6 DEF F!Next
<1>. QED  BY <1>3, <1>4, <1>8, <1>9 DEF Moved

(* The initial states: nothing is created, nobody waits.                       *)
LEMMA InitMaps == ASSUME Init PROVE F!Init /\ JoinsClosed
<1>1. F!Init
  BY DEF Init, F!Init, F!Idle, IsCancelled, RegisteredOn, Owner, Waitable
<1>. QED  BY <1>1 DEF Init, JoinsClosed

(* Every step of the scheduler is a step of Futures, or is not visible.        *)
LEMMA StepMaps ==
  ASSUME IInv, IInv', JoinsClosed, JoinsClosed', Kept, [Next]_vars PROVE [F!Next]_(F!fvars)
<1>1. CASE UNCHANGED vars
  BY <1>1 DEF vars, objs, parked, F!fvars, IsCancelled, RegisteredOn, WaitMode, GatheredOn
<1>2. CASE Next
  <2>1. pc \notin Ended
    BY <1>2, NoStepEnded
  <2>2. CASE Moved
    BY <2>2, MovedMaps DEF IInv, Frame
  <2>3. ASSUME NEW k \in Waitable, NEW st \in Terminal, Undecided(k), Resolve(k, st)
        PROVE  [F!Next]_(F!fvars)
    <3>1. F!Settle(k, st) /\ st \in F!Outcome
      BY <2>1, <2>3, SettleMaps DEF Terminal, F!Outcome
    <3>. QED  BY <3>1 DEF F!Next
  <2>4. CASE ParkedOnOne
    BY <2>1, <2>4, WaitMaps DEF ParkedOnOne
  <2>5. CASE ParkedOnMany
    BY <2>1, <2>5, JoinMaps DEF ParkedOnMany
  <2>. QED  BY <2>2, <2>3, <2>4, <2>5, Steps DEF Step, Settled
<1>. QED  BY <1>1, <1>2

(* The scheduler implements Futures: whatever the order of completions,        *)
(* failures, cancellations and sweeps, a Wait, Gather or Race is over exactly  *)
(* when its condition on the outcomes is met, and outcomes are written once.   *)
THEOREM KeepsItsPromise == Spec => ImplementsFutures
<1>1. Init => F!Init /\ JoinsClosed /\ Kept
  BY InitMaps, InitKept
<1>2. IInv /\ JoinsClosed /\ [Next]_vars => JoinsClosed'
  BY JoinsClosedNext
<1>3. IInv /\ Kept /\ [Next]_vars => Kept'
  BY KeptNext
<1>4. IInv /\ IInv' /\ JoinsClosed /\ JoinsClosed' /\ Kept /\ [Next]_vars => [F!Next]_(F!fvars)
  BY StepMaps
<1>5. Spec => [](JoinsClosed /\ Kept)
  BY <1>1, <1>2, <1>3, Inductive, PTL DEF Spec
<1>. QED  BY <1>1, <1>4, <1>5, Inductive, PTL DEF Spec, ImplementsFutures, F!Spec

(* The outcomes and the waits of Futures as the scheduler keeps them.          *)
Verdicts == [w \in Waitable |-> Verdict(w)]
WaitsNow == [o \in Owner |-> Waits(o)]

(* What Futures says, with the scheduler's outcomes and waits by name.         *)
LEMMA FuturesNow ==
  /\ F!Init => /\ Verdicts = [k \in Waitable |-> "unborn"]
               /\ WaitsNow = [o \in Owner |-> F!Idle]
  /\ F!TypeOK <=> /\ Verdicts \in [Waitable -> {"unborn", "pending", "gone"} \cup F!Outcome]
                  /\ WaitsNow \in [Owner -> F!Waiting]
  /\ F!NoLostWakeup <=> \A o \in Owner : \A k \in WaitsNow[o].keys : Verdicts[k] = "pending"
BY DEF F!Init, F!TypeOK, F!NoLostWakeup, Verdicts, WaitsNow, Verdict, Waits

(* The same after a step.                                                      *)
LEMMA FuturesNext ==
  /\ F!TypeOK' <=> /\ Verdicts' \in [Waitable -> {"unborn", "pending", "gone"} \cup F!Outcome]
                   /\ WaitsNow' \in [Owner -> F!Waiting]
  /\ F!NoLostWakeup' <=>
       \A o \in Owner : \A k \in WaitsNow'[o].keys : Verdicts'[k] = "pending"
  /\ UNCHANGED F!fvars => Verdicts' = Verdicts /\ WaitsNow' = WaitsNow
BY DEF F!fvars, F!TypeOK, F!NoLostWakeup, Verdicts, WaitsNow, Verdict, Waits

(* Forgetting, over the scheduler's outcomes.                                  *)
LEMMA ForgottenNow ==
  ASSUME NEW W
  PROVE  /\ F!Forgettable(W) <=> \A k \in W : Verdicts[k] \in F!Outcome
         /\ F!Forgotten(W) = [k \in Waitable |-> IF k \in W THEN "gone" ELSE Verdicts[k]]
BY DEF F!Forgettable, F!Forgotten, Verdicts, Verdict

(* The actions of Futures, over the scheduler's outcomes and waits.            *)
LEMMA ActionsNow ==
  /\ \A W : F!Forget(W) <=> /\ F!Forgettable(W) /\ Verdicts' = F!Forgotten(W)
                            /\ WaitsNow' = WaitsNow
  /\ \A k, W : F!Create(k, W) <=>
       /\ Verdicts[k] = "unborn" /\ F!Forgettable(W)
       /\ Verdicts' = [F!Forgotten(W) EXCEPT ![k] = "pending"]
       /\ WaitsNow' = WaitsNow
  /\ \A k, st : F!Settle(k, st) <=>
       /\ Verdicts[k] = "pending"
       /\ Verdicts' = [Verdicts EXCEPT ![k] = st]
       /\ WaitsNow' = [o \in Owner |-> IF o = k /\ st = "cancelled" THEN F!Idle
                                       ELSE F!AfterSettle(WaitsNow[o], k, st)]
  /\ \A o, mode, keys : F!Block(o, mode, keys) <=>
       /\ WaitsNow[o] = F!Idle
       /\ keys # {} /\ \A k \in keys : Verdicts[k] = "pending"
       /\ WaitsNow' = [WaitsNow EXCEPT ![o] = [mode |-> mode, keys |-> keys]]
       /\ Verdicts' = Verdicts
<1>1. ASSUME NEW W
      PROVE  F!Forget(W) <=> /\ F!Forgettable(W) /\ Verdicts' = F!Forgotten(W)
                             /\ WaitsNow' = WaitsNow
  BY DEF F!Forget, Verdicts, WaitsNow, Verdict, Waits
<1>2. ASSUME NEW k, NEW W
      PROVE  F!Create(k, W) <=> /\ Verdicts[k] = "unborn" /\ F!Forgettable(W)
                                /\ Verdicts' = [F!Forgotten(W) EXCEPT ![k] = "pending"]
                                /\ WaitsNow' = WaitsNow
  BY DEF F!Create, Verdicts, WaitsNow, Verdict, Waits
<1>3. ASSUME NEW k, NEW st
      PROVE  F!Settle(k, st) <=>
               /\ Verdicts[k] = "pending"
               /\ Verdicts' = [Verdicts EXCEPT ![k] = st]
               /\ WaitsNow' = [o \in Owner |-> IF o = k /\ st = "cancelled" THEN F!Idle
                                               ELSE F!AfterSettle(WaitsNow[o], k, st)]
  BY DEF F!Settle, Verdicts, WaitsNow, Verdict, Waits
<1>4. ASSUME NEW o, NEW mode, NEW keys
      PROVE  F!Block(o, mode, keys) <=>
               /\ WaitsNow[o] = F!Idle
               /\ keys # {} /\ \A k \in keys : Verdicts[k] = "pending"
               /\ WaitsNow' = [WaitsNow EXCEPT ![o] = [mode |-> mode, keys |-> keys]]
               /\ Verdicts' = Verdicts
  BY DEF F!Block, Verdicts, WaitsNow, Verdict, Waits
<1>. QED  BY <1>1, <1>2, <1>3, <1>4

(* In Futures no wakeup is lost: whoever waits, waits for cells none of which  *)
(* is decided.                                                                 *)
THEOREM WakeupsKept == F!Spec => [](F!TypeOK /\ F!NoLostWakeup)
<1> DEFINE Inv == F!TypeOK /\ F!NoLostWakeup
<1>1. F!Init => Inv
  BY FuturesNow, FuturesNext DEF F!Idle, F!Waiting
<1>2. Inv /\ [F!Next]_(F!fvars) => Inv'
  <2> SUFFICES ASSUME Inv, [F!Next]_(F!fvars) PROVE Inv'
    OBVIOUS
  <2>0. ASSUME NEW o \in Owner
        PROVE WaitsNow[o].keys \subseteq Waitable /\ \A k \in WaitsNow[o].keys : Verdicts[k] = "pending"
    <3>1. WaitsNow[o] \in F!Waiting
      BY FuturesNow, FuturesNext
    <3>2. WaitsNow[o].keys \subseteq Waitable
      BY <3>1 DEF F!Waiting, F!Idle
    <3>3. QED  BY <3>2, FuturesNow, FuturesNext
  <2>1. ASSUME NEW W \in SUBSET Waitable, F!Forget(W) PROVE Inv'
    <3>1. F!TypeOK'
      BY <2>1, FuturesNow, FuturesNext, ActionsNow, ForgottenNow
    <3>2. F!NoLostWakeup'
      BY <2>0, <2>1, FuturesNow, FuturesNext, ActionsNow, ForgottenNow DEF F!Outcome
    <3>3. QED  BY <3>1, <3>2
  <2>2. ASSUME NEW W \in SUBSET Waitable, NEW k \in Waitable, F!Create(k, W) PROVE Inv'
    <3>1. F!TypeOK'
      BY <2>2, FuturesNow, FuturesNext, ActionsNow, ForgottenNow
    <3>2. F!NoLostWakeup'
      BY <2>0, <2>2, FuturesNow, FuturesNext, ActionsNow, ForgottenNow DEF F!Outcome
    <3>3. QED  BY <3>1, <3>2
  <2>3. ASSUME NEW k \in Waitable, NEW st \in F!Outcome, F!Settle(k, st) PROVE Inv'
    <3> DEFINE left(o) == F!AfterSettle(WaitsNow[o], k, st)
    <3>1. ASSUME NEW o \in Owner
          PROVE left(o) \in F!Waiting /\ left(o).keys \subseteq WaitsNow[o].keys \ {k}
      <4>0. WaitsNow[o] \in F!Waiting
        BY FuturesNow, FuturesNext
      <4>1. CASE WaitsNow[o] = F!Idle
        BY <4>1 DEF F!AfterSettle, F!Idle, F!Waiting
      <4>2. CASE WaitsNow[o] \in [mode : {"any", "all"}, keys : SUBSET Waitable]
        <5>1. CASE k \notin WaitsNow[o].keys
          BY <4>0, <5>1 DEF F!AfterSettle
        <5>2. CASE left(o) = F!Idle
          BY <5>2 DEF F!Idle, F!Waiting
        <5>3. CASE k \in WaitsNow[o].keys /\ left(o) = [WaitsNow[o] EXCEPT !.keys = @ \ {k}]
          BY <4>2, <5>3 DEF F!Waiting
        <5>4. QED  BY <5>1, <5>2, <5>3 DEF F!AfterSettle
      <4>3. QED  BY <4>0, <4>1, <4>2 DEF F!Waiting
    <3>2. \A o \in Owner : WaitsNow'[o] = F!Idle \/ WaitsNow'[o] = left(o)
      BY <2>3, ActionsNow
    <3>3. F!TypeOK'
      <4>1. WaitsNow' \in [Owner -> F!Waiting]
        BY <2>3, <3>1, ActionsNow DEF F!Waiting
      <4>2. QED  BY <2>3, <4>1, FuturesNow, FuturesNext, ActionsNow
    <3>4. ASSUME NEW o \in Owner, NEW c \in WaitsNow'[o].keys PROVE Verdicts'[c] = "pending"
      <4>1. c \in WaitsNow[o].keys /\ c # k
        BY <3>1, <3>2 DEF F!Idle
      <4>2. QED  BY <2>0, <2>3, <4>1, FuturesNow, FuturesNext, ActionsNow
    <3>5. QED  BY <3>3, <3>4, FuturesNow, FuturesNext
  <2>4. ASSUME NEW o \in Owner, NEW mode \in {"any", "all"}, NEW keys \in SUBSET Waitable,
               F!Block(o, mode, keys)
        PROVE Inv'
    <3>1. F!TypeOK'
      BY <2>4, FuturesNow, FuturesNext, ActionsNow DEF F!Waiting
    <3>2. ASSUME NEW p \in Owner, NEW c \in WaitsNow'[p].keys PROVE Verdicts'[c] = "pending"
      BY <2>0, <2>4, FuturesNow, FuturesNext, ActionsNow
    <3>3. QED  BY <3>1, <3>2, FuturesNow, FuturesNext
  <2>5. CASE UNCHANGED F!fvars
    BY <2>5, FuturesNow, FuturesNext
  <2>6. QED  BY <2>1, <2>2, <2>3, <2>4, <2>5 DEF F!Next
<1>3. QED  BY <1>1, <1>2, PTL DEF F!Spec

(* What Futures promises of its waits holds of the scheduler's: whoever is     *)
(* registered, or has an open Gather or Race, waits for waitables none of      *)
(* which is decided, so that no wakeup is lost.                                *)
THEOREM NoWakeupLost == Spec => [](F!TypeOK /\ F!NoLostWakeup)
BY KeepsItsPromise, WakeupsKept DEF ImplementsFutures

-------------------------------------------------------------------------------
(* Everybody is registered only where its program may wait.                    *)
Allowed == \A o \in Owner : \A w \in RegisteredOn(o) : <<o, w>> \in MayWait

(* Every step keeps the registrations allowed.                                 *)
LEMMA AllowedNext == ASSUME IInv, JoinsClosed, Allowed, Next PROVE Allowed'
<1>1. TypeOK /\ pc \notin Ended /\ handles \subseteq Waitable /\ cur \in Owner
  BY NoStepEnded DEF IInv, Frame, TypeOK
<1>2. CASE Moved
  BY <1>2 DEF Moved, parked, Allowed, RegisteredOn
<1>3. CASE Settled
  <2>1. PICK k \in Waitable, st \in Terminal : Resolve(k, st)
    BY <1>3 DEF Settled
  <2>2. \A o \in Owner : RegisteredOn(o)' \subseteq RegisteredOn(o)
    BY <1>1, <2>1, RegistrationsLeft
  <2>. QED  BY <2>2 DEF Allowed
<1>4. CASE ParkedOnOne
  <2>1. PICK k \in Waitable, prio \in WaitPriorities : WaitPending(k, prio) /\ <<cur, k>> \in MayWait
    BY <1>1, <1>4 DEF ParkedOnOne
  <2>2. PICK r \in Registration : /\ waiters' = [waiters EXCEPT ![k] = Append(@, r)]
                                  /\ r.owner = cur
    BY <1>1, <2>1, WaitRegisters
  <2>3. ASSUME NEW o \in Owner, NEW w \in RegisteredOn(o)' PROVE <<o, w>> \in MayWait
    <3>1. PICK i \in DOMAIN waiters'[w] : w \in Waitable /\ waiters'[w][i].owner = o
      BY DEF RegisteredOn
    <3>2. waiters[w] \in Seq(Registration) /\ waiters[k] \in Seq(Registration)
          /\ DOMAIN waiters = Waitable
      BY <1>1, <3>1 DEF TypeOK
    <3>3. CASE w # k
      BY <2>2, <3>1, <3>2, <3>3 DEF Allowed, RegisteredOn
    <3>4. CASE w = k
      <4>1. waiters'[w] = Append(waiters[w], r)
        BY <2>2, <3>2, <3>4
      <4>2. \/ i \in DOMAIN waiters[w] /\ waiters'[w][i] = waiters[w][i]
            \/ waiters'[w][i] = r
        BY <3>1, <3>2, <4>1
      <4>. QED  BY <2>1, <2>2, <3>1, <3>4, <4>2 DEF Allowed, RegisteredOn
    <3>. QED  BY <3>3, <3>4
  <2>. QED  BY <2>3 DEF Allowed
<1>5. CASE ParkedOnMany
  <2>1. PICK ks \in KeyLists, type \in {"gather", "race"}, remaining \in Int :
          \E I \in SUBSET DOMAIN ks : RegisterJoin(type, ks, I, remaining)
    BY <1>5 DEF ParkedOnMany
  <2>2. PICK I \in SUBSET DOMAIN ks : RegisterJoin(type, ks, I, remaining)
    BY <2>1
  <2>3. /\ waiters' \in [Waitable -> Seq(Registration)]
        /\ \A w \in Waitable \ {ks[i] : i \in I} : waiters'[w] = waiters[w]
        /\ \A X : (\A r \in X : ~(r.owner = cur /\ r.type = type))
                  => Found(waiters', X) = Found(waiters, X)
    BY <1>1, <2>2, JoinRegisters
  <2>4. \A i \in DOMAIN ks : <<cur, ks[i]>> \in MayWait
    <3> DEFINE Keys == {k \in handles : <<cur, k>> \in MayWait}
    <3>1. PICK n \in 0..MaxKeys : ks \in [1..n -> Keys]
      BY DEF KeyLists
    <3>2. \A i \in DOMAIN ks : ks[i] \in Keys
      BY <3>1
    <3>. QED  BY <3>2
  <2>5. ASSUME NEW o \in Owner, NEW w \in RegisteredOn(o)' PROVE <<o, w>> \in MayWait
    <3>1. PICK i \in DOMAIN waiters'[w] : w \in Waitable /\ waiters'[w][i].owner = o
      BY DEF RegisteredOn
    <3>2. CASE w \notin {ks[j] : j \in I}
      BY <2>3, <3>1, <3>2 DEF Allowed, RegisteredOn
    <3>3. CASE w \in {ks[j] : j \in I} /\ o = cur
      BY <2>4, <3>3
    <3>4. CASE o # cur
      <4>1. Found(waiters', Owned(o)) = Found(waiters, Owned(o))
        BY <2>3, <3>4 DEF Owned
      <4>2. waiters'[w][i] \in Registration /\ DOMAIN waiters' = Waitable
        BY <2>3, <3>1
      <4>3. <<w, i>> \in Found(waiters', Owned(o))
        BY <3>1, <4>2, FoundMember DEF Occ, Owned
      <4>4. w \in RegisteredOn(o)
        BY <1>1, <3>1, <4>1, <4>3, RegisteredFound
      <4>. QED  BY <4>4 DEF Allowed
    <3>. QED  BY <3>2, <3>3, <3>4
  <2>. QED  BY <2>5 DEF Allowed
<1>6. CASE UNCHANGED vars
  BY <1>6 DEF vars, parked, Allowed, RegisteredOn
<1>. QED  BY <1>2, <1>3, <1>4, <1>5, <1>6, Steps DEF Step

(* A set of natural numbers that is not empty has a least element.             *)
LEMMA Least ==
  ASSUME NEW T \in SUBSET Nat, T # {}
  PROVE  \E x \in T : \A y \in T : x <= y
<1> DEFINE R == {ss \in Nat \X Nat : ss[1] < ss[2]}
<1>1. IsWellFoundedOn(R, Nat)
  BY NatLessThanWellFounded DEF OpToRel
<1>2. PICK x \in T : \A y \in T : ~ (<<y, x>> \in R)
  BY <1>1, WFMin
<1>3. ASSUME NEW y \in T PROVE x <= y
  <2>1. <<y, x>> \in Nat \X Nat /\ <<y, x>> \notin R
    BY <1>2
  <2>. QED  BY <2>1
<1>. QED  BY <1>3

(* On an empty heap, without semaphores, whoever is unfinished is registered.  *)
LEMMA UnfinishedParked ==
  ASSUME Sem = {}, Frame, Safe, NothingReady, NEW o \in Owner, Unfinished(o)
  PROVE  RegisteredOn(o) # {}
<1>1. TypeOK /\ pc = "pop" /\ pc \notin Ended
  BY DEF Safe, NothingReady, Ended
<1>2. PICK place \in PlaceName \cup {"nowhere"} :
        /\ At(o, place) /\ Fits(o, place)
        /\ place = "run" <=> o = cur /\ pc \in {"user", "effect"}
  BY <1>1, AtRun
<1>3. place \notin {"run", "nowhere"}
  BY <1>1, <1>2 DEF Fits
<1>4. Found(ready, QueuedFor(o)) = {}
  <2>1. DOMAIN ready = Priority /\ \A p \in Priority : ready[p] = <<>>
    BY <1>1, NothingReadyFrame DEF TypeOK
  <2>2. \A p \in Priority : Occ(ready[p], QueuedFor(o)) = {}
    BY <2>1 DEF Occ
  <2>. QED  BY <2>1, <2>2, FoundEmpty
<1>5. Found(semWaiters, {o}) = {}
  <2>1. DOMAIN semWaiters = {}
    BY <1>1 DEF TypeOK
  <2>. QED  BY <2>1, FoundEmpty
<1>6. Found(waiters, WaitsOf(o)) # {} \/ Found(waiters, JoinsOf(o)) # {}
  BY <1>2, <1>3, <1>4, <1>5 DEF At, Site, Single, PlaceName
<1>7. ASSUME NEW X, Found(waiters, X) # {}, \A r \in X : r.owner = o PROVE RegisteredOn(o) # {}
  <2>1. PICK z \in Found(waiters, X) : TRUE
    BY <1>7
  <2>2. z[1] \in DOMAIN waiters /\ z[2] \in Occ(waiters[z[1]], X)
    BY FoundMember
  <2>3. z[1] \in Waitable
    BY <1>1, <2>2 DEF TypeOK
  <2>. QED  BY <1>7, <2>2, <2>3 DEF RegisteredOn, Occ
<1>8. (\A r \in WaitsOf(o) : r.owner = o) /\ (\A r \in JoinsOf(o) : r.owner = o)
  BY DEF WaitsOf, JoinsOf
<1>. QED  BY <1>6, <1>7, <1>8

(* No run is diagnosed as deadlocked (NoFalseDeadlock) whose programs use no   *)
(* semaphore and wait without cycles: for external promises, and for tasks of  *)
(* a lower rank.  Of the live owners parked when nothing is ready, one of the  *)
(* least rank waits for something undecided that is not a task, because that   *)
(* task would be parked itself: so a completion is still to come.              *)
THEOREM AcyclicWaitsRun ==
  ASSUME Sem = {}, NEW rank \in [Owner -> Nat],
         \A o \in Owner, w \in Waitable :
           <<o, w>> \in MayWait => w \in ExtPromise \/ (w \in Task /\ rank[w] < rank[o])
  PROVE  Spec => []NoFalseDeadlock
<1>1. Init => Allowed /\ Kept /\ JoinsClosed /\ NoFalseDeadlock
  BY InitKept, InitMaps DEF Init, Allowed, RegisteredOn, NoFalseDeadlock
<1>2. IInv /\ Kept /\ JoinsClosed /\ Allowed /\ [Next]_vars => (Kept /\ JoinsClosed /\ Allowed)'
  <2>1. UNCHANGED vars /\ Allowed => Allowed'
    BY DEF vars, parked, Allowed, RegisteredOn
  <2>. QED  BY <2>1, KeptNext, JoinsClosedNext, AllowedNext
<1>3. ASSUME IInv, Kept, JoinsClosed, Allowed, F!NoLostWakeup, NothingReady
      PROVE  pc' # "deadlock"
  <2>1. Frame /\ Safe /\ TypeOK
    BY <1>3 DEF IInv, Frame, Safe
  <2>2. Blocked = {} /\ Unreleasable = {}
    BY DEF Blocked, Unreleasable
  <2>3. SUFFICES ASSUME ~has_pending_external_waiters, \E w \in Waitable : LiveRegistered(w)
                 PROVE  FALSE
    BY <1>3, <2>2 DEF NothingReady
  <2> DEFINE Waiters == {o \in Owner : ~IsCancelled(o) /\ RegisteredOn(o) # {}}
             T == {rank[o] : o \in Waiters}
  <2>4. Waiters # {}
    <3>1. PICK w \in Waitable : \E i \in DOMAIN waiters[w] : ~IsCancelled(waiters[w][i].owner)
      BY <2>3 DEF LiveRegistered
    <3>2. PICK i \in DOMAIN waiters[w] : ~IsCancelled(waiters[w][i].owner)
      BY <3>1
    <3>3. waiters[w] \in Seq(Registration)
      BY <2>1 DEF TypeOK
    <3>4. waiters[w][i] \in Registration
      BY <3>3
    <3>5. waiters[w][i].owner \in Owner /\ w \in RegisteredOn(waiters[w][i].owner)
      BY <3>4 DEF RegisteredOn, Registration
    <3>. QED  BY <3>2, <3>5
  <2>5. PICK o \in Waiters : \A q \in Waiters : rank[o] <= rank[q]
    <3>1. T \in SUBSET Nat /\ T # {}
      BY <2>4
    <3>2. PICK x \in T : \A y \in T : x <= y
      BY <3>1, Least
    <3>. QED  BY <3>2
  <2>6. PICK w \in RegisteredOn(o) : TRUE
    BY <2>5
  <2>7. w \in Waitable /\ <<o, w>> \in MayWait
    BY <1>3, <2>6 DEF RegisteredOn, Allowed
  <2>8. status[w] \in {"pending", "running"}
    <3>1. WaitsNow[o].keys = RegisteredOn(o)
      BY <2>5 DEF WaitsNow, Waits
    <3>2. Verdicts[w] = "pending"
      BY <1>3, <2>5, <2>6, <3>1, FuturesNow
    <3>. QED  BY <2>7, <3>2 DEF Verdicts, Verdict
  <2>9. CASE w \in ExtPromise
    <3>1. w \notin Owner
      BY <2>9, DistinctIds DEF Owner, Waitable
    <3>2. status[w] = "pending"
      BY <1>3, <2>7, <2>8, <3>1 DEF Kept
    <3>3. LiveRegistered(w)
      BY <2>5, <2>6 DEF RegisteredOn, LiveRegistered
    <3>. QED  BY <2>3, <2>9, <3>2, <3>3 DEF has_pending_external_waiters
  <2>10. CASE w \in Task /\ rank[w] < rank[o]
    <3>1. w \in Owner /\ Unfinished(w) /\ ~IsCancelled(w)
      BY <2>8, <2>10 DEF Unfinished, IsCancelled, Owner
    <3>2. w \in Waiters
      BY <1>3, <2>1, <3>1, UnfinishedParked
    <3>3. rank[o] <= rank[w] /\ rank[o] \in Nat /\ rank[w] \in Nat
      BY <2>5, <3>1, <3>2
    <3>. QED  BY <2>10, <3>3
  <2>. QED  BY <2>5, <2>7, <2>9, <2>10
<1>4. ASSUME IInv, Kept, JoinsClosed, Allowed, F!NoLostWakeup, NoFalseDeadlock, [Next]_vars
      PROVE  NoFalseDeadlock'
  <2>1. SUFFICES ASSUME Next, pc' = "deadlock" PROVE FALSE
    BY <1>4 DEF NoFalseDeadlock, vars
  <2>2. \/ NothingReady
        \/ \E p \in Priority : \E e : BlockOnPlaceholder(p, e)
    BY <2>1, Ending DEF Ended, RootReturn, RootRaise, TaskInterrupted
  <2>3. Unreleasable = {}
    BY DEF Blocked, Unreleasable
  <2>. QED  BY <1>3, <1>4, <2>1, <2>2, <2>3 DEF BlockOnPlaceholder
<1>5. Spec => [](F!NoLostWakeup)
  BY NoWakeupLost, PTL
<1>. QED  BY <1>1, <1>2, <1>4, <1>5, Inductive, PTL DEF Spec

(* The entries of h are in g at the same places, claimed or not.               *)
Extends(h, g) ==
  \A q \in Priority : \A n \in DOMAIN h[q] :
    n \in DOMAIN g[q] /\ g[q][n].kind = h[q][n].kind /\ g[q][n].owner = h[q][n].owner

(* An entry that runs o is popped before one that runs c.                      *)
Before(p, n, q, m) == p > q \/ (p = q /\ n < m)
Ahead(h, o, c) ==
  \E p, q \in Priority : \E n \in DOMAIN h[p] : \E m \in DOMAIN h[q] :
    h[p][n] \in QueuedFor(o) /\ h[q][m] \in QueuedFor(c) /\ Before(p, n, q, m)

(* What is added to the heap changes nothing about who is ahead.               *)
LEMMA AheadExtended ==
  ASSUME NEW h \in Heaps, NEW g \in Heaps, Extends(h, g), NEW o, NEW c, Ahead(h, o, c)
  PROVE  Ahead(g, o, c)
<1>1. PICK p \in Priority, q \in Priority : \E n \in DOMAIN h[p] : \E m \in DOMAIN h[q] :
        h[p][n] \in QueuedFor(o) /\ h[q][m] \in QueuedFor(c) /\ Before(p, n, q, m)
  BY DEF Ahead
<1>2. PICK n \in DOMAIN h[p] : \E m \in DOMAIN h[q] :
        h[p][n] \in QueuedFor(o) /\ h[q][m] \in QueuedFor(c) /\ Before(p, n, q, m)
  BY <1>1
<1>3. PICK m \in DOMAIN h[q] :
        h[p][n] \in QueuedFor(o) /\ h[q][m] \in QueuedFor(c) /\ Before(p, n, q, m)
  BY <1>2
<1>4. /\ n \in DOMAIN g[p] /\ g[p][n].kind = h[p][n].kind /\ g[p][n].owner = h[p][n].owner
      /\ m \in DOMAIN g[q] /\ g[q][m].kind = h[q][m].kind /\ g[q][m].owner = h[q][m].owner
  BY DEF Extends
<1>5. g[p] \in Seq(Entry) /\ g[q] \in Seq(Entry)
  BY DEF Heaps
<1>6. g[p][n] \in Entry /\ g[q][m] \in Entry
  BY <1>4, <1>5
<1>7. g[p][n] \in QueuedFor(o) /\ g[q][m] \in QueuedFor(c)
  BY <1>3, <1>4, <1>6 DEF QueuedFor
<1>. QED  BY <1>3, <1>4, <1>7 DEF Ahead

(* Nor does a pop of another entry.                                            *)
LEMMA AheadPopped ==
  ASSUME NEW h \in Heaps, NEW p \in Priority, NEW x \in DOMAIN h[p], NEW o, NEW c,
         Ahead(h, o, c), h[p][x] \notin QueuedFor(o), h[p][x] \notin QueuedFor(c)
  PROVE  Ahead([h EXCEPT ![p] = RemoveAt(@, x)], o, c)
<1>1. PICK g \in Heaps :
        /\ g = [h EXCEPT ![p] = RemoveAt(@, x)]
        /\ Len(g[p]) = Len(h[p]) - 1 /\ \A q \in Priority \ {p} : g[q] = h[q]
        /\ \A n \in 1..(Len(h[p]) - 1) : g[p][n] = IF n < x THEN h[p][n] ELSE h[p][n + 1]
  <2> DEFINE f == [h EXCEPT ![p] = RemoveAt(@, x)]
  <2>1. /\ f \in Heaps
        /\ Len(f[p]) = Len(h[p]) - 1
        /\ \A q \in Priority \ {p} : f[q] = h[q]
        /\ \A n \in 1..(Len(h[p]) - 1) : f[p][n] = IF n < x THEN h[p][n] ELSE h[p][n + 1]
        /\ InOrder(h) => InOrder(f)
        /\ \A X : /\ h[p][x] \notin X => ExistsBijection(Found(f, X), Found(h, X))
                  /\ h[p][x] \in X /\ Single(Found(h, X)) => Found(f, X) = {}
    BY WithoutKeeps
  <2> HIDE DEF f
  <2>. QED  BY <2>1 DEF f
<1>2. h[p] \in Seq(Entry) /\ g[p] \in Seq(Entry) /\ Len(h[p]) \in Nat /\ DOMAIN h[p] = 1..Len(h[p])
      /\ DOMAIN g[p] = 1..(Len(h[p]) - 1) /\ \A q \in Priority : DOMAIN h[q] \subseteq Nat
  BY <1>1 DEF Heaps
<1> DEFINE to(q, n) == IF q = p /\ n > x THEN n - 1 ELSE n
<1>3. ASSUME NEW q \in Priority, NEW n \in DOMAIN h[q], q # p \/ n # x
      PROVE  to(q, n) \in DOMAIN g[q] /\ g[q][to(q, n)] = h[q][n]
  <2>1. CASE q # p
    BY <1>1, <2>1
  <2>2. CASE q = p /\ n < x
    <3>1. n \in 1..(Len(h[p]) - 1) /\ to(q, n) = n
      BY <1>2, <2>2
    <3>. QED  BY <1>1, <1>2, <2>2, <3>1
  <2>3. CASE q = p /\ n > x
    <3>1. n - 1 \in 1..(Len(h[p]) - 1) /\ to(q, n) = n - 1 /\ ~(n - 1 < x) /\ (n - 1) + 1 = n
      BY <1>2, <2>3
    <3>. QED  BY <1>1, <1>2, <2>3, <3>1
  <2>. QED  BY <1>2, <1>3, <2>1, <2>2, <2>3
<1>4. PICK q \in Priority, r \in Priority : \E n \in DOMAIN h[q] : \E m \in DOMAIN h[r] :
        h[q][n] \in QueuedFor(o) /\ h[r][m] \in QueuedFor(c) /\ Before(q, n, r, m)
  BY DEF Ahead
<1>5. PICK n \in DOMAIN h[q] : \E m \in DOMAIN h[r] :
        h[q][n] \in QueuedFor(o) /\ h[r][m] \in QueuedFor(c) /\ Before(q, n, r, m)
  BY <1>4
<1>6. PICK m \in DOMAIN h[r] :
        h[q][n] \in QueuedFor(o) /\ h[r][m] \in QueuedFor(c) /\ Before(q, n, r, m)
  BY <1>5
<1>7. (q # p \/ n # x) /\ (r # p \/ m # x)
  BY <1>6
<1>8. Before(q, to(q, n), r, to(r, m))
  BY <1>2, <1>6, <1>7 DEF Before
<1>9. /\ to(q, n) \in DOMAIN g[q] /\ g[q][to(q, n)] \in QueuedFor(o)
      /\ to(r, m) \in DOMAIN g[r] /\ g[r][to(r, m)] \in QueuedFor(c)
  BY <1>3, <1>6, <1>7
<1> HIDE DEF to
<1>10. Ahead(g, o, c)
  BY <1>8, <1>9 DEF Ahead
<1>. QED  BY <1>1, <1>10

(* Whoever fires is queued for it, at its priority.                            *)
LEMMA WokenQueued ==
  ASSUME TypeOK, NEW k \in Waitable, NEW st \in Terminal, NEW q \in Priority,
         NEW i \in WokenAt(k, st, q)
  PROVE  \E n \in DOMAIN ReadyAfter(k, st)[q] :
           ReadyAfter(k, st)[q][n] \in QueuedFor(waiters[k][i].owner)
<1> DEFINE kind == IF st = "completed" THEN "resume" ELSE "raise"
           Wakes == [j \in DOMAIN waiters[k] |-> MkEntry(kind, waiters[k][j].owner)]
           Claimed(e) == IF Claims(e, k, st) THEN [e EXCEPT !.claimed = TRUE] ELSE e
           A == [n \in DOMAIN ready[q] |-> Claimed(ready[q][n])]
           I == WokenAt(k, st, q)
           B == Subsequence(Wakes, I)
<1>1. ReadyAfter(k, st)[q] = A \o B
  BY DEF ReadyAfter
<1>2. /\ waiters[k] \in Seq(Registration) /\ kind \in {"resume", "raise"}
      /\ \A j \in DOMAIN waiters[k] : waiters[k][j] \in Registration
      /\ \A j \in DOMAIN waiters[k] : waiters[k][j].owner \in Owner
      /\ I \in SUBSET DOMAIN waiters[k] /\ i \in DOMAIN waiters[k]
  BY FiredFacts DEF TypeOK, Registration
<1> HIDE DEF I
<1>3. Wakes \in Seq(Entry) /\ DOMAIN Wakes = DOMAIN waiters[k]
  <2>1. \A j \in DOMAIN waiters[k] : MkEntry(kind, waiters[k][j].owner) \in Entry
    BY <1>2, EntriesTyped
  <2>2. PICK m \in Nat : DOMAIN waiters[k] = 1..m
    BY <1>2
  <2>3. Wakes \in [1..m -> Entry]
    BY <2>1, <2>2
  <2>. QED  BY <2>2, <2>3
<1>4. Wakes[i] \in QueuedFor(waiters[k][i].owner)
  <2>1. Wakes[i] = MkEntry(kind, waiters[k][i].owner)
    BY <1>2
  <2>2. MkEntry(kind, waiters[k][i].owner) \in Entry
    BY <1>2, EntriesTyped
  <2>. QED  BY <1>2, <2>1, <2>2 DEF QueuedFor, MkEntry
<1> HIDE DEF Wakes
<1>5. /\ B \in Seq(Entry) /\ Len(B) = Cardinality(I) /\ Cardinality(I) \in Nat
      /\ \E f \in Bijection(1..Cardinality(I), I) :
           \A n \in 1..Cardinality(I) : B[n] = Wakes[f[n]]
  BY <1>2, <1>3, SubsequenceFacts
<1>6. PICK f \in Bijection(1..Cardinality(I), I) :
        \A n \in 1..Cardinality(I) : B[n] = Wakes[f[n]]
  BY <1>5
<1>7. PICK n \in 1..Cardinality(I) : f[n] = i
  BY DEF Bijection, Surjection, I
<1>8. B[n] = Wakes[i] /\ n \in DOMAIN B
  BY <1>5, <1>6, <1>7
<1>9. PICK l \in Nat : l = Len(ready[q]) /\ DOMAIN ready[q] = 1..l
  BY DEF TypeOK
<1>10. A \in Seq(Entry) /\ Len(A) = l
  <2>1. \A j \in 1..l : Claimed(ready[q][j]) \in Entry
    <3>1. ready[q] \in Seq(Entry)
      BY DEF TypeOK
    <3>2. \A j \in 1..l : ready[q][j] \in Entry
      BY <1>9, <3>1
    <3>. QED  BY <3>2 DEF Entry
  <2> HIDE DEF Claimed
  <2>2. A \in [1..l -> Entry]
    BY <1>9, <2>1
  <2> HIDE DEF A
  <2>. QED  BY <2>2
<1> HIDE DEF A, B
<1>11. (A \o B)[l + n] = B[n] /\ l + n \in DOMAIN (A \o B)
  BY <1>5, <1>7, <1>9, <1>10
<1>. QED  BY <1>1, <1>4, <1>8, <1>11

(* Enqueuing extends a heap; extending is reflexive and transitive.           *)
LEMMA ExtendsFacts ==
  ASSUME NEW h \in Heaps
  PROVE  /\ Extends(h, h)
         /\ \A g, f : Extends(h, g) /\ Extends(g, f) => Extends(h, f)
         /\ \A e \in Entry, p \in Priority : Extends(h, Enqueue(h, e, p))
<1>1. \A e \in Entry, p \in Priority : Extends(h, Enqueue(h, e, p))
  <2> TAKE e \in Entry, p \in Priority
  <2>1. /\ \A q \in Priority : Len(h[q]) <= Len(Enqueue(h, e, p)[q])
        /\ \A q \in Priority : \A n \in DOMAIN h[q] : Enqueue(h, e, p)[q][n] = h[q][n]
        /\ Enqueue(h, e, p) \in Heaps
    BY EnqueueKeeps
  <2>2. \A q \in Priority : \A n \in DOMAIN h[q] : n \in DOMAIN Enqueue(h, e, p)[q]
    <3> TAKE q \in Priority
    <3>1. h[q] \in Seq(Entry) /\ Enqueue(h, e, p)[q] \in Seq(Entry)
      BY <2>1 DEF Heaps
    <3>. QED  BY <2>1, <3>1
  <2>. QED  BY <2>1, <2>2 DEF Extends
<1>2. Extends(h, h)
  BY DEF Extends
<1>3. \A g, f : Extends(h, g) /\ Extends(g, f) => Extends(h, f)
  BY DEF Extends
<1>. QED  BY <1>1, <1>2, <1>3

(* A wake extends the heap, and so does a permit handed over.                  *)
LEMMA WakeExtends ==
  ASSUME TypeOK, HeapInOrder, NEW k \in Waitable, NEW st \in Terminal
  PROVE  Extends(ready, ReadyAfter(k, st))
<1>1. /\ ReadyAfter(k, st) \in Heaps
      /\ \A p \in Priority :
           /\ Len(ready[p]) <= Len(ReadyAfter(k, st)[p])
           /\ \A n \in DOMAIN ready[p] :
                /\ ReadyAfter(k, st)[p][n].kind = ready[p][n].kind
                /\ ReadyAfter(k, st)[p][n].owner = ready[p][n].owner
  BY WakeKeeps
<1>2. \A q \in Priority : \A n \in DOMAIN ready[q] : n \in DOMAIN ReadyAfter(k, st)[q]
  <2> TAKE q \in Priority
  <2>1. ready[q] \in Seq(Entry) /\ ReadyAfter(k, st)[q] \in Seq(Entry)
    BY <1>1 DEF Heaps, TypeOK
  <2>. QED  BY <1>1, <2>1
<1>. QED  BY <1>1, <1>2 DEF Extends

(* A permit handed over queues one entry more.                                *)
LEMMA GrantExtends ==
  ASSUME TypeOK, NEW s \in Sem, NEW h \in Heaps
  PROVE  Transferred(h, s) \in Heaps /\ Extends(h, Transferred(h, s))
<1>1. CASE LiveWaiters(s) = {}
  BY <1>1, ExtendsFacts DEF Transferred
<1>2. CASE LiveWaiters(s) # {}
  <2>1. NextOwner(s) \in Owner /\ TaskPriority(NextOwner(s)) \in Priority
    BY <1>2, FirstLiveFacts, EntriesTyped
  <2>2. PICK e \in Entry : Transferred(h, s) = Enqueue(h, e, TaskPriority(NextOwner(s)))
    BY <1>2, <2>1 DEF Transferred, MkEntry, Entry
  <2>. QED  BY <2>1, <2>2, ExtendsFacts, EnqueueKeeps
<1>. QED  BY <1>1, <1>2

(* What a step does to the heap: it only adds to it; or it takes out one entry *)
(* that runs nobody; or it dispatches.                                         *)
Adds == Extends(ready, ready')
TakesOut ==
  \E p \in Priority : \E x \in DOMAIN ready[p] :
    /\ ready[p][x].kind = "wait_external" \/ IsCancelled(ready[p][x].owner)
    /\ Extends([ready EXCEPT ![p] = RemoveAt(@, x)], ready')

(* These are all the things a step does to the heap.                          *)
LEMMA HeapSteps ==
  ASSUME IInv, Next
  PROVE  Adds \/ TakesOut \/ \E p \in Priority : \E e : Dispatch(p, e)
<1>1. TypeOK /\ Frame /\ Safe /\ HeapInOrder /\ ready \in Heaps /\ cur \in Owner
  BY EntriesTyped DEF IInv, Frame, Safe
<1>2. UNCHANGED ready => Adds
  BY <1>1, ExtendsFacts DEF Adds
<1>3. ASSUME NEW k \in Waitable, NEW st \in Terminal,
             ResolveAndWake(k, st) \/ UNCHANGED <<status, parked, ready>>
      PROVE  Adds
  BY <1>1, <1>2, <1>3, WakeExtends DEF ResolveAndWake, Adds
<1>4. ASSUME NEW t \in Task, NEW prio \in SpawnPriorities, NEW daemon \in DaemonFlags,
             Spawn(t, prio, daemon)
      PROVE  Adds
  <2>1. t \in Owner /\ prio \in Priority /\ TaskPriority(cur) \in Priority
    BY <1>1, Parameters, EntriesTyped DEF Owner
  <2>2. PICK e \in Entry : e = MkEntry("new", t)
    BY <1>1, <2>1, EntriesTyped
  <2>3. PICK h \in Heaps : h = Enqueue(ready, e, prio)
    BY <1>1, <2>1, EnqueueKeeps
  <2>4. PICK f \in Entry : f = MkEntry("resume", cur)
    BY <1>1, EntriesTyped
  <2>5. ready' = Enqueue(h, f, TaskPriority(cur))
    BY <1>4, <2>2, <2>3, <2>4 DEF Spawn
  <2>6. Extends(ready, h) /\ Extends(h, ready')
    BY <1>1, <2>1, <2>3, <2>5, ExtendsFacts
  <2>. QED  BY <1>1, <2>6, ExtendsFacts DEF Adds
<1>5. ASSUME NEW k \in Waitable, NEW prio \in WaitPriorities, Wait(k, prio) PROVE Adds
  <2>1. UNCHANGED ready \/ ready' = Enqueue(ready, Placeholder(cur, k), PRIORITY_EXTERNAL_WAIT)
    BY <1>5 DEF Wait, Answer, WaitPending, heap
  <2>2. Placeholder(cur, k) \in Entry /\ PRIORITY_EXTERNAL_WAIT \in Priority
    BY <1>1, EntriesTyped DEF Priority
  <2>. QED  BY <1>1, <1>2, <2>1, <2>2, ExtendsFacts DEF Adds
<1>6. ASSUME NEW ks \in KeyLists, NEW type \in {"gather", "race"}, NEW remaining,
             NEW I \in SUBSET DOMAIN ks, RegisterJoin(type, ks, I, remaining)
      PROVE  Adds
  <2>1. PICK m \in Nat : ks \in [1..m -> Waitable]
    BY <1>1, KeyListTyped
  <2>2. PICK J \in SUBSET (1..m) : J = I
    BY <2>1
  <2>3. RegisterJoin(type, ks, J, remaining)
    BY <1>6, <2>2
  <2>4. \A q \in Priority : \A n \in DOMAIN ready[q] :
          n \in DOMAIN ready'[q] /\ ready'[q][n] = ready[q][n]
    BY <1>1, <2>1, <2>3, JoinShields
  <2>. QED  BY <2>4 DEF Adds, Extends
<1>7. ASSUME NEW ks \in KeyLists, Gather(ks) \/ Race(ks) PROVE Adds
  <2>1. Pending(ks) \in SUBSET DOMAIN ks /\ DOMAIN ks \in SUBSET DOMAIN ks
    BY DEF Pending
  <2>2. \/ UNCHANGED ready
        \/ RegisterJoin("gather", ks, Pending(ks), Cardinality(Pending(ks)))
        \/ RegisterJoin("race", ks, DOMAIN ks, 0)
    BY <1>7 DEF Gather, Race, Answer, heap
  <2>. QED  BY <1>2, <1>6, <2>1, <2>2
<1>8. ASSUME NEW p \in Promise \cup ExtPromise, NEW st \in {"completed", "failed"},
             SettlePromise(p, st)
      PROVE  Adds
  <2>1. p \in Waitable /\ st \in Terminal
    BY DEF Waitable, Terminal
  <2>2. PICK h \in Heaps : h = ReadyAfter(p, st)
    BY <1>1, <2>1, WakeKeeps
  <2>3. PICK e \in Entry : e = MkEntry("resume", cur)
    BY <1>1, EntriesTyped
  <2>4. CompleterPriority(p, st) \in Priority
    BY <1>1, CompleterTyped
  <2>5. UNCHANGED ready \/ ready' = Enqueue(h, e, CompleterPriority(p, st))
    BY <1>8, <2>2, <2>3 DEF SettlePromise, Answer, heap
  <2>6. Extends(ready, h) /\ Extends(h, Enqueue(h, e, CompleterPriority(p, st)))
    BY <1>1, <2>1, <2>2, <2>4, WakeExtends, ExtendsFacts
  <2>. QED  BY <1>1, <1>2, <2>5, <2>6, ExtendsFacts DEF Adds
<1>9. ASSUME UserEffect PROVE Adds
  <2>1. ASSUME NEW t \in Task, Cancel(t) PROVE Adds
    <3>1. t \in Waitable /\ "cancelled" \in Terminal
      BY DEF Waitable, Terminal
    <3>. QED  BY <1>3, <2>1, <3>1 DEF Cancel
  <2>2. ASSUME NEW k, CreatePromise(k) \/ CreateExternalPromise(k) PROVE Adds
    BY <1>2, <2>2 DEF CreatePromise, CreateExternalPromise, heap
  <2>3. ASSUME NEW s \in Sem, NEW n, CreateSemaphore(s, n) PROVE Adds
    BY <1>2, <2>3 DEF CreateSemaphore, heap
  <2>4. ASSUME NEW s \in Sem, AcquireSemaphore(s) PROVE Adds
    BY <1>2, <2>4 DEF AcquireSemaphore, heap
  <2>5. ASSUME NEW s \in Sem, ReleaseSemaphore(s) PROVE Adds
    BY <1>1, <2>5, GrantExtends DEF ReleaseSemaphore, Adds
  <2>. QED  BY <1>4, <1>5, <1>7, <1>8, <1>9, <2>1, <2>2, <2>3, <2>4, <2>5 DEF UserEffect
<1>10. ASSUME OwnerEnds PROVE Adds
  <2>1. cur \in Task => cur \in Waitable
    BY DEF Waitable
  <2>2. ASSUME NEW st \in {"completed", "failed"}, TaskCompleted(st) PROVE Adds
    BY <1>3, <2>1, <2>2 DEF TaskCompleted, Terminal
  <2>3. ASSUME TaskInterrupted PROVE Adds
    BY <1>3, <2>1, <2>3 DEF TaskInterrupted, Terminal
  <2>. QED  BY <1>2, <1>10, <2>2, <2>3 DEF OwnerEnds, RootReturn, RootRaise, heap
<1>11. ASSUME DrainOne \/ Unblock PROVE Adds
  <2>1. Head(extq) \in [key : ExtPromise, result : {"completed", "failed"}]
    <3> DEFINE T == [key : ExtPromise, result : {"completed", "failed"}]
    <3>1. extq \in Seq(T) /\ extq # <<>>
      BY <1>1, <1>11 DEF TypeOK, DrainOne, Unblock
    <3> HIDE DEF T
    <3>2. Head(extq) \in T
      BY <3>1
    <3>. QED  BY <3>2 DEF T
  <2>2. PICK m \in [key : ExtPromise, result : {"completed", "failed"}] : m = Head(extq)
    BY <2>1
  <2>3. m.key \in Waitable /\ m.result \in Terminal
    BY DEF Waitable, Terminal
  <2>. QED  BY <1>3, <1>11, <2>2, <2>3 DEF DrainOne, Unblock
<1>12. ASSUME Pop PROVE Adds \/ TakesOut \/ \E p \in Priority : \E e : Dispatch(p, e)
  <2>1. ASSUME NEW p \in Priority, NEW e, DropDead(p, e) \/ DropDeadGrant(p, e) PROVE TakesOut
    <3>1. Popping(p, e)
      BY <2>1 DEF DropDead, DropDeadGrant
    <3>2. PICK x \in DOMAIN ready[p] : x = held[p] + 1 /\ e = ready[p][x]
      BY <1>1, <3>1, Popped
    <3>3. Without(p) \in Heaps /\ Without(p) = [ready EXCEPT ![p] = RemoveAt(@, x)]
          /\ (e.claimed => e.kind = "wait_external") /\ (e.kind = "sem_resume" => e.key \in Sem)
      BY <1>1, <3>1, <3>2, Popped DEF Without
    <3>4. Extends(Without(p), ready')
      BY <1>1, <2>1, <3>3, GrantExtends, ExtendsFacts DEF DropDead, DropDeadGrant
    <3>5. e.kind = "wait_external" \/ IsCancelled(e.owner)
      BY <2>1, <3>3 DEF DropDead, DropDeadGrant
    <3>. QED  BY <3>2, <3>3, <3>4, <3>5 DEF TakesOut
  <2>2. ASSUME NEW p, NEW e, HoldDaemon(p, e) \/ DeferPlaceholder(p, e) \/ BlockOnPlaceholder(p, e)
        PROVE  Adds
    BY <1>2, <2>2 DEF HoldDaemon, DeferPlaceholder, BlockOnPlaceholder, heap
  <2>. QED  BY <1>12, <2>1, <2>2 DEF Pop
<1>13. ASSUME RequeuePlaceholder PROVE TakesOut
  <2> DEFINE E == PRIORITY_EXTERNAL_WAIT
  <2>1. /\ pc = "afterPlaceholder" /\ E \in Priority /\ \A q \in Priority : held[q] = 0
    BY <1>1, <1>13, NothingHeld DEF RequeuePlaceholder, Priority
  <2>2. ready[E] \in Seq(Entry) /\ ready[E] # <<>> /\ ready[E][1].kind = "wait_external"
    BY <1>1, <2>1 DEF Frame, HeldForWork, TypeOK
  <2>3. 1 \in DOMAIN ready[E] /\ held[E] + 1 = 1 /\ ready[E][1] \in Entry
    BY <2>1, <2>2
  <2>4. Without(E) = [ready EXCEPT ![E] = RemoveAt(@, 1)]
    BY <2>3 DEF Without
  <2>5. [ready EXCEPT ![E] = RemoveAt(@, 1)] \in Heaps
    BY <1>1, <2>1, <2>3, WithoutKeeps
  <2>6. PICK e \in Entry : e = ready[E][1] /\ e = ready[E][held[E] + 1]
    BY <2>3
  <2>7. ready' = Without(E) \/ ready' = Enqueue(Without(E), e, E)
    BY <1>13, <2>6 DEF RequeuePlaceholder
  <2>8. Extends(Without(E), ready')
    BY <2>1, <2>4, <2>5, <2>7, ExtendsFacts
  <2>. QED  BY <2>1, <2>2, <2>3, <2>4, <2>8 DEF TakesOut
<1>14. ASSUME PassEffect \/ Environment \/ DrainDone \/ NothingReady PROVE Adds
  BY <1>2, <1>14 DEF PassEffect, Answer, Environment, Put, DropHandle, DrainDone, NothingReady, heap
<1>. QED  BY <1>9, <1>10, <1>11, <1>12, <1>13, <1>14 DEF Next, SchedulerStep

(* Only a dispatch gives somebody else the turn, and only a spawn sets the     *)
(* daemon flag.                                                                *)
LEMMA TurnsChange ==
  ASSUME Next
  PROVE  /\ Dispatches => \E p \in Priority : \E e : Dispatch(p, e)
         /\ ~Dispatches => cur' = cur /\ (Performing' => Performing)
         /\ \A p \in Priority : \A e : Dispatch(p, e) => Dispatches
         /\ \A o \in Task : status[o] # "unborn" => meta'[o] = meta[o]
<1>1. ASSUME NEW p, NEW e, Dispatch(p, e) PROVE Dispatches /\ UNCHANGED meta
  BY <1>1 DEF Dispatch, Popping, Dispatches
<1>2. ASSUME UserEffect PROVE ~Dispatches /\ cur' = cur /\ (Performing' => Performing)
  BY <1>2 DEF UserEffect, Spawn, Wait, Gather, Race, Cancel, CreatePromise, SettlePromise,
    CreateExternalPromise, CreateSemaphore, AcquireSemaphore, ReleaseSemaphore, Handle,
    WaitPending, RegisterJoin, Answer, Reply, Suspend, Dispatches, Performing
<1>3. ASSUME PassEffect \/ OwnerEnds \/ Environment
      PROVE  ~Dispatches /\ cur' = cur /\ (Performing' => Performing)
  BY <1>3 DEF PassEffect, OwnerEnds, TaskCompleted, RootReturn, RootRaise, TaskInterrupted,
    Environment, Put, DropHandle, Answer, Reply, Suspend, Dispatches, Performing, Ended
<1>4. ASSUME DrainOne \/ DrainDone \/ Unblock \/ RequeuePlaceholder \/ NothingReady
      PROVE  ~Dispatches /\ cur' = cur /\ (Performing' => Performing)
  BY <1>4 DEF DrainOne, DrainDone, Unblock, RequeuePlaceholder, NothingReady, Dispatches, Performing
<1>5. ASSUME NEW p, NEW e, \/ HoldDaemon(p, e) \/ DropDead(p, e) \/ DropDeadGrant(p, e)
                           \/ DeferPlaceholder(p, e) \/ BlockOnPlaceholder(p, e)
      PROVE  ~Dispatches /\ cur' = cur /\ (Performing' => Performing)
  BY <1>5 DEF HoldDaemon, DropDead, DropDeadGrant, DeferPlaceholder, BlockOnPlaceholder, Popping,
    Dispatches, Performing
<1>6. \/ \E p \in Priority : \E e : Dispatch(p, e)
      \/ ~Dispatches /\ cur' = cur /\ (Performing' => Performing)
  BY <1>2, <1>3, <1>4, <1>5 DEF Next, SchedulerStep, Pop
<1>7. ASSUME NEW o \in Task, status[o] # "unborn" PROVE meta'[o] = meta[o]
  <2>1. CASE \E t \in Task, prio \in SpawnPriorities, daemon \in DaemonFlags : Spawn(t, prio, daemon)
    <3>1. PICK t \in Task, prio \in SpawnPriorities, daemon \in DaemonFlags : Spawn(t, prio, daemon)
      BY <2>1
    <3>2. t # o /\ meta' = [meta EXCEPT ![t] = [priority |-> prio, daemon |-> daemon]]
      BY <1>7, <3>1 DEF Spawn, Allocate
    <3>. QED  BY <3>2
  <2>2. CASE UserEffect /\ ~\E t \in Task, prio \in SpawnPriorities, daemon \in DaemonFlags :
                               Spawn(t, prio, daemon)
    BY <2>2 DEF UserEffect, Wait, Gather, Race, Cancel, CreatePromise, SettlePromise,
      CreateExternalPromise, CreateSemaphore, AcquireSemaphore, ReleaseSemaphore,
      WaitPending, RegisterJoin, Answer, objs
  <2>3. CASE PassEffect \/ OwnerEnds \/ Environment
    BY <2>3 DEF PassEffect, OwnerEnds, TaskCompleted, RootReturn, RootRaise, TaskInterrupted,
      Environment, Put, DropHandle, Answer, objs
  <2>4. CASE DrainOne \/ DrainDone \/ Unblock \/ RequeuePlaceholder \/ NothingReady
    BY <2>4 DEF DrainOne, DrainDone, Unblock, RequeuePlaceholder, NothingReady, objs
  <2>5. CASE Pop
    BY <1>1, <2>5 DEF Pop, HoldDaemon, DropDead, DropDeadGrant, DeferPlaceholder,
      BlockOnPlaceholder, objs
  <2>. QED  BY <2>1, <2>2, <2>3, <2>4, <2>5 DEF Next, SchedulerStep
<1>. QED  BY <1>1, <1>6, <1>7 DEF Performing, Dispatches

(* A promise is settled by CompletePromise or FailPromise only, which queues   *)
(* the completer behind those it woke.                                         *)
LEMMA Settling ==
  ASSUME IInv, Next, NEW p \in Promise, Settles(p)
  PROVE  /\ status'[p] \in Terminal
         /\ ready' = Enqueue(ReadyAfter(p, status'[p]), MkEntry("resume", cur),
                             CompleterPriority(p, status'[p]))
<1>1. /\ p \in Waitable /\ p \notin Task /\ p \notin ExtPromise /\ status[p] = "pending"
      /\ pc' = "drain" /\ pc \in {"user", "effect"}
      /\ status \in [Waitable -> {"unborn", "pending", "running", "swept"} \cup Terminal]
  BY DistinctIds DEF Waitable, Settles, IInv, Frame, TypeOK
<1>2. status'[p] \in Terminal /\ status'[p] # "pending" /\ status'[p] # status[p]
  BY <1>1 DEF Settles, Terminal
<1>3. ~UNCHANGED status
  BY <1>2
<1>4. Swept[p] = status[p]
  BY <1>1 DEF Swept, Sweepable
<1>5. ASSUME UserEffect
      PROVE  \E k \in Promise \cup ExtPromise, st \in {"completed", "failed"} : SettlePromise(k, st)
  <2>1. ASSUME NEW t \in Task, Allocate(t) PROVE FALSE
    BY <1>1, <1>2, <1>4, <2>1 DEF Allocate
  <2>2. ~\E t \in Task, prio \in SpawnPriorities, daemon \in DaemonFlags : Spawn(t, prio, daemon)
    BY <2>1 DEF Spawn
  <2>3. ~\E t \in Task : Cancel(t)
    BY <1>1 DEF Cancel, Reply
  <2>4. ~\E k : CreatePromise(k) \/ CreateExternalPromise(k)
    BY <1>1 DEF CreatePromise, CreateExternalPromise, Reply
  <2>5. ~\E k, prio : Wait(k, prio)
    BY <1>3 DEF Wait, Answer, WaitPending, objs
  <2>6. ~\E ks : Gather(ks) \/ Race(ks)
    BY <1>3 DEF Gather, Race, Answer, RegisterJoin, objs
  <2>7. ~\E s : AcquireSemaphore(s) \/ ReleaseSemaphore(s)
    BY <1>3 DEF AcquireSemaphore, ReleaseSemaphore, objs
  <2>8. ~\E s, n : CreateSemaphore(s, n)
    BY <1>1 DEF CreateSemaphore, Reply
  <2>. QED  BY <1>5, <2>2, <2>3, <2>4, <2>5, <2>6, <2>7, <2>8 DEF UserEffect
<1>6. ~PassEffect /\ ~Environment
  BY <1>3 DEF PassEffect, Answer, Environment, Put, DropHandle, objs
<1>7. ~OwnerEnds
  <2>1. ASSUME NEW st, TaskCompleted(st) PROVE FALSE
    BY <1>1, <1>2, <2>1 DEF TaskCompleted, ResolveAndWake, Resolve
  <2>. QED  BY <1>1, <2>1 DEF OwnerEnds, RootReturn, RootRaise, TaskInterrupted
<1>8. ~SchedulerStep
  BY <1>1 DEF SchedulerStep, DrainOne, DrainDone, Pop, Dispatch, HoldDaemon, DropDead,
    DropDeadGrant, DeferPlaceholder, BlockOnPlaceholder, Popping, Unblock, RequeuePlaceholder,
    NothingReady
<1>9. PICK k \in Promise \cup ExtPromise, st \in {"completed", "failed"} : SettlePromise(k, st)
  BY <1>5, <1>6, <1>7, <1>8 DEF Next
<1>10. /\ Resolve(k, st)
       /\ ready' = Enqueue(ReadyAfter(k, st), MkEntry("resume", cur), CompleterPriority(k, st))
  BY <1>1, <1>3, <1>9 DEF SettlePromise, Answer, objs
<1>11. k = p /\ status'[p] = st
  BY <1>1, <1>2, <1>10 DEF Resolve
<1>. QED  BY <1>2, <1>10, <1>11

(* So whoever it woke is ahead of it.                                          *)
LEMMA WokenAhead ==
  ASSUME IInv, Next, NEW p \in Promise, Settles(p), NEW o \in WokenBy(p)
  PROVE  /\ Ahead(ready', o, cur) /\ o \in Owner
         /\ \E w \in Waitable : \E i \in DOMAIN waiters[w] : waiters[w][i].owner = o
<1>1. PICK st \in Terminal : st = status'[p]
  BY Settling
<1>2. /\ TypeOK /\ HeapInOrder /\ p \in Waitable /\ cur \in Owner
      /\ ready' = Enqueue(ReadyAfter(p, st), MkEntry("resume", cur), CompleterPriority(p, st))
  BY <1>1, Settling, EntriesTyped DEF IInv, Frame, Waitable
<1>3. PICK i \in Fired(p, st) : waiters[p][i].owner = o
  BY <1>1 DEF WokenBy
<1>4. i \in DOMAIN waiters[p] /\ waiters[p][i] \in Registration /\ o \in Owner
  BY <1>2, <1>3, FiredFacts DEF Registration
<1>5. PICK q \in Priority : i \in WokenAt(p, st, q)
  BY <1>2, FiredFacts
<1>6. PICK h \in Heaps : h = ReadyAfter(p, st)
  BY <1>2, WakeKeeps
<1>7. PICK n \in DOMAIN h[q] : h[q][n] \in QueuedFor(o)
  BY <1>2, <1>3, <1>5, <1>6, WokenQueued
<1>8. PICK e \in Entry : e = MkEntry("resume", cur) /\ e \in QueuedFor(cur)
  BY <1>2, EntriesTyped DEF QueuedFor, MkEntry
<1>9. PICK r \in Priority : r = CompleterPriority(p, st) /\ r <= q
  BY <1>2, <1>5, CompleterTyped
<1>10. /\ ready' = Enqueue(h, e, r) /\ h[r] \in Seq(Entry) /\ h[q] \in Seq(Entry)
       /\ \A x \in Priority : \A m \in DOMAIN h[x] : Enqueue(h, e, r)[x][m] = h[x][m]
  BY <1>2, <1>6, <1>8, <1>9, EnqueueKeeps DEF Heaps
<1>11. ready'[r] = Append(h[r], e) /\ (q # r => ready'[q] = h[q])
  BY <1>10 DEF Enqueue, Heaps
<1>12. /\ Len(h[r]) + 1 \in DOMAIN ready'[r] /\ ready'[r][Len(h[r]) + 1] = e
       /\ n \in DOMAIN ready'[q] /\ ready'[q][n] = h[q][n]
       /\ q = r => n < Len(h[r]) + 1
  BY <1>10, <1>11
<1>13. Before(q, n, r, Len(h[r]) + 1)
  <2>1. q \in Int /\ r \in Int
    BY DEF Priority, PRIORITY_IDLE, PRIORITY_EXTERNAL_WAIT, PRIORITY_NORMAL, PRIORITY_HIGH
  <2>. QED  BY <1>9, <1>12, <2>1 DEF Before
<1>14. Ahead(ready', o, cur)
  BY <1>7, <1>8, <1>12, <1>13 DEF Ahead
<1>. QED  BY <1>2, <1>3, <1>4, <1>14

(* What pick_next holds out of the heap are placeholders, and daemons behind   *)
(* one.                                                                        *)
HeldAside ==
  /\ \A p \in Priority : \A n \in 1..held[p] :
       ready[p][n].kind = "wait_external" \/ IsDaemon(ready[p][n].owner)
  /\ ExtPromise = {} => \A p \in Priority : held[p] = 0

(* pick_next holds a daemon aside only behind a placeholder.                  *)
LEMMA HeldAsideNext ==
  ASSUME IInv, IInv', ShieldsLive, HeldAside, [Next]_vars PROVE HeldAside'
<1>1. /\ TypeOK /\ Frame /\ Safe /\ ready \in Heaps /\ held \in [Priority -> Nat]
      /\ \A p \in Priority : held[p] <= Len(ready[p])
  BY EntriesTyped DEF IInv, Frame, Safe, TypeOK, HeldForWork
<1>2. ASSUME \A p \in Priority : held'[p] = 0 PROVE HeldAside'
  BY <1>2 DEF HeldAside
<1>3. ASSUME UNCHANGED <<ready, held, meta>> PROVE HeldAside'
  BY <1>3 DEF HeldAside, IsDaemon
<1>4. ASSUME NEW p \in Priority, NEW e, Popping(p, e), Hold(p), UNCHANGED <<ready, meta>>,
             e.kind = "wait_external" \/ IsDaemon(e.owner), ExtPromise # {}
      PROVE  HeldAside'
  <2>1. held'[p] = held[p] + 1 /\ \A q \in Priority \ {p} : held'[q] = held[q]
    BY <1>1, <1>4 DEF Hold
  <2>2. ASSUME NEW q \in Priority, NEW n \in 1..held'[q]
        PROVE  n \in 1..held[q] \/ (q = p /\ ready[q][n] = e)
    <3>1. held[q] \in Nat /\ held[p] \in Nat
      BY <1>1
    <3>2. e = ready[p][held[p] + 1]
      BY <1>4 DEF Popping
    <3>. QED  BY <2>1, <3>1, <3>2
  <2>. QED  BY <1>4, <2>2 DEF HeldAside, IsDaemon
<1>5. ASSUME NEW p \in Priority, NEW e, Popping(p, e), UNCHANGED <<held, meta>>,
             \/ ready' = Without(p)
             \/ e.key \in Sem /\ ready' = Transferred(Without(p), e.key)
      PROVE  HeldAside'
  <2>1. PICK h \in Heaps :
          /\ h = Without(p) /\ held[p] \in Nat /\ Len(h[p]) = Len(ready[p]) - 1
          /\ held[p] <= Len(h[p]) /\ \A q \in Priority \ {p} : h[q] = ready[q]
          /\ \A n \in 1..(Len(ready[p]) - 1) :
               h[p][n] = IF n < held[p] + 1 THEN ready[p][n] ELSE ready[p][n + 1]
    BY <1>1, <1>5, Popped
  <2>2. Extends(h, ready') /\ ready' \in Heaps
    BY <1>1, <1>5, <2>1, GrantExtends, ExtendsFacts
  <2>3. ASSUME NEW q \in Priority, NEW n \in 1..held[q]
        PROVE  ready'[q][n].kind = ready[q][n].kind /\ ready'[q][n].owner = ready[q][n].owner
    <3>1. n \in DOMAIN h[q] /\ h[q][n] = ready[q][n]
      <4>1. /\ h[q] \in Seq(Entry) /\ ready[q] \in Seq(Entry) /\ held[q] \in Nat /\ held[q] <= Len(ready[q])
            /\ Len(ready[q]) \in Nat /\ Len(h[q]) \in Nat /\ DOMAIN h[q] = 1..Len(h[q])
        BY <1>1 DEF Heaps
      <4>2. CASE q # p
        BY <2>1, <4>1, <4>2
      <4>3. CASE q = p
        <5>1. n \in 1..(Len(ready[p]) - 1) /\ n < held[p] + 1
          BY <2>1, <4>1, <4>3
        <5>. QED  BY <2>1, <4>1, <4>3, <5>1
      <4>. QED  BY <4>2, <4>3
    <3>. QED  BY <2>2, <3>1 DEF Extends
  <2>. QED  BY <1>5, <2>3 DEF HeldAside, IsDaemon
<1>6. ASSUME Pop PROVE HeldAside'
  <2>1. ASSUME NEW p \in Priority, NEW e, Dispatch(p, e) PROVE HeldAside'
    BY <1>2, <2>1 DEF Dispatch
  <2>2. ASSUME NEW p \in Priority, NEW e, HoldDaemon(p, e) PROVE HeldAside'
    <3>1. \E q \in Priority : held[q] > 0
      BY <2>2 DEF HoldDaemon, Shielded, ShieldDeferred
    <3>2. ExtPromise # {}
      BY <3>1 DEF HeldAside
    <3>. QED  BY <1>4, <2>2, <3>2 DEF HoldDaemon, Shielded, objs
  <2>3. ASSUME NEW p \in Priority, NEW e, DeferPlaceholder(p, e) PROVE HeldAside'
    <3>1. Popping(p, e) /\ LivePlaceholder(e)
      BY <2>3 DEF DeferPlaceholder
    <3>2. Shield(e)
      BY <1>1, <3>1, Popped DEF ShieldsLive
    <3>3. ExtPromise # {} /\ e.kind = "wait_external"
      BY <3>1, <3>2 DEF Shield, LivePlaceholder
    <3>. QED  BY <1>4, <2>3, <3>3 DEF DeferPlaceholder, objs
  <2>4. ASSUME NEW p \in Priority, NEW e, DropDead(p, e) PROVE HeldAside'
    BY <1>5, <2>4 DEF DropDead, objs
  <2>5. ASSUME NEW p \in Priority, NEW e, DropDeadGrant(p, e) PROVE HeldAside'
    <3>1. e.key \in Sem
      BY <1>1, <2>5, Popped DEF DropDeadGrant
    <3>. QED  BY <1>5, <2>5, <3>1 DEF DropDeadGrant, objs
  <2>6. ASSUME NEW p \in Priority, NEW e, BlockOnPlaceholder(p, e) PROVE HeldAside'
    BY <1>3, <2>6 DEF BlockOnPlaceholder, heap, objs
  <2>. QED  BY <1>6, <2>1, <2>2, <2>3, <2>4, <2>5, <2>6 DEF Pop
<1>7. ASSUME pc' # "pop" PROVE HeldAside'
  <2>1. (Frame /\ pc # "pop" => \A p \in Priority : held[p] = 0)'
    BY NothingHeld, PTL
  <2>. QED  BY <1>2, <1>7, <2>1 DEF IInv
<1>8. ASSUME UNCHANGED held, pc # "pop" PROVE HeldAside'
  BY <1>1, <1>2, <1>8, NothingHeld
<1>9. CASE DrainDone \/ RequeuePlaceholder
  BY <1>8, <1>9 DEF DrainDone, RequeuePlaceholder, heap
<1>10. CASE UNCHANGED vars
  BY <1>3, <1>10 DEF vars, heap, objs
<1>11. CASE UserEffect \/ PassEffect \/ OwnerEnds
  <2>1. pc # "pop" /\ UNCHANGED held
    BY <1>11 DEF UserEffect, Spawn, Wait, Gather, Race, Cancel, CreatePromise, SettlePromise,
      CreateExternalPromise, CreateSemaphore, AcquireSemaphore, ReleaseSemaphore, Handle,
      WaitPending, RegisterJoin, PassEffect, Answer, OwnerEnds, TaskCompleted, RootReturn,
      RootRaise, TaskInterrupted, heap
  <2>. QED  BY <1>8, <2>1
<1>12. CASE DrainOne \/ Unblock
  BY <1>8, <1>12 DEF DrainOne, Unblock
<1>13. CASE NothingReady \/ Environment
  BY <1>3, <1>13 DEF NothingReady, Environment, Put, DropHandle, heap, objs
<1>. QED  BY <1>6, <1>9, <1>10, <1>11, <1>12, <1>13 DEF Next, SchedulerStep

(* Whom a completer woke is ahead of it, until one of the two has run.         *)
Born(o) == o \in Task => status[o] # "unborn"
OwedAhead ==
  \A c \in Owner : \A o \in owed[c] :
    o \in Owner /\ Born(o)
    /\ (Excused(o) \/ Ahead(ready, o, c) \/ (IsCancelled(c) /\ ~Running(c)))

(* Nobody runs while an entry for him is in the heap.                          *)
LEMMA NotBehind ==
  ASSUME IInv, NEW c \in Owner, Running(c), NEW o PROVE ~Ahead(ready, o, c)
<1>1. Safe /\ pc \notin Ended /\ ready \in Heaps
  BY EntriesTyped DEF IInv, Frame, Safe, Running, Ended
<1>2. Found(ready, QueuedFor(c)) = {}
  <2>1. PICK place \in PlaceName \cup {"nowhere"} : At(c, place) /\ place = "run"
    BY <1>1, AtRun DEF Running
  <2>. QED  BY <2>1 DEF At, Site, PlaceName
<1>3. SUFFICES ASSUME Ahead(ready, o, c) PROVE FALSE
  OBVIOUS
<1>4. PICK q \in Priority : \E m \in DOMAIN ready[q] : ready[q][m] \in QueuedFor(c)
  BY <1>3 DEF Ahead
<1>5. PICK m \in DOMAIN ready[q] : ready[q][m] \in QueuedFor(c)
  BY <1>4
<1>6. q \in DOMAIN ready /\ m \in Occ(ready[q], QueuedFor(c))
  BY <1>1, <1>5 DEF Occ, Heaps
<1>. QED  BY <1>2, <1>6, FoundMember

(* The entry that is dispatched has nobody ahead who is not held aside.        *)
LEMMA DispatchesFirst ==
  ASSUME IInv, HeldAside, NEW p \in Priority, NEW e, Dispatch(p, e),
         NEW o, Ahead(ready, o, e.owner)
  PROVE  IsDaemon(o) /\ ExtPromise # {}
<1>1. /\ Frame /\ Safe /\ ready \in Heaps /\ held \in [Priority -> Nat]
      /\ Popping(p, e) /\ e.kind # "wait_external"
  BY EntriesTyped DEF IInv, Frame, Safe, TypeOK, Dispatch, Runnable
<1>2. /\ held[p] \in Nat /\ held[p] + 1 \in DOMAIN ready[p] /\ e = ready[p][held[p] + 1]
      /\ e \in Entry /\ e.owner \in Owner /\ e \in QueuedFor(e.owner)
  BY <1>1, Popped DEF Entry, QueuedFor
<1>3. Single(Found(ready, QueuedFor(e.owner)))
  <2>1. \E place : At(e.owner, place) /\ place = "heap"
    BY <1>1, <1>2, PopPlaces
  <2>. QED  BY <2>1 DEF At, Site
<1>4. PICK q \in Priority, r \in Priority : \E n \in DOMAIN ready[q] : \E m \in DOMAIN ready[r] :
        ready[q][n] \in QueuedFor(o) /\ ready[r][m] \in QueuedFor(e.owner) /\ Before(q, n, r, m)
  BY DEF Ahead
<1>5. PICK n \in DOMAIN ready[q] : \E m \in DOMAIN ready[r] :
        ready[q][n] \in QueuedFor(o) /\ ready[r][m] \in QueuedFor(e.owner) /\ Before(q, n, r, m)
  BY <1>4
<1>6. PICK m \in DOMAIN ready[r] :
        ready[q][n] \in QueuedFor(o) /\ ready[r][m] \in QueuedFor(e.owner) /\ Before(q, n, r, m)
  BY <1>5
<1>7. r = p /\ m = held[p] + 1
  <2>1. /\ r \in DOMAIN ready /\ m \in Occ(ready[r], QueuedFor(e.owner))
        /\ p \in DOMAIN ready /\ held[p] + 1 \in Occ(ready[p], QueuedFor(e.owner))
    BY <1>1, <1>2, <1>6 DEF Occ, Heaps
  <2>2. /\ <<r, m>> \in Found(ready, QueuedFor(e.owner))
        /\ <<p, held[p] + 1>> \in Found(ready, QueuedFor(e.owner))
    BY <2>1, FoundMember
  <2>3. <<r, m>> = <<p, held[p] + 1>>
    BY <1>3, <2>2 DEF Single
  <2>. QED  BY <2>3
<1>8. n \in 1..held[q]
  <2>1. /\ ready[q] \in Seq(Entry) /\ DOMAIN ready[q] = 1..Len(ready[q]) /\ Len(ready[q]) \in Nat
        /\ held[q] \in Nat
    BY <1>1 DEF Heaps
  <2>2. q > p => ~Unheld(q)
    BY <1>1 DEF Popping
  <2>. QED  BY <1>2, <1>6, <1>7, <2>1, <2>2 DEF Before, Unheld
<1>9. ready[q][n].kind # "wait_external" /\ ready[q][n].owner = o
  BY <1>6 DEF QueuedFor
<1>. QED  BY <1>8, <1>9 DEF HeldAside

(* Whoever is owed a run stays ahead whatever the step, until he runs.         *)
LEMMA OwedAheadNext ==
  ASSUME IInv, IInv', NoGhosts, HeldAside, OwedAhead, owed \in [Owner -> SUBSET Owner], OrderNext
  PROVE  OwedAhead' /\ owed' \in [Owner -> SUBSET Owner]
<1>1. /\ Next /\ TypeOK /\ Frame /\ Safe /\ ready \in Heaps /\ ready' \in Heaps /\ cur \in Owner
      /\ RecordOwed
  BY EntriesTyped DEF IInv, Frame, Safe, OrderNext, TypeOK, Heaps
<1>2. ASSUME NEW o \in Task
      PROVE  /\ status[o] # "unborn" => status'[o] # "unborn"
             /\ IsCancelled(o) => IsCancelled(o)'
  <2>1. Moves(o)
    BY <1>1, StatusMoves DEF Waitable
  <2>. QED  BY <2>1 DEF Moves, Sweepable, Undecided, Terminal, IsCancelled
<1>3. \A o \in Owner : Born(o) => Born(o)'
  BY <1>2 DEF Born
<1>4. \A o \in Owner : Born(o) /\ Excused(o) => Excused(o)'
  <2> TAKE o \in Owner
  <2>1. IsCancelled(o) => o \in Task /\ IsCancelled(o)'
    BY <1>2 DEF IsCancelled
  <2>2. Born(o) /\ IsDaemon(o) => IsDaemon(o)'
    BY <1>1, TurnsChange DEF Born, IsDaemon
  <2>. QED  BY <2>1, <2>2 DEF Excused
<1>5. ASSUME NEW p \in Promise, Settles(p), NEW o \in WokenBy(p)
      PROVE  Ahead(ready', o, cur) /\ o \in Owner /\ Born(o) /\ cur' = cur
  <2>1. /\ Ahead(ready', o, cur) /\ o \in Owner
        /\ \E w \in Waitable : \E i \in DOMAIN waiters[w] : waiters[w][i].owner = o
    BY <1>1, <1>5, WokenAhead
  <2>2. PICK w \in Waitable : \E i \in DOMAIN waiters[w] : waiters[w][i].owner = o
    BY <2>1
  <2>3. PICK i \in DOMAIN waiters[w] : waiters[w][i].owner = o
    BY <2>2
  <2>4. waiters[w][i] \in Registration /\ waiters[w][i] \in WaitsOf(o) \cup JoinsOf(o)
    <3>1. waiters[w] \in Seq(Registration)
      BY <1>1 DEF TypeOK
    <3>2. waiters[w][i] \in Registration
      BY <2>3, <3>1
    <3>3. waiters[w][i].type \in {"wait", "wait_external", "gather", "race"}
      BY <3>2 DEF Registration
    <3>. QED  BY <2>3, <3>2, <3>3 DEF WaitsOf, JoinsOf
  <2>5. Found(waiters, WaitsOf(o)) # {} \/ Found(waiters, JoinsOf(o)) # {}
    <3>1. w \in DOMAIN waiters
      BY <1>1 DEF TypeOK
    <3>2. i \in Occ(waiters[w], WaitsOf(o)) \/ i \in Occ(waiters[w], JoinsOf(o))
      BY <2>4 DEF Occ
    <3>. QED  BY <3>1, <3>2, FoundMember
  <2>6. Unfinished(o) \/ IsCancelled(o)
    BY <2>1, <2>5 DEF NoGhosts, Anywhere
  <2>7. Born(o)
    BY <2>6, DistinctIds DEF Born, Unfinished, IsCancelled, Waitable
  <2>8. cur' = cur
    BY <1>1, <1>5, TurnsChange DEF Settles, Dispatches
  <2>. QED  BY <2>1, <2>7, <2>8
<1>6. ASSUME NEW c \in Owner, NEW o \in owed'[c]
      PROVE  \/ o \in owed[c] /\ (Dispatches => o # cur')
             \/ ~Dispatches /\ c = cur /\ \E p \in Promise : Settles(p) /\ o \in WokenBy(p)
  BY <1>1 DEF RecordOwed
<1>7. owed' \in [Owner -> SUBSET Owner]
  <2>1. ASSUME NEW c \in Owner PROVE owed'[c] \subseteq Owner
    BY <1>5, <1>6
  <2>2. owed' = [c \in Owner |-> owed'[c]]
    BY <1>1 DEF RecordOwed
  <2>. QED  BY <2>1, <2>2
<1>8. ASSUME NEW c \in Owner, NEW o \in owed[c], Dispatches => o # cur'
      PROVE  Excused(o)' \/ Ahead(ready', o, c) \/ (IsCancelled(c)' /\ ~Running(c)')
  <2>1. o \in Owner /\ Born(o)
    BY DEF OwedAhead
  <2>2. CASE Excused(o)
    BY <1>4, <2>1, <2>2
  <2>3. CASE IsCancelled(c) /\ ~Running(c)
    <3>1. IsCancelled(c)'
      BY <1>2, <2>3 DEF IsCancelled
    <3>2. CASE Dispatches
      <4>1. PICK p \in Priority : \E e : Dispatch(p, e)
        BY <1>1, <3>2, TurnsChange
      <4>2. PICK e : Dispatch(p, e)
        BY <4>1
      <4>3. cur' # c
        BY <2>3, <4>2 DEF Dispatch, Runnable
      <4>. QED  BY <3>1, <4>3 DEF Running
    <3>3. CASE ~Dispatches
      <4>1. cur' = cur /\ (Performing' => Performing)
        BY <1>1, <3>3, TurnsChange
      <4>2. ~Running(c)'
        BY <2>3, <4>1 DEF Running, Performing
      <4>. QED  BY <3>1, <4>2
    <3>. QED  BY <3>2, <3>3
  <2>4. CASE Ahead(ready, o, c) /\ ~Excused(o)
    <3>1. CASE Adds
      BY <1>1, <2>4, <3>1, AheadExtended DEF Adds
    <3>2. CASE TakesOut
      <4>0. PICK p \in Priority : \E x \in DOMAIN ready[p] :
              /\ ready[p][x].kind = "wait_external" \/ IsCancelled(ready[p][x].owner)
              /\ Extends([ready EXCEPT ![p] = RemoveAt(@, x)], ready')
        BY <3>2 DEF TakesOut
      <4>1. PICK x \in DOMAIN ready[p] :
              /\ ready[p][x].kind = "wait_external" \/ IsCancelled(ready[p][x].owner)
              /\ Extends([ready EXCEPT ![p] = RemoveAt(@, x)], ready')
        BY <4>0
      <4>2. PICK h \in Heaps : h = [ready EXCEPT ![p] = RemoveAt(@, x)]
        BY <1>1, WithoutKeeps
      <4>3. ready[p][x] \notin QueuedFor(o)
        BY <2>4, <4>1 DEF QueuedFor, Excused
      <4>4. CASE ready[p][x] \notin QueuedFor(c)
        <5>1. Ahead(h, o, c)
          BY <1>1, <2>4, <4>2, <4>3, <4>4, AheadPopped
        <5>. QED  BY <1>1, <4>1, <4>2, <5>1, AheadExtended
      <4>5. CASE ready[p][x] \in QueuedFor(c)
        <5>1. IsCancelled(c)
          BY <4>1, <4>5 DEF QueuedFor
        <5>2. ~Running(c)
          BY <2>4, NotBehind
        <5>. QED  BY <2>3, <5>1, <5>2
      <4>. QED  BY <4>4, <4>5
    <3>3. ASSUME NEW p \in Priority, NEW e, Dispatch(p, e) PROVE Ahead(ready', o, c)
      <4>1. /\ Popping(p, e) /\ ready' = Without(p) /\ cur' = e.owner /\ Dispatches
        BY <1>1, <3>3, TurnsChange DEF Dispatch
      <4>2. PICK x \in DOMAIN ready[p] : x = held[p] + 1 /\ e = ready[p][x]
        BY <1>1, <4>1, Popped
      <4>3. ready' = [ready EXCEPT ![p] = RemoveAt(@, x)]
        BY <4>1, <4>2 DEF Without
      <4>4. e \notin QueuedFor(o)
        BY <1>8, <4>1 DEF QueuedFor
      <4>5. c # e.owner
        BY <2>4, <3>3, DispatchesFirst DEF Excused
      <4>6. e \notin QueuedFor(c)
        BY <4>5 DEF QueuedFor
      <4>. QED  BY <1>1, <2>4, <4>2, <4>3, <4>4, <4>6, AheadPopped
    <3>. QED  BY <1>1, <3>1, <3>2, <3>3, HeapSteps
  <2>. QED  BY <2>2, <2>3, <2>4 DEF OwedAhead
<1>9. ASSUME NEW c \in Owner, NEW o \in owed'[c]
      PROVE  /\ o \in Owner /\ Born(o)'
             /\ Excused(o)' \/ Ahead(ready', o, c) \/ (IsCancelled(c)' /\ ~Running(c)')
  <2>1. CASE o \in owed[c] /\ (Dispatches => o # cur')
    <3>1. o \in Owner /\ Born(o)
      BY <2>1 DEF OwedAhead
    <3>. QED  BY <1>3, <1>8, <2>1, <3>1
  <2>2. CASE c = cur /\ \E p \in Promise : Settles(p) /\ o \in WokenBy(p)
    BY <1>3, <1>5, <2>2
  <2>. QED  BY <1>6, <2>1, <2>2
<1>10. OwedAhead'
  BY <1>9 DEF OwedAhead
<1>. QED  BY <1>7, <1>10

(* Whom a completer woke has run before it runs on (WokenRunFirst), but for    *)
(* the excused: the completer is queued at the lowest of its own priority and  *)
(* theirs, behind them, so each of them stays ahead of it in the heap, and     *)
(* pick_next passes over nothing but placeholders and the daemons behind one.  *)
THEOREM PublisherWaits == OrderSpec => []WokenRunFirst
<1>1. OrderSpec => Spec
  <2>1. OrderInit => Init
    BY DEF OrderInit
  <2>2. [OrderNext]_ovars => [Next]_vars
    BY DEF OrderNext, ovars
  <2>. QED  BY <2>1, <2>2, PTL DEF OrderSpec, Spec
<1>2. Init => Kept /\ ShieldsLive /\ NoGhosts /\ HeldAside
  <2>1. Init => Kept /\ NoGhosts
    BY InitKept, InitNoGhosts
  <2>2. Init => HeldAside
    BY DEF Init, HeldAside
  <2>. QED  BY <2>1, <2>2 DEF Init, ShieldsLive
<1>3. IInv /\ IInv' /\ Kept /\ ShieldsLive /\ NoGhosts /\ HeldAside /\ [Next]_vars
        => (Kept /\ ShieldsLive /\ NoGhosts /\ HeldAside)'
  BY KeptNext, ShieldsNext, NoGhostsNext, HeldAsideNext
<1>4. OrderInit => OwedAhead /\ owed \in [Owner -> SUBSET Owner]
  BY DEF OrderInit, OwedAhead
<1>5. /\ IInv /\ IInv' /\ NoGhosts /\ HeldAside /\ OwedAhead /\ owed \in [Owner -> SUBSET Owner]
      /\ [OrderNext]_ovars
      => (OwedAhead /\ owed \in [Owner -> SUBSET Owner])'
  <2>1. UNCHANGED ovars /\ OwedAhead => OwedAhead'
    BY DEF ovars, vars, objs, heap, OwedAhead, Born, Excused, IsDaemon, IsCancelled, Running
  <2>2. UNCHANGED ovars => UNCHANGED owed
    BY DEF ovars
  <2>. QED  BY <2>1, <2>2, OwedAheadNext
<1>6. IInv /\ OwedAhead => WokenRunFirst
  <2>1. IInv => cur \in Owner
    BY DEF IInv, Frame, TypeOK
  <2>. QED  BY <2>1, NotBehind DEF OwedAhead, WokenRunFirst, Running
<1>7. OrderSpec => OrderInit /\ [][OrderNext]_ovars
  BY DEF OrderSpec
<1>. QED  BY <1>1, <1>2, <1>3, <1>4, <1>5, <1>6, <1>7, Inductive, PTL DEF Spec
===============================================================================
