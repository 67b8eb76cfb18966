----------------------------- MODULE SimEventsProofs ----------------------------
(* Theorems about SimEvents, for every set of tasks, events and classes, any    *)
(* times and priorities: the clock is driven once and is not forgotten, waits   *)
(* end in time, a promise is completed once, no listener is left behind, and    *)
(* an event is heard before its time has passed.                               *)
EXTENDS SimEvents, TLAPS, FiniteSetTheorems, WellFoundedInduction

Worker == Task \cup {Driver}
Heaps == [Priority -> Seq(Worker)]

(* Who has no turn to come.                                                    *)
Parked(t) == phase[t] \in {"unborn", "sleeping", "listening", "ended"}
Single(S) == \A y, z \in S : y = z

(* Everybody has one turn at most, the parked none.                            *)
OneTurn ==
  /\ \A w \in Worker : Single(Places(ready, w))
  /\ cur # None => Places(ready, cur) = {}
  /\ \A t \in Task : Parked(t) => cur # t /\ Places(ready, t) = {}

(* The flag is up while the driver has a turn; it runs when nobody else can.   *)
DriverFlag ==
  /\ driving <=> cur = Driver \/ Places(ready, Driver) # {}
  /\ \A z \in Places(ready, Driver) : z[1] = IDLE
  /\ cur = Driver => \A p \in Priority \ {IDLE} : ready[p] = <<>>
  /\ queue # {} => driving

(* The queue is that of the tasks that sleep or are about to.                  *)
Entry(t) == [time |-> due[t], id |-> owes[t], task |-> t]
Timed ==
  /\ \A t, u \in Task : owes[t] = owes[u] /\ owes[t] # 0 => t = u
  /\ \A e \in queue :
       e = Entry(e.task) /\ phase[e.task] \in {"arming", "sleeping"} /\ e.id \notin fired
  /\ \A t \in Task : phase[t] = "sleeping" \/ (phase[t] = "arming" /\ owes[t] \notin fired) =>
       Entry(t) \in queue
  /\ over = "deadlock" => cur = None /\ \A t \in Task : phase[t] # "sleeping"

(* Who listens is listed, or a publisher holds its promise, not both.          *)
Promised(p) == owes[p.task] = p.id /\ phase[p.task] = "listening" /\ p.id \notin fired
Listed ==
  /\ \A l \in listeners : Promised(l)
  /\ \A t \in Task : \A p \in todo[t] :
       /\ Promised(p) /\ \A l \in listeners : l.id # p.id
       /\ \A u \in Task \ {t} : p \notin todo[u]
  /\ \A t \in Task : phase[t] = "publishing" <=> todo[t] # {}
  /\ \A t \in Task : phase[t] = "listening" =>
       \/ \E l \in listeners : l.id = owes[t]
       \/ \E u \in Task : [id |-> owes[t], task |-> t] \in todo[u]

(* A woken task above IDLE is next.                                            *)
WokenNext ==
  \A t \in Task : phase[t] = "woken" /\ prio[t] # IDLE =>
    /\ cur = None
    /\ \A p \in Priority \ {IDLE} : ready[p] = IF p = prio[t] THEN <<t>> ELSE <<>>
    /\ clock >= due[t]
    /\ \A u \in Task : phase[u] = "sleeping" =>
         due[t] < due[u] \/ (due[t] = due[u] /\ owes[t] < owes[u])

(* A publisher has a turn to come, behind those it woke.                       *)
Before(y, z) == y[1] > z[1] \/ (y[1] = z[1] /\ y[2] < z[2])
Behind(h, t, u) == \A z \in Places(h, t) : \E y \in Places(h, u) : Before(y, z)
OnTurn(t) ==
  t \notin cancelled =>
    /\ cur = t \/ Places(ready, t) # {}
    /\ t \in plain /\ prio[t] # IDLE => \A z \in Places(ready, t) : z[1] # IDLE
HeardFirst ==
  /\ \A t \in Task : phase[t] = "publishing" => OnTurn(t)
  /\ \A t \in plain : \A p \in todo[t] : prio[p.task] # IDLE
  /\ \A t \in Task : \A u \in unheard[t] :
       /\ phase[u] # "unborn"
       /\ Live(u) => /\ cur # t /\ phase[t] \in {"run", "publishing"}
                     /\ Behind(ready, t, u) /\ OnTurn(t)

IInv == TypeOK /\ OneTurn /\ DriverFlag /\ Timed /\ Listed /\ WokenNext /\ HeardFirst

-------------------------------------------------------------------------------
(* Priorities, times and the entry that is due.                                *)

(* Among some priorities there are a highest and a lowest.                     *)
LEMMA Extremes ==
  ASSUME NEW P \in SUBSET Priority, P # {}
  PROVE  /\ Max(P) \in P /\ \A q \in P : Max(P) >= q
         /\ Min(P) \in P /\ \A q \in P : Min(P) <= q
<1> USE DEF Priority, IDLE, NORMAL, HIGH
<1>1. \E x \in P : \A y \in P : x >= y
  <2>1. CASE 20 \in P
    BY <2>1
  <2>2. CASE 20 \notin P /\ 10 \in P
    BY <2>2
  <2>3. CASE 20 \notin P /\ 10 \notin P
    <3>1. P = {0}
      BY <2>3
    <3>. QED  BY <3>1
  <2>. QED  BY <2>1, <2>2, <2>3
<1>2. \E x \in P : \A y \in P : x <= y
  <2>1. CASE 0 \in P
    BY <2>1
  <2>2. CASE 0 \notin P /\ 10 \in P
    BY <2>2
  <2>3. CASE 0 \notin P /\ 10 \notin P
    <3>1. P = {20}
      BY <2>3
    <3>. QED  BY <3>1
  <2>. QED  BY <2>1, <2>2, <2>3
<1>. QED  BY <1>1, <1>2 DEF Max, Min

(* The later of two times.                                                     *)
LEMMA Later ==
  ASSUME NEW x \in Nat, NEW y \in Nat
  PROVE  Max({x, y}) \in {x, y} /\ Max({x, y}) >= x /\ Max({x, y}) >= y
<1>1. \E m \in {x, y} : \A n \in {x, y} : m >= n
  <2>1. CASE x >= y
    BY <2>1
  <2>2. CASE ~(x >= y)
    BY <2>2
  <2>. QED  BY <2>1, <2>2
<1>. QED  BY <1>1 DEF Max

(* A set of naturals has a least element.                                      *)
LEMMA Least ==
  ASSUME NEW T \in SUBSET Nat, T # {}
  PROVE  \E x \in T : \A y \in T : x <= y
<1>1. IsWellFoundedOn(OpToRel(<, Nat), Nat)
  BY NatLessThanWellFounded
<1>2. PICK x \in T : \A y \in T : ~ (<<y, x>> \in OpToRel(<, Nat))
  BY <1>1, WFMin
<1>3. ASSUME NEW y \in T PROVE x <= y
  <2>1. ~ (y < x)
    BY <1>2 DEF OpToRel
  <2>. QED  BY <2>1
<1>. QED  BY <1>3

(* The earliest entry is an entry, and the first in the order of its queue.    *)
LEMMA EarliestFirst ==
  ASSUME TypeOK, queue # {}
  PROVE  Earliest \in queue /\ \A f \in queue : Earlier(Earliest, f)
<1> DEFINE Ts == {e.time : e \in queue}
<1>1. /\ \A e \in queue : e.time \in Nat /\ e.id \in Nat
      /\ nextId \in Nat
  BY BoundAssumption DEF TypeOK, Times
<1>2. PICK x \in Ts : \A y \in Ts : x <= y
  <2>1. Ts \in SUBSET Nat /\ Ts # {}
    BY <1>1
  <2> HIDE DEF Ts
  <2>. QED  BY <2>1, Least
<1> DEFINE Is == {e.id : e \in {e \in queue : e.time = x}}
<1>3. PICK i \in Is : \A j \in Is : i <= j
  <2>1. Is \in SUBSET Nat /\ Is # {}
    BY <1>1, <1>2
  <2> HIDE DEF Is
  <2>. QED  BY <2>1, Least
<1>4. PICK e \in queue : e.time = x /\ e.id = i
  BY <1>3
<1>5. \A f \in queue : Earlier(e, f)
  <2> TAKE f \in queue
  <2>1. x <= f.time
    BY <1>2
  <2>2. f.time = x => i <= f.id
    BY <1>3
  <2>. QED  BY <1>1, <1>4, <2>1, <2>2 DEF Earlier
<1>. QED  BY <1>5 DEF Earliest

(* Places in the queues.                                                       *)
LEMMA PlaceFacts ==
  ASSUME NEW h, NEW w
  PROVE  /\ \A p \in Priority : \A i \in DOMAIN h[p] : h[p][i] = w => <<p, i>> \in Places(h, w)
         /\ \A z \in Places(h, w) :
              /\ z = <<z[1], z[2]>> /\ z[1] \in Priority
              /\ z[2] \in DOMAIN h[z[1]] /\ h[z[1]][z[2]] = w
<1>1. ASSUME NEW z \in Places(h, w)
      PROVE  \E p \in Priority : \E i \in DOMAIN h[p] : h[p][i] = w /\ z = <<p, i>>
  BY <1>1 DEF Places
<1>2. ASSUME NEW p \in Priority, NEW i \in DOMAIN h[p], h[p][i] = w PROVE <<p, i>> \in Places(h, w)
  BY <1>2 DEF Places
<1>. QED  BY <1>1, <1>2

(* Somebody is added at the end of a queue.                                    *)
LEMMA QueuedFacts ==
  ASSUME NEW h \in Heaps, NEW w \in Worker, NEW p \in Priority
  PROVE  /\ Queued(h, w, p) \in Heaps
         /\ Queued(h, w, p)[p] = Append(h[p], w)
         /\ \A q \in Priority \ {p} : Queued(h, w, p)[q] = h[q]
         /\ \A v : v # w => Places(Queued(h, w, p), v) = Places(h, v)
         /\ Places(Queued(h, w, p), w) = Places(h, w) \cup {<<p, Len(h[p]) + 1>>}
         /\ \A v : \A z \in Places(h, v) : z[1] = p => z[2] < Len(h[p]) + 1
<1> DEFINE n == Len(h[p]) + 1
<1>1. PICK g : g = Queued(h, w, p)
  OBVIOUS
<1>2. h[p] \in Seq(Worker) /\ g[p] = Append(h[p], w) /\ \A q \in Priority \ {p} : g[q] = h[q]
  BY <1>1 DEF Queued, Heaps
<1>3. g \in Heaps
  BY <1>1, <1>2 DEF Queued, Heaps
<1>4. /\ n \in Nat \ {0} /\ DOMAIN h[p] = 1..(n - 1) /\ DOMAIN g[p] = 1..n /\ g[p][n] = w
      /\ \A i \in 1..(n - 1) : g[p][i] = h[p][i]
  BY <1>2
<1> HIDE DEF n
<1>5. ASSUME NEW v, NEW z \in Places(h, v) PROVE z \in Places(g, v)
  <2>1. /\ z = <<z[1], z[2]>> /\ z[1] \in Priority
        /\ z[2] \in DOMAIN h[z[1]] /\ h[z[1]][z[2]] = v
    BY <1>5, PlaceFacts
  <2>2. CASE z[1] = p
    <3>1. z[2] \in DOMAIN g[p] /\ g[p][z[2]] = v
      BY <1>4, <2>1, <2>2
    <3>. QED  BY <2>1, <2>2, <3>1, PlaceFacts
  <2>3. CASE z[1] # p
    <3>1. z[2] \in DOMAIN g[z[1]] /\ g[z[1]][z[2]] = v
      BY <1>2, <2>1, <2>3
    <3>. QED  BY <2>1, <3>1, PlaceFacts
  <2>. QED  BY <2>2, <2>3
<1>6. ASSUME NEW v, NEW z \in Places(g, v) PROVE z \in Places(h, v) \/ (v = w /\ z = <<p, n>>)
  <2>1. /\ z = <<z[1], z[2]>> /\ z[1] \in Priority
        /\ z[2] \in DOMAIN g[z[1]] /\ g[z[1]][z[2]] = v
    BY <1>6, PlaceFacts
  <2>2. CASE z[1] = p /\ z[2] = n
    BY <1>4, <2>1, <2>2
  <2>3. CASE z[1] = p /\ z[2] # n
    <3>1. z[2] \in DOMAIN h[p] /\ h[p][z[2]] = v
      BY <1>4, <2>1, <2>3
    <3>. QED  BY <2>1, <2>3, <3>1, PlaceFacts
  <2>4. CASE z[1] # p
    <3>1. z[2] \in DOMAIN h[z[1]] /\ h[z[1]][z[2]] = v
      BY <1>2, <2>1, <2>4
    <3>. QED  BY <2>1, <3>1, PlaceFacts
  <2>. QED  BY <2>2, <2>3, <2>4
<1>7. <<p, n>> \in Places(g, w)
  <2>1. n \in DOMAIN g[p] /\ g[p][n] = w
    BY <1>4
  <2>. QED  BY <2>1, PlaceFacts
<1>8. ASSUME NEW v, NEW z \in Places(h, v) PROVE z[1] = p => z[2] < n
  <2>1. z[2] \in DOMAIN h[z[1]]
    BY PlaceFacts
  <2>. QED  BY <1>4, <2>1
<1>9. \A v : v # w => Places(g, v) = Places(h, v)
  BY <1>5, <1>6
<1>10. Places(g, w) = Places(h, w) \cup {<<p, n>>}
  BY <1>5, <1>6, <1>7
<1>. QED  BY <1>1, <1>2, <1>3, <1>8, <1>9, <1>10 DEF n

Added(h, g, w, p) == g = Queued(h, w, p)

(* The same, of the queues there are then.                                     *)
LEMMA AddedFacts ==
  ASSUME NEW h \in Heaps, NEW w \in Worker, NEW p \in Priority, NEW g, Added(h, g, w, p)
  PROVE  /\ g \in Heaps /\ g[p] = Append(h[p], w)
         /\ \A q \in Priority \ {p} : g[q] = h[q]
         /\ \E n \in Nat :
              /\ Places(g, w) = Places(h, w) \cup {<<p, n>>}
              /\ \A v : v # w => Places(g, v) = Places(h, v)
              /\ \A v : \A z \in Places(h, v) : z[1] = p => z[2] < n
<1>1. PICK n \in Nat : n = Len(h[p]) + 1
  BY DEF Heaps
<1>2. /\ g \in Heaps /\ g[p] = Append(h[p], w)
      /\ \A q \in Priority \ {p} : g[q] = h[q]
  BY QueuedFacts DEF Added
<1>3. /\ Places(g, w) = Places(h, w) \cup {<<p, n>>}
      /\ \A v : v # w => Places(g, v) = Places(h, v)
  BY <1>1, QueuedFacts DEF Added
<1>4. \A v : \A z \in Places(h, v) : z[1] = p => z[2] < n
  BY <1>1, QueuedFacts
<1>. QED  BY <1>2, <1>3, <1>4

Popped(h, g, p, w) == g = [h EXCEPT ![p] = Tail(@)] /\ w = Head(h[p])

(* The head of a queue is taken: everybody else keeps a turn, and who was ahead *)
(* of whom is ahead.                                                           *)
LEMMA PoppedFacts ==
  ASSUME NEW h \in Heaps, NEW p \in Priority, h[p] # <<>>,
         NEW g, NEW w, Popped(h, g, p, w)
  PROVE  /\ g \in Heaps /\ w \in Worker /\ <<p, 1>> \in Places(h, w)
         /\ \A q \in Priority \ {p} : g[q] = h[q]
         /\ \A v : \A z \in Places(g, v) :
              \E y \in Places(h, v) : y[1] = z[1] /\ y # <<p, 1>>
         /\ \A v : Single(Places(h, v)) => Single(Places(g, v))
         /\ \A v : v # w /\ Places(h, v) # {} => Places(g, v) # {}
         /\ \A t, u : u # w /\ Behind(h, t, u) => Behind(g, t, u)
<1> DEFINE k == Len(h[p])
<1>2. h[p] \in Seq(Worker) /\ g[p] = Tail(h[p]) /\ \A q \in Priority \ {p} : g[q] = h[q]
  BY DEF Heaps, Popped
<1>3. g \in Heaps
  BY <1>2 DEF Heaps, Popped
<1>4. /\ k \in Nat \ {0} /\ DOMAIN h[p] = 1..k /\ DOMAIN g[p] = 1..(k - 1) /\ w = h[p][1]
      /\ \A i \in 1..(k - 1) : g[p][i] = h[p][i + 1]
      /\ \A q \in Priority : DOMAIN h[q] \subseteq Nat
  BY <1>2 DEF Heaps, Popped
<1> HIDE DEF k
<1> DEFINE Was(z) == IF z[1] = p THEN <<p, z[2] + 1>> ELSE z
           Is(z) == IF z[1] = p THEN <<p, z[2] - 1>> ELSE z
<1>5. ASSUME NEW v, NEW z \in Places(g, v)
      PROVE  /\ Was(z) \in Places(h, v) /\ Was(z)[1] = z[1] /\ Was(z) # <<p, 1>> /\ z = <<z[1], z[2]>>
             /\ z[2] \in Nat /\ Was(z)[2] = (IF z[1] = p THEN z[2] + 1 ELSE z[2])
  <2>1. /\ z = <<z[1], z[2]>> /\ z[1] \in Priority
        /\ z[2] \in DOMAIN g[z[1]] /\ g[z[1]][z[2]] = v
    BY <1>5, PlaceFacts
  <2>2. CASE z[1] = p
    <3>1. z[2] \in 1..(k - 1) /\ z[2] + 1 \in DOMAIN h[p] /\ h[p][z[2] + 1] = v /\ z[2] + 1 # 1 /\ z[2] \in Nat
      BY <1>4, <2>1, <2>2
    <3>. QED  BY <2>1, <2>2, <3>1, PlaceFacts
  <2>3. CASE z[1] # p
    <3>1. z[2] \in DOMAIN h[z[1]] /\ h[z[1]][z[2]] = v /\ z[2] \in Nat
      BY <1>2, <1>4, <2>1, <2>3
    <3>. QED  BY <2>1, <2>3, <3>1, PlaceFacts
  <2>. QED  BY <2>2, <2>3
<1>6. ASSUME NEW v, NEW z \in Places(h, v), z # <<p, 1>>
      PROVE  /\ Is(z) \in Places(g, v) /\ Is(z)[1] = z[1] /\ z[2] \in Nat
             /\ Is(z)[2] = (IF z[1] = p THEN z[2] - 1 ELSE z[2])
  <2>1. /\ z = <<z[1], z[2]>> /\ z[1] \in Priority
        /\ z[2] \in DOMAIN h[z[1]] /\ h[z[1]][z[2]] = v
    BY <1>6, PlaceFacts
  <2>2. CASE z[1] = p
    <3>1. z[2] - 1 \in 1..(k - 1) /\ (z[2] - 1) + 1 = z[2] /\ z[2] \in Nat
      BY <1>4, <1>6, <2>1, <2>2
    <3>2. z[2] - 1 \in DOMAIN g[p] /\ g[p][z[2] - 1] = v
      BY <1>4, <2>1, <2>2, <3>1
    <3>. QED  BY <2>2, <3>1, <3>2, PlaceFacts
  <2>3. CASE z[1] # p
    <3>1. z[2] \in DOMAIN g[z[1]] /\ g[z[1]][z[2]] = v /\ z[2] \in Nat
      BY <1>2, <1>4, <2>1, <2>3
    <3>. QED  BY <2>1, <2>3, <3>1, PlaceFacts
  <2>. QED  BY <2>2, <2>3
<1> HIDE DEF Was, Is
<1>7. <<p, 1>> \in Places(h, w) /\ w \in Worker
  BY <1>2, <1>4, PlaceFacts
<1>8. ASSUME NEW v, Single(Places(h, v)) PROVE Single(Places(g, v))
  <2>1. SUFFICES ASSUME NEW y \in Places(g, v), NEW z \in Places(g, v) PROVE y = z
    BY DEF Single
  <2>2. Was(y) = Was(z)
    BY <1>5, <1>8 DEF Single
  <2>3. y[1] = z[1]
    BY <1>5, <2>2
  <2>4. y[2] = z[2]
    <3>1. y[2] \in Nat /\ z[2] \in Nat /\ Was(y)[2] = Was(z)[2]
      BY <1>5, <2>2
    <3>. QED  BY <1>5, <2>3, <3>1
  <2>. QED  BY <1>5, <2>3, <2>4
<1>9. ASSUME NEW v, v # w, Places(h, v) # {} PROVE Places(g, v) # {}
  <2>1. PICK z \in Places(h, v) : TRUE
    BY <1>9
  <2>2. z # <<p, 1>>
    BY <1>4, <1>9, <2>1, PlaceFacts
  <2>. QED  BY <1>6, <2>1, <2>2
<1>10. ASSUME NEW t, NEW u, u # w, Behind(h, t, u) PROVE Behind(g, t, u)
  <2>1. SUFFICES ASSUME NEW z \in Places(g, t) PROVE \E y \in Places(g, u) : Before(y, z)
    BY DEF Behind
  <2>2. PICK y \in Places(h, u) : Before(y, Was(z))
    BY <1>5, <1>10 DEF Behind
  <2>3. y # <<p, 1>>
    BY <1>4, <1>10, PlaceFacts
  <2>4. /\ Is(y) \in Places(g, u) /\ Is(y)[1] = y[1] /\ y[2] \in Nat /\ y[1] \in Priority
        /\ Is(y)[2] = (IF y[1] = p THEN y[2] - 1 ELSE y[2])
    BY <1>6, <2>3, PlaceFacts
  <2>5. /\ Was(z)[1] = z[1] /\ z[2] \in Nat /\ Was(z)[2] = (IF z[1] = p THEN z[2] + 1 ELSE z[2])
    BY <1>5
  <2>6. Before(Is(y), z)
    <3>1. CASE y[1] > z[1]
      BY <2>4, <2>5, <3>1 DEF Before
    <3>2. CASE y[1] = z[1] /\ y[2] < Was(z)[2]
      BY <2>4, <2>5, <3>2 DEF Before
    <3>. QED  BY <2>2, <2>5, <3>1, <3>2 DEF Before
  <2>. QED  BY <2>4, <2>6
<1>11. ASSUME NEW v, NEW z \in Places(g, v) PROVE \E y \in Places(h, v) : y[1] = z[1] /\ y # <<p, 1>>
  BY <1>5, <1>11
<1>. QED  BY <1>2, <1>3, <1>7, <1>8, <1>9, <1>10, <1>11

(* How a turn is given up: behind x, who had none to come; alone; to the next. *)
Yields(x, px, pc) == ready' = Queued(Queued(ready, x, px), cur, pc) /\ cur' = None
YieldsAlone(pc) == ready' = Queued(ready, cur, pc) /\ cur' = None
Leaves == cur' = None /\ UNCHANGED ready

(* Fresh is one of the unborn.                                                 *)
LEMMA FreshUnborn == Unborn # {} => Fresh \in Task /\ phase[Fresh] = "unborn"
<1>1. Unborn # {} => Fresh \in Unborn
  BY DEF Fresh
<1>. QED  BY <1>1 DEF Unborn

(* What the parameters and the types give.                                     *)
LEMMA Typed ==
  ASSUME TypeOK
  PROVE  /\ ready \in Heaps /\ cur \in Worker \cup {None} /\ None \notin Worker /\ Driver \notin Task
         /\ \A w \in Worker : PrioOf(w) \in Priority
         /\ \A t \in Task : prio[t] \in Priority /\ due[t] \in Times /\ owes[t] \in 0..nextId-1
         /\ IDLE \in Priority /\ NORMAL \in Priority /\ HIGH \in Priority /\ Priorities \subseteq Priority
         /\ Times \subseteq Nat /\ clock \in Nat /\ nextId \in Nat
         /\ \A t \in Task : phase[t] \in Phase
BY TaskAssumption, BoundAssumption
   DEF TypeOK, Heaps, Worker, PrioOf, Priority, IDLE, NORMAL, HIGH, Times

(* CompletePromise queues the waiter, if any, and the completer not above it.  *)
LEMMA Completes ==
  ASSUME TypeOK, Timed, NEW w \in Worker, cur = w, NEW id \in Nat \ {0}, CompletePromise(w, id)
  PROVE  LET pc == CompleterPrio(w, id) IN
         /\ pc \in Priority /\ pc <= PrioOf(w) /\ \A t \in Waiter(id) : pc <= prio[t]
         /\ pc = PrioOf(w) \/ \E t \in Waiter(id) : pc = prio[t]
         /\ fired' = fired \cup {id}
         /\ \/ Waiter(id) = {} /\ YieldsAlone(pc)
            \/ \E t \in Task : Waiter(id) = {t} /\ Yields(t, prio[t], pc)
<1> DEFINE P == {PrioOf(w)} \cup {prio[t] : t \in Waiter(id)}
<1>1. Waiter(id) \subseteq Task
  BY DEF Waiter
<1>2. P \in SUBSET Priority /\ P # {}
  BY <1>1, Typed
<1>3. Min(P) \in P /\ \A q \in P : Min(P) <= q
  <2> HIDE DEF P
  <2>. QED  BY <1>2, Extremes
<1>4. Waiter(id) = {} => YieldsAlone(CompleterPrio(w, id))
  BY DEF CompletePromise, YieldsAlone
<1>5. ASSUME Waiter(id) # {} PROVE \E t \in Task : Waiter(id) = {t} /\ Yields(t, prio[t], CompleterPrio(w, id))
  <2>1. PICK t \in Waiter(id) : t = CHOOSE u \in Waiter(id) : TRUE
    BY <1>5
  <2>2. Waiter(id) = {t}
    BY <2>1 DEF Waiter, Timed
  <2>3. Yields(t, prio[t], CompleterPrio(w, id))
    BY <1>5, <2>1 DEF CompletePromise, Yields
  <2>. QED  BY <1>1, <2>2, <2>3
<1>6. fired' = fired \cup {id}
  BY DEF CompletePromise
<1>. QED  BY <1>2, <1>3, <1>4, <1>5, <1>6 DEF CompleterPrio

-------------------------------------------------------------------------------
(* Types.                                                                      *)

(* A turn given up goes to members of the queues.                              *)
LEMMA YieldTyped ==
  ASSUME TypeOK, cur \in Worker, NEW pc \in Priority
  PROVE  /\ YieldsAlone(pc) => ready' \in Heaps /\ cur' = None
         /\ \A x \in Worker, px \in Priority :
              Yields(x, px, pc) => ready' \in Heaps /\ cur' = None
<1>1. ready \in Heaps
  BY Typed
<1>2. YieldsAlone(pc) => ready' \in Heaps /\ cur' = None
  BY <1>1, QueuedFacts DEF YieldsAlone
<1>3. ASSUME NEW x \in Worker, NEW px \in Priority, Yields(x, px, pc)
      PROVE  ready' \in Heaps /\ cur' = None
  <2>1. PICK h \in Heaps : h = Queued(ready, x, px)
    BY <1>1, QueuedFacts
  <2>2. ready' = Queued(h, cur, pc) /\ cur' = None
    BY <1>3, <2>1 DEF Yields
  <2>. QED  BY <2>1, <2>2, QueuedFacts
<1>. QED  BY <1>2, <1>3

TurnsTyped == ready' \in Heaps /\ cur' \in Worker \cup {None}
EventsTyped ==
  /\ listeners \subseteq [type : Type, id : 1 .. nextId - 1, task : Task]
  /\ todo \in [Task -> SUBSET [id : 1 .. nextId - 1, task : Task]]
  /\ unheard \in [Task -> SUBSET Task] /\ plain \subseteq Task

(* What was made of earlier promises is made of those there are then.          *)
LEMMA IdsGrow ==
  ASSUME TypeOK, nextId' = nextId \/ nextId' = nextId + 1
  PROVE  /\ nextId' \in Nat /\ 1..nextId-1 \subseteq 1..nextId'-1 /\ 0..nextId-1 \subseteq 0..nextId'-1
         /\ queue \subseteq [time : Times, id : 1 .. nextId' - 1, task : Task]
         /\ owes \in [Task -> 0 .. nextId' - 1]
         /\ fired \subseteq 1 .. nextId' - 1
         /\ listeners \subseteq [type : Type, id : 1 .. nextId' - 1, task : Task]
         /\ todo \in [Task -> SUBSET [id : 1 .. nextId' - 1, task : Task]]
<1>1. nextId \in Nat
  BY DEF TypeOK
<1>2. nextId' \in Nat /\ 1..nextId-1 \subseteq 1..nextId'-1 /\ 0..nextId-1 \subseteq 0..nextId'-1
  BY <1>1
<1> DEFINE I == 1..nextId-1
           J == 1..nextId'-1
           K == 0..nextId-1
           L == 0..nextId'-1
<1>3. /\ queue \subseteq [time : Times, id : I, task : Task] /\ owes \in [Task -> K] /\ fired \subseteq I
      /\ listeners \subseteq [type : Type, id : I, task : Task]
      /\ todo \in [Task -> SUBSET [id : I, task : Task]]
      /\ I \subseteq J /\ K \subseteq L
  BY <1>2 DEF TypeOK
<1> HIDE DEF I, J, K, L
<1>4. /\ queue \subseteq [time : Times, id : J, task : Task] /\ owes \in [Task -> L] /\ fired \subseteq J
      /\ listeners \subseteq [type : Type, id : J, task : Task]
  BY <1>3
<1>5. todo \in [Task -> SUBSET [id : J, task : Task]]
  <2>1. [id : I, task : Task] \subseteq [id : J, task : Task]
    BY <1>3
  <2>. QED  BY <1>3, <2>1
<1>. QED  BY <1>2, <1>4, <1>5 DEF J, L

(* What an action of the time handler gives.                                   *)
TimeTyped ==
  /\ clock' \in Times /\ driving' \in BOOLEAN /\ due' \in [Task -> Times]
  /\ queue' \subseteq [time : Times, id : 1 .. nextId' - 1, task : Task]
  /\ phase' \in [Task -> Phase] /\ cancelled' \subseteq Task \ {Root}
  /\ prio' \in [Task -> Priority] /\ owes' \in [Task -> 0 .. nextId' - 1]
  /\ fired' \subseteq 1 .. nextId' - 1 /\ nextId' \in {nextId, nextId + 1} /\ ops' \in 0 .. MaxOps
  /\ over' \in {"no", "returned", "deadlock"}

(* A task that starts to wait for a time keeps the types.                      *)
LEMMA WaitTyped ==
  ASSUME TypeOK, NEW t \in Task, cur = t, NEW x \in Times, WaitForTime(t, x), ops' \in 0..MaxOps
  PROVE  TimeTyped /\ TurnsTyped
<1>1. /\ nextId' = nextId + 1 /\ nextId \in Nat /\ t \in Worker /\ Driver \in Worker /\ IDLE \in Priority
      /\ prio[t] \in Priority /\ ready \in Heaps /\ owes \in [Task -> 0..nextId-1]
      /\ queue \subseteq [time : Times, id : 1 .. nextId - 1, task : Task]
  BY Typed DEF WaitForTime, NextId, Worker, TypeOK
<1>2. TurnsTyped
  <2>1. CASE driving
    BY <1>1, <2>1 DEF WaitForTime, TurnsTyped
  <2>2. CASE ~driving
    <3>1. Yields(Driver, IDLE, prio[t])
      BY <2>2 DEF WaitForTime, EnsureDriver, Yields
    <3>. QED  BY <1>1, <3>1, YieldTyped DEF TurnsTyped
  <2>. QED  BY <2>1, <2>2
<1>3. queue' \subseteq [time : Times, id : 1 .. nextId' - 1, task : Task] /\ fired' \subseteq 1..nextId'-1
  <2>1. queue \subseteq [time : Times, id : 1 .. nextId' - 1, task : Task] /\ fired \subseteq 1..nextId'-1
    BY <1>1, IdsGrow
  <2>2. nextId \in 1..nextId'-1
    BY <1>1, BoundAssumption DEF TypeOK
  <2>. QED  BY <2>1, <2>2 DEF WaitForTime
<1>4. owes' \in [Task -> 0..nextId'-1]
  <2>1. owes \in [Task -> 0..nextId'-1] /\ nextId \in 0..nextId'-1
    BY <1>1, IdsGrow
  <2>. QED  BY <2>1 DEF WaitForTime
<1>5. /\ clock' \in Times /\ driving' \in BOOLEAN /\ due' \in [Task -> Times]
      /\ phase' \in [Task -> Phase] /\ cancelled' \subseteq Task \ {Root} /\ prio' \in [Task -> Priority]
      /\ over' \in {"no", "returned", "deadlock"}
  BY DEF TypeOK, WaitForTime, EnsureDriver, Phase
<1>. QED  BY <1>1, <1>2, <1>3, <1>4, <1>5 DEF TimeTyped

(* What is picked: the head of the highest queue that is not empty.            *)
LEMMA PickTyped ==
  ASSUME TypeOK, Pick
  PROVE  \E p \in Priority :
           LET w == Head(ready[p]) IN
           /\ ready[p] # <<>> /\ \A q \in Priority : q > p => ready[q] = <<>>
           /\ ready' = [ready EXCEPT ![p] = Tail(@)] /\ w \in Worker
           /\ cur' = IF w \in cancelled THEN None ELSE w
           /\ phase' = [t \in Task |-> IF t = w /\ phase[t] \in {"woken", "heard"} THEN "run"
                                       ELSE phase[t]]
           /\ ready' \in Heaps
<1> DEFINE P == {q \in Priority : ready[q] # <<>>}
<1>1. P \in SUBSET Priority /\ P # {}
  BY DEF Pick
<1>2. PICK p \in P : p = Max(P) /\ \A q \in P : p >= q
  <2> HIDE DEF P
  <2>. QED  BY <1>1, Extremes
<1>3. \A q \in Priority : q > p => ready[q] = <<>>
  BY <1>2 DEF Priority, IDLE, NORMAL, HIGH
<1>4. ready \in Heaps /\ p \in Priority /\ ready[p] # <<>>
  BY <1>2, Typed
<1>5. /\ ready' = [ready EXCEPT ![p] = Tail(@)] /\ Head(ready[p]) \in Worker /\ ready' \in Heaps
  <2>1. ready' = [ready EXCEPT ![p] = Tail(@)]
    BY <1>2 DEF Pick
  <2>2. [ready EXCEPT ![p] = Tail(@)] \in Heaps /\ Head(ready[p]) \in Worker
    <3>1. Popped(ready, [ready EXCEPT ![p] = Tail(@)], p, Head(ready[p]))
      BY DEF Popped
    <3>. QED  BY <1>4, <3>1, PoppedFacts
  <2>. QED  BY <2>1, <2>2
<1>6. /\ cur' = IF Head(ready[p]) \in cancelled THEN None ELSE Head(ready[p])
      /\ phase' = [t \in Task |-> IF t = Head(ready[p]) /\ phase[t] \in {"woken", "heard"} THEN "run"
                                  ELSE phase[t]]
  BY <1>2 DEF Pick
<1>. QED  BY <1>3, <1>4, <1>5, <1>6

(* An effect is performed by the task whose turn it is.                        *)
LEMMA OpsTyped == ASSUME TypeOK, NEW t \in Task, Performs(t) PROVE ops' \in 0..MaxOps /\ cur = t /\ t \in Worker
BY BoundAssumption DEF TypeOK, Performs, Worker

(* Somebody fresh is spawned.                                                  *)
LEMMA BornTyped ==
  ASSUME TypeOK, NEW t \in Task, NEW p \in Priority, NEW start \in Phase, Born(t, p, start)
  PROVE  /\ ops' \in 0..MaxOps /\ Fresh \in Task /\ phase[Fresh] = "unborn" /\ cur = t
         /\ phase' = [phase EXCEPT ![Fresh] = start] /\ prio' = [prio EXCEPT ![Fresh] = p]
         /\ Yields(Fresh, p, prio[t]) /\ TurnsTyped
         /\ phase' \in [Task -> Phase] /\ prio' \in [Task -> Priority]
<1>1. /\ ops' \in 0..MaxOps /\ cur = t /\ t \in Worker /\ Fresh \in Task /\ phase[Fresh] = "unborn"
      /\ prio[t] \in Priority /\ Fresh \in Worker
  BY OpsTyped, FreshUnborn, Typed DEF Born, Worker
<1>2. Yields(Fresh, p, prio[t])
  BY <1>1 DEF Born, Yields
<1>3. TurnsTyped
  BY <1>1, <1>2, YieldTyped DEF TurnsTyped
<1>. QED  BY <1>1, <1>2, <1>3 DEF Born, TypeOK

(* The steps of the time handler and the scheduler keep the types.             *)
LEMMA TimeNextTyped == ASSUME TypeOK, Timed, TimeNext PROVE TimeTyped /\ TurnsTyped
<1>1. /\ ready \in Heaps /\ cur \in Worker \cup {None} /\ nextId \in Nat /\ fired \subseteq 1..nextId-1
      /\ queue \subseteq [time : Times, id : 1 .. nextId - 1, task : Task]
  BY Typed DEF TypeOK
<1>2. CASE Pick
  BY <1>2, PickTyped DEF TypeOK, TimeTyped, TurnsTyped, Pick, Phase, time
<1>3. CASE DeclareDeadlock
  BY <1>1, <1>3 DEF TypeOK, TimeTyped, TurnsTyped, DeclareDeadlock, time
<1>4. CASE DriverEnds
  BY <1>1, <1>4 DEF TypeOK, TimeTyped, TurnsTyped, DriverEnds, DriverLeaves
<1>5. CASE Advance
  <2>1. Earliest \in queue
    BY <1>5, EarliestFirst DEF Advance
  <2>2. Earliest.id \in 1..nextId-1 /\ Earliest.time \in Times /\ Earliest.id \in Nat \ {0}
    BY <1>1, <2>1
  <2>3. Driver \in Worker /\ cur = Driver /\ CompletePromise(Driver, Earliest.id)
    BY <1>5 DEF Advance, Worker
  <2>4. TurnsTyped /\ fired' \subseteq 1..nextId-1
    <3>1. /\ CompleterPrio(Driver, Earliest.id) \in Priority /\ fired' = fired \cup {Earliest.id}
          /\ \/ YieldsAlone(CompleterPrio(Driver, Earliest.id))
             \/ \E t \in Task : Yields(t, prio[t], CompleterPrio(Driver, Earliest.id))
      BY <2>2, <2>3, Completes
    <3>2. TurnsTyped
      BY <2>3, <3>1, YieldTyped, Typed DEF TurnsTyped, Worker
    <3>. QED  BY <1>1, <2>2, <3>1, <3>2
  <2>5. clock' \in Times
    <3>1. clock' = Max({clock, Earliest.time}) /\ clock \in Nat /\ Earliest.time \in Nat /\ clock \in Times
      BY <1>5, <2>2, Typed DEF Advance, TypeOK
    <3>2. Max({clock, Earliest.time}) \in {clock, Earliest.time}
      BY <3>1, Later
    <3>. QED  BY <2>2, <3>1, <3>2
  <2>6. phase' \in [Task -> Phase]
    BY <1>5 DEF TypeOK, Advance, Woken, Phase
  <2>. QED  BY <1>5, <2>4, <2>5, <2>6 DEF TypeOK, TimeTyped, Advance
<1>6. ASSUME NEW t \in Task, End(t) PROVE TimeTyped /\ TurnsTyped
  BY <1>1, <1>6 DEF TypeOK, TimeTyped, TurnsTyped, End, Phase, time
<1>7. ASSUME NEW t \in Task, Arm(t) PROVE TimeTyped /\ TurnsTyped
  BY <1>1, <1>7 DEF TypeOK, TimeTyped, TurnsTyped, Arm, Phase, time
<1>8. ASSUME NEW t \in Task, StartDeferred(t) PROVE TimeTyped /\ TurnsTyped
  BY <1>8, WaitTyped, Typed DEF StartDeferred, TypeOK
<1>9. ASSUME NEW t \in Task, NEW x \in Times, Delay(t, x) \/ WaitUntil(t, x) PROVE TimeTyped /\ TurnsTyped
  <2>1. ops' \in 0..MaxOps /\ cur = t
    BY <1>9, OpsTyped DEF Delay, WaitUntil
  <2>2. PICK y \in Times : WaitForTime(t, y)
    <3>1. CASE Delay(t, x)
      BY <3>1 DEF Delay
    <3>2. CASE WaitUntil(t, x)
      <4>1. clock \in Times /\ x \in Nat /\ clock \in Nat
        BY Typed DEF TypeOK
      <4>2. Max({clock, x}) \in Times
        BY <4>1, Later
      <4>. QED  BY <3>2, <4>2 DEF WaitUntil
    <3>. QED  BY <1>9, <3>1, <3>2
  <2>. QED  BY <2>1, <2>2, WaitTyped
<1>10. ASSUME NEW t \in Task, NEW x \in Times, ScheduleAt(t, x) PROVE TimeTyped /\ TurnsTyped
  <2>1. Born(t, NORMAL, "deferred") /\ NORMAL \in Priority /\ "deferred" \in Phase
    BY <1>10, Typed DEF ScheduleAt, Phase
  <2>2. ops' \in 0..MaxOps /\ TurnsTyped /\ phase' \in [Task -> Phase] /\ prio' \in [Task -> Priority]
    BY <2>1, BornTyped
  <2>3. due' \in [Task -> Times]
    BY <1>10 DEF ScheduleAt, TypeOK
  <2>. QED  BY <1>10, <2>2, <2>3 DEF TypeOK, TimeTyped, ScheduleAt
<1>11. ASSUME NEW t \in Task, NEW x \in Times, SetTime(t, x) PROVE TimeTyped /\ TurnsTyped
  <2>1. ops' \in 0..MaxOps /\ cur = t /\ t \in Worker /\ prio[t] \in Priority /\ Driver \in Worker /\ IDLE \in Priority
    BY <1>11, OpsTyped, Typed DEF SetTime, Worker
  <2>2. UNCHANGED <<ready, cur, driving>> \/ (driving' = TRUE /\ Yields(Driver, IDLE, prio[t]))
    BY <1>11, <2>1 DEF SetTime, EnsureDriver, Yields
  <2>3. TurnsTyped
    BY <1>1, <2>1, <2>2, YieldTyped DEF TurnsTyped
  <2>. QED  BY <1>11, <2>1, <2>2, <2>3 DEF TypeOK, TimeTyped, SetTime
<1>12. ASSUME NEW t \in Task, NEW u \in Task, Cancel(t, u) PROVE TimeTyped /\ TurnsTyped
  BY <1>1, <1>12, OpsTyped DEF TypeOK, TimeTyped, TurnsTyped, Cancel, time
<1>13. ASSUME NEW t \in Task, NEW p \in Priorities, Spawn(t, p) PROVE TimeTyped /\ TurnsTyped
  <2>1. Born(t, p, "run") /\ p \in Priority /\ "run" \in Phase
    BY <1>13, Typed DEF Spawn, Phase
  <2>2. ops' \in 0..MaxOps /\ TurnsTyped /\ phase' \in [Task -> Phase] /\ prio' \in [Task -> Priority]
    BY <2>1, BornTyped
  <2>. QED  BY <1>13, <2>2 DEF TypeOK, TimeTyped, Spawn, time
<1>. QED  BY <1>2, <1>3, <1>4, <1>5, <1>6, <1>7, <1>8, <1>9, <1>10, <1>11, <1>12, <1>13 DEF TimeNext

(* So do those of the event handler.                                           *)
LEMMA EventNextTyped ==
  ASSUME TypeOK, Timed, EventNext
  PROVE  TimeTyped /\ TurnsTyped /\ EventsTyped'
<1>1. /\ ready \in Heaps /\ cur \in Worker \cup {None} /\ nextId \in Nat /\ fired \subseteq 1..nextId-1
      /\ queue \subseteq [time : Times, id : 1 .. nextId - 1, task : Task]
  BY Typed DEF TypeOK
<1>2. ASSUME NEW t \in Task, NEW types \in Interests, WaitForEvent(t, types)
      PROVE  TimeTyped /\ TurnsTyped /\ EventsTyped'
  <2>1. /\ ops' \in 0..MaxOps /\ nextId' = nextId + 1 /\ nextId' \in Nat /\ nextId \in Nat
    BY <1>1, <1>2, OpsTyped DEF WaitForEvent
  <2>2. /\ queue \subseteq [time : Times, id : 1 .. nextId' - 1, task : Task]
        /\ owes \in [Task -> 0 .. nextId' - 1] /\ fired \subseteq 1 .. nextId' - 1
        /\ listeners \subseteq [type : Type, id : 1 .. nextId' - 1, task : Task]
        /\ todo \in [Task -> SUBSET [id : 1 .. nextId' - 1, task : Task]]
    BY <2>1, IdsGrow
  <2>3. nextId \in 0..nextId'-1 /\ nextId \in 1..nextId'-1
    <3>1. owes[t] \in 0..nextId-1
      BY DEF TypeOK
    <3>. QED  BY <2>1, <3>1
  <2>4. owes' \in [Task -> 0..nextId'-1]
    BY <1>2, <2>2, <2>3 DEF WaitForEvent
  <2>5. listeners' \subseteq [type : Type, id : 1 .. nextId' - 1, task : Task]
    <3>1. types \subseteq Type
      BY EventAssumption
    <3>. QED  BY <1>2, <2>2, <2>3, <3>1 DEF WaitForEvent
  <2>6. phase' \in [Task -> Phase]
    BY <1>2 DEF WaitForEvent, TypeOK, Phase
  <2>. QED  BY <1>1, <1>2, <2>1, <2>2, <2>4, <2>5, <2>6
            DEF WaitForEvent, TypeOK, TimeTyped, TurnsTyped, EventsTyped, time
<1>3. ASSUME NEW t \in Task, NEW e \in Event, Publish(t, e)
      PROVE  TimeTyped /\ TurnsTyped /\ EventsTyped'
  <2>1. ops' \in 0..MaxOps
    BY <1>3, OpsTyped DEF Publish
  <2>2. Matching(e) \subseteq [id : 1..nextId-1, task : Task]
    BY DEF Matching, TypeOK
  <2>3. listeners' \subseteq listeners /\ plain' \subseteq Task
    BY <1>3 DEF Publish, Without, TypeOK
  <2>4. todo' \in [Task -> SUBSET [id : 1..nextId-1, task : Task]]
    BY <1>3, <2>2 DEF Publish, TypeOK
  <2>5. phase' \in [Task -> Phase]
    BY <1>3 DEF Publish, TypeOK, Phase
  <2>. QED  BY <1>1, <1>3, <2>1, <2>3, <2>4, <2>5
            DEF Publish, TypeOK, TimeTyped, TurnsTyped, EventsTyped, time
<1>4. ASSUME NEW t \in Task, Deliver(t) PROVE TimeTyped /\ TurnsTyped /\ EventsTyped'
  <2>1. PICK p \in todo[t] :
          /\ CompletePromise(t, p.id)
          /\ todo' = [todo EXCEPT ![t] = @ \ {p}]
          /\ unheard' = [unheard EXCEPT ![t] = @ \cup Waiter(p.id)]
          /\ phase' = [Woken(p.id) EXCEPT ![t] = IF todo'[t] = {} THEN "run" ELSE @]
    BY <1>4 DEF Deliver
  <2>2. p.id \in 1..nextId-1 /\ p.id \in Nat \ {0}
    BY <1>1 DEF TypeOK
  <2>3. cur = t /\ t \in Worker
    BY <1>4 DEF Deliver, Worker
  <2>4. TurnsTyped /\ fired' \subseteq 1..nextId-1
    <3>1. /\ CompleterPrio(t, p.id) \in Priority /\ fired' = fired \cup {p.id}
          /\ \/ YieldsAlone(CompleterPrio(t, p.id))
             \/ \E u \in Task : Yields(u, prio[u], CompleterPrio(t, p.id))
      BY <2>1, <2>2, <2>3, Completes
    <3>2. TurnsTyped
      BY <2>3, <3>1, YieldTyped, Typed DEF TurnsTyped, Worker
    <3>. QED  BY <1>1, <2>2, <3>1, <3>2
  <2>5. /\ todo' \in [Task -> SUBSET [id : 1..nextId-1, task : Task]]
        /\ unheard' \in [Task -> SUBSET Task]
    BY <2>1 DEF TypeOK, Waiter
  <2>6. phase' \in [Task -> Phase]
    BY <2>1 DEF TypeOK, Woken, Phase
  <2>. QED  BY <1>4, <2>4, <2>5, <2>6 DEF Deliver, TypeOK, TimeTyped, EventsTyped, time
<1>. QED  BY <1>2, <1>3, <1>4 DEF EventNext

(* Every step keeps the types.                                                 *)
LEMMA TypeNext == ASSUME TypeOK, Timed, [Next]_vars PROVE TypeOK'
<1>1. CASE UNCHANGED vars
  BY <1>1 DEF TypeOK, vars, tvars, evars, turns, time
<1>2. ASSUME TimeTyped, TurnsTyped, EventsTyped' PROVE TypeOK'
  <2>1. ready' \in [Priority -> Seq(Task \cup {Driver})] /\ cur' \in Task \cup {Driver, None} /\ nextId' \in Nat
    <3>1. nextId' \in Nat
      BY <1>2 DEF TimeTyped, TypeOK
    <3>. QED  BY <1>2, <3>1 DEF TurnsTyped, Heaps, Worker
  <2>. QED  BY <1>2, <2>1 DEF TypeOK, TimeTyped, EventsTyped
<1>3. CASE EventNext
  BY <1>2, <1>3, EventNextTyped
<1>4. CASE TimeNext /\ ForgetHeard /\ UNCHANGED <<todo, plain>>
  <2>1. TimeTyped /\ TurnsTyped
    BY <1>4, TimeNextTyped
  <2>2. nextId' = nextId \/ nextId' = nextId + 1
    BY <2>1 DEF TimeTyped
  <2>3. /\ listeners \subseteq [type : Type, id : 1 .. nextId' - 1, task : Task]
        /\ todo \in [Task -> SUBSET [id : 1 .. nextId' - 1, task : Task]]
    BY <2>2, IdsGrow
  <2>4. listeners' \subseteq listeners /\ unheard' \in [Task -> SUBSET Task]
    BY <1>4 DEF ForgetHeard, TypeOK
  <2>5. EventsTyped'
    BY <1>4, <2>3, <2>4 DEF EventsTyped, TypeOK
  <2>. QED  BY <1>2, <2>1, <2>5
<1>. QED  BY <1>1, <1>3, <1>4 DEF Next

-------------------------------------------------------------------------------
(* Whose turn it is.                                                           *)

(* What the actions do to the turns: nobody's turn changes, the one whose turn  *)
(* it is leaves, or queues somebody who had none and himself behind, or himself *)
(* alone; or the next is picked.                                               *)
Same ==
  /\ UNCHANGED <<ready, cur, driving>> /\ (queue' # {} => driving')
  /\ \A t \in Task : Parked(t)' => Parked(t)
Left ==
  /\ Leaves /\ cur \in Worker /\ (queue' # {} => driving')
  /\ (driving' <=> driving /\ cur # Driver)
  /\ \A t \in Task : Parked(t)' => Parked(t) \/ t = cur
Queues(x, px, pc) ==
  /\ Yields(x, px, pc) /\ cur \in Worker /\ x # cur /\ Places(ready, x) = {}
  /\ (x = Driver /\ px = IDLE) \/ (x \in Task /\ Parked(x))
  /\ cur = Driver => pc = IDLE
  /\ (driving' <=> driving \/ x = Driver) /\ (queue' # {} => driving')
  /\ \A t \in Task : Parked(t)' => Parked(t) /\ t # x
Alone(pc) ==
  /\ YieldsAlone(pc) /\ cur \in Worker /\ UNCHANGED driving /\ (queue' # {} => driving')
  /\ cur = Driver => pc = IDLE
  /\ \A t \in Task : Parked(t)' => Parked(t)
TurnStep ==
  \/ Same \/ Left \/ Pick
  \/ \E pc \in Priority : Alone(pc) \/ \E x \in Worker, px \in Priority : Queues(x, px, pc)

(* The one whose turn it is is queued.                                         *)
LEMMA AloneTurns ==
  ASSUME TypeOK, OneTurn, DriverFlag, NEW pc \in Priority, Alone(pc)
  PROVE  OneTurn' /\ DriverFlag'
<1>1. /\ ready \in Heaps /\ cur \in Worker /\ None \notin Worker /\ Driver \notin Task
      /\ Task \subseteq Worker /\ Driver \in Worker /\ ready' = Queued(ready, cur, pc) /\ cur' = None
  BY Typed DEF Alone, YieldsAlone, Worker
<1>2. PICK n : /\ Places(ready', cur) = Places(ready, cur) \cup {<<pc, n>>}
               /\ \A v : v # cur => Places(ready', v) = Places(ready, v)
  <2>1. Added(ready, ready', cur, pc)
    BY <1>1 DEF Added
  <2>2. \E n \in Nat :
          /\ Places(ready', cur) = Places(ready, cur) \cup {<<pc, n>>}
          /\ \A v : v # cur => Places(ready', v) = Places(ready, v)
    <3>1. ready \in Heaps /\ cur \in Worker
      BY <1>1
    <3>. QED  BY <2>1, <3>1, AddedFacts
  <2>. QED  BY <2>2
<1>3. Places(ready, cur) = {} /\ cur # None
  BY <1>1 DEF OneTurn
<1>4. OneTurn'
  <2>1. \A w \in Worker : Single(Places(ready', w))
    BY <1>2, <1>3 DEF OneTurn, Single
  <2>2. ASSUME NEW t \in Task, Parked(t)' PROVE Places(ready', t) = {}
    <3>1. Parked(t)
      BY <2>2 DEF Alone
    <3>. QED  BY <1>2, <3>1 DEF OneTurn
  <2>3. \A t \in Task : cur' # t
    BY <1>1
  <2>. QED  BY <1>1, <2>1, <2>2, <2>3 DEF OneTurn
<1>5. DriverFlag'
  <2>1. Places(ready', Driver) # {} <=> cur = Driver \/ Places(ready, Driver) # {}
    BY <1>2
  <2>2. \A z \in Places(ready', Driver) : z[1] = IDLE
    BY <1>2 DEF DriverFlag, Alone
  <2>3. cur' # Driver
    BY <1>1
  <2>. QED  BY <2>1, <2>2, <2>3 DEF DriverFlag, Alone
<1>. QED  BY <1>4, <1>5

(* Somebody who had no turn is queued, and the one whose turn it is.           *)
LEMMA QueuesTurns ==
  ASSUME TypeOK, OneTurn, DriverFlag, NEW pc \in Priority, NEW x \in Worker, NEW px \in Priority,
         Queues(x, px, pc)
  PROVE  OneTurn' /\ DriverFlag'
<1>1. /\ ready \in Heaps /\ cur \in Worker /\ None \notin Worker /\ Driver \notin Task
      /\ Task \subseteq Worker /\ Driver \in Worker /\ cur' = None /\ x # cur
  BY Typed DEF Queues, Yields, Worker
<1>2. PICK h \in Heaps : h = Queued(ready, x, px)
  BY <1>1, QueuedFacts
<1>3. ready' = Queued(h, cur, pc)
  BY <1>2 DEF Queues, Yields
<1>4. PICK m : /\ Places(h, x) = Places(ready, x) \cup {<<px, m>>}
               /\ \A v : v # x => Places(h, v) = Places(ready, v)
  <2>1. Added(ready, h, x, px)
    BY <1>2 DEF Added
  <2>2. \E n \in Nat :
          /\ Places(h, x) = Places(ready, x) \cup {<<px, n>>}
          /\ \A v : v # x => Places(h, v) = Places(ready, v)
    <3>1. ready \in Heaps /\ x \in Worker
      BY <1>1
    <3>. QED  BY <2>1, <3>1, AddedFacts
  <2>. QED  BY <2>2
<1>5. PICK n : /\ Places(ready', cur) = Places(h, cur) \cup {<<pc, n>>}
               /\ \A v : v # cur => Places(ready', v) = Places(h, v)
  <2>1. Added(h, ready', cur, pc)
    BY <1>3 DEF Added
  <2>2. \E n \in Nat :
          /\ Places(ready', cur) = Places(h, cur) \cup {<<pc, n>>}
          /\ \A v : v # cur => Places(ready', v) = Places(h, v)
    <3>1. h \in Heaps /\ cur \in Worker
      BY <1>1
    <3>. QED  BY <2>1, <3>1, AddedFacts
  <2>. QED  BY <2>2
<1>6. Places(ready, cur) = {} /\ cur # None
  BY <1>1 DEF OneTurn
<1>7. /\ Places(ready', cur) = {<<pc, n>>} /\ Places(ready', x) = {<<px, m>>}
      /\ \A v : v # cur /\ v # x => Places(ready', v) = Places(ready, v)
  BY <1>1, <1>4, <1>5, <1>6 DEF Queues
<1>8. OneTurn'
  <2>1. \A w \in Worker : Single(Places(ready', w))
    BY <1>7 DEF OneTurn, Single
  <2>2. ASSUME NEW t \in Task, Parked(t)' PROVE Places(ready', t) = {}
    <3>1. Parked(t) /\ t # x
      BY <2>2 DEF Queues
    <3>2. t # cur
      BY <3>1 DEF OneTurn
    <3>. QED  BY <1>7, <3>1, <3>2 DEF OneTurn
  <2>3. \A t \in Task : cur' # t
    BY <1>1
  <2>. QED  BY <1>1, <2>1, <2>2, <2>3 DEF OneTurn
<1>9. DriverFlag'
  <2>1. Places(ready', Driver) # {} <=> cur = Driver \/ x = Driver \/ Places(ready, Driver) # {}
    BY <1>7
  <2>2. \A z \in Places(ready', Driver) : z[1] = IDLE
    <3>1. (x = Driver => px = IDLE) /\ (cur = Driver => pc = IDLE)
      BY <1>1 DEF Queues
    <3>. QED  BY <1>7, <3>1 DEF DriverFlag
  <2>3. cur' # Driver
    BY <1>1
  <2>. QED  BY <2>1, <2>2, <2>3 DEF DriverFlag, Queues
<1>. QED  BY <1>8, <1>9

(* The next is taken from the highest queue.                                   *)
LEMMA PickTurns ==
  ASSUME TypeOK, OneTurn, DriverFlag, Pick
  PROVE  OneTurn' /\ DriverFlag'
<1>1. /\ ready \in Heaps /\ cur = None /\ None \notin Worker /\ Driver \notin Task
      /\ Task \subseteq Worker /\ Driver \in Worker /\ UNCHANGED <<driving, queue>>
      /\ cancelled \subseteq Task
  BY Typed DEF Pick, Worker, TypeOK, time
<1>2. PICK p \in Priority :
        LET w == Head(ready[p]) IN
        /\ ready[p] # <<>> /\ \A q \in Priority : q > p => ready[q] = <<>>
        /\ ready' = [ready EXCEPT ![p] = Tail(@)] /\ w \in Worker
        /\ cur' = IF w \in cancelled THEN None ELSE w
        /\ phase' = [t \in Task |-> IF t = w /\ phase[t] \in {"woken", "heard"} THEN "run"
                                    ELSE phase[t]]
        /\ ready' \in Heaps
  BY PickTyped
<1>3. PICK w \in Worker : w = Head(ready[p])
  BY <1>2
<1>4. /\ <<p, 1>> \in Places(ready, w)
      /\ \A q \in Priority \ {p} : ready'[q] = ready[q]
      /\ \A v : \A z \in Places(ready', v) : \E y \in Places(ready, v) : y[1] = z[1] /\ y # <<p, 1>>
      /\ \A v : Single(Places(ready, v)) => Single(Places(ready', v))
      /\ \A v : v # w /\ Places(ready, v) # {} => Places(ready', v) # {}
      /\ \A t, u : u # w /\ Behind(ready, t, u) => Behind(ready', t, u)
  <2>1. Popped(ready, ready', p, w) /\ ready[p] # <<>>
    BY <1>2, <1>3 DEF Popped
  <2>. QED  BY <1>1, <2>1, PoppedFacts
<1>5. Places(ready', w) = {}
  <2>1. Single(Places(ready, w))
    BY DEF OneTurn
  <2>. QED  BY <1>4, <2>1 DEF Single
<1>6. \A v : Places(ready, v) = {} => Places(ready', v) = {}
  BY <1>4
<1>7. cur' \in {None, w}
  BY <1>2, <1>3
<1>8. OneTurn'
  <2>1. \A v \in Worker : Single(Places(ready', v))
    BY <1>4 DEF OneTurn
  <2>2. ASSUME NEW t \in Task, Parked(t)' PROVE cur' # t /\ Places(ready', t) = {}
    <3>1. phase'[t] = phase[t] \/ phase'[t] = "run"
      BY <1>2
    <3>2. Parked(t)
      BY <2>2, <3>1 DEF Parked
    <3>3. t # w
      BY <1>4, <3>2 DEF OneTurn
    <3>. QED  BY <1>1, <1>6, <1>7, <3>2, <3>3 DEF OneTurn
  <2>. QED  BY <1>5, <1>7, <2>1, <2>2 DEF OneTurn
<1>9. DriverFlag'
  <2>1. \A z \in Places(ready', Driver) : z[1] = IDLE
    BY <1>4 DEF DriverFlag
  <2>2. CASE w = Driver
    <3>1. cur' = Driver /\ Places(ready', Driver) = {} /\ driving /\ p = IDLE
      <4>1. Driver \notin cancelled
        BY <1>1
      <4>2. <<p, 1>>[1] = IDLE
        BY <1>4, <2>2 DEF DriverFlag
      <4>. QED  BY <1>2, <1>3, <1>4, <1>5, <2>2, <4>1, <4>2 DEF DriverFlag
    <3>2. \A q \in Priority \ {IDLE} : ready'[q] = <<>>
      <4> TAKE q \in Priority \ {IDLE}
      <4>1. q > p /\ q # p
        BY <3>1 DEF Priority, IDLE, NORMAL, HIGH
      <4>. QED  BY <1>2, <1>4, <4>1
    <3>. QED  BY <1>1, <2>1, <3>1, <3>2 DEF DriverFlag
  <2>3. CASE w # Driver
    <3>1. cur' # Driver /\ (Places(ready', Driver) # {} <=> Places(ready, Driver) # {})
      BY <1>1, <1>4, <1>6, <1>7, <2>3
    <3>. QED  BY <1>1, <2>1, <3>1 DEF DriverFlag
  <2>. QED  BY <2>2, <2>3
<1>. QED  BY <1>8, <1>9

(* However the turns change, everybody has one at most.                        *)
LEMMA Turning == ASSUME TypeOK, OneTurn, DriverFlag, TurnStep PROVE OneTurn' /\ DriverFlag'
<1>1. CASE Same
  BY <1>1 DEF Same, OneTurn, DriverFlag
<1>2. CASE Left
  <2>1. /\ cur' = None /\ ready' = ready /\ cur \in Worker /\ None \notin Worker /\ Driver \notin Task
        /\ Task \subseteq Worker /\ Driver \in Worker
    BY <1>2, Typed DEF Left, Leaves, Worker
  <2>2. Places(ready, cur) = {}
    BY <2>1 DEF OneTurn
  <2>3. OneTurn'
    BY <1>2, <2>1, <2>2 DEF Left, OneTurn
  <2>4. DriverFlag'
    BY <1>2, <2>1, <2>2 DEF Left, DriverFlag
  <2>. QED  BY <2>3, <2>4
<1>. QED  BY <1>1, <1>2, AloneTurns, QueuesTurns, PickTurns DEF TurnStep

(* A promise is completed.                                                     *)
LEMMA CompleteTurns ==
  ASSUME TypeOK, OneTurn, DriverFlag, Timed, NEW w \in Worker, cur = w,
         NEW id \in Nat \ {0}, CompletePromise(w, id),
         \A t \in Task : Parked(t)' => Parked(t) /\ t \notin Waiter(id),
         UNCHANGED driving, queue' \subseteq queue
  PROVE  TurnStep
<1>1. PICK pc \in Priority :
        /\ pc <= PrioOf(w)
        /\ \/ YieldsAlone(pc)
           \/ \E t \in Task : Waiter(id) = {t} /\ Yields(t, prio[t], pc)
  BY Completes
<1>2. cur = Driver => pc = IDLE
  BY <1>1 DEF PrioOf, Priority, IDLE, NORMAL, HIGH
<1>3. queue' # {} => driving'
  BY DEF DriverFlag
<1>4. CASE YieldsAlone(pc)
  <2>1. Alone(pc)
    BY <1>2, <1>3, <1>4 DEF Alone
  <2>. QED  BY <2>1 DEF TurnStep
<1>5. ASSUME NEW t \in Task, Waiter(id) = {t}, Yields(t, prio[t], pc) PROVE TurnStep
  <2>1. Parked(t)
    <3>1. t \in Waiter(id)
      BY <1>5
    <3>. QED  BY <3>1 DEF Waiter, Parked
  <2>2. t # cur /\ Places(ready, t) = {} /\ t # Driver /\ t \in Worker /\ prio[t] \in Priority
    BY <2>1, Typed DEF OneTurn, Worker
  <2>3. Queues(t, prio[t], pc)
    <3>1. (driving' <=> driving \/ t = Driver)
      BY <2>2 DEF TypeOK
    <3>2. \A u \in Task : Parked(u)' => Parked(u) /\ u # t
      BY <1>5
    <3>3. (t = Driver /\ prio[t] = IDLE) \/ (t \in Task /\ Parked(t))
      BY <2>1
    <3>. QED  BY <1>2, <1>3, <1>5, <2>2, <3>1, <3>2, <3>3 DEF Queues
  <2>. QED  BY <2>2, <2>3 DEF TurnStep
<1>. QED  BY <1>1, <1>4, <1>5

(* The driver is spawned behind a turn.                                        *)
LEMMA EnsureTurns ==
  ASSUME TypeOK, OneTurn, DriverFlag, NEW t \in Task, cur = t, ~driving, EnsureDriver(t),
         \A u \in Task : Parked(u)' => Parked(u)
  PROVE  TurnStep
<1>1. /\ t \in Worker /\ Driver \in Worker /\ Driver # t /\ prio[t] \in Priority /\ IDLE \in Priority
  BY Typed DEF Worker
<1>2. Yields(Driver, IDLE, prio[t]) /\ driving'
  BY DEF EnsureDriver, Yields
<1>3. Places(ready, Driver) = {}
  BY DEF DriverFlag
<1>4. \A u \in Task : Parked(u)' => Parked(u) /\ u # Driver
  BY Typed
<1>5. Queues(Driver, IDLE, prio[t])
  <2>1. (driving' <=> driving \/ Driver = Driver) /\ (queue' # {} => driving')
    BY <1>2 DEF EnsureDriver
  <2>2. cur \in Worker /\ cur # Driver /\ Driver # cur
    BY <1>1
  <2>3. /\ Yields(Driver, IDLE, prio[t]) /\ cur \in Worker /\ Driver # cur /\ Places(ready, Driver) = {}
        /\ (cur = Driver => prio[t] = IDLE) /\ \A u \in Task : Parked(u)' => Parked(u) /\ u # Driver
    BY <1>2, <1>3, <1>4, <2>2
  <2>. QED  BY <2>1, <2>3 DEF Queues
<1>. QED  BY <1>1, <1>5 DEF TurnStep

(* A task starts to wait for a time.                                           *)
LEMMA WaitTurns ==
  ASSUME TypeOK, OneTurn, DriverFlag, NEW t \in Task, cur = t, NEW x \in Times, WaitForTime(t, x)
  PROVE  TurnStep
<1>1. CASE driving
  <2>1. /\ Leaves /\ driving' = driving /\ cur # Driver /\ cur \in Worker
        /\ \A u \in Task : Parked(u)' => Parked(u) \/ u = cur
    BY <1>1, Typed DEF WaitForTime, Leaves, Worker, Parked, TypeOK
  <2>2. Left
    BY <1>1, <2>1 DEF Left
  <2>. QED  BY <2>2 DEF TurnStep
<1>2. CASE ~driving
  <2>1. EnsureDriver(t) /\ \A u \in Task : Parked(u)' => Parked(u)
    BY <1>2 DEF WaitForTime, Parked, TypeOK
  <2>. QED  BY <1>2, <2>1, EnsureTurns
<1>. QED  BY <1>1, <1>2

(* Somebody fresh is spawned.                                                  *)
LEMMA BornTurns ==
  ASSUME TypeOK, OneTurn, DriverFlag, NEW t \in Task, NEW p \in Priority,
         NEW start \in {"run", "deferred"}, Born(t, p, start), UNCHANGED <<driving, queue>>
  PROVE  TurnStep
<1>1. start \in Phase
  BY DEF Phase
<1>2. /\ Fresh \in Task /\ phase[Fresh] = "unborn" /\ cur = t
      /\ phase' = [phase EXCEPT ![Fresh] = start] /\ Yields(Fresh, p, prio[t])
  BY <1>1, BornTyped
<1>3. Parked(Fresh) /\ Fresh # Driver /\ Fresh \in Worker /\ cur \in Worker /\ cur # Driver /\ prio[t] \in Priority
  BY <1>2, Typed DEF Parked, Worker
<1>4. Places(ready, Fresh) = {} /\ Fresh # cur
  BY <1>2, <1>3 DEF OneTurn
<1>5. \A u \in Task : Parked(u)' => Parked(u) /\ u # Fresh
  BY <1>2 DEF Parked, TypeOK
<1>6. Queues(Fresh, p, prio[t])
  <2>1. (driving' <=> driving \/ Fresh = Driver) /\ (queue' # {} => driving')
    BY <1>3 DEF TypeOK, DriverFlag
  <2>. QED  BY <1>2, <1>3, <1>4, <1>5, <2>1 DEF Queues
<1>. QED  BY <1>3, <1>6 DEF TurnStep

(* Every step changes the turns in one of these ways.                          *)
LEMMA EveryTurn ==
  ASSUME TypeOK, OneTurn, DriverFlag, Timed, Next
  PROVE  TurnStep
<1>1. Driver \in Worker /\ Task \subseteq Worker /\ Driver \notin Task /\ None \notin Worker
  BY Typed DEF Worker
<1>2. ASSUME UNCHANGED <<ready, cur, driving, queue>>, \A t \in Task : Parked(t)' => Parked(t) PROVE TurnStep
  BY <1>2 DEF TurnStep, Same, DriverFlag
<1>3. ASSUME NEW t \in Task, cur = t, Leaves, UNCHANGED <<driving, queue>>,
             \A u \in Task : Parked(u)' => Parked(u) \/ u = t
      PROVE  TurnStep
  <2>1. (driving' <=> driving /\ cur # Driver) /\ (queue' # {} => driving')
    BY <1>1, <1>3 DEF TypeOK, DriverFlag
  <2>. QED  BY <1>1, <1>3, <2>1 DEF TurnStep, Left
<1>4. CASE TimeNext
  <2>1. CASE Pick
    BY <2>1 DEF TurnStep
  <2>2. CASE DeclareDeadlock
    BY <1>2, <2>2 DEF DeclareDeadlock, time, Parked
  <2>3. CASE DriverEnds
    BY <1>1, <2>3 DEF DriverEnds, DriverLeaves, TurnStep, Left, Leaves, Parked
  <2>4. CASE Advance
    <3>1. Earliest \in queue /\ Earliest.id \in Nat \ {0}
      BY <2>4, EarliestFirst DEF Advance, TypeOK
    <3>2. /\ CompletePromise(Driver, Earliest.id) /\ cur = Driver /\ UNCHANGED driving
          /\ queue' \subseteq queue /\ phase' = Woken(Earliest.id)
      BY <2>4 DEF Advance
    <3>3. \A t \in Task : Parked(t)' => Parked(t) /\ t \notin Waiter(Earliest.id)
      BY <3>2 DEF Parked, Woken
    <3>. QED  BY <1>1, <3>1, <3>2, <3>3, CompleteTurns
  <2>5. ASSUME NEW t \in Task, End(t) PROVE TurnStep
    BY <1>3, <2>5 DEF End, Leaves, time, Parked, TypeOK
  <2>6. ASSUME NEW t \in Task, Arm(t) PROVE TurnStep
    <3>1. CASE owes[t] \in fired
      BY <1>2, <2>6, <3>1 DEF Arm, time, Parked, TypeOK
    <3>2. CASE owes[t] \notin fired
      BY <1>3, <2>6, <3>2 DEF Arm, Leaves, time, Parked, TypeOK
    <3>. QED  BY <3>1, <3>2
  <2>7. ASSUME NEW t \in Task, NEW x \in Nat, cur = t, WaitForTime(t, x), x \in Times PROVE TurnStep
    BY <2>7, WaitTurns
  <2>8. ASSUME NEW t \in Task, StartDeferred(t) PROVE TurnStep
    BY <2>7, <2>8, Typed DEF StartDeferred
  <2>9. ASSUME NEW t \in Task, NEW x \in Times, Delay(t, x) PROVE TurnStep
    BY <2>7, <2>9, Typed DEF Delay, Performs
  <2>10. ASSUME NEW t \in Task, NEW x \in Times, WaitUntil(t, x) PROVE TurnStep
    <3>1. clock \in Times /\ x \in Nat /\ clock \in Nat
      BY Typed DEF TypeOK
    <3>2. Max({clock, x}) \in Times /\ Max({clock, x}) \in Nat
      BY <3>1, Later
    <3>. QED  BY <2>7, <2>10, <3>2 DEF WaitUntil, Performs
  <2>11. ASSUME NEW t \in Task, NEW x \in Times, ScheduleAt(t, x) PROVE TurnStep
    BY <2>11, BornTurns, Typed DEF ScheduleAt
  <2>12. ASSUME NEW t \in Task, NEW x \in Times, SetTime(t, x) PROVE TurnStep
    <3>1. \A u \in Task : Parked(u)' => Parked(u)
      BY <2>12 DEF SetTime, Parked
    <3>2. CASE queue # {} /\ ~driving
      BY <2>12, <3>1, <3>2, EnsureTurns DEF SetTime, Performs
    <3>3. CASE ~(queue # {} /\ ~driving)
      BY <1>2, <2>12, <3>1, <3>3 DEF SetTime
    <3>. QED  BY <3>2, <3>3
  <2>13. ASSUME NEW t \in Task, NEW u \in Task, Cancel(t, u) PROVE TurnStep
    BY <1>2, <2>13 DEF Cancel, time, Parked
  <2>14. ASSUME NEW t \in Task, NEW p \in Priorities, Spawn(t, p) PROVE TurnStep
    BY <2>14, BornTurns, Typed DEF Spawn, time
  <2>. QED  BY <1>4, <2>1, <2>2, <2>3, <2>4, <2>5, <2>6, <2>8, <2>9, <2>10, <2>11, <2>12, <2>13, <2>14
            DEF TimeNext
<1>5. ASSUME NEW t \in Task, NEW types \in Interests, WaitForEvent(t, types) PROVE TurnStep
  BY <1>3, <1>5 DEF WaitForEvent, Performs, Leaves, time, Parked, TypeOK
<1>6. ASSUME NEW t \in Task, NEW e \in Event, Publish(t, e) PROVE TurnStep
  BY <1>2, <1>6 DEF Publish, Performs, time, Parked, TypeOK
<1>7. ASSUME NEW t \in Task, Deliver(t) PROVE TurnStep
  <2>1. PICK p \in todo[t] :
          /\ CompletePromise(t, p.id)
          /\ phase' = [Woken(p.id) EXCEPT ![t] = IF todo'[t] = {} THEN "run" ELSE @]
    BY <1>7 DEF Deliver
  <2>2. p.id \in Nat \ {0}
    BY DEF TypeOK
  <2>3. cur = t /\ t \in Worker /\ UNCHANGED <<driving, queue>> /\ phase[t] = "publishing"
    BY <1>1, <1>7 DEF Deliver, time
  <2>4. \A u \in Task : Parked(u)' => Parked(u) /\ u \notin Waiter(p.id)
    BY <2>1, <2>3 DEF Parked, Woken, Waiter
  <2>. QED  BY <2>1, <2>2, <2>3, <2>4, CompleteTurns
<1>. QED  BY <1>4, <1>5, <1>6, <1>7 DEF Next, EventNext

-------------------------------------------------------------------------------
(* What is due.                                                                *)

(* Nobody acts in a run declared deadlocked.                                   *)
LEMMA NotOver ==
  ASSUME TypeOK, Timed, NEW w \in Worker, cur = w
  PROVE  over # "deadlock"
BY Typed DEF Timed

Waits(t) == phase[t] \in {"arming", "sleeping"}

(* Who waits for a time, and what is due, are left alone.                      *)
LEMMA KeepsTimed ==
  ASSUME TypeOK, Timed, over' # "deadlock", UNCHANGED <<queue, fired>>,
         UNCHANGED owes \/ \E t \in Task : ~Waits(t) /\ owes' = [owes EXCEPT ![t] = nextId],
         \A t \in Task : Waits(t)' => Waits(t),
         \A t \in Task : Waits(t) => due'[t] = due[t] /\
           (phase'[t] = phase[t] \/ (phase'[t] = "sleeping" /\ owes[t] \notin fired))
  PROVE  Timed'
<1>1. /\ owes \in [Task -> 0..nextId-1] /\ nextId \in Nat
  BY DEF TypeOK
<1>2. \A t \in Task : Waits(t) => owes'[t] = owes[t]
  BY <1>1
<1>3. \A t, u \in Task : owes'[t] = owes'[u] /\ owes'[t] # 0 => t = u
  <2>1. CASE UNCHANGED owes
    BY <2>1 DEF Timed
  <2>2. ASSUME NEW t \in Task, owes' = [owes EXCEPT ![t] = nextId]
        PROVE  \A u, v \in Task : owes'[u] = owes'[v] /\ owes'[u] # 0 => u = v
    <3>1. /\ owes'[t] = nextId /\ \A u \in Task \ {t} : owes'[u] = owes[u] /\ owes[u] # nextId
      BY <1>1, <2>2
    <3>. QED  BY <3>1 DEF Timed
  <2>. QED  BY <2>1, <2>2
<1>4. ASSUME NEW e \in queue
      PROVE  e = Entry(e.task)' /\ Waits(e.task)' /\ e.id \notin fired
  <2>1. e = Entry(e.task) /\ Waits(e.task) /\ e.id \notin fired /\ e.task \in Task
    BY DEF Timed, TypeOK, Waits
  <2>2. owes'[e.task] = owes[e.task] /\ due'[e.task] = due[e.task]
    BY <1>2, <2>1
  <2>3. Waits(e.task)'
    BY <2>1 DEF Waits
  <2>. QED  BY <2>1, <2>2, <2>3 DEF Entry
<1>5. ASSUME NEW t \in Task, phase'[t] = "sleeping" \/ (phase'[t] = "arming" /\ owes'[t] \notin fired)
      PROVE  Entry(t)' \in queue
  <2>1. Waits(t)
    BY <1>5 DEF Waits
  <2>2. owes'[t] = owes[t] /\ due'[t] = due[t]
    BY <1>2, <2>1
  <2>3. phase[t] = "sleeping" \/ (phase[t] = "arming" /\ owes[t] \notin fired)
    BY <1>5, <2>1, <2>2 DEF Waits
  <2>4. Entry(t) \in queue
    BY <2>3 DEF Timed
  <2>. QED  BY <2>2, <2>4 DEF Entry
<1>. QED  BY <1>3, <1>4, <1>5 DEF Timed, Waits

(* A task starts to wait for a time.                                           *)
LEMMA WaitTimed ==
  ASSUME TypeOK, Timed, NEW t \in Task, cur = t, phase[t] \in {"run", "deferred"},
         NEW x \in Times, WaitForTime(t, x)
  PROVE  Timed'
<1>1. /\ owes \in [Task -> 0..nextId-1] /\ nextId \in Nat \ {0} /\ over' # "deadlock" /\ nextId \notin fired
      /\ fired' = fired /\ queue \subseteq [time : Times, id : 1..nextId-1, task : Task]
  <2>1. nextId \in Nat /\ owes[t] \in 0..nextId-1 /\ fired \subseteq 1..nextId-1
    BY DEF TypeOK
  <2>2. over # "deadlock"
    BY NotOver DEF Worker
  <2>. QED  BY <2>1, <2>2 DEF TypeOK, WaitForTime
<1>2. /\ queue' = queue \cup {[time |-> x, id |-> nextId, task |-> t]}
      /\ owes' = [owes EXCEPT ![t] = nextId] /\ due' = [due EXCEPT ![t] = x]
      /\ phase' = [phase EXCEPT ![t] = "sleeping"] \/ phase' = [phase EXCEPT ![t] = "arming"]
  BY DEF WaitForTime
<1>3. /\ owes'[t] = nextId /\ due'[t] = x /\ phase'[t] \in {"arming", "sleeping"}
      /\ \A u \in Task \ {t} : owes'[u] = owes[u] /\ due'[u] = due[u] /\ phase'[u] = phase[u]
                               /\ owes[u] # nextId
  BY <1>1, <1>2 DEF TypeOK
<1>4. Entry(t)' = [time |-> x, id |-> nextId, task |-> t]
  BY <1>3 DEF Entry
<1>5. \A u \in Task \ {t} : Entry(u)' = Entry(u)
  BY <1>3 DEF Entry
<1>6. \A e \in queue : e.task \in Task \ {t}
  BY <1>1 DEF Timed
<1>7. \A u, v \in Task : owes'[u] = owes'[v] /\ owes'[u] # 0 => u = v
  BY <1>3 DEF Timed
<1>8. ASSUME NEW e \in queue'
      PROVE  e = Entry(e.task)' /\ phase'[e.task] \in {"arming", "sleeping"} /\ e.id \notin fired'
  <2>1. CASE e \in queue
    BY <1>1, <1>3, <1>5, <1>6, <2>1 DEF Timed
  <2>2. CASE e \notin queue
    <3>1. e = [time |-> x, id |-> nextId, task |-> t]
      BY <1>2, <1>8, <2>2
    <3>2. e.task = t /\ e.id = nextId
      BY <3>1
    <3>. QED  BY <1>1, <1>3, <1>4, <3>1, <3>2
  <2>. QED  BY <2>1, <2>2
<1>9. ASSUME NEW u \in Task, phase'[u] = "sleeping" \/ (phase'[u] = "arming" /\ owes'[u] \notin fired')
      PROVE  Entry(u)' \in queue'
  <2>1. CASE u = t
    BY <1>2, <1>4, <2>1
  <2>2. CASE u # t
    <3>1. Entry(u) \in queue
      BY <1>1, <1>3, <1>9, <2>2 DEF Timed
    <3>. QED  BY <1>2, <1>5, <2>2, <3>1
  <2>. QED  BY <2>1, <2>2
<1>. QED  BY <1>1, <1>7, <1>8, <1>9 DEF Timed

(* A promise is completed: the entry of its task is due, or it is no time's.   *)
LEMMA CompleteTimed ==
  ASSUME TypeOK, Timed, NEW w \in Worker, cur = w, NEW id \in Nat \ {0},
         fired' = fired \cup {id}, UNCHANGED <<owes, due, over>>,
         queue' = {e \in queue : e.id # id},
         \A t \in Task : t \in Waiter(id) => ~Waits(t)',
         \A t \in Task : t \notin Waiter(id) => (Waits(t)' <=> Waits(t)),
         \A t \in Task : t \notin Waiter(id) /\ Waits(t) => phase'[t] = phase[t]
  PROVE  Timed'
<1>1. over' # "deadlock"
  BY NotOver
<1>2. \A t \in Task : Entry(t)' = Entry(t)
  BY DEF Entry
<1>3. ASSUME NEW e \in queue'
      PROVE  e = Entry(e.task)' /\ phase'[e.task] \in {"arming", "sleeping"} /\ e.id \notin fired'
  <2>1. e \in queue /\ e.id # id /\ e.task \in Task
    BY <1>3 DEF TypeOK
  <2>2. e = Entry(e.task) /\ Waits(e.task) /\ e.id \notin fired
    BY <2>1 DEF Timed, Waits
  <2>3. owes[e.task] = e.id
    BY <2>2 DEF Entry
  <2>4. e.task \notin Waiter(id)
    BY <2>1, <2>3 DEF Waiter
  <2>. QED  BY <1>2, <2>1, <2>2, <2>4 DEF Waits
<1>4. ASSUME NEW t \in Task, phase'[t] = "sleeping" \/ (phase'[t] = "arming" /\ owes'[t] \notin fired')
      PROVE  Entry(t)' \in queue'
  <2>1. Waits(t)' /\ t \notin Waiter(id) /\ Waits(t) /\ phase'[t] = phase[t]
    BY <1>4 DEF Waits
  <2>2. Entry(t) \in queue
    BY <1>4, <2>1 DEF Timed
  <2>3. Entry(t).id # id
    <3>1. Entry(t).id = owes[t]
      BY DEF Entry
    <3>2. owes[t] # id
      BY <1>4, <2>1 DEF Waiter
    <3>. QED  BY <3>1, <3>2
  <2>. QED  BY <1>2, <2>2, <2>3
<1>. QED  BY <1>1, <1>3, <1>4 DEF Timed

(* The driver completes the promise of an entry, and takes no other off.       *)
LEMMA AdvanceFacts ==
  ASSUME TypeOK, Timed, Advance
  PROVE  /\ Earliest \in queue /\ Earliest.id \in Nat \ {0} /\ Earliest.task \in Task
         /\ Earliest = Entry(Earliest.task)
         /\ queue' = {e \in queue : e.id # Earliest.id}
         /\ \A t \in Waiter(Earliest.id) : t = Earliest.task /\ phase[t] = "sleeping"
         /\ cur = Driver /\ Driver \in Worker
<1>1. /\ Earliest \in queue /\ queue' = queue \ {Earliest} /\ cur = Driver
  BY EarliestFirst DEF Advance
<1>2. \A e \in queue : e.id \in Nat \ {0} /\ e.task \in Task /\ e = Entry(e.task)
                       /\ phase[e.task] \in {"arming", "sleeping"} /\ owes[e.task] = e.id
  <2> TAKE e \in queue
  <2>1. e = Entry(e.task) /\ phase[e.task] \in {"arming", "sleeping"}
    BY DEF Timed
  <2>2. owes[e.task] = e.id
    BY <2>1 DEF Entry
  <2>. QED  BY <2>1, <2>2 DEF TypeOK
<1>3. \A t \in Task : owes[t] = Earliest.id => t = Earliest.task
  BY <1>1, <1>2 DEF Timed
<1>4. \A e \in queue : e.id = Earliest.id => e = Earliest
  BY <1>1, <1>2, <1>3
<1>5. queue' = {e \in queue : e.id # Earliest.id}
  BY <1>1, <1>4
<1>6. \A t \in Waiter(Earliest.id) : t = Earliest.task /\ phase[t] = "sleeping"
  BY <1>1, <1>2, <1>3 DEF Waiter
<1>. QED  BY <1>1, <1>2, <1>5, <1>6 DEF Worker

(* Deliver, with the promise it completes.                                     *)
Delivers(t, p) ==
  /\ CompletePromise(t, p.id)
  /\ todo' = [todo EXCEPT ![t] = @ \ {p}]
  /\ unheard' = [unheard EXCEPT ![t] = @ \cup Waiter(p.id)]
  /\ phase' = [Woken(p.id) EXCEPT ![t] = IF todo'[t] = {} THEN "run" ELSE @]

(* What Deliver does to the publisher, to whom it wakes and to the others.     *)
LEMMA DeliverFacts ==
  ASSUME TypeOK, Timed, Listed, NEW t \in Task, Deliver(t)
  PROVE  /\ cur = t /\ phase[t] = "publishing" /\ t \in Worker
         /\ \E p \in todo[t] :
              /\ Delivers(t, p) /\ Waiter(p.id) = {p.task} /\ p.id \in Nat \ {0} /\ p.task \in Task
              /\ phase[p.task] = "listening" /\ p.task # t /\ phase'[p.task] = "heard"
              /\ phase'[t] = IF todo'[t] = {} THEN "run" ELSE "publishing"
              /\ \A u \in Task \ {t, p.task} : phase'[u] = phase[u]
<1>1. cur = t /\ phase[t] = "publishing" /\ t \in Worker
  BY DEF Deliver, Worker
<1>2. PICK p \in todo[t] : Delivers(t, p)
  BY DEF Deliver, Delivers
<1>3. p.id \in Nat \ {0} /\ p.task \in Task /\ owes[p.task] = p.id /\ phase[p.task] = "listening"
  BY DEF TypeOK, Listed, Promised
<1>4. Waiter(p.id) = {p.task}
  <2>1. \A u \in Task : owes[u] = p.id => u = p.task
    BY <1>3 DEF Timed
  <2>. QED  BY <1>3, <2>1 DEF Waiter
<1>5. p.task # t
  BY <1>1, <1>3
<1>6. Woken(p.id) = [u \in Task |-> IF u = p.task THEN "heard" ELSE phase[u]]
  BY <1>3, <1>4 DEF Woken
<1>7. phase' = [[u \in Task |-> IF u = p.task THEN "heard" ELSE phase[u]]
                  EXCEPT ![t] = IF todo'[t] = {} THEN "run" ELSE @]
  BY <1>2, <1>6 DEF Delivers
<1>8. /\ phase'[p.task] = "heard" /\ phase'[t] = IF todo'[t] = {} THEN "run" ELSE "publishing"
      /\ \A u \in Task \ {t, p.task} : phase'[u] = phase[u]
  BY <1>1, <1>3, <1>5, <1>7
<1>. QED  BY <1>1, <1>2, <1>3, <1>4, <1>5, <1>8

(* Every step keeps the queue that of those who wait.                          *)
LEMMA TimedNext ==
  ASSUME TypeOK, OneTurn, DriverFlag, Timed, Listed, Next
  PROVE  Timed'
<1>1. Task \subseteq Worker /\ Driver \in Worker
  BY DEF Worker
<1>2. \A t \in Task : cur = t => over # "deadlock"
  BY <1>1, NotOver
<1>3. phase \in [Task -> Phase] /\ due \in [Task -> Times]
  BY DEF TypeOK
<1>4. CASE TimeNext
  <2>1. CASE Pick
    <3>1. \A t \in Task : phase'[t] = phase[t] \/ (phase[t] \in {"woken", "heard"} /\ phase'[t] = "run")
      BY <2>1 DEF Pick
    <3>2. \A t \in Task : (Waits(t)' => Waits(t)) /\ (Waits(t) => phase'[t] = phase[t])
      BY <3>1 DEF Waits
    <3>. QED  BY <2>1, <3>2, KeepsTimed DEF Pick, time
  <2>2. CASE DeclareDeadlock
    <3>1. Places(ready, Driver) = {}
      <4>1. \A z : z \notin Places(ready, Driver)
        BY <2>2, PlaceFacts DEF DeclareDeadlock
      <4>. QED  BY <4>1
    <3>2. queue = {}
      BY <1>1, <2>2, <3>1, Typed DEF DeclareDeadlock, DriverFlag
    <3>3. \A t \in Task : phase[t] # "sleeping"
      BY <3>2 DEF Timed
    <3>. QED  BY <2>2, <3>3 DEF DeclareDeadlock, Timed, Entry, time
  <2>3. CASE DriverEnds
    BY <1>1, <2>3, NotOver, KeepsTimed DEF DriverEnds, DriverLeaves, Waits
  <2>4. CASE Advance
    <3>1. /\ Earliest.id \in Nat \ {0} /\ queue' = {e \in queue : e.id # Earliest.id}
          /\ \A t \in Waiter(Earliest.id) : phase[t] = "sleeping"
          /\ cur = Driver /\ Driver \in Worker
      BY <2>4, AdvanceFacts
    <3>2. PICK id : id = Earliest.id
      OBVIOUS
    <3>3. \A t \in Task : phase'[t] = IF t \in Waiter(id) THEN "woken" ELSE phase[t]
      BY <2>4, <3>1, <3>2 DEF Advance, Woken
    <3>4. fired' = fired \cup {id} /\ UNCHANGED <<owes, due, over>>
      BY <2>4, <3>2 DEF Advance, CompletePromise
    <3>5. /\ \A t \in Task : t \in Waiter(id) => ~Waits(t)'
          /\ \A t \in Task : t \notin Waiter(id) => (Waits(t)' <=> Waits(t)) /\ phase'[t] = phase[t]
      BY <3>3 DEF Waits
    <3>. QED  BY <3>1, <3>2, <3>4, <3>5, CompleteTimed
  <2>5. ASSUME NEW t \in Task, End(t) PROVE Timed'
    BY <1>2, <1>3, <2>5, KeepsTimed DEF End, time, Waits
  <2>6. ASSUME NEW t \in Task, Arm(t) PROVE Timed'
    <3>1. CASE owes[t] \in fired
      <4>1. /\ phase' = [phase EXCEPT ![t] = "run"] /\ UNCHANGED <<queue, fired, owes, due, over, cur>> /\ cur = t
        BY <2>6, <3>1 DEF Arm, time
      <4>2. \A e \in queue : e.task # t
        <5>1. \A e \in queue : e = Entry(e.task) /\ e.id \notin fired
          BY DEF Timed
        <5>. QED  BY <3>1, <5>1 DEF Entry
      <4>3. \A u \in Task : Entry(u)' = Entry(u)
        BY <4>1 DEF Entry
      <4>4. \A u \in Task \ {t} : phase'[u] = phase[u]
        BY <1>3, <4>1
      <4>5. phase'[t] = "run" /\ over' # "deadlock"
        BY <1>2, <1>3, <4>1
      <4>. QED  BY <4>1, <4>2, <4>3, <4>4, <4>5 DEF Timed, TypeOK
    <3>2. CASE owes[t] \notin fired
      BY <1>2, <1>3, <2>6, <3>2, KeepsTimed DEF Arm, time, Waits
    <3>. QED  BY <3>1, <3>2
  <2>7. ASSUME NEW t \in Task, NEW x \in Nat, x \in Times, cur = t, phase[t] \in {"run", "deferred"},
               WaitForTime(t, x)
        PROVE  Timed'
    BY <2>7, WaitTimed
  <2>8. ASSUME NEW t \in Task, StartDeferred(t) PROVE Timed'
    BY <2>7, <2>8, Typed DEF StartDeferred
  <2>9. ASSUME NEW t \in Task, NEW x \in Times, Delay(t, x) PROVE Timed'
    BY <2>7, <2>9, Typed DEF Delay, Performs
  <2>10. ASSUME NEW t \in Task, NEW x \in Times, WaitUntil(t, x) PROVE Timed'
    <3>1. clock \in Times /\ x \in Nat /\ clock \in Nat
      BY Typed DEF TypeOK
    <3>2. Max({clock, x}) \in Times /\ Max({clock, x}) \in Nat
      BY <3>1, Later
    <3>. QED  BY <2>7, <2>10, <3>2 DEF WaitUntil, Performs
  <2>11. ASSUME NEW t \in Task, NEW p \in Priority, NEW start \in {"run", "deferred"}, Born(t, p, start),
               UNCHANGED <<owes, over, queue, fired>>, \A u \in Task : u # Fresh => due'[u] = due[u]
        PROVE  Timed'
    <3>1. /\ Fresh \in Task /\ phase[Fresh] = "unborn" /\ cur = t /\ phase' = [phase EXCEPT ![Fresh] = start]
      BY <2>11, BornTyped DEF Phase
    <3>. QED  BY <1>2, <1>3, <2>11, <3>1, KeepsTimed DEF Waits
  <2>12. ASSUME NEW t \in Task, NEW x \in Times, ScheduleAt(t, x) PROVE Timed'
    <3>1. NORMAL \in Priority /\ Born(t, NORMAL, "deferred") /\ UNCHANGED <<owes, over, queue, fired>>
      BY <2>12, Typed DEF ScheduleAt
    <3>2. \A u \in Task : u # Fresh => due'[u] = due[u]
      BY <1>3, <2>12 DEF ScheduleAt
    <3>. QED  BY <2>11, <3>1, <3>2
  <2>13. ASSUME NEW t \in Task, NEW x \in Times, SetTime(t, x) PROVE Timed'
    BY <1>2, <2>13, KeepsTimed DEF SetTime, Performs, Waits
  <2>14. ASSUME NEW t \in Task, NEW u \in Task, Cancel(t, u) PROVE Timed'
    BY <1>2, <2>14, KeepsTimed DEF Cancel, Performs, Waits, time
  <2>15. ASSUME NEW t \in Task, NEW p \in Priorities, Spawn(t, p) PROVE Timed'
    BY <2>11, <2>15, Typed DEF Spawn, time
  <2>. QED  BY <1>4, <2>1, <2>2, <2>3, <2>4, <2>5, <2>6, <2>8, <2>9, <2>10, <2>12, <2>13, <2>14, <2>15
            DEF TimeNext
<1>5. ASSUME NEW t \in Task, NEW types \in Interests, WaitForEvent(t, types) PROVE Timed'
  <2>1. /\ cur = t /\ phase[t] = "run" /\ owes' = [owes EXCEPT ![t] = nextId]
        /\ phase' = [phase EXCEPT ![t] = "listening"] /\ UNCHANGED <<over, queue, fired, due>>
    BY <1>5 DEF WaitForEvent, Performs, time
  <2>. QED  BY <1>2, <1>3, <2>1, KeepsTimed DEF Waits
<1>6. ASSUME NEW t \in Task, NEW e \in Event, Publish(t, e) PROVE Timed'
  <2>1. /\ cur = t /\ phase[t] = "run" /\ UNCHANGED <<over, queue, fired, due, owes>>
        /\ \E a \in {"run", "publishing"} : phase' = [phase EXCEPT ![t] = a]
    BY <1>6 DEF Publish, Performs, time
  <2>. QED  BY <1>2, <1>3, <2>1, KeepsTimed DEF Waits
<1>7. ASSUME NEW t \in Task, Deliver(t) PROVE Timed'
  <2>1. cur = t /\ phase[t] = "publishing" /\ t \in Worker
    BY <1>7, DeliverFacts
  <2>2. PICK p \in todo[t] :
          /\ Delivers(t, p) /\ Waiter(p.id) = {p.task} /\ p.id \in Nat \ {0} /\ p.task \in Task
          /\ phase[p.task] = "listening" /\ p.task # t /\ phase'[p.task] = "heard"
          /\ phase'[t] = IF todo'[t] = {} THEN "run" ELSE "publishing"
          /\ \A u \in Task \ {t, p.task} : phase'[u] = phase[u]
    BY <1>7, DeliverFacts
  <2>3. fired' = fired \cup {p.id} /\ UNCHANGED <<owes, due, over, queue>>
    BY <1>7, <2>2 DEF Deliver, Delivers, CompletePromise, time
  <2>4. \A e \in queue : e.id # p.id
    <3>1. \A e \in queue : e.task \in Task /\ phase[e.task] \in {"arming", "sleeping"} /\ owes[e.task] = e.id
      BY DEF Timed, TypeOK, Entry
    <3>2. \A u \in Task : owes[u] = p.id => u = p.task
      BY <2>2 DEF Timed, Listed, Promised
    <3>. QED  BY <2>2, <3>1, <3>2
  <2>5. queue' = {e \in queue : e.id # p.id}
    BY <2>3, <2>4
  <2>6. /\ \A u \in Task : u \in Waiter(p.id) => ~Waits(u)'
        /\ \A u \in Task : u \notin Waiter(p.id) => (Waits(u)' <=> Waits(u))
        /\ \A u \in Task : u \notin Waiter(p.id) /\ Waits(u) => phase'[u] = phase[u]
    BY <2>1, <2>2 DEF Waits
  <2>7. PICK id \in Nat \ {0} : id = p.id
    BY <2>2
  <2>. QED  BY <2>1, <2>3, <2>5, <2>6, <2>7, CompleteTimed
<1>. QED  BY <1>4, <1>5, <1>6, <1>7 DEF Next, EventNext

-------------------------------------------------------------------------------
(* Who listens.                                                                *)

(* Listeners, and the promises of publishers, are left alone.                  *)
LEMMA KeepsListed ==
  ASSUME TypeOK, Listed, UNCHANGED <<listeners, todo>>,
         \A t \in Task : phase[t] \in {"listening", "publishing"} \/ phase'[t] \in {"listening", "publishing"} =>
           phase'[t] = phase[t],
         \A t \in Task : phase[t] = "listening" => owes'[t] = owes[t] /\ (owes[t] \in fired' => owes[t] \in fired)
  PROVE  Listed'
<1>1. ASSUME NEW p, p.task \in Task, Promised(p) PROVE Promised(p)'
  BY <1>1 DEF Promised
<1>2. \A l \in listeners : l.task \in Task
  BY DEF TypeOK
<1>3. \A t \in Task : \A p \in todo[t] : p.task \in Task
  BY DEF TypeOK
<1>4. \A l \in listeners : Promised(l)'
  BY <1>1, <1>2 DEF Listed
<1>5. \A t \in Task : \A p \in todo[t] : Promised(p)'
  BY <1>1, <1>3 DEF Listed
<1>6. \A t \in Task : phase'[t] = "publishing" <=> todo[t] # {}
  BY DEF Listed
<1>7. ASSUME NEW t \in Task, phase'[t] = "listening"
      PROVE  \/ \E l \in listeners : l.id = owes'[t]
             \/ \E u \in Task : [id |-> owes'[t], task |-> t] \in todo[u]
  BY <1>7 DEF Listed
<1>. QED  BY <1>4, <1>5, <1>6, <1>7 DEF Listed

(* A task starts to listen.                                                    *)
LEMMA WaitListed ==
  ASSUME TypeOK, Timed, Listed, NEW t \in Task, NEW types \in Interests, WaitForEvent(t, types)
  PROVE  Listed'
<1>1. /\ cur = t /\ phase[t] = "run" /\ fired' = fired /\ todo' = todo
      /\ owes' = [owes EXCEPT ![t] = nextId] /\ phase' = [phase EXCEPT ![t] = "listening"]
      /\ listeners' = listeners \cup [type : types, id : {nextId}, task : {t}]
  BY DEF WaitForEvent, Performs
<1>2. /\ owes \in [Task -> 0..nextId-1] /\ phase \in [Task -> Phase] /\ nextId \in Nat
      /\ listeners \subseteq [type : Type, id : 1..nextId-1, task : Task]
      /\ todo \in [Task -> SUBSET [id : 1 .. nextId - 1, task : Task]] /\ nextId \notin fired
  BY DEF TypeOK
<1>3. /\ owes'[t] = nextId /\ phase'[t] = "listening"
      /\ \A u \in Task \ {t} : owes'[u] = owes[u] /\ phase'[u] = phase[u]
  BY <1>1, <1>2
<1>4. ASSUME NEW p, p.task \in Task, Promised(p) PROVE Promised(p)'
  <2>1. p.task # t
    BY <1>1, <1>4 DEF Promised
  <2>. QED  BY <1>1, <1>3, <1>4, <2>1 DEF Promised
<1>5. \A l \in listeners' : l \in listeners \/ (l.id = nextId /\ l.task = t)
  BY <1>1
<1>6. \A l \in listeners : l.task \in Task
  BY <1>2
<1>7. \A u \in Task : \A p \in todo[u] : p.task \in Task /\ p.id # nextId
  BY <1>2
<1>8. \A l \in listeners' : Promised(l)'
  <2>1. ASSUME NEW l, l.id = nextId, l.task = t PROVE Promised(l)'
    BY <1>1, <1>2, <1>3, <2>1 DEF Promised
  <2>. QED  BY <1>4, <1>5, <1>6, <2>1 DEF Listed
<1>9. \A u \in Task : \A p \in todo[u] :
        /\ Promised(p)' /\ \A l \in listeners' : l.id # p.id
        /\ \A v \in Task \ {u} : p \notin todo[v]
  BY <1>4, <1>5, <1>7 DEF Listed
<1>10. \A u \in Task : phase'[u] = "publishing" <=> todo[u] # {}
  <2>1. todo[t] = {}
    BY <1>1 DEF Listed
  <2>. QED  BY <1>3, <2>1 DEF Listed
<1>11. ASSUME NEW u \in Task, phase'[u] = "listening"
       PROVE  \/ \E l \in listeners' : l.id = owes'[u]
              \/ \E v \in Task : [id |-> owes'[u], task |-> u] \in todo[v]
  <2>1. CASE u = t
    <3>1. PICK c : c \in types
      BY EventAssumption
    <3>2. [type |-> c, id |-> nextId, task |-> t] \in listeners'
      BY <1>1, <3>1
    <3>3. [type |-> c, id |-> nextId, task |-> t].id = owes'[u]
      BY <1>3, <2>1
    <3>. QED  BY <3>2, <3>3
  <2>2. CASE u # t
    <3>1. \/ \E l \in listeners : l.id = owes[u]
          \/ \E v \in Task : [id |-> owes[u], task |-> u] \in todo[v]
      BY <1>3, <1>11, <2>2 DEF Listed
    <3>. QED  BY <1>1, <1>3, <2>2, <3>1
  <2>. QED  BY <2>1, <2>2
<1>. QED  BY <1>1, <1>8, <1>9, <1>10, <1>11 DEF Listed

(* An event is published: its promises go from the lists to the publisher.     *)
LEMMA PublishListed ==
  ASSUME TypeOK, Timed, Listed, NEW t \in Task, NEW e \in Event, Publish(t, e)
  PROVE  Listed'
<1>1. PICK matched : matched = Matching(e)
  OBVIOUS
<1>2. /\ phase[t] = "run" /\ UNCHANGED <<owes, fired>>
      /\ listeners' = Without(matched) /\ todo' = [todo EXCEPT ![t] = matched]
      /\ phase' = [phase EXCEPT ![t] = IF matched = {} THEN "run" ELSE "publishing"]
  BY <1>1 DEF Publish, Performs
<1>3. /\ phase \in [Task -> Phase] /\ nextId \in Nat
      /\ listeners \subseteq [type : Type, id : 1..nextId-1, task : Task]
      /\ todo \in [Task -> SUBSET [id : 1 .. nextId - 1, task : Task]]
  BY DEF TypeOK
<1>4. /\ todo'[t] = matched /\ phase'[t] = IF matched = {} THEN "run" ELSE "publishing"
      /\ \A u \in Task \ {t} : todo'[u] = todo[u] /\ phase'[u] = phase[u]
      /\ todo[t] = {}
  <2>1. todo[t] = {}
    BY <1>2 DEF Listed
  <2>. QED  BY <1>2, <1>3, <2>1
<1>5. ASSUME NEW p, p.task \in Task, Promised(p) PROVE Promised(p)' /\ p.task # t
  <2>1. p.task # t
    BY <1>2, <1>5 DEF Promised
  <2>. QED  BY <1>2, <1>4, <1>5, <2>1 DEF Promised
<1>6. \A l \in listeners' : l \in listeners /\ \A p \in matched : l.id # p.id
  BY <1>2 DEF Without
<1>7. \A l \in listeners : l.task \in Task /\ Promised(l)
  BY <1>3 DEF Listed
<1>8. \A p \in matched : \E l \in listeners : p = [id |-> l.id, task |-> l.task]
  BY <1>1 DEF Matching
<1>9. \A p \in matched : p.task \in Task /\ Promised(p) /\ \E l \in listeners : l.id = p.id /\ l.task = p.task
  BY <1>7, <1>8 DEF Promised
<1>10. \A l \in listeners' : Promised(l)'
  BY <1>5, <1>6, <1>7
<1>11. ASSUME NEW u \in Task, NEW p \in todo'[u]
       PROVE  /\ Promised(p)' /\ \A l \in listeners' : l.id # p.id
              /\ \A v \in Task \ {u} : p \notin todo'[v]
  <2>1. CASE u = t
    <3>1. p \in matched
      BY <1>4, <1>11, <2>1
    <3>2. \A v \in Task \ {t} : p \notin todo[v]
      BY <1>9, <3>1 DEF Listed
    <3>. QED  BY <1>4, <1>5, <1>6, <1>9, <2>1, <3>1, <3>2
  <2>2. CASE u # t
    <3>1. p \in todo[u] /\ Promised(p) /\ p.task \in Task
      BY <1>3, <1>4, <1>11, <2>2 DEF Listed
    <3>2. \A l \in listeners : l.id # p.id
      BY <3>1 DEF Listed
    <3>3. p \notin matched
      BY <1>9, <3>2
    <3>4. \A v \in Task \ {u} : p \notin todo[v]
      BY <3>1 DEF Listed
    <3>. QED  BY <1>4, <1>5, <1>6, <3>1, <3>2, <3>3, <3>4
  <2>. QED  BY <2>1, <2>2
<1>12. \A u \in Task : phase'[u] = "publishing" <=> todo'[u] # {}
  BY <1>4 DEF Listed
<1>13. ASSUME NEW u \in Task, phase'[u] = "listening"
       PROVE  \/ \E l \in listeners' : l.id = owes[u]
              \/ \E v \in Task : [id |-> owes[u], task |-> u] \in todo'[v]
  <2>1. u # t /\ phase[u] = "listening"
    BY <1>4, <1>13
  <2>2. CASE \E l \in listeners : l.id = owes[u]
    <3>1. PICK l \in listeners : l.id = owes[u]
      BY <2>2
    <3>2. CASE l \in listeners'
      BY <3>1, <3>2
    <3>3. CASE l \notin listeners'
      <4>1. PICK p \in matched : p.id = l.id
        BY <1>2, <3>3 DEF Without
      <4>2. PICK m \in listeners : p = [id |-> m.id, task |-> m.task]
        BY <1>8
      <4>3. owes[m.task] = owes[u] /\ m.task \in Task /\ owes[u] # 0
        BY <1>3, <1>7, <3>1, <4>1, <4>2 DEF Promised
      <4>4. m.task = u
        BY <4>3 DEF Timed
      <4>5. [id |-> owes[u], task |-> u] \in todo'[t]
        BY <1>4, <3>1, <4>1, <4>2, <4>4
      <4>. QED  BY <4>5
    <3>. QED  BY <3>2, <3>3
  <2>3. CASE \E v \in Task : [id |-> owes[u], task |-> u] \in todo[v]
    BY <1>4, <2>3
  <2>. QED  BY <2>1, <2>2, <2>3 DEF Listed
<1>. QED  BY <1>2, <1>10, <1>11, <1>12, <1>13 DEF Listed

(* A publisher completes one of its promises.                                  *)
LEMMA DeliverListed ==
  ASSUME TypeOK, Timed, Listed, NEW t \in Task, Deliver(t)
  PROVE  Listed'
<1>1. cur = t /\ phase[t] = "publishing" /\ t \in Worker
  BY DeliverFacts
<1>2. PICK p \in todo[t] :
        /\ Delivers(t, p) /\ Waiter(p.id) = {p.task} /\ p.id \in Nat \ {0} /\ p.task \in Task
        /\ phase[p.task] = "listening" /\ p.task # t /\ phase'[p.task] = "heard"
        /\ phase'[t] = IF todo'[t] = {} THEN "run" ELSE "publishing"
        /\ \A u \in Task \ {t, p.task} : phase'[u] = phase[u]
  BY DeliverFacts
<1>3. /\ fired' = fired \cup {p.id} /\ UNCHANGED <<owes, listeners>> /\ todo' = [todo EXCEPT ![t] = @ \ {p}]
  BY <1>2 DEF Deliver, Delivers, CompletePromise
<1>4. /\ todo \in [Task -> SUBSET [id : 1 .. nextId - 1, task : Task]]
      /\ listeners \subseteq [type : Type, id : 1..nextId-1, task : Task]
  BY DEF TypeOK
<1>5. todo'[t] = todo[t] \ {p} /\ \A u \in Task \ {t} : todo'[u] = todo[u] /\ p \notin todo[u]
  BY <1>3, <1>4 DEF Listed
<1>6. owes[p.task] = p.id /\ \A u \in Task : owes[u] = p.id => u = p.task
  BY <1>2 DEF Listed, Promised, Timed
<1>7. ASSUME NEW q, q.task \in Task, Promised(q), q.id # p.id PROVE Promised(q)'
  <2>1. q.task # p.task /\ q.task # t
    BY <1>1, <1>6, <1>7 DEF Promised
  <2>. QED  BY <1>2, <1>3, <1>7, <2>1 DEF Promised
<1>8. \A l \in listeners : Promised(l)'
  BY <1>4, <1>7 DEF Listed
<1>9. ASSUME NEW u \in Task, NEW q \in todo[u], q # p PROVE q.id # p.id /\ q.task \in Task /\ Promised(q)'
  <2>1. q.task \in Task /\ Promised(q)
    BY <1>4, <1>9 DEF Listed
  <2>2. q.id # p.id
    <3>1. SUFFICES ASSUME q.id = p.id PROVE FALSE
      OBVIOUS
    <3>2. q.task = p.task
      BY <1>6, <2>1, <3>1 DEF Promised
    <3>3. q = [id |-> q.id, task |-> q.task] /\ p = [id |-> p.id, task |-> p.task]
      BY <1>4, <1>9
    <3>. QED  BY <1>9, <3>1, <3>2, <3>3
  <2>. QED  BY <1>7, <2>1, <2>2
<1>10. ASSUME NEW u \in Task, NEW q \in todo'[u]
       PROVE  /\ Promised(q)' /\ \A l \in listeners : l.id # q.id
              /\ \A v \in Task \ {u} : q \notin todo'[v]
  <2>1. q \in todo[u] /\ q # p
    BY <1>5, <1>10
  <2>2. Promised(q)'
    BY <1>9, <2>1
  <2>3. (\A l \in listeners : l.id # q.id) /\ \A v \in Task \ {u} : q \notin todo[v]
    BY <2>1 DEF Listed
  <2>. QED  BY <1>5, <2>2, <2>3
<1>11. \A u \in Task : phase'[u] = "publishing" <=> todo'[u] # {}
  <2>1. todo[p.task] = {}
    BY <1>2 DEF Listed
  <2>. QED  BY <1>2, <1>5, <2>1 DEF Listed
<1>12. ASSUME NEW u \in Task, phase'[u] = "listening"
       PROVE  \/ \E l \in listeners : l.id = owes[u]
              \/ \E v \in Task : [id |-> owes[u], task |-> u] \in todo'[v]
  <2>1. u # p.task /\ u # t /\ phase[u] = "listening"
    BY <1>2, <1>12
  <2>2. ASSUME NEW v \in Task, [id |-> owes[u], task |-> u] \in todo[v]
        PROVE  [id |-> owes[u], task |-> u] \in todo'[v]
    <3>1. [id |-> owes[u], task |-> u] # p
      BY <2>1
    <3>. QED  BY <1>5, <2>2, <3>1
  <2>. QED  BY <2>1, <2>2 DEF Listed
<1>. QED  BY <1>3, <1>8, <1>10, <1>11, <1>12 DEF Listed

(* What the time handler and the scheduler do to the phases: those who listen   *)
(* or publish are not touched, nobody becomes one of them or unborn, and only   *)
(* the driver wakes somebody.                                                  *)
Touch(t) ==
  /\ phase[t] \in {"listening", "publishing"} \/ phase'[t] \in {"listening", "publishing", "unborn"} =>
       phase'[t] = phase[t]
  /\ phase'[t] = "woken" => phase[t] = "woken"
  /\ phase[t] = "run" /\ cur # t => phase'[t] = "run"
  /\ phase[t] # "unborn" => prio'[t] = prio[t]
  /\ phase[t] = "listening" => owes'[t] = owes[t]
  /\ phase[t] = "ended" => phase'[t] = "ended"

(* All their steps touch no more, but for the driver's.                        *)
LEMMA TouchNext ==
  ASSUME TypeOK, OneTurn, Timed, TimeNext, ~Advance
  PROVE  (\A t \in Task : Touch(t)) /\ fired' = fired /\ cancelled \subseteq cancelled'
<1>1. phase \in [Task -> Phase] /\ owes \in [Task -> 0..nextId-1]
  BY DEF TypeOK
<1>2. ASSUME NEW t \in Task, NEW a \in {"run", "sleeping", "arming", "ended"}, NEW b \in {"run", "deferred", "arming"},
             cur = t, phase[t] = b, phase' = [phase EXCEPT ![t] = a], UNCHANGED prio,
             UNCHANGED owes \/ owes' = [owes EXCEPT ![t] = nextId]
      PROVE  \A u \in Task : Touch(u)
  <2>1. phase'[t] = a /\ \A u \in Task \ {t} : phase'[u] = phase[u] /\ owes'[u] = owes[u]
    BY <1>1, <1>2
  <2>. QED  BY <1>2, <2>1 DEF Touch
<1>3. ASSUME NEW t \in Task, NEW p \in Priority, NEW start \in {"run", "deferred"}, Born(t, p, start), UNCHANGED owes
      PROVE  \A u \in Task : Touch(u)
  <2>1. /\ Fresh \in Task /\ phase[Fresh] = "unborn"
        /\ phase' = [phase EXCEPT ![Fresh] = start] /\ prio' = [prio EXCEPT ![Fresh] = p]
    BY <1>3, BornTyped DEF Phase
  <2>2. phase'[Fresh] = start /\ \A u \in Task \ {Fresh} : phase'[u] = phase[u] /\ prio'[u] = prio[u]
    BY <1>1, <2>1 DEF TypeOK
  <2>. QED  BY <1>3, <2>1, <2>2 DEF Touch
<1>4. ASSUME NEW t \in Task, NEW x, cur = t, phase[t] \in {"run", "deferred"}, WaitForTime(t, x)
      PROVE  (\A u \in Task : Touch(u)) /\ fired' = fired /\ cancelled \subseteq cancelled'
  <2>1. /\ owes' = [owes EXCEPT ![t] = nextId] /\ UNCHANGED <<prio, fired, cancelled>>
        /\ \E a \in {"sleeping", "arming"} : phase' = [phase EXCEPT ![t] = a]
    BY <1>4 DEF WaitForTime
  <2>. QED  BY <1>2, <1>4, <2>1
<1>5. CASE Pick
  <2>1. \A t \in Task : phase'[t] = phase[t] \/ (phase[t] \in {"woken", "heard"} /\ phase'[t] = "run")
    BY <1>5 DEF Pick
  <2>. QED  BY <1>5, <2>1 DEF Touch, Pick
<1>6. CASE DeclareDeadlock
  BY <1>6 DEF DeclareDeadlock, Touch
<1>7. CASE DriverEnds
  BY <1>7 DEF DriverEnds, Touch
<1>8. ASSUME NEW t \in Task, End(t) PROVE (\A u \in Task : Touch(u)) /\ fired' = fired /\ cancelled \subseteq cancelled'
  BY <1>2, <1>8 DEF End
<1>9. ASSUME NEW t \in Task, Arm(t) PROVE (\A u \in Task : Touch(u)) /\ fired' = fired /\ cancelled \subseteq cancelled'
  <2>1. /\ UNCHANGED <<prio, owes, fired, cancelled>> /\ cur = t /\ phase[t] = "arming"
        /\ \E a \in {"run", "sleeping"} : phase' = [phase EXCEPT ![t] = a]
    BY <1>9 DEF Arm
  <2>. QED  BY <1>2, <2>1
<1>10. ASSUME NEW t \in Task, NEW x \in Times, ScheduleAt(t, x)
       PROVE  (\A u \in Task : Touch(u)) /\ fired' = fired /\ cancelled \subseteq cancelled'
  BY <1>3, <1>10, Typed DEF ScheduleAt
<1>11. ASSUME NEW t \in Task, NEW p \in Priorities, Spawn(t, p)
       PROVE  (\A u \in Task : Touch(u)) /\ fired' = fired /\ cancelled \subseteq cancelled'
  BY <1>3, <1>11, Typed DEF Spawn
<1>12. ASSUME NEW t \in Task, NEW x \in Times, SetTime(t, x)
       PROVE  (\A u \in Task : Touch(u)) /\ fired' = fired /\ cancelled \subseteq cancelled'
  BY <1>12 DEF SetTime, Touch
<1>13. ASSUME NEW t \in Task, NEW u \in Task, Cancel(t, u)
       PROVE  (\A v \in Task : Touch(v)) /\ fired' = fired /\ cancelled \subseteq cancelled'
  BY <1>13 DEF Cancel, Touch
<1>. QED  BY <1>4, <1>5, <1>6, <1>7, <1>8, <1>9, <1>10, <1>11, <1>12, <1>13
          DEF TimeNext, StartDeferred, Delay, WaitUntil, Performs

(* Every step keeps who listens listed, or promised.                           *)
LEMMA ListedNext ==
  ASSUME TypeOK, OneTurn, Timed, Listed, Next
  PROVE  Listed'
<1>1. ASSUME TimeNext, ForgetHeard, UNCHANGED todo PROVE Listed'
  <2>1. listeners' = listeners
    <3>1. \A l \in listeners : phase[l.task] # "heard"
      BY DEF Listed, Promised
    <3>. QED  BY <1>1, <3>1 DEF ForgetHeard
  <2>2. CASE ~Advance
    <3>1. (\A t \in Task : Touch(t)) /\ fired' = fired
      BY <1>1, <2>2, TouchNext
    <3>. QED  BY <1>1, <2>1, <3>1, KeepsListed DEF Touch
  <2>3. CASE Advance
    <3>1. /\ Earliest.task \in Task /\ Earliest = Entry(Earliest.task) /\ Earliest \in queue
          /\ \A t \in Waiter(Earliest.id) : t = Earliest.task /\ phase[t] = "sleeping"
      BY <2>3, AdvanceFacts
    <3>2. fired' = fired \cup {Earliest.id} /\ UNCHANGED owes /\ phase' = Woken(Earliest.id)
      BY <2>3 DEF Advance, CompletePromise
    <3>3. \A t \in Task : phase'[t] = phase[t] \/ (phase[t] = "sleeping" /\ phase'[t] = "woken")
      BY <3>1, <3>2 DEF Woken
    <3>4. \A t \in Task : phase[t] = "listening" => owes[t] # Earliest.id
      <4>1. ASSUME NEW t \in Task, phase[t] = "listening", owes[t] = Earliest.id PROVE FALSE
        <5>1. t \in Waiter(Earliest.id)
          BY <4>1 DEF Waiter
        <5>. QED  BY <3>1, <4>1, <5>1
      <4>. QED  BY <4>1
    <3>. QED  BY <1>1, <2>1, <3>2, <3>3, <3>4, KeepsListed
  <2>. QED  BY <2>2, <2>3
<1>2. CASE EventNext
  BY <1>2, WaitListed, PublishListed, DeliverListed DEF EventNext
<1>. QED  BY <1>1, <1>2 DEF Next

(* A woken task above IDLE is the next to run.                                 *)
LEMMA PickWoken ==
  ASSUME TypeOK, OneTurn, WokenNext, Pick, NEW t \in Task, phase[t] = "woken", prio[t] # IDLE
  PROVE  phase'[t] = "run" /\ \A u \in Task : phase[u] = "woken" /\ prio[u] # IDLE => u = t
<1>1. PICK p \in Priority :
        LET w == Head(ready[p]) IN
        /\ ready[p] # <<>> /\ \A q \in Priority : q > p => ready[q] = <<>>
        /\ ready' = [ready EXCEPT ![p] = Tail(@)] /\ w \in Worker
        /\ cur' = IF w \in cancelled THEN None ELSE w
        /\ phase' = [u \in Task |-> IF u = w /\ phase[u] \in {"woken", "heard"} THEN "run"
                                    ELSE phase[u]]
        /\ ready' \in Heaps
  BY PickTyped
<1>2. /\ prio[t] \in Priority /\ ready[prio[t]] = <<t>>
      /\ \A q \in Priority \ {IDLE} : q # prio[t] => ready[q] = <<>>
  BY Typed DEF WokenNext
<1>3. p = prio[t]
  <2>1. ready[prio[t]] # <<>>
    BY <1>2
  <2>2. ~(prio[t] > p)
    BY <1>1, <1>2, <2>1
  <2>3. prio[t] <= p /\ p # IDLE
    BY <1>2, <2>2 DEF Priority, IDLE, NORMAL, HIGH
  <2>. QED  BY <1>1, <1>2, <2>3
<1>4. Head(ready[p]) = t
  BY <1>2, <1>3
<1>5. phase'[t] = "run"
  BY <1>1, <1>4
<1>6. ASSUME NEW u \in Task, phase[u] = "woken", prio[u] # IDLE PROVE u = t
  <2>1. ready[prio[u]] = <<u>> /\ prio[u] \in Priority
    BY <1>6, Typed DEF WokenNext
  <2>2. prio[u] = prio[t]
    BY <1>2, <1>6, <2>1
  <2>. QED  BY <1>2, <2>1, <2>2
<1>. QED  BY <1>5, <1>6

(* Every step keeps the woken next to run.                                     *)
LEMMA WokenNextNext ==
  ASSUME TypeOK, OneTurn, DriverFlag, Timed, Listed, WokenNext, Next
  PROVE  WokenNext'
<1>1. ASSUME NEW t \in Task, phase[t] = "woken", prio[t] # IDLE PROVE Pick /\ ForgetHeard
  <2>1. cur = None /\ ready[prio[t]] # <<>> /\ prio[t] \in Priority
    <3>1. prio[t] \in Priority \ {IDLE}
      BY <1>1, Typed
    <3>2. cur = None /\ ready[prio[t]] = <<t>>
      BY <1>1, <3>1 DEF WokenNext
    <3>. QED  BY <3>1, <3>2
  <2>2. None \notin Task /\ None # Driver
    BY TaskAssumption
  <2>3. ~EventNext
    BY <2>1, <2>2 DEF EventNext, Deliver, Publish, WaitForEvent, Performs
  <2>4. TimeNext /\ ForgetHeard
    BY <2>3 DEF Next
  <2>. QED  BY <2>1, <2>2, <2>4
            DEF TimeNext, DeclareDeadlock, DriverEnds, DriverLeaves, Advance, End, Arm, StartDeferred, Delay, WaitUntil,
                ScheduleAt, SetTime, Cancel, Spawn, Born, Performs
<1>2. CASE ~(\E t \in Task : phase[t] = "woken" /\ prio[t] # IDLE) /\ ~Advance
  <2>1. ASSUME NEW t \in Task, phase'[t] = "woken" PROVE phase[t] = "woken" /\ prio'[t] = prio[t]
    <3>1. CASE TimeNext
      <4>1. Touch(t)
        BY <1>2, <3>1, TouchNext
      <4>. QED  BY <2>1, <4>1 DEF Touch
    <3>2. ASSUME NEW u \in Task, NEW types \in Interests, WaitForEvent(u, types)
          PROVE  phase[t] = "woken" /\ prio'[t] = prio[t]
      BY <2>1, <3>2 DEF WaitForEvent, TypeOK
    <3>3. ASSUME NEW u \in Task, NEW e \in Event, Publish(u, e)
          PROVE  phase[t] = "woken" /\ prio'[t] = prio[t]
      BY <2>1, <3>3 DEF Publish, TypeOK
    <3>4. ASSUME NEW u \in Task, Deliver(u)
          PROVE  phase[t] = "woken" /\ prio'[t] = prio[t]
      <4>1. phase'[t] = phase[t]
        BY <2>1, <3>4, DeliverFacts
      <4>. QED  BY <2>1, <3>4, <4>1 DEF Deliver
    <3>. QED  BY <3>1, <3>2, <3>3, <3>4 DEF Next, EventNext
  <2>. QED  BY <1>2, <2>1 DEF WokenNext
<1>3. ASSUME NEW t \in Task, phase[t] = "woken", prio[t] # IDLE PROVE WokenNext'
  <2>1. Pick /\ phase'[t] = "run" /\ \A u \in Task : phase[u] = "woken" /\ prio[u] # IDLE => u = t
    BY <1>1, <1>3, PickWoken
  <2>2. \A u \in Task : phase'[u] = "woken" => phase[u] = "woken" /\ prio'[u] = prio[u]
    BY <2>1 DEF Pick
  <2>. QED  BY <2>1, <2>2 DEF WokenNext
<1>4. ASSUME Advance, NEW t \in Task, phase'[t] = "woken", prio'[t] # IDLE
      PROVE  /\ cur' = None
             /\ \A p \in Priority \ {IDLE} : ready'[p] = IF p = prio'[t] THEN <<t>> ELSE <<>>
             /\ clock' >= due'[t]
             /\ \A u \in Task : phase'[u] = "sleeping" =>
                  due'[t] < due'[u] \/ (due'[t] = due'[u] /\ owes'[t] < owes'[u])
  <2>1. /\ Earliest \in queue /\ Earliest.id \in Nat \ {0} /\ Earliest.task \in Task
        /\ Earliest = Entry(Earliest.task)
        /\ \A u \in Waiter(Earliest.id) : u = Earliest.task /\ phase[u] = "sleeping"
        /\ cur = Driver /\ Driver \in Worker
    BY <1>4, AdvanceFacts
  <2>2. PICK id \in Nat \ {0} : id = Earliest.id
    BY <2>1
  <2>3. /\ clock' = Max({clock, Earliest.time}) /\ CompletePromise(Driver, id) /\ phase' = Woken(id)
        /\ UNCHANGED <<due, prio, owes>>
    BY <1>4, <2>2 DEF Advance
  <2>4. ~(phase[t] = "woken" /\ prio[t] # IDLE)
    BY <2>1, TaskAssumption DEF WokenNext
  <2>5. t \in Waiter(id) /\ t = Earliest.task /\ phase[t] = "sleeping" /\ prio[t] # IDLE
    <3>1. t \in Waiter(id)
      BY <1>4, <2>3, <2>4 DEF Woken
    <3>. QED  BY <1>4, <2>1, <2>2, <2>3, <3>1
  <2>6. PICK pc \in Priority :
          /\ pc <= PrioOf(Driver)
          /\ \E u \in Task : Waiter(id) = {u} /\ Yields(u, prio[u], pc)
    BY <2>1, <2>3, <2>5, Completes
  <2>7. pc = IDLE /\ Yields(t, prio[t], pc)
    BY <2>5, <2>6 DEF PrioOf, Priority, IDLE, NORMAL, HIGH
  <2>8. cur' = None /\ \A p \in Priority \ {IDLE} : ready'[p] = IF p = prio[t] THEN <<t>> ELSE <<>>
    <3>1. /\ ready \in Heaps /\ t \in Worker /\ Driver \in Worker /\ prio[t] \in Priority /\ prio[t] # IDLE
          /\ \A p \in Priority \ {IDLE} : ready[p] = <<>>
      BY <2>1, <2>5, Typed DEF Worker, DriverFlag
    <3>2. PICK h \in Heaps : h = Queued(ready, t, prio[t])
      BY <3>1, QueuedFacts
    <3>3. ready' = Queued(h, Driver, IDLE) /\ cur' = None
      BY <2>1, <2>7, <3>2 DEF Yields
    <3>4. Added(ready, h, t, prio[t]) /\ Added(h, ready', Driver, IDLE) /\ IDLE \in Priority
      BY <3>2, <3>3, Typed DEF Added
    <3>5. /\ h[prio[t]] = Append(ready[prio[t]], t) /\ \A q \in Priority \ {prio[t]} : h[q] = ready[q]
      BY <3>1, <3>4, AddedFacts
    <3>6. \A q \in Priority \ {IDLE} : ready'[q] = h[q]
      BY <3>1, <3>4, AddedFacts
    <3>7. h[prio[t]] = <<t>>
      <4>1. ready[prio[t]] = <<>>
        BY <3>1
      <4>2. Append(<<>>, t) = <<t>>
        OBVIOUS
      <4>. QED  BY <3>5, <4>1, <4>2
    <3>. QED  BY <3>1, <3>3, <3>5, <3>6, <3>7
  <2>9. Earliest.time = due[t] /\ Earliest.id = owes[t]
    BY <2>1, <2>5 DEF Entry
  <2>10. clock' >= due[t]
    <3>1. clock \in Nat /\ due[t] \in Nat
      BY Typed
    <3>. QED  BY <2>3, <2>9, <3>1, Later
  <2>11. ASSUME NEW u \in Task, phase'[u] = "sleeping"
         PROVE  due[t] < due[u] \/ (due[t] = due[u] /\ owes[t] < owes[u])
    <3>1. phase[u] = "sleeping" /\ u \notin Waiter(id)
      BY <2>3, <2>11 DEF Woken
    <3>2. Entry(u) \in queue /\ owes[u] # id
      BY <3>1 DEF Timed, Waiter
    <3>3. Earlier(Earliest, Entry(u))
      BY <1>4, <3>2, EarliestFirst
    <3>4. Entry(u).time = due[u] /\ Entry(u).id = owes[u]
      BY DEF Entry
    <3>5. due[t] < due[u] \/ (due[t] = due[u] /\ owes[t] <= owes[u])
      BY <2>9, <3>3, <3>4 DEF Earlier
    <3>6. due[t] \in Nat /\ due[u] \in Nat /\ owes[t] \in Nat /\ owes[u] \in Nat /\ owes[t] = id
      BY <2>2, <2>9, Typed
    <3>. QED  BY <3>2, <3>5, <3>6
  <2>. QED  BY <2>3, <2>8, <2>10, <2>11
<1>5. CASE Advance
  BY <1>4, <1>5 DEF WokenNext
<1>. QED  BY <1>2, <1>3, <1>5

-------------------------------------------------------------------------------
(* Who was woken by an event.                                                  *)

(* Who is not parked keeps its place while others take their turns.            *)
LEMMA KeepsPlaces ==
  ASSUME TypeOK, OneTurn, DriverFlag, TurnStep, ~Pick, NEW t \in Task, cur # t, ~Parked(t)
  PROVE  /\ Places(ready', t) = Places(ready, t) /\ cur' # t
         /\ \A u : Places(ready, u) \subseteq Places(ready', u)
<1>1. ready \in Heaps /\ None # t /\ Driver # t /\ cur \in Worker \cup {None}
  BY Typed DEF Worker
<1>2. CASE Same \/ Left
  BY <1>1, <1>2 DEF Same, Left, Leaves
<1>3. ASSUME NEW pc \in Priority, Alone(pc)
      PROVE  /\ Places(ready', t) = Places(ready, t) /\ cur' # t
             /\ \A u : Places(ready, u) \subseteq Places(ready', u)
  <2>1. Added(ready, ready', cur, pc) /\ cur \in Worker /\ cur' = None
    BY <1>3 DEF Alone, YieldsAlone, Added
  <2>2. PICK n \in Nat : /\ Places(ready', cur) = Places(ready, cur) \cup {<<pc, n>>}
                         /\ \A v : v # cur => Places(ready', v) = Places(ready, v)
    BY <1>1, <2>1, AddedFacts
  <2>. QED  BY <1>1, <2>1, <2>2
<1>4. ASSUME NEW pc \in Priority, NEW x \in Worker, NEW px \in Priority, Queues(x, px, pc)
      PROVE  /\ Places(ready', t) = Places(ready, t) /\ cur' # t
             /\ \A u : Places(ready, u) \subseteq Places(ready', u)
  <2>1. cur \in Worker /\ cur' = None /\ x # t
    BY <1>1, <1>4 DEF Queues, Yields
  <2>2. PICK h \in Heaps : h = Queued(ready, x, px)
    BY <1>1, QueuedFacts
  <2>3. Added(ready, h, x, px) /\ Added(h, ready', cur, pc)
    BY <1>4, <2>2 DEF Queues, Yields, Added
  <2>4. PICK m \in Nat : /\ Places(h, x) = Places(ready, x) \cup {<<px, m>>}
                         /\ \A v : v # x => Places(h, v) = Places(ready, v)
    BY <1>1, <2>3, AddedFacts
  <2>5. PICK n \in Nat : /\ Places(ready', cur) = Places(h, cur) \cup {<<pc, n>>}
                         /\ \A v : v # cur => Places(ready', v) = Places(h, v)
    BY <2>1, <2>2, <2>3, AddedFacts
  <2>. QED  BY <1>1, <2>1, <2>4, <2>5
<1>. QED  BY <1>2, <1>3, <1>4 DEF TurnStep

(* So it keeps its turn, behind those it was behind.                           *)
LEMMA KeepsTurn ==
  ASSUME TypeOK, OneTurn, DriverFlag, TurnStep, ~Pick, NEW t \in Task, cur # t, ~Parked(t)
  PROVE  /\ OnTurn(t) /\ cancelled \subseteq cancelled' /\ prio'[t] = prio[t] /\ (t \in plain' => t \in plain)
              => OnTurn(t)'
         /\ \A u : Behind(ready, t, u) => Behind(ready', t, u)
<1>1. /\ Places(ready', t) = Places(ready, t) /\ cur' # t
      /\ \A u : Places(ready, u) \subseteq Places(ready', u)
  BY KeepsPlaces
<1>2. \A u : Behind(ready, t, u) => Behind(ready', t, u)
  BY <1>1 DEF Behind
<1>. QED  BY <1>1, <1>2 DEF OnTurn

(* What a step does to the phases but of the one whose turn it is.             *)
Calm(t) ==
  /\ phase'[t] = "publishing" /\ t # cur => phase[t] = "publishing"
  /\ phase[t] \in {"run", "publishing"} /\ t # cur => phase'[t] = phase[t]
  /\ phase[t] # "unborn" => phase'[t] # "unborn" /\ prio'[t] = prio[t]
  /\ phase[t] = "ended" => phase'[t] = "ended"

(* What HeardFirst asks of those t has woken.                                  *)
Ahead(t, u) == cur # t /\ phase[t] \in {"run", "publishing"} /\ Behind(ready, t, u) /\ OnTurn(t)
Awaits(t, u) == phase[u] # "unborn" /\ (Live(u) => Ahead(t, u))

(* A step that leaves the others where they are.                               *)
LEMMA KeepsHeard ==
  ASSUME TypeOK, OneTurn, DriverFlag, Listed, HeardFirst, TurnStep, ~Pick,
         plain' \subseteq Task, cancelled \subseteq cancelled', \A t \in Task : Calm(t),
         \A t \in Task : t # cur =>
           (t \in plain' <=> t \in plain) /\ todo'[t] = todo[t] /\ unheard'[t] \subseteq unheard[t],
         \A t \in Task : t = cur =>
           /\ phase'[t] = "publishing" => OnTurn(t)'
           /\ t \in plain' => \A p \in todo'[t] : prio'[p.task] # IDLE
           /\ \A u \in unheard'[t] : u \in unheard[t] \/ Awaits(t, u)'
  PROVE  HeardFirst'
<1>1. unheard \in [Task -> SUBSET Task] /\ plain \subseteq Task
      /\ todo \in [Task -> SUBSET [id : 1 .. nextId - 1, task : Task]]
  BY DEF TypeOK
<1>2. ASSUME NEW t \in Task, phase'[t] = "publishing" PROVE OnTurn(t)'
  <2>1. CASE t # cur
    <3>1. phase[t] = "publishing" /\ OnTurn(t) /\ prio'[t] = prio[t] /\ ~Parked(t)
      BY <1>2, <2>1 DEF HeardFirst, Calm, Parked
    <3>. QED  BY <2>1, <3>1, KeepsTurn
  <2>. QED  BY <1>2, <2>1
<1>3. ASSUME NEW t \in Task, t \in plain', NEW p \in todo'[t] PROVE prio'[p.task] # IDLE
  <2>1. CASE t # cur
    <3>1. t \in plain /\ p \in todo[t] /\ p.task \in Task
      BY <1>1, <1>3, <2>1
    <3>2. phase[p.task] = "listening" /\ prio[p.task] # IDLE
      BY <3>1 DEF Listed, Promised, HeardFirst
    <3>. QED  BY <3>1, <3>2 DEF Calm
  <2>. QED  BY <1>3, <2>1
<1>4. ASSUME NEW t \in Task, NEW u \in unheard[t], u \in unheard'[t] PROVE Awaits(t, u)'
  <2>1. u \in Task /\ phase[u] # "unborn" /\ phase'[u] # "unborn" /\ (Live(u)' => Live(u))
    BY <1>1 DEF HeardFirst, Calm, Live
  <2>2. ASSUME Live(u) PROVE Ahead(t, u)'
    <3>1. cur # t /\ phase[t] \in {"run", "publishing"} /\ Behind(ready, t, u) /\ OnTurn(t)
      BY <2>2 DEF HeardFirst
    <3>2. ~Parked(t) /\ phase'[t] = phase[t] /\ prio'[t] = prio[t] /\ (t \in plain' => t \in plain)
      BY <3>1 DEF Parked, Calm
    <3>3. cur' # t
      BY <3>1, <3>2, KeepsPlaces
    <3>4. OnTurn(t)' /\ Behind(ready', t, u)
      BY <3>1, <3>2, KeepsTurn
    <3>. QED  BY <3>1, <3>2, <3>3, <3>4 DEF Ahead
  <2>. QED  BY <2>1, <2>2 DEF Awaits
<1>5. \A t \in Task : \A u \in unheard'[t] : Awaits(t, u)'
  BY <1>4
<1>. QED  BY <1>2, <1>3, <1>5 DEF HeardFirst, Awaits, Ahead

(* Where those woken are ahead of who woke them, whom is picked is not he.     *)
LEMMA PickHeard ==
  ASSUME TypeOK, OneTurn, DriverFlag, Listed, HeardFirst, Pick, ForgetHeard, UNCHANGED <<todo, plain>>
  PROVE  HeardFirst'
<1>1. PICK p \in Priority :
        LET w == Head(ready[p]) IN
        /\ ready[p] # <<>> /\ \A q \in Priority : q > p => ready[q] = <<>>
        /\ ready' = [ready EXCEPT ![p] = Tail(@)] /\ w \in Worker
        /\ cur' = IF w \in cancelled THEN None ELSE w
        /\ phase' = [u \in Task |-> IF u = w /\ phase[u] \in {"woken", "heard"} THEN "run"
                                    ELSE phase[u]]
        /\ ready' \in Heaps
  BY PickTyped
<1>2. PICK w \in Worker : w = Head(ready[p])
  BY <1>1
<1>3. /\ ready \in Heaps /\ cur = None /\ None \notin Worker /\ Task \subseteq Worker
      /\ UNCHANGED <<cancelled, prio>>
  BY Typed DEF Pick, Worker
<1>4. /\ <<p, 1>> \in Places(ready, w)
      /\ \A v : \A z \in Places(ready', v) : \E y \in Places(ready, v) : y[1] = z[1] /\ y # <<p, 1>>
      /\ \A v : Single(Places(ready, v)) => Single(Places(ready', v))
      /\ \A v : v # w /\ Places(ready, v) # {} => Places(ready', v) # {}
      /\ \A t, u : u # w /\ Behind(ready, t, u) => Behind(ready', t, u)
  <2>1. Popped(ready, ready', p, w) /\ ready[p] # <<>>
    BY <1>1, <1>2 DEF Popped
  <2>. QED  BY <1>3, <2>1, PoppedFacts
<1>5. Places(ready', w) = {}
  <2>1. Single(Places(ready, w))
    BY DEF OneTurn
  <2>. QED  BY <1>4, <2>1 DEF Single
<1>6. cur' = IF w \in cancelled THEN None ELSE w
  BY <1>1, <1>2
<1>7. \A u \in Task : phase'[u] = phase[u] \/ (phase[u] \in {"woken", "heard"} /\ phase'[u] = "run")
  BY <1>1
<1>8. ASSUME NEW t \in Task, OnTurn(t) PROVE OnTurn(t)'
  <2>1. CASE t = w
    <3>1. t \notin cancelled' => cur' = t /\ Places(ready', t) = {}
      BY <1>3, <1>5, <1>6, <2>1
    <3>. QED  BY <3>1 DEF OnTurn
  <2>2. CASE t # w
    <3>1. Places(ready, t) # {} => Places(ready', t) # {}
      BY <1>4, <2>2
    <3>2. \A z \in Places(ready', t) : \E y \in Places(ready, t) : y[1] = z[1]
      BY <1>4
    <3>. QED  BY <1>3, <1>8, <3>1, <3>2 DEF OnTurn
  <2>. QED  BY <2>1, <2>2
<1>9. \A t \in Task : phase'[t] = "publishing" => OnTurn(t)'
  BY <1>7, <1>8 DEF HeardFirst
<1>10. \A t \in plain' : \A q \in todo'[t] : prio'[q.task] # IDLE
  BY <1>3 DEF HeardFirst
<1>11. ASSUME NEW t \in Task, NEW u \in unheard'[t] PROVE Awaits(t, u)'
  <2>1. u \in unheard[t] /\ u # cur' /\ u \in Task
    BY <1>11 DEF ForgetHeard, TypeOK
  <2>2. phase[u] # "unborn" /\ phase'[u] # "unborn" /\ (Live(u)' => Live(u))
    BY <1>3, <1>7, <2>1 DEF HeardFirst, Live
  <2>3. ASSUME Live(u), Live(u)' PROVE Ahead(t, u)'
    <3>1. phase[t] \in {"run", "publishing"} /\ Behind(ready, t, u) /\ OnTurn(t)
      BY <2>1, <2>3 DEF HeardFirst
    <3>2. phase'[t] \in {"run", "publishing"} /\ OnTurn(t)'
      BY <1>7, <1>8, <3>1
    <3>3. u # w
      BY <1>3, <1>6, <2>1, <2>3 DEF Live
    <3>4. Behind(ready', t, u)
      BY <1>4, <3>1, <3>3
    <3>5. t # w
      <4>1. SUFFICES ASSUME t = w PROVE FALSE
        OBVIOUS
      <4>2. PICK y \in Places(ready, u) : Before(y, <<p, 1>>)
        BY <1>4, <3>1, <4>1 DEF Behind
      <4>3. y[1] \in Priority /\ y[2] \in DOMAIN ready[y[1]]
        BY PlaceFacts
      <4>4. ready[y[1]] \in Seq(Worker) /\ y[2] \in Nat /\ y[2] >= 1 /\ ready[y[1]] # <<>>
        <5>1. ready[y[1]] \in Seq(Worker)
          BY <1>3, <4>3 DEF Heaps
        <5>. QED  BY <4>3, <5>1
      <4>5. ~(y[1] > p)
        BY <1>1, <4>3, <4>4
      <4>. QED  BY <4>2, <4>4, <4>5 DEF Before
    <3>6. cur' # t
      BY <1>3, <1>6, <3>5
    <3>. QED  BY <3>2, <3>4, <3>6 DEF Ahead
  <2>. QED  BY <2>2, <2>3 DEF Awaits
<1>. QED  BY <1>9, <1>10, <1>11 DEF HeardFirst, Awaits, Ahead

(* The publisher is behind the one it wakes.                                   *)
LEMMA DeliverAhead ==
  ASSUME TypeOK, OneTurn, DriverFlag, Timed, Listed, HeardFirst, NEW t \in Task, Deliver(t),
         NEW q \in todo[t], Delivers(t, q), Waiter(q.id) = {q.task}, q.task \in Task, q.id \in Nat \ {0},
         q.task # t
  PROVE  Behind(ready', t, q.task) /\ OnTurn(t)' /\ cur' # t
<1>1. cur = t /\ phase[t] = "publishing" /\ t \in Worker /\ q.task \in Worker
  BY DeliverFacts DEF Worker
<1>2. PICK u : u = q.task
  OBVIOUS
<1>3. PICK pc \in Priority :
        /\ pc = PrioOf(t) \/ pc = prio[u]
        /\ pc <= prio[u]
        /\ Yields(u, prio[u], pc)
  <2>1. PICK id \in Nat \ {0} : id = q.id
    OBVIOUS
  <2>2. CompletePromise(t, id) /\ Waiter(id) = {u}
    BY <1>2, <2>1 DEF Delivers
  <2>. QED  BY <1>1, <2>2, Completes
<1>4. /\ ready \in Heaps /\ None # t /\ prio[u] \in Priority /\ u \in Worker /\ u # t /\ u \in Task
      /\ PrioOf(t) = prio[t]
  BY <1>1, <1>2, Typed DEF PrioOf
<1>5. Places(ready, t) = {} /\ Places(ready, u) = {}
  <2>1. Parked(u)
    <3>1. u \in Waiter(q.id)
      BY <1>2
    <3>. QED  BY <3>1 DEF Waiter, Parked
  <2>. QED  BY <1>1, <1>4, <2>1 DEF OneTurn
<1>6. PICK h \in Heaps : h = Queued(ready, u, prio[u])
  BY <1>4, QueuedFacts
<1>7. Added(ready, h, u, prio[u]) /\ Added(h, ready', t, pc) /\ cur' = None
  BY <1>1, <1>3, <1>6 DEF Yields, Added
<1>8. PICK m \in Nat : /\ Places(h, u) = {<<prio[u], m>>} /\ Places(h, t) = {}
  BY <1>4, <1>5, <1>7, AddedFacts
<1>9. PICK n \in Nat : /\ Places(ready', t) = {<<pc, n>>} /\ Places(ready', u) = {<<prio[u], m>>}
                       /\ \A z \in Places(h, u) : z[1] = pc => z[2] < n
  <2>1. PICK n \in Nat : /\ Places(ready', t) = Places(h, t) \cup {<<pc, n>>}
                         /\ \A v : v # t => Places(ready', v) = Places(h, v)
                         /\ \A v : \A z \in Places(h, v) : z[1] = pc => z[2] < n
    BY <1>1, <1>6, <1>7, AddedFacts
  <2>. QED  BY <1>4, <1>8, <2>1
<1>10. Behind(ready', t, u)
  <2>1. prio[u] = pc => m < n
    <3>1. <<prio[u], m>>[1] = prio[u] /\ <<prio[u], m>>[2] = m
      OBVIOUS
    <3>. QED  BY <1>8, <1>9, <3>1
  <2>2. prio[u] > pc \/ prio[u] = pc
    BY <1>3, <1>4 DEF Priority, IDLE, NORMAL, HIGH
  <2>. QED  BY <1>9, <2>1, <2>2 DEF Behind, Before
<1>11. OnTurn(t)'
  <2>1. t \in plain' /\ prio'[t] # IDLE => pc # IDLE
    <3>1. plain' = plain /\ prio' = prio
      BY DEF Deliver
    <3>2. t \in plain => prio[u] # IDLE
      BY <1>2 DEF HeardFirst
    <3>. QED  BY <1>3, <1>4, <3>1, <3>2
  <2>. QED  BY <1>9, <2>1 DEF OnTurn
<1>. QED  BY <1>2, <1>4, <1>7, <1>10, <1>11

(* The steps of the time handler and the scheduler.                            *)
LEMMA TimeHeard ==
  ASSUME TypeOK, TypeOK', OneTurn, DriverFlag, Timed, Listed, HeardFirst, Next,
         TimeNext, ForgetHeard, UNCHANGED <<todo, plain>>
  PROVE  HeardFirst'
<1>1. CASE Pick
  BY <1>1, PickHeard
<1>2. CASE ~Pick
  <2>1. TurnStep /\ plain' \subseteq Task
    BY EveryTurn DEF TypeOK
  <2>2. (\A t \in Task : Calm(t)) /\ cancelled \subseteq cancelled'
    <3>1. CASE ~Advance
      BY <3>1, TouchNext DEF Calm, Touch
    <3>2. CASE Advance
      <4>1. \A t \in Waiter(Earliest.id) : phase[t] = "sleeping"
        BY <3>2, AdvanceFacts
      <4>2. phase' = Woken(Earliest.id) /\ UNCHANGED <<prio, cancelled>>
        BY <3>2 DEF Advance
      <4>3. \A t \in Task : phase'[t] = phase[t] \/ (phase[t] = "sleeping" /\ phase'[t] = "woken")
        BY <4>1, <4>2 DEF Woken
      <4>. QED  BY <4>2, <4>3 DEF Calm
    <3>. QED  BY <3>1, <3>2
  <2>3. \A t \in Task : unheard'[t] \subseteq unheard[t]
    BY DEF ForgetHeard
  <2>4. ASSUME NEW t \in Task, t = cur PROVE phase'[t] # "publishing"
    <3>1. t # None /\ t # Driver
      BY TaskAssumption
    <3>2. phase[t] \in {"run", "arming", "deferred"} /\ ~Advance
      BY <2>4, <3>1 DEF TimeNext, Pick, DeclareDeadlock, DriverEnds, DriverLeaves, Advance, End, Arm, StartDeferred,
                        Delay, WaitUntil, ScheduleAt, SetTime, Cancel, Spawn, Born, Performs
    <3>. QED  BY <3>2, TouchNext DEF Touch
  <2>5. ASSUME NEW t \in plain, NEW p \in todo[t] PROVE prio'[p.task] # IDLE
    <3>1. p.task \in Task /\ phase[p.task] = "listening" /\ prio[p.task] # IDLE
      BY <2>5 DEF Listed, Promised, HeardFirst, TypeOK
    <3>. QED  BY <2>2, <3>1 DEF Calm
  <2>. QED  BY <1>2, <2>1, <2>2, <2>3, <2>4, <2>5, KeepsHeard
<1>. QED  BY <1>1, <1>2

(* A task starts to listen.                                                    *)
LEMMA WaitHeard ==
  ASSUME TypeOK, TypeOK', OneTurn, DriverFlag, Timed, Listed, HeardFirst, Next,
         NEW t \in Task, NEW types \in Interests, WaitForEvent(t, types)
  PROVE  HeardFirst'
<1>1. /\ cur = t /\ phase[t] = "run" /\ phase' = [phase EXCEPT ![t] = "listening"] /\ cur' = None
      /\ UNCHANGED <<cancelled, prio, plain, todo, unheard>>
  BY DEF WaitForEvent, Performs
<1>2. phase'[t] = "listening" /\ \A u \in Task \ {t} : phase'[u] = phase[u]
  BY <1>1 DEF TypeOK
<1>3. TurnStep /\ plain' \subseteq Task /\ ~Pick
  BY <1>1, EveryTurn, TaskAssumption DEF TypeOK, Pick
<1>4. \A u \in Task : Calm(u)
  BY <1>1, <1>2 DEF Calm
<1>. QED  BY <1>1, <1>2, <1>3, <1>4, KeepsHeard DEF HeardFirst

(* An event is published.                                                      *)
LEMMA PublishHeard ==
  ASSUME TypeOK, TypeOK', OneTurn, DriverFlag, Timed, Listed, HeardFirst, Next,
         NEW t \in Task, NEW e \in Event, Publish(t, e)
  PROVE  HeardFirst'
<1>1. /\ cur = t /\ phase[t] = "run" /\ UNCHANGED <<cur, ready, cancelled, prio, unheard>>
      /\ todo' = [todo EXCEPT ![t] = Matching(e)]
      /\ plain' = IF \E p \in Matching(e) : prio[p.task] = IDLE THEN plain \ {t} ELSE plain \cup {t}
      /\ \E a \in {"run", "publishing"} : phase' = [phase EXCEPT ![t] = a]
  BY DEF Publish, Performs
<1>2. /\ phase'[t] \in {"run", "publishing"} /\ todo'[t] = Matching(e)
      /\ \A u \in Task \ {t} : phase'[u] = phase[u] /\ todo'[u] = todo[u] /\ (u \in plain' <=> u \in plain)
  BY <1>1 DEF TypeOK
<1>3. TurnStep /\ plain' \subseteq Task /\ ~Pick
  BY <1>1, EveryTurn, TaskAssumption DEF TypeOK, Pick
<1>4. \A u \in Task : Calm(u)
  BY <1>1, <1>2 DEF Calm
<1>5. OnTurn(t)'
  <2>1. cur' = t /\ Places(ready', t) = {}
    BY <1>1, TaskAssumption DEF OneTurn
  <2>. QED  BY <2>1 DEF OnTurn
<1>6. t \in plain' => \A p \in todo'[t] : prio'[p.task] # IDLE
  BY <1>1, <1>2
<1>. QED  BY <1>1, <1>2, <1>3, <1>4, <1>5, <1>6, KeepsHeard

(* A publisher completes one of its promises.                                  *)
LEMMA DeliverHeard ==
  ASSUME TypeOK, TypeOK', OneTurn, DriverFlag, Timed, Listed, HeardFirst, Next,
         NEW t \in Task, Deliver(t)
  PROVE  HeardFirst'
<1>1. cur = t /\ phase[t] = "publishing" /\ t \in Worker
  BY DeliverFacts
<1>2. PICK q \in todo[t] :
        /\ Delivers(t, q) /\ Waiter(q.id) = {q.task} /\ q.id \in Nat \ {0} /\ q.task \in Task
        /\ phase[q.task] = "listening" /\ q.task # t /\ phase'[q.task] = "heard"
        /\ phase'[t] = IF todo'[t] = {} THEN "run" ELSE "publishing"
        /\ \A u \in Task \ {t, q.task} : phase'[u] = phase[u]
  BY DeliverFacts
<1>3. /\ UNCHANGED <<cancelled, prio, plain>> /\ todo' = [todo EXCEPT ![t] = @ \ {q}]
      /\ unheard' = [unheard EXCEPT ![t] = @ \cup {q.task}]
  BY <1>2 DEF Deliver, Delivers
<1>4. /\ todo'[t] \subseteq todo[t] /\ unheard'[t] = unheard[t] \cup {q.task}
      /\ \A u \in Task \ {t} : todo'[u] = todo[u] /\ unheard'[u] = unheard[u]
  BY <1>3 DEF TypeOK
<1>5. TurnStep /\ plain' \subseteq Task /\ ~Pick
  BY <1>1, EveryTurn, TaskAssumption DEF TypeOK, Pick
<1>6. \A u \in Task : Calm(u)
  BY <1>1, <1>2, <1>3 DEF Calm
<1>7. Behind(ready', t, q.task) /\ OnTurn(t)' /\ cur' # t
  BY <1>2, DeliverAhead
<1>8. t \in plain' => \A p \in todo'[t] : prio'[p.task] # IDLE
  BY <1>3, <1>4 DEF HeardFirst
<1>9. Awaits(t, q.task)'
  BY <1>2, <1>7 DEF Awaits, Ahead
<1>. QED  BY <1>3, <1>4, <1>5, <1>6, <1>7, <1>8, <1>9, <1>1, KeepsHeard

(* It holds at first,                                                          *)
LEMMA IInvInit == Init => IInv
<1> SUFFICES ASSUME Init PROVE IInv
  OBVIOUS
<1>1. /\ clock = Start /\ queue = {} /\ driving = FALSE /\ due = [t \in Task |-> 0]
      /\ ready = [p \in Priority |-> <<>>] /\ cur = Root /\ over = "no"
      /\ phase = [t \in Task |-> IF t = Root THEN "run" ELSE "unborn"]
      /\ cancelled = {} /\ prio = [t \in Task |-> NORMAL] /\ owes = [t \in Task |-> 0]
      /\ fired = {} /\ nextId = 1 /\ ops = 0
      /\ listeners = {} /\ todo = [t \in Task |-> {}] /\ plain = {} /\ unheard = [t \in Task |-> {}]
  BY DEF Init, TimeInit
<1>2. TypeOK
  <2>1. ready \in [Priority -> Seq(Task \cup {Driver})]
    BY <1>1
  <2>2. 0 \in 0..nextId-1 /\ 0 \in Times /\ 0 \in 0..MaxOps
    BY <1>1, BoundAssumption DEF Times
  <2>3. phase \in [Task -> Phase] /\ prio \in [Task -> Priority]
    BY <1>1 DEF Phase, Priority
  <2>4. owes \in [Task -> 0..nextId-1] /\ due \in [Task -> Times]
    BY <1>1, <2>2
  <2>. QED  BY <1>1, <2>1, <2>2, <2>3, <2>4, TaskAssumption, BoundAssumption DEF TypeOK, Times
<1>3. \A w : Places(ready, w) = {}
  <2>1. ASSUME NEW w, NEW z \in Places(ready, w) PROVE FALSE
    BY <1>1, PlaceFacts
  <2>. QED  BY <2>1
<1>4. OneTurn /\ DriverFlag
  BY <1>1, <1>3, TaskAssumption DEF OneTurn, DriverFlag, Single, Parked
<1>5. Timed /\ Listed /\ WokenNext
  BY <1>1 DEF Timed, Listed, WokenNext
<1>6. HeardFirst
  BY <1>1 DEF HeardFirst
<1>. QED  BY <1>2, <1>4, <1>5, <1>6 DEF IInv

(* and every step keeps it.                                                    *)
LEMMA IInvNext == IInv /\ [Next]_vars => IInv'
<1> SUFFICES ASSUME IInv, [Next]_vars PROVE IInv'
  OBVIOUS
<1>1. TypeOK /\ OneTurn /\ DriverFlag /\ Timed /\ Listed /\ WokenNext /\ HeardFirst
  BY DEF IInv
<1>2. TypeOK'
  BY <1>1, TypeNext
<1>3. CASE UNCHANGED vars
  <2>1. UNCHANGED <<clock, queue, driving, due, ready, cur, phase, cancelled, prio, owes, over, fired, nextId,
                    listeners, todo, plain, unheard>>
    BY <1>3 DEF vars, tvars, evars, turns, time
  <2>2. OneTurn' /\ DriverFlag'
    BY <1>1, <2>1 DEF OneTurn, DriverFlag, Parked
  <2>3. Timed' /\ Listed'
    BY <1>1, <2>1 DEF Timed, Listed, Entry, Promised
  <2>4. WokenNext'
    BY <1>1, <2>1 DEF WokenNext
  <2>5. HeardFirst'
    BY <1>1, <2>1 DEF HeardFirst, OnTurn, Behind, Live
  <2>. QED  BY <1>2, <2>2, <2>3, <2>4, <2>5 DEF IInv
<1>4. CASE Next
  <2>1. OneTurn' /\ DriverFlag'
    BY <1>1, <1>4, EveryTurn, Turning
  <2>2. Timed' /\ Listed' /\ WokenNext'
    BY <1>1, <1>4, TimedNext, ListedNext, WokenNextNext
  <2>3. HeardFirst'
    <3>1. CASE TimeNext /\ ForgetHeard /\ UNCHANGED <<todo, plain>>
      BY <1>1, <1>2, <1>4, <3>1, TimeHeard
    <3>2. CASE EventNext
      BY <1>1, <1>2, <1>4, <3>2, WaitHeard, PublishHeard, DeliverHeard DEF EventNext
    <3>. QED  BY <1>4, <3>1, <3>2 DEF Next
  <2>. QED  BY <1>2, <2>1, <2>2, <2>3 DEF IInv
<1>. QED  BY <1>3, <1>4

(* The inductive invariant holds in every run.                                 *)
THEOREM Invariant == Spec => []IInv
BY IInvInit, IInvNext, PTL DEF Spec

-------------------------------------------------------------------------------
(* What is kept.                                                               *)

(* The clock is driven once while a time is awaited, and the run finds nothing  *)
(* to do only when none is (_ensure_clock_driver, _clock_driver).              *)
THEOREM ClockIsServed == Spec => []ClockServed
<1>1. IInv => ClockServed
  <2> SUFFICES ASSUME IInv PROVE ClockServed
    OBVIOUS
  <2>1. TypeOK /\ OneTurn /\ DriverFlag /\ Timed
    BY DEF IInv
  <2>2. Turns(Driver) = IF driving THEN 1 ELSE 0
    <3>1. CASE cur = Driver
      <4>1. Places(ready, Driver) = {} /\ driving
        BY <2>1, <3>1, TaskAssumption DEF OneTurn, DriverFlag
      <4>2. Cardinality(Places(ready, Driver)) = 0
        BY <4>1, FS_EmptySet
      <4>. QED  BY <3>1, <4>1, <4>2 DEF Turns
    <3>2. CASE cur # Driver /\ Places(ready, Driver) = {}
      <4>1. Cardinality(Places(ready, Driver)) = 0
        BY <3>2, FS_EmptySet
      <4>. QED  BY <2>1, <3>2, <4>1 DEF Turns, DriverFlag
    <3>3. CASE cur # Driver /\ Places(ready, Driver) # {}
      <4>1. PICK z : Places(ready, Driver) = {z}
        BY <2>1, <3>3 DEF OneTurn, Single, Worker
      <4>2. Cardinality(Places(ready, Driver)) = 1
        BY <4>1, FS_Singleton
      <4>. QED  BY <2>1, <3>3, <4>2 DEF Turns, DriverFlag
    <3>. QED  BY <3>1, <3>2, <3>3
  <2>3. TimeIsReached
    BY <2>1 DEF TimeIsReached, Timed
  <2>. QED  BY <2>1, <2>2, <2>3 DEF ClockServed, DriverServes, DriverFlag
<1>. QED  BY <1>1, Invariant, PTL

(* No promise is completed twice, and who listens is listed or about to be     *)
(* woken (WaitForEvent and Publish of event_handler).                          *)
THEOREM NobodyLeftBehind == Spec => []NoneLeftBehind
<1>1. IInv => NoneLeftBehind
  <2> SUFFICES ASSUME IInv PROVE NoneLeftBehind
    OBVIOUS
  <2>1. Listed /\ TypeOK
    BY DEF IInv
  <2>2. PromiseOnce
    BY <2>1 DEF Listed, Promised, PromiseOnce
  <2>3. ASSUME NEW t \in Task, phase[t] = "listening"
        PROVE  \/ \E l \in listeners : l.id = owes[t]
               \/ \E u \in Task : phase[u] = "publishing" /\ [id |-> owes[t], task |-> t] \in todo[u]
    BY <2>1, <2>3 DEF Listed
  <2>. QED  BY <2>2, <2>3 DEF NoneLeftBehind
<1>. QED  BY <1>1, Invariant, PTL

(* Who wakes above IDLE wakes in time, and in the order of the times (the      *)
(* driver's heap of _clock_driver and the turn CompletePromise gives).         *)
THEOREM WakesOnTime == Spec => OnTime
<1>1. IInv /\ [Next]_vars =>
        [\A t \in Task : phase[t] = "woken" /\ cur' = t /\ prio[t] # IDLE =>
           /\ clock >= due[t]
           /\ \A u \in Task : Live(u) /\ phase[u] = "sleeping" =>
                due[t] < due[u] \/ (due[t] = due[u] /\ owes[t] < owes[u])]_vars
  BY DEF IInv, WokenNext
<1>. QED  BY <1>1, Invariant, PTL DEF Spec, OnTime

(* Nobody above IDLE hears of an event after the clock has moved on, or after  *)
(* its publisher has published again (Publish's loop of CompletePromise).      *)
THEOREM HearsFirst == Spec => DeliveryFirst
<1>1. IInv /\ [Next]_vars =>
        [\A t \in Task :
           /\ (\E e \in Event : Publish(t, e)) => \A u \in unheard[t] : ~Live(u)
           /\ cur = Driver /\ queue' # queue /\ t \in plain /\ Live(t) /\ prio[t] # IDLE =>
                (\A p \in todo[t] : ~Live(p.task)) /\ (\A u \in unheard[t] : ~Live(u))]_vars
  <2> SUFFICES ASSUME IInv, NEW t \in Task
      PROVE  /\ (\E e \in Event : Publish(t, e)) => \A u \in unheard[t] : ~Live(u)
             /\ cur = Driver /\ queue' # queue /\ t \in plain /\ Live(t) /\ prio[t] # IDLE =>
                  (\A p \in todo[t] : ~Live(p.task)) /\ (\A u \in unheard[t] : ~Live(u))
    OBVIOUS
  <2>1. TypeOK /\ HeardFirst /\ DriverFlag /\ Listed
    BY DEF IInv
  <2>2. (\E e \in Event : Publish(t, e)) => \A u \in unheard[t] : ~Live(u)
    BY <2>1 DEF Publish, Performs, HeardFirst
  <2>3. ASSUME cur = Driver, t \in plain, Live(t), prio[t] # IDLE PROVE ~OnTurn(t)
    <3>1. SUFFICES ASSUME OnTurn(t) PROVE FALSE
      OBVIOUS
    <3>2. PICK z \in Places(ready, t) : z[1] # IDLE
      BY <2>3, <3>1, TaskAssumption DEF OnTurn, Live
    <3>3. z[1] \in Priority /\ z[2] \in DOMAIN ready[z[1]]
      BY PlaceFacts
    <3>4. ready[z[1]] = <<>>
      BY <2>1, <2>3, <3>2, <3>3 DEF DriverFlag
    <3>. QED  BY <3>3, <3>4
  <2>4. ASSUME cur = Driver, t \in plain, Live(t), prio[t] # IDLE
        PROVE  (\A p \in todo[t] : ~Live(p.task)) /\ (\A u \in unheard[t] : ~Live(u))
    <3>1. phase[t] # "publishing" /\ \A u \in unheard[t] : ~Live(u)
      BY <2>1, <2>3, <2>4 DEF HeardFirst
    <3>. QED  BY <2>1, <3>1 DEF Listed
  <2>. QED  BY <2>2, <2>4
<1>. QED  BY <1>1, Invariant, PTL DEF Spec, DeliveryFirst
=================================================================================
