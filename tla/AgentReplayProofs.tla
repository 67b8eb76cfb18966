--------------------------- MODULE AgentReplayProofs ---------------------------
(***************************************************************************)
(* Proofs about AgentReplay: an agent's form evaluates to an artifact made *)
(* for exactly this call; the journal of a sequential workflow loads, and  *)
(* its successes are used again.                                           *)
(***************************************************************************)
EXTENDS AgentReplay, TLAPS, FiniteSetTheorems, SequenceTheorems, WellFoundedInduction

AskType == [node : Node, ver : Nat, inputs : SUBSET (Node \X Nat)]
EntryType == [gen : Nat, idx : Nat, key : AskType, kind : {Succeeded, OpenGate}, art : Nat]
SessionType == [prev : Seq(EntryType), gen : Nat, keys : Seq(AskType), replayed : Seq(EntryType),
                started : BOOLEAN]
Place == {"idle", "enter", "load", "arrive", "count", "replay", "regenerate",
          "copy", "delegate", "record", "parked", "done", "failed"}

Types ==
  /\ shape \in Shapes /\ ver \in [Node -> 0..MaxEdits[shape]]
  /\ journal \in Seq(EntryType)
  /\ runs \in 0..MaxRuns[shape] /\ run \in {"off", "running", "done", "blocked", "error"}
  /\ sess \in Seq(SessionType) /\ shared \in 0..Len(sess)
  /\ pc \in [Node -> Place] /\ my \in [Node -> 0..Len(sess)]
  /\ idx \in [Node -> 0..Cardinality(Used)] /\ cursor \in [Node -> Nat] /\ res \in [Node -> Nat]

(* The artifacts are numbered as they are made.                            *)
MadeInOrder ==
  /\ IsFiniteSet(made)
  /\ \A m \in made : m.ask \in AskType /\ m.art \in 1..Cardinality(made)
  /\ \A m, o \in made : m.art = o.art => m = o

(* Nothing of a process is left when it is gone.                           *)
OffIsEmpty ==
  run = "off" => sess = <<>> /\ \A n \in Node : pc[n] = "idle" /\ res[n] = 0

(* A worker made e's artifact for e's call.                                *)
Vouched(M, e) == e.kind = Succeeded => \E m \in M : m.art = e.art /\ m.ask = e.key

EntriesVouched ==
  /\ \A i \in DOMAIN journal : Vouched(made, journal[i])
  /\ \A s \in DOMAIN sess :
       /\ \A i \in DOMAIN sess[s].prev : Vouched(made, sess[s].prev[i])
       /\ \A i \in DOMAIN sess[s].replayed : Vouched(made, sess[s].replayed[i])

Before(i) == \A k \in 1..(i - 1) : Done(k)
Without == {"idle", "enter", "load"}
Thread(n) ==
  /\ pc[n] # "idle" => n \in Used /\ Before(StageOf(n))
  /\ res[n] # 0 <=> pc[n] = "done"
  /\ pc[n] \in Without => my[n] = 0
  /\ pc[n] \notin Without \cup {"failed"} => my[n] # 0
  /\ pc[n] \in {"regenerate", "copy"} => cursor[n] # 0
  /\ pc[n] = "replay" => /\ idx[n] \in DOMAIN S(n).prev
                         /\ S(n).prev[idx[n]].kind = Succeeded
  /\ pc[n] = "record" => \E m \in made : m.ask = Ask(n)
  /\ res[n] # 0 => \E m \in made : m.art = res[n] /\ m.ask = Ask(n)

(* Who has appended its key to the keys of the session s.                  *)
Arrived(s) == {n \in Node : my[n] = s /\ pc[n] \notin Without \cup {"arrive"}}
KeysCounted == \A s \in DOMAIN sess : Len(sess[s].keys) = Cardinality(Arrived(s))

IInv == Types /\ MadeInOrder /\ OffIsEmpty /\ EntriesVouched /\ KeysCounted /\ \A n \in Node : Thread(n)

-----------------------------------------------------------------------------
(* Numbers *)

(* A set of natural numbers that is not empty has a least element.         *)
LEMMA Least ==
  ASSUME NEW T \in SUBSET Nat, T # {}
  PROVE  \E x \in T : \A y \in T : x <= y
<1> DEFINE R == {ss \in Nat \X Nat : ss[1] < ss[2]}
<1>1. IsWellFoundedOn(R, Nat)
  BY NatLessThanWellFounded DEF OpToRel
<1>2. PICK x \in T : \A y \in T : ~ (<<y, x>> \in R)
  BY <1>1, WFMin
<1>3. ASSUME NEW y \in T PROVE x <= y
  <2>1. <<y, x>> \in Nat \X Nat /\ <<y, x>> \notin R
    BY <1>2
  <2>2. ~ (y < x)
    BY <2>1
  <2> QED
    BY <2>2
<1> QED
  BY <1>3

(* A bounded one has a greatest.                                           *)
LEMMA Greatest ==
  ASSUME NEW T \in SUBSET Nat, T # {}, NEW n \in Nat, \A x \in T : x <= n
  PROVE  Max(T) \in T /\ \A x \in T : x <= Max(T)
<1> DEFINE U == {m \in Nat : \A x \in T : x <= m}
<1>1. PICK m \in U : \A y \in U : m <= y
  <2>1. U \in SUBSET Nat /\ n \in U
    OBVIOUS
  <2> HIDE DEF U
  <2> QED
    BY <2>1, Least
<1>2. m \in T
  <2> SUFFICES ASSUME m \notin T PROVE FALSE
    OBVIOUS
  <2>1. PICK x \in T : TRUE
    OBVIOUS
  <2>2. \A y \in T : y <= m - 1
    OBVIOUS
  <2>3. m - 1 \in U
    BY <2>1, <2>2
  <2> QED
    BY <1>1, <2>3
<1>3. \E k \in T : \A x \in T : x <= k
  BY <1>1, <1>2
<1> QED
  BY <1>3 DEF Max

-----------------------------------------------------------------------------
(* Stages, calls and journals *)

(* Every agent has one stage.                                              *)
LEMMA StageFacts ==
  ASSUME shape \in Shapes
  PROVE  /\ shape \in Seq(SUBSET Node) /\ Stages = DOMAIN shape /\ Len(shape) \in Nat
         /\ Used \subseteq Node /\ IsFiniteSet(Used) /\ Cardinality(Used) \in Nat
         /\ \A n \in Used : StageOf(n) \in Stages /\ n \in shape[StageOf(n)]
         /\ \A i \in Stages : \A n \in shape[i] : n \in Used /\ StageOf(n) = i
<1>1. shape \in Seq(SUBSET Node) /\ \A i, k \in DOMAIN shape : i # k => shape[i] \cap shape[k] = {}
  BY ShapesPartition
<1>2. Stages = DOMAIN shape /\ Len(shape) \in Nat
  BY <1>1 DEF Stages
<1>3. \A n : n \in Used <=> \E i \in Stages : n \in shape[i]
  BY <1>2 DEF Used, Range
<1>4. Used \subseteq Node
  BY <1>1, <1>2, <1>3
<1>5. IsFiniteSet(Used) /\ Cardinality(Used) \in Nat
  BY <1>4, NodesFinite, FS_Subset, FS_CardinalityType
<1>6. ASSUME NEW n \in Used PROVE StageOf(n) \in Stages /\ n \in shape[StageOf(n)]
  BY <1>3 DEF StageOf
<1>7. ASSUME NEW i \in Stages, NEW n \in shape[i] PROVE n \in Used /\ StageOf(n) = i
  <2>1. n \in Used
    BY <1>3
  <2>2. StageOf(n) \in Stages /\ n \in shape[StageOf(n)]
    BY <1>6, <2>1
  <2> QED
    BY <1>1, <1>2, <2>1, <2>2
<1> QED
  BY <1>1, <1>2, <1>4, <1>5, <1>6, <1>7

(* What a worker is asked; it does not change once the agent is reached.   *)
LEMMA AskTyped ==
  ASSUME Types, NEW n \in Used
  PROVE  Ask(n) \in AskType
<1>1. n \in Node /\ StageOf(n) \in Stages /\ shape \in Seq(SUBSET Node) /\ Stages = DOMAIN shape
  BY StageFacts DEF Types
<1>2. Inputs(n) \in SUBSET (Node \X Nat)
  <2>1. CASE StageOf(n) = 1
    BY <2>1 DEF Inputs
  <2>2. CASE StageOf(n) # 1
    <3>1. StageOf(n) - 1 \in DOMAIN shape
      BY <1>1, <2>2
    <3>2. shape[StageOf(n) - 1] \subseteq Node
      BY <1>1, <3>1
    <3> QED
      BY <2>2, <3>2 DEF Inputs, Types
  <2> QED
    BY <2>1, <2>2
<1>3. ver[n] \in Nat
  <2>1. MaxEdits[shape] \in Nat
    BY BoundsNatural DEF Types
  <2> QED
    BY <1>1, <2>1 DEF Types
<1> QED
  BY <1>1, <1>2, <1>3 DEF Ask, AskType

(* What a node asks stays the same while its inputs have results and nothing *)
(* is redirected.                                                            *)
LEMMA AskStable ==
  ASSUME Types, shape' = shape, ver' = ver, \A m \in Node : res[m] # 0 => res'[m] = res[m],
         NEW n \in Used, Before(StageOf(n))
  PROVE  Ask(n)' = Ask(n)
<1>1. /\ shape \in Seq(SUBSET Node) /\ StageOf(n) \in Stages /\ Stages = DOMAIN shape
      /\ StageOf(n)' = StageOf(n)
  BY StageFacts DEF Types, StageOf, Stages
<1>2. Inputs(n)' = Inputs(n)
  <2>1. CASE StageOf(n) = 1
    BY <1>1, <2>1 DEF Inputs
  <2>2. CASE StageOf(n) # 1
    <3>1. StageOf(n) - 1 \in 1..(StageOf(n) - 1) /\ StageOf(n) - 1 \in DOMAIN shape
      BY <1>1, <2>2
    <3>2. Done(StageOf(n) - 1) /\ shape[StageOf(n) - 1] \subseteq Node
      BY <1>1, <3>1 DEF Before
    <3>3. \A m \in shape[StageOf(n) - 1] : res'[m] = res[m]
      BY <3>2 DEF Done
    <3> QED
      BY <1>1, <2>2, <3>3 DEF Inputs
  <2> QED
    BY <2>1, <2>2
<1> QED
  BY <1>1, <1>2 DEF Ask

(* What was done stays done.                                               *)
LEMMA BeforeStable ==
  ASSUME Types, shape' = shape, \A m \in Node : res[m] # 0 => res'[m] = res[m],
         NEW n \in Used, Before(StageOf(n))
  PROVE  n \in Used' /\ Before(StageOf(n))'
<1>1. /\ shape \in Seq(SUBSET Node) /\ StageOf(n) \in Stages /\ Stages = DOMAIN shape
      /\ StageOf(n)' = StageOf(n) /\ Used' = Used
  BY StageFacts DEF Types, StageOf, Stages, Used
<1>2. ASSUME NEW k \in 1..(StageOf(n) - 1) PROVE Done(k)'
  <2>1. Done(k) /\ k \in DOMAIN shape
    BY <1>1 DEF Before
  <2>2. shape[k] \subseteq Node
    BY <1>1, <2>1
  <2> QED
    BY <2>1, <2>2 DEF Done
<1> QED
  BY <1>1, <1>2 DEF Before

(* The generations in a journal are bounded.                               *)
LEMMA JournalBounded ==
  ASSUME NEW j \in Seq(EntryType)
  PROVE  \E b \in Nat : \A i \in DOMAIN j : j[i].gen <= b
<1> DEFINE Bound(m) == \E b \in Nat : \A i \in DOMAIN j : i <= m => j[i].gen <= b
           T == {m \in Nat : ~ Bound(m)}
<1>1. /\ \A i \in DOMAIN j : i \in 1..Len(j) /\ j[i].gen \in Nat
      /\ DOMAIN j = 1..Len(j) /\ Len(j) \in Nat
  <2>1. \A i \in DOMAIN j : j[i] \in EntryType
    OBVIOUS
  <2> QED
    BY <2>1 DEF EntryType
<1>2. ASSUME T # {} PROVE FALSE
  <2>1. PICK m \in T : \A y \in T : m <= y
    <3>1. T \in SUBSET Nat
      OBVIOUS
    <3> HIDE DEF T
    <3> QED
      BY <1>2, <3>1, Least
  <2>2. m \in Nat /\ ~ Bound(m)
    BY <2>1
  <2>3. m # 0
    <3>1. \A i \in DOMAIN j : ~ (i <= 0)
      BY <1>1
    <3>2. Bound(0)
      BY <3>1
    <3> QED
      BY <2>2, <3>2
  <2>4. m - 1 \in Nat /\ ~ (m <= m - 1)
    BY <2>2, <2>3
  <2>5. Bound(m - 1)
    <3> HIDE DEF Bound
    <3> QED
      BY <2>1, <2>4
  <2>6. PICK b \in Nat : \A i \in DOMAIN j : i <= m - 1 => j[i].gen <= b
    BY <2>5
  <2>7. \E c \in Nat : b <= c /\ (m \in DOMAIN j => j[m].gen <= c)
    <3>1. CASE m \in DOMAIN j
      <4>1. j[m].gen \in Nat
        BY <1>1, <3>1
      <4> DEFINE x == j[m].gen
      <4>2. x \in Nat /\ b \in Nat
        BY <2>6, <4>1
      <4> HIDE DEF x, T, Bound
      <4>3. b + x \in Nat /\ b <= b + x /\ x <= b + x
        BY <4>2
      <4> QED
        BY <4>3 DEF x
    <3>2. CASE m \notin DOMAIN j
      BY <2>6, <3>2
    <3> QED
      BY <3>1, <3>2
  <2>8. PICK c \in Nat : b <= c /\ (m \in DOMAIN j => j[m].gen <= c)
    BY <2>7
  <2>9. ASSUME NEW i \in DOMAIN j, i <= m PROVE j[i].gen <= c
    <3>1. CASE i = m
      BY <2>8, <3>1
    <3>2. CASE i # m
      <4>1. i \in Nat /\ j[i].gen \in Nat
        BY <1>1
      <4>2. i <= m - 1
        BY <2>2, <2>9, <3>2, <4>1
      <4>3. j[i].gen <= b
        BY <2>6, <4>2
      <4> DEFINE x == j[i].gen
      <4>4. x \in Nat /\ b \in Nat /\ c \in Nat /\ x <= b /\ b <= c
        BY <2>6, <2>8, <4>1, <4>3
      <4> HIDE DEF x, T, Bound
      <4>5. x <= c
        BY <4>4
      <4> QED
        BY <4>5 DEF x
    <3> QED
      BY <3>1, <3>2
  <2> QED
    BY <2>2, <2>9
<1>3. Len(j) \notin T
  <2> HIDE DEF T
  <2> QED
    BY <1>2
<1>4. PICK b \in Nat : \A i \in DOMAIN j : i <= Len(j) => j[i].gen <= b
  BY <1>1, <1>3
<1> HIDE DEF T, Bound
<1>5. \A i \in DOMAIN j : j[i].gen <= b
  BY <1>1, <1>4
<1> QED
  BY <1>4, <1>5

(* The last generation is that of an entry.                                *)
LEMMA GenerationTyped ==
  ASSUME NEW j \in Seq(EntryType)
  PROVE  /\ Generation(j) \in Nat
         /\ j # <<>> => /\ \E i \in DOMAIN j : Generation(j) = j[i].gen
                        /\ \A i \in DOMAIN j : j[i].gen <= Generation(j)
<1>1. CASE j = <<>>
  BY <1>1 DEF Generation
<1>2. CASE j # <<>>
  <2> DEFINE G == {j[i].gen : i \in DOMAIN j}
  <2>2. G \in SUBSET Nat /\ G # {}
    <3>1. \A i \in DOMAIN j : j[i] \in EntryType
      OBVIOUS
    <3>2. 1 \in DOMAIN j
      BY <1>2
    <3> QED
      BY <3>1, <3>2 DEF EntryType
  <2>3. \E n \in Nat : \A x \in G : x <= n
    BY JournalBounded
  <2> HIDE DEF G
  <2>4. Max(G) \in G /\ \A x \in G : x <= Max(G)
    BY <2>2, <2>3, Greatest
  <2> QED
    BY <1>2, <2>2, <2>4 DEF Generation, G
<1> QED
  BY <1>1, <1>2

(* The last generation of a journal that loads: its entries, in order.     *)
LEMMA LatestFacts ==
  ASSUME NEW j \in Seq(EntryType), Contiguous(j)
  PROVE  /\ Latest(j) \in Seq(EntryType)
         /\ \A k \in DOMAIN Latest(j) :
              /\ \E i \in DOMAIN j : Latest(j)[k] = j[i]
              /\ Latest(j)[k].idx = k /\ Latest(j)[k].gen = Generation(j)
<1> DEFINE L == LastEntries(j)
           c == Cardinality(L)
<1>1. IsFiniteSet(L) /\ c \in Nat
  <2>1. L \in SUBSET (1..Len(j)) /\ Len(j) \in Nat
    BY DEF LastEntries
  <2>2. IsFiniteSet(1..Len(j))
    BY <2>1, FS_Interval
  <2> HIDE DEF L
  <2>3. IsFiniteSet(L)
    BY <2>1, <2>2, FS_Subset
  <2> QED
    BY <2>3, FS_CardinalityType
<1>2. Latest(j) = [k \in 1..c |-> j[CHOOSE i \in L : j[i].idx = k]]
  BY DEF Latest
<1>3. ASSUME NEW k \in 1..c
      PROVE  \E i \in L : j[i].idx = k
  BY <1>3 DEF Contiguous
<1>4. \A i \in L : i \in DOMAIN j /\ j[i].gen = Generation(j)
  BY DEF LastEntries
<1> HIDE DEF L, c
<1>5. ASSUME NEW k \in 1..c
      PROVE  \E i \in L : Latest(j)[k] = j[i] /\ j[i].idx = k
  <2>1. (CHOOSE i \in L : j[i].idx = k) \in L /\ j[CHOOSE i \in L : j[i].idx = k].idx = k
    BY <1>3
  <2> QED
    BY <1>2, <2>1
<1>6. ASSUME NEW k \in 1..c PROVE Latest(j)[k] \in EntryType
  BY <1>4, <1>5
<1>7. Latest(j) \in Seq(EntryType) /\ DOMAIN Latest(j) = 1..c
  <2>1. DOMAIN Latest(j) = 1..c
    BY <1>2
  <2>2. Latest(j) = [k \in 1..c |-> Latest(j)[k]]
    BY <1>2
  <2>3. Latest(j) \in [1..c -> EntryType]
    BY <1>6, <2>2
  <2>4. Seq(EntryType) = UNION {[1..n -> EntryType] : n \in Nat}
    BY SeqDef
  <2> QED
    BY <1>1, <2>1, <2>3, <2>4
<1> QED
  BY <1>4, <1>5, <1>7

-----------------------------------------------------------------------------
(* Steps of one thread *)

(* The sessions only become more, and keep what they read.                 *)
SessGrow ==
  /\ DOMAIN sess \subseteq DOMAIN sess'
  /\ \A s \in DOMAIN sess : sess'[s].prev = sess[s].prev

(* The thread of n takes a step, and disturbs nobody's call.               *)
StepOf(n) ==
  /\ run # "off" /\ run' \in {"running", "done", "blocked", "error"}
  /\ UNCHANGED <<shape, ver, runs>>
  /\ \A m \in Node \ {n} : /\ pc'[m] = pc[m] /\ my'[m] = my[m] /\ idx'[m] = idx[m]
                           /\ cursor'[m] = cursor[m] /\ res'[m] = res[m]
  /\ res[n] # 0 => res'[n] = res[n]
  /\ made \subseteq made' /\ SessGrow

(* A step of another node leaves what is known of a node's thread.           *)
LEMMA ThreadKept ==
  ASSUME Types, NEW n \in Node, StepOf(n), NEW m \in Node, Thread(m),
         pc'[m] = pc[m], my'[m] = my[m], idx'[m] = idx[m], cursor'[m] = cursor[m], res'[m] = res[m]
  PROVE  Thread(m)'
<1>1. shape' = shape /\ ver' = ver /\ \A k \in Node : res[k] # 0 => res'[k] = res[k]
  BY DEF StepOf
<1>2. pc[m] # "idle" => m \in Used' /\ Before(StageOf(m))' /\ Ask(m)' = Ask(m)
  BY <1>1, AskStable, BeforeStable DEF Thread
<1>3. pc[m] = "replay" => S(m)'.prev = S(m).prev
  <2>1. pc[m] = "replay" => my[m] \in DOMAIN sess
    <3>1. my[m] \in 0..Len(sess) /\ sess \in Seq(SessionType)
      BY DEF Types
    <3> QED
      BY <3>1 DEF Thread, Without
  <2> QED
    BY <2>1 DEF S, StepOf, SessGrow
<1>4. made \subseteq made'
  BY DEF StepOf
<1> QED
  BY <1>2, <1>3, <1>4 DEF Thread

(* For a step of one node only the journal, the sessions and its own thread  *)
(* have to be shown sound.                                                   *)
LEMMA Together ==
  ASSUME IInv, NEW n \in Node, StepOf(n), Types', MadeInOrder', EntriesVouched', KeysCounted', Thread(n)'
  PROVE  IInv'
<1>1. ASSUME NEW m \in Node PROVE Thread(m)'
  <2>1. CASE m = n
    BY <2>1
  <2>2. CASE m # n
    BY <2>2, ThreadKept DEF IInv, StepOf
  <2> QED
    BY <2>1, <2>2
<1>2. OffIsEmpty'
  BY DEF OffIsEmpty, StepOf
<1> QED
  BY <1>1, <1>2 DEF IInv

(* No key is appended: the counts stay.                                    *)
LEMMA CountKept ==
  ASSUME Types, NEW n \in Node, StepOf(n), KeysCounted, DOMAIN sess' = DOMAIN sess,
         \A s \in DOMAIN sess : sess'[s].keys = sess[s].keys,
         \A s \in DOMAIN sess : (my'[n] = s /\ pc'[n] \notin Without \cup {"arrive"})
                            <=> (my[n] = s /\ pc[n] \notin Without \cup {"arrive"})
  PROVE  KeysCounted'
<1>1. ASSUME NEW s \in DOMAIN sess PROVE Arrived(s)' = Arrived(s)
  BY DEF Arrived, StepOf
<1> QED
  BY <1>1 DEF KeysCounted

(* A session is changed, and no entry in it comes or goes.                 *)
LEMMA SessionChange ==
  ASSUME Types, NEW s \in DOMAIN sess, NEW r \in SessionType, sess' = [sess EXCEPT ![s] = r],
         r.prev = sess[s].prev
  PROVE  /\ sess' \in Seq(SessionType) /\ Len(sess') = Len(sess) /\ DOMAIN sess' = DOMAIN sess
         /\ SessGrow /\ sess'[s] = r /\ \A t \in DOMAIN sess : t # s => sess'[t] = sess[t]
  BY DEF Types, SessGrow

(* The types of what no step of a thread changes.                          *)
LEMMA TypesTogether ==
  ASSUME Types, NEW n \in Node, UNCHANGED <<shape, ver, runs>>,
         run' \in {"off", "running", "done", "blocked", "error"},
         journal' \in Seq(EntryType), sess' \in Seq(SessionType), shared' \in 0..Len(sess'),
         pc' \in [Node -> Place], my' \in [Node -> 0..Len(sess')],
         idx' \in [Node -> 0..Cardinality(Used)], cursor' \in [Node -> Nat], res' \in [Node -> Nat]
  PROVE  Types'
<1>1. Used' = Used
  BY DEF Used
<1> QED
  BY <1>1 DEF Types

(* What a thread in a call has.                                            *)
LEMMA InCall ==
  ASSUME IInv, NEW n \in Node, NEW where \in Place \ (Without \cup {"failed"}), At(n, where)
  PROVE  /\ run # "off" /\ pc[n] = where /\ n \in Used /\ Before(StageOf(n)) /\ my[n] \in DOMAIN sess
         /\ S(n) = sess[my[n]] /\ S(n) \in SessionType /\ (where # "done" => res[n] = 0)
         /\ Ask(n) \in AskType /\ Types /\ Thread(n)
<1>1. Types /\ Thread(n) /\ pc[n] = where /\ run # "off"
  BY DEF IInv, At
<1>2. my[n] \in DOMAIN sess
  <2>1. my[n] \in 0..Len(sess) /\ sess \in Seq(SessionType) /\ my[n] # 0
    BY <1>1 DEF Types, Thread
  <2> QED
    BY <2>1
<1>3. n \in Used /\ Before(StageOf(n)) /\ (where # "done" => res[n] = 0)
  BY <1>1 DEF Thread, Without
<1>4. S(n) = sess[my[n]] /\ S(n) \in SessionType
  BY <1>1, <1>2 DEF S, Types
<1> QED
  BY <1>1, <1>2, <1>3, <1>4, AskTyped

-----------------------------------------------------------------------------
(* Every step keeps the invariant *)

(* A node enters the handler: it takes the shared session, or loads one of   *)
(* its own.                                                                  *)
LEMMA EnterHandlerStep ==
  ASSUME IInv, NEW n \in Node, EnterHandler(n)
  PROVE  IInv'
<1>1. /\ Types /\ Thread(n) /\ pc[n] = "enter" /\ run # "off"
      /\ UNCHANGED <<shape, ver, journal, runs, run, sess, shared, idx, cursor, res, made>>
  BY DEF IInv, EnterHandler, At, disk
<1>2. /\ pc' \in [Node -> Place] /\ my' \in [Node -> 0..Len(sess')]
      /\ \A m \in Node \ {n} : pc'[m] = pc[m] /\ my'[m] = my[m]
      /\ \/ shared = 0 /\ pc'[n] = "load" /\ my'[n] = my[n]
         \/ shared # 0 /\ pc'[n] = "arrive" /\ my'[n] = shared
  BY <1>1 DEF EnterHandler, Go, Types, Place
<1>3. StepOf(n)
  BY <1>1, <1>2 DEF StepOf, SessGrow, Types
<1>4. Types'
  BY <1>1, <1>2, TypesTogether DEF Types
<1>5. EntriesVouched' /\ MadeInOrder'
  BY <1>1 DEF IInv, EntriesVouched, Vouched, MadeInOrder
<1>6. KeysCounted'
  BY <1>1, <1>2, <1>3, CountKept DEF IInv, Without
<1>7. Thread(n)'
  <2>1. n \in Used' /\ Before(StageOf(n))'
    BY <1>1, BeforeStable DEF Thread
  <2> QED
    BY <1>1, <1>2, <2>1 DEF Thread, Without
<1> QED
  BY <1>3, <1>4, <1>5, <1>6, <1>7, Together

(* A thread that raises.                                                   *)
LEMMA RaiseStep ==
  ASSUME IInv, NEW n \in Node, run # "off", pc[n] \notin {"idle", "arrive", "done"},
         pc[n] \in Without => pc[n] = "load",
         Raise(n), UNCHANGED <<shape, ver, journal, runs, sess, shared, my, idx, cursor, res, made>>
  PROVE  IInv'
<1>1. Types /\ Thread(n)
  BY DEF IInv
<1>2. /\ pc' \in [Node -> Place] /\ run' = "error" /\ pc'[n] = "failed"
      /\ \A m \in Node \ {n} : pc'[m] = pc[m]
  BY <1>1 DEF Raise, Go, Types, Place
<1>3. StepOf(n)
  BY <1>1, <1>2 DEF StepOf, SessGrow
<1>4. Types'
  BY <1>1, <1>2, TypesTogether DEF Types
<1>5. EntriesVouched' /\ MadeInOrder'
  BY DEF IInv, EntriesVouched, Vouched, MadeInOrder
<1>6. KeysCounted'
  <2>1. \A s \in DOMAIN sess : my[n] = s => pc[n] # "load"
    BY <1>1 DEF Thread, Without, Types
  <2>2. \A s \in DOMAIN sess : (my'[n] = s /\ pc'[n] \notin Without \cup {"arrive"})
                           <=> (my[n] = s /\ pc[n] \notin Without \cup {"arrive"})
    BY <1>2, <2>1 DEF Without
  <2> QED
    BY <1>1, <1>3, <2>2, CountKept DEF IInv
<1>7. Thread(n)'
  <2>1. n \in Used' /\ Before(StageOf(n))'
    BY <1>1, BeforeStable DEF Thread
  <2>2. res[n] = 0
    BY <1>1 DEF Thread
  <2> QED
    BY <1>1, <1>2, <2>1, <2>2 DEF Thread, Without
<1> QED
  BY <1>3, <1>4, <1>5, <1>6, <1>7, Together

(* A journal that is not contiguous is refused: the node fails.              *)
LEMMA LoadSessionStep ==
  ASSUME IInv, NEW n \in Node, LoadSession(n)
  PROVE  IInv'
  BY RaiseStep DEF LoadSession, At, disk, thread

(* A new session: it replays the latest generation and starts no generation  *)
(* itself.                                                                   *)
LEMMA NewSessionStep ==
  ASSUME IInv, NEW n \in Node, NewSession(n)
  PROVE  IInv'
<1> DEFINE r == [prev |-> Latest(journal), gen |-> Generation(journal),
                 keys |-> <<>>, replayed |-> <<>>, started |-> FALSE]
<1>1. /\ Types /\ Thread(n) /\ pc[n] = "load" /\ run # "off" /\ Contiguous(journal)
      /\ sess' = Append(sess, r) /\ shared' = Len(sess')
      /\ my' = [my EXCEPT ![n] = Len(sess')] /\ pc' = [pc EXCEPT ![n] = "arrive"]
      /\ UNCHANGED <<shape, ver, journal, runs, run, idx, cursor, res, made>>
  BY DEF IInv, NewSession, At, Go, disk, Loadable
<1>2. /\ Latest(journal) \in Seq(EntryType)
      /\ \A k \in DOMAIN Latest(journal) : \E i \in DOMAIN journal : Latest(journal)[k] = journal[i]
  BY <1>1, LatestFacts DEF Types
<1>3. Generation(journal) \in Nat
  BY <1>1, GenerationTyped DEF Types
<1>4. r \in SessionType /\ r.keys = <<>> /\ r.replayed = <<>> /\ r.prev = Latest(journal)
  BY <1>2, <1>3 DEF SessionType
<1> HIDE DEF r
<1>5. /\ sess' \in Seq(SessionType) /\ Len(sess') = Len(sess) + 1 /\ Len(sess) \in Nat
      /\ DOMAIN sess = 1..Len(sess) /\ DOMAIN sess' = 1..(Len(sess) + 1)
      /\ sess'[Len(sess) + 1] = r /\ \A s \in DOMAIN sess : sess'[s] = sess[s]
  BY <1>1, <1>4 DEF Types
<1>6. /\ pc' \in [Node -> Place] /\ my' \in [Node -> 0..Len(sess')]
      /\ pc'[n] = "arrive" /\ my'[n] = Len(sess) + 1
      /\ \A m \in Node \ {n} : pc'[m] = pc[m] /\ my'[m] = my[m]
  BY <1>1, <1>5 DEF Types, Place
<1>7. StepOf(n)
  BY <1>1, <1>5, <1>6 DEF StepOf, SessGrow, Types
<1>8. Types'
  BY <1>1, <1>5, <1>6, TypesTogether DEF Types
<1>9. MadeInOrder'
  BY <1>1 DEF IInv, MadeInOrder
<1>10. EntriesVouched'
  <2>1. ASSUME NEW s \in DOMAIN sess'
        PROVE  /\ \A i \in DOMAIN sess'[s].prev : Vouched(made, sess'[s].prev[i])
               /\ \A i \in DOMAIN sess'[s].replayed : Vouched(made, sess'[s].replayed[i])
    <3>1. CASE s \in DOMAIN sess
      BY <1>5, <3>1 DEF IInv, EntriesVouched
    <3>2. CASE s = Len(sess) + 1
      BY <1>2, <1>4, <1>5, <3>2 DEF IInv, EntriesVouched
    <3> QED
      BY <1>5, <3>1, <3>2
  <2> QED
    BY <1>1, <2>1 DEF IInv, EntriesVouched, Vouched
<1>11. KeysCounted'
  <2> SUFFICES ASSUME NEW s \in DOMAIN sess' PROVE Len(sess'[s].keys) = Cardinality(Arrived(s)')
    BY DEF KeysCounted
  <2>1. CASE s \in DOMAIN sess
    <3>1. Arrived(s)' = Arrived(s)
      BY <1>1, <1>5, <1>6, <2>1 DEF Arrived, Without
    <3> QED
      BY <1>5, <2>1, <3>1 DEF IInv, KeysCounted
  <2>2. CASE s = Len(sess) + 1
    <3>1. \A m \in Node \ {n} : my'[m] \in 0..Len(sess)
      BY <1>1, <1>6 DEF Types
    <3>2. Arrived(s)' = {}
      BY <1>5, <1>6, <2>2, <3>1 DEF Arrived
    <3> QED
      BY <1>4, <1>5, <2>2, <3>2, FS_EmptySet
  <2> QED
    BY <1>5, <2>1, <2>2
<1>12. Thread(n)'
  <2>1. n \in Used' /\ Before(StageOf(n))'
    BY <1>1, BeforeStable DEF Thread
  <2> QED
    BY <1>1, <1>5, <1>6, <2>1 DEF Thread, Without
<1> QED
  BY <1>7, <1>8, <1>9, <1>10, <1>11, <1>12, Together

(* A step inside a call: the thread goes from one place to another, its    *)
(* session keeps what it read and counted, the journal may grow by an      *)
(* entry, and what the thread claims at the new place is true.             *)
Inside(n, where, to, r) ==
  /\ At(n, where) /\ pc' = [pc EXCEPT ![n] = to]
  /\ UNCHANGED <<shape, ver, runs, shared, my>>
  /\ run' \in {"running", "done", "blocked", "error"}
  /\ idx' \in [Node -> 0..Cardinality(Used)] /\ cursor' \in [Node -> Nat] /\ res' \in [Node -> Nat]
  /\ \A m \in Node \ {n} : idx'[m] = idx[m] /\ cursor'[m] = cursor[m] /\ res'[m] = res[m]
  /\ sess' = [sess EXCEPT ![my[n]] = r] /\ r.prev = S(n).prev /\ r.keys = S(n).keys
  /\ \A i \in DOMAIN r.replayed : \/ \E k \in DOMAIN S(n).replayed : r.replayed[i] = S(n).replayed[k]
                                  \/ Vouched(made, r.replayed[i])
  /\ \/ journal' = journal
     \/ \E e \in EntryType : journal' = Append(journal, e) /\ Vouched(made', e)
  /\ made \subseteq made' /\ MadeInOrder'
  /\ res'[n] # 0 <=> to = "done"
  /\ to \in {"regenerate", "copy"} => cursor'[n] # 0
  /\ to = "replay" => idx'[n] \in DOMAIN S(n).prev /\ S(n).prev[idx'[n]].kind = Succeeded
  /\ to = "record" => \E m \in made' : m.ask = Ask(n)
  /\ res'[n] # 0 => \E m \in made' : m.art = res'[n] /\ m.ask = Ask(n)

(* What has been vouched for stays so.                                     *)
LEMMA VouchedStable ==
  ASSUME NEW M, NEW N, M \subseteq N, NEW e, Vouched(M, e)
  PROVE  Vouched(N, e)
  BY DEF Vouched

(* Such a step keeps the invariant.                                        *)
LEMMA InsideStep ==
  ASSUME IInv, NEW n \in Node, NEW where \in Place \ (Without \cup {"arrive", "done", "failed"}),
         NEW to \in Place \ (Without \cup {"arrive", "failed"}), NEW r \in SessionType,
         Inside(n, where, to, r)
  PROVE  IInv'
<1>1. /\ run # "off" /\ pc[n] = where /\ n \in Used /\ Before(StageOf(n)) /\ my[n] \in DOMAIN sess
      /\ S(n) = sess[my[n]] /\ res[n] = 0 /\ Types /\ Thread(n)
  <2>1. At(n, where) /\ where \in Place \ (Without \cup {"failed"}) /\ where # "done"
    BY DEF Inside
  <2> QED
    BY <2>1, InCall
<1>2. /\ pc' \in [Node -> Place] /\ pc'[n] = to /\ \A m \in Node \ {n} : pc'[m] = pc[m]
      /\ UNCHANGED <<shape, ver, runs, shared, my>> /\ made \subseteq made' /\ MadeInOrder'
      /\ run' \in {"running", "done", "blocked", "error"}
  BY <1>1 DEF Inside, Types
<1>3. /\ sess' \in Seq(SessionType) /\ Len(sess') = Len(sess) /\ DOMAIN sess' = DOMAIN sess
      /\ SessGrow /\ sess'[my[n]] = r /\ \A t \in DOMAIN sess : t # my[n] => sess'[t] = sess[t]
      /\ r.prev = sess[my[n]].prev /\ r.keys = sess[my[n]].keys
  <2>1. sess' = [sess EXCEPT ![my[n]] = r] /\ r.prev = sess[my[n]].prev /\ r.keys = sess[my[n]].keys
    BY <1>1 DEF Inside
  <2> QED
    BY <1>1, <2>1, SessionChange
<1>4. StepOf(n)
  BY <1>1, <1>2, <1>3 DEF StepOf, Inside
<1>5. journal' \in Seq(EntryType)
  <2>1. journal \in Seq(EntryType)
    BY <1>1 DEF Types
  <2>2. journal' = journal \/ \E e \in EntryType : journal' = Append(journal, e)
    BY DEF Inside
  <2> QED
    BY <2>1, <2>2
<1>6. Types'
  <2>1. idx' \in [Node -> 0..Cardinality(Used)] /\ cursor' \in [Node -> Nat] /\ res' \in [Node -> Nat]
    BY DEF Inside
  <2>2. shared' \in 0..Len(sess') /\ my' \in [Node -> 0..Len(sess')]
    BY <1>1, <1>2, <1>3 DEF Types
  <2> QED
    BY <1>1, <1>2, <1>3, <1>5, <2>1, <2>2, TypesTogether
<1>7. EntriesVouched'
  <2>1. ASSUME NEW i \in DOMAIN journal' PROVE Vouched(made', journal'[i])
    <3>1. CASE journal' = journal
      BY <1>2, <2>1, <3>1, VouchedStable DEF IInv, EntriesVouched
    <3>2. ASSUME NEW e \in EntryType, journal' = Append(journal, e), Vouched(made', e) PROVE Vouched(made', journal'[i])
      <4>1. (i \in DOMAIN journal /\ journal'[i] = journal[i]) \/ journal'[i] = e
        BY <1>1, <2>1, <3>2 DEF Types
      <4> QED
        BY <1>2, <3>2, <4>1, VouchedStable DEF IInv, EntriesVouched
    <3> QED
      BY <3>1, <3>2 DEF Inside
  <2>2. ASSUME NEW s \in DOMAIN sess', NEW i \in DOMAIN sess'[s].prev PROVE Vouched(made', sess'[s].prev[i])
    <3>1. s \in DOMAIN sess /\ sess'[s].prev = sess[s].prev
      BY <1>3 DEF SessGrow
    <3>2. Vouched(made, sess[s].prev[i])
      BY <2>2, <3>1 DEF IInv, EntriesVouched
    <3> QED
      BY <1>2, <3>1, <3>2, VouchedStable
  <2>3. ASSUME NEW s \in DOMAIN sess', NEW i \in DOMAIN sess'[s].replayed PROVE Vouched(made', sess'[s].replayed[i])
    <3>1. CASE s = my[n]
      <4>1. i \in DOMAIN r.replayed
        BY <1>3, <2>3, <3>1
      <4>2. \/ \E k \in DOMAIN sess[s].replayed : r.replayed[i] = sess[s].replayed[k]
            \/ Vouched(made, r.replayed[i])
        BY <1>1, <3>1, <4>1 DEF Inside
      <4>3. Vouched(made, r.replayed[i])
        BY <1>1, <3>1, <4>2 DEF IInv, EntriesVouched
      <4> QED
        BY <1>2, <1>3, <3>1, <4>3, VouchedStable
    <3>2. CASE s # my[n]
      <4>1. Vouched(made, sess[s].replayed[i]) /\ sess'[s] = sess[s]
        BY <1>3, <2>3, <3>2 DEF IInv, EntriesVouched
      <4> QED
        BY <1>2, <4>1, VouchedStable
    <3> QED
      BY <3>1, <3>2
  <2> QED
    BY <2>1, <2>2, <2>3 DEF EntriesVouched
<1>8. KeysCounted'
  <2>1. \A s \in DOMAIN sess : sess'[s].keys = sess[s].keys
    BY <1>3
  <2>2. \A s \in DOMAIN sess : (my'[n] = s /\ pc'[n] \notin Without \cup {"arrive"})
                           <=> (my[n] = s /\ pc[n] \notin Without \cup {"arrive"})
    BY <1>1, <1>2
  <2> QED
    BY <1>1, <1>3, <1>4, <2>1, <2>2, CountKept DEF IInv
<1>9. Thread(n)'
  <2>1. \A m \in Node : res[m] # 0 => res'[m] = res[m]
    BY <1>1 DEF Inside
  <2>2. n \in Used' /\ Before(StageOf(n))' /\ Ask(n)' = Ask(n)
    BY <1>1, <1>2, <2>1, BeforeStable, AskStable
  <2>3. S(n)' = r /\ r.prev = S(n).prev /\ my'[n] = my[n] /\ my[n] # 0
    BY <1>1, <1>2, <1>3 DEF S, Types
  <2>4. /\ res'[n] # 0 <=> to = "done"
        /\ to \in {"regenerate", "copy"} => cursor'[n] # 0
        /\ to = "replay" => idx'[n] \in DOMAIN S(n).prev /\ S(n).prev[idx'[n]].kind = Succeeded
        /\ to = "record" => \E m \in made' : m.ask = Ask(n)
        /\ res'[n] # 0 => \E m \in made' : m.art = res'[n] /\ m.ask = Ask(n)
    BY DEF Inside
  <2> QED
    BY <1>2, <2>2, <2>3, <2>4 DEF Thread, Without
<1> QED
  BY <1>2, <1>4, <1>6, <1>7, <1>8, <1>9, Together

(* A new key is one more thread that has arrived.                          *)
LEMMA ArriveKeyStep ==
  ASSUME IInv, NEW n \in Node, ArriveKey(n)
  PROVE  IInv'
<1> DEFINE r == [S(n) EXCEPT !.keys = Append(@, Key(n))]
<1>1. /\ run # "off" /\ pc[n] = "arrive" /\ n \in Used /\ Before(StageOf(n)) /\ my[n] \in DOMAIN sess
      /\ S(n) = sess[my[n]] /\ S(n) \in SessionType /\ res[n] = 0 /\ Ask(n) \in AskType /\ Types /\ Thread(n)
  <2>1. At(n, "arrive") /\ "arrive" \in Place \ (Without \cup {"failed"})
    BY DEF ArriveKey, Place, Without
  <2> QED
    BY <2>1, InCall
<1>2. /\ sess' = [sess EXCEPT ![my[n]] = r] /\ pc' = [pc EXCEPT ![n] = "count"]
      /\ UNCHANGED <<shape, ver, journal, runs, run, shared, my, idx, cursor, res, made>>
  BY <1>1 DEF ArriveKey, Go, disk, thread
<1>3. /\ r \in SessionType /\ r.prev = S(n).prev /\ r.replayed = S(n).replayed
      /\ r.keys = Append(S(n).keys, Key(n)) /\ Len(r.keys) = Len(S(n).keys) + 1
  <2>1. Key(n) \in AskType /\ S(n).keys \in Seq(AskType)
    BY <1>1 DEF SessionType, Key
  <2>2. Append(S(n).keys, Key(n)) \in Seq(AskType) /\ Len(Append(S(n).keys, Key(n))) = Len(S(n).keys) + 1
    BY <2>1
  <2> QED
    BY <1>1, <2>2 DEF SessionType
<1> HIDE DEF r
<1>4. /\ pc' \in [Node -> Place] /\ pc'[n] = "count" /\ \A m \in Node \ {n} : pc'[m] = pc[m]
  BY <1>1, <1>2 DEF Types, Place
<1>5. /\ sess' \in Seq(SessionType) /\ Len(sess') = Len(sess) /\ DOMAIN sess' = DOMAIN sess
      /\ SessGrow /\ sess'[my[n]] = r /\ \A t \in DOMAIN sess : t # my[n] => sess'[t] = sess[t]
  BY <1>1, <1>2, <1>3, SessionChange
<1>6. StepOf(n)
  BY <1>1, <1>2, <1>4, <1>5 DEF StepOf, Types
<1>7. Types'
  BY <1>1, <1>2, <1>4, <1>5, TypesTogether DEF Types
<1>8. MadeInOrder'
  BY <1>2 DEF IInv, MadeInOrder
<1>9. EntriesVouched'
  <2>1. ASSUME NEW s \in DOMAIN sess PROVE sess'[s].prev = sess[s].prev /\ sess'[s].replayed = sess[s].replayed
    BY <1>1, <1>3, <1>5
  <2> QED
    BY <1>2, <1>5, <2>1 DEF IInv, EntriesVouched, Vouched
<1>10. KeysCounted'
  <2> SUFFICES ASSUME NEW s \in DOMAIN sess' PROVE Len(sess'[s].keys) = Cardinality(Arrived(s)')
    BY DEF KeysCounted
  <2>1. Len(sess[s].keys) = Cardinality(Arrived(s))
    BY <1>5 DEF IInv, KeysCounted
  <2>2. CASE s = my[n]
    <3>1. Arrived(s)' = Arrived(s) \cup {n} /\ n \notin Arrived(s)
      BY <1>1, <1>2, <1>4, <2>2 DEF Arrived, Without
    <3>2. IsFiniteSet(Arrived(s))
      BY NodesFinite, FS_Subset DEF Arrived
    <3>3. Cardinality(Arrived(s)') = Cardinality(Arrived(s)) + 1
      BY <3>1, <3>2, FS_AddElement
    <3> QED
      BY <1>1, <1>3, <1>5, <2>1, <2>2, <3>3
  <2>3. CASE s # my[n]
    <3>1. Arrived(s)' = Arrived(s)
      BY <1>1, <1>2, <1>4, <2>3 DEF Arrived
    <3> QED
      BY <1>5, <2>1, <2>3, <3>1
  <2> QED
    BY <2>2, <2>3
<1>11. Thread(n)'
  <2>1. n \in Used' /\ Before(StageOf(n))'
    BY <1>1, <1>2, BeforeStable
  <2> QED
    BY <1>1, <1>2, <1>4, <2>1 DEF Thread, Without
<1> QED
  BY <1>6, <1>7, <1>8, <1>9, <1>10, <1>11, Together

(* What every step inside a call starts from.                              *)
LEMMA InsideFacts ==
  ASSUME IInv, NEW n \in Node, NEW where \in Place \ (Without \cup {"arrive", "done", "failed"}), At(n, where)
  PROVE  /\ run \in {"running", "done", "blocked", "error"} /\ pc[n] = where
         /\ n \in Used /\ Before(StageOf(n)) /\ my[n] \in DOMAIN sess
         /\ S(n) = sess[my[n]] /\ S(n) \in SessionType /\ res[n] = 0 /\ Ask(n) \in AskType
         /\ Types /\ Thread(n) /\ MadeInOrder /\ sess = [sess EXCEPT ![my[n]] = S(n)]
         /\ \A i \in DOMAIN S(n).prev : S(n).prev[i] \in EntryType /\ Vouched(made, S(n).prev[i])
         /\ \A i \in DOMAIN S(n).replayed : S(n).replayed[i] \in EntryType /\ Vouched(made, S(n).replayed[i])
         /\ idx \in [Node -> 0..Cardinality(Used)] /\ cursor \in [Node -> Nat] /\ res \in [Node -> Nat]
<1>1. where \in Place \ (Without \cup {"failed"}) /\ where # "done"
  OBVIOUS
<1>2. /\ run # "off" /\ pc[n] = where /\ n \in Used /\ Before(StageOf(n)) /\ my[n] \in DOMAIN sess
      /\ S(n) = sess[my[n]] /\ S(n) \in SessionType /\ res[n] = 0
      /\ Ask(n) \in AskType /\ Types /\ Thread(n)
  BY <1>1, InCall
<1>3. \A i \in DOMAIN S(n).prev : S(n).prev[i] \in EntryType
  BY <1>2 DEF SessionType
<1>4. \A i \in DOMAIN S(n).replayed : S(n).replayed[i] \in EntryType
  BY <1>2 DEF SessionType
<1>5. /\ \A i \in DOMAIN S(n).prev : Vouched(made, S(n).prev[i])
      /\ \A i \in DOMAIN S(n).replayed : Vouched(made, S(n).replayed[i])
  BY <1>2 DEF IInv, EntriesVouched
<1>6. sess = [sess EXCEPT ![my[n]] = S(n)]
  BY <1>2 DEF Types
<1>7. /\ run \in {"running", "done", "blocked", "error"} /\ MadeInOrder
      /\ idx \in [Node -> 0..Cardinality(Used)] /\ cursor \in [Node -> Nat] /\ res \in [Node -> Nat]
  BY <1>2 DEF IInv, Types
<1> QED
  BY <1>2, <1>3, <1>4, <1>5, <1>6, <1>7

(* The valid prefix is a length of the previous generation.                *)
LEMMA ValidPrefixTyped ==
  ASSUME NEW s \in SessionType
  PROVE  /\ ValidPrefix(s) \in Nat
         /\ ValidPrefix(s) # 0 =>
              /\ ValidPrefix(s) \in DOMAIN s.prev /\ ValidPrefix(s) <= Len(s.keys)
              /\ \A i \in 1..ValidPrefix(s) : s.prev[i].key = s.keys[i]
         /\ \A k \in 1..Len(s.prev) :
              k <= Len(s.keys) /\ (\A i \in 1..k : s.prev[i].key = s.keys[i]) => k <= ValidPrefix(s)
<1> DEFINE T == {0} \cup {k \in 1..Len(s.prev) :
                            k <= Len(s.keys) /\ \A i \in 1..k : s.prev[i].key = s.keys[i]}
<1>1. Len(s.prev) \in Nat /\ Len(s.keys) \in Nat /\ DOMAIN s.prev = 1..Len(s.prev)
  BY DEF SessionType
<1>2. T \in SUBSET Nat /\ T # {} /\ \A x \in T : x <= Len(s.prev)
  BY <1>1
<1>3. ValidPrefix(s) = Max(T)
  BY DEF ValidPrefix
<1>4. Max(T) \in T /\ \A x \in T : x <= Max(T)
  <2> HIDE DEF T
  <2> QED
    BY <1>1, <1>2, Greatest
<1>5. ValidPrefix(s) \in T /\ \A x \in T : x <= ValidPrefix(s)
  BY <1>3, <1>4
<1> HIDE DEF ValidPrefix
<1> QED
  BY <1>1, <1>5

(* A thread counts the keys: its own is one of at most all agents'.        *)
LEMMA CountKeysStep ==
  ASSUME IInv, NEW n \in Node, CountKeys(n)
  PROVE  /\ IInv' /\ idx'[n] = Len(S(n).keys) /\ cursor'[n] = 1
         /\ \E to \in {"replay", "regenerate", "delegate"} : Inside(n, "count", to, S(n)) /\ pc'[n] = to
<1> DEFINE i == Len(S(n).keys)
           valid == i <= ValidPrefix(S(n))
           to == CASE valid /\ S(n).prev[i].kind = Succeeded -> "replay"
                   [] valid /\ S(n).prev[i].kind # Succeeded -> "regenerate"
                   [] ~valid /\ i <= Len(S(n).prev)          -> "regenerate"
                   [] OTHER                                  -> "delegate"
<1>1. At(n, "count") /\ "count" \in Place \ (Without \cup {"arrive", "done", "failed"})
  BY DEF CountKeys, Place, Without
<1>2. /\ run \in {"running", "done", "blocked", "error"} /\ pc[n] = "count"
      /\ n \in Used /\ my[n] \in DOMAIN sess /\ S(n) = sess[my[n]] /\ S(n) \in SessionType /\ res[n] = 0
      /\ Types /\ MadeInOrder /\ sess = [sess EXCEPT ![my[n]] = S(n)]
      /\ idx \in [Node -> 0..Cardinality(Used)] /\ cursor \in [Node -> Nat] /\ res \in [Node -> Nat]
  BY <1>1, InsideFacts
<1>3. /\ idx' = [idx EXCEPT ![n] = i] /\ cursor' = [cursor EXCEPT ![n] = 1] /\ pc' = [pc EXCEPT ![n] = to]
      /\ UNCHANGED <<shape, ver, journal, runs, run, sess, shared, my, res, made>>
  BY DEF CountKeys, Go, disk
<1>4. i \in 1..Cardinality(Used)
  <2> DEFINE A == Arrived(my[n])
  <2>1. A \subseteq Used /\ n \in A
    BY <1>2 DEF Arrived, IInv, Thread, Without
  <2>2. IsFiniteSet(Used) /\ Cardinality(Used) \in Nat
    BY <1>2, StageFacts DEF Types
  <2>3. i = Cardinality(A)
    BY <1>2 DEF IInv, KeysCounted
  <2> HIDE DEF A, i
  <2>4. IsFiniteSet(A) /\ Cardinality(A) <= Cardinality(Used) /\ Cardinality(A) \in Nat
    BY <2>1, <2>2, FS_Subset, FS_CardinalityType
  <2>5. Cardinality(A) # 0
    BY <2>1, <2>4, FS_EmptySet
  <2> QED
    BY <2>2, <2>3, <2>4, <2>5
<1>5. to \in {"replay", "regenerate", "delegate"}
  OBVIOUS
<1>6. to = "replay" => i \in DOMAIN S(n).prev /\ S(n).prev[i].kind = Succeeded
  <2> SUFFICES ASSUME to = "replay" PROVE i \in DOMAIN S(n).prev /\ S(n).prev[i].kind = Succeeded
    OBVIOUS
  <2>1. valid /\ S(n).prev[i].kind = Succeeded
    OBVIOUS
  <2>2. DOMAIN S(n).prev = 1..Len(S(n).prev) /\ Len(S(n).prev) \in Nat
    BY <1>2 DEF SessionType
  <2> HIDE DEF i
  <2>3. ValidPrefix(S(n)) \in DOMAIN S(n).prev
    BY <1>2, <1>4, <2>1, ValidPrefixTyped
  <2>4. i <= ValidPrefix(S(n))
    BY <2>1
  <2>5. i \in Nat /\ i # 0
    BY <1>4
  <2> HIDE DEF valid, to
  <2> QED
    BY <2>1, <2>2, <2>3, <2>4, <2>5
<1> HIDE DEF to, i, valid
<1>7. /\ idx' \in [Node -> 0..Cardinality(Used)] /\ cursor' \in [Node -> Nat] /\ idx'[n] = i /\ cursor'[n] = 1
      /\ \A m \in Node \ {n} : idx'[m] = idx[m] /\ cursor'[m] = cursor[m]
  <2>1. i \in 0..Cardinality(Used)
    BY <1>4
  <2> QED
    BY <1>2, <1>3, <2>1
<1>8. MadeInOrder'
  BY <1>2, <1>3 DEF MadeInOrder
<1>9. Inside(n, "count", to, S(n))
  BY <1>1, <1>2, <1>3, <1>5, <1>6, <1>7, <1>8 DEF Inside
<1>10. to \in Place \ (Without \cup {"arrive", "failed"})
  BY <1>5 DEF Place, Without
<1> QED
  <2>1. IInv'
    BY <1>1, <1>2, <1>9, <1>10, InsideStep
  <2>2. pc'[n] = to
    BY <1>2, <1>3 DEF Types
  <2>3. idx'[n] = Len(S(n).keys)
    BY <1>7 DEF i
  <2> QED
    BY <1>5, <1>7, <1>9, <2>1, <2>2, <2>3

(* A replayed key that does not fit raises.                                *)
LEMMA RefuseEntryStep ==
  ASSUME IInv, NEW n \in Node, RefuseEntry(n)
  PROVE  IInv'
  BY RaiseStep DEF RefuseEntry, At, disk, thread, Without

(* What serving an artifact does.                                          *)
LEMMA ServeFacts ==
  ASSUME NEW n \in Node, NEW art \in Nat, Serve(n, art), run \in {"running", "done", "blocked", "error"},
         res \in [Node -> Nat]
  PROVE  /\ run' \in {"running", "done", "blocked", "error"} /\ pc' = [pc EXCEPT ![n] = "done"]
         /\ res' \in [Node -> Nat] /\ res'[n] = art /\ \A m \in Node \ {n} : res'[m] = res[m]
<1>1. res' = [res EXCEPT ![n] = art] /\ pc' = [pc EXCEPT ![n] = "done"]
  BY DEF Serve, Go
<1>2. run' \in {run, "done"}
  BY DEF Serve
<1> QED
  BY <1>1, <1>2

(* A journaled success is served.                                          *)
LEMMA ReplayEntryStep ==
  ASSUME IInv, NEW n \in Node, ReplayEntry(n)
  PROVE  /\ IInv' /\ [S(n) EXCEPT !.replayed = Append(@, S(n).prev[idx[n]])] \in SessionType
         /\ Inside(n, "replay", "done", [S(n) EXCEPT !.replayed = Append(@, S(n).prev[idx[n]])])
<1> DEFINE e == S(n).prev[idx[n]]
           r == [S(n) EXCEPT !.replayed = Append(@, e)]
           f == Entry(S(n).gen, e.idx, e.key, e.kind, e.art)
<1>1. At(n, "replay") /\ "replay" \in Place \ (Without \cup {"arrive", "done", "failed"})
  BY DEF ReplayEntry, Place, Without
<1>2. /\ run \in {"running", "done", "blocked", "error"} /\ pc[n] = "replay"
      /\ n \in Used /\ my[n] \in DOMAIN sess /\ S(n) = sess[my[n]] /\ S(n) \in SessionType /\ res[n] = 0
      /\ Types /\ MadeInOrder /\ Thread(n)
      /\ \A i \in DOMAIN S(n).prev : S(n).prev[i] \in EntryType /\ Vouched(made, S(n).prev[i])
      /\ idx \in [Node -> 0..Cardinality(Used)] /\ cursor \in [Node -> Nat] /\ res \in [Node -> Nat]
  BY <1>1, InsideFacts
<1>3. /\ e.key = Key(n) /\ sess' = [sess EXCEPT ![my[n]] = r]
      /\ (journal' = journal \/ journal' = Append(journal, f)) /\ Serve(n, e.art)
      /\ UNCHANGED <<shape, ver, runs, shared, my, idx, cursor, made>>
  <2>1. sess' = [sess EXCEPT ![my[n]].replayed = Append(@, e)]
    BY DEF ReplayEntry
  <2>2. sess' = [sess EXCEPT ![my[n]] = r]
    BY <1>2, <2>1
  <2> QED
    BY <2>2 DEF ReplayEntry, thread
<1>4. e \in EntryType /\ Vouched(made, e) /\ e.kind = Succeeded
  BY <1>2 DEF Thread
<1>5. /\ r \in SessionType /\ r.prev = S(n).prev /\ r.keys = S(n).keys
      /\ \A i \in DOMAIN r.replayed : (\E k \in DOMAIN S(n).replayed : r.replayed[i] = S(n).replayed[k])
                                       \/ Vouched(made, r.replayed[i])
  <2> HIDE DEF e
  <2>1. S(n).replayed \in Seq(EntryType)
    BY <1>2 DEF SessionType
  <2>2. Append(S(n).replayed, e) \in Seq(EntryType)
    BY <1>4, <2>1
  <2>3. \A i \in DOMAIN Append(S(n).replayed, e) :
           (i \in DOMAIN S(n).replayed /\ Append(S(n).replayed, e)[i] = S(n).replayed[i])
             \/ Append(S(n).replayed, e)[i] = e
    BY <1>4, <2>1
  <2>4. r \in SessionType /\ r.prev = S(n).prev /\ r.keys = S(n).keys /\ r.replayed = Append(S(n).replayed, e)
    BY <1>2, <2>2 DEF SessionType
  <2> HIDE DEF r
  <2> QED
    BY <1>4, <2>3, <2>4
<1>6. f \in EntryType /\ Vouched(made, f)
  <2> HIDE DEF e
  <2>1. S(n).gen \in Nat
    BY <1>2 DEF SessionType
  <2> QED
    BY <1>4, <2>1 DEF EntryType, Entry, Vouched
<1>7. \E m \in made : m.art = e.art /\ m.ask = Ask(n)
  BY <1>3, <1>4 DEF Vouched, Key
<1>8. e.art \in Nat /\ e.art # 0
  <2>1. \A m \in made : m.art \in 1..Cardinality(made)
    BY <1>2 DEF MadeInOrder
  <2> QED
    BY <1>4, <1>7, <2>1 DEF EntryType
<1> HIDE DEF e, f, r
<1>9. /\ run' \in {"running", "done", "blocked", "error"} /\ pc' = [pc EXCEPT ![n] = "done"]
      /\ res' \in [Node -> Nat] /\ res'[n] = e.art /\ \A m \in Node \ {n} : res'[m] = res[m]
  BY <1>2, <1>3, <1>8, ServeFacts
<1>10. MadeInOrder'
  BY <1>2, <1>3 DEF MadeInOrder
<1>11. Inside(n, "replay", "done", r)
  BY <1>1, <1>2, <1>3, <1>5, <1>6, <1>7, <1>8, <1>9, <1>10 DEF Inside
<1>12. "done" \in Place \ (Without \cup {"arrive", "failed"})
  BY DEF Place, Without
<1> QED
  <2>1. IInv'
    BY <1>1, <1>5, <1>11, <1>12, InsideStep
  <2> QED
    BY <1>5, <1>11, <2>1 DEF r, e

(* A thread enters a new generation, or finds it entered.                  *)
LEMMA EnterGenerationStep ==
  ASSUME IInv, NEW n \in Node, EnterGeneration(n)
  PROVE  /\ IInv'
         /\ S(n).started => Inside(n, "regenerate", "delegate", S(n))
         /\ ~ S(n).started =>
              /\ [S(n) EXCEPT !.gen = PrevGeneration(S(n)) + 1] \in SessionType
              /\ Inside(n, "regenerate", "copy", [S(n) EXCEPT !.gen = PrevGeneration(S(n)) + 1])
<1> DEFINE r == IF S(n).started THEN S(n) ELSE [S(n) EXCEPT !.gen = PrevGeneration(S(n)) + 1]
           to == IF S(n).started THEN "delegate" ELSE "copy"
<1>1. At(n, "regenerate") /\ "regenerate" \in Place \ (Without \cup {"arrive", "done", "failed"})
  BY DEF EnterGeneration, Place, Without
<1>2. /\ run \in {"running", "done", "blocked", "error"} /\ pc[n] = "regenerate"
      /\ n \in Used /\ my[n] \in DOMAIN sess /\ S(n) = sess[my[n]] /\ S(n) \in SessionType /\ res[n] = 0
      /\ Types /\ MadeInOrder /\ sess = [sess EXCEPT ![my[n]] = S(n)] /\ cursor[n] # 0
      /\ \A i \in DOMAIN S(n).prev : S(n).prev[i] \in EntryType
      /\ idx \in [Node -> 0..Cardinality(Used)] /\ cursor \in [Node -> Nat] /\ res \in [Node -> Nat]
  BY <1>1, InsideFacts DEF Thread
<1>3. /\ sess' = [sess EXCEPT ![my[n]] = r] /\ pc' = [pc EXCEPT ![n] = to]
      /\ UNCHANGED <<shape, ver, journal, runs, run, shared, my, idx, cursor, res, made>>
  <2>1. CASE S(n).started
    BY <1>2, <2>1 DEF EnterGeneration, Go, disk, thread
  <2>2. CASE ~ S(n).started
    <3>1. sess' = [sess EXCEPT ![my[n]].gen = PrevGeneration(S(n)) + 1]
      BY <2>2 DEF EnterGeneration
    <3>2. sess' = [sess EXCEPT ![my[n]] = r]
      BY <1>2, <2>2, <3>1
    <3> QED
      BY <2>2, <3>2 DEF EnterGeneration, Go, disk, thread
  <2> QED
    BY <2>1, <2>2
<1>4. PrevGeneration(S(n)) \in Nat
  <2>1. S(n).prev # <<>> => S(n).prev[1] \in EntryType
    BY <1>2 DEF SessionType
  <2> QED
    BY <2>1 DEF PrevGeneration, EntryType
<1>5. r \in SessionType /\ r.prev = S(n).prev /\ r.keys = S(n).keys /\ r.replayed = S(n).replayed
  <2> HIDE DEF PrevGeneration
  <2>1. PrevGeneration(S(n)) + 1 \in Nat
    BY <1>4
  <2>2. CASE S(n).started
    BY <1>2, <2>2
  <2>3. CASE ~ S(n).started
    BY <1>2, <2>1, <2>3 DEF SessionType
  <2> QED
    BY <2>2, <2>3
<1>6. to \in Place \ (Without \cup {"arrive", "failed"}) /\ to \in {"delegate", "copy"}
  BY DEF Place, Without
<1> HIDE DEF r, to
<1>7. MadeInOrder'
  BY <1>2, <1>3 DEF MadeInOrder
<1>8. Inside(n, "regenerate", to, r)
  BY <1>1, <1>2, <1>3, <1>5, <1>6, <1>7 DEF Inside
<1> QED
  <2>1. IInv'
    BY <1>1, <1>5, <1>6, <1>8, InsideStep
  <2> QED
    BY <1>5, <1>8, <2>1 DEF r, to

(* An entry replayed before is copied into the new generation.             *)
LEMMA CopyEntryStep ==
  ASSUME IInv, NEW n \in Node, CopyEntry(n)
  PROVE  IInv' /\ Inside(n, "copy", "copy", S(n))
<1> DEFINE e == S(n).replayed[cursor[n]]
           f == Entry(S(n).gen, cursor[n], e.key, e.kind, e.art)
<1>1. At(n, "copy") /\ "copy" \in Place \ (Without \cup {"arrive", "done", "failed"})
  BY DEF CopyEntry, Place, Without
<1>2. /\ run \in {"running", "done", "blocked", "error"} /\ pc[n] = "copy"
      /\ n \in Used /\ S(n) \in SessionType /\ res[n] = 0
      /\ Types /\ MadeInOrder /\ Thread(n) /\ sess = [sess EXCEPT ![my[n]] = S(n)]
      /\ \A i \in DOMAIN S(n).replayed : S(n).replayed[i] \in EntryType /\ Vouched(made, S(n).replayed[i])
      /\ idx \in [Node -> 0..Cardinality(Used)] /\ cursor \in [Node -> Nat] /\ res \in [Node -> Nat]
  BY <1>1, InsideFacts
<1>3. /\ cursor[n] <= Len(S(n).replayed) /\ journal' = Append(journal, f)
      /\ cursor' = [cursor EXCEPT ![n] = @ + 1]
      /\ UNCHANGED <<shape, ver, runs, run, sess, shared, pc, my, idx, res, made>>
  BY DEF CopyEntry
<1>4. cursor[n] \in Nat /\ cursor[n] # 0 /\ cursor[n] \in DOMAIN S(n).replayed
  <2>1. DOMAIN S(n).replayed = 1..Len(S(n).replayed) /\ Len(S(n).replayed) \in Nat
    BY <1>2 DEF SessionType
  <2> QED
    BY <1>2, <1>3, <2>1 DEF Thread
<1>5. e \in EntryType /\ Vouched(made, e)
  BY <1>2, <1>4
<1>6. f \in EntryType /\ Vouched(made, f)
  <2> HIDE DEF e
  <2>1. S(n).gen \in Nat
    BY <1>2 DEF SessionType
  <2> QED
    BY <1>4, <1>5, <2>1 DEF EntryType, Entry, Vouched
<1> HIDE DEF e, f
<1>7. /\ cursor' \in [Node -> Nat] /\ cursor'[n] # 0 /\ \A m \in Node \ {n} : cursor'[m] = cursor[m]
      /\ pc' = [pc EXCEPT ![n] = "copy"]
  <2>1. cursor' \in [Node -> Nat] /\ cursor'[n] # 0 /\ \A m \in Node \ {n} : cursor'[m] = cursor[m]
    BY <1>2, <1>3, <1>4
  <2>2. pc' = [pc EXCEPT ![n] = "copy"]
    BY <1>2, <1>3 DEF Types
  <2> QED
    BY <2>1, <2>2
<1>8. MadeInOrder'
  BY <1>2, <1>3 DEF MadeInOrder
<1>9. Inside(n, "copy", "copy", S(n))
  BY <1>1, <1>2, <1>3, <1>6, <1>7, <1>8 DEF Inside
<1>10. "copy" \in Place \ (Without \cup {"arrive", "failed"})
  BY DEF Place, Without
<1> QED
  BY <1>1, <1>2, <1>9, <1>10, InsideStep

(* The generation is entered.                                              *)
LEMMA LeaveGenerationStep ==
  ASSUME IInv, NEW n \in Node, LeaveGeneration(n)
  PROVE  /\ IInv' /\ [S(n) EXCEPT !.started = TRUE] \in SessionType
         /\ Inside(n, "copy", "delegate", [S(n) EXCEPT !.started = TRUE])
<1> DEFINE r == [S(n) EXCEPT !.started = TRUE]
<1>1. At(n, "copy") /\ "copy" \in Place \ (Without \cup {"arrive", "done", "failed"})
  BY DEF LeaveGeneration, Place, Without
<1>2. /\ run \in {"running", "done", "blocked", "error"} /\ pc[n] = "copy"
      /\ n \in Used /\ my[n] \in DOMAIN sess /\ S(n) = sess[my[n]] /\ S(n) \in SessionType /\ res[n] = 0
      /\ Types /\ MadeInOrder
      /\ idx \in [Node -> 0..Cardinality(Used)] /\ cursor \in [Node -> Nat] /\ res \in [Node -> Nat]
  BY <1>1, InsideFacts
<1>3. /\ sess' = [sess EXCEPT ![my[n]] = r] /\ pc' = [pc EXCEPT ![n] = "delegate"]
      /\ UNCHANGED <<shape, ver, journal, runs, run, shared, my, idx, cursor, res, made>>
  <2>1. sess' = [sess EXCEPT ![my[n]].started = TRUE]
    BY DEF LeaveGeneration
  <2>2. sess' = [sess EXCEPT ![my[n]] = r]
    BY <1>2, <2>1
  <2> QED
    BY <2>2 DEF LeaveGeneration, Go, disk, thread
<1>4. r \in SessionType /\ r.prev = S(n).prev /\ r.keys = S(n).keys /\ r.replayed = S(n).replayed
  BY <1>2 DEF SessionType
<1> HIDE DEF r
<1>5. MadeInOrder'
  BY <1>2, <1>3 DEF MadeInOrder
<1>6. Inside(n, "copy", "delegate", r)
  BY <1>1, <1>2, <1>3, <1>4, <1>5 DEF Inside
<1>7. "delegate" \in Place \ (Without \cup {"arrive", "failed"})
  BY DEF Place, Without
<1> QED
  <2>1. IInv'
    BY <1>1, <1>4, <1>6, <1>7, InsideStep
  <2> QED
    BY <1>4, <1>6, <2>1 DEF r

(* A worker's artifact is a new one.                                       *)
LEMMA DelegateAnswersStep ==
  ASSUME IInv, NEW n \in Node, DelegateAnswers(n)
  PROVE  IInv' /\ Inside(n, "delegate", "record", S(n))
<1> DEFINE a == [ask |-> Ask(n), art |-> Artifact]
<1>1. At(n, "delegate") /\ "delegate" \in Place \ (Without \cup {"arrive", "done", "failed"})
  BY DEF DelegateAnswers, Place, Without
<1>2. /\ run \in {"running", "done", "blocked", "error"} /\ pc[n] = "delegate"
      /\ n \in Used /\ S(n) \in SessionType /\ res[n] = 0 /\ Ask(n) \in AskType
      /\ Types /\ MadeInOrder /\ sess = [sess EXCEPT ![my[n]] = S(n)]
      /\ idx \in [Node -> 0..Cardinality(Used)] /\ cursor \in [Node -> Nat] /\ res \in [Node -> Nat]
  BY <1>1, InsideFacts
<1>3. /\ made' = made \cup {a} /\ pc' = [pc EXCEPT ![n] = "record"]
      /\ UNCHANGED <<shape, ver, journal, runs, run, sess, shared, my, idx, cursor, res>>
  BY DEF DelegateAnswers, Go, disk, thread
<1>4. a.ask = Ask(n) /\ a.art = Cardinality(made) + 1
  BY DEF Artifact
<1> HIDE DEF a
<1>5. MadeInOrder'
  <2>1. IsFiniteSet(made) /\ Cardinality(made) \in Nat
    BY <1>2, FS_CardinalityType DEF MadeInOrder
  <2>2. a \notin made
    BY <1>2, <1>4, <2>1 DEF MadeInOrder
  <2>3. IsFiniteSet(made') /\ Cardinality(made') = Cardinality(made) + 1
    BY <1>3, <2>1, <2>2, FS_AddElement
  <2>4. ASSUME NEW m \in made' PROVE m.ask \in AskType /\ m.art \in 1..Cardinality(made')
    <3>1. CASE m \in made
      <4>1. m.ask \in AskType /\ m.art \in 1..Cardinality(made)
        BY <1>2, <3>1 DEF MadeInOrder
      <4> QED
        BY <2>1, <2>3, <4>1
    <3>2. CASE m = a
      BY <1>2, <1>4, <2>1, <2>3, <3>2
    <3> QED
      BY <1>3, <3>1, <3>2
  <2>5. ASSUME NEW m \in made', NEW o \in made', m.art = o.art PROVE m = o
    <3>1. \A k \in made : k.art # a.art
      BY <1>2, <1>4, <2>1 DEF MadeInOrder
    <3> QED
      BY <1>2, <1>3, <2>5, <3>1 DEF MadeInOrder
  <2> QED
    BY <2>3, <2>4, <2>5 DEF MadeInOrder
<1>6. made \subseteq made' /\ \E m \in made' : m.ask = Ask(n)
  BY <1>3, <1>4
<1>7. Inside(n, "delegate", "record", S(n))
  BY <1>1, <1>2, <1>3, <1>5, <1>6 DEF Inside
<1>8. "record" \in Place \ (Without \cup {"arrive", "failed"})
  BY DEF Place, Without
<1> QED
  BY <1>1, <1>2, <1>7, <1>8, InsideStep

(* The artifact recorded is one made for this call.                        *)
LEMMA MadeByFacts ==
  ASSUME MadeInOrder, NEW n, \E m \in made : m.ask = Ask(n)
  PROVE  MadeBy(n) \in made /\ MadeBy(n).ask = Ask(n) /\ \A o \in made : o.ask = Ask(n) => o.art <= MadeBy(n).art
<1> DEFINE T == {m.art : m \in {o \in made : o.ask = Ask(n)}}
<1>1. /\ \A m \in made : m.art \in 1..Cardinality(made)
      /\ Cardinality(made) \in Nat
  BY FS_CardinalityType DEF MadeInOrder
<1>2. T \in SUBSET Nat /\ T # {} /\ \A x \in T : x <= Cardinality(made)
  BY <1>1
<1>3. Max(T) \in T /\ \A x \in T : x <= Max(T)
  <2> HIDE DEF T
  <2> QED
    BY <1>1, <1>2, Greatest
<1>4. PICK m \in made : m.ask = Ask(n) /\ m.art = Max(T)
  BY <1>3
<1>5. \A o \in made : o.ask = Ask(n) => o.art <= m.art
  BY <1>3, <1>4
<1> QED
  BY <1>4, <1>5 DEF MadeBy

(* The worker's artifact is journaled and served.                          *)
LEMMA RecordSuccessStep ==
  ASSUME IInv, NEW n \in Node, RecordSuccess(n)
  PROVE  /\ IInv' /\ Inside(n, "record", "done", S(n))
         /\ Entry(S(n).gen, idx[n], Key(n), Succeeded, MadeBy(n).art) \in EntryType
<1> DEFINE art == MadeBy(n).art
           f == Entry(S(n).gen, idx[n], Key(n), Succeeded, art)
<1>1. At(n, "record") /\ "record" \in Place \ (Without \cup {"arrive", "done", "failed"})
  BY DEF RecordSuccess, Place, Without
<1>2. /\ run \in {"running", "done", "blocked", "error"} /\ pc[n] = "record"
      /\ n \in Used /\ S(n) \in SessionType /\ res[n] = 0 /\ Ask(n) \in AskType
      /\ Types /\ MadeInOrder /\ Thread(n) /\ sess = [sess EXCEPT ![my[n]] = S(n)]
      /\ idx \in [Node -> 0..Cardinality(Used)] /\ cursor \in [Node -> Nat] /\ res \in [Node -> Nat]
  BY <1>1, InsideFacts
<1>3. /\ journal' = Append(journal, f) /\ Serve(n, art)
      /\ UNCHANGED <<shape, ver, runs, sess, shared, my, idx, cursor, made>>
  BY DEF RecordSuccess, thread
<1>4. MadeBy(n) \in made /\ MadeBy(n).ask = Ask(n)
  BY <1>2, MadeByFacts DEF Thread
<1>5. art \in Nat /\ art # 0 /\ \E m \in made : m.art = art /\ m.ask = Ask(n)
  BY <1>2, <1>4 DEF MadeInOrder
<1> HIDE DEF art
<1>6. f \in EntryType /\ Vouched(made, f)
  <2>1. S(n).gen \in Nat /\ idx[n] \in Nat
    BY <1>2 DEF SessionType
  <2> QED
    BY <1>2, <1>5, <2>1 DEF EntryType, Entry, Vouched, Key
<1> HIDE DEF f
<1>7. /\ run' \in {"running", "done", "blocked", "error"} /\ pc' = [pc EXCEPT ![n] = "done"]
      /\ res' \in [Node -> Nat] /\ res'[n] = art /\ \A m \in Node \ {n} : res'[m] = res[m]
  BY <1>2, <1>3, <1>5, ServeFacts
<1>8. MadeInOrder'
  BY <1>2, <1>3 DEF MadeInOrder
<1>9. Inside(n, "record", "done", S(n))
  BY <1>1, <1>2, <1>3, <1>5, <1>6, <1>7, <1>8 DEF Inside
<1>10. "done" \in Place \ (Without \cup {"arrive", "failed"})
  BY DEF Place, Without
<1> QED
  <2>1. IInv'
    BY <1>1, <1>2, <1>9, <1>10, InsideStep
  <2> QED
    BY <1>6, <1>9, <2>1 DEF f, art

(* A gate is journaled: an entry without an artifact.                      *)
LEMMA RecordOpenGateStep ==
  ASSUME IInv, NEW n \in Node, RecordOpenGate(n)
  PROVE  /\ IInv' /\ Inside(n, "delegate", "parked", S(n))
         /\ Entry(S(n).gen, idx[n], Key(n), OpenGate, 0) \in EntryType
<1> DEFINE f == Entry(S(n).gen, idx[n], Key(n), OpenGate, 0)
<1>1. At(n, "delegate") /\ "delegate" \in Place \ (Without \cup {"arrive", "done", "failed"})
  BY DEF RecordOpenGate, Place, Without
<1>2. /\ run \in {"running", "done", "blocked", "error"} /\ pc[n] = "delegate"
      /\ n \in Used /\ S(n) \in SessionType /\ res[n] = 0 /\ Ask(n) \in AskType
      /\ Types /\ MadeInOrder /\ sess = [sess EXCEPT ![my[n]] = S(n)]
      /\ idx \in [Node -> 0..Cardinality(Used)] /\ cursor \in [Node -> Nat] /\ res \in [Node -> Nat]
  BY <1>1, InsideFacts
<1>3. /\ journal' = Append(journal, f) /\ pc' = [pc EXCEPT ![n] = "parked"]
      /\ UNCHANGED <<shape, ver, runs, run, sess, shared, my, idx, cursor, res, made>>
  BY DEF RecordOpenGate, Go, thread
<1>4. f \in EntryType /\ Vouched(made, f)
  <2>1. S(n).gen \in Nat /\ idx[n] \in Nat
    BY <1>2 DEF SessionType
  <2> QED
    BY <1>2, <2>1 DEF EntryType, Entry, Vouched, Key, OpenGate, Succeeded
<1> HIDE DEF f
<1>5. MadeInOrder'
  BY <1>2, <1>3 DEF MadeInOrder
<1>6. Inside(n, "delegate", "parked", S(n))
  BY <1>1, <1>2, <1>3, <1>4, <1>5 DEF Inside
<1>7. "parked" \in Place \ (Without \cup {"arrive", "failed"})
  BY DEF Place, Without
<1> QED
  <2>1. IInv'
    BY <1>1, <1>2, <1>6, <1>7, InsideStep
  <2> QED
    BY <1>4, <1>6, <2>1 DEF f

(* A worker that fails raises.                                             *)
LEMMA DelegateRaisesStep ==
  ASSUME IInv, NEW n \in Node, DelegateRaises(n)
  PROVE  IInv'
  BY RaiseStep DEF DelegateRaises, At, disk, thread, Without

(* Every step of a thread that runs a call keeps the invariant.            *)
LEMMA CallStep ==
  ASSUME IInv, NEW n \in Node, Call(n)
  PROVE  IInv'
  BY EnterHandlerStep, LoadSessionStep, NewSessionStep, ArriveKeyStep, CountKeysStep, RefuseEntryStep,
     ReplayEntryStep, EnterGenerationStep, CopyEntryStep, LeaveGenerationStep, DelegateAnswersStep,
     RecordSuccessStep, RecordOpenGateStep, DelegateRaisesStep DEF Call

(* So does an agent's form that is reached.                                *)
LEMMA OffloadStep ==
  ASSUME IInv, NEW n \in Node, Offload(n)
  PROVE  IInv'
<1>1. /\ Types /\ Thread(n) /\ run = "running" /\ pc[n] = "idle" /\ n \in Used /\ Before(StageOf(n))
      /\ pc' = [pc EXCEPT ![n] = "enter"]
      /\ UNCHANGED <<shape, ver, journal, runs, run, sess, shared, my, idx, cursor, res, made>>
  BY DEF IInv, Offload, Before, disk, thread
<1>2. pc' \in [Node -> Place] /\ pc'[n] = "enter" /\ \A m \in Node \ {n} : pc'[m] = pc[m]
  BY <1>1 DEF Types, Place
<1>3. StepOf(n)
  BY <1>1, <1>2 DEF StepOf, SessGrow
<1>4. Types'
  BY <1>1, <1>2, TypesTogether DEF Types
<1>5. EntriesVouched' /\ MadeInOrder'
  BY <1>1 DEF IInv, EntriesVouched, MadeInOrder
<1>6. KeysCounted'
  BY <1>1, <1>2, <1>3, CountKept DEF IInv, Without
<1>7. Thread(n)'
  <2>1. n \in Used' /\ Before(StageOf(n))'
    BY <1>1, BeforeStable
  <2> QED
    BY <1>1, <1>2, <2>1 DEF Thread, Without
<1> QED
  BY <1>3, <1>4, <1>5, <1>6, <1>7, Together

(* A step that only says what has become of the process.                   *)
LEMMA RunStep ==
  ASSUME IInv, runs' \in 0..MaxRuns[shape], run' \in {"running", "blocked"},
         UNCHANGED <<shape, ver, journal, sess, shared, pc, my, idx, cursor, res, made>>
  PROVE  IInv'
<1>1. Types'
  BY DEF IInv, Types, Used
<1>2. MadeInOrder' /\ EntriesVouched' /\ KeysCounted' /\ OffIsEmpty'
  BY DEF IInv, MadeInOrder, EntriesVouched, KeysCounted, Arrived, OffIsEmpty
<1>3. ASSUME NEW n \in Node PROVE Thread(n)'
  <2>1. Thread(n)
    BY DEF IInv
  <2>2. Ask(n)' = Ask(n) /\ S(n)' = S(n) /\ Used' = Used /\ Before(StageOf(n))' = Before(StageOf(n))
    BY DEF Ask, Inputs, StageOf, Stages, S, Used, Before, Done
  <2> QED
    BY <2>1, <2>2 DEF Thread
<1> QED
  BY <1>1, <1>2, <1>3 DEF IInv

(* No thread is left of a process that is gone.                            *)
LEMMA NoThreads ==
  ASSUME Types, \A n \in Node : my[n] = 0 /\ pc[n] = "idle" /\ res[n] = 0
  PROVE  \A n \in Node : Thread(n)
  BY DEF Thread, Without

(* A process that ends, and a prompt edited while there is none.           *)
LEMMA ExitStep ==
  ASSUME IInv, Exit
  PROVE  IInv'
<1>1. /\ run' = "off" /\ sess' = <<>> /\ shared' = 0 /\ UNCHANGED <<shape, ver, journal, runs, made>>
      /\ pc' = [n \in Node |-> "idle"] /\ my' = [n \in Node |-> 0] /\ idx' = [n \in Node |-> 0]
      /\ cursor' = [n \in Node |-> 0] /\ res' = [n \in Node |-> 0]
  BY DEF Exit, disk
<1>2. sess' \in Seq(SessionType) /\ Len(sess') = 0 /\ DOMAIN sess' = {}
  BY <1>1
<1>3. Cardinality(Used) \in Nat /\ Used' = Used
  BY <1>1, StageFacts DEF IInv, Types, Used
<1>4. Types'
  BY <1>1, <1>2, <1>3 DEF IInv, Types, Place
<1>5. MadeInOrder' /\ EntriesVouched' /\ KeysCounted' /\ OffIsEmpty'
  BY <1>1, <1>2 DEF IInv, MadeInOrder, EntriesVouched, KeysCounted, OffIsEmpty
<1>6. \A n \in Node : Thread(n)'
  BY <1>1 DEF Thread, Without
<1> QED
  BY <1>4, <1>5, <1>6 DEF IInv

(* Between two runs a node may be asked something else.                      *)
LEMMA RedirectStep ==
  ASSUME IInv, NEW n \in Node, Redirect(n)
  PROVE  IInv'
<1>1. /\ run = "off" /\ ver[n] < MaxEdits[shape] /\ ver' = [ver EXCEPT ![n] = @ + 1]
      /\ UNCHANGED <<shape, journal, runs, run, sess, shared, pc, my, idx, cursor, res, made>>
  BY DEF Redirect, thread
<1>2. Types'
  <2>1. MaxEdits[shape] \in Nat /\ ver \in [Node -> 0..MaxEdits[shape]] /\ shape \in Shapes
    BY BoundsNatural DEF IInv, Types
  <2>2. ver' \in [Node -> 0..MaxEdits[shape]]
    BY <1>1, <2>1
  <2> QED
    BY <1>1, <2>2 DEF IInv, Types, Used
<1>3. MadeInOrder' /\ EntriesVouched' /\ KeysCounted' /\ OffIsEmpty'
  BY <1>1 DEF IInv, MadeInOrder, EntriesVouched, KeysCounted, Arrived, OffIsEmpty
<1>4. \A m \in Node : pc[m] = "idle" /\ res[m] = 0 /\ my[m] = 0
  BY <1>1 DEF IInv, OffIsEmpty, Thread, Without
<1>5. \A m \in Node : Thread(m)'
  BY <1>1, <1>4 DEF Thread, Without
<1> QED
  BY <1>2, <1>3, <1>5 DEF IInv

(* The invariant holds at the start ...                                    *)
LEMMA InitIInv ==
  Init => IInv
<1> SUFFICES ASSUME Init PROVE IInv
  OBVIOUS
<1>1. Types
  <2>1. Cardinality(Used) \in Nat
    BY StageFacts DEF Init
  <2>2. MaxRuns[shape] \in Nat /\ MaxEdits[shape] \in Nat
    BY BoundsNatural DEF Init
  <2> QED
    BY <2>1, <2>2 DEF Init, Types, Place
<1>2. MadeInOrder /\ EntriesVouched /\ KeysCounted /\ OffIsEmpty
  BY FS_EmptySet DEF Init, MadeInOrder, EntriesVouched, KeysCounted, OffIsEmpty
<1>3. \A n \in Node : Thread(n)
  BY DEF Init, Thread, Without
<1> QED
  BY <1>1, <1>2, <1>3 DEF IInv

(* ... and after every step.                                               *)
LEMMA NextIInv ==
  IInv /\ [Next]_vars => IInv'
<1> SUFFICES ASSUME IInv, [Next]_vars PROVE IInv'
  OBVIOUS
<1>1. CASE Start
  <2>1. MaxRuns[shape] \in Nat /\ runs \in 0..MaxRuns[shape]
    BY BoundsNatural DEF IInv, Types
  <2>2. runs' \in 0..MaxRuns[shape]
    BY <1>1, <2>1 DEF Start
  <2> QED
    BY <1>1, <2>2, RunStep DEF Start, disk, thread
<1>2. CASE Block
  BY <1>2, RunStep DEF Block, disk, thread, IInv, Types
<1>3. ASSUME NEW n \in Node, Redirect(n) \/ Offload(n) \/ Call(n) PROVE IInv'
  BY <1>3, RedirectStep, OffloadStep, CallStep
<1>4. CASE UNCHANGED vars
  <2>1. UNCHANGED <<shape, ver, journal, runs, run, sess, shared, pc, my, idx, cursor, res, made>>
    BY <1>4 DEF vars
  <2>2. Types' /\ MadeInOrder' /\ EntriesVouched' /\ KeysCounted' /\ OffIsEmpty'
    BY <2>1 DEF IInv, Types, Used, MadeInOrder, EntriesVouched, KeysCounted, Arrived, OffIsEmpty
  <2>3. ASSUME NEW n \in Node PROVE Thread(n)'
    <3>1. Ask(n)' = Ask(n) /\ S(n)' = S(n) /\ Used' = Used /\ Before(StageOf(n))' = Before(StageOf(n))
      BY <2>1 DEF Ask, Inputs, StageOf, Stages, S, Used, Before, Done
    <3> QED
      BY <2>1, <3>1 DEF Thread, IInv
  <2> QED
    BY <2>2, <2>3 DEF IInv
<1> QED
  BY <1>1, <1>2, <1>3, <1>4, ExitStep DEF Next

(* Whatever an agent! form evaluates to was made by a worker for this very *)
(* agent, prompt and inputs: replay, edits, restarts and copied            *)
(* generations never serve the artifact of another call                    *)
(* (journal.py _validate_replay_entry, run_or_replay).                     *)
THEOREM JournalIsSound ==
  Spec => []ReplaySound
<1>1. IInv => ReplaySound
  <2> SUFFICES ASSUME IInv, NEW n \in Used, res[n] # 0 PROVE \E m \in made : m.art = res[n] /\ m.ask = Ask(n)
    BY DEF ReplaySound
  <2>1. n \in Node
    BY StageFacts DEF IInv, Types
  <2> QED
    BY <2>1 DEF IInv, Thread
<1> QED
  BY <1>1, InitIInv, NextIInv, PTL DEF Spec

-----------------------------------------------------------------------------
(* Workflows whose stages have one agent each                              *)

(* The journal: generations follow one another, and each counts its        *)
(* entries from 1 without a gap.                                           *)
Ordered(j) ==
  /\ \A a, b \in DOMAIN j : a < b =>
       j[a].gen < j[b].gen \/ (j[a].gen = j[b].gen /\ j[b].idx = j[a].idx + (b - a))
  /\ \A b \in DOMAIN j : /\ j[b].idx \in 1..b
                         /\ \A a \in DOMAIN j : b - j[b].idx < a /\ a <= b => j[a].gen = j[b].gen
LastIndex(j) == IF j = <<>> THEN 0 ELSE j[Len(j)].idx

(* There is one session, made by the first agent.                          *)
OneSession ==
  /\ shared = Len(sess) /\ shared <= 1
  /\ \A n \in Node : pc[n] = "load" => shared = 0

(* Its keys are those of the agents that have arrived, stage by stage.     *)
Past(n) == my[n] # 0 /\ pc[n] # "arrive"
KeysInOrder(s) ==
  /\ Len(s.keys) <= Len(shape)
  /\ \A i \in Stages : \A n \in shape[i] :
       (i <= Len(s.keys) <=> Past(n)) /\ (i <= Len(s.keys) => s.keys[i] = Key(n))

Counted == {"replay", "regenerate", "copy", "delegate", "record", "parked", "done"}
InPlace == \A n \in Node : pc[n] \in Counted => idx[n] = StageOf(n)

(* An agent whose call the journal answers is not on its way to a worker.  *)
Answers(s, i) ==
  i \in DOMAIN s.prev /\ s.prev[i].kind = Succeeded /\ \A k \in 1..i : s.prev[k].key = s.keys[k]
ToWorker == {"regenerate", "copy", "delegate", "record"}
NotAnswered == \A n \in Node : pc[n] \in ToWorker => ~ Answers(S(n), idx[n])

(* Where the journal j of the session s stands when the agents of the      *)
(* first d stages have their artifacts and the next one is at a place:     *)
(* replaying, copying, or in the new generation.                           *)
Stopped == {"parked", "failed"}
Stand(s, j, place, c, d) ==
  /\ s.started /\ place \notin Stopped =>
       \/ Generation(j) = s.gen /\ LastIndex(j) = d
       \/ d = 0 /\ Generation(j) < s.gen
  /\ ~ s.started /\ place # "copy" =>
       /\ s.prev # <<>> => s.prev[1].gen = s.gen
       /\ Len(s.replayed) = (IF d <= Len(s.prev) THEN d ELSE Len(s.prev))
       /\ place \notin Stopped =>
            Generation(j) = s.gen /\ LastIndex(j) = (IF d <= Len(s.prev) THEN Len(s.prev) ELSE d)
       /\ place \in {"delegate", "record"} => Len(s.prev) <= d
       /\ place = "regenerate" => d < Len(s.prev) /\ c = 1
  /\ place = "copy" =>
       /\ ~ s.started /\ s.prev # <<>> /\ s.gen = s.prev[1].gen + 1
       /\ Len(s.replayed) = d /\ c <= d + 1
       /\ \/ c = 1 /\ Generation(j) = s.prev[1].gen
          \/ Generation(j) = s.gen /\ LastIndex(j) + 1 = c

Served(d) == \A i \in Stages : \A n \in shape[i] : (i <= d <=> pc[n] = "done")
InSession(n) == my[n] # 0 /\ pc[n] # "done"
InPhase(s) ==
  /\ \A k \in DOMAIN s.prev : s.prev[k].idx = k
  /\ \E d \in 0..Len(shape) :
       /\ Served(d)
       /\ \A n \in Node : InSession(n) => Stand(s, journal, pc[n], cursor[n], d)
       /\ (\A n \in Node : ~ InSession(n)) => Stand(s, journal, "idle", 1, d)

SInv ==
  /\ OneSession /\ InPlace /\ NotAnswered /\ Ordered(journal)
  /\ \A t \in DOMAIN sess : KeysInOrder(sess[t]) /\ InPhase(sess[t])

(* A journal that is ordered loads.                                        *)
LEMMA OrderedLoads ==
  ASSUME NEW j \in Seq(EntryType), Ordered(j)
  PROVE  /\ Loadable(j) /\ Latest(j) \in Seq(EntryType) /\ Len(Latest(j)) = LastIndex(j)
         /\ LastIndex(j) \in Nat /\ (j # <<>> => Generation(j) = j[Len(j)].gen)
<1>1. /\ \A i \in DOMAIN j : j[i].gen \in Nat /\ j[i].idx \in Nat
      /\ DOMAIN j = 1..Len(j) /\ Len(j) \in Nat /\ (j # <<>> => Len(j) \in DOMAIN j)
  <2>1. \A i \in DOMAIN j : j[i] \in EntryType
    OBVIOUS
  <2> QED
    BY <2>1 DEF EntryType
<1>2. NoDuplicates(j)
  <2> SUFFICES ASSUME NEW i \in DOMAIN j, NEW k \in DOMAIN j, j[i].gen = j[k].gen, j[i].idx = j[k].idx, i # k
               PROVE  FALSE
    BY DEF NoDuplicates
  <2>1. CASE i < k
    BY <1>1, <2>1 DEF Ordered
  <2>2. CASE k < i
    BY <1>1, <2>2 DEF Ordered
  <2> QED
    BY <1>1, <2>1, <2>2
<1>3. CASE j = <<>>
  <2>1. LastEntries(j) = {} /\ Cardinality(LastEntries(j)) = 0
    BY <1>3, FS_EmptySet DEF LastEntries
  <2>2. Contiguous(j)
    BY <2>1 DEF Contiguous
  <2>3. DOMAIN Latest(j) = 1..0
    BY <2>1 DEF Latest
  <2>4. Latest(j) \in Seq(EntryType)
    BY <2>2, LatestFacts
  <2>5. Len(Latest(j)) = 0
    BY <2>3, <2>4
  <2> QED
    BY <1>2, <1>3, <2>2, <2>4, <2>5 DEF Loadable, LastIndex
<1>4. CASE j # <<>>
  <2> DEFINE l == Len(j)
             c == j[l].idx
  <2>1. l \in DOMAIN j /\ c \in 1..l /\ \A a \in DOMAIN j : a <= l
    BY <1>1, <1>4 DEF Ordered
  <2>2. Generation(j) = j[l].gen
    <3>1. PICK i \in DOMAIN j : Generation(j) = j[i].gen
      BY <1>4, GenerationTyped
    <3>2. j[l].gen <= Generation(j)
      BY <1>4, <2>1, GenerationTyped
    <3>3. CASE i = l
      BY <3>1, <3>3
    <3>4. CASE i # l
      <4>1. i < l
        BY <1>1, <2>1, <3>4
      <4>2. j[i].gen <= j[l].gen
        BY <1>1, <2>1, <4>1 DEF Ordered
      <4> QED
        BY <1>1, <2>1, <3>1, <3>2, <4>2
    <3> QED
      BY <3>3, <3>4
  <2>3. ASSUME NEW a \in DOMAIN j PROVE j[a].gen = j[l].gen <=> l - c < a
    <3>1. ASSUME l - c < a PROVE j[a].gen = j[l].gen
      BY <1>1, <2>1, <3>1 DEF Ordered
    <3>2. ASSUME j[a].gen = j[l].gen, a < l PROVE l - c < a
      <4>1. c = j[a].idx + (l - a)
        BY <1>1, <2>1, <3>2 DEF Ordered
      <4>2. j[a].idx \in 1..a
        BY DEF Ordered
      <4>3. a \in Nat /\ l \in Nat /\ c \in Nat /\ j[a].idx \in Nat
        BY <1>1, <2>1
      <4> HIDE DEF l, c
      <4> QED
        BY <4>1, <4>2, <4>3
    <3> QED
      BY <1>1, <2>1, <3>1, <3>2
  <2>4. LastEntries(j) = (l - c + 1)..l
    <3>1. \A a \in DOMAIN j : l - c < a <=> a \in (l - c + 1)..l
      BY <1>1, <2>1
    <3>2. \A a \in (l - c + 1)..l : a \in DOMAIN j
      BY <1>1, <2>1
    <3> QED
      BY <2>2, <2>3, <3>1, <3>2 DEF LastEntries
  <2>5. Cardinality(LastEntries(j)) = c
    <3>1. l - c + 1 \in Int /\ l \in Int /\ l - c + 1 <= l /\ l - (l - c + 1) + 1 = c
      BY <1>1, <2>1
    <3> HIDE DEF l, c
    <3> QED
      BY <2>4, <3>1, FS_Interval
  <2>6. ASSUME NEW a \in LastEntries(j) PROVE j[a].idx = c - (l - a)
    <3>1. a \in DOMAIN j /\ a \in Nat /\ j[a].idx \in Nat /\ j[a].gen = j[l].gen /\ ~ (j[l].gen < j[l].gen)
      BY <1>1, <2>1, <2>2 DEF LastEntries
    <3>2. CASE a = l
      BY <1>1, <2>1, <3>2
    <3>3. CASE a # l
      <4>1. a < l
        BY <1>1, <2>1, <3>1, <3>3
      <4>2. c = j[a].idx + (l - a)
        BY <1>1, <2>1, <3>1, <4>1 DEF Ordered
      <4>3. a \in Nat /\ l \in Nat /\ c \in Nat /\ j[a].idx \in Nat
        BY <1>1, <2>1, <3>1
      <4> HIDE DEF l, c
      <4> QED
        BY <4>2, <4>3
    <3> QED
      BY <3>2, <3>3
  <2>7. {j[i].idx : i \in LastEntries(j)} = 1..c
    <3> HIDE DEF c
    <3> DEFINE f(i) == j[i].idx
    <3>1. \A a \in LastEntries(j) : f(a) = c - (l - a) /\ a \in (l - c + 1)..l
      BY <2>4, <2>6
    <3>2. l \in Nat /\ c \in Nat
      BY <1>1, <2>1
    <3> HIDE DEF f, l
    <3>3. \A a \in LastEntries(j) : f(a) \in 1..c
      BY <3>1, <3>2
    <3>4. ASSUME NEW k \in 1..c PROVE \E a \in LastEntries(j) : f(a) = k
      <4>1. l - c + k \in LastEntries(j)
        BY <2>4, <3>2
      <4>2. f(l - c + k) = k
        BY <3>1, <3>2, <4>1
      <4> QED
        BY <4>1, <4>2
    <3>5. {f(i) : i \in LastEntries(j)} = 1..c
      BY <3>3, <3>4
    <3> QED
      BY <3>5 DEF f
  <2>8. Contiguous(j)
    BY <2>5, <2>7 DEF Contiguous
  <2>9. Latest(j) \in Seq(EntryType) /\ DOMAIN Latest(j) = 1..c
    BY <2>5, <2>8, LatestFacts DEF Latest
  <2>10. Len(Latest(j)) = c
    BY <2>1, <2>9
  <2> QED
    BY <1>1, <1>2, <1>4, <2>1, <2>2, <2>8, <2>9, <2>10 DEF Loadable, LastIndex
<1> QED
  BY <1>3, <1>4

(* An entry that continues the last generation, or begins a later one.     *)
LEMMA OrderedAppend ==
  ASSUME NEW j \in Seq(EntryType), Ordered(j), NEW e \in EntryType,
         \/ e.gen = Generation(j) /\ e.idx = LastIndex(j) + 1
         \/ Generation(j) < e.gen /\ e.idx = 1
  PROVE  Ordered(Append(j, e)) /\ Generation(Append(j, e)) = e.gen /\ LastIndex(Append(j, e)) = e.idx
<1> DEFINE k == Append(j, e)
           l == Len(j)
<1>1. /\ k \in Seq(EntryType) /\ DOMAIN j = 1..l /\ DOMAIN k = 1..(l + 1) /\ l \in Nat /\ Len(k) = l + 1
      /\ k[l + 1] = e /\ \A i \in DOMAIN j : k[i] = j[i]
      /\ k # <<>>
  OBVIOUS
<1>2. /\ \A i \in DOMAIN j : j[i].gen \in Nat /\ j[i].idx \in Nat
      /\ e.gen \in Nat /\ e.idx \in Nat
  <2>1. \A i \in DOMAIN j : j[i] \in EntryType
    OBVIOUS
  <2> QED
    BY <2>1 DEF EntryType
<1>3. /\ j # <<>> => Generation(j) = j[l].gen /\ LastIndex(j) = j[l].idx /\ l \in DOMAIN j
      /\ j = <<>> => Generation(j) = 0 /\ LastIndex(j) = 0 /\ l = 0
  BY <1>1, OrderedLoads DEF LastIndex, Generation
<1> HIDE DEF k
<1>4. ASSUME NEW a \in DOMAIN j
      PROVE  j[a].gen < e.gen \/ (j[a].gen = e.gen /\ e.idx = j[a].idx + (l + 1 - a))
  <2>1. j # <<>> /\ a \in Nat /\ a <= l
    BY <1>1
  <2>2. a = l \/ j[a].gen < j[l].gen \/ (j[a].gen = j[l].gen /\ j[l].idx = j[a].idx + (l - a))
    BY <1>1, <1>3, <2>1 DEF Ordered
  <2>3. \/ e.gen = j[l].gen /\ e.idx = j[l].idx + 1
        \/ j[l].gen < e.gen
    BY <1>3, <2>1
  <2>4. j[a].gen \in Nat /\ j[a].idx \in Nat /\ j[l].gen \in Nat /\ j[l].idx \in Nat
    BY <1>2, <1>3, <2>1
  <2> QED
    BY <1>1, <1>2, <2>1, <2>2, <2>3, <2>4
<1>5. e.idx \in 1..(l + 1)
  <2>1. CASE j = <<>>
    BY <1>1, <1>3, <2>1
  <2>2. CASE j # <<>>
    <3>1. j[l].idx \in 1..l
      BY <1>3, <2>2 DEF Ordered
    <3> QED
      BY <1>1, <1>3, <2>2, <3>1
  <2> QED
    BY <2>1, <2>2
<1>6. ASSUME NEW a \in DOMAIN j, l + 1 - e.idx < a PROVE j[a].gen = e.gen
  <2>1. j # <<>> /\ a \in Nat /\ a <= l
    BY <1>1
  <2>2. e.idx # 1
    BY <1>1, <1>6, <2>1
  <2>3. e.gen = j[l].gen /\ e.idx = j[l].idx + 1
    BY <1>3, <2>1, <2>2
  <2>4. l - j[l].idx < a
    <3>1. j[l].idx \in Nat
      BY <1>2, <1>3, <2>1
    <3> QED
      BY <1>1, <1>6, <2>1, <2>3, <3>1
  <2> QED
    BY <1>1, <1>3, <2>1, <2>3, <2>4 DEF Ordered
<1>7. Ordered(k)
  <2>1. ASSUME NEW a \in DOMAIN k, NEW b \in DOMAIN k, a < b
        PROVE  k[a].gen < k[b].gen \/ (k[a].gen = k[b].gen /\ k[b].idx = k[a].idx + (b - a))
    <3>1. a \in DOMAIN j /\ k[a] = j[a]
      BY <1>1, <2>1
    <3>2. CASE b = l + 1
      BY <1>1, <1>4, <3>1, <3>2
    <3>3. CASE b \in DOMAIN j
      BY <1>1, <2>1, <3>1, <3>3 DEF Ordered
    <3> QED
      BY <1>1, <3>2, <3>3
  <2>2. ASSUME NEW b \in DOMAIN k
        PROVE  /\ k[b].idx \in 1..b
               /\ \A a \in DOMAIN k : b - k[b].idx < a /\ a <= b => k[a].gen = k[b].gen
    <3>1. CASE b = l + 1
      BY <1>1, <1>5, <1>6, <3>1
    <3>2. CASE b \in DOMAIN j
      <4>1. \A a \in DOMAIN k : a <= b => a \in DOMAIN j /\ k[a] = j[a]
        BY <1>1, <3>2
      <4>2. k[b] = j[b]
        BY <1>1, <3>2
      <4> QED
        BY <3>2, <4>1, <4>2 DEF Ordered
    <3> QED
      BY <1>1, <3>1, <3>2
  <2> QED
    BY <2>1, <2>2 DEF Ordered
<1>8. Generation(k) = e.gen /\ LastIndex(k) = e.idx
  BY <1>1, <1>7, OrderedLoads DEF LastIndex
<1> QED
  BY <1>7, <1>8 DEF k

(* The agents of such a workflow go one by one.                            *)
LEMMA Line ==
  ASSUME IInv, Sequential, NEW n \in Node, pc[n] # "idle", pc[n] # "done"
  PROVE  /\ n \in Used /\ StageOf(n) \in Stages /\ shape[StageOf(n)] = {n}
         /\ \A i \in Stages : i < StageOf(n) => \A m \in shape[i] : pc[m] = "done"
         /\ \A i \in Stages : StageOf(n) < i => \A m \in shape[i] : pc[m] = "idle"
         /\ \A m \in Node \ {n} : pc[m] = "idle" \/ pc[m] = "done"
<1>1. /\ Types /\ Thread(n) /\ n \in Used /\ Before(StageOf(n)) /\ StageOf(n) \in Stages
      /\ Stages = 1..Len(shape) /\ Len(shape) \in Nat /\ n \in shape[StageOf(n)] /\ res[n] = 0
  BY StageFacts DEF IInv, Thread, Types, Stages
<1>2. \A i \in Stages : \A m \in shape[i] : m \in Used /\ m \in Node /\ StageOf(m) = i
  BY <1>1, StageFacts DEF Types
<1>3. shape[StageOf(n)] = {n}
  <2>1. IsFiniteSet(shape[StageOf(n)])
    <3>1. shape[StageOf(n)] \subseteq Node
      BY <1>1, <1>2
    <3> QED
      BY <3>1, NodesFinite, FS_Subset
  <2>2. \E x : shape[StageOf(n)] = {x}
    BY <1>1, <2>1, FS_Singleton DEF Sequential
  <2> QED
    BY <1>1, <2>2
<1>4. ASSUME NEW i \in Stages, i < StageOf(n), NEW m \in shape[i] PROVE pc[m] = "done"
  <2>1. i \in 1..(StageOf(n) - 1)
    BY <1>1, <1>4
  <2>2. res[m] # 0
    BY <1>1, <2>1 DEF Before, Done
  <2> QED
    BY <1>2, <2>2 DEF IInv, Thread
<1>5. ASSUME NEW i \in Stages, StageOf(n) < i, NEW m \in shape[i] PROVE pc[m] = "idle"
  <2>1. m \in Node /\ StageOf(m) = i
    BY <1>2
  <2>2. pc[m] # "idle" => Before(i)
    BY <2>1 DEF IInv, Thread
  <2>3. StageOf(n) \in 1..(i - 1)
    BY <1>1, <1>5
  <2>4. ~ Done(StageOf(n))
    BY <1>1 DEF Done
  <2> QED
    BY <2>2, <2>3, <2>4 DEF Before
<1>6. ASSUME NEW m \in Node \ {n}, pc[m] # "idle" PROVE pc[m] = "done"
  <2>1. m \in Used /\ StageOf(m) \in Stages /\ m \in shape[StageOf(m)]
    BY <1>1, <1>6, StageFacts DEF IInv, Thread, Types
  <2>2. StageOf(m) # StageOf(n)
    BY <1>3, <2>1
  <2>3. StageOf(m) < StageOf(n) \/ StageOf(n) < StageOf(m)
    BY <1>1, <2>1, <2>2
  <2> QED
    BY <1>4, <1>5, <1>6, <2>1, <2>3
<1> QED
  BY <1>1, <1>3, <1>4, <1>5, <1>6

(* The session of a thread in a call is the first.                         *)
LEMMA FirstSession ==
  ASSUME IInv, SInv, NEW n \in Node, my[n] # 0
  PROVE  my[n] = 1 /\ DOMAIN sess = {1} /\ Len(sess) = 1 /\ shared = 1 /\ S(n) = sess[1]
<1>1. sess \in Seq(SessionType) /\ my[n] \in 0..Len(sess) /\ shared = Len(sess) /\ shared <= 1
  BY DEF IInv, SInv, OneSession, Types
<1>2. Len(sess) = 1 /\ my[n] = 1
  BY <1>1
<1> QED
  BY <1>1, <1>2 DEF S

(* The session of a thread on its way: what has been served, and where the *)
(* journal stands.                                                         *)
LEMMA OnTheWay ==
  ASSUME IInv, SInv, Sequential, NEW n \in Node, InSession(n), pc[n] # "idle"
  PROVE  /\ Stand(S(n), journal, pc[n], cursor[n], StageOf(n) - 1)
         /\ \A k \in DOMAIN S(n).prev : S(n).prev[k].idx = k
         /\ Served(StageOf(n) - 1) /\ KeysInOrder(S(n)) /\ InPhase(S(n))
<1>1. DOMAIN sess = {1} /\ S(n) = sess[1] /\ pc[n] # "done"
  BY FirstSession DEF InSession
<1>2. KeysInOrder(S(n)) /\ InPhase(S(n))
  BY <1>1 DEF SInv
<1>3. PICK d \in 0..Len(shape) : Served(d) /\ \A m \in Node : InSession(m) => Stand(S(n), journal, pc[m], cursor[m], d)
  BY <1>2 DEF InPhase
<1>4. /\ StageOf(n) \in Stages /\ shape[StageOf(n)] = {n} /\ Stages = 1..Len(shape) /\ Len(shape) \in Nat
      /\ \A i \in Stages : i < StageOf(n) => \A m \in shape[i] : pc[m] = "done"
      /\ \A i \in Stages : StageOf(n) < i => \A m \in shape[i] : pc[m] = "idle"
  BY <1>1, Line, StageFacts DEF IInv, Types, Stages
<1>5. d = StageOf(n) - 1
  <2>1. ~ (StageOf(n) <= d)
    BY <1>1, <1>3, <1>4 DEF Served
  <2>2. ~ (d + 1 < StageOf(n))
    <3> SUFFICES ASSUME d + 1 < StageOf(n) PROVE FALSE
      OBVIOUS
    <3>1. d + 1 \in Stages
      BY <1>4
    <3>2. \E m : m \in shape[d + 1]
      <4>1. Cardinality(shape[d + 1]) = 1
        BY <3>1 DEF Sequential
      <4> QED
        BY <4>1, FS_EmptySet
    <3>3. PICK m \in shape[d + 1] : pc[m] = "done"
      BY <1>4, <3>1, <3>2
    <3>4. d + 1 <= d
      BY <1>3, <3>1, <3>3 DEF Served
    <3> QED
      BY <3>4
  <2> QED
    BY <1>4, <2>1, <2>2
<1> QED
  BY <1>2, <1>3, <1>5 DEF InPhase

(* A step inside a call, of the one thread that takes steps.               *)
LEMMA SeqInside ==
  ASSUME IInv, IInv', SInv, Sequential, NEW n \in Node, NEW r \in SessionType,
         NEW where \in Place \ (Without \cup {"arrive", "done", "failed"}),
         NEW to \in Counted \cup {"failed"}, Inside(n, where, to, r),
         Ordered(journal'), to \in Counted => idx'[n] = StageOf(n),
         to \in ToWorker => ~ Answers(S(n), idx'[n]),
         to # "done" => Stand(r, journal', to, cursor'[n], StageOf(n) - 1),
         to = "done" => Stand(r, journal', "idle", 1, StageOf(n))
  PROVE  SInv'
<1>1. /\ run # "off" /\ pc[n] = where /\ n \in Used /\ Before(StageOf(n)) /\ my[n] # 0
      /\ res[n] = 0 /\ Types /\ Thread(n) /\ pc[n] # "idle" /\ pc[n] # "done" /\ pc[n] # "arrive" /\ pc[n] # "load"
  <2>1. At(n, where) /\ where \in Place \ (Without \cup {"failed"}) /\ where # "done"
    BY DEF Inside
  <2>2. my[n] \in DOMAIN sess /\ Types
    BY <2>1, InCall
  <2>3. my[n] # 0
    BY <2>2 DEF Types
  <2> QED
    BY <2>1, <2>3, InCall DEF Without
<1>2. my[n] = 1 /\ DOMAIN sess = {1} /\ Len(sess) = 1 /\ shared = 1 /\ S(n) = sess[1]
  BY <1>1, FirstSession
<1>3. /\ sess' = [sess EXCEPT ![1] = r] /\ r.prev = sess[1].prev /\ r.keys = sess[1].keys
      /\ UNCHANGED <<shape, ver, runs, shared, my>> /\ pc' = [pc EXCEPT ![n] = to]
      /\ \A m \in Node \ {n} : idx'[m] = idx[m] /\ cursor'[m] = cursor[m] /\ res'[m] = res[m]
  BY <1>2 DEF Inside
<1>4. DOMAIN sess' = {1} /\ Len(sess') = 1 /\ sess'[1] = r
  BY <1>1, <1>2, <1>3 DEF Types
<1>5. pc'[n] = to /\ \A m \in Node \ {n} : pc'[m] = pc[m]
  BY <1>1, <1>3 DEF Types
<1>6. /\ StageOf(n) \in Stages /\ shape[StageOf(n)] = {n} /\ Stages = 1..Len(shape) /\ Len(shape) \in Nat
      /\ \A m \in Node \ {n} : pc[m] = "idle" \/ pc[m] = "done"
      /\ \A i \in Stages : shape[i] \subseteq Node /\ \A m \in shape[i] : m \in Used /\ StageOf(m) = i
  BY <1>1, Line, StageFacts DEF Types, Stages
<1>7. Served(StageOf(n) - 1) /\ KeysInOrder(sess[1]) /\ \A k \in DOMAIN sess[1].prev : sess[1].prev[k].idx = k
  BY <1>1, <1>2, OnTheWay DEF InSession
<1>8. Stages' = Stages /\ \A m : StageOf(m)' = StageOf(m)
  BY <1>3 DEF Stages, StageOf
<1>9. OneSession'
  <2>1. \A m \in Node : pc'[m] # "load"
    BY <1>5, <1>6 DEF Counted
  <2> QED
    BY <1>2, <1>3, <1>4, <2>1 DEF OneSession
<1>10. InPlace'
  <2>1. ASSUME NEW m \in Node, pc'[m] \in Counted PROVE idx'[m] = StageOf(m)
    <3>1. CASE m = n
      BY <1>5, <2>1, <3>1
    <3>2. CASE m # n
      BY <1>3, <1>5, <2>1, <3>2 DEF SInv, InPlace
    <3> QED
      BY <3>1, <3>2
  <2> QED
    BY <1>8, <2>1 DEF InPlace
<1>11. NotAnswered'
  <2>1. ASSUME NEW m \in Node, pc'[m] \in ToWorker PROVE ~ Answers(S(m)', idx'[m])
    <3>1. m = n
      BY <1>5, <1>6, <2>1 DEF ToWorker
    <3>2. S(m)' = r
      BY <1>2, <1>3, <1>4, <3>1 DEF S
    <3>3. ~ Answers(sess[1], idx'[n])
      BY <1>2, <1>5, <2>1, <3>1
    <3> QED
      BY <1>3, <3>1, <3>2, <3>3 DEF Answers
  <2> QED
    BY <2>1 DEF NotAnswered
<1>12. KeysInOrder(r)'
  <2>1. \A m \in Node : Past(m)' <=> Past(m)
    BY <1>1, <1>3, <1>5 DEF Past, Counted
  <2>2. ASSUME NEW i \in Stages, NEW m \in shape[i], Past(m) PROVE Key(m)' = Key(m)
    <3>1. m \in Node /\ m \in Used
      BY <1>6
    <3>2. pc[m] # "idle"
      <4>1. Thread(m) /\ my[m] # 0
        BY <2>2, <3>1 DEF IInv, Past
      <4> QED
        BY <4>1 DEF Thread, Without
    <3>3. Before(StageOf(m))
      BY <3>1, <3>2 DEF IInv, Thread
    <3>4. \A k \in Node : res[k] # 0 => res'[k] = res[k]
      BY <1>1, <1>3
    <3> QED
      BY <1>1, <1>3, <3>1, <3>3, <3>4, AskStable DEF Key
  <2>3. ASSUME NEW i \in Stages, NEW m \in shape[i]
        PROVE  (i <= Len(r.keys) <=> Past(m)') /\ (i <= Len(r.keys) => r.keys[i] = Key(m)')
    <3>1. m \in Node
      BY <1>6
    <3> QED
      BY <1>3, <1>7, <2>1, <2>2, <3>1 DEF KeysInOrder
  <2> QED
    BY <1>3, <1>7, <1>8, <2>3 DEF KeysInOrder
<1>13. InPhase(r)'
  <2>1. \A k \in DOMAIN r.prev : r.prev[k].idx = k
    BY <1>3, <1>7
  <2>2. CASE to # "done"
    <3>1. Served(StageOf(n) - 1)'
      <4>1. ASSUME NEW i \in Stages, NEW m \in shape[i] PROVE i <= StageOf(n) - 1 <=> pc'[m] = "done"
        <5>1. i <= StageOf(n) - 1 <=> pc[m] = "done"
          BY <1>7 DEF Served
        <5>2. pc'[m] = "done" <=> pc[m] = "done"
          BY <1>1, <1>5, <1>6, <2>2
        <5> QED
          BY <5>1, <5>2
      <4> QED
        BY <1>3, <1>8, <4>1 DEF Served
    <3>2. \A m \in Node : InSession(m)' => m = n
      <4>1. \A m \in Node : my[m] # 0 => pc[m] # "idle"
        BY DEF IInv, Thread, Without
      <4> QED
        BY <1>3, <1>5, <1>6, <4>1 DEF InSession
    <3>3. InSession(n)' /\ pc'[n] = to
      BY <1>1, <1>3, <1>5, <2>2 DEF InSession
    <3>4. StageOf(n) - 1 \in 0..Len(shape')
      BY <1>3, <1>6
    <3>5. Stand(r, journal', to, cursor'[n], StageOf(n) - 1)
      BY <2>2
    <3> HIDE DEF Stand
    <3> QED
      BY <1>8, <2>1, <3>1, <3>2, <3>3, <3>4, <3>5 DEF InPhase
  <2>3. CASE to = "done"
    <3>1. Served(StageOf(n))'
      <4>1. ASSUME NEW i \in Stages, NEW m \in shape[i] PROVE i <= StageOf(n) <=> pc'[m] = "done"
        <5>1. i <= StageOf(n) - 1 <=> pc[m] = "done"
          BY <1>7 DEF Served
        <5>2. CASE m = n
          BY <1>5, <1>6, <2>3, <5>2
        <5>3. CASE m # n
          <6>1. i # StageOf(n) /\ m \in Node
            BY <1>6, <5>3
          <6> QED
            BY <1>5, <1>6, <5>1, <5>3, <6>1
        <5> QED
          BY <5>2, <5>3
      <4> QED
        BY <1>3, <1>8, <4>1 DEF Served
    <3>2. \A m \in Node : ~ InSession(m)'
      <4>1. \A m \in Node : my[m] # 0 => pc[m] # "idle"
        BY DEF IInv, Thread, Without
      <4> QED
        BY <1>3, <1>5, <1>6, <2>3, <4>1 DEF InSession
    <3>3. StageOf(n) \in 0..Len(shape')
      BY <1>3, <1>6
    <3>4. Stand(r, journal', "idle", 1, StageOf(n))
      BY <2>3
    <3> HIDE DEF Stand
    <3> QED
      BY <1>8, <2>1, <3>1, <3>2, <3>3, <3>4 DEF InPhase
  <2> QED
    BY <2>2, <2>3
<1> QED
  BY <1>4, <1>9, <1>10, <1>11, <1>12, <1>13 DEF SInv

(* What the one thread knows inside its call.                              *)
LEMMA SeqFacts ==
  ASSUME IInv, SInv, Sequential, NEW n \in Node,
         NEW where \in Place \ (Without \cup {"arrive", "done", "failed"}), At(n, where)
  PROVE  /\ pc[n] = where /\ S(n) \in SessionType /\ StageOf(n) \in Nat /\ StageOf(n) - 1 \in Nat
         /\ StageOf(n) # 0 /\ journal \in Seq(EntryType) /\ Ordered(journal)
         /\ Stand(S(n), journal, where, cursor[n], StageOf(n) - 1)
         /\ \A k \in DOMAIN S(n).prev : S(n).prev[k].idx = k
         /\ KeysInOrder(S(n)) /\ Generation(journal) \in Nat /\ LastIndex(journal) \in Nat
         /\ S(n).gen \in Nat /\ Len(S(n).prev) \in Nat /\ Len(S(n).replayed) \in Nat /\ cursor[n] \in Nat
         /\ DOMAIN S(n).prev = 1..Len(S(n).prev) /\ \A k \in DOMAIN S(n).prev : S(n).prev[k] \in EntryType
         /\ (where \in Counted => idx[n] = StageOf(n))
         /\ (where \in ToWorker => ~ Answers(S(n), idx[n]))
<1>1. /\ pc[n] = where /\ n \in Used /\ my[n] \in DOMAIN sess /\ S(n) \in SessionType /\ Types
      /\ cursor[n] \in Nat /\ \A k \in DOMAIN S(n).prev : S(n).prev[k] \in EntryType
  BY InsideFacts
<1>2. InSession(n) /\ pc[n] # "idle"
  <2>1. my[n] # 0
    BY <1>1 DEF Types
  <2> QED
    BY <1>1, <2>1 DEF InSession, Without
<1>3. /\ Stand(S(n), journal, where, cursor[n], StageOf(n) - 1)
      /\ \A k \in DOMAIN S(n).prev : S(n).prev[k].idx = k
      /\ KeysInOrder(S(n))
  BY <1>1, <1>2, OnTheWay
<1>4. StageOf(n) \in Nat /\ StageOf(n) - 1 \in Nat /\ StageOf(n) # 0
  <2>1. StageOf(n) \in Stages
    BY <1>1, StageFacts DEF Types
  <2> QED
    BY <2>1 DEF Stages
<1>5. journal \in Seq(EntryType) /\ Ordered(journal) /\ Generation(journal) \in Nat /\ LastIndex(journal) \in Nat
  BY <1>1, GenerationTyped, OrderedLoads DEF Types, SInv
<1>6. /\ S(n).gen \in Nat /\ Len(S(n).prev) \in Nat /\ Len(S(n).replayed) \in Nat
      /\ DOMAIN S(n).prev = 1..Len(S(n).prev)
  BY <1>1 DEF SessionType
<1>7. (where \in Counted => idx[n] = StageOf(n)) /\ (where \in ToWorker => ~ Answers(S(n), idx[n]))
  BY <1>1 DEF SInv, InPlace, NotAnswered
<1> QED
  BY <1>1, <1>3, <1>4, <1>5, <1>6, <1>7

(* A thread's position is its stage.                                       *)
LEMMA CountKeysSeq ==
  ASSUME IInv, SInv, Sequential, NEW n \in Node, CountKeys(n)
  PROVE  SInv'
<1> DEFINE i == StageOf(n)
           d == i - 1
           s == S(n)
<1>1. At(n, "count") /\ "count" \in Place \ (Without \cup {"arrive", "done", "failed"})
  BY DEF CountKeys, Place, Without
<1>2. /\ pc[n] = "count" /\ s \in SessionType /\ i \in Nat /\ d \in Nat /\ Ordered(journal)
      /\ Stand(s, journal, "count", cursor[n], d) /\ KeysInOrder(s) /\ Len(s.prev) \in Nat
  BY <1>1, SeqFacts
<1>3. PICK to \in {"replay", "regenerate", "delegate"} : Inside(n, "count", to, s) /\ pc'[n] = to
  BY CountKeysStep
<1>4. IInv' /\ idx'[n] = Len(s.keys) /\ cursor'[n] = 1
  BY CountKeysStep
<1>5. Len(s.keys) = i
  <2>1. /\ i \in Stages /\ shape[i] = {n} /\ Stages = 1..Len(shape) /\ Len(shape) \in Nat
        /\ \A k \in Stages : i < k => \A m \in shape[k] : pc[m] = "idle"
        /\ \A k \in Stages : shape[k] \subseteq Node
    BY <1>2, Line, StageFacts DEF IInv, Types, Stages
  <2>2. my[n] # 0
    BY <1>2 DEF IInv, Thread, Without
  <2>3. Len(s.keys) \in Nat /\ i <= Len(s.keys) /\ Len(s.keys) <= Len(shape)
    <3>1. Len(s.keys) \in Nat
      BY <1>2 DEF SessionType
    <3>2. Past(n) /\ n \in shape[i] /\ i \in Stages
      BY <1>2, <2>1, <2>2 DEF Past
    <3> HIDE DEF i, s
    <3> QED
      BY <1>2, <3>1, <3>2 DEF KeysInOrder
  <2>4. ASSUME i < Len(s.keys) PROVE FALSE
    <3>1. i + 1 \in Stages /\ i + 1 <= Len(s.keys) /\ i < i + 1
      BY <1>2, <2>1, <2>3, <2>4
    <3>2. \E m : m \in shape[i + 1]
      <4>1. Cardinality(shape[i + 1]) = 1
        BY <3>1 DEF Sequential
      <4> QED
        BY <4>1, FS_EmptySet
    <3>3. PICK m \in shape[i + 1] : m \in Node
      BY <2>1, <3>1, <3>2
    <3>4. pc[m] = "idle" /\ my[m] # 0
      BY <1>2, <2>1, <3>1, <3>3 DEF KeysInOrder, Past
    <3> QED
      BY <3>3, <3>4 DEF IInv, Thread, Without
  <2> QED
    BY <1>2, <2>3, <2>4
<1>6. /\ to \in ToWorker => ~ Answers(s, i)
      /\ to = "delegate" => Len(s.prev) <= d
      /\ to = "regenerate" => d < Len(s.prev)
  <2> DEFINE valid == i <= ValidPrefix(s)
  <2>1. pc'[n] = CASE valid /\ s.prev[i].kind = Succeeded -> "replay"
                   [] valid /\ s.prev[i].kind # Succeeded -> "regenerate"
                   [] ~valid /\ i <= Len(s.prev)          -> "regenerate"
                   [] OTHER                               -> "delegate"
    <3>1. pc' = [pc EXCEPT ![n] = CASE valid /\ s.prev[i].kind = Succeeded -> "replay"
                                    [] valid /\ s.prev[i].kind # Succeeded -> "regenerate"
                                    [] ~valid /\ i <= Len(s.prev)          -> "regenerate"
                                    [] OTHER                               -> "delegate"]
      BY <1>5 DEF CountKeys, Go
    <3> QED
      BY <3>1 DEF IInv, Types
  <2>2. /\ ValidPrefix(s) \in Nat /\ (ValidPrefix(s) # 0 => ValidPrefix(s) \in 1..Len(s.prev))
        /\ Answers(s, i) => valid
    <3>1. ValidPrefix(s) \in Nat /\ (ValidPrefix(s) # 0 => ValidPrefix(s) \in 1..Len(s.prev))
      BY <1>2, ValidPrefixTyped DEF SessionType
    <3>2. \A k \in 1..Len(s.prev) :
            k <= Len(s.keys) /\ (\A a \in 1..k : s.prev[a].key = s.keys[a]) => k <= ValidPrefix(s)
      BY <1>2, ValidPrefixTyped
    <3>3. Answers(s, i) => i \in 1..Len(s.prev) /\ \A a \in 1..i : s.prev[a].key = s.keys[a]
      BY <1>2 DEF Answers, SessionType
    <3> QED
      BY <1>2, <1>5, <3>1, <3>2, <3>3
  <2>3. valid => i <= Len(s.prev)
    <3>1. i # 0
      BY <1>2
    <3> QED
      BY <1>2, <2>2, <3>1
  <2>4. Answers(s, i) => s.prev[i].kind = Succeeded
    BY DEF Answers
  <2> HIDE DEF valid, s
  <2>5. /\ to = "replay" <=> valid /\ s.prev[i].kind = Succeeded
        /\ to = "delegate" <=> ~ valid /\ ~ (i <= Len(s.prev))
    BY <1>3, <2>1, <2>3
  <2>6. to \in ToWorker => ~ (valid /\ s.prev[i].kind = Succeeded)
    BY <2>5 DEF ToWorker
  <2>7. to = "delegate" => ~ (i <= Len(s.prev))
    BY <2>5
  <2>8. to = "regenerate" => i <= Len(s.prev)
    BY <1>3, <2>5, <2>3
  <2> QED
    BY <1>2, <2>2, <2>4, <2>6, <2>7, <2>8
<1>7. Stand(s, journal, to, 1, d)
  <2> HIDE DEF d, s, i
  <2> QED
    BY <1>2, <1>3, <1>6 DEF Stand, Stopped
<1>8. to \in Counted \cup {"failed"} /\ to # "done" /\ journal' = journal
  BY DEF CountKeys, disk, Counted
<1> HIDE DEF Stand
<1> QED
  BY <1>1, <1>2, <1>3, <1>4, <1>5, <1>6, <1>7, <1>8, SeqInside

(* A thread that raises inside its call.                                   *)
LEMMA RaiseSeq ==
  ASSUME IInv, IInv', SInv, Sequential, NEW n \in Node, NEW where \in {"replay", "delegate"}, At(n, where), Raise(n),
         UNCHANGED <<shape, ver, journal, runs, sess, shared, my, idx, cursor, res, made>>
  PROVE  SInv'
<1>1. where \in Place \ (Without \cup {"arrive", "done", "failed"}) /\ where # "copy"
  BY DEF Place, Without
<1>2. /\ S(n) \in SessionType /\ res[n] = 0 /\ MadeInOrder /\ sess = [sess EXCEPT ![my[n]] = S(n)]
      /\ idx \in [Node -> 0..Cardinality(Used)] /\ cursor \in [Node -> Nat] /\ res \in [Node -> Nat]
  BY <1>1, InsideFacts
<1>3. MadeInOrder'
  BY DEF IInv
<1>4. Inside(n, where, "failed", S(n))
  BY <1>1, <1>2, <1>3 DEF Inside, Raise, Go
<1>5. Stand(S(n), journal, where, cursor[n], StageOf(n) - 1) /\ Ordered(journal)
  BY <1>1, SeqFacts
<1>6. Stand(S(n), journal, "failed", cursor[n], StageOf(n) - 1)
  BY <1>1, <1>5 DEF Stand, Stopped
<1>7. "failed" \in Counted \cup {"failed"} /\ "failed" # "done" /\ "failed" \notin ToWorker /\ "failed" \notin Counted
  BY DEF ToWorker, Counted
<1> HIDE DEF Stand
<1>8. cursor'[n] = cursor[n] /\ journal' = journal
  OBVIOUS
<1> QED
  BY <1>1, <1>2, <1>4, <1>5, <1>6, <1>7, <1>8, SeqInside

(* A replayed entry goes where its stage is.                               *)
LEMMA ReplayEntrySeq ==
  ASSUME IInv, SInv, Sequential, NEW n \in Node, ReplayEntry(n)
  PROVE  SInv'
<1> DEFINE i == StageOf(n)
           d == i - 1
           s == S(n)
           e == s.prev[idx[n]]
           r == [s EXCEPT !.replayed = Append(@, e)]
           f == Entry(s.gen, e.idx, e.key, e.kind, e.art)
<1>1. At(n, "replay") /\ "replay" \in Place \ (Without \cup {"arrive", "done", "failed"}) /\ "replay" \in Counted
  BY DEF ReplayEntry, Place, Without, Counted
<1>2. /\ pc[n] = "replay" /\ s \in SessionType /\ i \in Nat /\ d \in Nat /\ i # 0 /\ Ordered(journal)
      /\ journal \in Seq(EntryType) /\ Generation(journal) \in Nat /\ LastIndex(journal) \in Nat /\ s.gen \in Nat
      /\ Stand(s, journal, "replay", cursor[n], d) /\ Len(s.prev) \in Nat /\ Len(s.replayed) \in Nat
      /\ (\A k \in DOMAIN s.prev : s.prev[k].idx = k) /\ idx[n] = i /\ DOMAIN s.prev = 1..Len(s.prev)
      /\ \A k \in DOMAIN s.prev : s.prev[k] \in EntryType
  BY <1>1, SeqFacts
<1>3. /\ IInv' /\ r \in SessionType /\ Inside(n, "replay", "done", r)
  BY ReplayEntryStep
<1>4. journal' = IF s.started THEN Append(journal, f) ELSE journal
  BY DEF ReplayEntry
<1>5. i \in DOMAIN s.prev /\ e \in EntryType /\ e.idx = i
  <2>1. idx[n] \in DOMAIN s.prev
    BY <1>2 DEF IInv, Thread
  <2> QED
    BY <1>2, <2>1
<1>6. f \in EntryType /\ f.gen = s.gen /\ f.idx = i
  BY <1>2, <1>5 DEF Entry, EntryType
<1>7. r.prev = s.prev /\ r.gen = s.gen /\ r.started = s.started /\ Len(r.replayed) = Len(s.replayed) + 1
  BY <1>2, <1>5 DEF SessionType
<1> HIDE DEF f, e, r, s
<1>8. Ordered(journal') /\ Stand(r, journal', "idle", 1, i)
  <2>1. CASE s.started
    <3>1. \/ Generation(journal) = s.gen /\ LastIndex(journal) = d
          \/ d = 0 /\ Generation(journal) < s.gen
      BY <1>2, <2>1 DEF Stand, Stopped
    <3>2. \/ f.gen = Generation(journal) /\ f.idx = LastIndex(journal) + 1
          \/ Generation(journal) < f.gen /\ f.idx = 1
      BY <1>2, <1>6, <3>1
    <3>3. Ordered(journal') /\ Generation(journal') = s.gen /\ LastIndex(journal') = i
      BY <1>2, <1>4, <1>6, <2>1, <3>2, OrderedAppend
    <3> HIDE DEF i, d
    <3> QED
      BY <1>7, <2>1, <3>3 DEF Stand
  <2>2. CASE ~ s.started
    <3>1. i <= Len(s.prev) /\ d <= Len(s.prev) /\ d + 1 = i
      BY <1>2, <1>5
    <3>2. journal' = journal
      BY <1>4, <2>2
    <3> HIDE DEF i, d
    <3>3. Len(s.replayed) = d /\ Generation(journal) = s.gen /\ LastIndex(journal) = Len(s.prev)
          /\ (s.prev # <<>> => s.prev[1].gen = s.gen)
      BY <1>2, <2>2, <3>1 DEF Stand, Stopped
    <3>4. Len(r.replayed) = i
      BY <1>7, <3>1, <3>3
    <3> QED
      BY <1>2, <1>7, <2>2, <3>1, <3>2, <3>3, <3>4 DEF Stand
  <2> QED
    BY <2>1, <2>2
<1>9. idx'[n] = i
  BY <1>2 DEF ReplayEntry, thread
<1>10. "done" \in Counted \cup {"failed"} /\ "done" \notin ToWorker
  BY DEF ToWorker, Counted
<1> HIDE DEF Stand
<1> QED
  BY <1>1, <1>3, <1>8, <1>9, <1>10, SeqInside

(* A generation is entered before its first entry is copied.               *)
LEMMA EnterGenerationSeq ==
  ASSUME IInv, SInv, Sequential, NEW n \in Node, EnterGeneration(n)
  PROVE  SInv'
<1> DEFINE i == StageOf(n)
           d == i - 1
           s == S(n)
           r == [s EXCEPT !.gen = PrevGeneration(s) + 1]
<1>1. At(n, "regenerate") /\ "regenerate" \in Place \ (Without \cup {"arrive", "done", "failed"})
      /\ "regenerate" \in Counted /\ "regenerate" \in ToWorker
  BY DEF EnterGeneration, Place, Without, Counted, ToWorker
<1>2. /\ s \in SessionType /\ i \in Nat /\ d \in Nat /\ Ordered(journal)
      /\ Stand(s, journal, "regenerate", cursor[n], d) /\ Len(s.prev) \in Nat
      /\ idx[n] = i /\ ~ Answers(s, idx[n])
      /\ DOMAIN s.prev = 1..Len(s.prev) /\ \A k \in DOMAIN s.prev : s.prev[k] \in EntryType
  BY <1>1, SeqFacts
<1>3. /\ IInv' /\ journal' = journal /\ cursor' = cursor /\ idx' = idx
      /\ s.started => Inside(n, "regenerate", "delegate", s)
      /\ ~ s.started => r \in SessionType /\ Inside(n, "regenerate", "copy", r)
  BY EnterGenerationStep DEF EnterGeneration, disk, thread
<1>4. /\ "delegate" \in Counted \cup {"failed"} /\ "copy" \in Counted \cup {"failed"}
      /\ "delegate" # "done" /\ "copy" # "done"
  BY DEF Counted
<1>5. CASE s.started
  <2>1. Stand(s, journal, "delegate", cursor[n], d)
    <3> HIDE DEF d, s
    <3> QED
      BY <1>2, <1>5 DEF Stand, Stopped
  <2> HIDE DEF Stand
  <2> QED
    BY <1>1, <1>2, <1>3, <1>4, <1>5, <2>1, SeqInside
<1>6. CASE ~ s.started
  <2>1. s.prev # <<>> /\ s.prev[1].gen \in Nat
    <3>1. 0 < Len(s.prev)
      <4> HIDE DEF d, s
      <4> QED
        BY <1>2, <1>6 DEF Stand
    <3>2. 1 \in DOMAIN s.prev
      BY <1>2, <3>1
    <3>3. s.prev[1] \in EntryType
      BY <1>2, <3>2
    <3> QED
      BY <3>1, <3>3 DEF EntryType
  <2>2. r.prev = s.prev /\ r.replayed = s.replayed /\ r.started = s.started /\ r.gen = s.prev[1].gen + 1
    BY <1>2, <2>1 DEF PrevGeneration, SessionType
  <2>3. Stand(r, journal, "copy", cursor[n], d)
    <3> HIDE DEF d, s, r
    <3> QED
      BY <1>2, <1>6, <2>1, <2>2 DEF Stand, Stopped
  <2> HIDE DEF Stand
  <2> QED
    BY <1>1, <1>2, <1>3, <1>4, <1>6, <2>3, SeqInside
<1> QED
  BY <1>5, <1>6

(* The entries are copied in order.                                        *)
LEMMA CopyEntrySeq ==
  ASSUME IInv, SInv, Sequential, NEW n \in Node, CopyEntry(n)
  PROVE  SInv'
<1> DEFINE i == StageOf(n)
           d == i - 1
           s == S(n)
           c == cursor[n]
           e == s.replayed[c]
           f == Entry(s.gen, c, e.key, e.kind, e.art)
<1>1. At(n, "copy") /\ "copy" \in Place \ (Without \cup {"arrive", "done", "failed"})
      /\ "copy" \in Counted /\ "copy" \in ToWorker /\ "copy" # "done"
  BY DEF CopyEntry, Place, Without, Counted, ToWorker
<1>2. /\ s \in SessionType /\ i \in Nat /\ d \in Nat /\ journal \in Seq(EntryType) /\ Ordered(journal)
      /\ Stand(s, journal, "copy", c, d) /\ Len(s.prev) \in Nat /\ Len(s.replayed) \in Nat /\ c \in Nat
      /\ idx[n] = i /\ ~ Answers(s, idx[n]) /\ Generation(journal) \in Nat /\ LastIndex(journal) \in Nat
      /\ s.gen \in Nat
  BY <1>1, SeqFacts
<1>3. IInv' /\ Inside(n, "copy", "copy", s)
  BY CopyEntryStep
<1>4. c <= Len(s.replayed) /\ journal' = Append(journal, f) /\ cursor'[n] = c + 1 /\ idx' = idx
  <2>1. cursor' = [cursor EXCEPT ![n] = @ + 1]
    BY DEF CopyEntry
  <2>2. cursor'[n] = c + 1
    BY <2>1 DEF IInv, Types
  <2> QED
    BY <2>2 DEF CopyEntry
<1>5. e \in EntryType /\ f \in EntryType /\ f.gen = s.gen /\ f.idx = c
  <2>1. c # 0
    BY <1>1 DEF IInv, Thread, At
  <2>2. c \in DOMAIN s.replayed
    BY <1>2, <1>4, <2>1 DEF SessionType
  <2>3. s.replayed \in Seq(EntryType)
    BY <1>2 DEF SessionType
  <2>4. e \in EntryType
    BY <2>2, <2>3
  <2> HIDE DEF e, s, c
  <2> QED
    BY <1>2, <2>4 DEF Entry, EntryType
<1> HIDE DEF e, f, c
<1>6. Ordered(journal') /\ Generation(journal') = s.gen /\ LastIndex(journal') = c
  <2>1. \/ f.gen = Generation(journal) /\ f.idx = LastIndex(journal) + 1
        \/ Generation(journal) < f.gen /\ f.idx = 1
    <3>1. \/ c = 1 /\ Generation(journal) = s.prev[1].gen /\ s.gen = s.prev[1].gen + 1
          \/ Generation(journal) = s.gen /\ LastIndex(journal) + 1 = c
      BY <1>2 DEF Stand
    <3>2. Generation(journal) + 1 = s.gen => Generation(journal) < s.gen
      BY <1>2
    <3> QED
      BY <1>5, <3>1, <3>2
  <2> QED
    BY <1>2, <1>4, <1>5, <2>1, OrderedAppend
<1>7. Stand(s, journal', "copy", c + 1, d)
  <2> HIDE DEF d, s
  <2> QED
    BY <1>2, <1>4, <1>6 DEF Stand, Stopped
<1> HIDE DEF Stand
<1> QED
  BY <1>1, <1>2, <1>3, <1>4, <1>6, <1>7, SeqInside

(* The new generation stands when all is copied.                           *)
LEMMA LeaveGenerationSeq ==
  ASSUME IInv, SInv, Sequential, NEW n \in Node, LeaveGeneration(n)
  PROVE  SInv'
<1> DEFINE i == StageOf(n)
           d == i - 1
           s == S(n)
           c == cursor[n]
           r == [s EXCEPT !.started = TRUE]
<1>1. At(n, "copy") /\ "copy" \in Place \ (Without \cup {"arrive", "done", "failed"})
      /\ "copy" \in Counted /\ "copy" \in ToWorker
  BY DEF LeaveGeneration, Place, Without, Counted, ToWorker
<1>2. /\ s \in SessionType /\ i \in Nat /\ d \in Nat /\ Ordered(journal)
      /\ Stand(s, journal, "copy", c, d) /\ Len(s.replayed) \in Nat /\ c \in Nat
      /\ idx[n] = i /\ ~ Answers(s, idx[n]) /\ Generation(journal) \in Nat /\ LastIndex(journal) \in Nat
      /\ s.gen \in Nat
  BY <1>1, SeqFacts
<1>3. IInv' /\ r \in SessionType /\ Inside(n, "copy", "delegate", r)
  BY LeaveGenerationStep
<1>4. c > Len(s.replayed) /\ journal' = journal /\ cursor' = cursor /\ idx' = idx
  BY DEF LeaveGeneration, disk, thread
<1>5. r.prev = s.prev /\ r.gen = s.gen /\ r.started = TRUE
  BY <1>2 DEF SessionType
<1>6. Stand(r, journal, "delegate", c, d)
  <2> HIDE DEF d, s, r, c
  <2>1. Len(s.replayed) = d /\ c <= d + 1
    BY <1>2 DEF Stand
  <2>2. c = d + 1
    BY <1>2, <1>4, <2>1
  <2>3. \/ c = 1 /\ Generation(journal) = s.prev[1].gen /\ s.gen = s.prev[1].gen + 1
        \/ Generation(journal) = s.gen /\ LastIndex(journal) + 1 = c
    BY <1>2 DEF Stand
  <2>4. \/ Generation(journal) = s.gen /\ LastIndex(journal) = d
        \/ d = 0 /\ Generation(journal) < s.gen
    <3>1. Generation(journal) + 1 = s.gen => Generation(journal) < s.gen
      BY <1>2
    <3>2. c = 1 => d = 0
      BY <1>2, <2>2
    <3>3. LastIndex(journal) + 1 = c => LastIndex(journal) = d
      BY <1>2, <2>2
    <3> QED
      BY <2>3, <3>1, <3>2, <3>3
  <2> QED
    BY <1>5, <2>4 DEF Stand
<1>7. "delegate" \in Counted \cup {"failed"} /\ "delegate" # "done"
  BY DEF Counted
<1> HIDE DEF Stand
<1> QED
  BY <1>1, <1>2, <1>3, <1>4, <1>6, <1>7, SeqInside

(* A worker answers.                                                       *)
LEMMA DelegateAnswersSeq ==
  ASSUME IInv, SInv, Sequential, NEW n \in Node, DelegateAnswers(n)
  PROVE  SInv'
<1> DEFINE s == S(n)
           d == StageOf(n) - 1
<1>1. At(n, "delegate") /\ "delegate" \in Place \ (Without \cup {"arrive", "done", "failed"})
      /\ "delegate" \in Counted /\ "delegate" \in ToWorker
  BY DEF DelegateAnswers, Place, Without, Counted, ToWorker
<1>2. /\ s \in SessionType /\ Ordered(journal) /\ Stand(s, journal, "delegate", cursor[n], d)
      /\ idx[n] = StageOf(n) /\ ~ Answers(s, idx[n])
  BY <1>1, SeqFacts
<1>3. IInv' /\ Inside(n, "delegate", "record", s)
  BY DelegateAnswersStep
<1>4. journal' = journal /\ cursor' = cursor /\ idx' = idx
  BY DEF DelegateAnswers, disk, thread
<1>5. Stand(s, journal, "record", cursor[n], d)
  <2> HIDE DEF s, d
  <2> QED
    BY <1>2 DEF Stand, Stopped
<1>6. "record" \in Counted \cup {"failed"} /\ "record" # "done"
  BY DEF Counted
<1> HIDE DEF Stand
<1> QED
  BY <1>1, <1>2, <1>3, <1>4, <1>5, <1>6, SeqInside

(* Its entry, or that of a gate, goes where its stage is.                  *)
LEMMA RecordFacts ==
  ASSUME NEW s \in SessionType, NEW j \in Seq(EntryType), Ordered(j), NEW c, NEW i \in Nat, i # 0,
         NEW place \in {"delegate", "record"}, Stand(s, j, place, c, i - 1),
         NEW e \in EntryType, e.gen = s.gen, e.idx = i
  PROVE  /\ Ordered(Append(j, e))
         /\ Stand(s, Append(j, e), "idle", 1, i)
         /\ Stand(s, Append(j, e), "parked", c, i - 1)
<1> DEFINE d == i - 1
<1>1. /\ Generation(j) \in Nat /\ LastIndex(j) \in Nat /\ s.gen \in Nat /\ Len(s.prev) \in Nat
      /\ Len(s.replayed) \in Nat /\ d \in Nat /\ d + 1 = i
  BY GenerationTyped, OrderedLoads DEF SessionType
<1> HIDE DEF d
<1>2. Stand(s, j, place, c, d) /\ place \notin Stopped /\ place # "copy"
  BY DEF d, Stopped
<1>3. \/ Generation(j) = s.gen /\ LastIndex(j) = d
      \/ d = 0 /\ Generation(j) < s.gen
  <2>1. CASE s.started
    BY <1>2, <2>1 DEF Stand
  <2>2. CASE ~ s.started
    <3>1. Len(s.prev) <= d /\ Generation(j) = s.gen /\ LastIndex(j) = (IF d <= Len(s.prev) THEN Len(s.prev) ELSE d)
      BY <1>2, <2>2 DEF Stand
    <3> QED
      BY <1>1, <3>1
  <2> QED
    BY <2>1, <2>2
<1>4. Ordered(Append(j, e)) /\ Generation(Append(j, e)) = s.gen /\ LastIndex(Append(j, e)) = i
  <2>1. \/ e.gen = Generation(j) /\ e.idx = LastIndex(j) + 1
        \/ Generation(j) < e.gen /\ e.idx = 1
    BY <1>1, <1>3
  <2> QED
    BY <2>1, OrderedAppend
<1> DEFINE k == Append(j, e)
<1> HIDE DEF k
<1>5. Generation(k) = s.gen /\ LastIndex(k) = i
  BY <1>4 DEF k
<1>6. ~ s.started => /\ s.prev # <<>> => s.prev[1].gen = s.gen
                     /\ Len(s.replayed) = (IF d <= Len(s.prev) THEN d ELSE Len(s.prev))
                     /\ Len(s.prev) <= d
  BY <1>2 DEF Stand
<1>7. Stand(s, k, "idle", 1, i)
  <2>1. CASE s.started
    BY <1>5, <2>1 DEF Stand
  <2>2. CASE ~ s.started
    <3>1. Len(s.replayed) = Len(s.prev) /\ ~ (i <= Len(s.prev))
      BY <1>1, <1>6, <2>2
    <3> QED
      BY <1>5, <1>6, <2>2, <3>1 DEF Stand
  <2> QED
    BY <2>1, <2>2
<1>8. Stand(s, k, "parked", c, d)
  BY <1>6 DEF Stand, Stopped
<1> QED
  BY <1>4, <1>7, <1>8 DEF d, k

(* In a sequential workflow a success is journalled at the node's own place. *)
LEMMA RecordSuccessSeq ==
  ASSUME IInv, SInv, Sequential, NEW n \in Node, RecordSuccess(n)
  PROVE  SInv'
<1> DEFINE s == S(n)
           i == StageOf(n)
           f == Entry(s.gen, idx[n], Key(n), Succeeded, MadeBy(n).art)
<1>1. At(n, "record") /\ "record" \in Place \ (Without \cup {"arrive", "done", "failed"}) /\ "record" \in Counted
  BY DEF RecordSuccess, Place, Without, Counted
<1>2. /\ s \in SessionType /\ Ordered(journal) /\ Stand(s, journal, "record", cursor[n], i - 1)
      /\ idx[n] = i /\ journal \in Seq(EntryType) /\ i \in Nat /\ i # 0
  BY <1>1, SeqFacts
<1>3. IInv' /\ Inside(n, "record", "done", s) /\ f \in EntryType
  BY RecordSuccessStep
<1>4. journal' = Append(journal, f) /\ idx' = idx /\ f.gen = s.gen /\ f.idx = i
  BY <1>2 DEF RecordSuccess, thread, Entry
<1> HIDE DEF f, Stand
<1>5. Ordered(journal') /\ Stand(s, journal', "idle", 1, i)
  BY <1>2, <1>3, <1>4, RecordFacts
<1>6. "done" \in Counted \cup {"failed"} /\ "done" \notin ToWorker
  BY DEF Counted, ToWorker
<1> QED
  BY <1>1, <1>2, <1>3, <1>4, <1>5, <1>6, SeqInside

(* So is an open gate.                                                       *)
LEMMA RecordOpenGateSeq ==
  ASSUME IInv, SInv, Sequential, NEW n \in Node, RecordOpenGate(n)
  PROVE  SInv'
<1> DEFINE s == S(n)
           i == StageOf(n)
           f == Entry(s.gen, idx[n], Key(n), OpenGate, 0)
<1>1. At(n, "delegate") /\ "delegate" \in Place \ (Without \cup {"arrive", "done", "failed"}) /\ "delegate" \in Counted
  BY DEF RecordOpenGate, Place, Without, Counted
<1>2. /\ s \in SessionType /\ Ordered(journal) /\ Stand(s, journal, "delegate", cursor[n], i - 1)
      /\ idx[n] = i /\ journal \in Seq(EntryType) /\ i \in Nat /\ i # 0
  BY <1>1, SeqFacts
<1>3. IInv' /\ Inside(n, "delegate", "parked", s) /\ f \in EntryType
  BY RecordOpenGateStep
<1>4. journal' = Append(journal, f) /\ idx' = idx /\ cursor' = cursor /\ f.gen = s.gen /\ f.idx = i
  BY <1>2 DEF RecordOpenGate, thread, Entry
<1> HIDE DEF f, Stand
<1>5. Ordered(journal') /\ Stand(s, journal', "parked", cursor[n], i - 1)
  BY <1>2, <1>3, <1>4, RecordFacts
<1>6. "parked" \in Counted \cup {"failed"} /\ "parked" \notin ToWorker /\ "parked" # "done"
  BY DEF Counted, ToWorker
<1> QED
  BY <1>1, <1>2, <1>3, <1>4, <1>5, <1>6, SeqInside

(* The keys of those who have arrived stay what they are.                  *)
LEMMA KeysStay ==
  ASSUME IInv, NEW n \in Node, StepOf(n), NEW m \in Used, Past(m)
  PROVE  Key(m)' = Key(m)
<1>1. m \in Node /\ Types /\ Thread(m)
  BY StageFacts DEF IInv, Types
<1>2. pc[m] # "idle"
  BY <1>1 DEF Past, Thread, Without
<1>3. Before(StageOf(m))
  BY <1>1, <1>2 DEF Thread
<1> QED
  BY <1>1, <1>3, AskStable DEF Key, StepOf

(* Before the session is there, or beside it, a thread moves.              *)
LEMMA EnterHandlerSeq ==
  ASSUME IInv, IInv', SInv, Sequential, NEW n \in Node, EnterHandler(n)
  PROVE  SInv'
<1>1. /\ Types /\ Thread(n) /\ pc[n] = "enter" /\ run # "off" /\ my[n] = 0
      /\ UNCHANGED <<shape, ver, journal, runs, run, sess, shared, idx, cursor, res, made>>
  BY DEF IInv, EnterHandler, At, disk, Thread, Without
<1>2. /\ \A m \in Node \ {n} : pc'[m] = pc[m] /\ my'[m] = my[m]
      /\ \/ shared = 0 /\ pc'[n] = "load" /\ my'[n] = 0
         \/ shared # 0 /\ pc'[n] = "arrive" /\ my'[n] = shared
  BY <1>1 DEF EnterHandler, Go, Types
<1>3. StepOf(n)
  BY <1>1, <1>2 DEF StepOf, SessGrow, Types
<1>4. /\ \A m \in Node \ {n} : pc[m] = "idle" \/ pc[m] = "done"
      /\ \A i \in Stages : shape[i] \subseteq Node /\ \A m \in shape[i] : m \in Used
      /\ Stages' = Stages /\ \A m : StageOf(m)' = StageOf(m)
  BY <1>1, Line, StageFacts DEF Types, Stages, StageOf
<1>5. OneSession'
  BY <1>1, <1>2, <1>4 DEF SInv, OneSession
<1>6. InPlace'
  BY <1>1, <1>2, <1>4 DEF SInv, InPlace, Counted
<1>7. NotAnswered'
  BY <1>1, <1>2, <1>4 DEF NotAnswered, ToWorker
<1>8. \A m \in Node : Past(m)' <=> Past(m)
  BY <1>1, <1>2 DEF Past
<1>9. ASSUME NEW t \in DOMAIN sess PROVE KeysInOrder(sess[t])'
  <2>1. KeysInOrder(sess[t])
    BY DEF SInv
  <2>2. ASSUME NEW i \in Stages, NEW m \in shape[i]
        PROVE  /\ i <= Len(sess[t].keys) <=> Past(m)'
               /\ i <= Len(sess[t].keys) => sess[t].keys[i] = Key(m)'
    <3>1. (i <= Len(sess[t].keys) <=> Past(m)) /\ (i <= Len(sess[t].keys) => sess[t].keys[i] = Key(m))
      BY <2>1 DEF KeysInOrder
    <3>2. m \in Node /\ m \in Used
      BY <1>4
    <3>3. Past(m) => Key(m)' = Key(m)
      BY <1>3, <3>2, KeysStay
    <3> QED
      BY <1>8, <3>1, <3>2, <3>3
  <2> QED
    BY <1>1, <1>4, <2>1, <2>2 DEF KeysInOrder
<1>10. ASSUME NEW t \in DOMAIN sess PROVE InPhase(sess[t])'
  <2> DEFINE s == sess[t]
  <2>1. \A m \in Node : ~ InSession(m)
    <3>1. \A m \in Node : my[m] # 0 => pc[m] # "idle"
      BY DEF IInv, Thread, Without
    <3> QED
      BY <1>1, <1>4, <3>1 DEF InSession
  <2>2. PICK d \in 0..Len(shape) : Served(d) /\ Stand(s, journal, "idle", 1, d)
    BY <2>1 DEF SInv, InPhase
  <2>3. Served(d)'
    <3>1. \A m \in Node : pc'[m] = "done" <=> pc[m] = "done"
      BY <1>1, <1>2
    <3> QED
      BY <1>1, <1>4, <2>2, <3>1 DEF Served
  <2>4. /\ \A m \in Node : InSession(m)' => m = n
        /\ InSession(n)' => pc'[n] = "arrive"
    BY <1>2, <2>1 DEF InSession
  <2>5. Stand(s, journal, "arrive", cursor[n], d)
    BY <2>2 DEF Stand, Stopped
  <2>6. s' = s /\ \A k \in DOMAIN s.prev : s.prev[k].idx = k
    BY <1>1 DEF SInv, InPhase
  <2> HIDE DEF Stand, s
  <2>7. InPhase(s)'
    BY <1>1, <2>2, <2>3, <2>4, <2>5, <2>6 DEF InPhase
  <2> QED
    BY <2>7 DEF s
<1> QED
  BY <1>1, <1>5, <1>6, <1>7, <1>9, <1>10 DEF SInv

(* A journal of such a workflow always loads.                              *)
LEMMA LoadSessionSeq ==
  ASSUME IInv, SInv, NEW n \in Node, LoadSession(n)
  PROVE  FALSE
  BY OrderedLoads DEF LoadSession, IInv, Types, SInv

(* In a sequential workflow the first node of a run makes its only session.  *)
LEMMA NewSessionSeq ==
  ASSUME IInv, IInv', SInv, Sequential, NEW n \in Node, NewSession(n)
  PROVE  SInv'
<1>0. PICK r : r = [prev |-> Latest(journal), gen |-> Generation(journal),
                    keys |-> <<>>, replayed |-> <<>>, started |-> FALSE]
  OBVIOUS
<1>1. /\ Types /\ pc[n] = "load" /\ run # "off"
      /\ sess' = Append(sess, r) /\ shared' = Len(sess')
      /\ my' = [my EXCEPT ![n] = Len(sess')] /\ pc' = [pc EXCEPT ![n] = "arrive"]
      /\ UNCHANGED <<shape, ver, journal, runs, run, idx, cursor, res, made>>
  BY <1>0 DEF IInv, NewSession, At, Go, disk
<1>2. sess = <<>> /\ shared = 0
  BY <1>1 DEF SInv, OneSession, Types
<1>3. sess' = <<r>> /\ DOMAIN sess' = {1} /\ sess'[1] = r /\ Len(sess') = 1
  BY <1>1, <1>2
<1>4. /\ \A m \in Node \ {n} : pc'[m] = pc[m] /\ my'[m] = my[m]
      /\ pc'[n] = "arrive" /\ my'[n] = 1 /\ \A m \in Node : my[m] = 0
  <2>1. \A m \in Node : my[m] \in 0..0
    BY <1>1, <1>2 DEF Types
  <2> QED
    BY <1>1, <1>3, <2>1 DEF Types
<1>5. /\ \A m \in Node \ {n} : pc[m] = "idle" \/ pc[m] = "done"
      /\ \A i \in Stages : shape[i] \subseteq Node
      /\ Stages' = Stages /\ Stages = 1..Len(shape) /\ Len(shape) \in Nat
  BY <1>1, Line, StageFacts DEF Types, Stages
<1>6. \A m \in Node \ {n} : pc[m] = "idle"
  <2>1. \A m \in Node : pc[m] = "done" => my[m] # 0
    BY DEF IInv, Thread, Without
  <2> QED
    BY <1>4, <1>5, <2>1
<1>7. OneSession'
  BY <1>1, <1>3, <1>4, <1>6 DEF OneSession
<1>8. InPlace' /\ NotAnswered'
  BY <1>4, <1>6 DEF InPlace, NotAnswered, Counted, ToWorker
<1>9. KeysInOrder(r)'
  <2>1. \A m \in Node : ~ Past(m)'
    BY <1>4 DEF Past
  <2>2. Len(r.keys) = 0
    BY <1>0
  <2> QED
    BY <1>1, <1>5, <2>1, <2>2 DEF KeysInOrder
<1>10. InPhase(r)'
  <2>1. /\ journal \in Seq(EntryType) /\ Ordered(journal)
        /\ Loadable(journal) /\ Latest(journal) \in Seq(EntryType) /\ Len(Latest(journal)) = LastIndex(journal)
        /\ LastIndex(journal) \in Nat
    BY <1>1, OrderedLoads DEF Types, SInv
  <2>2. \A k \in DOMAIN Latest(journal) : Latest(journal)[k].idx = k /\ Latest(journal)[k].gen = Generation(journal)
    BY <2>1, LatestFacts DEF Loadable
  <2>3. /\ r.prev = Latest(journal) /\ r.gen = Generation(journal) /\ r.replayed = <<>> /\ r.started = FALSE
        /\ Len(r.replayed) = 0
    BY <1>0
  <2>4. r.prev # <<>> => r.prev[1].gen = r.gen
    <3>1. r.prev # <<>> => 1 \in DOMAIN r.prev
      BY <2>1, <2>3
    <3> QED
      BY <2>2, <2>3, <3>1
  <2>5. Stand(r, journal, "arrive", cursor[n], 0)
    BY <2>1, <2>3, <2>4 DEF Stand
  <2>6. Served(0)'
    <3>1. \A m \in Node : pc'[m] # "done"
      BY <1>4, <1>6
    <3>2. \A i \in Stages : ~ (i <= 0)
      BY <1>5
    <3> QED
      BY <1>1, <1>5, <3>1, <3>2 DEF Served
  <2>7. InSession(n)' /\ \A m \in Node : InSession(m)' => m = n
    BY <1>4 DEF InSession
  <2>8. 0 \in 0..Len(shape') /\ r.prev = Latest(journal)
    BY <1>1, <1>5, <2>3
  <2> HIDE DEF Stand
  <2> QED
    BY <1>1, <1>4, <2>2, <2>5, <2>6, <2>7, <2>8 DEF InPhase
<1>11. Ordered(journal')
  BY <1>1 DEF SInv
<1>12. SInv'
  BY <1>3, <1>7, <1>8, <1>9, <1>10, <1>11 DEF SInv
<1> QED
  BY <1>12

(* The next key is that of the next stage.                                 *)
LEMMA ArriveKeySeq ==
  ASSUME IInv, IInv', SInv, Sequential, NEW n \in Node, ArriveKey(n)
  PROVE  SInv'
<1> DEFINE s == S(n)
           i == StageOf(n)
<1>0. PICK r : r = [s EXCEPT !.keys = Append(@, Key(n))]
  OBVIOUS
<1>1. /\ run # "off" /\ pc[n] = "arrive" /\ n \in Used /\ my[n] \in DOMAIN sess
      /\ s = sess[my[n]] /\ s \in SessionType /\ res[n] = 0 /\ Ask(n) \in AskType /\ Types /\ Thread(n)
  <2>1. At(n, "arrive") /\ "arrive" \in Place \ (Without \cup {"failed"})
    BY DEF ArriveKey, Place, Without
  <2> QED
    BY <2>1, InCall
<1>2. my[n] = 1 /\ DOMAIN sess = {1} /\ Len(sess) = 1 /\ shared = 1 /\ s = sess[1] /\ my[n] # 0
  BY <1>1, FirstSession DEF Types
<1>3. /\ sess' = [sess EXCEPT ![1] = r] /\ pc' = [pc EXCEPT ![n] = "count"]
      /\ UNCHANGED <<shape, ver, journal, runs, run, shared, my, idx, cursor, res, made>>
  BY <1>0, <1>2 DEF ArriveKey, Go, disk, thread
<1>4. /\ r.prev = s.prev /\ r.gen = s.gen /\ r.replayed = s.replayed /\ r.started = s.started
      /\ r.keys = Append(s.keys, Key(n)) /\ s.keys \in Seq(AskType) /\ Key(n) \in AskType
  BY <1>0, <1>1 DEF SessionType, Key
<1>5. Len(r.keys) = Len(s.keys) + 1 /\ Len(s.keys) \in Nat /\ r.keys[Len(s.keys) + 1] = Key(n)
      /\ \A k \in 1..Len(s.keys) : r.keys[k] = s.keys[k]
  BY <1>4
<1>6. DOMAIN sess' = {1} /\ Len(sess') = 1 /\ sess'[1] = r
  BY <1>1, <1>2, <1>3 DEF Types
<1>7. pc'[n] = "count" /\ \A m \in Node \ {n} : pc'[m] = pc[m]
  BY <1>1, <1>3 DEF Types
<1>8. StepOf(n)
  <2>1. SessGrow
    BY <1>2, <1>4, <1>6 DEF SessGrow
  <2> QED
    BY <1>1, <1>3, <1>7, <2>1 DEF StepOf, Types
<1>9. /\ i \in Stages /\ shape[i] = {n} /\ Stages = 1..Len(shape) /\ Len(shape) \in Nat
      /\ \A m \in Node \ {n} : pc[m] = "idle" \/ pc[m] = "done"
      /\ \A k \in Stages : k < i => \A m \in shape[k] : pc[m] = "done"
      /\ \A k \in Stages : i < k => \A m \in shape[k] : pc[m] = "idle"
      /\ \A k \in Stages : shape[k] \subseteq Node /\ \A m \in shape[k] : m \in Used /\ StageOf(m) = k
      /\ Stages' = Stages /\ \A m : StageOf(m)' = StageOf(m)
  BY <1>1, <1>3, Line, StageFacts DEF Types, Stages, StageOf
<1>10. /\ Stand(s, journal, "arrive", cursor[n], i - 1) /\ Served(i - 1) /\ KeysInOrder(s)
       /\ \A k \in DOMAIN s.prev : s.prev[k].idx = k
  BY <1>1, <1>2, OnTheWay DEF InSession
<1>11. Len(s.keys) = i - 1
  <2>1. ~ (i <= Len(s.keys))
    BY <1>1, <1>9, <1>10 DEF KeysInOrder, Past
  <2>2. ASSUME i # 1 PROVE i - 1 <= Len(s.keys)
    <3>1. i - 1 \in Stages /\ i - 1 < i
      BY <1>9, <2>2
    <3>2. \E m : m \in shape[i - 1]
      <4>1. Cardinality(shape[i - 1]) = 1
        BY <3>1 DEF Sequential
      <4> QED
        BY <4>1, FS_EmptySet
    <3>3. PICK m \in shape[i - 1] : m \in Node /\ pc[m] = "done"
      BY <1>9, <3>1, <3>2
    <3>4. Past(m)
      BY <3>3 DEF IInv, Thread, Without, Past
    <3> QED
      BY <1>10, <3>1, <3>3, <3>4 DEF KeysInOrder
  <2> QED
    BY <1>5, <1>9, <2>1, <2>2
<1>12. OneSession' /\ InPlace' /\ NotAnswered'
  <2>1. OneSession'
    BY <1>2, <1>3, <1>6, <1>7, <1>9 DEF OneSession
  <2>2. InPlace'
    BY <1>3, <1>7, <1>9 DEF SInv, InPlace, Counted
  <2>3. NotAnswered'
    BY <1>7, <1>9 DEF NotAnswered, ToWorker
  <2> QED
    BY <2>1, <2>2, <2>3
<1>13. KeysInOrder(r)'
  <2>1. ASSUME NEW k \in Stages, NEW m \in shape[k]
        PROVE  (k <= Len(r.keys) <=> Past(m)') /\ (k <= Len(r.keys) => r.keys[k] = Key(m)')
    <3>1. (k <= Len(s.keys) <=> Past(m)) /\ (k <= Len(s.keys) => s.keys[k] = Key(m)) /\ m \in Node /\ m \in Used
      BY <1>9, <1>10 DEF KeysInOrder
    <3>2. CASE m = n
      <4>1. k = i /\ Len(r.keys) = i
        BY <1>5, <1>9, <1>11, <3>2
      <4>2. Past(m)'
        BY <1>2, <1>3, <1>7, <3>2 DEF Past
      <4>3. Key(n)' = Key(n)
        BY <1>1, <1>3, AskStable DEF Key, Thread
      <4>4. r.keys[k] = Key(n) /\ k <= Len(r.keys)
        BY <1>5, <1>9, <1>11, <4>1
      <4> QED
        BY <3>2, <4>2, <4>3, <4>4
    <3>3. CASE m # n
      <4>1. k # i
        BY <1>9, <3>3
      <4>2. k <= Len(r.keys) <=> k <= Len(s.keys)
        BY <1>5, <1>9, <1>11, <4>1
      <4>3. Past(m)' <=> Past(m)
        BY <1>3, <1>7, <3>1, <3>3 DEF Past
      <4>4. Past(m) => Key(m)' = Key(m)
        BY <1>8, <3>1, KeysStay
      <4>5. k <= Len(s.keys) => r.keys[k] = s.keys[k]
        BY <1>5, <1>9
      <4> QED
        BY <3>1, <4>2, <4>3, <4>4, <4>5
    <3> QED
      BY <3>2, <3>3
  <2>2. Len(r.keys) <= Len(shape)
    BY <1>5, <1>9, <1>11
  <2> QED
    BY <1>3, <1>9, <2>1, <2>2 DEF KeysInOrder
<1>14. InPhase(r)'
  <2>1. Stand(r, journal, "count", cursor[n], i - 1)
    BY <1>4, <1>10 DEF Stand, Stopped
  <2>2. Served(i - 1)'
    <3>1. \A m \in Node : pc'[m] = "done" <=> pc[m] = "done"
      BY <1>1, <1>7
    <3> QED
      BY <1>3, <1>9, <1>10, <3>1 DEF Served
  <2>3. InSession(n)' /\ \A m \in Node : InSession(m)' => m = n
    <3>1. \A m \in Node : my[m] # 0 => pc[m] # "idle"
      BY DEF IInv, Thread, Without
    <3> QED
      BY <1>2, <1>3, <1>7, <1>9, <3>1 DEF InSession
  <2>4. i - 1 \in 0..Len(shape') /\ \A k \in DOMAIN r.prev : r.prev[k].idx = k
    BY <1>3, <1>4, <1>9, <1>10
  <2> HIDE DEF Stand
  <2> QED
    BY <1>3, <1>7, <1>9, <2>1, <2>2, <2>3, <2>4 DEF InPhase
<1>15. Ordered(journal')
  BY <1>3 DEF SInv
<1> QED
  BY <1>6, <1>12, <1>13, <1>14, <1>15 DEF SInv

(* In a sequential workflow a node starts after the nodes before it are done.*)
LEMMA OffloadSeq ==
  ASSUME IInv, IInv', SInv, Sequential, NEW n \in Node, Offload(n)
  PROVE  SInv'
<1>1. /\ Types /\ Thread(n) /\ pc[n] = "idle" /\ run # "off" /\ my[n] = 0
      /\ pc' = [pc EXCEPT ![n] = "enter"]
      /\ UNCHANGED <<shape, ver, journal, runs, run, sess, shared, my, idx, cursor, res, made>>
  BY DEF IInv, Offload, disk, thread, Thread, Without
<1>2. pc'[n] = "enter" /\ \A m \in Node \ {n} : pc'[m] = pc[m]
  BY <1>1 DEF Types
<1>3. /\ Stages' = Stages /\ Used' = Used /\ \A m : StageOf(m)' = StageOf(m) /\ S(m)' = S(m) /\ Key(m)' = Key(m)
      /\ \A i \in Stages : shape[i] \subseteq Node
  BY <1>1, StageFacts DEF Types, Stages, StageOf, S, Used, Key, Ask, Inputs
<1>4. OneSession' /\ InPlace' /\ NotAnswered'
  BY <1>1, <1>2, <1>3 DEF SInv, OneSession, InPlace, NotAnswered, Counted, ToWorker
<1>5. \A m \in Node : (Past(m)' <=> Past(m)) /\ (InSession(m)' <=> InSession(m)) /\ (InSession(m) => pc'[m] = pc[m])
                      /\ (pc'[m] = "done" <=> pc[m] = "done")
  BY <1>1, <1>2 DEF Past, InSession
<1>6. ASSUME NEW t \in DOMAIN sess PROVE KeysInOrder(sess[t])' /\ InPhase(sess[t])'
  <2>1. KeysInOrder(sess[t]) /\ InPhase(sess[t])
    BY DEF SInv
  <2>2. KeysInOrder(sess[t])'
    BY <1>1, <1>3, <1>5, <2>1 DEF KeysInOrder
  <2>3. \A d : Served(d)' <=> Served(d)
    BY <1>1, <1>3, <1>5 DEF Served
  <2> HIDE DEF Stand
  <2>4. InPhase(sess[t])'
    BY <1>1, <1>5, <2>1, <2>3 DEF InPhase
  <2> QED
    BY <2>2, <2>4
<1> QED
  BY <1>1, <1>4, <1>6 DEF SInv

(* Nothing that this invariant speaks of changes.                          *)
LEMMA SameSeq ==
  ASSUME SInv, UNCHANGED <<shape, ver, journal, sess, shared, pc, my, idx, cursor, res>>
  PROVE  SInv'
<1>1. /\ Stages' = Stages /\ \A m : StageOf(m)' = StageOf(m) /\ S(m)' = S(m) /\ Key(m)' = Key(m)
                                    /\ (Past(m)' <=> Past(m)) /\ (InSession(m)' <=> InSession(m))
  BY DEF Stages, StageOf, S, Key, Ask, Inputs, Past, InSession
<1>2. OneSession' /\ InPlace' /\ NotAnswered' /\ Ordered(journal)'
  BY <1>1 DEF SInv, OneSession, InPlace, NotAnswered, Ordered
<1>3. ASSUME NEW t \in DOMAIN sess PROVE KeysInOrder(sess[t])' /\ InPhase(sess[t])'
  <2>1. KeysInOrder(sess[t]) /\ InPhase(sess[t])
    BY DEF SInv
  <2>2. KeysInOrder(sess[t])'
    BY <1>1, <2>1 DEF KeysInOrder
  <2>3. \A d : Served(d)' <=> Served(d)
    BY <1>1 DEF Served
  <2> HIDE DEF Stand
  <2>4. InPhase(sess[t])'
    BY <1>1, <2>1, <2>3 DEF InPhase
  <2> QED
    BY <2>2, <2>4
<1> QED
  BY <1>2, <1>3 DEF SInv

(* There is no process, and the journal is as it was.                      *)
LEMMA GoneSeq ==
  ASSUME Ordered(journal'), sess' = <<>>, shared' = 0, \A n \in Node : pc'[n] = "idle"
  PROVE  SInv'
<1>1. DOMAIN sess' = {} /\ Len(sess') = 0
  OBVIOUS
<1> QED
  BY <1>1 DEF SInv, OneSession, InPlace, NotAnswered, Counted, ToWorker

(* The invariant of these workflows holds in every step.                   *)
LEMMA NextSInv ==
  ASSUME IInv, SInv, Sequential, [Next]_vars
  PROVE  SInv'
<1>1. IInv'
  BY NextIInv
<1>2. CASE Start \/ Block \/ UNCHANGED vars
  BY <1>2, SameSeq DEF Start, Block, disk, thread, vars
<1>3. CASE Exit
  BY <1>3, GoneSeq DEF Exit, disk, SInv
<1>4. ASSUME NEW n \in Node, Redirect(n) PROVE SInv'
  <2>1. sess = <<>> /\ shared = 0 /\ \A m \in Node : pc[m] = "idle"
    BY <1>4 DEF Redirect, IInv, OffIsEmpty, Types
  <2> QED
    BY <1>4, <2>1, GoneSeq DEF Redirect, SInv
<1>5. ASSUME NEW n \in Node, Offload(n) PROVE SInv'
  BY <1>1, <1>5, OffloadSeq
<1>6. ASSUME NEW n \in Node, RefuseEntry(n) \/ DelegateRaises(n) PROVE SInv'
  BY <1>1, <1>6, RaiseSeq DEF RefuseEntry, DelegateRaises, disk, thread
<1>7. ASSUME NEW n \in Node, Call(n) PROVE SInv'
  BY <1>1, <1>6, <1>7, EnterHandlerSeq, LoadSessionSeq, NewSessionSeq, ArriveKeySeq, CountKeysSeq, ReplayEntrySeq,
     EnterGenerationSeq, CopyEntrySeq, LeaveGenerationSeq, DelegateAnswersSeq, RecordSuccessSeq,
     RecordOpenGateSeq DEF Call
<1> QED
  BY <1>2, <1>3, <1>4, <1>5, <1>7 DEF Next

(* Both invariants together.                                               *)
SequentialInv == IInv /\ (Sequential => SInv)

(* The invariant of sequential workflows holds of every reachable state.     *)
LEMMA AlwaysSequentialInv ==
  Spec => []SequentialInv
<1>1. Init => SequentialInv
  <2> SUFFICES ASSUME Init PROVE IInv /\ SInv
    BY DEF SequentialInv
  <2>1. /\ journal = <<>> /\ sess = <<>> /\ shared = 0 /\ \A n \in Node : pc[n] = "idle"
        /\ DOMAIN journal = {} /\ DOMAIN sess = {} /\ Len(sess) = 0
    BY DEF Init
  <2>2. SInv
    BY <2>1 DEF SInv, OneSession, InPlace, NotAnswered, Counted, ToWorker, Ordered
  <2> QED
    BY <2>2, InitIInv
<1>2. SequentialInv /\ [Next]_vars => SequentialInv'
  <2> SUFFICES ASSUME SequentialInv, [Next]_vars PROVE IInv' /\ (Sequential' => SInv')
    BY DEF SequentialInv
  <2>1. IInv'
    BY NextIInv DEF SequentialInv
  <2>2. shape' = shape
    <3>1. ASSUME NEW n \in Node, Redirect(n) \/ Offload(n) \/ Call(n) PROVE shape' = shape
      BY <3>1 DEF Redirect, Offload, Call, EnterHandler, LoadSession, NewSession, ArriveKey, CountKeys,
                  RefuseEntry, ReplayEntry, EnterGeneration, CopyEntry, LeaveGeneration, DelegateAnswers,
                  RecordSuccess, RecordOpenGate, DelegateRaises, disk
    <3> QED
      BY <3>1 DEF Next, Start, Exit, Block, disk, vars
  <2>3. Sequential' <=> Sequential
    BY <2>2 DEF Sequential, Stages
  <2> QED
    BY <2>1, <2>3, NextSInv DEF SequentialInv
<1> QED
  BY <1>1, <1>2, PTL DEF Spec

(* The types of the state, as the run checks them.                         *)
LEMMA TypesHold ==
  IInv => TypeOK
<1> SUFFICES ASSUME IInv PROVE TypeOK
  OBVIOUS
<1>1. \A i \in DOMAIN journal : journal[i].kind \in {Succeeded, OpenGate}
  <2>1. \A i \in DOMAIN journal : journal[i] \in EntryType
    BY DEF IInv, Types
  <2> QED
    BY <2>1 DEF EntryType
<1> QED
  BY <1>1 DEF IInv, Types, TypeOK, Place

(* However a run of one agent after the other is killed, blocked, edited   *)
(* and resumed, its journal loads: positions are neither missing nor       *)
(* written twice (journal.py _validate_entry_sequence,                     *)
(* _validate_contiguous_generation, _start_new_generation).                *)
THEOREM SequentialJournalLoads ==
  Spec => []SequentialLoads
<1>1. SequentialInv => SequentialLoads
  BY TypesHold, OrderedLoads DEF SequentialInv, SequentialLoads, SInv, IInv, Types
<1> QED
  BY <1>1, AlwaysSequentialInv, PTL

(* In such a run a worker is never asked for what the journal already      *)
(* answers (journal.py longest_valid_prefix, run_or_replay).               *)
THEOREM SequentialResumes ==
  Spec => []ResumeReuses
<1>1. SequentialInv => ResumeReuses
  <2> SUFFICES ASSUME SequentialInv, Sequential, NEW n \in Used, pc[n] \in {"delegate", "record"},
                      StageOf(n) <= Len(S(n).prev), S(n).prev[StageOf(n)].key = Key(n),
                      \A k \in 1..StageOf(n) : S(n).prev[k].kind = Succeeded,
                      \A k \in 1..(StageOf(n) - 1) : \E m \in shape[k] : S(n).prev[k].art = res[m]
               PROVE  FALSE
    BY DEF ResumeReuses
  <2> DEFINE i == StageOf(n)
             s == S(n)
  <2>1. IInv /\ SInv /\ Types /\ MadeInOrder
    BY DEF SequentialInv, IInv
  <2>2. n \in Node /\ i \in Stages /\ n \in shape[i] /\ Stages = 1..Len(shape) /\ Len(shape) \in Nat
        /\ \A k \in Stages : shape[k] \subseteq Node /\ \A m \in shape[k] : m \in Used
    BY <2>1, StageFacts DEF Types, Stages
  <2>3. idx[n] = i /\ ~ Answers(s, i)
    BY <2>1, <2>2 DEF SInv, InPlace, NotAnswered, Counted, ToWorker
  <2>4. InSession(n) /\ my[n] \in DOMAIN sess /\ pc[n] # "idle"
    <3>1. Thread(n) /\ my[n] \in 0..Len(sess) /\ sess \in Seq(SessionType)
      BY <2>1, <2>2 DEF IInv, Types
    <3> QED
      BY <3>1 DEF Thread, InSession, Without
  <2>5. KeysInOrder(s) /\ s \in SessionType /\ s = sess[my[n]]
    BY <2>1, <2>2, <2>4, OnTheWay DEF S, Types
  <2>6. DOMAIN s.prev = 1..Len(s.prev) /\ Len(s.prev) \in Nat /\ Len(s.keys) \in Nat
    BY <2>5 DEF SessionType
  <2>7. Past(n) /\ i <= Len(s.keys) /\ s.keys[i] = Key(n)
    BY <2>2, <2>4, <2>5 DEF KeysInOrder, InSession, Past
  <2>8. i \in DOMAIN s.prev /\ \A k \in 1..i : k \in DOMAIN s.prev /\ k \in Stages /\ k <= Len(s.keys)
    BY <2>2, <2>6, <2>7
  <2>9. ASSUME NEW k \in 1..i PROVE s.prev[k].key = s.keys[k]
    <3>1. CASE k = i
      BY <2>7, <3>1
    <3>2. CASE k # i
      <4>1. k \in 1..(i - 1) /\ k \in Stages /\ k \in DOMAIN s.prev /\ k <= Len(s.keys)
        BY <2>2, <2>8, <3>2
      <4>2. PICK m \in shape[k] : s.prev[k].art = res[m]
        BY <4>1
      <4>3. m \in Node /\ m \in Used /\ s.keys[k] = Key(m)
        BY <2>2, <2>5, <4>1 DEF KeysInOrder
      <4>4. PICK w \in made : w.art = s.prev[k].art /\ w.ask = s.prev[k].key
        <5>1. s.prev[k].kind = Succeeded
          OBVIOUS
        <5>2. Vouched(made, s.prev[k])
          BY <2>1, <2>4, <2>5, <4>1 DEF IInv, EntriesVouched
        <5> QED
          BY <5>1, <5>2 DEF Vouched
      <4>5. res[m] # 0
        BY <2>1, <4>2, <4>4 DEF MadeInOrder
      <4>6. PICK v \in made : v.art = res[m] /\ v.ask = Ask(m)
        BY <2>1, <4>3, <4>5 DEF IInv, Thread
      <4>7. w = v
        BY <2>1, <4>2, <4>4, <4>6 DEF MadeInOrder
      <4> QED
        BY <4>3, <4>4, <4>6, <4>7 DEF Key
    <3> QED
      BY <3>1, <3>2
  <2>10. s.prev[i].kind = Succeeded
    <3>1. i \in 1..i
      BY <2>2
    <3> QED
      BY <3>1
  <2> QED
    BY <2>3, <2>8, <2>9, <2>10 DEF Answers
<1> QED
  BY <1>1, AlwaysSequentialInv, PTL
================================================================================
