---------------------------- MODULE SchedulerProofs ----------------------------
(* The inductive invariant of Scheduler, for every finite or infinite set of   *)
(* ids and every program.  First what the operators on queues do: which        *)
(* elements a subsequence, a removal or an addition keeps, and what waking the *)
(* waiters of a waitable does to the continuation of every owner.              *)
EXTENDS Scheduler, TLAPS, FiniteSetTheorems, FunctionTheorems

-------------------------------------------------------------------------------
(* Subsequence keeps the elements at the given indices, each of them once.     *)
LEMMA Ranks ==
  ASSUME NEW I, I \subseteq Nat, IsFiniteSet(I)
  PROVE  LET rank == [i \in I |-> Cardinality({j \in I : j < i}) + 1]
         IN  /\ rank \in Injection(I, 1..Cardinality(I))
             /\ rank \in Surjection(I, 1..Cardinality(I))
<1> DEFINE Below(i) == {j \in I : j < i}
           rank == [i \in I |-> Cardinality(Below(i)) + 1]
<1>1. Cardinality(I) \in Nat
  BY FS_CardinalityType
<1>2. ASSUME NEW i \in I
      PROVE  /\ IsFiniteSet(Below(i)) /\ Cardinality(Below(i)) \in Nat
             /\ Cardinality(Below(i)) < Cardinality(I)
  <2>1. Below(i) \subseteq I \ {i} /\ I \ {i} \subseteq I
    OBVIOUS
  <2>2. IsFiniteSet(I \ {i}) /\ Cardinality(I \ {i}) = Cardinality(I) - 1
    BY FS_RemoveElement
  <2>3. IsFiniteSet(Below(i)) /\ Cardinality(Below(i)) <= Cardinality(I \ {i})
    BY <2>1, <2>2, FS_Subset
  <2>. QED  BY <1>1, <2>2, <2>3, FS_CardinalityType
<1>3. rank \in [I -> 1..Cardinality(I)]
  BY <1>1, <1>2
<1>4. ASSUME NEW i \in I, NEW k \in I, i < k PROVE Cardinality(Below(i)) < Cardinality(Below(k))
  <2>0. i \in Nat /\ k \in Nat /\ \A j \in Below(i) : j \in Nat /\ j \in I /\ j < i
    OBVIOUS
  <2>1. i \in Below(k) /\ Below(i) \subseteq Below(k) \ {i}
    <3>1. i \in Below(k)
      BY <1>4
    <3>2. ASSUME NEW j \in Below(i) PROVE j \in Below(k) /\ j # i
      BY <1>4, <2>0
    <3> HIDE DEF Below
    <3>. QED  BY <3>1, <3>2
  <2>2. /\ IsFiniteSet(Below(k) \ {i}) /\ Cardinality(Below(k) \ {i}) = Cardinality(Below(k)) - 1
    BY <1>2, <2>1, FS_RemoveElement
  <2>3. Cardinality(Below(i)) <= Cardinality(Below(k) \ {i})
    BY <2>1, <2>2, FS_Subset
  <2>4. Cardinality(Below(i)) \in Nat /\ Cardinality(Below(k)) \in Nat
    BY <1>2
  <2> HIDE DEF Below
  <2>. QED  BY <2>2, <2>3, <2>4
<1>5. \A i, k \in I : rank[i] = rank[k] => i = k
  <2> SUFFICES ASSUME NEW i \in I, NEW k \in I, rank[i] = rank[k] PROVE i = k
    OBVIOUS
  <2>1. Cardinality(Below(i)) = Cardinality(Below(k))
    BY <1>2
  <2>2. ~(i < k) /\ ~(k < i)
    BY <1>2, <1>4, <2>1
  <2>. QED  BY <2>2
<1>6. rank \in Injection(I, 1..Cardinality(I))
  <2> HIDE DEF rank
  <2>. QED  BY <1>3, <1>5 DEF Injection, IsInjective
<1>7. IsFiniteSet(1..Cardinality(I)) /\ Cardinality(1..Cardinality(I)) = Cardinality(I)
  BY <1>1, FS_Interval
<1>. QED  BY <1>6, <1>7, FS_Injection

(* Filtering a list (cleanup_waiters, the semaphore pruning, the heap's list  *)
(* comprehensions): the result has as many elements as there are indices      *)
(* kept, and numbers them without repetition.                                 *)
LEMMA SubsequenceFacts ==
  ASSUME NEW T, NEW s \in Seq(T), NEW I \in SUBSET DOMAIN s
  PROVE  /\ Subsequence(s, I) \in Seq(T)
         /\ Len(Subsequence(s, I)) = Cardinality(I) /\ Cardinality(I) \in Nat
         /\ \E f \in Bijection(1..Cardinality(I), I) :
              \A n \in 1..Cardinality(I) : Subsequence(s, I)[n] = s[f[n]]
<1> DEFINE N == Cardinality(I)
           rank == [i \in I |-> Cardinality({j \in I : j < i}) + 1]
           f == [n \in 1..N |-> CHOOSE i \in I : Cardinality({j \in I : j < i}) = n - 1]
<1>1. I \subseteq Nat /\ IsFiniteSet(I) /\ N \in Nat
  <2>1. DOMAIN s = 1..Len(s) /\ Len(s) \in Nat
    OBVIOUS
  <2>2. IsFiniteSet(DOMAIN s)
    BY <2>1, FS_Interval
  <2>. QED  BY <2>1, <2>2, FS_Subset, FS_CardinalityType
<1>2. rank \in Injection(I, 1..N) /\ rank \in Surjection(I, 1..N)
  BY <1>1, Ranks
<1>3. \A i \in I : {j \in I : j < i} \subseteq I /\ Cardinality({j \in I : j < i}) \in Nat
  BY <1>1, FS_Subset, FS_CardinalityType
<1>4. ASSUME NEW n \in 1..N PROVE f[n] \in I /\ rank[f[n]] = n
  <2>1. PICK i \in I : rank[i] = n
    BY <1>2 DEF Surjection
  <2>2. Cardinality({j \in I : j < i}) = n - 1
    BY <1>3, <2>1
  <2>3. f[n] \in I /\ Cardinality({j \in I : j < f[n]}) = n - 1
    BY <2>2
  <2>. QED  BY <2>3
<1>5. f \in Bijection(1..N, I)
  <2>1. f \in [1..N -> I]
    BY <1>4
  <2>2. \A m, n \in 1..N : f[m] = f[n] => m = n
    BY <1>4
  <2>3. \A i \in I : \E n \in 1..N : f[n] = i
    <3> TAKE i \in I
    <3>1. rank[i] \in 1..N
      BY <1>2 DEF Injection, IsInjective
    <3>2. f[rank[i]] \in I /\ rank[f[rank[i]]] = rank[i]
      BY <1>4, <3>1
    <3> HIDE DEF rank, f
    <3>3. f[rank[i]] = i
      BY <1>2, <3>2 DEF Injection, IsInjective
    <3>. QED  BY <3>1, <3>3
  <2> HIDE DEF f
  <2>. QED  BY <2>1, <2>2, <2>3 DEF Bijection, Injection, Surjection, IsInjective
<1>6. \A n \in 1..N : Subsequence(s, I)[n] = s[f[n]]
  BY DEF Subsequence
<1>7. Subsequence(s, I) \in [1..N -> T]
  <2>1. \A n \in 1..N : s[f[n]] \in T
    <3>1. \A i \in DOMAIN s : s[i] \in T
      OBVIOUS
    <3> HIDE DEF f, rank
    <3>. QED  BY <1>4, <3>1
  <2> HIDE DEF f
  <2>2. DOMAIN Subsequence(s, I) = 1..N
    BY DEF Subsequence
  <2>3. Subsequence(s, I) = [n \in 1..N |-> Subsequence(s, I)[n]]
    BY <2>2 DEF Subsequence
  <2>. QED  BY <1>6, <2>1, <2>3
<1>8. Subsequence(s, I) \in Seq(T) /\ Len(Subsequence(s, I)) = N
  <2> HIDE DEF N
  <2>. QED  BY <1>1, <1>7
<1>. QED  BY <1>1, <1>5, <1>6, <1>8

(* A set of indices has a first and a last one.                                *)
LEMMA FirstAndLast ==
  ASSUME NEW I, I \subseteq Nat, IsFiniteSet(I), I # {}
  PROVE  /\ \E i \in I : \A j \in I : i <= j
         /\ \E i \in I : \A j \in I : j <= i
<1> DEFINE Below(i) == {j \in I : j < i}
           rank == [i \in I |-> Cardinality(Below(i)) + 1]
<1>1. rank \in Injection(I, 1..Cardinality(I)) /\ rank \in Surjection(I, 1..Cardinality(I))
  BY Ranks
<1>2. Cardinality(I) \in Nat /\ Cardinality(I) # 0
  BY FS_CardinalityType, FS_EmptySet
<1>3. ASSUME NEW i \in I PROVE IsFiniteSet(Below(i)) /\ Cardinality(Below(i)) \in Nat
  BY FS_Subset, FS_CardinalityType
<1>4. PICK i \in I : rank[i] = 1
  BY <1>1, <1>2 DEF Surjection
<1>5. Below(i) = {}
  BY <1>3, <1>4, FS_EmptySet
<1>6. PICK k \in I : rank[k] = Cardinality(I)
  BY <1>1, <1>2 DEF Surjection
<1>7. ASSUME NEW j \in I, k < j PROVE FALSE
  <2>0. j \in Nat /\ k \in Nat /\ \A n \in Below(k) : n \in Nat /\ n \in I /\ n < k
    OBVIOUS
  <2>1. Below(k) \subseteq Below(j) \ {k} /\ k \in Below(j)
    <3>1. k \in Below(j)
      BY <1>7
    <3>2. ASSUME NEW n \in Below(k) PROVE n \in Below(j) /\ n # k
      BY <1>7, <2>0
    <3> HIDE DEF Below
    <3>. QED  BY <3>1, <3>2
  <2>2. IsFiniteSet(Below(j) \ {k}) /\ Cardinality(Below(j) \ {k}) = Cardinality(Below(j)) - 1
    BY <1>3, <2>1, FS_RemoveElement
  <2>3. Cardinality(Below(k)) <= Cardinality(Below(j)) - 1
    BY <2>1, <2>2, FS_Subset
  <2>4. rank[j] \in 1..Cardinality(I)
    BY <1>1 DEF Injection, IsInjective
  <2>5. Cardinality(Below(j)) + 1 <= Cardinality(I) /\ Cardinality(Below(k)) + 1 = Cardinality(I)
    BY <1>6, <2>4
  <2>6. Cardinality(Below(j)) \in Nat /\ Cardinality(Below(k)) \in Nat
    BY <1>3
  <2> HIDE DEF Below, rank
  <2>. QED  BY <1>2, <2>3, <2>5, <2>6
<1>8. \A j \in I : i <= j
  BY <1>5
<1>9. \A j \in I : j <= k
  BY <1>7
<1>. QED  BY <1>8, <1>9

-------------------------------------------------------------------------------
(* Occurrences of the elements of X: in one sequence, and in a family of them. *)
Single(S) == \E x \in S : S = {x}
Occ(s, X) == {n \in DOMAIN s : s[n] \in X}
FoundIn(f, X, K) == {z \in Found(f, X) : z[1] \in K}

(* Found, membership: which places of which queue hold an element of X.       *)
LEMMA FoundMember ==
  ASSUME NEW f, NEW X
  PROVE  /\ \A k, n : <<k, n>> \in Found(f, X) <=> k \in DOMAIN f /\ n \in Occ(f[k], X)
         /\ \A z \in Found(f, X) : z = <<z[1], z[2]>>
BY DEF Found, Occ

(* No queue holds an element of X iff no single queue does.                   *)
LEMMA FoundEmpty ==
  ASSUME NEW f, NEW X
  PROVE  Found(f, X) = {} <=> \A k \in DOMAIN f : Occ(f[k], X) = {}
<1>1. ASSUME NEW z \in Found(f, X) PROVE \E k \in DOMAIN f : Occ(f[k], X) # {}
  BY FoundMember
<1>2. ASSUME NEW k \in DOMAIN f, NEW n \in Occ(f[k], X) PROVE Found(f, X) # {}
  BY FoundMember
<1>. QED  BY <1>1, <1>2

(* Exactly one place in all the queues holds an element of X iff one queue    *)
(* has exactly one and the others have none.                                  *)
LEMMA FoundSingle ==
  ASSUME NEW f, NEW X
  PROVE  Single(Found(f, X)) <=>
           \E k \in DOMAIN f : /\ Single(Occ(f[k], X))
                              /\ \A j \in DOMAIN f \ {k} : Occ(f[j], X) = {}
<1>1. ASSUME NEW z \in Found(f, X), Found(f, X) = {z}
      PROVE  \E k \in DOMAIN f : /\ Single(Occ(f[k], X))
                                /\ \A j \in DOMAIN f \ {k} : Occ(f[j], X) = {}
  <2>1. z = <<z[1], z[2]>> /\ z[1] \in DOMAIN f /\ z[2] \in Occ(f[z[1]], X)
    BY FoundMember
  <2>2. \A k \in DOMAIN f : \A n \in Occ(f[k], X) : <<k, n>> = z
    BY <1>1, FoundMember
  <2>3. \A k \in DOMAIN f : \A n \in Occ(f[k], X) : k = z[1] /\ n = z[2]
    BY <2>1, <2>2
  <2>. QED  BY <2>1, <2>3 DEF Single
<1>2. ASSUME NEW k \in DOMAIN f, Single(Occ(f[k], X)), \A j \in DOMAIN f \ {k} : Occ(f[j], X) = {}
      PROVE  Single(Found(f, X))
  <2>1. PICK n \in Occ(f[k], X) : Occ(f[k], X) = {n}
    BY <1>2 DEF Single
  <2>2. <<k, n>> \in Found(f, X)
    BY <2>1, FoundMember
  <2>3. \A z \in Found(f, X) : z = <<k, n>>
    BY <1>2, <2>1, FoundMember
  <2>. QED  BY <2>2, <2>3 DEF Single
<1>. QED  BY <1>1, <1>2 DEF Single

(* Bijections between sets of places.                                          *)
LEMMA BijectionAlike ==
  ASSUME NEW A, NEW B, ExistsBijection(A, B)
  PROVE  (A = {} <=> B = {}) /\ (Single(A) <=> Single(B))
<1>1. PICK f \in Bijection(A, B) : TRUE
  BY DEF ExistsBijection
<1>2. /\ f \in [A -> B] /\ \A a, b \in A : f[a] = f[b] => a = b
      /\ \A b \in B : \E a \in A : f[a] = b
  BY DEF Bijection, Injection, Surjection, IsInjective
<1>. QED  BY <1>2 DEF Single

(* A set is in bijection with itself.                                         *)
LEMMA BijectionIdentity == ASSUME NEW A PROVE ExistsBijection(A, A)
<1> DEFINE f == [a \in A |-> a]
<1>1. f \in Bijection(A, A)
  BY DEF Bijection, Injection, Surjection, IsInjective
<1>. QED  BY <1>1 DEF ExistsBijection

(* Queues that keep their elements of X up to moving them within the queue,   *)
(* or lose all of them, keep in total what the keeping queues held.           *)
LEMMA FoundBijection ==
  ASSUME NEW f, NEW g, NEW X, NEW K, K \subseteq DOMAIN f, DOMAIN g = DOMAIN f,
         \A k \in K : ExistsBijection(Occ(g[k], X), Occ(f[k], X)),
         \A k \in DOMAIN f \ K : Occ(g[k], X) = {}
  PROVE  ExistsBijection(Found(g, X), FoundIn(f, X, K))
<1> DEFINE B(k) == CHOOSE b : b \in Bijection(Occ(g[k], X), Occ(f[k], X))
           c == [z \in Found(g, X) |-> <<z[1], B(z[1])[z[2]]>>]
           T == FoundIn(f, X, K)
<1>1. ASSUME NEW k \in K
      PROVE  /\ B(k) \in [Occ(g[k], X) -> Occ(f[k], X)]
             /\ \A a, b \in Occ(g[k], X) : B(k)[a] = B(k)[b] => a = b
             /\ \A b \in Occ(f[k], X) : \E a \in Occ(g[k], X) : B(k)[a] = b
  <2>1. B(k) \in Bijection(Occ(g[k], X), Occ(f[k], X))
    BY DEF ExistsBijection
  <2> HIDE DEF B
  <2>. QED  BY <2>1 DEF Bijection, Injection, Surjection, IsInjective
<1> HIDE DEF B
<1>2. ASSUME NEW z \in Found(g, X) PROVE z[1] \in K /\ z[2] \in Occ(g[z[1]], X) /\ z = <<z[1], z[2]>>
  BY FoundMember
<1>3. c \in [Found(g, X) -> T]
  <2>1. ASSUME NEW z \in Found(g, X) PROVE <<z[1], B(z[1])[z[2]]>> \in T
    BY <1>1, <1>2, FoundMember DEF FoundIn
  <2>. QED  BY <2>1
<1>4. \A y, z \in Found(g, X) : c[y] = c[z] => y = z
  BY <1>1, <1>2
<1>5. \A t \in T : \E z \in Found(g, X) : c[z] = t
  <2> TAKE t \in T
  <2>1. t = <<t[1], t[2]>> /\ t[1] \in K /\ t[2] \in Occ(f[t[1]], X)
    BY FoundMember DEF FoundIn
  <2>2. PICK a \in Occ(g[t[1]], X) : B(t[1])[a] = t[2]
    BY <1>1, <2>1
  <2>3. <<t[1], a>> \in Found(g, X)
    BY <2>1, FoundMember
  <2>4. c[<<t[1], a>>] = t
    BY <2>1, <2>2, <2>3
  <2>. QED  BY <2>3, <2>4
<1> HIDE DEF c, T
<1>6. c \in Bijection(Found(g, X), T)
  BY <1>3, <1>4, <1>5 DEF Bijection, Injection, Surjection, IsInjective
<1>. QED  BY <1>6 DEF ExistsBijection, T

(* The elements of a family that belong to one key, and the others.            *)
LEMMA FoundAt ==
  ASSUME NEW f, NEW X, NEW k \in DOMAIN f
  PROVE  /\ ExistsBijection(Occ(f[k], X), FoundIn(f, X, {k}))
         /\ FoundIn(f, X, DOMAIN f \ {k}) = Found(f, X) \ FoundIn(f, X, {k})
         /\ FoundIn(f, X, {k}) \subseteq Found(f, X)
         /\ Occ(f[k], X) = {} => FoundIn(f, X, DOMAIN f \ {k}) = Found(f, X)
<1> DEFINE b == [n \in Occ(f[k], X) |-> <<k, n>>]
<1>1. b \in [Occ(f[k], X) -> FoundIn(f, X, {k})]
  BY FoundMember DEF FoundIn
<1>2. \A m, n \in Occ(f[k], X) : b[m] = b[n] => m = n
  OBVIOUS
<1>3. ASSUME NEW z \in FoundIn(f, X, {k}) PROVE \E n \in Occ(f[k], X) : b[n] = z
  <2>1. z = <<z[1], z[2]>> /\ z[1] = k /\ z[2] \in Occ(f[z[1]], X)
    BY FoundMember DEF FoundIn
  <2>. QED  BY <2>1
<1> HIDE DEF b
<1>4. b \in Bijection(Occ(f[k], X), FoundIn(f, X, {k}))
  BY <1>1, <1>2, <1>3 DEF Bijection, Injection, Surjection, IsInjective
<1>5. ExistsBijection(Occ(f[k], X), FoundIn(f, X, {k}))
  BY <1>4 DEF ExistsBijection
<1>6. FoundIn(f, X, DOMAIN f \ {k}) = Found(f, X) \ FoundIn(f, X, {k})
  <2>1. \A z \in Found(f, X) : z[1] \in DOMAIN f
    BY FoundMember
  <2>. QED  BY <2>1 DEF FoundIn
<1>7. Occ(f[k], X) = {} => FoundIn(f, X, {k}) = {}
  BY <1>5, BijectionAlike
<1>. QED  BY <1>5, <1>6, <1>7 DEF FoundIn

(* Found grows with the set searched for, and splits over a union.            *)
LEMMA FoundUnion ==
  ASSUME NEW f, NEW X, NEW Y
  PROVE  /\ X \subseteq Y => Found(f, X) \subseteq Found(f, Y)
         /\ Found(f, X \cup Y) = Found(f, X) \cup Found(f, Y)
BY DEF Found

(* What the operations on one sequence do to the occurrences.                  *)
LEMMA OccBound ==
  ASSUME NEW T, NEW s \in Seq(T), NEW X
  PROVE  Occ(s, X) \subseteq 1..Len(s) /\ Len(s) \in Nat /\ IsFiniteSet(Occ(s, X))
         /\ Occ(s, X) \subseteq Nat
<1>1. Occ(s, X) \subseteq 1..Len(s) /\ Len(s) \in Nat
  BY DEF Occ
<1>2. IsFiniteSet(1..Len(s)) /\ 1..Len(s) \subseteq Nat
  BY <1>1, FS_Interval
<1>3. IsFiniteSet(Occ(s, X))
  BY <1>1, <1>2, FS_Subset
<1>. QED  BY <1>1, <1>2, <1>3

(* A filtered list holds the elements of X that were at the kept indices.     *)
LEMMA OccSubsequence ==
  ASSUME NEW T, NEW s \in Seq(T), NEW I \in SUBSET DOMAIN s, NEW X
  PROVE  ExistsBijection(Occ(Subsequence(s, I), X), Occ(s, X) \cap I)
<1>1. PICK f \in Bijection(1..Cardinality(I), I) :
        \A n \in 1..Cardinality(I) : Subsequence(s, I)[n] = s[f[n]]
  BY SubsequenceFacts
<1>2. /\ f \in [1..Cardinality(I) -> I] /\ \A a, b \in 1..Cardinality(I) : f[a] = f[b] => a = b
      /\ \A i \in I : \E n \in 1..Cardinality(I) : f[n] = i
  BY DEF Bijection, Injection, Surjection, IsInjective
<1>3. DOMAIN Subsequence(s, I) = 1..Cardinality(I)
  BY DEF Subsequence
<1> DEFINE A == Occ(Subsequence(s, I), X)
           g == [n \in A |-> f[n]]
<1>4. A \subseteq 1..Cardinality(I) /\ \A n \in 1..Cardinality(I) : n \in A <=> s[f[n]] \in X
  BY <1>1, <1>3 DEF Occ
<1> HIDE DEF A
<1>5. g \in [A -> Occ(s, X) \cap I]
  BY <1>2, <1>4 DEF Occ
<1>6. \A a, b \in A : g[a] = g[b] => a = b
  BY <1>2, <1>4
<1>7. \A i \in Occ(s, X) \cap I : \E n \in A : g[n] = i
  BY <1>2, <1>4 DEF Occ
<1> HIDE DEF g
<1>8. g \in Bijection(A, Occ(s, X) \cap I)
  BY <1>5, <1>6, <1>7 DEF Bijection, Injection, Surjection, IsInjective
<1>. QED  BY <1>8 DEF ExistsBijection, A

(* Extending a list by another: the elements of X of the result are those of  *)
(* the two parts.                                                             *)
LEMMA OccConcat ==
  ASSUME NEW T, NEW s \in Seq(T), NEW t \in Seq(T), NEW X
  PROVE  /\ s \o t \in Seq(T) /\ Len(s \o t) = Len(s) + Len(t)
         /\ Occ(s \o t, X) = {} <=> Occ(s, X) = {} /\ Occ(t, X) = {}
         /\ Occ(t, X) = {} => Occ(s \o t, X) = Occ(s, X)
         /\ Occ(s, X) = {} => ExistsBijection(Occ(s \o t, X), Occ(t, X))
<1>1. /\ s \o t \in Seq(T) /\ Len(s \o t) = Len(s) + Len(t)
      /\ Len(s) \in Nat /\ Len(t) \in Nat
      /\ \A n \in 1..Len(s) : (s \o t)[n] = s[n]
      /\ \A n \in 1..Len(t) : (s \o t)[Len(s) + n] = t[n]
      /\ DOMAIN (s \o t) = 1..(Len(s) + Len(t)) /\ DOMAIN s = 1..Len(s) /\ DOMAIN t = 1..Len(t)
  OBVIOUS
<1>2. PICK u : u = s \o t
  OBVIOUS
<1>3. /\ \A n \in Occ(s, X) : n \in Occ(u, X)
      /\ \A n \in Occ(t, X) : Len(s) + n \in Occ(u, X)
      /\ \A n \in Occ(u, X) : n \in Occ(s, X) \/ (n - Len(s) \in Occ(t, X) /\ n > Len(s))
  <2>1. \A n \in 1..(Len(s) + Len(t)) : n \in 1..Len(s) \/ (n - Len(s) \in 1..Len(t) /\ n = Len(s) + (n - Len(s)))
    BY <1>1
  <2>2. \A n \in 1..Len(s) : n \in 1..(Len(s) + Len(t))
    BY <1>1
  <2>3. \A n \in 1..Len(t) : Len(s) + n \in 1..(Len(s) + Len(t))
    BY <1>1
  <2>. QED  BY <1>1, <1>2, <2>1, <2>2, <2>3 DEF Occ
<1>4. /\ Occ(s, X) \subseteq 1..Len(s) /\ Occ(t, X) \subseteq 1..Len(t)
      /\ Occ(u, X) \subseteq 1..(Len(s) + Len(t))
  BY <1>1, <1>2 DEF Occ
<1>5. Occ(t, X) = {} => Occ(u, X) = Occ(s, X)
  BY <1>3
<1>6. ASSUME Occ(s, X) = {} PROVE ExistsBijection(Occ(u, X), Occ(t, X))
  <2> DEFINE g == [n \in Occ(u, X) |-> n - Len(s)]
  <2>1. g \in [Occ(u, X) -> Occ(t, X)]
    BY <1>3, <1>6
  <2>2. \A a, b \in Occ(u, X) : g[a] = g[b] => a = b
    BY <1>1, <1>4
  <2>3. \A n \in Occ(t, X) : \E m \in Occ(u, X) : g[m] = n
    <3> TAKE n \in Occ(t, X)
    <3>1. Len(s) + n \in Occ(u, X) /\ (Len(s) + n) - Len(s) = n
      BY <1>1, <1>3, <1>4
    <3>. QED  BY <3>1
  <2> HIDE DEF g
  <2>4. g \in Bijection(Occ(u, X), Occ(t, X))
    BY <2>1, <2>2, <2>3 DEF Bijection, Injection, Surjection, IsInjective
  <2>. QED  BY <2>4 DEF ExistsBijection
<1>. QED  BY <1>1, <1>2, <1>3, <1>5, <1>6

(* list.append: one more element, and one more of X iff the new one is in X.  *)
LEMMA OccAppend ==
  ASSUME NEW T, NEW s \in Seq(T), NEW e \in T, NEW X
  PROVE  /\ Append(s, e) \in Seq(T) /\ Len(Append(s, e)) = Len(s) + 1
         /\ e \notin X => Occ(Append(s, e), X) = Occ(s, X)
         /\ e \in X => Occ(Append(s, e), X) = Occ(s, X) \cup {Len(s) + 1}
<1>1. /\ Append(s, e) \in Seq(T) /\ Len(Append(s, e)) = Len(s) + 1 /\ Len(s) \in Nat
      /\ \A n \in 1..Len(s) : Append(s, e)[n] = s[n]
      /\ Append(s, e)[Len(s) + 1] = e
      /\ DOMAIN s = 1..Len(s) /\ DOMAIN Append(s, e) = 1..(Len(s) + 1)
  OBVIOUS
<1>2. \A n \in 1..(Len(s) + 1) : n \in 1..Len(s) \/ n = Len(s) + 1
  BY <1>1
<1>3. /\ \A n \in 1..Len(s) : n \in 1..(Len(s) + 1) /\ n # Len(s) + 1
      /\ Len(s) + 1 \in 1..(Len(s) + 1)
  BY <1>1
<1>. QED  BY <1>1, <1>2, <1>3 DEF Occ

(* Removing the element at a position (heappop, list.remove) shifts those     *)
(* behind it.                                                                 *)
LEMMA RemoveAtFacts ==
  ASSUME NEW T, NEW s \in Seq(T), NEW h \in DOMAIN s
  PROVE  /\ RemoveAt(s, h) \in Seq(T) /\ Len(RemoveAt(s, h)) = Len(s) - 1
         /\ \A n \in 1..(Len(s) - 1) : RemoveAt(s, h)[n] = IF n < h THEN s[n] ELSE s[n + 1]
<1>1. h \in 1..Len(s) /\ Len(s) \in Nat /\ h - 1 \in Nat /\ h + 1 \in Nat
  OBVIOUS
<1>2. PICK a : a = SubSeq(s, 1, h - 1)
  OBVIOUS
<1>3. PICK b : b = SubSeq(s, h + 1, Len(s))
  OBVIOUS
<1>4. a \in Seq(T) /\ Len(a) = h - 1 /\ \A n \in 1..(h - 1) : a[n] = s[n]
  BY <1>1, <1>2
<1>5. b \in Seq(T) /\ Len(b) = Len(s) - h /\ \A n \in 1..(Len(s) - h) : b[n] = s[h + n]
  BY <1>1, <1>3
<1>6. RemoveAt(s, h) = a \o b
  BY <1>2, <1>3 DEF RemoveAt
<1>7. /\ a \o b \in Seq(T) /\ Len(a \o b) = Len(a) + Len(b)
      /\ \A n \in 1..Len(a) : (a \o b)[n] = a[n]
      /\ \A n \in 1..Len(b) : (a \o b)[Len(a) + n] = b[n]
  <2>1. a \in Seq(T) /\ b \in Seq(T)
    BY <1>4, <1>5
  <2>. QED  BY <2>1
<1>8. ASSUME NEW n \in 1..(Len(s) - 1) PROVE (a \o b)[n] = IF n < h THEN s[n] ELSE s[n + 1]
  <2>1. CASE n < h
    BY <1>1, <1>4, <1>7, <2>1
  <2>2. CASE ~(n < h)
    <3> DEFINE k == n - (h - 1)
    <3>0. n \in Int /\ h \in Int /\ Len(s) \in Int /\ n <= Len(s) - 1 /\ h <= n
      BY <1>1, <2>2
    <3>1. k \in 1..(Len(s) - h) /\ h + k = n + 1 /\ (h - 1) + k = n
      BY <3>0
    <3> HIDE DEF k
    <3>2. k \in 1..Len(b) /\ (a \o b)[n] = b[k] /\ b[k] = s[n + 1]
      BY <1>4, <1>5, <1>7, <3>1
    <3>. QED  BY <2>2, <3>1, <3>2
  <2>. QED  BY <2>1, <2>2
<1>9. RemoveAt(s, h) \in Seq(T) /\ Len(RemoveAt(s, h)) = Len(s) - 1
  BY <1>1, <1>4, <1>5, <1>6, <1>7
<1>. QED  BY <1>6, <1>8, <1>9

(* Removing a position removes at most that one from the elements of X.       *)
LEMMA OccRemoveAt ==
  ASSUME NEW T, NEW s \in Seq(T), NEW h \in DOMAIN s, NEW X
  PROVE  ExistsBijection(Occ(RemoveAt(s, h), X), Occ(s, X) \ {h})
<1>1. /\ h \in 1..Len(s) /\ Len(s) \in Nat /\ DOMAIN s = 1..Len(s)
  OBVIOUS
<1>2. PICK t : t = RemoveAt(s, h)
  OBVIOUS
<1>3. /\ t \in Seq(T) /\ Len(t) = Len(s) - 1
      /\ \A n \in 1..(Len(s) - 1) : t[n] = IF n < h THEN s[n] ELSE s[n + 1]
  BY <1>2, RemoveAtFacts
<1>4. DOMAIN t = 1..(Len(s) - 1)
  BY <1>3
<1> DEFINE f(n) == IF n < h THEN n ELSE n + 1
           g == [n \in Occ(t, X) |-> f(n)]
<1>5. \A n \in 1..(Len(s) - 1) : f(n) \in (1..Len(s)) \ {h} /\ t[n] = s[f(n)]
  BY <1>1, <1>3
<1>6. \A a, b \in 1..(Len(s) - 1) : f(a) = f(b) => a = b
  BY <1>1
<1>7. \A m \in (1..Len(s)) \ {h} : \E n \in 1..(Len(s) - 1) : f(n) = m
  <2> TAKE m \in (1..Len(s)) \ {h}
  <2>1. CASE m < h
    BY <1>1, <2>1
  <2>2. CASE ~(m < h)
    <3>1. m - 1 \in 1..(Len(s) - 1) /\ f(m - 1) = m
      BY <1>1, <2>2
    <3>. QED  BY <3>1
  <2>. QED  BY <2>1, <2>2
<1> HIDE DEF f
<1>8. g \in [Occ(t, X) -> Occ(s, X) \ {h}]
  BY <1>1, <1>4, <1>5 DEF Occ
<1>9. \A a, b \in Occ(t, X) : g[a] = g[b] => a = b
  BY <1>4, <1>6 DEF Occ
<1>10. \A m \in Occ(s, X) \ {h} : \E n \in Occ(t, X) : g[n] = m
  <2> TAKE m \in Occ(s, X) \ {h}
  <2>1. m \in (1..Len(s)) \ {h} /\ s[m] \in X
    BY <1>1 DEF Occ
  <2>2. PICK n \in 1..(Len(s) - 1) : f(n) = m
    BY <1>7, <2>1
  <2>3. n \in Occ(t, X)
    BY <1>4, <1>5, <2>1, <2>2 DEF Occ
  <2>. QED  BY <2>2, <2>3
<1> HIDE DEF g
<1>11. g \in Bijection(Occ(t, X), Occ(s, X) \ {h})
  BY <1>8, <1>9, <1>10 DEF Bijection, Injection, Surjection, IsInjective
<1>. QED  BY <1>2, <1>11 DEF ExistsBijection

(* The same for one sequence of a family.                                      *)
LEMMA FamilyAppend ==
  ASSUME NEW K, NEW T, NEW f \in [K -> Seq(T)], NEW k \in K, NEW e \in T, NEW X
  PROVE  LET g == [f EXCEPT ![k] = Append(@, e)] IN
         /\ g \in [K -> Seq(T)]
         /\ e \notin X => Found(g, X) = Found(f, X)
         /\ e \in X /\ Found(f, X) = {} => Single(Found(g, X))
<1> DEFINE g == [f EXCEPT ![k] = Append(@, e)]
<1>1. /\ DOMAIN g = K /\ DOMAIN f = K /\ f[k] \in Seq(T) /\ g[k] = Append(f[k], e)
      /\ \A j \in K \ {k} : g[j] = f[j]
  OBVIOUS
<1>2. /\ Append(f[k], e) \in Seq(T)
      /\ e \notin X => Occ(Append(f[k], e), X) = Occ(f[k], X)
      /\ e \in X => Occ(Append(f[k], e), X) = Occ(f[k], X) \cup {Len(f[k]) + 1}
  BY <1>1, OccAppend
<1>3. g \in [K -> Seq(T)]
  BY <1>2
<1> HIDE DEF g
<1>4. ASSUME e \notin X PROVE Found(g, X) = Found(f, X)
  <2>1. \A j \in K : Occ(g[j], X) = Occ(f[j], X)
    BY <1>1, <1>2, <1>4
  <2>2. \A z \in Found(g, X) : z \in Found(f, X)
    BY <1>1, <2>1, FoundMember
  <2>3. \A z \in Found(f, X) : z \in Found(g, X)
    BY <1>1, <2>1, FoundMember
  <2>. QED  BY <2>2, <2>3
<1>5. ASSUME e \in X, Found(f, X) = {} PROVE Single(Found(g, X))
  <2>1. \A j \in K : Occ(f[j], X) = {}
    BY <1>1, <1>5, FoundEmpty
  <2>2. Occ(g[k], X) = {Len(f[k]) + 1} /\ \A j \in K \ {k} : Occ(g[j], X) = {}
    BY <1>1, <1>2, <1>5, <2>1
  <2>3. Single(Occ(g[k], X))
    BY <2>2 DEF Single
  <2>. QED  BY <1>1, <2>2, <2>3, FoundSingle
<1>. QED  BY <1>3, <1>4, <1>5 DEF g

(* One removal from one queue of a family (a pop from the ready heap, a       *)
(* waiter granted a permit): if what was removed is in X and X was in one     *)
(* place, X is nowhere.                                                       *)
LEMMA FamilyRemove ==
  ASSUME NEW K, NEW T, NEW f \in [K -> Seq(T)], NEW k \in K, NEW h \in DOMAIN f[k], NEW X
  PROVE  LET g == [f EXCEPT ![k] = RemoveAt(@, h)] IN
         /\ g \in [K -> Seq(T)]
         /\ f[k][h] \notin X => ExistsBijection(Found(g, X), Found(f, X))
         /\ f[k][h] \in X /\ Single(Found(f, X)) => Found(g, X) = {}
<1> DEFINE g == [f EXCEPT ![k] = RemoveAt(@, h)]
<1>1. /\ DOMAIN g = K /\ DOMAIN f = K /\ f[k] \in Seq(T) /\ g[k] = RemoveAt(f[k], h)
      /\ \A j \in K \ {k} : g[j] = f[j]
  OBVIOUS
<1>2. RemoveAt(f[k], h) \in Seq(T) /\ ExistsBijection(Occ(g[k], X), Occ(f[k], X) \ {h})
  BY <1>1, RemoveAtFacts, OccRemoveAt
<1>3. g \in [K -> Seq(T)]
  BY <1>2
<1> HIDE DEF g
<1>4. ASSUME f[k][h] \notin X PROVE ExistsBijection(Found(g, X), Found(f, X))
  <2>1. Occ(f[k], X) \ {h} = Occ(f[k], X)
    BY <1>4 DEF Occ
  <2>2. \A j \in K : ExistsBijection(Occ(g[j], X), Occ(f[j], X))
    BY <1>1, <1>2, <2>1, BijectionIdentity
  <2>3. ExistsBijection(Found(g, X), FoundIn(f, X, K))
    BY <1>1, <2>2, FoundBijection
  <2>4. FoundIn(f, X, K) = Found(f, X)
    BY <1>1, FoundMember DEF FoundIn
  <2>. QED  BY <2>3, <2>4
<1>5. ASSUME f[k][h] \in X, Single(Found(f, X)) PROVE Found(g, X) = {}
  <2>1. PICK j \in K : Single(Occ(f[j], X)) /\ \A i \in K \ {j} : Occ(f[i], X) = {}
    BY <1>1, <1>5, FoundSingle
  <2>2. h \in Occ(f[k], X)
    BY <1>5 DEF Occ
  <2>3. j = k /\ Occ(f[k], X) \ {h} = {}
    BY <2>1, <2>2 DEF Single
  <2>4. Occ(g[k], X) = {}
    BY <1>2, <2>3, BijectionAlike
  <2>5. \A i \in K : Occ(g[i], X) = {}
    BY <1>1, <2>1, <2>3, <2>4
  <2>. QED  BY <1>1, <2>5, FoundEmpty
<1>. QED  BY <1>3, <1>4, <1>5 DEF g

(* Filtering every queue of a family (pruning all semaphore queues, dropping  *)
(* registrations): X stays as it was where the filter keeps it and is gone    *)
(* where it does not.                                                         *)
LEMMA FamilyKept ==
  ASSUME NEW f, NEW g, NEW J, NEW X, NEW L, L \subseteq DOMAIN f, DOMAIN g = DOMAIN f,
         \A k \in L : ExistsBijection(Occ(g[k], X), Occ(f[k], X) \cap J[k]),
         \A k \in DOMAIN f \ L : Occ(g[k], X) = {}
  PROVE  /\ (\A k \in L : Occ(f[k], X) \subseteq J[k])
              => ExistsBijection(Found(g, X), FoundIn(f, X, L))
         /\ (\A k \in L : Occ(f[k], X) \cap J[k] = {}) => Found(g, X) = {}
<1>1. ASSUME \A k \in L : Occ(f[k], X) \subseteq J[k]
      PROVE  ExistsBijection(Found(g, X), FoundIn(f, X, L))
  <2>1. ASSUME NEW k \in L PROVE ExistsBijection(Occ(g[k], X), Occ(f[k], X))
    <3>1. Occ(f[k], X) \cap J[k] = Occ(f[k], X)
      BY <1>1
    <3>. QED  BY <3>1
  <2>. QED  BY <2>1, FoundBijection
<1>2. ASSUME \A k \in L : Occ(f[k], X) \cap J[k] = {} PROVE Found(g, X) = {}
  <2>1. ASSUME NEW k \in L PROVE Occ(g[k], X) = {}
    <3>1. Occ(f[k], X) \cap J[k] = {}
      BY <1>2
    <3>. QED  BY <3>1, BijectionAlike
  <2>. QED  BY <2>1, FoundEmpty
<1>. QED  BY <1>1, <1>2

-------------------------------------------------------------------------------
(* Where an owner is: running, or in the one of these four collections that    *)
(* holds its continuation.                                                     *)
JoinsOf(o) == {r \in Registration : r.owner = o /\ r.type \in {"gather", "race"}}
GathersOf(o) == {r \in Registration : r.owner = o /\ r.type = "gather"}
RacesOf(o) == {r \in Registration : r.owner = o /\ r.type = "race"}

PlaceName == {"run", "heap", "wait", "join", "sem"}
Site(place, run, queued, waits, joins, sem) ==
  /\ run <=> place = "run"
  /\ IF place = "heap" THEN Single(queued) ELSE queued = {}
  /\ IF place = "wait" THEN Single(waits) ELSE waits = {}
  /\ joins # {} <=> place = "join"
  /\ IF place = "sem" THEN Single(sem) ELSE sem = {}

(* The open registrations of a Gather are as many as it counts down from, and  *)
(* are not mixed with those of a Race.                                         *)
Counted(gathers, races, remaining) ==
  gathers # {} => /\ IsFiniteSet(gathers) /\ Cardinality(gathers) = remaining
                  /\ races = {}

(* The registrations of o on k that are queued when k reaches st.              *)
FiredFor(k, st, o) == {i \in Fired(k, st) : waiters[k][i].owner = o}

(* complete_task and fail_task: the registrations that fire are               *)
(* registrations of the waitable, and each of them is woken in exactly one    *)
(* priority bucket.                                                           *)
LEMMA FiredFacts ==
  ASSUME TypeOK, NEW k \in Waitable, NEW st \in Terminal
  PROVE  /\ Fired(k, st) \subseteq DOMAIN waiters[k]
         /\ \A p \in Priority : WokenAt(k, st, p) \in SUBSET DOMAIN waiters[k]
         /\ \A i \in Fired(k, st) : \E p \in Priority :
              /\ i \in WokenAt(k, st, p)
              /\ \A q \in Priority \ {p} : i \notin WokenAt(k, st, q)
         /\ \A p \in Priority : WokenAt(k, st, p) \subseteq Fired(k, st)
         /\ \A i \in DOMAIN waiters[k] : waiters[k][i] \in Registration
<1>1. waiters[k] \in Seq(Registration)
  BY DEF TypeOK
<1>2. \A i \in DOMAIN waiters[k] : waiters[k][i] \in Registration
  BY <1>1
<1>3. Fired(k, st) \subseteq DOMAIN waiters[k]
  BY DEF Fired
<1>4. \A p \in Priority : WokenAt(k, st, p) \subseteq Fired(k, st)
  BY DEF WokenAt
<1>5. \A o \in Owner : TaskPriority(o) \in Priority
  BY DEF TaskPriority, TypeOK, Priority
<1>6. ASSUME NEW i \in Fired(k, st)
      PROVE  \E p \in Priority : /\ i \in WokenAt(k, st, p)
                                 /\ \A q \in Priority \ {p} : i \notin WokenAt(k, st, q)
  <2> DEFINE r == waiters[k][i]
             p == IF r.wake = OwnPriority THEN TaskPriority(r.owner) ELSE r.wake
  <2>1. r.owner \in Owner /\ r.wake \in Priority \cup {OwnPriority}
    BY <1>2, <1>3 DEF Registration
  <2>2. p \in Priority
    BY <1>5, <2>1
  <2>3. i \in WokenAt(k, st, p)
    BY DEF WokenAt
  <2>4. \A q \in Priority \ {p} : i \notin WokenAt(k, st, q)
    BY DEF WokenAt
  <2>. QED  BY <2>2, <2>3, <2>4
<1>. QED  BY <1>2, <1>3, <1>4, <1>6

(* What waking k does to the heap: every entry stays in its place, possibly    *)
(* claimed, and every owner that fires gets one entry more.                    *)
LEMMA ReadyWoken ==
  ASSUME TypeOK, NEW k \in Waitable, NEW st \in Terminal
  PROVE  /\ ReadyAfter(k, st) \in [Priority -> Seq(Entry)]
         /\ \A p \in Priority :
              /\ Len(ready[p]) <= Len(ReadyAfter(k, st)[p])
              /\ \A n \in 1..Len(ready[p]) :
                   ReadyAfter(k, st)[p][n] =
                     IF Claims(ready[p][n], k, st) THEN [ready[p][n] EXCEPT !.claimed = TRUE]
                     ELSE ready[p][n]
              /\ \A n \in (Len(ready[p]) + 1)..Len(ReadyAfter(k, st)[p]) :
                   \E i \in Fired(k, st) :
                     ReadyAfter(k, st)[p][n] =
                       MkEntry(IF st = "completed" THEN "resume" ELSE "raise",
                               waiters[k][i].owner)
         /\ \A o \in Owner :
              /\ FiredFor(k, st, o) = {}
                   => Found(ReadyAfter(k, st), QueuedFor(o)) = Found(ready, QueuedFor(o))
              /\ Single(FiredFor(k, st, o)) /\ Found(ready, QueuedFor(o)) = {}
                   => Single(Found(ReadyAfter(k, st), QueuedFor(o)))
<1> DEFINE kind == IF st = "completed" THEN "resume" ELSE "raise"
           Woken == [i \in DOMAIN waiters[k] |-> MkEntry(kind, waiters[k][i].owner)]
           Claimed(e) == IF Claims(e, k, st) THEN [e EXCEPT !.claimed = TRUE] ELSE e
           A(p) == [n \in DOMAIN ready[p] |-> Claimed(ready[p][n])]
           B(p) == Subsequence(Woken, WokenAt(k, st, p))
           R == [p \in Priority |-> A(p) \o B(p)]
<1>1. R = ReadyAfter(k, st)
  BY DEF ReadyAfter
<1>2. waiters[k] \in Seq(Registration) /\ \A p \in Priority : ready[p] \in Seq(Entry)
  BY DEF TypeOK
<1>3. \A i \in DOMAIN waiters[k] : /\ MkEntry(kind, waiters[k][i].owner) \in Entry
                                   /\ waiters[k][i].owner \in Owner
  <2> TAKE i \in DOMAIN waiters[k]
  <2>1. waiters[k][i] \in Registration /\ kind \in {"resume", "raise"}
    BY <1>2
  <2> HIDE DEF kind
  <2>. QED  BY <2>1 DEF MkEntry, Entry, Registration
<1>4. Woken \in Seq(Entry) /\ DOMAIN Woken = DOMAIN waiters[k]
  <2>1. Len(waiters[k]) \in Nat /\ DOMAIN waiters[k] = 1..Len(waiters[k])
    BY <1>2
  <2> HIDE DEF kind
  <2>. QED  BY <1>3, <2>1
<1>5. ASSUME NEW e \in Entry
      PROVE  /\ Claimed(e) \in Entry
             /\ \A o : Claimed(e) \in QueuedFor(o) <=> e \in QueuedFor(o)
  BY DEF Entry, QueuedFor, Claims
<1>6. \A p \in Priority :
        /\ A(p) \in Seq(Entry) /\ Len(A(p)) = Len(ready[p]) /\ DOMAIN A(p) = DOMAIN ready[p]
        /\ \A o : Occ(A(p), QueuedFor(o)) = Occ(ready[p], QueuedFor(o))
  <2> TAKE p \in Priority
  <2>1. ready[p] \in Seq(Entry) /\ Len(ready[p]) \in Nat /\ DOMAIN ready[p] = 1..Len(ready[p])
        /\ \A n \in DOMAIN ready[p] : ready[p][n] \in Entry
    BY <1>2
  <2> HIDE DEF Claimed
  <2>2. A(p) \in Seq(Entry) /\ DOMAIN A(p) = DOMAIN ready[p]
        /\ \A n \in DOMAIN ready[p] : A(p)[n] = Claimed(ready[p][n])
    BY <1>5, <2>1
  <2>3. Len(A(p)) = Len(ready[p])
    BY <2>1, <2>2
  <2>4. \A o : Occ(A(p), QueuedFor(o)) = Occ(ready[p], QueuedFor(o))
    BY <1>5, <2>1, <2>2 DEF Occ
  <2>. QED  BY <2>2, <2>3, <2>4
<1>7. \A p \in Priority :
        /\ WokenAt(k, st, p) \in SUBSET DOMAIN Woken
        /\ B(p) \in Seq(Entry)
        /\ \A n \in 1..Len(B(p)) : \E i \in Fired(k, st) : B(p)[n] = Woken[i]
  <2> TAKE p \in Priority
  <2> HIDE DEF Woken
  <2>1. WokenAt(k, st, p) \in SUBSET DOMAIN Woken
    BY <1>4, FiredFacts
  <2>2. /\ B(p) \in Seq(Entry)
        /\ Len(B(p)) = Cardinality(WokenAt(k, st, p))
        /\ \E f \in Bijection(1..Cardinality(WokenAt(k, st, p)), WokenAt(k, st, p)) :
              \A n \in 1..Cardinality(WokenAt(k, st, p)) : B(p)[n] = Woken[f[n]]
    BY <1>4, <2>1, SubsequenceFacts
  <2>3. PICK f \in Bijection(1..Cardinality(WokenAt(k, st, p)), WokenAt(k, st, p)) :
           \A n \in 1..Cardinality(WokenAt(k, st, p)) : B(p)[n] = Woken[f[n]]
    BY <2>2
  <2>4. \A n \in 1..Cardinality(WokenAt(k, st, p)) : f[n] \in Fired(k, st)
    BY FiredFacts DEF Bijection, Injection, IsInjective
  <2>. QED  BY <2>1, <2>2, <2>3, <2>4
<1>8. \A i \in DOMAIN Woken : \A o : Woken[i] \in QueuedFor(o) <=> waiters[k][i].owner = o
  BY <1>3, <1>4 DEF MkEntry, QueuedFor
<1>9. \A p \in Priority : R[p] = A(p) \o B(p)
  OBVIOUS
<1>10. DOMAIN R = Priority
  OBVIOUS
<1> HIDE DEF A, B
<1>11. R \in [Priority -> Seq(Entry)]
  BY <1>6, <1>7
<1> HIDE DEF R
<1>12. \A p \in Priority : R[p] = A(p) \o B(p) /\ Len(ready[p]) <= Len(R[p])
                           /\ Len(R[p]) = Len(A(p)) + Len(B(p)) /\ Len(B(p)) \in Nat
                           /\ Len(ready[p]) \in Nat
  <2> TAKE p \in Priority
  <2>1. A(p) \in Seq(Entry) /\ B(p) \in Seq(Entry) /\ Len(A(p)) = Len(ready[p])
        /\ R[p] = A(p) \o B(p)
    BY <1>6, <1>7, <1>9
  <2>2. Len(A(p) \o B(p)) = Len(A(p)) + Len(B(p))
    BY <2>1, OccConcat
  <2>3. Len(A(p)) \in Nat /\ Len(B(p)) \in Nat
    BY <2>1
  <2>. QED  BY <2>1, <2>2, <2>3
<1>13. ASSUME NEW p \in Priority, NEW n \in 1..Len(ready[p])
       PROVE  R[p][n] = Claimed(ready[p][n])
  <2>1. n \in 1..Len(A(p)) /\ n \in DOMAIN ready[p]
    BY <1>2, <1>6
  <2>2. (A(p) \o B(p))[n] = A(p)[n]
    BY <1>6, <1>7, <2>1
  <2>. QED  BY <1>12, <2>1, <2>2 DEF A
<1>14. ASSUME NEW p \in Priority, NEW n \in (Len(ready[p]) + 1)..Len(R[p])
       PROVE  \E i \in Fired(k, st) : R[p][n] = MkEntry(kind, waiters[k][i].owner)
  <2>1. n - Len(A(p)) \in 1..Len(B(p)) /\ n \in 1..(Len(A(p)) + Len(B(p))) /\ ~(n <= Len(A(p)))
    BY <1>6, <1>12
  <2>2. (A(p) \o B(p))[n] = B(p)[n - Len(A(p))]
    <3>1. A(p) \in Seq(Entry) /\ B(p) \in Seq(Entry)
      BY <1>6, <1>7
    <3>. QED  BY <2>1, <3>1
  <2>3. \E i \in Fired(k, st) : B(p)[n - Len(A(p))] = Woken[i]
    BY <1>7, <2>1
  <2>. QED  BY <1>12, <2>2, <2>3, FiredFacts
<1>15. ASSUME NEW p \in Priority, NEW o
       PROVE  /\ Occ(B(p), QueuedFor(o)) = {}
                   <=> {i \in WokenAt(k, st, p) : waiters[k][i].owner = o} = {}
              /\ Single(Occ(B(p), QueuedFor(o)))
                   <=> Single({i \in WokenAt(k, st, p) : waiters[k][i].owner = o})
  <2>1. ExistsBijection(Occ(B(p), QueuedFor(o)), Occ(Woken, QueuedFor(o)) \cap WokenAt(k, st, p))
    BY <1>4, <1>7, OccSubsequence DEF B
  <2>2. Occ(Woken, QueuedFor(o)) \cap WokenAt(k, st, p) =
           {i \in WokenAt(k, st, p) : waiters[k][i].owner = o}
    BY <1>7, <1>8 DEF Occ
  <2>. QED  BY <2>1, <2>2, BijectionAlike
<1>16. ASSUME NEW p \in Priority, NEW o
       PROVE  /\ Occ(B(p), QueuedFor(o)) = {}
                   => Occ(R[p], QueuedFor(o)) = Occ(ready[p], QueuedFor(o))
              /\ Occ(ready[p], QueuedFor(o)) = {} /\ Single(Occ(B(p), QueuedFor(o)))
                   => Single(Occ(R[p], QueuedFor(o)))
  <2>1. A(p) \in Seq(Entry) /\ B(p) \in Seq(Entry) /\ R[p] = A(p) \o B(p)
        /\ Occ(A(p), QueuedFor(o)) = Occ(ready[p], QueuedFor(o))
    BY <1>6, <1>7, <1>9
  <2>2. /\ Occ(B(p), QueuedFor(o)) = {}
             => Occ(A(p) \o B(p), QueuedFor(o)) = Occ(A(p), QueuedFor(o))
        /\ Occ(A(p), QueuedFor(o)) = {}
             => ExistsBijection(Occ(A(p) \o B(p), QueuedFor(o)), Occ(B(p), QueuedFor(o)))
    BY <2>1, OccConcat
  <2>. QED  BY <2>1, <2>2, BijectionAlike
<1>17. ASSUME NEW o \in Owner, FiredFor(k, st, o) = {}
       PROVE  Found(R, QueuedFor(o)) = Found(ready, QueuedFor(o))
  <2>1. \A p \in Priority : {i \in WokenAt(k, st, p) : waiters[k][i].owner = o} = {}
    BY <1>17, FiredFacts DEF FiredFor
  <2>2. \A p \in Priority : Occ(R[p], QueuedFor(o)) = Occ(ready[p], QueuedFor(o))
    BY <1>15, <1>16, <2>1
  <2>3. DOMAIN ready = Priority
    BY DEF TypeOK
  <2>4. \A z \in Found(R, QueuedFor(o)) : z \in Found(ready, QueuedFor(o))
    BY <1>10, <2>2, <2>3, FoundMember
  <2>5. \A z \in Found(ready, QueuedFor(o)) : z \in Found(R, QueuedFor(o))
    BY <1>10, <2>2, <2>3, FoundMember
  <2>. QED  BY <2>4, <2>5
<1>18. ASSUME NEW o \in Owner, Single(FiredFor(k, st, o)), Found(ready, QueuedFor(o)) = {}
       PROVE  Single(Found(R, QueuedFor(o)))
  <2>1. PICK i \in Fired(k, st) : FiredFor(k, st, o) = {i} /\ waiters[k][i].owner = o
    BY <1>18 DEF FiredFor, Single
  <2>2. PICK p \in Priority : /\ i \in WokenAt(k, st, p)
                              /\ \A q \in Priority \ {p} : i \notin WokenAt(k, st, q)
    BY FiredFacts
  <2>3. \A q \in Priority : {j \in WokenAt(k, st, q) : waiters[k][j].owner = o} \subseteq {i}
    BY <2>1, FiredFacts DEF FiredFor
  <2>4. {j \in WokenAt(k, st, p) : waiters[k][j].owner = o} = {i}
    BY <2>1, <2>2, <2>3
  <2>5. \A q \in Priority \ {p} : {j \in WokenAt(k, st, q) : waiters[k][j].owner = o} = {}
    BY <2>1, <2>2, <2>3
  <2>6. \A q \in Priority : Occ(ready[q], QueuedFor(o)) = {}
    <3>1. DOMAIN ready = Priority
      BY DEF TypeOK
    <3>. QED  BY <1>18, <3>1, FoundEmpty
  <2>7. Single(Occ(R[p], QueuedFor(o)))
    <3>1. Single({i})
      BY DEF Single
    <3>. QED  BY <1>15, <1>16, <2>4, <2>6, <3>1
  <2>8. \A q \in Priority \ {p} : Occ(R[q], QueuedFor(o)) = {}
    BY <1>15, <1>16, <2>5, <2>6
  <2>. QED  BY <1>10, <2>7, <2>8, FoundSingle
<1>. QED  BY <1>1, <1>11, <1>12, <1>13, <1>14, <1>17, <1>18

(* What waking k does to the registrations: those on k go, and with them, on   *)
(* the other waitables, those of the joins that are decided.                   *)
LEMMA WaitersWoken ==
  ASSUME TypeOK, NEW k \in Waitable, NEW st \in Terminal
  PROVE  /\ WaitersAfter(k, st) \in [Waitable -> Seq(Registration)]
         /\ \A w \in Waitable : \A n \in DOMAIN WaitersAfter(k, st)[w] :
              /\ w # k
              /\ \E m \in DOMAIN waiters[w] :
                   /\ WaitersAfter(k, st)[w][n] = waiters[w][m]
                   /\ ~(/\ waiters[w][m].type \in {"gather", "race"}
                        /\ waiters[w][m].owner \in Decided(k, st))
         /\ \A w \in Waitable \ {k} : \A m \in DOMAIN waiters[w] :
              \/ \E n \in DOMAIN WaitersAfter(k, st)[w] :
                    WaitersAfter(k, st)[w][n] = waiters[w][m]
              \/ /\ waiters[w][m].type \in {"gather", "race"}
                 /\ waiters[w][m].owner \in Decided(k, st)
         /\ \A o \in Owner : \A X \in SUBSET Registration :
              /\ X \subseteq WaitsOf(o) \/ (X \subseteq JoinsOf(o) /\ o \notin Decided(k, st))
                   => ExistsBijection(Found(WaitersAfter(k, st), X),
                                      FoundIn(waiters, X, Waitable \ {k}))
              /\ X \subseteq JoinsOf(o) /\ o \in Decided(k, st)
                   => Found(WaitersAfter(k, st), X) = {}
<1> DEFINE Stays(r) == ~(r.type \in {"gather", "race"} /\ r.owner \in Decided(k, st))
           J == [w \in Waitable |-> {i \in DOMAIN waiters[w] : Stays(waiters[w][i])}]
           W == WaitersAfter(k, st)
<1>1. /\ W[k] = <<>> /\ DOMAIN W = Waitable
      /\ \A w \in Waitable \ {k} :
           W[w] = IF \A i \in DOMAIN waiters[w] : Stays(waiters[w][i]) THEN waiters[w]
                  ELSE Subsequence(waiters[w], J[w])
  BY DEF WaitersAfter
<1>2. \A w \in Waitable : waiters[w] \in Seq(Registration) /\ J[w] \in SUBSET DOMAIN waiters[w]
  BY DEF TypeOK
<1>3. \A w \in Waitable : \A i \in DOMAIN waiters[w] : i \in J[w] <=> Stays(waiters[w][i])
  OBVIOUS
<1> HIDE DEF J, W, Stays
<1>4. ASSUME NEW w \in Waitable \ {k}
      PROVE  /\ W[w] \in Seq(Registration)
             /\ \A X : ExistsBijection(Occ(W[w], X), Occ(waiters[w], X) \cap J[w])
             /\ \A n \in DOMAIN W[w] : \E m \in J[w] : W[w][n] = waiters[w][m]
             /\ \A m \in J[w] : \E n \in DOMAIN W[w] : W[w][n] = waiters[w][m]
  <2>1. CASE \A i \in DOMAIN waiters[w] : Stays(waiters[w][i])
    <3>1. W[w] = waiters[w] /\ J[w] = DOMAIN waiters[w]
      BY <1>1, <1>2, <1>3, <2>1
    <3>2. ASSUME NEW X PROVE ExistsBijection(Occ(W[w], X), Occ(waiters[w], X) \cap J[w])
      <4>1. Occ(waiters[w], X) \cap J[w] = Occ(W[w], X)
        BY <3>1 DEF Occ
      <4>. QED  BY <4>1, BijectionIdentity
    <3>. QED  BY <1>2, <3>1, <3>2
  <2>2. CASE ~\A i \in DOMAIN waiters[w] : Stays(waiters[w][i])
    <3>1. W[w] = Subsequence(waiters[w], J[w])
      BY <1>1, <2>2
    <3>2. \A X : ExistsBijection(Occ(W[w], X), Occ(waiters[w], X) \cap J[w])
      BY <1>2, <3>1, OccSubsequence
    <3>3. /\ W[w] \in Seq(Registration)
          /\ Len(W[w]) = Cardinality(J[w])
          /\ \E f \in Bijection(1..Cardinality(J[w]), J[w]) :
               \A n \in 1..Cardinality(J[w]) : W[w][n] = waiters[w][f[n]]
      <4>1. waiters[w] \in Seq(Registration) /\ J[w] \in SUBSET DOMAIN waiters[w]
        BY <1>2
      <4>. QED  BY <3>1, <4>1, SubsequenceFacts
    <3>4. PICK f \in Bijection(1..Cardinality(J[w]), J[w]) :
             \A n \in 1..Cardinality(J[w]) : W[w][n] = waiters[w][f[n]]
      BY <3>3
    <3>5. DOMAIN W[w] = 1..Cardinality(J[w])
      BY <3>3
    <3>6. /\ \A n \in 1..Cardinality(J[w]) : f[n] \in J[w]
          /\ \A m \in J[w] : \E n \in 1..Cardinality(J[w]) : f[n] = m
      BY DEF Bijection, Injection, Surjection, IsInjective
    <3>7. \A n \in DOMAIN W[w] : \E m \in J[w] : W[w][n] = waiters[w][m]
      BY <3>4, <3>5, <3>6
    <3>8. \A m \in J[w] : \E n \in DOMAIN W[w] : W[w][n] = waiters[w][m]
      BY <3>4, <3>5, <3>6
    <3>. QED  BY <3>2, <3>3, <3>7, <3>8
  <2>. QED  BY <2>1, <2>2
<1>5. DOMAIN W[k] = {} /\ W[k] \in Seq(Registration) /\ \A X : Occ(W[k], X) = {}
  <2>1. DOMAIN <<>> = {} /\ <<>> \in Seq(Registration)
    OBVIOUS
  <2>. QED  BY <1>1, <2>1 DEF Occ
<1>6. W \in [Waitable -> Seq(Registration)]
  <2>1. \A w \in Waitable : W[w] \in Seq(Registration)
    BY <1>4, <1>5
  <2>2. W = [w \in Waitable |-> W[w]]
    BY DEF W, WaitersAfter
  <2>. QED  BY <2>1, <2>2
<1>7. \A w \in Waitable : \A n \in DOMAIN W[w] :
        w # k /\ \E m \in DOMAIN waiters[w] : W[w][n] = waiters[w][m] /\ Stays(waiters[w][m])
  <2> TAKE w \in Waitable
  <2> TAKE n \in DOMAIN W[w]
  <2>1. w \in Waitable \ {k}
    BY <1>5
  <2>2. PICK m \in J[w] : W[w][n] = waiters[w][m]
    BY <1>4, <2>1
  <2>3. m \in DOMAIN waiters[w]
    BY <1>2
  <2>. QED  BY <1>3, <2>1, <2>2, <2>3
<1>8. \A w \in Waitable \ {k} : \A m \in DOMAIN waiters[w] :
        (\E n \in DOMAIN W[w] : W[w][n] = waiters[w][m]) \/ ~Stays(waiters[w][m])
  BY <1>3, <1>4
<1>9. DOMAIN waiters = Waitable
  BY DEF TypeOK
<1>10. ASSUME NEW o \in Owner, NEW X \in SUBSET Registration
       PROVE  /\ (\A w \in Waitable \ {k} : Occ(waiters[w], X) \subseteq J[w])
                   => ExistsBijection(Found(W, X), FoundIn(waiters, X, Waitable \ {k}))
              /\ (\A w \in Waitable \ {k} : Occ(waiters[w], X) \cap J[w] = {})
                   => Found(W, X) = {}
  <2>1. \A w \in Waitable \ {k} : ExistsBijection(Occ(W[w], X), Occ(waiters[w], X) \cap J[w])
    BY <1>4
  <2>2. \A w \in Waitable \ (Waitable \ {k}) : Occ(W[w], X) = {}
    BY <1>5
  <2>3. DOMAIN W = DOMAIN waiters /\ Waitable \ {k} \subseteq DOMAIN waiters
    BY <1>1, <1>9
  <2>. QED  BY <1>9, <2>1, <2>2, <2>3, FamilyKept
<1>11. ASSUME NEW o \in Owner, NEW X \in SUBSET Registration,
              X \subseteq WaitsOf(o) \/ (X \subseteq JoinsOf(o) /\ o \notin Decided(k, st))
       PROVE  \A w \in Waitable \ {k} : Occ(waiters[w], X) \subseteq J[w]
  <2>1. \A r \in X : Stays(r)
    BY <1>11 DEF Stays, WaitsOf, JoinsOf
  <2>. QED  BY <1>3, <2>1 DEF Occ
<1>12. ASSUME NEW o \in Owner, NEW X \in SUBSET Registration,
              X \subseteq JoinsOf(o), o \in Decided(k, st)
       PROVE  \A w \in Waitable \ {k} : Occ(waiters[w], X) \cap J[w] = {}
  <2>1. \A r \in X : ~Stays(r)
    BY <1>12 DEF Stays, JoinsOf
  <2>. QED  BY <1>3, <2>1 DEF Occ
<1>13. ASSUME NEW o \in Owner, NEW X \in SUBSET Registration
       PROVE  /\ X \subseteq WaitsOf(o) \/ (X \subseteq JoinsOf(o) /\ o \notin Decided(k, st))
                   => ExistsBijection(Found(W, X), FoundIn(waiters, X, Waitable \ {k}))
              /\ X \subseteq JoinsOf(o) /\ o \in Decided(k, st) => Found(W, X) = {}
  BY <1>10, <1>11, <1>12
<1> HIDE DEF Stays
<1>14. /\ \A w \in Waitable : \A n \in DOMAIN W[w] :
             /\ w # k
             /\ \E m \in DOMAIN waiters[w] :
                  /\ W[w][n] = waiters[w][m]
                  /\ ~(/\ waiters[w][m].type \in {"gather", "race"}
                       /\ waiters[w][m].owner \in Decided(k, st))
       /\ \A w \in Waitable \ {k} : \A m \in DOMAIN waiters[w] :
             \/ \E n \in DOMAIN W[w] : W[w][n] = waiters[w][m]
             \/ /\ waiters[w][m].type \in {"gather", "race"}
                /\ waiters[w][m].owner \in Decided(k, st)
  BY <1>7, <1>8 DEF Stays
<1>. QED  BY <1>6, <1>13, <1>14 DEF W

(* The registrations of an owner on k, by its place.                           *)
LEMMA OnKey ==
  ASSUME TypeOK, NEW k \in Waitable, NEW o \in Owner
  PROVE  /\ \A i \in DOMAIN waiters[k] :
              waiters[k][i].owner = o =>
                /\ waiters[k][i].type \in {"wait", "wait_external"}
                     <=> <<k, i>> \in Found(waiters, WaitsOf(o))
                /\ waiters[k][i].type = "gather" <=> <<k, i>> \in Found(waiters, GathersOf(o))
                /\ waiters[k][i].type = "race" <=> <<k, i>> \in Found(waiters, RacesOf(o))
                /\ waiters[k][i].type \in {"wait", "wait_external", "gather", "race"}
         /\ Found(waiters, JoinsOf(o)) =
              Found(waiters, GathersOf(o)) \cup Found(waiters, RacesOf(o))
         /\ Occ(waiters[k], GathersOf(o)) = GatheredOn(k, o)
         /\ DOMAIN waiters[k] \in SUBSET Nat /\ IsFiniteSet(DOMAIN waiters[k])
<1>1. waiters[k] \in Seq(Registration) /\ DOMAIN waiters = Waitable
  BY DEF TypeOK
<1>2. \A i \in DOMAIN waiters[k] : waiters[k][i] \in Registration
  BY <1>1
<1>3. ASSUME NEW i \in DOMAIN waiters[k], NEW X
      PROVE  waiters[k][i] \in X <=> <<k, i>> \in Found(waiters, X)
  BY <1>1, FoundMember DEF Occ
<1>4. JoinsOf(o) = GathersOf(o) \cup RacesOf(o)
  BY DEF JoinsOf, GathersOf, RacesOf
<1>5. Occ(waiters[k], GathersOf(o)) = GatheredOn(k, o)
  BY <1>2 DEF Occ, GathersOf, GatheredOn
<1>6. DOMAIN waiters[k] = 1..Len(waiters[k]) /\ Len(waiters[k]) \in Nat
  BY <1>1
<1>7. DOMAIN waiters[k] \in SUBSET Nat /\ IsFiniteSet(DOMAIN waiters[k])
  BY <1>6, FS_Interval
<1>8. \A i \in DOMAIN waiters[k] :
        waiters[k][i].owner = o =>
          /\ waiters[k][i].type \in {"wait", "wait_external"} <=> waiters[k][i] \in WaitsOf(o)
          /\ waiters[k][i].type = "gather" <=> waiters[k][i] \in GathersOf(o)
          /\ waiters[k][i].type = "race" <=> waiters[k][i] \in RacesOf(o)
          /\ waiters[k][i].type \in {"wait", "wait_external", "gather", "race"}
  BY <1>2 DEF WaitsOf, GathersOf, RacesOf, Registration
<1>9. Found(waiters, JoinsOf(o)) = Found(waiters, GathersOf(o)) \cup Found(waiters, RacesOf(o))
  BY <1>4, FoundUnion
<1>. QED  BY <1>3, <1>5, <1>7, <1>8, <1>9

(* When a join of o is registered on k, its registrations there all are of the *)
(* Gather or all of the Race; when k decides it, or is the last key it waits   *)
(* for, it fires once.                                                         *)
LEMMA JoinFires ==
  ASSUME TypeOK, NEW k \in Waitable, NEW st \in Terminal, NEW o \in Owner,
         Found(waiters, WaitsOf(o)) = {},
         Counted(Found(waiters, GathersOf(o)), Found(waiters, RacesOf(o)), join[o].remaining),
         NEW i0 \in DOMAIN waiters[k], waiters[k][i0].owner = o
  PROVE  /\ o \in Decided(k, st) => Single(FiredFor(k, st, o))
         /\ o \notin Decided(k, st) =>
              /\ st = "completed" /\ GatheredOn(k, o) # {} /\ IsFiniteSet(GatheredOn(k, o))
              /\ Found(waiters, RacesOf(o)) = {}
              /\ IF Cardinality(GatheredOn(k, o)) = join[o].remaining
                 THEN Single(FiredFor(k, st, o)) ELSE FiredFor(k, st, o) = {}
<1> DEFINE S == {i \in DOMAIN waiters[k] : waiters[k][i].owner = o}
<1>1. \A i \in S : /\ waiters[k][i].type \in {"gather", "race"}
                   /\ waiters[k][i].type = "gather" <=> <<k, i>> \in Found(waiters, GathersOf(o))
                   /\ waiters[k][i].type = "race" <=> <<k, i>> \in Found(waiters, RacesOf(o))
  BY OnKey
<1>2. \/ \A i \in S : waiters[k][i].type = "race"
      \/ /\ \A i \in S : waiters[k][i].type = "gather"
         /\ Found(waiters, RacesOf(o)) = {}
  BY <1>1 DEF Counted
<1>3. S \subseteq Nat /\ IsFiniteSet(S) /\ i0 \in S
  BY OnKey, FS_Subset
<1>4. PICK first \in S : \A j \in S : first <= j
  BY <1>3, FirstAndLast
<1>5. PICK last \in S : \A j \in S : j <= last
  BY <1>3, FirstAndLast
<1>6. \A i \in S : SameOwner(k, i) = S
  BY DEF SameOwner
<1>7. \A i \in S : /\ FirstOfOwner(k, i) <=> i = first
                   /\ LastOfOwner(k, i) <=> i = last
  BY <1>3, <1>4, <1>5, <1>6 DEF FirstOfOwner, LastOfOwner
<1>8. FiredFor(k, st, o) =
        {i \in S : CASE waiters[k][i].type = "race" -> FirstOfOwner(k, i)
                     [] waiters[k][i].type = "gather" ->
                          (IF st # "completed" THEN FirstOfOwner(k, i)
                           ELSE /\ LastOfOwner(k, i)
                                /\ Cardinality(SameOwner(k, i)) = join[waiters[k][i].owner].remaining)
                     [] OTHER -> TRUE}
  BY DEF FiredFor, Fired
<1>9. o \in Decided(k, st) <=>
        \E i \in S : waiters[k][i].type = "race"
                       \/ (waiters[k][i].type = "gather" /\ st # "completed")
  BY DEF Decided
<1>10. ASSUME o \in Decided(k, st) PROVE Single(FiredFor(k, st, o))
  <2>1. \/ \A i \in S : waiters[k][i].type = "race"
        \/ st # "completed" /\ \A i \in S : waiters[k][i].type = "gather"
    BY <1>2, <1>9, <1>10
  <2>2. \A i \in S : i \in FiredFor(k, st, o) <=> i = first
    BY <1>7, <1>8, <2>1
  <2>3. FiredFor(k, st, o) \subseteq S
    BY <1>8
  <2>. QED  BY <2>2, <2>3 DEF Single
<1>11. ASSUME o \notin Decided(k, st)
       PROVE  /\ st = "completed" /\ GatheredOn(k, o) # {} /\ IsFiniteSet(GatheredOn(k, o))
              /\ Found(waiters, RacesOf(o)) = {}
              /\ IF Cardinality(GatheredOn(k, o)) = join[o].remaining
                 THEN Single(FiredFor(k, st, o)) ELSE FiredFor(k, st, o) = {}
  <2>1. st = "completed" /\ \A i \in S : waiters[k][i].type = "gather"
    BY <1>2, <1>3, <1>9, <1>11
  <2>2. Found(waiters, RacesOf(o)) = {}
    BY <1>2, <1>3, <2>1
  <2>3. GatheredOn(k, o) = S
    BY <2>1 DEF GatheredOn
  <2>4. \A i \in S : i \in FiredFor(k, st, o)
                       <=> i = last /\ Cardinality(S) = join[o].remaining
    BY <1>6, <1>7, <1>8, <2>1
  <2>5. FiredFor(k, st, o) \subseteq S
    BY <1>8
  <2>. QED  BY <1>3, <2>1, <2>2, <2>3, <2>4, <2>5 DEF Single
<1>. QED  BY <1>10, <1>11

(* Waking k moves every owner it wakes, from its registrations to the heap,    *)
(* and no other; a Gather that does not end counts down.                       *)
LEMMA WakePlaces ==
  ASSUME TypeOK, NEW k \in Waitable, NEW st \in Terminal, NEW o \in Owner, NEW run, NEW sem,
         NEW place \in PlaceName \cup {"nowhere"},
         Site(place, run, Found(ready, QueuedFor(o)), Found(waiters, WaitsOf(o)),
              Found(waiters, JoinsOf(o)), sem),
         Counted(Found(waiters, GathersOf(o)), Found(waiters, RacesOf(o)), join[o].remaining)
  PROVE  /\ \E later \in {place} \cup (IF place \in {"wait", "join"} THEN {"heap"} ELSE {}) :
              Site(later, run, Found(ReadyAfter(k, st), QueuedFor(o)),
                   Found(WaitersAfter(k, st), WaitsOf(o)),
                   Found(WaitersAfter(k, st), JoinsOf(o)), sem)
         /\ Counted(Found(WaitersAfter(k, st), GathersOf(o)),
                    Found(WaitersAfter(k, st), RacesOf(o)), JoinAfter(k, st)[o].remaining)
<1> DEFINE R == ReadyAfter(k, st)
           W == WaitersAfter(k, st)
           Others(X) == FoundIn(waiters, X, Waitable \ {k})
           S == {i \in DOMAIN waiters[k] : waiters[k][i].owner = o}
<1>1. DOMAIN waiters = Waitable
  BY DEF TypeOK
<1>2. WaitsOf(o) \in SUBSET Registration /\ JoinsOf(o) \in SUBSET Registration
      /\ GathersOf(o) \in SUBSET Registration /\ RacesOf(o) \in SUBSET Registration
      /\ GathersOf(o) \subseteq JoinsOf(o) /\ RacesOf(o) \subseteq JoinsOf(o)
  BY DEF WaitsOf, JoinsOf, GathersOf, RacesOf
<1>3. /\ ExistsBijection(Found(W, WaitsOf(o)), Others(WaitsOf(o)))
      /\ o \notin Decided(k, st) =>
           /\ ExistsBijection(Found(W, JoinsOf(o)), Others(JoinsOf(o)))
           /\ ExistsBijection(Found(W, GathersOf(o)), Others(GathersOf(o)))
           /\ ExistsBijection(Found(W, RacesOf(o)), Others(RacesOf(o)))
      /\ o \in Decided(k, st) =>
           Found(W, JoinsOf(o)) = {} /\ Found(W, GathersOf(o)) = {}
  BY <1>2, WaitersWoken
<1>4. /\ FiredFor(k, st, o) = {} => Found(R, QueuedFor(o)) = Found(ready, QueuedFor(o))
      /\ Single(FiredFor(k, st, o)) /\ Found(ready, QueuedFor(o)) = {}
           => Single(Found(R, QueuedFor(o)))
  BY ReadyWoken
<1>5. Found(W, GathersOf(o)) \subseteq Found(W, JoinsOf(o))
  BY <1>2, FoundUnion
<1>6. FiredFor(k, st, o) \subseteq S /\ (o \in Decided(k, st) => S # {})
  BY DEF FiredFor, Fired, Decided
<1>7. \A X : Others(X) \subseteq Found(waiters, X)
  BY DEF FoundIn
<1> HIDE DEF R, W
<1>8. CASE S = {}
  <2>1. o \notin Decided(k, st) /\ FiredFor(k, st, o) = {} /\ GatheredOn(k, o) = {}
    BY <1>6, <1>8 DEF GatheredOn
  <2>2. ASSUME NEW X \in {WaitsOf(o), JoinsOf(o), GathersOf(o), RacesOf(o)}
        PROVE  Others(X) = Found(waiters, X)
    <3>1. \A r \in X : r.owner = o
      BY DEF WaitsOf, JoinsOf, GathersOf, RacesOf
    <3>2. Occ(waiters[k], X) = {}
      BY <1>8, <3>1 DEF Occ
    <3>. QED  BY <1>1, <3>2, FoundAt
  <2>3. /\ ExistsBijection(Found(W, WaitsOf(o)), Found(waiters, WaitsOf(o)))
        /\ ExistsBijection(Found(W, JoinsOf(o)), Found(waiters, JoinsOf(o)))
        /\ ExistsBijection(Found(W, GathersOf(o)), Found(waiters, GathersOf(o)))
        /\ ExistsBijection(Found(W, RacesOf(o)), Found(waiters, RacesOf(o)))
    BY <1>3, <2>1, <2>2
  <2>4. Site(place, run, Found(R, QueuedFor(o)), Found(W, WaitsOf(o)), Found(W, JoinsOf(o)), sem)
    <3>1. /\ Found(W, WaitsOf(o)) = {} <=> Found(waiters, WaitsOf(o)) = {}
          /\ Single(Found(W, WaitsOf(o))) <=> Single(Found(waiters, WaitsOf(o)))
          /\ Found(W, JoinsOf(o)) = {} <=> Found(waiters, JoinsOf(o)) = {}
      BY <2>3, BijectionAlike
    <3>. QED  BY <1>4, <2>1, <3>1 DEF Site
  <2>5. JoinAfter(k, st)[o].remaining = join[o].remaining
    <3>1. Cardinality(GatheredOn(k, o)) = 0 /\ join[o].remaining \in Int
          /\ join[o] \in [keys : SUBSET Waitable, remaining : Int]
      BY <2>1, FS_EmptySet DEF TypeOK
    <3>2. JoinAfter(k, st)[o] = [join[o] EXCEPT !.remaining = @ - Cardinality(GatheredOn(k, o))]
      BY <2>1 DEF JoinAfter
    <3>. QED  BY <3>1, <3>2
  <2>6. Counted(Found(W, GathersOf(o)), Found(W, RacesOf(o)), JoinAfter(k, st)[o].remaining)
    <3>1. ASSUME Found(W, GathersOf(o)) # {}
          PROVE  /\ IsFiniteSet(Found(W, GathersOf(o))) /\ Found(W, RacesOf(o)) = {}
                 /\ Cardinality(Found(W, GathersOf(o))) = JoinAfter(k, st)[o].remaining
      <4>1. Found(waiters, GathersOf(o)) # {}
        BY <2>3, <3>1, BijectionAlike
      <4>2. IsFiniteSet(Found(waiters, GathersOf(o))) /\ Found(waiters, RacesOf(o)) = {}
            /\ Cardinality(Found(waiters, GathersOf(o))) = join[o].remaining
        BY <4>1 DEF Counted
      <4>3. ExistsBijection(Found(waiters, GathersOf(o)), Found(W, GathersOf(o)))
        BY <2>3, Fun_ExistsBijSymmetric
      <4>4. Found(W, RacesOf(o)) = {}
        BY <2>3, <4>2, BijectionAlike
      <4>. QED  BY <2>5, <4>2, <4>3, <4>4, FS_Bijection
    <3>. QED  BY <3>1 DEF Counted
  <2>. QED  BY <2>4, <2>6 DEF R, W
<1>9. CASE S # {} /\ place = "wait"
  <2>1. Found(waiters, JoinsOf(o)) = {} /\ Found(ready, QueuedFor(o)) = {} /\ ~run /\ sem = {}
        /\ Single(Found(waiters, WaitsOf(o)))
    BY <1>9 DEF Site
  <2>2. Found(waiters, GathersOf(o)) = {} /\ Found(waiters, RacesOf(o)) = {}
    BY <2>1, OnKey
  <2>3. \A i \in S : /\ waiters[k][i].type \in {"wait", "wait_external"}
                     /\ <<k, i>> \in Found(waiters, WaitsOf(o))
    BY <2>2, OnKey
  <2>4. S \subseteq Fired(k, st) /\ o \notin Decided(k, st)
    BY <2>3 DEF Fired, Decided
  <2>5. FiredFor(k, st, o) = S
    BY <1>6, <2>4 DEF FiredFor
  <2>6. PICK i \in S : Found(waiters, WaitsOf(o)) = {<<k, i>>}
    BY <1>9, <2>1, <2>3 DEF Single
  <2>7. S = {i}
    BY <2>3, <2>6
  <2>8. Single(Found(R, QueuedFor(o)))
    BY <1>4, <2>1, <2>5, <2>7 DEF Single
  <2>9. Others(WaitsOf(o)) = {} /\ Others(JoinsOf(o)) = {} /\ Others(GathersOf(o)) = {}
    BY <2>1, <2>2, <2>6 DEF FoundIn
  <2>10. Found(W, WaitsOf(o)) = {} /\ Found(W, JoinsOf(o)) = {} /\ Found(W, GathersOf(o)) = {}
    BY <1>3, <2>4, <2>9, BijectionAlike
  <2>11. Site("heap", run, Found(R, QueuedFor(o)), Found(W, WaitsOf(o)), Found(W, JoinsOf(o)), sem)
    BY <2>1, <2>8, <2>10 DEF Site
  <2>. QED  BY <1>9, <2>10, <2>11 DEF Counted, R, W
<1>10. CASE S # {} /\ place # "wait"
  <2>1. Found(waiters, WaitsOf(o)) = {}
    BY <1>10 DEF Site
  <2>2. PICK i \in S : TRUE
    BY <1>10
  <2>3. /\ o \in Decided(k, st) => Single(FiredFor(k, st, o))
        /\ o \notin Decided(k, st) =>
              /\ st = "completed" /\ GatheredOn(k, o) # {} /\ IsFiniteSet(GatheredOn(k, o))
              /\ Found(waiters, RacesOf(o)) = {}
              /\ IF Cardinality(GatheredOn(k, o)) = join[o].remaining
                 THEN Single(FiredFor(k, st, o)) ELSE FiredFor(k, st, o) = {}
    BY <2>1, <2>2, JoinFires
  <2>4. Found(waiters, JoinsOf(o)) # {}
    BY <2>1, <2>2, OnKey
  <2>5. place = "join" /\ ~run /\ sem = {} /\ Found(ready, QueuedFor(o)) = {}
    BY <2>4 DEF Site
  <2>6. Found(W, WaitsOf(o)) = {}
    BY <1>3, <1>7, <2>1, BijectionAlike
  <2>7. CASE o \in Decided(k, st)
    <3>1. Single(Found(R, QueuedFor(o)))
      BY <1>4, <2>3, <2>5, <2>7
    <3>2. Found(W, JoinsOf(o)) = {} /\ Found(W, GathersOf(o)) = {}
      BY <1>3, <2>7
    <3>3. Site("heap", run, Found(R, QueuedFor(o)), Found(W, WaitsOf(o)), Found(W, JoinsOf(o)), sem)
      BY <2>5, <2>6, <3>1, <3>2 DEF Site
    <3>. QED  BY <2>5, <3>2, <3>3 DEF Counted, R, W
  <2>8. CASE o \notin Decided(k, st)
    <3> DEFINE G == Found(waiters, GathersOf(o))
               H == FoundIn(waiters, GathersOf(o), {k})
    <3>1. Found(waiters, RacesOf(o)) = {} /\ Found(waiters, JoinsOf(o)) = G /\ G # {}
          /\ GatheredOn(k, o) # {} /\ IsFiniteSet(GatheredOn(k, o))
      BY <2>3, <2>4, <2>8, OnKey
    <3>2. IsFiniteSet(G) /\ Cardinality(G) = join[o].remaining
      BY <3>1 DEF Counted
    <3>3. /\ ExistsBijection(GatheredOn(k, o), H)
          /\ Others(GathersOf(o)) = G \ H /\ H \subseteq G
      <4>1. Occ(waiters[k], GathersOf(o)) = GatheredOn(k, o)
        BY OnKey
      <4>2. /\ ExistsBijection(Occ(waiters[k], GathersOf(o)), FoundIn(waiters, GathersOf(o), {k}))
            /\ FoundIn(waiters, GathersOf(o), DOMAIN waiters \ {k}) =
                 Found(waiters, GathersOf(o)) \ FoundIn(waiters, GathersOf(o), {k})
            /\ FoundIn(waiters, GathersOf(o), {k}) \subseteq Found(waiters, GathersOf(o))
        <5>1. k \in DOMAIN waiters
          BY <1>1
        <5>. QED  BY <5>1, FoundAt
      <4>. QED  BY <1>1, <4>1, <4>2
    <3>4. Cardinality(H) = Cardinality(GatheredOn(k, o)) /\ IsFiniteSet(H)
          /\ Cardinality(H) \in Nat /\ Cardinality(G) \in Nat
      BY <3>1, <3>2, <3>3, FS_Bijection, FS_CardinalityType
    <3>5. Others(RacesOf(o)) = {} /\ Others(JoinsOf(o)) = Others(GathersOf(o))
      BY <1>7, <3>1, OnKey DEF FoundIn
    <3> HIDE DEF G, H
    <3>6. Found(W, RacesOf(o)) = {}
      BY <1>3, <2>8, <3>5, BijectionAlike
    <3>7. CASE Cardinality(GatheredOn(k, o)) = join[o].remaining
      <4>1. G = H
        BY <3>2, <3>3, <3>4, <3>7, FS_Subset
      <4>2. Others(GathersOf(o)) = {} /\ Others(JoinsOf(o)) = {}
        BY <3>3, <3>5, <4>1
      <4>3. Found(W, JoinsOf(o)) = {} /\ Found(W, GathersOf(o)) = {}
        BY <1>3, <2>8, <4>2, BijectionAlike
      <4>4. Single(Found(R, QueuedFor(o)))
        BY <1>4, <2>3, <2>5, <2>8, <3>7
      <4>5. Site("heap", run, Found(R, QueuedFor(o)), Found(W, WaitsOf(o)), Found(W, JoinsOf(o)), sem)
        BY <2>5, <2>6, <4>3, <4>4 DEF Site
      <4>. QED  BY <2>5, <4>3, <4>5 DEF Counted, R, W
    <3>8. CASE Cardinality(GatheredOn(k, o)) # join[o].remaining
      <4>1. Found(R, QueuedFor(o)) = {}
        BY <1>4, <2>3, <2>5, <2>8, <3>8
      <4>2. IsFiniteSet(G \ H) /\ Cardinality(G \ H) = Cardinality(G) - Cardinality(H)
        <5>1. G \cap H = H
          BY <3>3
        <5>. QED  BY <3>2, <5>1, FS_Difference
      <4>3. G \ H # {}
        <5>1. G = H => Cardinality(GatheredOn(k, o)) = join[o].remaining
          BY <3>2, <3>4
        <5>. QED  BY <3>3, <3>8, <5>1
      <4>4. ExistsBijection(G \ H, Found(W, GathersOf(o)))
        BY <1>3, <2>8, <3>3, Fun_ExistsBijSymmetric
      <4>5. IsFiniteSet(Found(W, GathersOf(o)))
            /\ Cardinality(Found(W, GathersOf(o))) = Cardinality(G) - Cardinality(H)
        BY <4>2, <4>4, FS_Bijection
      <4>6. Found(W, JoinsOf(o)) # {}
        BY <1>3, <2>8, <3>3, <3>5, <4>3, BijectionAlike
      <4>7. JoinAfter(k, st)[o].remaining = Cardinality(G) - Cardinality(H)
        <5>1. JoinAfter(k, st)[o] = [join[o] EXCEPT !.remaining = @ - Cardinality(GatheredOn(k, o))]
          BY <2>8, <3>8 DEF JoinAfter
        <5>2. join[o] \in [keys : SUBSET Waitable, remaining : Int]
          BY DEF TypeOK
        <5>. QED  BY <3>2, <3>4, <5>1, <5>2
      <4>8. Site("join", run, Found(R, QueuedFor(o)), Found(W, WaitsOf(o)), Found(W, JoinsOf(o)), sem)
        BY <2>5, <2>6, <4>1, <4>6 DEF Site
      <4>. QED  BY <2>5, <3>6, <4>5, <4>7, <4>8 DEF Counted, R, W
    <3>. QED  BY <3>7, <3>8
  <2>. QED  BY <2>7, <2>8
<1>. QED  BY <1>8, <1>9, <1>10

-------------------------------------------------------------------------------
(* Semaphores: what a grant and the pruning of the queues do to an owner that  *)
(* is parked in one place.                                                     *)
LEMMA FamilyKeeps ==
  ASSUME NEW f, NEW g, NEW J, NEW X, DOMAIN g = DOMAIN f,
         \A k \in DOMAIN f : ExistsBijection(Occ(g[k], X), Occ(f[k], X) \cap J[k])
  PROVE  /\ Found(f, X) = {} => Found(g, X) = {}
         /\ \A k \in DOMAIN f : \A n \in Occ(f[k], X) :
              Found(f, X) = {<<k, n>>} =>
                IF n \in J[k] THEN Single(Found(g, X)) ELSE Found(g, X) = {}
<1>1. ASSUME Found(f, X) = {} PROVE Found(g, X) = {}
  <2>1. \A k \in DOMAIN f : Occ(f[k], X) \cap J[k] = {}
    BY <1>1, FoundEmpty
  <2>. QED  BY <2>1, FamilyKept
<1>2. ASSUME NEW k \in DOMAIN f, NEW n \in Occ(f[k], X), Found(f, X) = {<<k, n>>}
      PROVE  IF n \in J[k] THEN Single(Found(g, X)) ELSE Found(g, X) = {}
  <2>1. \A j \in DOMAIN f : \A m \in Occ(f[j], X) : <<j, m>> = <<k, n>>
    BY <1>2, FoundMember
  <2>2. Occ(f[k], X) = {n} /\ \A j \in DOMAIN f \ {k} : Occ(f[j], X) = {}
    BY <2>1
  <2>3. CASE n \in J[k]
    <3>1. \A j \in DOMAIN f : Occ(f[j], X) \subseteq J[j]
      BY <2>2, <2>3
    <3>2. ExistsBijection(Found(g, X), FoundIn(f, X, DOMAIN f))
      BY <3>1, FamilyKept
    <3>3. FoundIn(f, X, DOMAIN f) = {<<k, n>>}
      BY <1>2 DEF FoundIn
    <3>4. Single(FoundIn(f, X, DOMAIN f))
      BY <3>3 DEF Single
    <3>5. Single(Found(g, X))
      BY <3>2, <3>4, BijectionAlike
    <3>. QED  BY <2>3, <3>5
  <2>4. CASE n \notin J[k]
    <3>1. \A j \in DOMAIN f : Occ(f[j], X) \cap J[j] = {}
      BY <2>2, <2>4
    <3>. QED  BY <2>4, <3>1, FamilyKept
  <2>. QED  BY <2>3, <2>4
<1>. QED  BY <1>1, <1>2

(* pop_next_sem_waiter: the next owner is the first queued one that is not    *)
(* cancelled.                                                                 *)
LEMMA FirstLiveFacts ==
  ASSUME TypeOK, NEW s \in Sem
  PROVE  /\ LiveWaiters(s) \in SUBSET DOMAIN semWaiters[s]
         /\ semWaiters[s] \in Seq(Owner) /\ DOMAIN semWaiters[s] \subseteq Nat
         /\ LiveWaiters(s) # {} =>
              /\ FirstLive(s) \in LiveWaiters(s) /\ FirstLive(s) \in DOMAIN semWaiters[s]
              /\ \A j \in LiveWaiters(s) : FirstLive(s) <= j
              /\ NextOwner(s) \in Owner /\ ~IsCancelled(NextOwner(s))
<1>1. semWaiters[s] \in Seq(Owner)
  BY DEF TypeOK
<1>2. /\ DOMAIN semWaiters[s] = 1..Len(semWaiters[s]) /\ Len(semWaiters[s]) \in Nat
      /\ \A i \in DOMAIN semWaiters[s] : semWaiters[s][i] \in Owner
  BY <1>1
<1>3. LiveWaiters(s) \in SUBSET DOMAIN semWaiters[s]
  BY DEF LiveWaiters
<1>4. ASSUME LiveWaiters(s) # {}
      PROVE  /\ FirstLive(s) \in LiveWaiters(s)
             /\ \A j \in LiveWaiters(s) : FirstLive(s) <= j
  <2>1. IsFiniteSet(1..Len(semWaiters[s]))
    BY <1>2, FS_Interval
  <2>2. LiveWaiters(s) \subseteq Nat /\ IsFiniteSet(LiveWaiters(s))
    BY <1>2, <1>3, <2>1, FS_Subset
  <2>3. \E i \in LiveWaiters(s) : \A j \in LiveWaiters(s) : i <= j
    BY <1>4, <2>2, FirstAndLast
  <2>. QED  BY <2>3 DEF FirstLive
<1>5. ASSUME LiveWaiters(s) # {}
      PROVE  NextOwner(s) \in Owner /\ ~IsCancelled(NextOwner(s))
  BY <1>2, <1>3, <1>4, <1>5 DEF NextOwner, LiveWaiters
<1>. QED  BY <1>1, <1>2, <1>3, <1>4, <1>5

(* The waiters behind the first live one, and no others, stay in the queue.    *)
LEMMA GrantQueue ==
  ASSUME TypeOK, NEW s \in Sem, NEW X
  PROVE  /\ AfterGrant(s) \in Seq(Owner)
         /\ \A n \in DOMAIN AfterGrant(s) : \E m \in DOMAIN semWaiters[s] :
              AfterGrant(s)[n] = semWaiters[s][m]
         /\ LiveWaiters(s) = {} => Occ(AfterGrant(s), X) = {}
         /\ LiveWaiters(s) # {} =>
              ExistsBijection(Occ(AfterGrant(s), X),
                Occ(semWaiters[s], X) \cap {m \in DOMAIN semWaiters[s] : m > FirstLive(s)})
<1>1. /\ semWaiters[s] \in Seq(Owner) /\ Len(semWaiters[s]) \in Nat
      /\ DOMAIN semWaiters[s] = 1..Len(semWaiters[s])
  BY DEF TypeOK
<1>2. CASE LiveWaiters(s) = {}
  <2>1. AfterGrant(s) = <<>>
    BY <1>2 DEF AfterGrant
  <2>2. DOMAIN <<>> = {} /\ <<>> \in Seq(Owner)
    OBVIOUS
  <2>. QED  BY <1>2, <2>1, <2>2 DEF Occ
<1>3. CASE LiveWaiters(s) # {}
  <2>1. PICK f : f = FirstLive(s)
    OBVIOUS
  <2>2. PICK q : q = semWaiters[s]
    OBVIOUS
  <2>3. f \in 1..Len(q) /\ q \in Seq(Owner) /\ Len(q) \in Nat /\ DOMAIN q = 1..Len(q)
    BY <1>1, <1>3, <2>1, <2>2, FirstLiveFacts
  <2>4. PICK t : t = SubSeq(q, f + 1, Len(q))
    OBVIOUS
  <2>5. AfterGrant(s) = t
    BY <1>3, <2>1, <2>2, <2>4 DEF AfterGrant
  <2>6. t \in Seq(Owner) /\ Len(t) = Len(q) - f
        /\ \A n \in 1..(Len(q) - f) : t[n] = q[f + n]
    <3>1. f + 1 \in 1..(Len(q) + 1) /\ Len(q) \in Int /\ f \in Int
      BY <2>3
    <3>2. \A i \in (f + 1)..Len(q) : i \in 1..Len(q) /\ q[i] \in Owner
      BY <2>3
    <3>4. \A n \in 1..(Len(q) - f) : f + n \in (f + 1)..Len(q)
      BY <3>1
    <3>5. Len(q) - f \in Nat
      BY <2>3
    <3>6. /\ SubSeq(q, f + 1, Len(q)) \in Seq(Owner)
          /\ Len(SubSeq(q, f + 1, Len(q))) = Len(q) - f
          /\ \A n \in 1..(Len(q) - f) : SubSeq(q, f + 1, Len(q))[n] = q[f + n]
      <4>1. \A a, b \in Int : \A u \in Seq(Owner) : a \in 1..(b + 1) /\ b = Len(u) =>
              /\ SubSeq(u, a, b) \in Seq(Owner)
              /\ Len(SubSeq(u, a, b)) = b - a + 1
              /\ \A n \in 1..(b - a + 1) : SubSeq(u, a, b)[n] = u[a + n - 1]
        OBVIOUS
      <4>2. f + 1 \in Int /\ Len(q) - (f + 1) + 1 = Len(q) - f
            /\ \A n \in 1..(Len(q) - f) : (f + 1) + n - 1 = f + n
        BY <3>1
      <4>3. /\ SubSeq(q, f + 1, Len(q)) \in Seq(Owner)
            /\ Len(SubSeq(q, f + 1, Len(q))) = Len(q) - (f + 1) + 1
            /\ \A n \in 1..(Len(q) - (f + 1) + 1) :
                  SubSeq(q, f + 1, Len(q))[n] = q[(f + 1) + n - 1]
        BY <2>3, <3>1, <4>1, <4>2
      <4>. QED  BY <4>2, <4>3
    <3>. QED  BY <2>4, <3>6
  <2>7. DOMAIN t = 1..(Len(q) - f)
    BY <2>3, <2>6
  <2> DEFINE T == Occ(q, X) \cap {m \in DOMAIN q : m > f}
             b == [n \in Occ(t, X) |-> f + n]
  <2>8. \A n \in 1..(Len(q) - f) : f + n \in 1..Len(q) /\ f + n > f
    BY <2>3
  <2>9. b \in [Occ(t, X) -> T]
    BY <2>3, <2>6, <2>7, <2>8 DEF Occ
  <2>10. \A m, n \in Occ(t, X) : b[m] = b[n] => m = n
    BY <2>3, <2>7 DEF Occ
  <2>11. ASSUME NEW m \in T PROVE \E n \in Occ(t, X) : b[n] = m
    <3>1. m \in 1..Len(q) /\ m > f /\ q[m] \in X
      BY <2>3 DEF Occ
    <3>2. m - f \in 1..(Len(q) - f) /\ f + (m - f) = m
      BY <2>3, <3>1
    <3>3. m - f \in Occ(t, X)
      BY <2>6, <2>7, <3>1, <3>2 DEF Occ
    <3>. QED  BY <3>2, <3>3
  <2> HIDE DEF b, T
  <2>12. b \in Bijection(Occ(t, X), T)
    BY <2>9, <2>10, <2>11 DEF Bijection, Injection, Surjection, IsInjective
  <2>13. ExistsBijection(Occ(t, X), T)
    BY <2>12 DEF ExistsBijection
  <2>14. \A n \in DOMAIN t : \E m \in DOMAIN q : t[n] = q[m]
    BY <2>3, <2>6, <2>7, <2>8
  <2>. QED  BY <1>3, <2>1, <2>2, <2>5, <2>6, <2>13, <2>14 DEF T
<1>. QED  BY <1>2, <1>3

(* A live owner parked for a permit either gets it or stays parked.            *)
LEMMA GrantPlaces ==
  ASSUME TypeOK, NEW s \in Sem, NEW o \in Owner
  PROVE  LET before == Found(semWaiters, {o})
             after == Found([semWaiters EXCEPT ![s] = AfterGrant(s)], {o})
             next == LiveWaiters(s) # {} /\ o = NextOwner(s)
         IN  /\ before = {} => after = {} /\ ~next
             /\ Single(before) => /\ after = {} \/ Single(after)
                                  /\ next => after = {}
                                  /\ ~next /\ ~IsCancelled(o) => Single(after)
<1> DEFINE g == [semWaiters EXCEPT ![s] = AfterGrant(s)]
           J == [k \in Sem |->
                   IF k # s THEN DOMAIN semWaiters[k]
                   ELSE IF LiveWaiters(s) = {} THEN {}
                   ELSE {m \in DOMAIN semWaiters[s] : m > FirstLive(s)}]
           next == LiveWaiters(s) # {} /\ o = NextOwner(s)
<1>1. /\ DOMAIN semWaiters = Sem /\ DOMAIN g = Sem /\ g[s] = AfterGrant(s)
      /\ \A k \in Sem \ {s} : g[k] = semWaiters[k]
  BY DEF TypeOK
<1>2. ASSUME NEW k \in Sem
      PROVE  ExistsBijection(Occ(g[k], {o}), Occ(semWaiters[k], {o}) \cap J[k])
  <2>1. CASE k # s
    <3>1. Occ(g[k], {o}) = Occ(semWaiters[k], {o}) \cap J[k]
      BY <1>1, <2>1 DEF Occ
    <3>. QED  BY <3>1, BijectionIdentity
  <2>2. CASE k = s /\ LiveWaiters(s) = {}
    <3>1. Occ(g[k], {o}) = Occ(semWaiters[k], {o}) \cap J[k]
      BY <1>1, <2>2, GrantQueue
    <3>. QED  BY <3>1, BijectionIdentity
  <2>3. CASE k = s /\ LiveWaiters(s) # {}
    <3>1. J[s] = {m \in DOMAIN semWaiters[s] : m > FirstLive(s)}
      BY <2>3
    <3>. QED  BY <1>1, <2>3, <3>1, GrantQueue
  <2>. QED  BY <2>1, <2>2, <2>3
<1>3. next => FirstLive(s) \in Occ(semWaiters[s], {o})
  BY FirstLiveFacts DEF NextOwner, Occ
<1>4. /\ Found(semWaiters, {o}) = {} => Found(g, {o}) = {}
      /\ \A k \in Sem : \A n \in Occ(semWaiters[k], {o}) :
              Found(semWaiters, {o}) = {<<k, n>>} =>
                IF n \in J[k] THEN Single(Found(g, {o})) ELSE Found(g, {o}) = {}
  <2> HIDE DEF g, J
  <2>1. DOMAIN g = DOMAIN semWaiters
        /\ \A k \in DOMAIN semWaiters :
              ExistsBijection(Occ(g[k], {o}), Occ(semWaiters[k], {o}) \cap J[k])
    BY <1>1, <1>2
  <2>2. \A k \in DOMAIN semWaiters : \A n \in Occ(semWaiters[k], {o}) :
          Found(semWaiters, {o}) = {<<k, n>>} =>
            IF n \in J[k] THEN Single(Found(g, {o})) ELSE Found(g, {o}) = {}
    BY <2>1, FamilyKeeps
  <2>3. Found(semWaiters, {o}) = {} => Found(g, {o}) = {}
    BY <2>1, FamilyKeeps
  <2>. QED  BY <1>1, <2>2, <2>3
<1>5. Found(semWaiters, {o}) = {} => ~next
  BY <1>1, <1>3, FoundEmpty
<1>6. ASSUME Single(Found(semWaiters, {o}))
      PROVE  /\ Found(g, {o}) = {} \/ Single(Found(g, {o}))
             /\ next => Found(g, {o}) = {}
             /\ ~next /\ ~IsCancelled(o) => Single(Found(g, {o}))
  <2>1. \E k \in Sem : \E n \in Occ(semWaiters[k], {o}) : Found(semWaiters, {o}) = {<<k, n>>}
    <3>1. PICK z \in Found(semWaiters, {o}) : Found(semWaiters, {o}) = {z}
      BY <1>6 DEF Single
    <3>2. z = <<z[1], z[2]>> /\ z[1] \in Sem /\ z[2] \in Occ(semWaiters[z[1]], {o})
      BY <1>1, FoundMember
    <3>. QED  BY <3>1, <3>2
  <2>11. PICK k \in Sem : \E n \in Occ(semWaiters[k], {o}) : Found(semWaiters, {o}) = {<<k, n>>}
    BY <2>1
  <2>12. PICK n \in Occ(semWaiters[k], {o}) : Found(semWaiters, {o}) = {<<k, n>>}
    BY <2>11
  <2>2. IF n \in J[k] THEN Single(Found(g, {o})) ELSE Found(g, {o}) = {}
    BY <1>4, <2>12
  <2>3. ASSUME next PROVE n \notin J[k]
    <3>1. <<s, FirstLive(s)>> \in Found(semWaiters, {o})
      BY <1>1, <1>3, <2>3, FoundMember
    <3>2. k = s /\ n = FirstLive(s)
      BY <2>12, <3>1
    <3>3. FirstLive(s) \in Nat
      BY <2>3, FirstLiveFacts
    <3>. QED  BY <2>3, <3>2, <3>3
  <2>4. ASSUME ~next, ~IsCancelled(o) PROVE n \in J[k]
    <3>1. semWaiters[k][n] = o /\ n \in DOMAIN semWaiters[k]
      BY DEF Occ
    <3>2. CASE k # s
      BY <3>1, <3>2
    <3>3. CASE k = s
      <4>1. n \in LiveWaiters(s)
        BY <2>4, <3>1, <3>3 DEF LiveWaiters
      <4>2. n # FirstLive(s) /\ FirstLive(s) <= n /\ FirstLive(s) \in DOMAIN semWaiters[s]
        BY <2>4, <3>1, <3>3, <4>1, FirstLiveFacts DEF NextOwner
      <4>3. DOMAIN semWaiters[s] \subseteq Nat
        BY FirstLiveFacts
      <4>4. n > FirstLive(s)
        <5>1. n \in Nat /\ FirstLive(s) \in Nat
          BY <3>1, <3>3, <4>2, <4>3
        <5>. QED  BY <4>2, <5>1
      <4>5. LiveWaiters(s) # {} /\ n \in DOMAIN semWaiters[s]
        BY <3>1, <3>3, <4>1
      <4>. QED  BY <3>3, <4>4, <4>5
    <3>. QED  BY <3>2, <3>3
  <2> HIDE DEF J, g, next
  <2>. QED  BY <2>2, <2>3, <2>4
<1>. QED  BY <1>4, <1>5, <1>6

(* remove_task_from_semaphore_queues: pruning never duplicates a place and    *)
(* never drops an owner that is not cancelled.                                *)
LEMMA PrunedPlaces ==
  ASSUME TypeOK, NEW o \in Owner
  PROVE  /\ PrunedWaiters \in [Sem -> Seq(Owner)]
         /\ Found(semWaiters, {o}) = {} => Found(PrunedWaiters, {o}) = {}
         /\ Single(Found(semWaiters, {o})) =>
              /\ Found(PrunedWaiters, {o}) = {} \/ Single(Found(PrunedWaiters, {o}))
              /\ ~IsCancelled(o) => Single(Found(PrunedWaiters, {o}))
<1> DEFINE g == PrunedWaiters
           J == [s \in Sem |-> LiveWaiters(s)]
<1>1. DOMAIN semWaiters = Sem /\ DOMAIN g = Sem
      /\ \A s \in Sem : g[s] = Subsequence(semWaiters[s], LiveWaiters(s))
  BY DEF TypeOK, PrunedWaiters
<1>2. ASSUME NEW s \in Sem
      PROVE  /\ g[s] \in Seq(Owner)
             /\ ExistsBijection(Occ(g[s], {o}), Occ(semWaiters[s], {o}) \cap J[s])
  <2>1. semWaiters[s] \in Seq(Owner) /\ LiveWaiters(s) \in SUBSET DOMAIN semWaiters[s]
    BY FirstLiveFacts
  <2>2. /\ Subsequence(semWaiters[s], LiveWaiters(s)) \in Seq(Owner)
        /\ ExistsBijection(Occ(Subsequence(semWaiters[s], LiveWaiters(s)), {o}),
                           Occ(semWaiters[s], {o}) \cap LiveWaiters(s))
    BY <2>1, SubsequenceFacts, OccSubsequence
  <2>. QED  BY <1>1, <2>2
<1>3. g \in [Sem -> Seq(Owner)]
  BY <1>1, <1>2 DEF PrunedWaiters
<1>4. /\ Found(semWaiters, {o}) = {} => Found(g, {o}) = {}
      /\ \A k \in Sem : \A n \in Occ(semWaiters[k], {o}) :
              Found(semWaiters, {o}) = {<<k, n>>} =>
                IF n \in J[k] THEN Single(Found(g, {o})) ELSE Found(g, {o}) = {}
  <2> HIDE DEF g, J
  <2>1. DOMAIN g = DOMAIN semWaiters
        /\ \A k \in DOMAIN semWaiters :
              ExistsBijection(Occ(g[k], {o}), Occ(semWaiters[k], {o}) \cap J[k])
    BY <1>1, <1>2
  <2>2. \A k \in DOMAIN semWaiters : \A n \in Occ(semWaiters[k], {o}) :
          Found(semWaiters, {o}) = {<<k, n>>} =>
            IF n \in J[k] THEN Single(Found(g, {o})) ELSE Found(g, {o}) = {}
    BY <2>1, FamilyKeeps
  <2>3. Found(semWaiters, {o}) = {} => Found(g, {o}) = {}
    BY <2>1, FamilyKeeps
  <2>. QED  BY <1>1, <2>2, <2>3
<1>5. ASSUME Single(Found(semWaiters, {o}))
      PROVE  /\ Found(g, {o}) = {} \/ Single(Found(g, {o}))
             /\ ~IsCancelled(o) => Single(Found(g, {o}))
  <2>1. \E k \in Sem : \E n \in Occ(semWaiters[k], {o}) : Found(semWaiters, {o}) = {<<k, n>>}
    <3>1. PICK z \in Found(semWaiters, {o}) : Found(semWaiters, {o}) = {z}
      BY <1>5 DEF Single
    <3>2. z = <<z[1], z[2]>> /\ z[1] \in Sem /\ z[2] \in Occ(semWaiters[z[1]], {o})
      BY <1>1, FoundMember
    <3>. QED  BY <3>1, <3>2
  <2>11. PICK k \in Sem : \E n \in Occ(semWaiters[k], {o}) : Found(semWaiters, {o}) = {<<k, n>>}
    BY <2>1
  <2>12. PICK n \in Occ(semWaiters[k], {o}) : Found(semWaiters, {o}) = {<<k, n>>}
    BY <2>11
  <2>2. IF n \in J[k] THEN Single(Found(g, {o})) ELSE Found(g, {o}) = {}
    BY <1>4, <2>12
  <2>3. ~IsCancelled(o) => n \in J[k]
    BY DEF LiveWaiters, Occ
  <2> HIDE DEF J, g
  <2>. QED  BY <2>2, <2>3
<1>. QED  BY <1>3, <1>4, <1>5

-------------------------------------------------------------------------------
(* A Gather or Race registers once for every key it waits for.                 *)
LEMMA FoundPartition ==
  ASSUME NEW f, NEW X, NEW I, NEW ks, \A i \in I : ks[i] \in DOMAIN f,
         \A k \in DOMAIN f : ExistsBijection(Occ(f[k], X), {i \in I : ks[i] = k})
  PROVE  ExistsBijection(Found(f, X), I)
<1> DEFINE On(k) == {i \in I : ks[i] = k}
           B(k) == CHOOSE b : b \in Bijection(Occ(f[k], X), On(k))
           c == [z \in Found(f, X) |-> B(z[1])[z[2]]]
<1>1. ASSUME NEW k \in DOMAIN f
      PROVE  /\ B(k) \in [Occ(f[k], X) -> On(k)]
             /\ \A a, b \in Occ(f[k], X) : B(k)[a] = B(k)[b] => a = b
             /\ \A b \in On(k) : \E a \in Occ(f[k], X) : B(k)[a] = b
  <2>1. B(k) \in Bijection(Occ(f[k], X), On(k))
    BY DEF ExistsBijection
  <2> HIDE DEF B, On
  <2>. QED  BY <2>1 DEF Bijection, Injection, Surjection, IsInjective
<1> HIDE DEF B
<1>2. ASSUME NEW z \in Found(f, X)
      PROVE  /\ z[1] \in DOMAIN f /\ z[2] \in Occ(f[z[1]], X) /\ z = <<z[1], z[2]>>
             /\ c[z] = B(z[1])[z[2]] /\ c[z] \in I /\ ks[c[z]] = z[1]
  BY <1>1, FoundMember
<1>3. c \in [Found(f, X) -> I]
  BY <1>2
<1>4. ASSUME NEW y \in Found(f, X), NEW z \in Found(f, X), c[y] = c[z] PROVE y = z
  <2>1. y[1] = z[1]
    BY <1>2, <1>4
  <2>2. y[2] = z[2]
    BY <1>1, <1>2, <1>4, <2>1
  <2>. QED  BY <1>2, <2>1, <2>2
<1>5. ASSUME NEW i \in I PROVE \E z \in Found(f, X) : c[z] = i
  <2>1. PICK a \in Occ(f[ks[i]], X) : B(ks[i])[a] = i
    BY <1>1
  <2>2. <<ks[i], a>> \in Found(f, X)
    BY FoundMember
  <2>. QED  BY <1>2, <2>1, <2>2
<1> HIDE DEF c
<1>6. c \in Bijection(Found(f, X), I)
  BY <1>3, <1>4, <1>5 DEF Bijection, Injection, Surjection, IsInjective
<1>. QED  BY <1>6 DEF ExistsBijection

Parked(ks, I, r) ==
  [w \in Waitable |-> waiters[w] \o [n \in 1..Cardinality({i \in I : ks[i] = w}) |-> r]]

(* register_waiter: adding one registration per key leaves every other        *)
(* registration where it was, and adds as many of this one as there are       *)
(* keys.                                                                      *)
LEMMA Registered ==
  ASSUME TypeOK, NEW m \in Nat, NEW ks \in [1..m -> Waitable], NEW I \in SUBSET (1..m),
         NEW r \in Registration
  PROVE  /\ Parked(ks, I, r) \in [Waitable -> Seq(Registration)]
         /\ IsFiniteSet(I)
         /\ \A X : /\ r \notin X => Found(Parked(ks, I, r), X) = Found(waiters, X)
                   /\ r \in X /\ Found(waiters, X) = {}
                        => ExistsBijection(Found(Parked(ks, I, r), X), I)
<1> DEFINE On(w) == {i \in I : ks[i] = w}
           T(w) == [n \in 1..Cardinality(On(w)) |-> r]
           g == Parked(ks, I, r)
<1>0. g = [w \in Waitable |-> waiters[w] \o T(w)]
  BY DEF Parked
<1>1. DOMAIN waiters = Waitable /\ DOMAIN g = Waitable
      /\ \A w \in Waitable : waiters[w] \in Seq(Registration) /\ g[w] = waiters[w] \o T(w)
  BY <1>0 DEF TypeOK
<1>2. IsFiniteSet(I)
  <2>1. 1 \in Int /\ m \in Int
    OBVIOUS
  <2>2. IsFiniteSet(1..m)
    BY <2>1, FS_Interval
  <2>. QED  BY <2>2, FS_Subset
<1>3. ASSUME NEW w \in Waitable
      PROVE  /\ Cardinality(On(w)) \in Nat
             /\ T(w) \in Seq(Registration) /\ DOMAIN T(w) = 1..Cardinality(On(w))
             /\ ExistsBijection(1..Cardinality(On(w)), On(w))
  <2>1. IsFiniteSet(On(w))
    BY <1>2, FS_Subset
  <2> HIDE DEF On
  <2>2. Cardinality(On(w)) \in Nat /\ ExistsBijection(1..Cardinality(On(w)), On(w))
    BY <2>1, FS_CardinalityType
  <2>. QED  BY <2>2
<1> HIDE DEF g, T, On
<1>4. ASSUME NEW w \in Waitable, NEW X
      PROVE  /\ g[w] \in Seq(Registration)
             /\ r \notin X => Occ(g[w], X) = Occ(waiters[w], X)
             /\ r \in X /\ Occ(waiters[w], X) = {} => ExistsBijection(Occ(g[w], X), On(w))
  <2>1. /\ waiters[w] \o T(w) \in Seq(Registration)
        /\ Occ(T(w), X) = {} => Occ(waiters[w] \o T(w), X) = Occ(waiters[w], X)
        /\ Occ(waiters[w], X) = {} => ExistsBijection(Occ(waiters[w] \o T(w), X), Occ(T(w), X))
    BY <1>1, <1>3, OccConcat
  <2>2. r \notin X => Occ(T(w), X) = {}
    BY <1>3 DEF Occ, T
  <2>3. r \in X => Occ(T(w), X) = 1..Cardinality(On(w))
    BY <1>3 DEF Occ, T
  <2>4. ASSUME r \in X, Occ(waiters[w], X) = {} PROVE ExistsBijection(Occ(g[w], X), On(w))
    <3>1. ExistsBijection(Occ(g[w], X), Occ(T(w), X))
      BY <1>1, <2>1, <2>4
    <3>2. ExistsBijection(Occ(T(w), X), On(w))
      BY <1>3, <2>3, <2>4
    <3>. QED  BY <3>1, <3>2, Fun_ExistsBijTransitive
  <2>. QED  BY <1>1, <2>1, <2>2, <2>4
<1>5. g \in [Waitable -> Seq(Registration)]
  BY <1>0, <1>4
<1>6. ASSUME NEW X, r \notin X PROVE Found(g, X) = Found(waiters, X)
  <2>1. \A z \in Found(g, X) : z \in Found(waiters, X)
    BY <1>1, <1>4, <1>6, FoundMember
  <2>2. \A z \in Found(waiters, X) : z \in Found(g, X)
    BY <1>1, <1>4, <1>6, FoundMember
  <2>. QED  BY <2>1, <2>2
<1>7. ASSUME NEW X, r \in X, Found(waiters, X) = {} PROVE ExistsBijection(Found(g, X), I)
  <2>1. \A w \in Waitable : Occ(waiters[w], X) = {}
    BY <1>1, <1>7, FoundEmpty
  <2>2. \A w \in DOMAIN g : ExistsBijection(Occ(g[w], X), {i \in I : ks[i] = w})
    BY <1>1, <1>4, <1>7, <2>1 DEF On
  <2>3. \A i \in I : ks[i] \in DOMAIN g
    BY <1>1
  <2>. QED  BY <2>2, <2>3, FoundPartition
<1>. QED  BY <1>2, <1>5, <1>6, <1>7 DEF g

-------------------------------------------------------------------------------
(* Where the continuation of every owner is.                                   *)

Running(o) == cur = o /\ pc \in {"user", "effect"}
At(o, place) ==
  Site(place, Running(o), Found(ready, QueuedFor(o)), Found(waiters, WaitsOf(o)),
       Found(waiters, JoinsOf(o)), Found(semWaiters, {o}))

Unfinished(o) == o = Root \/ status[o] \in {"pending", "running"}
Fits(o, place) ==
  /\ Unfinished(o) => place # "nowhere"
  /\ place # "nowhere" => Unfinished(o) \/ IsCancelled(o)
Located(o) == \E place \in PlaceName \cup {"nowhere"} : At(o, place) /\ Fits(o, place)
Placed == pc \notin Ended => \A o \in Owner : Located(o)

JoinCounts ==
  \A o \in Owner :
    Counted(Found(waiters, GathersOf(o)), Found(waiters, RacesOf(o)), join[o].remaining)

(* Placeholders are at their own priority, and only they are claimed; a permit *)
(* travels for a semaphore.                                                    *)
InOrder(heapOf) ==
  \A p \in Priority : \A n \in DOMAIN heapOf[p] :
    /\ heapOf[p][n].kind = "wait_external" => p = PRIORITY_EXTERNAL_WAIT
    /\ heapOf[p][n].claimed => heapOf[p][n].kind = "wait_external"
    /\ heapOf[p][n].kind = "sem_resume" => heapOf[p][n].key \in Sem
HeapInOrder == InOrder(ready)

(* What pick_next holds, it holds for live work; it blocks holding nothing,    *)
(* with a placeholder at the head of its priority.                             *)
HeldForWork ==
  /\ \A p \in Priority : held[p] <= Len(ready[p])
  /\ (\E p \in Priority : held[p] > 0) => pc = "pop" /\ has_live_ready_entry(FALSE)
  /\ pc \in {"placeholder", "afterPlaceholder"} =>
       /\ ready[PRIORITY_EXTERNAL_WAIT] # <<>>
       /\ ready[PRIORITY_EXTERNAL_WAIT][1].kind = "wait_external"

Frame == TypeOK /\ HeapInOrder /\ HeldForWork
IInv == Frame /\ Placed /\ JoinCounts /\ pc # "none"

-------------------------------------------------------------------------------
(* What the changes of the heap keep.                                          *)
Heaps == [Priority -> Seq(Entry)]

(* enqueue: every entry keeps its place in its bucket, and the new one is     *)
(* behind them.                                                               *)
LEMMA EnqueueKeeps ==
  ASSUME NEW h \in Heaps, NEW e \in Entry, NEW p \in Priority
  PROVE  /\ Enqueue(h, e, p) \in Heaps
         /\ \A q \in Priority : Len(h[q]) <= Len(Enqueue(h, e, p)[q])
         /\ \A q \in Priority : \A n \in DOMAIN h[q] : Enqueue(h, e, p)[q][n] = h[q][n]
         /\ /\ InOrder(h)
            /\ e.kind = "wait_external" => p = PRIORITY_EXTERNAL_WAIT
            /\ e.claimed => e.kind = "wait_external"
            /\ e.kind = "sem_resume" => e.key \in Sem
            => InOrder(Enqueue(h, e, p))
         /\ \A X : /\ e \notin X => Found(Enqueue(h, e, p), X) = Found(h, X)
                   /\ e \in X /\ Found(h, X) = {} => Single(Found(Enqueue(h, e, p), X))
<1> DEFINE g == Enqueue(h, e, p)
<1>1. /\ g[p] = Append(h[p], e) /\ h[p] \in Seq(Entry) /\ DOMAIN g = Priority
      /\ \A q \in Priority \ {p} : g[q] = h[q]
      /\ \A q \in Priority : h[q] \in Seq(Entry)
  BY DEF Enqueue, Heaps
<1>2. /\ Len(g[p]) = Len(h[p]) + 1 /\ g[p][Len(h[p]) + 1] = e /\ Len(h[p]) \in Nat
      /\ \A n \in 1..Len(h[p]) : g[p][n] = h[p][n]
      /\ DOMAIN g[p] = 1..(Len(h[p]) + 1) /\ DOMAIN h[p] = 1..Len(h[p])
  BY <1>1
<1>3. /\ g \in Heaps
      /\ \A X : /\ e \notin X => Found(g, X) = Found(h, X)
                /\ e \in X /\ Found(h, X) = {} => Single(Found(g, X))
  <2>1. h \in [Priority -> Seq(Entry)] /\ g = [h EXCEPT ![p] = Append(@, e)]
    BY DEF Heaps, Enqueue
  <2>2. ASSUME NEW X
        PROVE  LET f == [h EXCEPT ![p] = Append(@, e)] IN
               /\ f \in [Priority -> Seq(Entry)]
               /\ e \notin X => Found(f, X) = Found(h, X)
               /\ e \in X /\ Found(h, X) = {} => Single(Found(f, X))
    <3> HIDE DEF g
    <3>. QED  BY <2>1, FamilyAppend
  <2> HIDE DEF g
  <2>. QED  BY <2>1, <2>2 DEF Heaps
<1> HIDE DEF g
<1>4. \A q \in Priority : Len(h[q]) <= Len(g[q])
  BY <1>1, <1>2
<1>5. \A q \in Priority : \A n \in DOMAIN h[q] : g[q][n] = h[q][n]
  BY <1>1, <1>2
<1>6. ASSUME InOrder(h), e.kind = "wait_external" => p = PRIORITY_EXTERNAL_WAIT,
             e.claimed => e.kind = "wait_external", e.kind = "sem_resume" => e.key \in Sem
      PROVE  InOrder(g)
  <2>1. ASSUME NEW q \in Priority, NEW n \in DOMAIN g[q]
        PROVE  (n \in DOMAIN h[q] /\ g[q][n] = h[q][n]) \/ (q = p /\ g[q][n] = e)
    BY <1>1, <1>2
  <2>. QED  BY <1>6, <2>1 DEF InOrder
<1>. QED  BY <1>3, <1>4, <1>5, <1>6 DEF g

(* heappop: the entries of the other buckets and those ahead of the popped    *)
(* one stay, those behind it move up.                                         *)
LEMMA WithoutKeeps ==
  ASSUME NEW h \in Heaps, NEW p \in Priority, NEW x \in DOMAIN h[p]
  PROVE  LET g == [h EXCEPT ![p] = RemoveAt(@, x)] IN
         /\ g \in Heaps
         /\ Len(g[p]) = Len(h[p]) - 1
         /\ \A q \in Priority \ {p} : g[q] = h[q]
         /\ \A n \in 1..(Len(h[p]) - 1) : g[p][n] = IF n < x THEN h[p][n] ELSE h[p][n + 1]
         /\ InOrder(h) => InOrder(g)
         /\ \A X : /\ h[p][x] \notin X => ExistsBijection(Found(g, X), Found(h, X))
                   /\ h[p][x] \in X /\ Single(Found(h, X)) => Found(g, X) = {}
<1> DEFINE g == [h EXCEPT ![p] = RemoveAt(@, x)]
<1>1. /\ h[p] \in Seq(Entry) /\ g[p] = RemoveAt(h[p], x) /\ \A q \in Priority \ {p} : g[q] = h[q]
  BY DEF Heaps
<1>2. /\ g \in Heaps
      /\ \A X : /\ h[p][x] \notin X => ExistsBijection(Found(g, X), Found(h, X))
                /\ h[p][x] \in X /\ Single(Found(h, X)) => Found(g, X) = {}
  BY FamilyRemove DEF Heaps
<1> HIDE DEF g
<1>3. /\ Len(g[p]) = Len(h[p]) - 1 /\ g[p] \in Seq(Entry) /\ Len(h[p]) \in Nat
      /\ \A n \in 1..(Len(h[p]) - 1) : g[p][n] = IF n < x THEN h[p][n] ELSE h[p][n + 1]
  <2>1. /\ RemoveAt(h[p], x) \in Seq(Entry) /\ Len(RemoveAt(h[p], x)) = Len(h[p]) - 1
        /\ \A n \in 1..(Len(h[p]) - 1) :
              RemoveAt(h[p], x)[n] = IF n < x THEN h[p][n] ELSE h[p][n + 1]
    BY <1>1, RemoveAtFacts
  <2>2. Len(h[p]) \in Nat
    BY <1>1
  <2>. QED  BY <1>1, <2>1, <2>2
<1>4. ASSUME InOrder(h) PROVE InOrder(g)
  <2>1. ASSUME NEW q \in Priority, NEW n \in DOMAIN g[q]
        PROVE  \E m \in DOMAIN h[q] : g[q][n] = h[q][m]
    <3>1. CASE q # p
      BY <1>1, <3>1
    <3>2. CASE q = p
      <4>1. n \in 1..(Len(h[p]) - 1) /\ DOMAIN h[p] = 1..Len(h[p])
        BY <1>1, <1>3, <3>2
      <4>2. n \in DOMAIN h[p] /\ n + 1 \in DOMAIN h[p]
        BY <1>3, <4>1
      <4>. QED  BY <1>3, <3>2, <4>1, <4>2
    <3>. QED  BY <3>1, <3>2
  <2>. QED  BY <1>4, <2>1 DEF InOrder
<1>. QED  BY <1>1, <1>2, <1>3, <1>4 DEF g

(* Waking the waiters of a waitable only appends to the ready heap, and       *)
(* claims placeholders without moving them.                                   *)
LEMMA WakeKeeps ==
  ASSUME TypeOK, HeapInOrder, NEW k \in Waitable, NEW st \in Terminal
  PROVE  /\ ReadyAfter(k, st) \in Heaps
         /\ InOrder(ReadyAfter(k, st))
         /\ \A p \in Priority :
              /\ Len(ready[p]) <= Len(ReadyAfter(k, st)[p])
              /\ \A n \in DOMAIN ready[p] :
                   /\ ReadyAfter(k, st)[p][n].kind = ready[p][n].kind
                   /\ ReadyAfter(k, st)[p][n].owner = ready[p][n].owner
                   /\ ReadyAfter(k, st)[p][n].key = ready[p][n].key
         /\ WaitersAfter(k, st) \in [Waitable -> Seq(Registration)]
         /\ JoinAfter(k, st) \in [Owner -> [keys : SUBSET Waitable, remaining : Int]]
         /\ [status EXCEPT ![k] = st] \in
              [Waitable -> {"unborn", "pending", "running", "swept"} \cup Terminal]
<1> DEFINE R == ReadyAfter(k, st)
           kind == IF st = "completed" THEN "resume" ELSE "raise"
<1>1. /\ R \in Heaps
      /\ \A p \in Priority :
           /\ Len(ready[p]) <= Len(R[p])
           /\ \A n \in 1..Len(ready[p]) :
                R[p][n] = IF Claims(ready[p][n], k, st) THEN [ready[p][n] EXCEPT !.claimed = TRUE]
                          ELSE ready[p][n]
           /\ \A n \in (Len(ready[p]) + 1)..Len(R[p]) :
                \E i \in Fired(k, st) : R[p][n] = MkEntry(kind, waiters[k][i].owner)
  BY ReadyWoken DEF Heaps
<1> HIDE DEF R
<1>2. \A p \in Priority :
        /\ ready[p] \in Seq(Entry) /\ R[p] \in Seq(Entry) /\ Len(ready[p]) \in Nat
        /\ DOMAIN ready[p] = 1..Len(ready[p]) /\ DOMAIN R[p] = 1..Len(R[p]) /\ Len(R[p]) \in Nat
        /\ \A n \in DOMAIN ready[p] : ready[p][n] \in Entry
  BY <1>1 DEF Heaps, TypeOK
<1>3. ASSUME NEW p \in Priority, NEW n \in DOMAIN ready[p]
      PROVE  /\ R[p][n].kind = ready[p][n].kind /\ R[p][n].owner = ready[p][n].owner
             /\ R[p][n].key = ready[p][n].key
             /\ R[p][n].claimed => ready[p][n].claimed \/ ready[p][n].kind = "wait_external"
  <2>1. R[p][n] = IF Claims(ready[p][n], k, st) THEN [ready[p][n] EXCEPT !.claimed = TRUE]
                  ELSE ready[p][n]
    BY <1>1, <1>2
  <2>2. ready[p][n] \in Entry
    BY <1>2
  <2>. QED  BY <2>1, <2>2 DEF Claims, Entry
<1>4. ASSUME NEW p \in Priority, NEW n \in DOMAIN R[p], n \notin DOMAIN ready[p]
      PROVE  R[p][n].kind \in {"resume", "raise"} /\ ~R[p][n].claimed
  <2>1. n \in (Len(ready[p]) + 1)..Len(R[p])
    BY <1>2, <1>4
  <2>2. PICK i \in Fired(k, st) : R[p][n] = MkEntry(kind, waiters[k][i].owner)
    BY <1>1, <2>1
  <2>. QED  BY <2>2 DEF MkEntry
<1>5. InOrder(R)
  BY <1>3, <1>4 DEF InOrder, HeapInOrder
<1>6. JoinAfter(k, st) \in [Owner -> [keys : SUBSET Waitable, remaining : Int]]
  <2>1. ASSUME NEW o \in Owner
        PROVE  /\ NoJoin \in [keys : SUBSET Waitable, remaining : Int]
               /\ [join[o] EXCEPT !.remaining = @ - Cardinality(GatheredOn(k, o))]
                    \in [keys : SUBSET Waitable, remaining : Int]
    <3>1. Cardinality(GatheredOn(k, o)) \in Nat
      BY OnKey, FS_Subset, FS_CardinalityType DEF GatheredOn
    <3>2. join[o] \in [keys : SUBSET Waitable, remaining : Int]
      BY DEF TypeOK
    <3>. QED  BY <3>1, <3>2 DEF NoJoin
  <2>. QED  BY <2>1 DEF JoinAfter
<1>7. [status EXCEPT ![k] = st] \in
        [Waitable -> {"unborn", "pending", "running", "swept"} \cup Terminal]
  BY DEF TypeOK
<1>8. WaitersAfter(k, st) \in [Waitable -> Seq(Registration)]
  BY WaitersWoken
<1>. QED  BY <1>1, <1>3, <1>5, <1>6, <1>7, <1>8 DEF R

(* The placeholders of a Gather or Race go to their own priority.              *)
LEMMA ShieldsAdded ==
  ASSUME TypeOK, NEW t \in Seq(Entry),
         \A n \in DOMAIN t : t[n].kind = "wait_external" /\ ~t[n].claimed
  PROVE  LET g == [ready EXCEPT ![PRIORITY_EXTERNAL_WAIT] = @ \o t] IN
         /\ g \in Heaps
         /\ HeapInOrder => InOrder(g)
         /\ \A o : Found(g, QueuedFor(o)) = Found(ready, QueuedFor(o))
<1> DEFINE E == PRIORITY_EXTERNAL_WAIT
           g == [ready EXCEPT ![E] = @ \o t]
<1>1. /\ E \in Priority /\ DOMAIN g = Priority /\ DOMAIN ready = Priority
      /\ g[E] = ready[E] \o t /\ \A q \in Priority \ {E} : g[q] = ready[q]
      /\ \A q \in Priority : ready[q] \in Seq(Entry)
  BY DEF TypeOK, Priority
<1>2. /\ Len(ready[E]) \in Nat /\ Len(t) \in Nat /\ DOMAIN t = 1..Len(t)
      /\ g[E] \in Seq(Entry)
      /\ DOMAIN g[E] = 1..(Len(ready[E]) + Len(t)) /\ DOMAIN ready[E] = 1..Len(ready[E])
      /\ \A n \in 1..Len(ready[E]) : g[E][n] = ready[E][n]
      /\ \A n \in 1..Len(t) : g[E][Len(ready[E]) + n] = t[n]
  BY <1>1
<1>3. g \in Heaps
  BY <1>1, <1>2 DEF Heaps
<1> HIDE DEF g, E
<1>4. ASSUME HeapInOrder PROVE InOrder(g)
  <2>1. ASSUME NEW q \in Priority, NEW n \in DOMAIN g[q]
        PROVE  \/ n \in DOMAIN ready[q] /\ g[q][n] = ready[q][n]
               \/ q = E /\ \E m \in DOMAIN t : g[q][n] = t[m]
    <3>1. CASE q # E
      BY <1>1, <3>1
    <3>2. CASE q = E /\ n <= Len(ready[E])
      BY <1>2, <3>2
    <3>3. CASE q = E /\ ~(n <= Len(ready[E]))
      <4>1. n - Len(ready[E]) \in 1..Len(t) /\ n = Len(ready[E]) + (n - Len(ready[E]))
        BY <1>2, <3>3
      <4>. QED  BY <1>2, <3>3, <4>1
    <3>. QED  BY <3>1, <3>2, <3>3
  <2>. QED  BY <1>4, <2>1 DEF HeapInOrder, InOrder, E
<1>5. ASSUME NEW o PROVE Found(g, QueuedFor(o)) = Found(ready, QueuedFor(o))
  <2>1. Occ(t, QueuedFor(o)) = {}
    BY DEF Occ, QueuedFor
  <2>2. Occ(g[E], QueuedFor(o)) = Occ(ready[E], QueuedFor(o))
    BY <1>1, <2>1, OccConcat
  <2>3. \A q \in Priority : Occ(g[q], QueuedFor(o)) = Occ(ready[q], QueuedFor(o))
    BY <1>1, <2>2
  <2>4. \A z \in Found(g, QueuedFor(o)) : z \in Found(ready, QueuedFor(o))
    BY <1>1, <2>3, FoundMember
  <2>5. \A z \in Found(ready, QueuedFor(o)) : z \in Found(g, QueuedFor(o))
    BY <1>1, <2>3, FoundMember
  <2>. QED  BY <2>4, <2>5
<1>. QED  BY <1>3, <1>4, <1>5 DEF g, E

-------------------------------------------------------------------------------
(* The frame: types, shields and what pick_next holds.                         *)
LEMMA NothingHeld ==
  ASSUME Frame, pc # "pop" PROVE \A p \in Priority : held[p] = 0
<1>1. \A p \in Priority : held[p] \in Nat /\ ~(held[p] > 0)
  BY DEF Frame, TypeOK, HeldForWork
<1>. QED  BY <1>1

(* Outside a pass over the heap (nothing held back) the frame is the types    *)
(* and the order of the heap.                                                 *)
LEMMA FrameFree ==
  ASSUME TypeOK', HeapInOrder', \A p \in Priority : held'[p] = 0,
         pc' \notin {"placeholder", "afterPlaceholder"}
  PROVE  Frame'
<1>1. \A p \in Priority : held'[p] <= Len(ready'[p])
  BY DEF TypeOK
<1>2. \A p \in Priority : ~(held'[p] > 0)
  OBVIOUS
<1>. QED  BY <1>1, <1>2 DEF Frame, HeldForWork

(* The entries the scheduler makes, and the priorities it gives them, are in  *)
(* range.                                                                     *)
LEMMA EntriesTyped ==
  ASSUME TypeOK
  PROVE  /\ \A o \in Owner : TaskPriority(o) \in Priority
         /\ \A kind \in {"new", "resume", "raise", "sem_resume"} : \A o \in Owner :
              MkEntry(kind, o) \in Entry /\ MkEntry(kind, o).kind = kind
              /\ ~MkEntry(kind, o).claimed
         /\ \A o \in Owner, e \in Waitable :
              Placeholder(o, e) \in Entry /\ Placeholder(o, e).kind = "wait_external"
              /\ ~Placeholder(o, e).claimed
         /\ ready \in Heaps /\ cur \in Owner
BY DEF TypeOK, TaskPriority, MkEntry, Placeholder, Entry, Heaps, Priority

(* The sweep of unreachable outcomes and an allocation keep the status map    *)
(* well formed.                                                               *)
LEMMA StatusTyped ==
  ASSUME TypeOK, NEW k \in Waitable
  PROVE  /\ Swept \in [Waitable -> {"unborn", "pending", "running", "swept"} \cup Terminal]
         /\ (Allocate(k) => status' \in [Waitable -> {"unborn", "pending", "running", "swept"} \cup Terminal]
                            /\ handles' \subseteq Waitable)
BY DEF TypeOK, Swept, Allocate

(* Spawn keeps the heap well formed: both the child and the spawner are       *)
(* requeued.                                                                  *)
LEMMA SpawnFrame ==
  ASSUME Frame, NEW t \in Task, NEW prio \in SpawnPriorities, NEW daemon \in DaemonFlags,
         Spawn(t, prio, daemon)
  PROVE  Frame'
<1>1. TypeOK /\ pc # "pop" /\ t \in Owner /\ t \in Waitable /\ prio \in Priority /\ daemon \in BOOLEAN
  BY Parameters DEF Frame, Spawn, Handle, Owner, Waitable
<1>2. DEFINE g == Enqueue(ready, MkEntry("new", t), prio)
<1>3. g \in Heaps /\ InOrder(g)
  BY <1>1, EntriesTyped, EnqueueKeeps DEF Frame, HeapInOrder
<1>4. ready' \in Heaps /\ InOrder(ready')
  <2> HIDE DEF g
  <2>1. ready' = Enqueue(g, MkEntry("resume", cur), TaskPriority(cur))
    BY DEF Spawn, g
  <2>. QED  BY <1>1, <1>3, <2>1, EntriesTyped, EnqueueKeeps
<1>5. TypeOK'
  BY <1>1, <1>4, StatusTyped DEF TypeOK, Spawn, Suspend, parked, sems, ext, Heaps
<1>. QED  BY <1>1, <1>4, <1>5, NothingHeld, FrameFree DEF HeapInOrder, Spawn, Suspend

(* An effect answered at once returns to the program and touches no queue.    *)
LEMMA AnswerFrame ==
  ASSUME Frame, pc # "pop", Answer PROVE Frame'
<1>1. TypeOK'
  BY DEF Frame, TypeOK, Answer, Reply, objs, parked, heap, sems, ext
<1>. QED  BY <1>1, NothingHeld, FrameFree DEF Frame, HeapInOrder, Answer, Reply, heap

(* Wait, for a finished, a pending and an external waitable.                  *)
LEMMA WaitFrame ==
  ASSUME Frame, NEW k \in Waitable, NEW prio \in WaitPriorities, Wait(k, prio)
  PROVE  Frame'
<1>1. TypeOK /\ pc # "pop" /\ prio \in Priority \cup {OwnPriority}
  BY Parameters DEF Frame, Wait, Handle
<1>2. CASE Answer
  BY <1>1, <1>2, AnswerFrame
<1>3. CASE WaitPending(k, prio)
  <2>1. cur \in Owner /\ waiters \in [Waitable -> Seq(Registration)]
    BY <1>1 DEF TypeOK
  <2>2. waiters' \in [Waitable -> Seq(Registration)]
    <3>1. \A type \in {"wait", "wait_external"} : \A wake \in Priority \cup {OwnPriority} :
             [type |-> type, owner |-> cur, wake |-> wake] \in Registration
      BY <2>1 DEF Registration
    <3>2. \E type \in {"wait", "wait_external"} : \E wake \in Priority \cup {OwnPriority} :
             Park(k, type, wake)
      BY <1>1, <1>3 DEF WaitPending
    <3>3. PICK r \in Registration : waiters' = [waiters EXCEPT ![k] = Append(@, r)]
      BY <3>1, <3>2 DEF Park
    <3>4. Append(waiters[k], r) \in Seq(Registration)
      BY <2>1
    <3>. QED  BY <2>1, <3>3, <3>4
  <2>3. ready' \in Heaps /\ InOrder(ready')
    <3>1. ready \in Heaps /\ InOrder(ready)
      BY EntriesTyped DEF Frame, HeapInOrder
    <3>2. Enqueue(ready, Placeholder(cur, k), PRIORITY_EXTERNAL_WAIT) \in Heaps
          /\ InOrder(Enqueue(ready, Placeholder(cur, k), PRIORITY_EXTERNAL_WAIT))
      <4>1. PRIORITY_EXTERNAL_WAIT \in Priority
        BY DEF Priority
      <4>. QED  BY <1>1, <3>1, <4>1, EntriesTyped, EnqueueKeeps
    <3>. QED  BY <1>3, <3>1, <3>2 DEF WaitPending
  <2>4. TypeOK'
    BY <1>1, <1>3, <2>2, <2>3 DEF TypeOK, WaitPending, Suspend, objs, sems, ext, Heaps
  <2>. QED  BY <1>1, <1>3, <2>3, <2>4, NothingHeld, FrameFree DEF WaitPending, Suspend, HeapInOrder
<1>. QED  BY <1>2, <1>3 DEF Wait

(* The argument of Gather and Race is a list of waitables.                    *)
LEMMA KeyListTyped ==
  ASSUME TypeOK, NEW ks \in KeyLists
  PROVE  \E m \in Nat : ks \in [1..m -> Waitable]
<1> DEFINE Allowed == {k \in handles : <<cur, k>> \in MayWait}
<1>1. Allowed \subseteq Waitable /\ \A n \in 0..MaxKeys : n \in Nat
  BY Parameters DEF TypeOK
<1>2. PICK n \in 0..MaxKeys : ks \in [1..n -> Allowed]
  BY DEF KeyLists
<1> HIDE DEF Allowed
<1>. QED  BY <1>1, <1>2

(* What registering a Gather or Race changes.                                  *)
Registering(type) == [type |-> type, owner |-> cur, wake |-> OwnPriority]

JoinRecorded(m, ks, I, type, remaining) ==
  /\ waiters' \in [Waitable -> Seq(Registration)]
  /\ ready' \in Heaps /\ InOrder(ready')
  /\ join' \in [Owner -> [keys : SUBSET Waitable, remaining : Int]]
  /\ join'[cur].remaining = remaining /\ join'[cur].keys = {ks[i] : i \in 1..m}
  /\ \A o \in Owner \ {cur} : join'[o] = join[o]
  /\ \A o : Found(ready', QueuedFor(o)) = Found(ready, QueuedFor(o))
  /\ Registering(type) \in Registration /\ IsFiniteSet(I)
  /\ \A X : /\ Registering(type) \notin X => Found(waiters', X) = Found(waiters, X)
            /\ Registering(type) \in X /\ Found(waiters, X) = {}
                 => ExistsBijection(Found(waiters', X), I)

(* Parking a Gather or a Race: types and order of the heap, and the record    *)
(* kept of the join.                                                          *)
LEMMA JoinRegistered ==
  ASSUME TypeOK, HeapInOrder, NEW m \in Nat, NEW ks \in [1..m -> Waitable], NEW I \in SUBSET (1..m),
         NEW type \in {"gather", "race"}, NEW remaining \in Int,
         RegisterJoin(type, ks, I, remaining)
  PROVE  JoinRecorded(m, ks, I, type, remaining)
<1> DEFINE r == [type |-> type, owner |-> cur, wake |-> OwnPriority]
           On(w) == {i \in I : ks[i] = w}
           shields == [i \in DOMAIN ks |-> Placeholder(cur, ks[i])]
           J == {i \in I : ks[i] \in ExtPromise}
           t == Subsequence(shields, J)
<1>1. /\ waiters' = [w \in Waitable |-> waiters[w] \o [n \in 1..Cardinality(On(w)) |-> r]]
      /\ ready' = [ready EXCEPT ![PRIORITY_EXTERNAL_WAIT] = @ \o t]
      /\ join' = [join EXCEPT ![cur] = [keys |-> {ks[i] : i \in DOMAIN ks}, remaining |-> remaining]]
  BY DEF RegisterJoin
<1>2. r \in Registration /\ cur \in Owner
  BY DEF TypeOK, Registration
<1>3. DOMAIN ks = 1..m /\ J \in SUBSET DOMAIN shields /\ DOMAIN shields = 1..m
  OBVIOUS
<1>4. shields \in Seq(Entry)
        /\ \A i \in 1..m : shields[i].kind = "wait_external" /\ ~shields[i].claimed
  <2>1. \A i \in 1..m : /\ Placeholder(cur, ks[i]) \in Entry
                        /\ Placeholder(cur, ks[i]).kind = "wait_external"
                        /\ ~Placeholder(cur, ks[i]).claimed
    BY <1>2, EntriesTyped
  <2>. QED  BY <1>3, <2>1
<1>5. t \in Seq(Entry) /\ \A n \in DOMAIN t : t[n].kind = "wait_external" /\ ~t[n].claimed
  <2> HIDE DEF shields, J
  <2>1. /\ t \in Seq(Entry) /\ Len(t) = Cardinality(J)
        /\ \E f \in Bijection(1..Cardinality(J), J) : \A n \in 1..Cardinality(J) : t[n] = shields[f[n]]
    BY <1>3, <1>4, SubsequenceFacts
  <2>2. PICK f \in Bijection(1..Cardinality(J), J) :
           \A n \in 1..Cardinality(J) : t[n] = shields[f[n]]
    BY <2>1
  <2>3. \A n \in 1..Cardinality(J) : f[n] \in 1..m
    BY <1>3 DEF Bijection, Injection, IsInjective
  <2>4. DOMAIN t = 1..Cardinality(J)
    BY <2>1
  <2>. QED  BY <1>4, <2>1, <2>2, <2>3, <2>4
<1> HIDE DEF t
<1>6. /\ ready' \in Heaps /\ InOrder(ready')
      /\ \A o : Found(ready', QueuedFor(o)) = Found(ready, QueuedFor(o))
  BY <1>1, <1>5, ShieldsAdded
<1>7. /\ waiters' \in [Waitable -> Seq(Registration)] /\ IsFiniteSet(I)
      /\ \A X : /\ r \notin X => Found(waiters', X) = Found(waiters, X)
                /\ r \in X /\ Found(waiters, X) = {} => ExistsBijection(Found(waiters', X), I)
  <2>1. PICK reg \in Registration : reg = r
    BY <1>2
  <2>2. waiters' = Parked(ks, I, reg)
    BY <1>1, <2>1 DEF Parked
  <2> HIDE DEF r, On
  <2>3. /\ Parked(ks, I, reg) \in [Waitable -> Seq(Registration)]
        /\ IsFiniteSet(I)
        /\ \A X : /\ reg \notin X => Found(Parked(ks, I, reg), X) = Found(waiters, X)
                  /\ reg \in X /\ Found(waiters, X) = {}
                       => ExistsBijection(Found(Parked(ks, I, reg), X), I)
    BY Registered
  <2>. QED  BY <2>1, <2>2, <2>3
<1>8. /\ join' \in [Owner -> [keys : SUBSET Waitable, remaining : Int]]
      /\ join'[cur].remaining = remaining /\ join'[cur].keys = {ks[i] : i \in 1..m}
      /\ \A o \in Owner \ {cur} : join'[o] = join[o]
  BY <1>1, <1>2, <1>3 DEF TypeOK
<1>. QED  BY <1>2, <1>6, <1>7, <1>8 DEF Registering, JoinRecorded

(* Parking a Gather or a Race keeps the frame.                                *)
LEMMA JoinFrame ==
  ASSUME Frame, pc # "pop", NEW m \in Nat, NEW ks \in [1..m -> Waitable], NEW I \in SUBSET (1..m),
         NEW type \in {"gather", "race"}, NEW remaining \in Int,
         RegisterJoin(type, ks, I, remaining)
  PROVE  Frame'
<1>1. TypeOK /\ HeapInOrder
  BY DEF Frame
<1>2. /\ waiters' \in [Waitable -> Seq(Registration)]
      /\ ready' \in Heaps /\ InOrder(ready')
      /\ join' \in [Owner -> [keys : SUBSET Waitable, remaining : Int]]
  BY <1>1, JoinRegistered DEF JoinRecorded
<1>3. pc' = "drain" /\ UNCHANGED <<cur, objs, held, sems, ext>>
  BY DEF RegisterJoin, Suspend
<1>4. TypeOK'
  BY <1>1, <1>2, <1>3 DEF TypeOK, objs, sems, ext, Heaps
<1>. QED  BY <1>2, <1>3, <1>4, NothingHeld, FrameFree DEF HeapInOrder

(* The pending keys of a Gather are among its positions, and finitely many.   *)
LEMMA PendingKeys ==
  ASSUME NEW m \in Nat, NEW ks \in [1..m -> Waitable]
  PROVE  /\ Pending(ks) \in SUBSET (1..m) /\ Cardinality(Pending(ks)) \in Nat
         /\ DOMAIN ks = 1..m
<1>1. Pending(ks) \in SUBSET (1..m) /\ DOMAIN ks = 1..m
  BY DEF Pending
<1>2. 1 \in Int /\ m \in Int
  OBVIOUS
<1>3. IsFiniteSet(1..m)
  BY <1>2, FS_Interval
<1>4. Cardinality(Pending(ks)) \in Nat
  BY <1>1, <1>3, FS_Subset, FS_CardinalityType
<1>. QED  BY <1>1, <1>4

(* Gather keeps the frame: answered at once, failed at once, or parked.       *)
LEMMA GatherFrame ==
  ASSUME Frame, NEW ks \in KeyLists, Gather(ks) PROVE Frame'
<1>1. TypeOK /\ pc # "pop"
  BY DEF Frame, Gather, Handle
<1>2. PICK m \in Nat : ks \in [1..m -> Waitable]
  BY <1>1, KeyListTyped
<1>3. Pending(ks) \in SUBSET (1..m) /\ Cardinality(Pending(ks)) \in Int
  BY <1>2, PendingKeys
<1>4. Answer \/ RegisterJoin("gather", ks, Pending(ks), Cardinality(Pending(ks)))
  BY DEF Gather
<1>. QED  BY <1>1, <1>2, <1>3, <1>4, AnswerFrame, JoinFrame

(* Race keeps the frame: answered by a finished key, or parked.               *)
LEMMA RaceFrame ==
  ASSUME Frame, NEW ks \in KeyLists, Race(ks) PROVE Frame'
<1>1. TypeOK /\ pc # "pop"
  BY DEF Frame, Race, Handle
<1>2. PICK m \in Nat : ks \in [1..m -> Waitable]
  BY <1>1, KeyListTyped
<1>3. DOMAIN ks \in SUBSET (1..m) /\ 0 \in Int
  BY <1>2
<1>4. Answer \/ RegisterJoin("race", ks, DOMAIN ks, 0)
  BY DEF Race
<1>. QED  BY <1>1, <1>2, <1>3, <1>4, AnswerFrame, JoinFrame

(* What an action that may wake the waiters of k does to the frame.            *)
LEMMA Woken ==
  ASSUME TypeOK, HeapInOrder, NEW k \in Waitable, NEW st \in Terminal,
         ResolveAndWake(k, st) \/ UNCHANGED <<status, parked, ready>>
  PROVE  /\ status' \in [Waitable -> {"unborn", "pending", "running", "swept"} \cup Terminal]
         /\ waiters' \in [Waitable -> Seq(Registration)]
         /\ join' \in [Owner -> [keys : SUBSET Waitable, remaining : Int]]
         /\ ready' \in Heaps /\ InOrder(ready')
         /\ \A p \in Priority :
              /\ Len(ready[p]) <= Len(ready'[p])
              /\ \A n \in DOMAIN ready[p] :
                   /\ ready'[p][n].kind = ready[p][n].kind
                   /\ ready'[p][n].owner = ready[p][n].owner
                   /\ ready'[p][n].key = ready[p][n].key
<1>1. CASE ResolveAndWake(k, st)
  BY <1>1, WakeKeeps DEF ResolveAndWake, Resolve
<1>2. CASE UNCHANGED <<status, parked, ready>>
  BY <1>2 DEF TypeOK, parked, Heaps, HeapInOrder
<1>. QED  BY <1>1, <1>2

(* Cancel keeps the frame.                                                    *)
LEMMA CancelFrame == ASSUME Frame, NEW t \in Task, Cancel(t) PROVE Frame'
<1>1. TypeOK /\ HeapInOrder /\ pc # "pop" /\ t \in Waitable /\ "cancelled" \in Terminal
  BY DEF Frame, Cancel, Handle, Waitable, Terminal
<1>2. ResolveAndWake(t, "cancelled") \/ UNCHANGED <<status, parked, ready>>
  BY DEF Cancel
<1>3. TypeOK' /\ HeapInOrder'
  BY <1>1, <1>2, Woken DEF TypeOK, Cancel, Reply, sems, ext, Heaps, HeapInOrder
<1>. QED  BY <1>1, <1>3, NothingHeld, FrameFree DEF Cancel, Reply

(* CreatePromise and CreateExternalPromise keep the frame.                    *)
LEMMA CreatePromiseFrame ==
  ASSUME Frame, NEW p \in Promise \cup ExtPromise, CreatePromise(p) \/ CreateExternalPromise(p)
  PROVE  Frame'
<1>1. TypeOK /\ HeapInOrder /\ pc # "pop" /\ p \in Waitable
  BY DEF Frame, CreatePromise, CreateExternalPromise, Handle, Waitable
<1>2. Allocate(p) /\ Reply /\ UNCHANGED <<meta, parked, heap, sems, ext>>
  BY DEF CreatePromise, CreateExternalPromise
<1>3. TypeOK' /\ HeapInOrder'
  BY <1>1, <1>2, StatusTyped DEF TypeOK, Reply, parked, heap, sems, ext, HeapInOrder
<1>. QED  BY <1>1, <1>2, <1>3, NothingHeld, FrameFree DEF Reply, heap

(* The completer of a promise is requeued at one of the priorities, above     *)
(* none of those whom it woke.                                                *)
LEMMA CompleterTyped ==
  ASSUME TypeOK, NEW k, NEW st
  PROVE  /\ CompleterPriority(k, st) \in Priority
         /\ \A p \in Priority : WokenAt(k, st, p) # {} => CompleterPriority(k, st) <= p
<1> DEFINE S == {TaskPriority(cur)} \cup {p \in Priority : WokenAt(k, st, p) # {}}
<1>1. S \subseteq Priority /\ S # {}
  BY EntriesTyped
<1> HIDE DEF S
<1>2. \E x \in S : \A y \in S : x <= y
  <2>1. S \subseteq {0, 5, 10, 20}
    BY <1>1 DEF Priority, PRIORITY_IDLE, PRIORITY_EXTERNAL_WAIT, PRIORITY_NORMAL, PRIORITY_HIGH
  <2>2. \A y \in S : y = 0 \/ y = 5 \/ y = 10 \/ y = 20
    BY <2>1
  <2>3. CASE 0 \in S
    BY <2>2, <2>3
  <2>4. CASE 0 \notin S /\ 5 \in S
    BY <2>2, <2>4
  <2>5. CASE 0 \notin S /\ 5 \notin S /\ 10 \in S
    BY <2>2, <2>5
  <2>6. CASE 0 \notin S /\ 5 \notin S /\ 10 \notin S
    BY <1>1, <2>2, <2>6
  <2>. QED  BY <2>3, <2>4, <2>5, <2>6
<1>3. Min(S) \in S /\ \A y \in S : Min(S) <= y
  BY <1>2 DEF Min
<1>. QED  BY <1>1, <1>3 DEF CompleterPriority, S

(* CompletePromise and FailPromise keep the frame.                            *)
LEMMA SettleFrame ==
  ASSUME Frame, NEW p \in Promise \cup ExtPromise, NEW st \in {"completed", "failed"},
         SettlePromise(p, st)
  PROVE  Frame'
<1>1. TypeOK /\ HeapInOrder /\ pc # "pop" /\ p \in Waitable /\ st \in Terminal
  BY DEF Frame, SettlePromise, Handle, Waitable, Terminal
<1>2. CASE Answer
  BY <1>1, <1>2, AnswerFrame
<1>3. CASE /\ Resolve(p, st)
           /\ ready' = Enqueue(ReadyAfter(p, st), MkEntry("resume", cur), CompleterPriority(p, st))
           /\ Suspend
           /\ UNCHANGED <<meta, handles, held, sems, ext>>
  <2>1. ready' \in Heaps /\ InOrder(ready')
    BY <1>1, <1>3, WakeKeeps, EntriesTyped, CompleterTyped, EnqueueKeeps
  <2>2. TypeOK'
    BY <1>1, <1>3, <2>1, WakeKeeps DEF TypeOK, Resolve, Suspend, sems, ext, Heaps
  <2>. QED  BY <1>1, <1>3, <2>1, <2>2, NothingHeld, FrameFree DEF Suspend, HeapInOrder
<1>. QED  BY <1>2, <1>3 DEF SettlePromise

(* CreateSemaphore keeps the frame.                                           *)
LEMMA CreateSemaphoreFrame ==
  ASSUME Frame, NEW s \in Sem, NEW n \in PermitCounts, CreateSemaphore(s, n) PROVE Frame'
<1>1. TypeOK /\ HeapInOrder /\ pc # "pop" /\ n \in Nat
  BY Parameters DEF Frame, CreateSemaphore, Handle
<1>2. status' \in [Waitable -> {"unborn", "pending", "running", "swept"} \cup Terminal]
  BY <1>1 DEF TypeOK, CreateSemaphore, Swept
<1>3. TypeOK' /\ HeapInOrder'
  BY <1>1, <1>2 DEF TypeOK, CreateSemaphore, Reply, parked, heap, ext, HeapInOrder
<1>. QED  BY <1>1, <1>3, NothingHeld, FrameFree DEF CreateSemaphore, Reply, heap

(* AcquireSemaphore keeps the frame: granted at once or queued.               *)
LEMMA AcquireFrame ==
  ASSUME Frame, NEW s \in Sem, AcquireSemaphore(s) PROVE Frame'
<1>1. TypeOK /\ HeapInOrder /\ pc # "pop" /\ cur \in Owner
  BY DEF Frame, AcquireSemaphore, Handle, TypeOK
<1>2. permits' \in [Sem -> Nat]
  <2>1. HasPermit(s) => permits[s] - 1 \in Nat
    BY <1>1 DEF HasPermit, TypeOK
  <2>2. \/ HasPermit(s) /\ permits' = [permits EXCEPT ![s] = @ - 1]
        \/ permits' = permits
    BY DEF AcquireSemaphore
  <2>. QED  BY <1>1, <2>1, <2>2 DEF TypeOK
<1>3. holders' \in [Sem -> [Owner -> Int]]
  <2>1. holders \in [Sem -> [Owner -> Int]] /\ holders[s] \in [Owner -> Int] /\ holders[s][cur] \in Int
    BY <1>1 DEF TypeOK
  <2>2. [holders[s] EXCEPT ![cur] = @ + 1] \in [Owner -> Int]
    BY <1>1, <2>1
  <2>3. [holders EXCEPT ![s][cur] = @ + 1] \in [Sem -> [Owner -> Int]]
    BY <2>1, <2>2
  <2>. QED  BY <2>1, <2>3 DEF AcquireSemaphore
<1>4. semWaiters' \in [Sem -> Seq(Owner)]
  <2>1. Append(semWaiters[s], cur) \in Seq(Owner)
    BY <1>1 DEF TypeOK
  <2>. QED  BY <1>1, <2>1 DEF AcquireSemaphore, TypeOK
<1>5. pc' \in {"user", "drain"} /\ UNCHANGED <<cur, objs, parked, heap, maxPermits, ext>>
  BY DEF AcquireSemaphore, Reply, Suspend
<1>6. TypeOK' /\ HeapInOrder'
  BY <1>1, <1>2, <1>3, <1>4, <1>5 DEF TypeOK, objs, parked, heap, ext, HeapInOrder
<1>. QED  BY <1>1, <1>5, <1>6, NothingHeld, FrameFree DEF heap

(* What handing over a permit of s does to the frame, in a heap h.             *)
LEMMA Granted ==
  ASSUME TypeOK, NEW s \in Sem, NEW from, Grant(s, from), NEW h \in Heaps
  PROVE  /\ semWaiters' \in [Sem -> Seq(Owner)] /\ holders' \in [Sem -> [Owner -> Int]]
         /\ Transferred(h, s) \in Heaps
         /\ InOrder(h) => InOrder(Transferred(h, s))
         /\ \A q \in Priority : Len(h[q]) <= Len(Transferred(h, s)[q])
         /\ \A q \in Priority : \A n \in DOMAIN h[q] : Transferred(h, s)[q][n] = h[q][n]
         /\ LiveWaiters(s) = {} => Transferred(h, s) = h
         /\ LiveWaiters(s) # {} => \A o \in Owner :
              /\ o # NextOwner(s) => Found(Transferred(h, s), QueuedFor(o)) = Found(h, QueuedFor(o))
              /\ o = NextOwner(s) /\ Found(h, QueuedFor(o)) = {}
                   => Single(Found(Transferred(h, s), QueuedFor(o)))
<1>1. semWaiters' \in [Sem -> Seq(Owner)]
  BY GrantQueue DEF Grant, TypeOK
<1>2. holders' \in [Sem -> [Owner -> Int]]
  <2>1. \A g \in [Owner -> Int] : \A a, b : MovePermit(g, a, b) \in [Owner -> Int]
    BY DEF MovePermit
  <2>. QED  BY <2>1 DEF Grant, TypeOK
<1>3. CASE LiveWaiters(s) = {}
  <2>1. Transferred(h, s) = h
    BY <1>3 DEF Transferred
  <2>2. \A q \in Priority : Len(h[q]) \in Nat
    BY DEF Heaps
  <2>. QED  BY <1>1, <1>2, <1>3, <2>1, <2>2
<1>4. CASE LiveWaiters(s) # {}
  <2> DEFINE e == [MkEntry("sem_resume", NextOwner(s)) EXCEPT !.key = s]
  <2>1. NextOwner(s) \in Owner /\ TaskPriority(NextOwner(s)) \in Priority
    BY <1>4, FirstLiveFacts, EntriesTyped
  <2>2. e \in Entry /\ e.kind = "sem_resume" /\ ~e.claimed /\ e.owner = NextOwner(s)
        /\ e.key \in Sem
    BY <2>1 DEF MkEntry, Entry
  <2>3. Transferred(h, s) = Enqueue(h, e, TaskPriority(NextOwner(s)))
    BY <1>4 DEF Transferred
  <2>4. \A o : e \in QueuedFor(o) <=> o = NextOwner(s)
    BY <2>2 DEF QueuedFor
  <2> HIDE DEF e
  <2>5. PICK p \in Priority : p = TaskPriority(NextOwner(s))
    BY <2>1
  <2>. QED  BY <1>1, <1>2, <1>4, <2>2, <2>3, <2>4, <2>5, EnqueueKeeps
<1>. QED  BY <1>3, <1>4

(* ReleaseSemaphore keeps the frame: handed to a waiter or put back.          *)
LEMMA ReleaseFrame ==
  ASSUME Frame, NEW s \in Sem, ReleaseSemaphore(s) PROVE Frame'
<1>1. TypeOK /\ HeapInOrder /\ pc # "pop" /\ ready \in Heaps /\ InOrder(ready)
  BY EntriesTyped DEF Frame, ReleaseSemaphore, Handle, HeapInOrder
<1>2. PICK from : Grant(s, from)
  BY DEF ReleaseSemaphore
<1>3. ready' \in Heaps /\ InOrder(ready')
  BY <1>1, <1>2, Granted DEF ReleaseSemaphore
<1>4. permits' \in [Sem -> Nat]
  BY <1>1 DEF ReleaseSemaphore, TypeOK
<1>5. semWaiters' \in [Sem -> Seq(Owner)] /\ holders' \in [Sem -> [Owner -> Int]]
  BY <1>1, <1>2, Granted
<1>6. pc' = "user" /\ UNCHANGED <<cur, objs, parked, held, maxPermits, ext>>
  BY DEF ReleaseSemaphore, Reply
<1>7. TypeOK'
  BY <1>1, <1>3, <1>4, <1>5, <1>6 DEF TypeOK, objs, parked, ext, Heaps
<1>. QED  BY <1>1, <1>3, <1>6, <1>7, NothingHeld, FrameFree DEF HeapInOrder

(* The end of a task's body, or of the root's, keeps the frame.               *)
LEMMA EndFrame ==
  ASSUME Frame, OwnerEnds PROVE Frame'
<1>1. TypeOK /\ HeapInOrder
  BY DEF Frame
<1>2. ASSUME NEW st \in {"completed", "failed"}, TaskCompleted(st) PROVE Frame'
  <2>1. pc # "pop" /\ cur \in Waitable /\ st \in Terminal /\ pc' = "drain"
        /\ (ResolveAndWake(cur, st) \/ UNCHANGED <<status, parked, ready>>)
        /\ UNCHANGED <<cur, meta, handles, held, sems, ext>>
    BY <1>2 DEF TaskCompleted, Suspend, Waitable, Terminal
  <2>2. TypeOK' /\ HeapInOrder'
    BY <1>1, <2>1, Woken DEF TypeOK, sems, ext, Heaps, HeapInOrder
  <2>. QED  BY <2>1, <2>2, NothingHeld, FrameFree
<1>3. ASSUME RootReturn \/ RootRaise PROVE Frame'
  <2>1. /\ pc # "pop" /\ pc' \in {"warned", "returned", "raised"}
        /\ UNCHANGED <<objs, parked, heap, sems, ext, cur>>
    BY <1>3 DEF RootReturn, RootRaise
  <2>2. TypeOK' /\ HeapInOrder'
    BY <1>1, <2>1 DEF TypeOK, objs, parked, heap, sems, ext, HeapInOrder, Ended
  <2>. QED  BY <2>1, <2>2, NothingHeld, FrameFree DEF heap
<1>4. ASSUME TaskInterrupted PROVE Frame'
  <2>1. pc # "pop" /\ cur \in Waitable /\ "failed" \in Terminal /\ pc' = "raised"
        /\ (ResolveAndWake(cur, "failed") \/ UNCHANGED <<status, parked, ready>>)
        /\ UNCHANGED <<cur, meta, handles, held, sems, ext>>
    BY <1>4 DEF TaskInterrupted, Waitable, Terminal
  <2>2. TypeOK' /\ HeapInOrder'
    BY <1>1, <2>1, Woken DEF TypeOK, sems, ext, Heaps, HeapInOrder, Ended
  <2>. QED  BY <2>1, <2>2, NothingHeld, FrameFree
<1>. QED  BY <1>2, <1>3, <1>4 DEF OwnerEnds

(* The completion at the head of extq is drained, or the run blocks on it.     *)
LEMMA DrainFrame ==
  ASSUME Frame, DrainOne \/ Unblock PROVE Frame'
<1>1. TypeOK /\ HeapInOrder /\ pc # "pop"
  BY DEF Frame, DrainOne, Unblock
<1>2. extq # <<>> /\ extq \in Seq([key : ExtPromise, result : {"completed", "failed"}])
  BY <1>1 DEF TypeOK, DrainOne, Unblock
<1>3. PICK m \in [key : ExtPromise, result : {"completed", "failed"}] : m = Head(extq)
  <2> DEFINE T == [key : ExtPromise, result : {"completed", "failed"}]
  <2>1. extq \in Seq(T) /\ extq # <<>>
    BY <1>2
  <2> HIDE DEF T
  <2>2. Head(extq) \in T
    BY <2>1
  <2>. QED  BY <2>2 DEF T
<1>4. Tail(extq) \in Seq([key : ExtPromise, result : {"completed", "failed"}])
  BY <1>2
<1>5. m.key \in Waitable /\ m.result \in Terminal
  BY DEF Waitable, Terminal
<1>6. /\ ResolveAndWake(m.key, m.result) \/ UNCHANGED <<status, parked, ready>>
      /\ extq' = Tail(extq) /\ UNCHANGED <<meta, handles, held, sems, puts, cur>>
      /\ pc' \in {"effect", "drain", "afterPlaceholder"}
      /\ pc' = "afterPlaceholder" => pc \in {"placeholder", "afterPlaceholder"}
  BY <1>3 DEF DrainOne, Unblock
<1>7. ready' \in Heaps /\ InOrder(ready')
      /\ \A p \in Priority : /\ Len(ready[p]) <= Len(ready'[p])
                             /\ \A n \in DOMAIN ready[p] : ready'[p][n].kind = ready[p][n].kind
  BY <1>1, <1>5, <1>6, Woken
<1>8. TypeOK'
  BY <1>1, <1>4, <1>5, <1>6, <1>7, Woken DEF TypeOK, sems, Heaps
<1>9. \A p \in Priority : held'[p] = 0 /\ held'[p] <= Len(ready'[p])
  <2>1. \A p \in Priority : Len(ready'[p]) \in Nat
    BY <1>7 DEF Heaps
  <2>. QED  BY <1>1, <1>6, <2>1, NothingHeld
<1>10. pc' \in {"placeholder", "afterPlaceholder"} =>
         /\ ready'[PRIORITY_EXTERNAL_WAIT] # <<>>
         /\ ready'[PRIORITY_EXTERNAL_WAIT][1].kind = "wait_external"
  <2> DEFINE E == PRIORITY_EXTERNAL_WAIT
  <2>1. E \in Priority
    BY DEF Priority
  <2>2. SUFFICES ASSUME pc' = "afterPlaceholder"
                 PROVE  ready'[E] # <<>> /\ ready'[E][1].kind = "wait_external"
    BY <1>6
  <2>3. ready[E] # <<>> /\ ready[E][1].kind = "wait_external"
    BY <1>6, <2>2 DEF Frame, HeldForWork
  <2> HIDE DEF E
  <2>4. ready[E] \in Seq(Entry) /\ ready'[E] \in Seq(Entry)
    BY <1>1, <1>7, <2>1 DEF TypeOK, Heaps
  <2>5. 1 \in DOMAIN ready[E] /\ Len(ready[E]) \in Nat /\ Len(ready[E]) > 0
    BY <2>3, <2>4
  <2>6. ready'[E][1].kind = "wait_external" /\ Len(ready'[E]) > 0
    BY <1>7, <2>1, <2>3, <2>4, <2>5
  <2>. QED  BY <2>4, <2>6
<1>11. \A p \in Priority : ~(held'[p] > 0)
  BY <1>9
<1>. QED  BY <1>7, <1>8, <1>9, <1>10, <1>11 DEF Frame, HeldForWork, HeapInOrder

(* A completion put into the external queue by another thread keeps the       *)
(* frame.                                                                     *)
LEMMA EnvironmentFrame ==
  ASSUME Frame, Environment PROVE Frame'
<1>1. UNCHANGED <<status, meta, parked, heap, sems, pc, cur>>
  BY DEF Environment, Put, DropHandle, objs
<1>2. handles' \subseteq Waitable /\ puts' \in [ExtPromise -> Nat]
      /\ extq' \in Seq([key : ExtPromise, result : {"completed", "failed"}])
  <2>1. ASSUME NEW e \in ExtPromise, NEW result \in {"completed", "failed"}, Put(e, result)
        PROVE  /\ handles' \subseteq Waitable /\ puts' \in [ExtPromise -> Nat]
               /\ extq' \in Seq([key : ExtPromise, result : {"completed", "failed"}])
    <3>1. Append(extq, [key |-> e, result |-> result])
             \in Seq([key : ExtPromise, result : {"completed", "failed"}])
      BY DEF Frame, TypeOK
    <3>. QED  BY <2>1, <3>1 DEF Frame, TypeOK, Put, objs
  <2>2. ASSUME NEW k \in Waitable, DropHandle(k)
        PROVE  /\ handles' \subseteq Waitable /\ puts' \in [ExtPromise -> Nat]
               /\ extq' \in Seq([key : ExtPromise, result : {"completed", "failed"}])
    BY <2>2 DEF Frame, TypeOK, DropHandle, ext
  <2>. QED  BY <2>1, <2>2 DEF Environment
<1>3. TypeOK' /\ HeapInOrder'
  BY <1>1, <1>2 DEF Frame, TypeOK, parked, heap, sems, HeapInOrder
<1>4. HeldForWork'
  BY <1>1 DEF Frame, HeldForWork, heap, has_live_ready_entry, InHeap, Runnable, IsCancelled, IsDaemon
<1>. QED  BY <1>3, <1>4 DEF Frame

(* What pick_next pops, and what is left without it.                           *)
LEMMA Popped ==
  ASSUME Frame, NEW p \in Priority, NEW e, Popping(p, e)
  PROVE  /\ pc = "pop" /\ held[p] \in Nat /\ held[p] + 1 \in DOMAIN ready[p]
         /\ e = ready[p][held[p] + 1] /\ e \in Entry
         /\ e.kind = "wait_external" => p = PRIORITY_EXTERNAL_WAIT
         /\ e.claimed => e.kind = "wait_external"
         /\ e.kind = "sem_resume" => e.key \in Sem
         /\ Without(p) \in Heaps /\ InOrder(Without(p))
         /\ Len(Without(p)[p]) = Len(ready[p]) - 1 /\ held[p] <= Len(Without(p)[p])
         /\ \A q \in Priority \ {p} : Without(p)[q] = ready[q]
         /\ \A n \in 1..(Len(ready[p]) - 1) :
              Without(p)[p][n] = IF n < held[p] + 1 THEN ready[p][n] ELSE ready[p][n + 1]
         /\ \A X : /\ e \notin X => ExistsBijection(Found(Without(p), X), Found(ready, X))
                   /\ e \in X /\ Single(Found(ready, X)) => Found(Without(p), X) = {}
<1>1. /\ ready[p] \in Seq(Entry) /\ Len(ready[p]) \in Nat /\ DOMAIN ready[p] = 1..Len(ready[p])
      /\ held[p] \in Nat /\ held[p] < Len(ready[p]) /\ e = ready[p][held[p] + 1] /\ pc = "pop"
      /\ ready \in Heaps /\ InOrder(ready)
  BY EntriesTyped DEF Popping, Unheld, Frame, TypeOK, HeapInOrder
<1>2. held[p] + 1 \in DOMAIN ready[p]
  BY <1>1
<1>3. e \in Entry
  BY <1>1, <1>2
<1>4. PICK x \in DOMAIN ready[p] : x = held[p] + 1
  BY <1>2
<1>5. Without(p) = [ready EXCEPT ![p] = RemoveAt(@, x)]
  BY <1>4 DEF Without
<1>6. LET g == [ready EXCEPT ![p] = RemoveAt(@, x)] IN
         /\ g \in Heaps
         /\ Len(g[p]) = Len(ready[p]) - 1
         /\ \A q \in Priority \ {p} : g[q] = ready[q]
         /\ \A n \in 1..(Len(ready[p]) - 1) :
              g[p][n] = IF n < x THEN ready[p][n] ELSE ready[p][n + 1]
         /\ InOrder(ready) => InOrder(g)
         /\ \A X : /\ ready[p][x] \notin X => ExistsBijection(Found(g, X), Found(ready, X))
                   /\ ready[p][x] \in X /\ Single(Found(ready, X)) => Found(g, X) = {}
  BY <1>1, WithoutKeeps
<1>7. held[p] <= Len(ready[p]) - 1
  BY <1>1
<1>8. /\ e.kind = "wait_external" => p = PRIORITY_EXTERNAL_WAIT
      /\ e.claimed => e.kind = "wait_external"
      /\ e.kind = "sem_resume" => e.key \in Sem
  BY <1>1, <1>2 DEF InOrder
<1>. QED  BY <1>1, <1>2, <1>3, <1>4, <1>5, <1>6, <1>7, <1>8

(* Live work for which pick_next holds entries stays in the heap when another  *)
(* entry is held, dropped or added.                                            *)
LiveIn(heapOf, heldOf) ==
  \E q \in Priority : \E n \in DOMAIN heapOf[q] :
    n > heldOf[q] /\ Runnable(heapOf[q][n]) /\ ~IsDaemon(heapOf[q][n].owner)

(* has_live_ready_entry looks exactly at the entries that were not held       *)
(* back.                                                                      *)
LEMMA LiveInHeap ==
  ASSUME TypeOK PROVE has_live_ready_entry(FALSE) <=> LiveIn(ready, held)
<1>1. ASSUME NEW q \in Priority
      PROVE  InHeap(q) = {ready[q][n] : n \in {n \in DOMAIN ready[q] : n > held[q]}}
  <2>1. held[q] \in Nat /\ Len(ready[q]) \in Nat /\ DOMAIN ready[q] = 1..Len(ready[q])
    BY DEF TypeOK
  <2>2. held[q] + 1 .. Len(ready[q]) = {n \in DOMAIN ready[q] : n > held[q]}
    BY <2>1
  <2>. QED  BY <2>2 DEF InHeap
<1>. QED  BY <1>1 DEF has_live_ready_entry, LiveIn

(* An entry popped that is not live does not change whether a live one is     *)
(* left.                                                                      *)
LEMMA LiveKept ==
  ASSUME Frame, NEW p \in Priority, NEW e, Popping(p, e),
         ~(Runnable(e) /\ ~IsDaemon(e.owner)), LiveIn(ready, held)
  PROVE  /\ LiveIn(ready, [held EXCEPT ![p] = @ + 1])
         /\ LiveIn(Without(p), held)
<1>1. PICK q \in Priority, n \in Nat :
        /\ n \in DOMAIN ready[q] /\ n > held[q]
        /\ Runnable(ready[q][n]) /\ ~IsDaemon(ready[q][n].owner)
  <2>1. \A q \in Priority : DOMAIN ready[q] \subseteq Nat
    BY DEF Frame, TypeOK
  <2>. QED  BY <2>1 DEF LiveIn
<1>2. /\ ready[p] \in Seq(Entry) /\ Len(ready[p]) \in Nat /\ DOMAIN ready[p] = 1..Len(ready[p])
      /\ held[p] \in Nat /\ e = ready[p][held[p] + 1] /\ held \in [Priority -> Nat]
  BY Popped DEF Frame, TypeOK
<1>3. q = p => n > held[p] + 1
  BY <1>1, <1>2
<1>4. LiveIn(ready, [held EXCEPT ![p] = @ + 1])
  <2>1. n > [held EXCEPT ![p] = @ + 1][q]
    BY <1>1, <1>2, <1>3
  <2>. QED  BY <1>1, <2>1 DEF LiveIn
<1>5. CASE q # p
  <2>1. Without(p)[q] = ready[q]
    BY <1>5, Popped
  <2>. QED  BY <1>1, <1>4, <2>1 DEF LiveIn
<1>6. CASE q = p
  <2>1. n - 1 \in 1..(Len(ready[p]) - 1) /\ ~(n - 1 < held[p] + 1) /\ n - 1 > held[p] /\ n - 1 + 1 = n
    BY <1>1, <1>2, <1>3, <1>6
  <2>2. Without(p)[p][n - 1] = ready[p][n]
    BY <2>1, Popped
  <2>3. n - 1 \in DOMAIN Without(p)[p]
    <3>1. Without(p)[p] \in Seq(Entry) /\ Len(Without(p)[p]) = Len(ready[p]) - 1
      BY Popped DEF Heaps
    <3>2. DOMAIN Without(p)[p] = 1..(Len(ready[p]) - 1)
      BY <3>1
    <3>. QED  BY <2>1, <3>2
  <2>. QED  BY <1>1, <1>4, <1>6, <2>1, <2>2, <2>3 DEF LiveIn
<1>. QED  BY <1>5, <1>6

(* A pop that neither runs nor blocks keeps the frame, whether the entry is   *)
(* held back or dropped.                                                      *)
LEMMA PopFrame ==
  ASSUME Frame, NEW p \in Priority, NEW e, Popping(p, e),
         TypeOK', HeapInOrder', pc' = "pop", UNCHANGED <<status, meta>>,
         \/ held' = [held EXCEPT ![p] = @ + 1] /\ ready' = ready
            /\ LiveIn(ready, held)
         \/ held' = held /\ \A q \in Priority : Len(Without(p)[q]) <= Len(ready'[q])
            /\ \A n \in DOMAIN Without(p)[q] : ready'[q][n] = Without(p)[q][n],
         ~(Runnable(e) /\ ~IsDaemon(e.owner))
  PROVE  Frame'
<1>1. TypeOK /\ HeldForWork /\ held \in [Priority -> Nat]
      /\ \A q \in Priority : Len(ready[q]) \in Nat
  BY DEF Frame, TypeOK
<1>2. \A q \in Priority : held[q] <= Len(ready[q])
  BY <1>1 DEF HeldForWork
<1>3. \A q \in Priority : held'[q] <= Len(ready'[q])
  <2>1. CASE held' = [held EXCEPT ![p] = @ + 1] /\ ready' = ready
    <3>1. held[p] < Len(ready[p])
      BY DEF Popping, Unheld
    <3>. QED  BY <1>1, <1>2, <2>1, <3>1
  <2>2. CASE held' = held /\ \A q \in Priority : Len(Without(p)[q]) <= Len(ready'[q])
    <3> TAKE q \in Priority
    <3>1. held[q] <= Len(Without(p)[q])
      BY <1>2, Popped
    <3>2. Len(Without(p)[q]) \in Nat /\ Len(ready'[q]) \in Nat
      BY Popped DEF Heaps, TypeOK
    <3>. QED  BY <1>1, <2>2, <3>1, <3>2
  <2>. QED  BY <2>1, <2>2
<1>4. \A f : Runnable(f)' = Runnable(f) /\ \A o : IsDaemon(o)' = IsDaemon(o)
  BY DEF Runnable, IsCancelled, IsDaemon
<1>5. ASSUME \E q \in Priority : held'[q] > 0 PROVE has_live_ready_entry(FALSE)'
  <2>1. LiveIn(ready, held)
    <3>1. CASE held' = held
      BY <1>1, <1>5, <3>1, LiveInHeap DEF HeldForWork
    <3>. QED  BY <3>1
  <2>2. LiveIn(ready, [held EXCEPT ![p] = @ + 1]) /\ LiveIn(Without(p), held)
    BY <2>1, LiveKept
  <2>3. LiveIn(ready', held')
    <3>1. CASE held' = [held EXCEPT ![p] = @ + 1] /\ ready' = ready
      BY <2>2, <3>1
    <3>2. CASE held' = held /\ \A q \in Priority : Len(Without(p)[q]) <= Len(ready'[q])
                 /\ \A n \in DOMAIN Without(p)[q] : ready'[q][n] = Without(p)[q][n]
      <4>1. PICK q \in Priority, n \in Nat :
              /\ n \in DOMAIN Without(p)[q] /\ n > held[q]
              /\ Runnable(Without(p)[q][n]) /\ ~IsDaemon(Without(p)[q][n].owner)
        <5>1. \A q \in Priority : DOMAIN Without(p)[q] \subseteq Nat
          BY Popped DEF Heaps
        <5>. QED  BY <2>2, <5>1 DEF LiveIn
      <4>2. n \in DOMAIN ready'[q]
        <5>1. Without(p)[q] \in Seq(Entry) /\ ready'[q] \in Seq(Entry)
          BY Popped DEF Heaps, TypeOK
        <5>2. n \in 1..Len(Without(p)[q]) /\ Len(Without(p)[q]) \in Nat /\ Len(ready'[q]) \in Nat
              /\ DOMAIN ready'[q] = 1..Len(ready'[q])
          BY <4>1, <5>1
        <5>. QED  BY <3>2, <5>2
      <4>. QED  BY <3>2, <4>1, <4>2 DEF LiveIn
    <3>. QED  BY <3>1, <3>2
  <2>4. LiveIn(ready, held)'
    BY <1>4, <2>3 DEF LiveIn
  <2>5. (TypeOK => (has_live_ready_entry(FALSE) <=> LiveIn(ready, held)))'
    BY LiveInHeap, PTL
  <2>. QED  BY <2>4, <2>5
<1>. QED  BY <1>3, <1>5 DEF Frame, HeldForWork

(* Running the popped entry keeps the frame.                                  *)
LEMMA DispatchFrame ==
  ASSUME Frame, NEW p \in Priority, NEW e, Dispatch(p, e) PROVE Frame'
<1>1. Popping(p, e) /\ TypeOK
  BY DEF Dispatch, Frame
<1>2. e \in Entry /\ Without(p) \in Heaps /\ InOrder(Without(p))
  BY <1>1, Popped
<1>3. e.owner \in Owner
  BY <1>2 DEF Entry
<1>4. held' = [q \in Priority |-> 0] /\ pc' = "user"
  BY DEF Dispatch
<1>5. status' \in [Waitable -> {"unborn", "pending", "running", "swept"} \cup Terminal]
  BY <1>1 DEF TypeOK, Dispatch
<1>6. ready' = Without(p) /\ cur' = e.owner /\ UNCHANGED <<meta, handles, parked, sems, ext>>
  BY DEF Dispatch
<1>7. held' \in [Priority -> Nat]
  BY <1>4
<1>8. TypeOK' /\ HeapInOrder'
  BY <1>1, <1>2, <1>3, <1>4, <1>5, <1>6, <1>7 DEF TypeOK, Heaps, parked, sems, ext, HeapInOrder
<1>. QED  BY <1>4, <1>8, FrameFree

(* Holding back a daemon's entry or a placeholder keeps the frame.            *)
LEMMA HoldFrame ==
  ASSUME Frame, NEW p \in Priority, NEW e, HoldDaemon(p, e) \/ DeferPlaceholder(p, e) PROVE Frame'
<1>1. Popping(p, e) /\ TypeOK /\ HeapInOrder /\ Hold(p)
      /\ UNCHANGED <<objs, parked, ready, sems, ext, pc, cur>>
  BY DEF HoldDaemon, DeferPlaceholder, Frame
<1>2. LiveIn(ready, held) /\ ~(Runnable(e) /\ ~IsDaemon(e.owner))
  <2>1. CASE HoldDaemon(p, e)
    <3>1. ShieldDeferred /\ IsDaemon(e.owner)
      BY <2>1 DEF HoldDaemon, Shielded
    <3>2. has_live_ready_entry(FALSE)
      BY <3>1 DEF ShieldDeferred, Frame, HeldForWork
    <3>. QED  BY <1>1, <3>1, <3>2, LiveInHeap
  <2>2. CASE DeferPlaceholder(p, e)
    <3>1. has_live_ready_entry(FALSE) /\ e.kind = "wait_external"
      BY <2>2 DEF DeferPlaceholder, LivePlaceholder
    <3>. QED  BY <1>1, <3>1, LiveInHeap DEF Runnable
  <2>. QED  BY <2>1, <2>2
<1>3. TypeOK' /\ HeapInOrder'
  <2>1. held' \in [Priority -> Nat]
    BY <1>1 DEF Hold, TypeOK
  <2>. QED  BY <1>1, <2>1 DEF TypeOK, objs, parked, sems, ext, HeapInOrder
<1>. QED  BY <1>1, <1>2, <1>3, PopFrame, Popped DEF Hold, objs

(* Dropping the entry of a cancelled task keeps the frame.                    *)
LEMMA DropFrame ==
  ASSUME Frame, NEW p \in Priority, NEW e, DropDead(p, e) PROVE Frame'
<1>1. Popping(p, e) /\ TypeOK /\ ready' = Without(p)
      /\ UNCHANGED <<objs, parked, held, sems, ext, pc, cur>> /\ (IsCancelled(e.owner) \/ e.claimed)
  BY DEF DropDead, Frame
<1>2. Without(p) \in Heaps /\ InOrder(Without(p)) /\ ~Runnable(e) /\ pc = "pop"
  BY <1>1, Popped DEF Runnable
<1>3. TypeOK' /\ HeapInOrder'
  BY <1>1, <1>2 DEF TypeOK, objs, parked, sems, ext, HeapInOrder, Heaps
<1>4. \A q \in Priority : Len(Without(p)[q]) <= Len(ready'[q])
  BY <1>1, <1>2 DEF Heaps
<1>. QED  BY <1>1, <1>2, <1>3, <1>4, PopFrame DEF objs

(* Dropping a permit granted to a cancelled task keeps the frame: the permit  *)
(* is passed on.                                                              *)
LEMMA DropGrantFrame ==
  ASSUME Frame, NEW p \in Priority, NEW e, DropDeadGrant(p, e) PROVE Frame'
<1>1. Popping(p, e) /\ TypeOK /\ ready' = Transferred(Without(p), e.key)
      /\ Grant(e.key, e.owner)
      /\ UNCHANGED <<objs, parked, held, maxPermits, ext, pc, cur>> /\ IsCancelled(e.owner)
  BY DEF DropDeadGrant, Frame
<1>2. Without(p) \in Heaps /\ InOrder(Without(p)) /\ ~Runnable(e) /\ pc = "pop"
      /\ e.key \in Sem
  BY <1>1, Popped DEF Runnable, DropDeadGrant
<1>3. PICK h \in Heaps : h = Without(p)
  BY <1>2
<1>4. /\ semWaiters' \in [Sem -> Seq(Owner)] /\ holders' \in [Sem -> [Owner -> Int]]
      /\ ready' \in Heaps /\ InOrder(ready')
      /\ \A q \in Priority : Len(h[q]) <= Len(ready'[q])
      /\ \A q \in Priority : \A n \in DOMAIN h[q] : ready'[q][n] = h[q][n]
  BY <1>1, <1>2, <1>3, Granted
<1>5. permits' \in [Sem -> Nat]
  <2>1. permits[e.key] \in Nat /\ permits \in [Sem -> Nat]
    BY <1>1, <1>2 DEF TypeOK
  <2>2. permits' = [permits EXCEPT ![e.key] = IF LiveWaiters(e.key) = {} THEN @ + 1 ELSE @]
    BY DEF DropDeadGrant
  <2>3. permits' = [permits EXCEPT ![e.key] = permits[e.key] + 1] \/ permits' = permits
    BY <2>1, <2>2
  <2>. QED  BY <1>2, <2>1, <2>3
<1>6. TypeOK' /\ HeapInOrder'
  BY <1>1, <1>4, <1>5 DEF TypeOK, objs, parked, ext, HeapInOrder, Heaps
<1>. QED  BY <1>1, <1>2, <1>3, <1>4, <1>6, PopFrame DEF objs

(* Blocking on a placeholder, with nothing else live, keeps the frame.        *)
LEMMA BlockFrame ==
  ASSUME Frame, NEW p \in Priority, NEW e, BlockOnPlaceholder(p, e) PROVE Frame'
<1>1. /\ Popping(p, e) /\ TypeOK /\ ~has_live_ready_entry(FALSE) /\ e.kind = "wait_external"
      /\ UNCHANGED <<objs, parked, heap, permits, maxPermits, holders, ext, cur>>
      /\ pc' \in {"placeholder", "deadlock"}
      /\ semWaiters' = semWaiters \/ semWaiters' = PrunedWaiters
  BY DEF BlockOnPlaceholder, Frame, LivePlaceholder
<1>2. \A q \in Priority : held[q] = 0 /\ ~(held[q] > 0)
  <2>1. \A q \in Priority : held[q] \in Nat /\ ~(held[q] > 0)
    BY <1>1 DEF Frame, HeldForWork, TypeOK
  <2>. QED  BY <2>1
<1>3. p = PRIORITY_EXTERNAL_WAIT /\ e = ready[p][1] /\ 1 \in DOMAIN ready[p]
  BY <1>1, <1>2, Popped
<1>4. ready[PRIORITY_EXTERNAL_WAIT] # <<>>
  BY <1>1, <1>3 DEF TypeOK
<1>5. semWaiters' \in [Sem -> Seq(Owner)]
  BY <1>1, PrunedPlaces DEF TypeOK
<1>6. TypeOK' /\ HeapInOrder'
  BY <1>1, <1>5 DEF Frame, TypeOK, objs, parked, heap, ext, HeapInOrder, Ended
<1>7. HeldForWork'
  <2>1. \A q \in Priority : held'[q] <= Len(ready'[q]) /\ ~(held'[q] > 0)
    BY <1>1, <1>2 DEF Frame, HeldForWork, heap
  <2>. QED  BY <1>1, <1>3, <1>4, <2>1 DEF HeldForWork, heap
<1>. QED  BY <1>6, <1>7 DEF Frame

(* The placeholder goes back to its bucket after the external wait, or is     *)
(* dropped when it was claimed.                                               *)
LEMMA RequeueFrame ==
  ASSUME Frame, RequeuePlaceholder PROVE Frame'
<1> DEFINE E == PRIORITY_EXTERNAL_WAIT
           e == ready[E][held[E] + 1]
<1>1. /\ TypeOK /\ HeapInOrder /\ pc = "afterPlaceholder" /\ pc' = "pop"
      /\ ready' = IF e.claimed THEN Without(E) ELSE Enqueue(Without(E), e, E)
      /\ UNCHANGED <<objs, parked, held, sems, ext, cur>>
  BY DEF RequeuePlaceholder, Frame
<1>2. E \in Priority /\ \A q \in Priority : held[q] = 0
  BY <1>1, NothingHeld DEF Priority
<1>3. ready[E] \in Seq(Entry) /\ ready[E] # <<>> /\ ready[E][1].kind = "wait_external"
      /\ ready \in Heaps
  BY <1>1, <1>2, EntriesTyped DEF Frame, HeldForWork, TypeOK
<1>4. 1 \in DOMAIN ready[E] /\ held[E] + 1 = 1 /\ e = ready[E][1] /\ e \in Entry
  BY <1>2, <1>3
<1> HIDE DEF E
<1>5. Without(E) = [ready EXCEPT ![E] = RemoveAt(@, 1)]
  BY <1>4 DEF Without
<1>6. Without(E) \in Heaps /\ InOrder(Without(E))
  <2>1. LET g == [ready EXCEPT ![E] = RemoveAt(@, 1)] IN g \in Heaps /\ (InOrder(ready) => InOrder(g))
    BY <1>2, <1>3, <1>4, WithoutKeeps
  <2>. QED  BY <1>1, <1>5, <2>1 DEF HeapInOrder
<1>7. Enqueue(Without(E), e, E) \in Heaps /\ InOrder(Enqueue(Without(E), e, E))
  <2>1. e.kind = "wait_external" => E = PRIORITY_EXTERNAL_WAIT
    BY DEF E
  <2>2. e.kind = "wait_external"
    BY <1>3, <1>4
  <2> HIDE DEF e
  <2>. QED  BY <1>2, <1>4, <1>6, <2>1, <2>2, EnqueueKeeps
<1>8. ready' \in Heaps /\ InOrder(ready')
  BY <1>1, <1>6, <1>7
<1>9. TypeOK' /\ HeapInOrder'
  BY <1>1, <1>8 DEF TypeOK, objs, parked, sems, ext, HeapInOrder, Heaps
<1>. QED  BY <1>1, <1>2, <1>9, FrameFree

(* An empty pass: nothing live was found, so the heap is empty but for what   *)
(* was held back.                                                             *)
LEMMA NothingReadyFrame ==
  ASSUME Frame, NothingReady PROVE Frame' /\ \A p \in Priority : ready[p] = <<>>
<1>1. /\ TypeOK /\ HeapInOrder /\ UNCHANGED <<objs, parked, heap, permits, maxPermits, holders, ext, cur>>
      /\ semWaiters' = PrunedWaiters /\ pc' \in {"deadlock", "block", "none"}
      /\ \A p \in Priority : ~Unheld(p)
  BY DEF NothingReady, Frame
<1>2. ~LiveIn(ready, held)
  <2>1. \A q \in Priority : \A n \in DOMAIN ready[q] : n <= held[q]
    <3> TAKE q \in Priority
    <3>1. held[q] \in Nat /\ Len(ready[q]) \in Nat /\ DOMAIN ready[q] = 1..Len(ready[q])
          /\ ~(held[q] < Len(ready[q]))
      BY <1>1 DEF TypeOK, Unheld
    <3>. QED  BY <3>1
  <2>2. \A q \in Priority : \A n \in DOMAIN ready[q] : n \in Nat /\ held[q] \in Nat
    BY <1>1 DEF TypeOK
  <2>. QED  BY <2>1, <2>2 DEF LiveIn
<1>3. \A q \in Priority : held[q] = 0
  <2>1. \A q \in Priority : held[q] \in Nat /\ ~(held[q] > 0)
    BY <1>1, <1>2, LiveInHeap DEF Frame, HeldForWork, TypeOK
  <2>. QED  BY <2>1
<1>4. \A q \in Priority : ready[q] = <<>>
  <2> TAKE q \in Priority
  <2>1. ready[q] \in Seq(Entry) /\ Len(ready[q]) \in Nat /\ ~(0 < Len(ready[q]))
    BY <1>1, <1>3 DEF TypeOK, Unheld
  <2>. QED  BY <2>1
<1>5. semWaiters' \in [Sem -> Seq(Owner)]
  BY <1>1, PrunedPlaces DEF TypeOK
<1>6. TypeOK' /\ HeapInOrder'
  BY <1>1, <1>5 DEF Frame, TypeOK, objs, parked, heap, ext, HeapInOrder, Ended
<1>. QED  BY <1>1, <1>3, <1>4, <1>6, FrameFree DEF heap

(* Every step keeps the types, the order of the heap, and the relation        *)
(* between what was held back and what is still live.                         *)
LEMMA FrameNext == ASSUME Frame, [Next]_vars PROVE Frame'
<1>1. CASE UNCHANGED vars
  <2>1. TypeOK' /\ HeapInOrder' /\ HeldForWork'
    BY <1>1 DEF Frame, vars, objs, parked, heap, sems, ext, TypeOK, HeapInOrder, HeldForWork,
                has_live_ready_entry, InHeap, Runnable, IsCancelled, IsDaemon
  <2>. QED  BY <2>1 DEF Frame
<1>2. ASSUME UserEffect PROVE Frame'
  <2>1. ASSUME NEW p \in Promise \cup ExtPromise, NEW st \in {"completed", "failed"},
               SettlePromise(p, st)
        PROVE  Frame'
    BY <2>1, SettleFrame
  <2>2. ASSUME NEW ks \in KeyLists, Gather(ks) \/ Race(ks) PROVE Frame'
    BY <2>2, GatherFrame, RaceFrame
  <2>3. ASSUME NEW k \in Waitable, NEW prio \in WaitPriorities, Wait(k, prio) PROVE Frame'
    BY <2>3, WaitFrame
  <2>. QED  BY <1>2, <2>1, <2>2, <2>3, SpawnFrame, CancelFrame, CreatePromiseFrame,
               CreateSemaphoreFrame, AcquireFrame, ReleaseFrame DEF UserEffect
<1>3. ASSUME PassEffect PROVE Frame'
  BY <1>3, AnswerFrame DEF PassEffect
<1>4. ASSUME SchedulerStep PROVE Frame'
  <2>1. ASSUME DrainDone PROVE Frame'
    <3>1. TypeOK' /\ HeapInOrder' /\ pc # "pop" /\ pc' = "pop"
      BY <2>1 DEF DrainDone, Frame, TypeOK, HeapInOrder, objs, parked, heap, sems, ext
    <3>. QED  BY <2>1, <3>1, NothingHeld, FrameFree DEF DrainDone, heap
  <2>2. ASSUME Pop PROVE Frame'
    BY <2>2, DispatchFrame, HoldFrame, DropFrame, DropGrantFrame, BlockFrame DEF Pop
  <2>. QED  BY <1>4, <2>1, <2>2, DrainFrame, RequeueFrame, NothingReadyFrame DEF SchedulerStep
<1>. QED  BY <1>1, <1>2, <1>3, <1>4, EndFrame, EnvironmentFrame DEF Next

-------------------------------------------------------------------------------
(* Where the continuations are, step by step.                                  *)
Safe == TypeOK /\ Placed /\ JoinCounts

(* A place that fits an owner still fits it when its status moves on.          *)
LEMMA FitsKept ==
  ASSUME NEW o \in Owner, NEW place, Fits(o, place),
         o \in Task => \/ status'[o] = status[o]
                       \/ status[o] \in {"completed", "failed"} /\ status'[o] = "swept"
                       \/ status[o] \in {"pending", "running"} /\ status'[o] \in {"running", "cancelled"}
  PROVE  Fits(o, place)'
<1>1. CASE o = Root
  BY <1>1, DistinctIds DEF Fits, Unfinished, IsCancelled, Waitable
<1>2. CASE o # Root
  BY <1>2 DEF Fits, Unfinished, IsCancelled, Owner
<1>. QED  BY <1>1, <1>2

(* An allocation takes nothing from the owners that were there before.         *)
LEMMA SweptFits ==
  ASSUME TypeOK, NEW k \in Waitable, Allocate(k), NEW o \in Owner, o # k, NEW place, Fits(o, place)
  PROVE  Fits(o, place)'
<1>1. ASSUME o \in Task
      PROVE  \/ status'[o] = status[o]
             \/ status[o] \in {"completed", "failed"} /\ status'[o] = "swept"
  <2>1. o \in Waitable
    BY <1>1 DEF Waitable
  <2>2. Swept[o] = status[o] \/ (status[o] \in {"completed", "failed"} /\ Swept[o] = "swept")
    BY <2>1 DEF Swept, Sweepable
  <2>3. status \in [Waitable -> {"unborn", "pending", "running", "swept"} \cup Terminal]
        /\ Swept \in [Waitable -> {"unborn", "pending", "running", "swept"} \cup Terminal]
    BY StatusTyped DEF TypeOK
  <2>4. status'[o] = status[o] \/ status'[o] = Swept[o]
    BY <2>1, <2>3 DEF Allocate
  <2>. QED  BY <2>2, <2>4
<1>. QED  BY <1>1, FitsKept

(* A step that leaves the parked and queued continuations alone and keeps user *)
(* code running, or not.                                                       *)
LEMMA Calm ==
  ASSUME Placed, pc \notin Ended, UNCHANGED <<waiters, ready, semWaiters, cur>>,
         pc' \in {"user", "effect"} <=> pc \in {"user", "effect"},
         NEW o \in Owner, \A place : Fits(o, place) => Fits(o, place)'
  PROVE  Located(o)'
<1>1. PICK place \in PlaceName \cup {"nowhere"} : At(o, place) /\ Fits(o, place)
  BY DEF Placed, Located
<1>2. Found(ready, QueuedFor(o))' = Found(ready, QueuedFor(o))
      /\ Found(waiters, WaitsOf(o))' = Found(waiters, WaitsOf(o))
      /\ Found(waiters, JoinsOf(o))' = Found(waiters, JoinsOf(o))
      /\ Found(semWaiters, {o})' = Found(semWaiters, {o})
  OBVIOUS
<1>3. Running(o)' <=> Running(o)
  BY DEF Running
<1>4. At(o, place)'
  BY <1>1, <1>2, <1>3 DEF At, Site
<1>. QED  BY <1>1, <1>4 DEF Located

(* A step that moves nobody keeps the counts of the joins.                    *)
LEMMA CountsKept ==
  ASSUME JoinCounts, UNCHANGED parked PROVE JoinCounts'
<1>1. ASSUME NEW o \in Owner
      PROVE  Found(waiters, GathersOf(o))' = Found(waiters, GathersOf(o))
             /\ Found(waiters, RacesOf(o))' = Found(waiters, RacesOf(o))
             /\ join' = join
  BY DEF parked
<1>. QED  BY <1>1 DEF JoinCounts

(* The places after k reached st, as they are while status still is the old.   *)
LEMMA WakeStep ==
  ASSUME TypeOK, Placed, JoinCounts, pc \notin Ended, NEW k \in Waitable, NEW st \in Terminal,
         NEW o \in Owner
  PROVE  /\ \E place \in PlaceName \cup {"nowhere"} :
              /\ Site(place, Running(o), Found(ReadyAfter(k, st), QueuedFor(o)),
                      Found(WaitersAfter(k, st), WaitsOf(o)),
                      Found(WaitersAfter(k, st), JoinsOf(o)), Found(semWaiters, {o}))
              /\ Fits(o, place)
         /\ Counted(Found(WaitersAfter(k, st), GathersOf(o)),
                    Found(WaitersAfter(k, st), RacesOf(o)), JoinAfter(k, st)[o].remaining)
<1>1. PICK place \in PlaceName \cup {"nowhere"} : At(o, place) /\ Fits(o, place)
  BY DEF Placed, Located
<1>2. Site(place, Running(o), Found(ready, QueuedFor(o)), Found(waiters, WaitsOf(o)),
           Found(waiters, JoinsOf(o)), Found(semWaiters, {o}))
  BY <1>1 DEF At
<1>3. Counted(Found(waiters, GathersOf(o)), Found(waiters, RacesOf(o)), join[o].remaining)
  BY DEF JoinCounts
<1>4. /\ \E later \in {place} \cup (IF place \in {"wait", "join"} THEN {"heap"} ELSE {}) :
            Site(later, Running(o), Found(ReadyAfter(k, st), QueuedFor(o)),
                 Found(WaitersAfter(k, st), WaitsOf(o)),
                 Found(WaitersAfter(k, st), JoinsOf(o)), Found(semWaiters, {o}))
      /\ Counted(Found(WaitersAfter(k, st), GathersOf(o)),
                 Found(WaitersAfter(k, st), RacesOf(o)), JoinAfter(k, st)[o].remaining)
  BY <1>2, <1>3, WakePlaces
<1>5. PICK later \in {place} \cup (IF place \in {"wait", "join"} THEN {"heap"} ELSE {}) :
            Site(later, Running(o), Found(ReadyAfter(k, st), QueuedFor(o)),
                 Found(WaitersAfter(k, st), WaitsOf(o)),
                 Found(WaitersAfter(k, st), JoinsOf(o)), Found(semWaiters, {o}))
  BY <1>4
<1>6. later \in PlaceName \cup {"nowhere"} /\ (later = "nowhere" <=> place = "nowhere")
  BY DEF PlaceName
<1>7. Fits(o, later)
  BY <1>1, <1>6 DEF Fits
<1>. QED  BY <1>4, <1>5, <1>6, <1>7

(* The join counts after k reached st, or nothing happened.                    *)
LEMMA WakeCounts ==
  ASSUME TypeOK, Placed, JoinCounts, pc \notin Ended, NEW k \in Waitable, NEW st \in Terminal,
         (waiters' = WaitersAfter(k, st) /\ join' = JoinAfter(k, st)) \/ UNCHANGED parked
  PROVE  JoinCounts'
<1>1. CASE waiters' = WaitersAfter(k, st) /\ join' = JoinAfter(k, st)
  <2>1. ASSUME NEW o \in Owner
        PROVE  Counted(Found(waiters', GathersOf(o)), Found(waiters', RacesOf(o)),
                       join'[o].remaining)
    BY <1>1, WakeStep
  <2>. QED  BY <2>1 DEF JoinCounts
<1>. QED  BY <1>1, CountsKept

(* k reached st, and user code keeps running, or not.                          *)
LEMMA WakeStays ==
  ASSUME Safe, pc \notin Ended, NEW k \in Waitable, NEW st \in Terminal,
         ResolveAndWake(k, st), status[k] \in {"pending", "running"},
         UNCHANGED <<semWaiters, cur>>,
         pc' \in {"user", "effect"} <=> pc \in {"user", "effect"},
         NEW o \in Owner, st = "cancelled" \/ o # k
  PROVE  Located(o)'
<1>1. PICK place \in PlaceName \cup {"nowhere"} :
        /\ Site(place, Running(o), Found(ReadyAfter(k, st), QueuedFor(o)),
                Found(WaitersAfter(k, st), WaitsOf(o)),
                Found(WaitersAfter(k, st), JoinsOf(o)), Found(semWaiters, {o}))
        /\ Fits(o, place)
  BY WakeStep DEF Safe
<1>2. ready' = ReadyAfter(k, st) /\ waiters' = WaitersAfter(k, st) /\ semWaiters' = semWaiters
      /\ status' = [status EXCEPT ![k] = st]
  BY DEF ResolveAndWake, Resolve
<1>3. Running(o)' <=> Running(o)
  BY DEF Running
<1>4. At(o, place)'
  BY <1>1, <1>2, <1>3 DEF At, Site
<1>5. o \in Task => \/ status'[o] = status[o]
                    \/ status[o] \in {"pending", "running"} /\ status'[o] = "cancelled"
  BY <1>2 DEF Safe, TypeOK, Waitable
<1>6. Fits(o, place)'
  BY <1>1, <1>5, FitsKept
<1>. QED  BY <1>4, <1>6 DEF Located

(* Nothing moves.                                                              *)
LEMMA NothingMoves ==
  ASSUME Safe, pc \notin Ended, UNCHANGED <<status, parked, ready, semWaiters, cur>>,
         pc' \in {"user", "effect"} <=> pc \in {"user", "effect"}
  PROVE  Placed' /\ JoinCounts'
<1>1. ASSUME NEW o \in Owner PROVE Located(o)'
  <2>1. \A place : Fits(o, place) => Fits(o, place)'
    BY FitsKept
  <2>. QED  BY <2>1, Calm DEF Safe, parked
<1>. QED  BY <1>1, CountsKept DEF Placed, Safe

(* An effect answered at once leaves its owner running and everybody else     *)
(* where they were.                                                           *)
LEMMA AnswerPlaced ==
  ASSUME Safe, pc \in {"user", "effect"}, Answer PROVE Placed' /\ JoinCounts'
<1>1. /\ UNCHANGED <<ready, semWaiters, cur, status, parked>> /\ pc \notin Ended
      /\ pc' \in {"user", "effect"}
  BY DEF Answer, Reply, objs, heap, sems, Ended
<1>. QED  BY <1>1, NothingMoves

(* The effect answered after an allocation.                                    *)
LEMMA CreatePlaced ==
  ASSUME Safe, pc \in {"user", "effect"},
         \/ \E p \in Promise \cup ExtPromise : CreatePromise(p) \/ CreateExternalPromise(p)
         \/ \E s \in Sem, n \in PermitCounts : CreateSemaphore(s, n)
  PROVE  Placed' /\ JoinCounts'
<1>1. /\ UNCHANGED <<waiters, ready, semWaiters, cur, parked>> /\ pc \notin Ended
      /\ pc' \in {"user", "effect"}
  BY DEF CreatePromise, CreateExternalPromise, CreateSemaphore, Reply, parked, heap, sems, Ended
<1>2. ASSUME NEW o \in Owner PROVE Located(o)'
  <2>1. TypeOK /\ (o \in Owner => o \notin Promise \cup ExtPromise)
    BY DistinctIds DEF Safe, Owner, Waitable
  <2>2. \A place : Fits(o, place) => Fits(o, place)'
    <3>1. CASE \E p \in Promise \cup ExtPromise : CreatePromise(p) \/ CreateExternalPromise(p)
      <4>1. PICK p \in Promise \cup ExtPromise : Allocate(p)
        BY <3>1 DEF CreatePromise, CreateExternalPromise
      <4>2. p \in Waitable /\ o # p
        BY <2>1 DEF Waitable
      <4>. QED  BY <2>1, <4>1, <4>2, SweptFits
    <3>2. CASE \E s \in Sem, n \in PermitCounts : CreateSemaphore(s, n)
      <4>1. status' = Swept \/ status' = status
        BY <3>2 DEF CreateSemaphore
      <4>2. status' = status => \A place : Fits(o, place) => Fits(o, place)'
        BY FitsKept
      <4>3. ASSUME status' = Swept, NEW place, Fits(o, place) PROVE Fits(o, place)'
        <5>1. o \in Task => \/ status'[o] = status[o]
                            \/ status[o] \in {"completed", "failed"} /\ status'[o] = "swept"
          BY <4>3 DEF Swept, Sweepable, Waitable
        <5>. QED  BY <4>3, <5>1, FitsKept
      <4>. QED  BY <4>1, <4>2, <4>3
    <3>. QED  BY <3>1, <3>2
  <2>. QED  BY <1>1, <2>2, Calm DEF Safe
<1>. QED  BY <1>1, <1>2, CountsKept DEF Placed, Safe

(* Spawn puts the child and the spawner, each once, into the ready heap.      *)
LEMMA SpawnPlaced ==
  ASSUME Safe, NEW t \in Task, NEW prio \in SpawnPriorities, NEW daemon \in DaemonFlags,
         Spawn(t, prio, daemon)
  PROVE  Placed' /\ JoinCounts'
<1> DEFINE e == MkEntry("new", t)
           f == MkEntry("resume", cur)
           g == Enqueue(ready, e, prio)
<1>1. /\ TypeOK /\ pc \in {"user", "effect"} /\ pc \notin Ended /\ t \in Owner /\ t \in Waitable
      /\ prio \in Priority /\ pc' = "drain" /\ cur \in Owner /\ Allocate(t)
      /\ UNCHANGED <<parked, waiters, semWaiters, cur>>
      /\ ready' = Enqueue(g, f, TaskPriority(cur))
  BY Parameters DEF Safe, Spawn, Handle, Suspend, Owner, Waitable, TypeOK, Ended, parked, sems
<1>2. /\ e \in Entry /\ f \in Entry /\ TaskPriority(cur) \in Priority /\ ready \in Heaps
      /\ \A o : (e \in QueuedFor(o) <=> o = t) /\ (f \in QueuedFor(o) <=> o = cur)
  <2>1. /\ e \in Entry /\ f \in Entry /\ TaskPriority(cur) \in Priority /\ ready \in Heaps
        /\ e.kind = "new" /\ f.kind = "resume"
    BY <1>1, EntriesTyped
  <2>2. e.owner = t /\ f.owner = cur
    BY DEF MkEntry
  <2> HIDE DEF e, f
  <2>. QED  BY <2>1, <2>2 DEF QueuedFor
<1> HIDE DEF e, f
<1>3. /\ g \in Heaps
      /\ \A o : /\ o # t => Found(g, QueuedFor(o)) = Found(ready, QueuedFor(o))
                /\ o = t /\ Found(ready, QueuedFor(o)) = {} => Single(Found(g, QueuedFor(o)))
  BY <1>1, <1>2, EnqueueKeeps
<1> HIDE DEF g
<1>4. \A o : /\ o # cur => Found(ready', QueuedFor(o)) = Found(g, QueuedFor(o))
             /\ o = cur /\ Found(g, QueuedFor(o)) = {} => Single(Found(ready', QueuedFor(o)))
  <2>1. PICK q \in Priority : q = TaskPriority(cur)
    BY <1>2
  <2>. QED  BY <1>1, <1>2, <1>3, <2>1, EnqueueKeeps
<1>5. ASSUME NEW o \in Owner PROVE Located(o)'
  <2>1. PICK place \in PlaceName \cup {"nowhere"} : At(o, place) /\ Fits(o, place)
    BY <1>1 DEF Safe, Placed, Located
  <2>2. o = cur <=> place = "run"
    BY <1>1, <2>1 DEF At, Site, Running
  <2>3. t # cur /\ (o = t => place = "nowhere")
    <3>1. status[t] = "unborn" /\ t # Root
      BY <1>1, DistinctIds DEF Allocate
    <3>2. o = t => place = "nowhere"
      BY <2>1, <3>1 DEF Fits, Unfinished, IsCancelled
    <3>3. \E spot : At(cur, spot) /\ Fits(cur, spot) /\ spot = "run"
      BY <1>1 DEF Safe, Placed, Located, At, Site, Running
    <3>4. cur # t
      BY <3>1, <3>3 DEF Fits, Unfinished, IsCancelled
    <3>. QED  BY <3>2, <3>4
  <2>4. ~Running(o)'
    BY <1>1 DEF Running
  <2>. PICK later \in PlaceName \cup {"nowhere"} :
          later = IF o \in {t, cur} THEN "heap" ELSE place
    BY DEF PlaceName
  <2>5. At(o, later)'
    <3>1. Found(waiters', WaitsOf(o)) = Found(waiters, WaitsOf(o))
          /\ Found(waiters', JoinsOf(o)) = Found(waiters, JoinsOf(o))
          /\ Found(semWaiters', {o}) = Found(semWaiters, {o})
      BY <1>1
    <3>. QED  BY <1>3, <1>4, <2>1, <2>2, <2>3, <2>4, <3>1 DEF At, Site
  <2>6. Fits(o, later)'
    <3>1. CASE o = t
      BY <1>1, <3>1 DEF Fits, Unfinished, Allocate, Swept, TypeOK
    <3>2. CASE o # t
      <4>1. Fits(o, place)'
        BY <1>1, <2>1, <3>2, SweptFits
      <4>. QED  BY <2>2, <3>2, <4>1 DEF Fits
    <3>. QED  BY <3>1, <3>2
  <2>. QED  BY <2>5, <2>6 DEF Located, PlaceName
<1>. QED  BY <1>1, <1>5, CountsKept DEF Placed, Safe

(* Only the owner that performs the effect runs.                               *)
LEMMA AtRun ==
  ASSUME Safe, pc \notin Ended, NEW o \in Owner
  PROVE  \E place \in PlaceName \cup {"nowhere"} :
           /\ At(o, place) /\ Fits(o, place)
           /\ place = "run" <=> o = cur /\ pc \in {"user", "effect"}
<1>1. PICK place \in PlaceName \cup {"nowhere"} : At(o, place) /\ Fits(o, place)
  BY DEF Safe, Placed, Located
<1>. QED  BY <1>1 DEF At, Site, Running

(* Wait puts its owner in one place: the heap when the answer is known, one   *)
(* registration when it is not.                                               *)
LEMMA WaitPlaced ==
  ASSUME Safe, HeapInOrder, NEW k \in Waitable, NEW prio \in WaitPriorities, Wait(k, prio)
  PROVE  Placed' /\ JoinCounts'
<1>1. pc \in {"user", "effect"} /\ pc \notin Ended /\ TypeOK /\ cur \in Owner /\ ready \in Heaps
      /\ prio \in Priority \cup {OwnPriority}
  BY EntriesTyped, Parameters DEF Wait, Handle, Ended, Safe, TypeOK
<1>2. CASE Answer
  BY <1>1, <1>2, AnswerPlaced
<1>3. CASE WaitPending(k, prio)
  <2>1. UNCHANGED <<objs, join, held, sems, cur>> /\ pc' = "drain" /\ status' = status
        /\ semWaiters' = semWaiters
    BY <1>3 DEF WaitPending, Suspend, objs, sems
  <2>2. PICK r \in Registration :
          /\ waiters' = [waiters EXCEPT ![k] = Append(@, r)]
          /\ r.owner = cur /\ r.type \in {"wait", "wait_external"}
    <3>1. \A type \in {"wait", "wait_external"} : \A wake \in Priority \cup {OwnPriority} :
             [type |-> type, owner |-> cur, wake |-> wake] \in Registration
      BY <1>1 DEF Registration
    <3>2. \E type \in {"wait", "wait_external"} : \E wake \in Priority \cup {OwnPriority} :
             Park(k, type, wake)
      BY <1>1, <1>3 DEF WaitPending
    <3>. QED  BY <3>1, <3>2 DEF Park
  <2>3. waiters \in [Waitable -> Seq(Registration)]
    BY <1>1 DEF TypeOK
  <2>4. \A X : /\ r \notin X => Found(waiters', X) = Found(waiters, X)
               /\ r \in X /\ Found(waiters, X) = {} => Single(Found(waiters', X))
    <3>1. ASSUME NEW X
          PROVE  LET g == [waiters EXCEPT ![k] = Append(@, r)] IN
                 /\ g \in [Waitable -> Seq(Registration)]
                 /\ r \notin X => Found(g, X) = Found(waiters, X)
                 /\ r \in X /\ Found(waiters, X) = {} => Single(Found(g, X))
      BY <2>3, FamilyAppend
    <3>. QED  BY <2>2, <3>1
  <2>5. \A o : /\ r \in WaitsOf(o) <=> o = cur
               /\ r \notin JoinsOf(o) /\ r \notin GathersOf(o) /\ r \notin RacesOf(o)
    BY <2>2 DEF WaitsOf, JoinsOf, GathersOf, RacesOf
  <2>6. \A o : Found(ready', QueuedFor(o)) = Found(ready, QueuedFor(o))
    <3>1. CASE ready' = Enqueue(ready, Placeholder(cur, k), PRIORITY_EXTERNAL_WAIT)
      <4>1. Placeholder(cur, k) \in Entry /\ PRIORITY_EXTERNAL_WAIT \in Priority
            /\ \A o : Placeholder(cur, k) \notin QueuedFor(o)
        BY <1>1, EntriesTyped DEF QueuedFor, Priority
      <4>. QED  BY <1>1, <3>1, <4>1, EnqueueKeeps
    <3>. QED  BY <1>3, <3>1 DEF WaitPending
  <2>7. ASSUME NEW o \in Owner PROVE Located(o)'
    <3>1. PICK place \in PlaceName \cup {"nowhere"} :
            /\ At(o, place) /\ Fits(o, place)
            /\ place = "run" <=> o = cur /\ pc \in {"user", "effect"}
      BY <1>1, AtRun
    <3>2. PICK later \in PlaceName \cup {"nowhere"} : later = IF o = cur THEN "wait" ELSE place
      BY DEF PlaceName
    <3>3. ~Running(o)'
      BY <2>1 DEF Running
    <3>4. Found(semWaiters', {o}) = Found(semWaiters, {o})
      BY <2>1
    <3>5. At(o, later)'
      BY <1>1, <2>4, <2>5, <2>6, <3>1, <3>2, <3>3, <3>4 DEF At, Site
    <3>6. Fits(o, place)'
      BY <2>1, <3>1, FitsKept
    <3>7. Fits(o, later)'
      BY <1>1, <3>1, <3>2, <3>6 DEF Fits
    <3>. QED  BY <3>5, <3>7 DEF Located
  <2>8. JoinCounts'
    BY <2>1, <2>4, <2>5 DEF JoinCounts, Safe
  <2>. QED  BY <2>7, <2>8 DEF Placed
<1>. QED  BY <1>2, <1>3 DEF Wait

(* A parked Gather or Race has one registration per key and its owner is      *)
(* nowhere else.                                                              *)
LEMMA JoinPlaced ==
  ASSUME Safe, HeapInOrder, pc \in {"user", "effect"},
         NEW m \in Nat, NEW ks \in [1..m -> Waitable], NEW I \in SUBSET (1..m), I # {},
         NEW type \in {"gather", "race"}, NEW remaining \in Int,
         type = "gather" => remaining = Cardinality(I),
         RegisterJoin(type, ks, I, remaining)
  PROVE  Placed' /\ JoinCounts'
<1>1. pc \notin Ended /\ TypeOK /\ cur \in Owner
  BY DEF Ended, Safe, TypeOK
<1>2. pc' = "drain" /\ cur' = cur /\ status' = status /\ semWaiters' = semWaiters
  BY DEF RegisterJoin, Suspend, objs, sems
<1>3. PICK r \in Registration : r = [type |-> type, owner |-> cur, wake |-> OwnPriority]
  BY <1>1 DEF Registration
<1>4. /\ join'[cur].remaining = remaining
      /\ \A o \in Owner \ {cur} : join'[o] = join[o]
      /\ \A o : Found(ready', QueuedFor(o)) = Found(ready, QueuedFor(o))
      /\ IsFiniteSet(I)
      /\ \A X : /\ r \notin X => Found(waiters', X) = Found(waiters, X)
                /\ r \in X /\ Found(waiters, X) = {} => ExistsBijection(Found(waiters', X), I)
  <2>1. JoinRecorded(m, ks, I, type, remaining)
    BY <1>1, JoinRegistered
  <2>2. Registering(type) = r
    BY <1>3 DEF Registering
  <2>. QED  BY <2>1, <2>2 DEF JoinRecorded
<1>5. \A o : /\ r \in JoinsOf(o) <=> o = cur
             /\ r \in GathersOf(o) <=> o = cur /\ type = "gather"
             /\ r \in RacesOf(o) <=> o = cur /\ type = "race"
             /\ r \notin WaitsOf(o)
  BY <1>3 DEF WaitsOf, JoinsOf, GathersOf, RacesOf
<1>6. ASSUME NEW o \in Owner PROVE Located(o)'
  <2>1. PICK place \in PlaceName \cup {"nowhere"} :
          /\ At(o, place) /\ Fits(o, place)
          /\ place = "run" <=> o = cur /\ pc \in {"user", "effect"}
    BY <1>1, AtRun
  <2>2. PICK later \in PlaceName \cup {"nowhere"} : later = IF o = cur THEN "join" ELSE place
    BY DEF PlaceName
  <2>3. ~Running(o)' /\ Found(semWaiters', {o}) = Found(semWaiters, {o})
    BY <1>2 DEF Running
  <2>4. o = cur /\ Found(waiters, JoinsOf(o)) = {} => Found(waiters', JoinsOf(o)) # {}
    <3>1. ASSUME o = cur, Found(waiters, JoinsOf(o)) = {}
          PROVE  Found(waiters', JoinsOf(o)) # {}
      <4>1. ExistsBijection(Found(waiters', JoinsOf(o)), I)
        BY <1>4, <1>5, <3>1
      <4>. QED  BY <4>1, BijectionAlike
    <3>. QED  BY <3>1
  <2>5. At(o, later)'
    BY <1>4, <1>5, <2>1, <2>2, <2>3, <2>4 DEF At, Site
  <2>6. Fits(o, place)'
    BY <1>2, <2>1, FitsKept
  <2>7. Fits(o, later)'
    BY <2>1, <2>2, <2>6 DEF Fits
  <2>. QED  BY <2>5, <2>7 DEF Located
<1>7. ASSUME NEW o \in Owner
      PROVE  Counted(Found(waiters', GathersOf(o)), Found(waiters', RacesOf(o)), join'[o].remaining)
  <2>1. CASE o # cur
    BY <1>4, <1>5, <2>1 DEF Safe, JoinCounts
  <2>2. CASE o = cur
    <3>1. Found(waiters, JoinsOf(o)) = {}
      <4>1. PICK place : At(o, place) /\ place = "run"
        BY <1>1, <2>2, AtRun
      <4>. QED  BY <4>1 DEF At, Site
    <3>2. Found(waiters, GathersOf(o)) = {} /\ Found(waiters, RacesOf(o)) = {}
      <4>1. GathersOf(o) \subseteq JoinsOf(o) /\ RacesOf(o) \subseteq JoinsOf(o)
        BY DEF GathersOf, RacesOf, JoinsOf
      <4>. QED  BY <3>1, <4>1, FoundUnion
    <3>3. CASE type = "race"
      <4>1. Found(waiters', GathersOf(o)) = {}
        BY <1>4, <1>5, <2>2, <3>2, <3>3
      <4>. QED  BY <4>1 DEF Counted
    <3>4. CASE type = "gather"
      <4>1. ExistsBijection(Found(waiters', GathersOf(o)), I)
        BY <1>4, <1>5, <2>2, <3>2, <3>4
      <4>2. Found(waiters', RacesOf(o)) = {}
        BY <1>4, <1>5, <2>2, <3>2, <3>4
      <4>3. IsFiniteSet(Found(waiters', GathersOf(o)))
            /\ Cardinality(Found(waiters', GathersOf(o))) = Cardinality(I)
        <5>1. ExistsBijection(I, Found(waiters', GathersOf(o)))
          BY <4>1, Fun_ExistsBijSymmetric
        <5>. QED  BY <1>4, <5>1, FS_Bijection
      <4>. QED  BY <1>4, <2>2, <3>4, <4>2, <4>3 DEF Counted
    <3>. QED  BY <3>3, <3>4
  <2>. QED  BY <2>1, <2>2
<1>. QED  BY <1>6, <1>7 DEF Placed, JoinCounts

(* Gather and Race put their owner in one place: the program, the heap or     *)
(* the registrations.                                                         *)
LEMMA GatherPlaced ==
  ASSUME Safe, HeapInOrder, NEW ks \in KeyLists, Gather(ks) \/ Race(ks)
  PROVE  Placed' /\ JoinCounts'
<1>1. TypeOK /\ pc \in {"user", "effect"}
  BY DEF Safe, Gather, Race, Handle
<1>2. PICK m \in Nat : ks \in [1..m -> Waitable]
  BY <1>1, KeyListTyped
<1>3. Pending(ks) \in SUBSET (1..m) /\ Cardinality(Pending(ks)) \in Int /\ DOMAIN ks = 1..m
  BY <1>2, PendingKeys
<1>4. CASE Answer
  BY <1>1, <1>4, AnswerPlaced
<1>5. CASE Gather(ks) /\ ~Answer
  <2>1. RegisterJoin("gather", ks, Pending(ks), Cardinality(Pending(ks)))
        /\ ~\A i \in DOMAIN ks : status[ks[i]] \in Terminal
    BY <1>5 DEF Gather
  <2>2. Pending(ks) # {}
    BY <2>1 DEF Pending
  <2>. QED  BY <1>1, <1>2, <1>3, <2>1, <2>2, JoinPlaced
<1>6. CASE Race(ks) /\ ~Answer
  <2>1. RegisterJoin("race", ks, DOMAIN ks, 0) /\ ks # <<>>
    BY <1>6 DEF Race, RaceAnswered
  <2>2. DOMAIN ks # {} /\ DOMAIN ks \in SUBSET (1..m)
    BY <1>2, <1>3, <2>1
  <2>3. 0 \in Int /\ "race" # "gather"
    OBVIOUS
  <2>. QED  BY <1>1, <1>2, <2>1, <2>2, <2>3, JoinPlaced
<1>. QED  BY <1>4, <1>5, <1>6

(* Cancel wakes whoever waited for the cancelled task; the task itself stays  *)
(* where it is until it is popped or woken.                                   *)
LEMMA CancelPlaced == ASSUME Safe, NEW t \in Task, Cancel(t) PROVE Placed' /\ JoinCounts'
<1>1. /\ TypeOK /\ Placed /\ JoinCounts /\ pc \notin Ended /\ t \in Waitable
      /\ "cancelled" \in Terminal
      /\ UNCHANGED <<semWaiters, cur>>
      /\ pc' \in {"user", "effect"} /\ pc \in {"user", "effect"}
  BY DEF Safe, Cancel, Handle, Reply, Waitable, Terminal, Ended, sems
<1>2. CASE ResolveAndWake(t, "cancelled") /\ status[t] \in {"pending", "running"}
  <2>1. JoinCounts'
    BY <1>1, <1>2, WakeCounts DEF ResolveAndWake, Resolve
  <2>. QED  BY <1>1, <1>2, <2>1, WakeStays DEF Placed
<1>3. CASE UNCHANGED <<status, parked, ready>>
  BY <1>1, <1>3, NothingMoves
<1>. QED  BY <1>2, <1>3 DEF Cancel

(* Draining a completion from the external queue wakes the waiters of that    *)
(* promise, and nobody else.                                                  *)
LEMMA DrainPlaced == ASSUME Safe, DrainOne \/ Unblock PROVE Placed' /\ JoinCounts'
<1>1. TypeOK /\ Placed /\ JoinCounts
  BY DEF Safe
<1>2. extq # <<>> /\ extq \in Seq([key : ExtPromise, result : {"completed", "failed"}])
  BY <1>1 DEF TypeOK, DrainOne, Unblock
<1>3. PICK m \in [key : ExtPromise, result : {"completed", "failed"}] : m = Head(extq)
  <2> DEFINE T == [key : ExtPromise, result : {"completed", "failed"}]
  <2>1. extq \in Seq(T) /\ extq # <<>>
    BY <1>2
  <2> HIDE DEF T
  <2>2. Head(extq) \in T
    BY <2>1
  <2>. QED  BY <2>2 DEF T
<1>4. m.key \in Waitable /\ m.result \in Terminal /\ m.key \notin Owner
  BY DistinctIds DEF Waitable, Terminal, Owner
<1>5. /\ pc \notin Ended /\ UNCHANGED <<semWaiters, cur>>
      /\ pc' \in {"user", "effect"} <=> pc \in {"user", "effect"}
  BY DEF DrainOne, Unblock, Ended, sems
<1>6. CASE ResolveAndWake(m.key, m.result) /\ status[m.key] = "pending"
  <2>1. JoinCounts'
    BY <1>1, <1>4, <1>5, <1>6, WakeCounts DEF ResolveAndWake, Resolve
  <2>2. ASSUME NEW o \in Owner PROVE Located(o)'
    BY <1>4, <1>5, <1>6, WakeStays
  <2>. QED  BY <2>1, <2>2 DEF Placed
<1>7. CASE UNCHANGED <<status, parked, ready>>
  BY <1>5, <1>7, NothingMoves
<1>. QED  BY <1>3, <1>6, <1>7 DEF DrainOne, Unblock

(* CompletePromise and FailPromise move the waiters to the heap, and their    *)
(* owner with them.                                                           *)
LEMMA SettlePlaced ==
  ASSUME Safe, NEW p \in Promise \cup ExtPromise, NEW st \in {"completed", "failed"},
         SettlePromise(p, st)
  PROVE  Placed' /\ JoinCounts'
<1>1. TypeOK /\ Placed /\ JoinCounts /\ pc \in {"user", "effect"} /\ pc \notin Ended
      /\ p \in Waitable /\ st \in Terminal /\ p \notin Owner /\ cur \in Owner
  BY DistinctIds DEF Safe, SettlePromise, Handle, Ended, Waitable, Terminal, Owner, TypeOK
<1>2. CASE Answer
  BY <1>1, <1>2, AnswerPlaced
<1>3. CASE /\ Resolve(p, st)
           /\ ready' = Enqueue(ReadyAfter(p, st), MkEntry("resume", cur), CompleterPriority(p, st))
           /\ Suspend
           /\ UNCHANGED <<meta, handles, held, sems, ext>>
  <2>1. JoinCounts'
    BY <1>1, <1>3, WakeCounts DEF Resolve
  <2>2. PICK h \in Heaps : h = ReadyAfter(p, st)
    BY <1>1, ReadyWoken DEF Heaps
  <2>3. PICK e \in Entry : /\ e = MkEntry("resume", cur)
                           /\ \A o : e \in QueuedFor(o) <=> o = cur
    <3>1. MkEntry("resume", cur) \in Entry /\ MkEntry("resume", cur).kind = "resume"
          /\ MkEntry("resume", cur).owner = cur
      BY <1>1, EntriesTyped DEF MkEntry
    <3>. QED  BY <3>1 DEF QueuedFor
  <2>4. PICK q \in Priority : q = CompleterPriority(p, st)
    BY <1>1, CompleterTyped
  <2>5. ready' = Enqueue(h, e, q)
    BY <1>3, <2>2, <2>3, <2>4
  <2>6. \A o : /\ o # cur => Found(ready', QueuedFor(o)) = Found(h, QueuedFor(o))
               /\ o = cur /\ Found(h, QueuedFor(o)) = {} => Single(Found(ready', QueuedFor(o)))
    BY <2>3, <2>5, EnqueueKeeps
  <2>7. ASSUME NEW o \in Owner PROVE Located(o)'
    <3>1. PICK place \in PlaceName \cup {"nowhere"} :
            /\ Site(place, Running(o), Found(h, QueuedFor(o)),
                    Found(WaitersAfter(p, st), WaitsOf(o)),
                    Found(WaitersAfter(p, st), JoinsOf(o)), Found(semWaiters, {o}))
            /\ Fits(o, place)
      BY <1>1, <2>2, WakeStep
    <3>2. place = "run" <=> o = cur
      BY <1>1, <3>1 DEF Site, Running
    <3>3. PICK later \in PlaceName \cup {"nowhere"} : later = IF o = cur THEN "heap" ELSE place
      BY DEF PlaceName
    <3>4. ~Running(o)' /\ waiters' = WaitersAfter(p, st) /\ semWaiters' = semWaiters
          /\ status' = [status EXCEPT ![p] = st]
      BY <1>3 DEF Running, Suspend, Resolve, sems
    <3>5. At(o, later)'
      BY <2>6, <3>1, <3>2, <3>3, <3>4 DEF At, Site
    <3>6. o \in Task => status'[o] = status[o]
      BY <1>1, <3>4 DEF TypeOK
    <3>7. Fits(o, place)'
      BY <3>1, <3>6, FitsKept
    <3>8. Fits(o, later)'
      BY <3>2, <3>3, <3>7 DEF Fits
    <3>. QED  BY <3>5, <3>8 DEF Located
  <2>. QED  BY <2>1, <2>7 DEF Placed
<1>. QED  BY <1>2, <1>3 DEF SettlePromise

(* A task that ends leaves; the run that ends has no places left to tell.      *)
LEMMA EndPlaced == ASSUME Safe, OwnerEnds PROVE Placed' /\ JoinCounts'
<1>1. TypeOK /\ Placed /\ JoinCounts
  BY DEF Safe
<1>2. ASSUME NEW st \in {"completed", "failed"}, TaskCompleted(st) PROVE Placed' /\ JoinCounts'
  <2>1. /\ pc \in {"user", "effect"} /\ pc \notin Ended /\ pc' = "drain" /\ cur \in Task
        /\ cur \in Waitable /\ cur \in Owner /\ st \in Terminal /\ UNCHANGED <<cur, semWaiters>>
    BY <1>2 DEF TaskCompleted, Suspend, Ended, Waitable, Owner, Terminal, sems
  <2>2. CASE IsCancelled(cur)
    <3>1. UNCHANGED <<status, parked, ready, waiters>>
      BY <1>2, <2>2 DEF TaskCompleted, parked
    <3>2. ASSUME NEW o \in Owner PROVE Located(o)'
      <4>1. PICK place \in PlaceName \cup {"nowhere"} :
              /\ At(o, place) /\ Fits(o, place)
              /\ place = "run" <=> o = cur /\ pc \in {"user", "effect"}
        BY <2>1, AtRun
      <4>2. PICK later \in PlaceName \cup {"nowhere"} : later = IF o = cur THEN "nowhere" ELSE place
        BY DEF PlaceName
      <4>3. ~Running(o)'
        BY <2>1 DEF Running
      <4>4. At(o, later)'
        <5>1. Found(ready', QueuedFor(o)) = Found(ready, QueuedFor(o))
              /\ Found(waiters', WaitsOf(o)) = Found(waiters, WaitsOf(o))
              /\ Found(waiters', JoinsOf(o)) = Found(waiters, JoinsOf(o))
              /\ Found(semWaiters', {o}) = Found(semWaiters, {o})
          BY <2>1, <3>1
        <5>. QED  BY <2>1, <4>1, <4>2, <4>3, <5>1 DEF At, Site
      <4>5. Fits(o, place)'
        BY <3>1, <4>1, FitsKept
      <4>6. Fits(o, later)'
        BY <2>1, <2>2, <3>1, <4>2, <4>5, DistinctIds DEF Fits, IsCancelled, Unfinished, Waitable
      <4>. QED  BY <4>4, <4>6 DEF Located
    <3>. QED  BY <1>1, <3>1, <3>2, CountsKept DEF Placed
  <2>3. CASE ~IsCancelled(cur)
    <3>1. /\ ready' = ReadyAfter(cur, st) /\ waiters' = WaitersAfter(cur, st)
          /\ status' = [status EXCEPT ![cur] = st] /\ join' = JoinAfter(cur, st)
      BY <1>2, <2>3 DEF TaskCompleted, ResolveAndWake, Resolve
    <3>2. JoinCounts'
      BY <1>1, <2>1, <3>1, WakeCounts
    <3>3. ASSUME NEW o \in Owner PROVE Located(o)'
      <4>1. PICK place \in PlaceName \cup {"nowhere"} :
              /\ Site(place, Running(o), Found(ReadyAfter(cur, st), QueuedFor(o)),
                      Found(WaitersAfter(cur, st), WaitsOf(o)),
                      Found(WaitersAfter(cur, st), JoinsOf(o)), Found(semWaiters, {o}))
              /\ Fits(o, place)
        BY <1>1, <2>1, WakeStep
      <4>2. place = "run" <=> o = cur
        BY <2>1, <4>1 DEF Site, Running
      <4>3. PICK later \in PlaceName \cup {"nowhere"} : later = IF o = cur THEN "nowhere" ELSE place
        BY DEF PlaceName
      <4>4. ~Running(o)' /\ semWaiters' = semWaiters
        BY <2>1 DEF Running
      <4>5. At(o, later)'
        BY <3>1, <4>1, <4>2, <4>3, <4>4 DEF At, Site
      <4>6. Fits(o, later)'
        <5>1. CASE o = cur
          <6>1. status'[o] = st /\ o # Root
            BY <1>1, <2>1, <3>1, <5>1, DistinctIds DEF TypeOK, Waitable
          <6>. QED  BY <4>3, <5>1, <6>1 DEF Fits, Unfinished
        <5>2. CASE o # cur
          <6>1. o \in Task => status'[o] = status[o]
            BY <1>1, <3>1, <5>2 DEF TypeOK, Waitable
          <6>. QED  BY <4>1, <4>3, <5>2, <6>1, FitsKept
        <5>. QED  BY <5>1, <5>2
      <4>. QED  BY <4>5, <4>6 DEF Located
    <3>. QED  BY <3>2, <3>3 DEF Placed
  <2>. QED  BY <2>2, <2>3
<1>3. ASSUME RootReturn \/ RootRaise PROVE Placed' /\ JoinCounts'
  <2>1. pc' \in Ended /\ UNCHANGED parked
    BY <1>3 DEF RootReturn, RootRaise, Ended
  <2>. QED  BY <1>1, <2>1, CountsKept DEF Placed
<1>4. ASSUME TaskInterrupted PROVE Placed' /\ JoinCounts'
  <2>1. /\ pc' \in Ended /\ pc \notin Ended /\ cur \in Waitable /\ "failed" \in Terminal
        /\ (waiters' = WaitersAfter(cur, "failed") /\ join' = JoinAfter(cur, "failed"))
             \/ UNCHANGED parked
    BY <1>4 DEF TaskInterrupted, Ended, Waitable, Terminal, ResolveAndWake, Resolve
  <2>. QED  BY <1>1, <2>1, WakeCounts DEF Placed
<1>. QED  BY <1>2, <1>3, <1>4 DEF OwnerEnds

(* AcquireSemaphore puts its owner in the heap or in one queue.               *)
LEMMA AcquirePlaced ==
  ASSUME Safe, NEW s \in Sem, AcquireSemaphore(s) PROVE Placed' /\ JoinCounts'
<1>1. /\ TypeOK /\ pc \in {"user", "effect"} /\ pc \notin Ended /\ cur \in Owner
      /\ UNCHANGED <<status, parked, ready, waiters, cur>>
  BY DEF Safe, AcquireSemaphore, Handle, Ended, TypeOK, Reply, Suspend, objs, parked, heap
<1>2. CASE pc' = "user" /\ UNCHANGED semWaiters
  BY <1>1, <1>2, NothingMoves
<1>3. CASE semWaiters' = [semWaiters EXCEPT ![s] = Append(@, cur)] /\ pc' = "drain"
  <2>1. semWaiters \in [Sem -> Seq(Owner)]
    BY <1>1 DEF TypeOK
  <2>2. ASSUME NEW X
        PROVE  LET g == [semWaiters EXCEPT ![s] = Append(@, cur)] IN
               /\ g \in [Sem -> Seq(Owner)]
               /\ cur \notin X => Found(g, X) = Found(semWaiters, X)
               /\ cur \in X /\ Found(semWaiters, X) = {} => Single(Found(g, X))
    BY <1>1, <2>1, FamilyAppend
  <2>3. ASSUME NEW o \in Owner PROVE Located(o)'
    <3>1. PICK place \in PlaceName \cup {"nowhere"} :
            /\ At(o, place) /\ Fits(o, place)
            /\ place = "run" <=> o = cur /\ pc \in {"user", "effect"}
      BY <1>1, AtRun
    <3>2. PICK later \in PlaceName \cup {"nowhere"} : later = IF o = cur THEN "sem" ELSE place
      BY DEF PlaceName
    <3>3. ~Running(o)' /\ (cur \in {o} <=> cur = o)
      BY <1>3 DEF Running
    <3>4. /\ Found(ready', QueuedFor(o)) = Found(ready, QueuedFor(o))
          /\ Found(waiters', WaitsOf(o)) = Found(waiters, WaitsOf(o))
          /\ Found(waiters', JoinsOf(o)) = Found(waiters, JoinsOf(o))
      BY <1>1
    <3>5. At(o, later)'
      BY <1>1, <1>3, <2>2, <3>1, <3>2, <3>3, <3>4 DEF At, Site
    <3>6. Fits(o, place)'
      BY <1>1, <3>1, FitsKept
    <3>7. Fits(o, later)'
      BY <1>1, <3>1, <3>2, <3>6 DEF Fits
    <3>. QED  BY <3>5, <3>7 DEF Located
  <2>. QED  BY <1>1, <2>3, CountsKept DEF Placed, Safe
<1>. QED  BY <1>2, <1>3 DEF AcquireSemaphore, Reply, Suspend

(* The places after a permit of s was handed over in the heap h, where the     *)
(* continuations of the others are as before.                                  *)
LEMMA GrantStep ==
  ASSUME Safe, pc \notin Ended, NEW s \in Sem, NEW from, Grant(s, from), NEW h \in Heaps,
         NEW o \in Owner, NEW place \in PlaceName \cup {"nowhere"}, Fits(o, place),
         Site(place, Running(o), Found(h, QueuedFor(o)), Found(waiters, WaitsOf(o)),
              Found(waiters, JoinsOf(o)), Found(semWaiters, {o})),
         ready' = Transferred(h, s), UNCHANGED <<status, waiters, cur>>,
         pc' \in {"user", "effect"} <=> pc \in {"user", "effect"}
  PROVE  Located(o)'
<1> DEFINE next == LiveWaiters(s) # {} /\ o = NextOwner(s)
<1>1. TypeOK /\ semWaiters' = [semWaiters EXCEPT ![s] = AfterGrant(s)]
  BY DEF Safe, Grant
<1>2. /\ Found(semWaiters, {o}) = {} => Found(semWaiters', {o}) = {} /\ ~next
      /\ Single(Found(semWaiters, {o})) =>
           /\ Found(semWaiters', {o}) = {} \/ Single(Found(semWaiters', {o}))
           /\ next => Found(semWaiters', {o}) = {}
           /\ ~next /\ ~IsCancelled(o) => Single(Found(semWaiters', {o}))
  BY <1>1, GrantPlaces
<1>3. /\ ~next => Found(ready', QueuedFor(o)) = Found(h, QueuedFor(o))
      /\ next /\ Found(h, QueuedFor(o)) = {} => Single(Found(ready', QueuedFor(o)))
  BY <1>1, Granted
<1>4. next => ~IsCancelled(o)
  BY <1>1, FirstLiveFacts
<1>5. (Running(o)' <=> Running(o)) /\ Found(waiters', WaitsOf(o)) = Found(waiters, WaitsOf(o))
      /\ Found(waiters', JoinsOf(o)) = Found(waiters, JoinsOf(o))
  BY DEF Running
<1>6. Fits(o, place)'
  BY FitsKept
<1> HIDE DEF next
<1>7. CASE next
  <2>1. place = "sem"
    BY <1>2, <1>7 DEF Site
  <2>2. At(o, "heap")'
    BY <1>2, <1>3, <1>5, <1>7, <2>1 DEF At, Site
  <2>3. Fits(o, "heap")'
    BY <1>6, <2>1 DEF Fits
  <2>. QED  BY <2>2, <2>3 DEF Located, PlaceName
<1>8. CASE ~next /\ place = "sem" /\ Found(semWaiters', {o}) = {}
  <2>1. IsCancelled(o)
    BY <1>2, <1>8 DEF Site, Single
  <2>2. At(o, "nowhere")'
    BY <1>3, <1>5, <1>8 DEF At, Site
  <2>3. Fits(o, "nowhere")'
    BY <2>1, DistinctIds DEF Fits, Unfinished, IsCancelled, Waitable
  <2>. QED  BY <2>2, <2>3 DEF Located
<1>9. CASE ~next /\ ~(place = "sem" /\ Found(semWaiters', {o}) = {})
  <2>1. At(o, place)'
    BY <1>2, <1>3, <1>5, <1>9 DEF At, Site
  <2>. QED  BY <1>6, <2>1 DEF Located
<1>. QED  BY <1>7, <1>8, <1>9

(* ReleaseSemaphore moves the first live waiter from the queue to the heap.   *)
LEMMA ReleasePlaced ==
  ASSUME Safe, NEW s \in Sem, ReleaseSemaphore(s) PROVE Placed' /\ JoinCounts'
<1>1. /\ TypeOK /\ pc \in {"user", "effect"} /\ pc \notin Ended /\ pc' = "user"
      /\ UNCHANGED <<status, parked, waiters, cur>> /\ ready \in Heaps
      /\ ready' = Transferred(ready, s)
  BY EntriesTyped DEF Safe, ReleaseSemaphore, Handle, Ended, TypeOK, Reply, objs, parked
<1>2. PICK from : Grant(s, from)
  BY DEF ReleaseSemaphore
<1>3. ASSUME NEW o \in Owner PROVE Located(o)'
  <2>1. PICK place \in PlaceName \cup {"nowhere"} : At(o, place) /\ Fits(o, place)
    BY <1>1, AtRun
  <2>2. Site(place, Running(o), Found(ready, QueuedFor(o)), Found(waiters, WaitsOf(o)),
             Found(waiters, JoinsOf(o)), Found(semWaiters, {o}))
    BY <2>1 DEF At
  <2>. QED  BY <1>1, <1>2, <2>1, <2>2, GrantStep
<1>. QED  BY <1>1, <1>3, CountsKept DEF Placed, Safe

(* Who is queued when the entry e is popped, and what the rest of the heap     *)
(* still holds of it.                                                          *)
LEMMA PopPlaces ==
  ASSUME Frame, Safe, NEW p \in Priority, NEW e, Popping(p, e), NEW o \in Owner
  PROVE  \E place \in PlaceName \cup {"nowhere"} :
           /\ At(o, place) /\ Fits(o, place) /\ place # "run"
           /\ e \in QueuedFor(o) => place = "heap" /\ Found(Without(p), QueuedFor(o)) = {}
           /\ e \notin QueuedFor(o) =>
                Site(place, Running(o), Found(Without(p), QueuedFor(o)), Found(waiters, WaitsOf(o)),
                     Found(waiters, JoinsOf(o)), Found(semWaiters, {o}))
<1>1. pc = "pop" /\ pc \notin Ended
  BY Popped DEF Ended
<1>2. PICK place \in PlaceName \cup {"nowhere"} :
        /\ At(o, place) /\ Fits(o, place)
        /\ place = "run" <=> o = cur /\ pc \in {"user", "effect"}
  BY <1>1, AtRun
<1>3. ASSUME e \in QueuedFor(o) PROVE place = "heap" /\ Found(Without(p), QueuedFor(o)) = {}
  <2>1. Found(ready, QueuedFor(o)) # {}
    <3>1. held[p] + 1 \in Occ(ready[p], QueuedFor(o)) /\ p \in DOMAIN ready
      BY <1>3, Popped DEF Occ, Frame, TypeOK
    <3>. QED  BY <3>1, FoundMember
  <2>2. place = "heap" /\ Single(Found(ready, QueuedFor(o)))
    BY <1>2, <2>1 DEF At, Site
  <2>. QED  BY <1>3, <2>2, Popped
<1>4. ASSUME e \notin QueuedFor(o)
      PROVE  Site(place, Running(o), Found(Without(p), QueuedFor(o)), Found(waiters, WaitsOf(o)),
                  Found(waiters, JoinsOf(o)), Found(semWaiters, {o}))
  <2>1. ExistsBijection(Found(Without(p), QueuedFor(o)), Found(ready, QueuedFor(o)))
    BY <1>4, Popped
  <2>. QED  BY <1>2, <2>1, BijectionAlike DEF At, Site
<1>. QED  BY <1>1, <1>2, <1>3, <1>4

(* The entry run leaves the heap, and its owner is running.                   *)
LEMMA DispatchPlaced ==
  ASSUME Frame, Safe, NEW p \in Priority, NEW e, Dispatch(p, e) PROVE Placed' /\ JoinCounts'
<1>1. /\ Popping(p, e) /\ TypeOK /\ ready' = Without(p) /\ pc' = "user" /\ cur' = e.owner
      /\ UNCHANGED <<parked, waiters, semWaiters>> /\ e.kind # "wait_external"
      /\ ~IsCancelled(e.owner)
      /\ status' = IF e.kind = "new" THEN [status EXCEPT ![e.owner] = "running"] ELSE status
  BY DEF Dispatch, Safe, Runnable, parked, sems
<1>2. e \in Entry /\ e.owner \in Owner /\ pc = "pop"
  BY <1>1, Popped DEF Entry
<1>3. \A o : e \in QueuedFor(o) <=> o = e.owner
  BY <1>1, <1>2 DEF QueuedFor
<1>4. ASSUME NEW o \in Owner PROVE Located(o)'
  <2>1. PICK place \in PlaceName \cup {"nowhere"} :
          /\ At(o, place) /\ Fits(o, place) /\ place # "run"
          /\ o = e.owner => place = "heap" /\ Found(Without(p), QueuedFor(o)) = {}
          /\ o # e.owner =>
                Site(place, Running(o), Found(Without(p), QueuedFor(o)), Found(waiters, WaitsOf(o)),
                     Found(waiters, JoinsOf(o)), Found(semWaiters, {o}))
    BY <1>1, <1>3, PopPlaces
  <2>2. PICK later \in PlaceName \cup {"nowhere"} : later = IF o = e.owner THEN "run" ELSE place
    BY DEF PlaceName
  <2>3. (Running(o)' <=> o = e.owner) /\ ~Running(o)
    BY <1>1, <1>2 DEF Running
  <2>4. /\ Found(ready', QueuedFor(o)) = Found(Without(p), QueuedFor(o))
        /\ Found(waiters', WaitsOf(o)) = Found(waiters, WaitsOf(o))
        /\ Found(waiters', JoinsOf(o)) = Found(waiters, JoinsOf(o))
        /\ Found(semWaiters', {o}) = Found(semWaiters, {o})
    BY <1>1
  <2>5. At(o, later)'
    BY <2>1, <2>2, <2>3, <2>4 DEF At, Site
  <2>6. o \in Task => \/ status'[o] = status[o]
                      \/ status[o] \in {"pending", "running"} /\ status'[o] = "running"
    <3>1. ASSUME o \in Task, o = e.owner PROVE status[o] \in {"pending", "running"}
      BY <1>1, <2>1, <3>1, DistinctIds DEF Fits, Unfinished, Waitable
    <3>. QED  BY <1>1, <3>1 DEF TypeOK, Waitable
  <2>7. Fits(o, place)'
    BY <2>1, <2>6, FitsKept
  <2>8. Fits(o, later)'
    BY <2>1, <2>2, <2>7 DEF Fits
  <2>. QED  BY <2>5, <2>8 DEF Located
<1>. QED  BY <1>1, <1>4, CountsKept DEF Placed, Safe

(* Only entries of cancelled tasks and claimed placeholders are dropped; a    *)
(* permit on its way to a cancelled task goes to the next live waiter.        *)
LEMMA DropPlaced ==
  ASSUME Frame, Safe, NEW p \in Priority, NEW e, DropDead(p, e) \/ DropDeadGrant(p, e)
  PROVE  Placed' /\ JoinCounts'
<1>1. /\ Popping(p, e) /\ TypeOK /\ pc' = pc
      /\ UNCHANGED <<status, parked, waiters, cur>>
      /\ IsCancelled(e.owner) \/ e.claimed
      /\ \/ ready' = Without(p) /\ UNCHANGED semWaiters
         \/ ready' = Transferred(Without(p), e.key) /\ Grant(e.key, e.owner)
            /\ e.kind = "sem_resume"
  BY DEF DropDead, DropDeadGrant, Safe, objs, parked, sems
<1>2. e \in Entry /\ Without(p) \in Heaps /\ pc = "pop" /\ pc \notin Ended
      /\ (e.kind = "sem_resume" => e.key \in Sem) /\ (e.claimed => e.kind = "wait_external")
  BY <1>1, Popped DEF Ended
<1>3. ASSUME NEW o \in Owner, e \in QueuedFor(o) PROVE IsCancelled(o)
  BY <1>1, <1>2, <1>3 DEF QueuedFor
<1>4. ASSUME NEW o \in Owner PROVE Located(o)'
  <2>1. PICK place \in PlaceName \cup {"nowhere"} :
          /\ At(o, place) /\ Fits(o, place) /\ place # "run"
          /\ e \in QueuedFor(o) => place = "heap" /\ Found(Without(p), QueuedFor(o)) = {}
          /\ e \notin QueuedFor(o) =>
                Site(place, Running(o), Found(Without(p), QueuedFor(o)), Found(waiters, WaitsOf(o)),
                     Found(waiters, JoinsOf(o)), Found(semWaiters, {o}))
    BY <1>1, PopPlaces
  <2>2. PICK later \in PlaceName \cup {"nowhere"} :
          later = IF e \in QueuedFor(o) THEN "nowhere" ELSE place
    OBVIOUS
  <2>3. Site(later, Running(o), Found(Without(p), QueuedFor(o)), Found(waiters, WaitsOf(o)),
             Found(waiters, JoinsOf(o)), Found(semWaiters, {o}))
    <3>1. ~Running(o)
      BY <1>2 DEF Running
    <3>. QED  BY <2>1, <2>2, <3>1 DEF At, Site
  <2>4. Fits(o, later)
    <3>1. IsCancelled(o) => ~Unfinished(o)
      BY DistinctIds DEF Unfinished, IsCancelled, Waitable
    <3>. QED  BY <1>3, <2>1, <2>2, <3>1 DEF Fits
  <2>5. CASE ready' = Without(p) /\ UNCHANGED semWaiters
    <3>1. /\ Found(ready', QueuedFor(o)) = Found(Without(p), QueuedFor(o))
          /\ Found(waiters', WaitsOf(o)) = Found(waiters, WaitsOf(o))
          /\ Found(waiters', JoinsOf(o)) = Found(waiters, JoinsOf(o))
          /\ Found(semWaiters', {o}) = Found(semWaiters, {o})
          /\ (Running(o)' <=> Running(o))
      BY <1>1, <2>5 DEF Running
    <3>2. At(o, later)'
      BY <2>3, <3>1 DEF At, Site
    <3>3. Fits(o, later)'
      BY <1>1, <2>4, FitsKept
    <3>. QED  BY <3>2, <3>3 DEF Located
  <2>6. CASE ready' = Transferred(Without(p), e.key) /\ Grant(e.key, e.owner)
             /\ e.kind = "sem_resume"
    <3>1. PICK h \in Heaps : h = Without(p)
      BY <1>2
    <3>. QED  BY <1>1, <1>2, <2>3, <2>4, <2>6, <3>1, GrantStep
  <2>. QED  BY <1>1, <2>5, <2>6
<1>. QED  BY <1>1, <1>4, CountsKept DEF Placed, Safe

(* The cancelled owners leave the queues of the semaphores.                    *)
LEMMA PruneStep ==
  ASSUME Safe, pc \notin Ended, UNCHANGED <<status, waiters, ready, cur>>,
         semWaiters' = PrunedWaiters,
         pc' \in {"user", "effect"} <=> pc \in {"user", "effect"}, NEW o \in Owner
  PROVE  Located(o)'
<1>1. PICK place \in PlaceName \cup {"nowhere"} : At(o, place) /\ Fits(o, place)
  BY AtRun
<1>2. /\ Found(semWaiters, {o}) = {} => Found(semWaiters', {o}) = {}
      /\ Single(Found(semWaiters, {o})) =>
           /\ Found(semWaiters', {o}) = {} \/ Single(Found(semWaiters', {o}))
           /\ ~IsCancelled(o) => Single(Found(semWaiters', {o}))
  BY PrunedPlaces DEF Safe
<1>3. /\ Found(ready', QueuedFor(o)) = Found(ready, QueuedFor(o))
      /\ Found(waiters', WaitsOf(o)) = Found(waiters, WaitsOf(o))
      /\ Found(waiters', JoinsOf(o)) = Found(waiters, JoinsOf(o))
      /\ (Running(o)' <=> Running(o))
  BY DEF Running
<1>4. Fits(o, place)'
  BY <1>1, FitsKept
<1>5. CASE place = "sem" /\ Found(semWaiters', {o}) = {}
  <2>1. IsCancelled(o)
    BY <1>1, <1>2, <1>5 DEF At, Site, Single
  <2>2. At(o, "nowhere")'
    BY <1>1, <1>3, <1>5 DEF At, Site
  <2>3. Fits(o, "nowhere")'
    BY <2>1, DistinctIds DEF Fits, Unfinished, IsCancelled, Waitable
  <2>. QED  BY <2>2, <2>3 DEF Located
<1>6. CASE ~(place = "sem" /\ Found(semWaiters', {o}) = {})
  <2>1. At(o, place)'
    BY <1>1, <1>2, <1>3, <1>6 DEF At, Site
  <2>. QED  BY <1>4, <2>1 DEF Located
<1>. QED  BY <1>5, <1>6

(* Blocking on a placeholder moves nobody; when nothing at all can run,       *)
(* cancelled owners are pruned from the semaphore queues.                     *)
LEMMA BlockPlaced ==
  ASSUME Frame, Safe, NEW p \in Priority, NEW e, BlockOnPlaceholder(p, e)
  PROVE  Placed' /\ JoinCounts'
<1>1. /\ TypeOK /\ pc = "pop" /\ pc \notin Ended /\ pc' \notin {"user", "effect"}
      /\ UNCHANGED <<status, parked, ready, waiters, cur>>
  BY DEF Safe, BlockOnPlaceholder, Popping, Ended, objs, parked, heap
<1>2. CASE UNCHANGED semWaiters
  BY <1>1, <1>2, NothingMoves
<1>3. CASE semWaiters' = PrunedWaiters
  BY <1>1, <1>3, PruneStep, CountsKept DEF Placed, Safe
<1>. QED  BY <1>2, <1>3 DEF BlockOnPlaceholder

(* With nothing queued, the root waits somewhere, and pick_next sees it.       *)
LEMMA NothingReadyPlaced ==
  ASSUME Frame, Safe, NothingReady PROVE Placed' /\ JoinCounts' /\ pc' # "none"
<1>1. /\ TypeOK /\ pc = "pop" /\ pc \notin Ended /\ pc' \notin {"user", "effect"}
      /\ UNCHANGED <<status, parked, ready, waiters, cur>> /\ semWaiters' = PrunedWaiters
      /\ Root \in Owner
  BY DEF Safe, NothingReady, Ended, objs, parked, heap, Owner
<1>2. Placed' /\ JoinCounts'
  BY <1>1, PruneStep, CountsKept DEF Placed, Safe
<1>3. ASSUME pc' = "none" PROVE FALSE
  <2>1. Blocked = {} /\ (\A w \in Waitable : waiters[w] = <<>>)
    BY <1>3 DEF NothingReady
  <2>2. PICK place \in PlaceName \cup {"nowhere"} :
          /\ At(Root, place) /\ Fits(Root, place)
          /\ place = "run" <=> Root = cur /\ pc \in {"user", "effect"}
    BY <1>1, AtRun
  <2>3. place \notin {"run", "nowhere"}
    BY <1>1, <2>2 DEF Fits, Unfinished
  <2>4. Found(ready, QueuedFor(Root)) = {}
    <3>1. DOMAIN ready = Priority /\ \A p \in Priority : ready[p] = <<>>
      BY <1>1, NothingReadyFrame DEF TypeOK
    <3>2. \A p \in Priority : Occ(ready[p], QueuedFor(Root)) = {}
      BY <3>1 DEF Occ
    <3>. QED  BY <3>1, <3>2, FoundEmpty
  <2>5. Found(waiters, WaitsOf(Root)) = {} /\ Found(waiters, JoinsOf(Root)) = {}
    <3>1. DOMAIN waiters = Waitable
      BY <1>1 DEF TypeOK
    <3>2. \A w \in Waitable : Occ(waiters[w], WaitsOf(Root)) = {} /\ Occ(waiters[w], JoinsOf(Root)) = {}
      BY <2>1 DEF Occ
    <3>. QED  BY <3>1, <3>2, FoundEmpty
  <2>6. Found(semWaiters, {Root}) = {}
    <3>1. DOMAIN semWaiters = Sem
      BY <1>1 DEF TypeOK
    <3>2. \A s \in Sem : Occ(semWaiters[s], {Root}) = {}
      <4>1. ~IsCancelled(Root)
        BY DistinctIds DEF IsCancelled, Waitable
      <4>. QED  BY <2>1, <4>1 DEF Blocked, LiveWaiters, Occ
    <3>. QED  BY <3>1, <3>2, FoundEmpty
  <2>. QED  BY <2>2, <2>3, <2>4, <2>5, <2>6 DEF At, Site, Single, PlaceName
<1>. QED  BY <1>2, <1>3

(* A claimed placeholder is dropped, the other goes behind the others.         *)
LEMMA RequeuePlaced == ASSUME Frame, Safe, RequeuePlaceholder PROVE Placed' /\ JoinCounts'
<1> DEFINE E == PRIORITY_EXTERNAL_WAIT
           e == ready[E][held[E] + 1]
<1>1. /\ TypeOK /\ pc = "afterPlaceholder" /\ pc' = "pop" /\ pc \notin Ended
      /\ ready' = IF e.claimed THEN Without(E) ELSE Enqueue(Without(E), e, E)
      /\ UNCHANGED <<status, parked, waiters, semWaiters, cur>>
  BY DEF RequeuePlaceholder, Safe, Ended, objs, parked, sems
<1>2. E \in Priority /\ held[E] = 0
  BY <1>1, NothingHeld DEF Priority
<1>3. ready[E] \in Seq(Entry) /\ ready[E] # <<>> /\ ready[E][1].kind = "wait_external"
      /\ ready \in Heaps
  BY <1>1, <1>2, EntriesTyped DEF Frame, HeldForWork, TypeOK
<1>4. 1 \in DOMAIN ready[E] /\ held[E] + 1 = 1 /\ e = ready[E][1] /\ e \in Entry
      /\ e.kind = "wait_external"
  BY <1>2, <1>3
<1> HIDE DEF E
<1>5. Without(E) = [ready EXCEPT ![E] = RemoveAt(@, 1)]
  BY <1>4 DEF Without
<1>6. \A o : e \notin QueuedFor(o)
  BY <1>4 DEF QueuedFor
<1> HIDE DEF e
<1>7. PICK h \in Heaps : h = Without(E) /\
        \A o : ExistsBijection(Found(h, QueuedFor(o)), Found(ready, QueuedFor(o)))
  <2>1. LET g == [ready EXCEPT ![E] = RemoveAt(@, 1)] IN
        /\ g \in Heaps
        /\ \A X : ready[E][1] \notin X => ExistsBijection(Found(g, X), Found(ready, X))
    BY <1>2, <1>3, <1>4, WithoutKeeps
  <2>. QED  BY <1>4, <1>5, <1>6, <2>1
<1>8. \A o : Found(ready', QueuedFor(o)) = Found(h, QueuedFor(o))
  BY <1>1, <1>2, <1>4, <1>6, <1>7, EnqueueKeeps
<1>9. ASSUME NEW o \in Owner PROVE Located(o)'
  <2>1. PICK place \in PlaceName \cup {"nowhere"} : At(o, place) /\ Fits(o, place)
    BY <1>1, AtRun
  <2>2. /\ ExistsBijection(Found(ready', QueuedFor(o)), Found(ready, QueuedFor(o)))
        /\ Found(waiters', WaitsOf(o)) = Found(waiters, WaitsOf(o))
        /\ Found(waiters', JoinsOf(o)) = Found(waiters, JoinsOf(o))
        /\ Found(semWaiters', {o}) = Found(semWaiters, {o})
        /\ (Running(o)' <=> Running(o))
    BY <1>1, <1>7, <1>8 DEF Running
  <2>3. /\ Found(ready', QueuedFor(o)) = {} <=> Found(ready, QueuedFor(o)) = {}
        /\ Single(Found(ready', QueuedFor(o))) <=> Single(Found(ready, QueuedFor(o)))
    BY <2>2, BijectionAlike
  <2>4. At(o, place)'
    BY <2>1, <2>2, <2>3 DEF At, Site
  <2>5. Fits(o, place)'
    BY <1>1, <2>1, FitsKept
  <2>. QED  BY <2>4, <2>5 DEF Located
<1>. QED  BY <1>1, <1>9, CountsKept DEF Placed, Safe

(* The environment and the end of a drain move nobody.                        *)
LEMMA EnvironmentPlaced ==
  ASSUME Safe, Environment \/ DrainDone PROVE Placed' /\ JoinCounts'
<1>1. /\ UNCHANGED <<status, parked, ready, semWaiters, cur>> /\ pc \notin Ended
      /\ pc' \in {"user", "effect"} <=> pc \in {"user", "effect"}
  BY DEF Environment, Put, DropHandle, DrainDone, Ended, objs, heap, sems
<1>. QED  BY <1>1, NothingMoves

(* An entry held back is still in the heap.                                   *)
LEMMA HoldPlaced ==
  ASSUME Safe, NEW p \in Priority, NEW e, HoldDaemon(p, e) \/ DeferPlaceholder(p, e)
  PROVE  Placed' /\ JoinCounts'
<1>1. /\ UNCHANGED <<status, parked, ready, semWaiters, cur>> /\ pc \notin Ended /\ pc' = pc
  BY DEF HoldDaemon, DeferPlaceholder, Popping, Ended, objs, sems
<1>. QED  BY <1>1, NothingMoves

(* Every step keeps the inductive invariant.                                  *)
LEMMA IInvNext == ASSUME IInv, [Next]_vars PROVE IInv'
<1>1. Frame /\ Safe /\ HeapInOrder /\ pc # "none"
  BY DEF IInv, Safe, Frame
<1>2. Frame'
  BY <1>1, FrameNext
<1>3. CASE UNCHANGED vars
  <2>1. status' = status /\ parked' = parked /\ ready' = ready /\ semWaiters' = semWaiters
        /\ cur' = cur /\ pc' = pc
    BY <1>3 DEF vars, objs, heap, sems
  <2>2. ASSUME pc \in Ended PROVE Placed' /\ JoinCounts'
    BY <1>1, <2>1, <2>2, CountsKept DEF Placed, Safe
  <2>3. ASSUME pc \notin Ended PROVE Placed' /\ JoinCounts'
    BY <1>1, <2>1, <2>3, NothingMoves
  <2>4. Placed' /\ JoinCounts' /\ pc' # "none"
    BY <1>1, <2>1, <2>2, <2>3
  <2>. QED  BY <1>2, <2>4 DEF IInv
<1>4. ASSUME UserEffect PROVE Placed' /\ JoinCounts' /\ pc' # "none"
  <2>1. ASSUME NEW ks \in KeyLists, Gather(ks) \/ Race(ks) PROVE Placed' /\ JoinCounts'
    BY <1>1, <2>1, GatherPlaced
  <2>2. ASSUME NEW k \in Waitable, NEW prio \in WaitPriorities, Wait(k, prio)
        PROVE  Placed' /\ JoinCounts'
    BY <1>1, <2>2, WaitPlaced
  <2>3. ASSUME NEW p \in Promise \cup ExtPromise, NEW st \in {"completed", "failed"},
               SettlePromise(p, st)
        PROVE  Placed' /\ JoinCounts'
    BY <1>1, <2>3, SettlePlaced
  <2>4. ASSUME \/ \E p \in Promise : CreatePromise(p)
               \/ \E e \in ExtPromise : CreateExternalPromise(e)
               \/ \E s \in Sem, n \in PermitCounts : CreateSemaphore(s, n)
        PROVE  Placed' /\ JoinCounts'
    <3>1. pc \in {"user", "effect"}
      BY <2>4 DEF CreatePromise, CreateExternalPromise, CreateSemaphore, Handle
    <3>. QED  BY <1>1, <2>4, <3>1, CreatePlaced
  <2>5. pc' \in {"user", "drain"}
    BY <1>4 DEF UserEffect, Spawn, Wait, WaitPending, Gather, Race, RegisterJoin, Cancel,
                CreatePromise, SettlePromise, CreateExternalPromise, CreateSemaphore,
                AcquireSemaphore, ReleaseSemaphore, Answer, Reply, Suspend
  <2>. QED  BY <1>1, <1>4, <2>1, <2>2, <2>3, <2>4, <2>5, SpawnPlaced, CancelPlaced, AcquirePlaced,
               ReleasePlaced DEF UserEffect
<1>5. ASSUME PassEffect PROVE Placed' /\ JoinCounts' /\ pc' # "none"
  BY <1>1, <1>5, AnswerPlaced DEF PassEffect, Answer, Reply
<1>6. ASSUME SchedulerStep PROVE Placed' /\ JoinCounts' /\ pc' # "none"
  <2>1. ASSUME Pop PROVE Placed' /\ JoinCounts' /\ pc' # "none"
    <3>1. PICK p \in Priority : \E e \in InHeap(p) :
            \/ Dispatch(p, e) \/ HoldDaemon(p, e) \/ DropDead(p, e)
            \/ DropDeadGrant(p, e) \/ DeferPlaceholder(p, e) \/ BlockOnPlaceholder(p, e)
      BY <2>1 DEF Pop
    <3>2. pc' # "none"
      BY <1>1, <3>1 DEF Dispatch, HoldDaemon, DropDead, DropDeadGrant, DeferPlaceholder,
                        BlockOnPlaceholder
    <3>. QED  BY <1>1, <3>1, <3>2, DispatchPlaced, HoldPlaced, DropPlaced, BlockPlaced
  <2>2. ASSUME DrainOne \/ Unblock \/ DrainDone \/ RequeuePlaceholder PROVE pc' # "none"
    BY <1>1, <2>2 DEF DrainOne, Unblock, DrainDone, RequeuePlaceholder
  <2>. QED  BY <1>1, <1>6, <2>1, <2>2, DrainPlaced, EnvironmentPlaced, RequeuePlaced,
               NothingReadyPlaced DEF SchedulerStep
<1>7. ASSUME OwnerEnds PROVE Placed' /\ JoinCounts' /\ pc' # "none"
  <2>1. pc' # "none"
    BY <1>7 DEF OwnerEnds, TaskCompleted, RootReturn, RootRaise, TaskInterrupted, Suspend
  <2>. QED  BY <1>1, <1>7, <2>1, EndPlaced
<1>8. ASSUME Environment PROVE Placed' /\ JoinCounts' /\ pc' # "none"
  <2>1. pc' # "none"
    BY <1>1, <1>8 DEF Environment, Put, DropHandle
  <2>. QED  BY <1>1, <1>8, <2>1, EnvironmentPlaced
<1>. QED  BY <1>2, <1>3, <1>4, <1>5, <1>6, <1>7, <1>8 DEF IInv, Next

===============================================================================
