----------------------------- MODULE FiberVMProofs -----------------------------
(* Theorems about FiberVM for every arena, every set of PyK identities and     *)
(* every bound on frames: the types, and, when programs leave the              *)
(* continuations of earlier runs alone, the single-location law and the ways   *)
(* through the stack and through every continuation.                           *)
EXTENDS FiberVM, TLAPS

-------------------------------------------------------------------------------
(* The inductive invariant.                                                    *)

Active == pc \in {"eval", "send", "raise", "body", "handler"}

(* A run has a current fiber, and the dispatch a handle while it calls a       *)
(* handler, and only then.                                                     *)
ActiveCurrent == Active => current \in Slot
DispatchHandle == (pc = "handler") <=> (handle \in Kont)

(* A boundary was installed under a fiber.                                     *)
BoundaryParents == \A i \in Slot : fiber[i].role # "plain" => fiber[i].parent \in Slot

(* Only a PyK that was not taken has a chain; it leads from slot to slot of    *)
(* the chain except from the last one.                                         *)
ChainShape ==
  \A k \in Kont :
    /\ kont[k] # "detached" => chain[k] = NoChain
    /\ kont[k] = "detached" =>
         /\ chain[k].head \in chain[k].ids /\ chain[k].last \in chain[k].ids
         /\ \A i \in chain[k].ids \ {chain[k].last} : chain[k].fibers[i].parent \in chain[k].ids

Shape == TypeOK /\ ActiveCurrent /\ DispatchHandle /\ BoundaryParents /\ ChainShape

(* No handle the running program can reach is of an earlier run.               *)
FreshHandles ==
  \A h \in Kont : chain[h].stale =>
    /\ handle # h
    /\ \A i \in Slot : ~HasHandle(fiber[i], h)
    /\ \A k \in Kont : ~chain[k].stale =>
         \A i \in chain[k].ids : ~HasHandle(chain[k].fibers[i], h)

(* The single-location law, one slot and one or two owners at a time.          *)
Owns(k, i) == kont[k] = "detached" /\ ~chain[k].stale /\ i \in chain[k].ids
OwnedReserved ==
  \A k \in Kont, i \in Slot : Owns(k, i) => slot[i] = "vacant" /\ free[i] + queue[i] = 0
OneOwner == \A k, l \in Kont, i \in Slot : Owns(k, i) /\ Owns(l, i) => k = l
ClaimedOnce ==
  \A i \in Slot : free[i] + queue[i] <= 1 /\ (free[i] + queue[i] > 0 => slot[i] = "vacant")
NoneLost ==
  \A i \in Slot : slot[i] = "vacant" /\ free[i] + queue[i] = 0 => \E k \in Kont : Owns(k, i)

Location == OwnedReserved /\ OneOwner /\ ClaimedOnce /\ NoneLost
IInv == Shape /\ FreshHandles /\ Location

-------------------------------------------------------------------------------
(* Lemmas about frames.                                                        *)

(* Popping a frame changes neither parent nor role and adds no handle.         *)
LEMMA PoppedFiber ==
  ASSUME NEW f \in Fiber
  PROVE  /\ Popped(f) \in Fiber
         /\ Popped(f).parent = f.parent /\ Popped(f).role = f.role
         /\ \A h \in Kont : HasHandle(Popped(f), h) => HasHandle(f, h)
<1>1. CASE f.frames = <<>>
  BY <1>1 DEF Popped, Fiber, HasHandle
<1>2. CASE f.frames # <<>>
  <2> DEFINE s == f.frames
             t == SubSeq(s, 1, Len(s) - 1)
  <2>1. s \in Seq(Kont \cup {None}) /\ Len(s) \in Nat \ {0}
    BY <1>2 DEF Fiber
  <2>2. /\ t \in Seq(Kont \cup {None}) /\ Len(t) = Len(s) - 1
        /\ \A n \in 1..Len(t) : t[n] = s[n] /\ n \in 1..Len(s)
    BY <2>1
  <2>3. Popped(f) = [f EXCEPT !.frames = t]
    BY <1>2 DEF Popped
  <2>4. f \in [parent : Slot \cup {None}, role : {"plain", "prompt", "observe"},
               frames : Seq(Kont \cup {None})]
    BY DEF Fiber
  <2>5. /\ Popped(f) \in Fiber /\ Popped(f).frames = t
        /\ Popped(f).parent = f.parent /\ Popped(f).role = f.role
    BY <2>2, <2>3, <2>4 DEF Fiber
  <2>6. DOMAIN t = 1..Len(t) /\ DOMAIN s = 1..Len(s)
    BY <2>1, <2>2
  <2> HIDE DEF t
  <2>7. \A h \in Kont : HasHandle(Popped(f), h) => HasHandle(f, h)
    BY <2>2, <2>5, <2>6 DEF HasHandle
  <2> QED BY <2>5, <2>7
<1> QED BY <1>1, <1>2

(* Pushing a frame adds at most its own handle.                                *)
LEMMA PushedFiber ==
  ASSUME NEW f \in Fiber, NEW g \in Kont \cup {None}
  PROVE  /\ Pushed(f, g) \in Fiber
         /\ Pushed(f, g).parent = f.parent /\ Pushed(f, g).role = f.role
         /\ \A h \in Kont : HasHandle(Pushed(f, g), h) => h = g \/ HasHandle(f, h)
<1> DEFINE s == f.frames
           t == Append(s, g)
<1>1. s \in Seq(Kont \cup {None}) /\ Len(s) \in Nat
  BY DEF Fiber
<1>2. /\ t \in Seq(Kont \cup {None}) /\ Len(t) = Len(s) + 1
      /\ \A n \in 1..Len(t) : t[n] = g \/ (n \in 1..Len(s) /\ t[n] = s[n])
  BY <1>1
<1>3. f \in [parent : Slot \cup {None}, role : {"plain", "prompt", "observe"},
             frames : Seq(Kont \cup {None})]
  BY DEF Fiber
<1>4. /\ Pushed(f, g) \in Fiber /\ Pushed(f, g).frames = t
      /\ Pushed(f, g).parent = f.parent /\ Pushed(f, g).role = f.role
  BY <1>2, <1>3 DEF Fiber, Pushed
<1>5. DOMAIN t = 1..Len(t) /\ DOMAIN s = 1..Len(s)
  BY <1>1, <1>2
<1> HIDE DEF t
<1>6. \A h \in Kont : HasHandle(Pushed(f, g), h) => h = g \/ HasHandle(f, h)
  BY <1>2, <1>4, <1>5 DEF HasHandle
<1> QED BY <1>4, <1>6

(* fibers differ from fiber at most in the frames, without a new handle.       *)
SameButFrames(fibers) ==
  /\ fibers \in [Slot -> Fiber]
  /\ \A i \in Slot :
       /\ fibers[i].parent = fiber[i].parent /\ fibers[i].role = fiber[i].role
       /\ \A h \in Kont : HasHandle(fibers[i], h) => HasHandle(fiber[i], h)

(* A popped frame changes no parent and no role, and adds no handle.           *)
LEMMA PopFrameSame ==
  ASSUME TypeOK, NEW i \in Slot
  PROVE  SameButFrames(PopFrame(i))
<1>1. fiber \in [Slot -> Fiber]
  BY DEF TypeOK
<1>2. \A j \in Slot : PopFrame(i)[j] = IF j = i THEN Popped(fiber[i]) ELSE fiber[j]
  BY <1>1 DEF PopFrame
<1>3. DOMAIN PopFrame(i) = Slot /\ PopFrame(i) = [j \in Slot |-> PopFrame(i)[j]]
  BY <1>1 DEF PopFrame
<1>4. \A j \in Slot : PopFrame(i)[j] \in Fiber
  BY <1>1, <1>2, PoppedFiber
<1>5. PopFrame(i) \in [Slot -> Fiber]
  BY <1>3, <1>4
<1> QED BY <1>1, <1>2, <1>5, PoppedFiber DEF SameButFrames

(* The fibers as they are differ in nothing.                                   *)
LEMMA FiberSame ==
  ASSUME TypeOK PROVE SameButFrames(fiber)
BY DEF TypeOK, SameButFrames

(* A fiber without frames.                                                     *)
LEMMA EmptyFiber ==
  ASSUME NEW p \in Slot \cup {None}, NEW r \in {"plain", "prompt", "observe"}
  PROVE  /\ NewFiber(p, r) \in Fiber
         /\ NewFiber(p, r).parent = p /\ NewFiber(p, r).role = r
         /\ \A h \in Kont : ~HasHandle(NewFiber(p, r), h)
BY DEF NewFiber, Fiber, HasHandle

(* The empty fiber and the empty chain have no parent and no handle.           *)
LEMMA EmptyFibers ==
  /\ NoFiber \in Fiber /\ NoFiber.parent = None /\ NoFiber.role = "plain"
  /\ \A h \in Kont : ~HasHandle(NoFiber, h)
  /\ NoFibers \in [Slot -> Fiber] /\ NoChain \in Chain
<1>1. /\ NoFiber \in Fiber /\ NoFiber.parent = None /\ NoFiber.role = "plain"
      /\ \A h \in Kont : ~HasHandle(NoFiber, h)
  BY EmptyFiber DEF NoFiber
<1>2. NoFibers \in [Slot -> Fiber]
  BY <1>1 DEF NoFibers
<1> QED BY <1>1, <1>2 DEF NoChain, Chain

-------------------------------------------------------------------------------
(* Types and shape.                                                            *)

(* Shape without the variables handle and pc, of the next state.               *)
ArenaShape ==
  /\ slot \in [Slot -> {"absent", "live", "vacant"}]
  /\ fiber \in [Slot -> Fiber]
  /\ free \in [Slot -> Nat] /\ queue \in [Slot -> Nat]
  /\ kont \in [Kont -> {"unused", "detached", "taken"}]
  /\ chain \in [Kont -> Chain]
  /\ BoundaryParents /\ ChainShape

(* Shape is of the arena and of the signal.                                    *)
LEMMA ShapeParts ==
  Shape <=> /\ ArenaShape /\ ActiveCurrent /\ DispatchHandle
            /\ current \in Slot \cup {None} /\ handle \in Kont \cup {None}
            /\ pc \in {"idle", "eval", "send", "raise", "body", "handler", "done", "failed"}
BY DEF Shape, ArenaShape, TypeOK

(* Popped frames change nothing of the shape.                                  *)
LEMMA SameShape ==
  ASSUME Shape, SameButFrames(fiber'), UNCHANGED <<slot, free, queue, kont, chain>>
  PROVE  ArenaShape'
<1>1. fiber' \in [Slot -> Fiber] /\ BoundaryParents'
  BY DEF Shape, SameButFrames, BoundaryParents
<1>2. ChainShape'
  BY DEF Shape, ChainShape
<1> QED BY <1>1, <1>2 DEF Shape, TypeOK, ArenaShape

(* A new fiber is in shape.                                                    *)
LEMMA AllocShape ==
  ASSUME Shape, NEW i \in Slot, NEW p \in Slot, NEW r \in {"plain", "prompt", "observe"},
         Alloc(i, NewFiber(p, r))
  PROVE  ArenaShape'
<1>1. NewFiber(p, r) \in Fiber /\ NewFiber(p, r).parent = p
  BY EmptyFiber
<1>2. fiber' \in [Slot -> Fiber] /\ slot' \in [Slot -> {"absent", "live", "vacant"}]
  BY <1>1 DEF Shape, TypeOK, Alloc
<1>3. BoundaryParents'
  BY <1>1 DEF Shape, TypeOK, Alloc, BoundaryParents
<1>4. \A j \in Slot : Reclaimed[j] \in Nat
  BY DEF Shape, TypeOK, Reclaimed
<1>5. free' \in [Slot -> Nat] /\ queue' \in [Slot -> Nat]
  BY <1>4 DEF Alloc
<1>6. ChainShape'
  BY DEF Shape, ChainShape, Alloc
<1> QED BY <1>2, <1>3, <1>5, <1>6 DEF Shape, TypeOK, Alloc, ArenaShape

(* So is the arena after free.                                                 *)
LEMMA FreeShape ==
  ASSUME Shape, NEW i \in Slot, Free(i)
  PROVE  ArenaShape'
<1>1. fiber' \in [Slot -> Fiber]
  BY EmptyFibers DEF Shape, TypeOK, Free
<1>2. BoundaryParents'
  BY EmptyFibers DEF Shape, TypeOK, Free, BoundaryParents
<1>3. ChainShape'
  BY DEF Shape, ChainShape, Free
<1>4. slot' \in [Slot -> {"absent", "live", "vacant"}] /\ free' \in [Slot -> Nat]
  BY DEF Shape, TypeOK, Free
<1> QED BY <1>1, <1>2, <1>3, <1>4 DEF Shape, TypeOK, Free, ArenaShape

(* The end of a run makes chains stale and changes nothing else of them.       *)
LEMMA OrphanedChains ==
  ASSUME Shape
  PROVE  /\ Orphaned \in [Kont -> Chain]
         /\ \A k \in Kont :
              /\ Orphaned[k].head = chain[k].head /\ Orphaned[k].last = chain[k].last
              /\ Orphaned[k].ids = chain[k].ids /\ Orphaned[k].fibers = chain[k].fibers
              /\ kont[k] = "detached" => Orphaned[k].stale
              /\ kont[k] # "detached" => Orphaned[k] = NoChain
<1>1. chain \in [Kont -> Chain]
  BY DEF Shape, TypeOK
<1>2. \A k \in Kont : kont[k] # "detached" => Orphaned[k] = NoChain
  BY DEF Shape, ChainShape, Orphaned
<1>3. Orphaned \in [Kont -> Chain]
  BY <1>1 DEF Orphaned, Chain
<1> QED BY <1>1, <1>2, <1>3 DEF Orphaned, Chain

(* The arena after clear has no fiber and orphaned chains.                     *)
LEMMA ClearedShape ==
  ASSUME Shape, chain' = Orphaned, UNCHANGED kont, fiber' = NoFibers,
         slot' \in [Slot -> {"absent", "live", "vacant"}],
         free' = [i \in Slot |-> 0], queue' = [i \in Slot |-> 0]
  PROVE  ArenaShape'
<1>1. ChainShape'
  BY OrphanedChains DEF Shape, ChainShape
<1>2. BoundaryParents'
  BY EmptyFibers DEF BoundaryParents, NoFibers
<1> QED BY <1>1, <1>2, EmptyFibers, OrphanedChains DEF Shape, TypeOK, ArenaShape

(* The chain of a PyK enters the arena: attached or refused, the shape holds.  *)
LEMMA ReattachShape ==
  ASSUME Shape, NEW k \in Kont, kont[k] = "detached", current \in Slot,
         NEW before, SameButFrames(before), NEW signal,
         Reattach(k, before, signal)
  PROVE  ArenaShape' /\ current' \in Slot /\ pc' \in {signal, "failed"}
<1> DEFINE c == chain[k]
<1>1. /\ c \in Chain /\ c.ids \subseteq Slot /\ c.last \in c.ids /\ c.head \in c.ids
      /\ \A i \in c.ids \ {c.last} : c.fibers[i].parent \in c.ids
      /\ \A i \in Slot : c.fibers[i] \in Fiber
  BY DEF Shape, TypeOK, ChainShape, Chain
<1>2. current' \in Slot /\ pc' \in {signal, "failed"}
  BY <1>1 DEF Reattach
<1>3. \A i \in Slot : /\ Attached(c, current)[i] \in Fiber
                      /\ i \in c.ids => Attached(c, current)[i].parent \in Slot
  BY <1>1 DEF Attached, Fiber
<1>4. Placed(c) \subseteq c.ids
  BY DEF Placed
<1> HIDE DEF c
<1>5. /\ fiber' \in [Slot -> Fiber]
      /\ \A i \in Slot : fiber'[i] = IF i \in Placed(c) THEN Attached(c, current)[i]
                                     ELSE before[i]
  BY <1>3 DEF Reattach, SameButFrames, c
<1>6. BoundaryParents'
  BY <1>3, <1>4, <1>5 DEF BoundaryParents, SameButFrames, Shape
<1>7. slot' \in [Slot -> {"absent", "live", "vacant"}]
  BY DEF Reattach, SlotsWith, Shape, TypeOK
<1>8. kont' \in [Kont -> {"unused", "detached", "taken"}] /\ chain' \in [Kont -> Chain]
  BY EmptyFibers DEF Reattach, Shape, TypeOK
<1>9. ChainShape'
  BY DEF Reattach, Shape, TypeOK, ChainShape
<1> QED BY <1>2, <1>5, <1>6, <1>7, <1>8, <1>9 DEF Reattach, Shape, TypeOK, ArenaShape

(* A recovery leaves a current fiber, and a signal to raise unless the attach  *)
(* failed.                                                                     *)
LEMMA RecoverShape ==
  ASSUME Shape, NEW h \in Kont \cup {None}, current \in Slot,
         NEW before, SameButFrames(before), Recover(h, before)
  PROVE  ArenaShape' /\ current' \in Slot /\ pc' \in {"raise", "failed"}
<1>1. CASE h # None /\ kont[h] = "detached"
  BY <1>1, ReattachShape DEF Recover
<1>2. CASE ~(h # None /\ kont[h] = "detached")
  BY <1>2, SameShape DEF Recover
<1> QED BY <1>1, <1>2

(* A continuation that is resumed leaves a current fiber, and its signal       *)
(* unless the attach failed.                                                   *)
LEMMA ContinueShape ==
  ASSUME Shape, NEW k \in Kont, current \in Slot,
         NEW before, SameButFrames(before), NEW signal, Continue(k, before, signal)
  PROVE  ArenaShape' /\ current' \in Slot /\ pc' \in {signal, "failed"}
<1>1. CASE kont[k] = "detached"
  BY <1>1, ReattachShape DEF Continue
<1>2. CASE kont[k] # "detached"
  BY <1>2, SameShape DEF Continue
<1> QED BY <1>1, <1>2

(* The fibers of a detached chain are those of the arena; Pass pops one frame. *)
LEMMA DetachedShape ==
  ASSUME Shape, NEW ids \in SUBSET Live, NEW b \in Live, current \in Slot, Captures(ids, b)
  PROVE  \A c \in {DetachedChain(ids, current, b), PassedCut(ids, b)} :
           /\ c \in Chain /\ c.head = current /\ c.last = b /\ c.ids = ids /\ ~c.stale
           /\ current \in ids /\ b \in ids /\ ids \subseteq Slot
           /\ \A i \in ids \ {b} : c.fibers[i].parent \in ids
           /\ \A i \in Slot, h \in Kont : HasHandle(c.fibers[i], h) => HasHandle(fiber[i], h)
<1> DEFINE c == DetachedChain(ids, current, b)
           d == PassedCut(ids, b)
<1>1. /\ ids \subseteq Slot /\ b \in ids /\ current \in ids
      /\ \A i \in ids \ {b} : fiber[i].parent \in ids
  BY DEF Captures, ChainIds, Live
<1>2. /\ c.head = current /\ c.last = b /\ c.ids = ids /\ c.stale = FALSE
      /\ c = [head |-> current, last |-> b, ids |-> ids, stale |-> FALSE, fibers |-> c.fibers]
  BY DEF DetachedChain
<1>3. /\ c.fibers \in [Slot -> Fiber]
      /\ \A i \in ids \ {b} : c.fibers[i].parent \in ids
      /\ \A i \in Slot, h \in Kont : HasHandle(c.fibers[i], h) => HasHandle(fiber[i], h)
  <2>1. \A i \in Slot : fiber[i] \in Fiber
    BY DEF Shape, TypeOK
  <2>2. \A i \in Slot : c.fibers[i] = IF i = b THEN [fiber[i] EXCEPT !.parent = None]
                                     ELSE IF i \in ids THEN fiber[i] ELSE NoFiber
    BY DEF DetachedChain
  <2>3. \A f \in Fiber : /\ [f EXCEPT !.parent = None] \in Fiber
                         /\ [f EXCEPT !.parent = None].frames = f.frames
    BY DEF Fiber
  <2>4. \A i \in Slot : c.fibers[i] \in Fiber
    BY <2>1, <2>2, <2>3, EmptyFibers
  <2>5. c.fibers = [i \in Slot |-> c.fibers[i]]
    BY DEF DetachedChain
  <2> HIDE DEF c
  <2>6. c.fibers \in [Slot -> Fiber]
    BY <2>4, <2>5
  <2>7. \A i \in Slot, h \in Kont : HasHandle(c.fibers[i], h) => HasHandle(fiber[i], h)
    BY <2>1, <2>2, <2>3, EmptyFibers DEF HasHandle
  <2>8. \A i \in ids \ {b} : c.fibers[i].parent \in ids
    BY <1>1, <2>2
  <2> QED BY <2>6, <2>7, <2>8
<1> HIDE DEF c
<1>4. c \in Chain
  BY <1>1, <1>2, <1>3 DEF Chain
<1>5. d = [c EXCEPT !.fibers = [c.fibers EXCEPT ![current] = Popped(c.fibers[current])]]
  BY DEF PassedCut, c
<1>6. Popped(c.fibers[current]) \in Fiber /\ Popped(c.fibers[current]).parent = c.fibers[current].parent
  BY <1>1, <1>3, PoppedFiber
<1>7. /\ d.head = current /\ d.last = b /\ d.ids = ids /\ d.stale = FALSE
      /\ \A i \in Slot : d.fibers[i] = IF i = current THEN Popped(c.fibers[i]) ELSE c.fibers[i]
      /\ d.fibers \in [Slot -> Fiber] /\ d \in Chain
  BY <1>2, <1>3, <1>4, <1>5, <1>6 DEF Chain
<1>8. /\ \A i \in ids \ {b} : d.fibers[i].parent \in ids
      /\ \A i \in Slot, h \in Kont : HasHandle(d.fibers[i], h) => HasHandle(fiber[i], h)
  BY <1>1, <1>3, <1>6, <1>7, PoppedFiber
<1> HIDE DEF d
<1> QED BY <1>1, <1>2, <1>3, <1>4, <1>7, <1>8 DEF c, d

(* Appending two chains gives a chain from the head of one to the last of the  *)
(* other, with the handles of both.                                            *)
LEMMA AppendedShape ==
  ASSUME NEW c \in Chain, NEW d \in Chain, c.last \in c.ids, c.head \in c.ids,
         d.last \in d.ids, d.head \in d.ids,
         \A i \in c.ids \ {c.last} : c.fibers[i].parent \in c.ids,
         \A i \in d.ids \ {d.last} : d.fibers[i].parent \in d.ids
  PROVE  LET e == Appended(c, d)
         IN  /\ e \in Chain /\ e.ids = c.ids \cup d.ids /\ e.stale = c.stale
             /\ e.head \in e.ids /\ e.last \in e.ids
             /\ \A i \in e.ids \ {e.last} : e.fibers[i].parent \in e.ids
             /\ \A i \in Slot, h \in Kont :
                  HasHandle(e.fibers[i], h) =>
                    (i \in c.ids /\ HasHandle(c.fibers[i], h))
                      \/ (i \notin c.ids /\ HasHandle(d.fibers[i], h))
<1> DEFINE e == Appended(c, d)
<1>1. /\ c.ids \subseteq Slot /\ d.ids \subseteq Slot /\ d.head \in Slot
      /\ \A i \in Slot : c.fibers[i] \in Fiber /\ d.fibers[i] \in Fiber
      /\ c.stale \in BOOLEAN
  BY DEF Chain
<1>2. /\ e.ids = c.ids \cup d.ids /\ e.stale = c.stale /\ e.head = c.head /\ e.last = d.last
      /\ e = [head |-> c.head, last |-> d.last, ids |-> c.ids \cup d.ids, stale |-> c.stale,
              fibers |-> e.fibers]
      /\ \A i \in Slot : e.fibers[i] = IF i = c.last THEN [c.fibers[i] EXCEPT !.parent = d.head]
                                       ELSE IF i \in c.ids THEN c.fibers[i] ELSE d.fibers[i]
      /\ e.fibers = [i \in Slot |-> e.fibers[i]]
  BY DEF Appended
<1>3. \A f \in Fiber : /\ [f EXCEPT !.parent = d.head] \in Fiber
                       /\ [f EXCEPT !.parent = d.head].frames = f.frames
                       /\ [f EXCEPT !.parent = d.head].parent = d.head
  BY <1>1 DEF Fiber
<1> HIDE DEF e
<1>4. e.fibers \in [Slot -> Fiber]
  <2>1. \A i \in Slot : e.fibers[i] \in Fiber
    BY <1>1, <1>2, <1>3
  <2> QED BY <1>2, <2>1
<1>5. e \in Chain
  BY <1>1, <1>2, <1>4 DEF Chain
<1>6. ASSUME NEW i \in Slot
      PROVE  /\ i = c.last => e.fibers[i].parent = d.head /\ e.fibers[i].frames = c.fibers[i].frames
             /\ i # c.last /\ i \in c.ids => e.fibers[i] = c.fibers[i]
             /\ i \notin c.ids => e.fibers[i] = d.fibers[i]
  <2>1. e.fibers[i] = IF i = c.last THEN [c.fibers[i] EXCEPT !.parent = d.head]
                      ELSE IF i \in c.ids THEN c.fibers[i] ELSE d.fibers[i]
    BY <1>2
  <2>2. c.fibers[i] \in Fiber
    BY <1>1
  <2>3. CASE i = c.last
    BY <1>3, <2>1, <2>2, <2>3
  <2>4. CASE i # c.last
    BY <2>1, <2>4
  <2> QED BY <2>3, <2>4
<1>7. ASSUME NEW i \in e.ids \ {e.last}
      PROVE  e.fibers[i].parent \in e.ids
  <2>1. i \in Slot /\ i # d.last
    BY <1>1, <1>2
  <2>2. CASE i = c.last
    BY <1>2, <1>6, <2>1, <2>2
  <2>3. CASE i # c.last /\ i \in c.ids
    BY <1>2, <1>6, <2>1, <2>3
  <2>4. CASE i \notin c.ids
    BY <1>2, <1>6, <2>1, <2>4
  <2> QED BY <2>2, <2>3, <2>4
<1>8. ASSUME NEW i \in Slot, NEW h \in Kont, HasHandle(e.fibers[i], h)
      PROVE  (i \in c.ids /\ HasHandle(c.fibers[i], h))
               \/ (i \notin c.ids /\ HasHandle(d.fibers[i], h))
  <2>1. CASE i = c.last
    BY <1>6, <1>8, <2>1 DEF HasHandle
  <2>2. CASE i # c.last /\ i \in c.ids
    BY <1>6, <1>8, <2>2
  <2>3. CASE i \notin c.ids
    BY <1>6, <1>8, <2>3
  <2> QED BY <2>1, <2>2, <2>3
<1> QED BY <1>2, <1>5, <1>7, <1>8 DEF e

(* The initial states are in shape.                                            *)
LEMMA InitShape == Init => Shape
<1> SUFFICES ASSUME Init PROVE Shape
  OBVIOUS
<1>1. /\ slot \in [Slot -> {"absent", "live", "vacant"}]
      /\ fiber \in [Slot -> Fiber] /\ free \in [Slot -> Nat] /\ queue \in [Slot -> Nat]
      /\ kont \in [Kont -> {"unused", "detached", "taken"}] /\ chain \in [Kont -> Chain]
  BY EmptyFibers DEF Init, ArenaInit
<1>2. BoundaryParents /\ ChainShape
  BY EmptyFibers DEF Init, ArenaInit, BoundaryParents, ChainShape, NoFibers
<1> QED BY <1>1, <1>2, NoneIsNoName
        DEF Init, Shape, TypeOK, ActiveCurrent, Active, DispatchHandle

(* perform and Pass make one new chain from fibers of the arena.               *)
LEMMA PerformShape ==
  ASSUME Shape, NEW k \in Kont, NEW ids \in SUBSET Live, NEW b \in Live, Perform(k, ids, b)
  PROVE  Shape'
<1>1. current \in Slot
  BY DEF Perform, Shape, ActiveCurrent, Active
<1> DEFINE c == DetachedChain(ids, current, b)
<1>2. /\ c \in Chain /\ c.head = current /\ c.last = b /\ c.ids = ids
      /\ current \in ids /\ b \in ids /\ b \in Slot
      /\ \A i \in ids \ {b} : c.fibers[i].parent \in ids
  BY <1>1, DetachedShape DEF Perform
<1> HIDE DEF c
<1>3. ChainShape' /\ chain' \in [Kont -> Chain]
      /\ kont' \in [Kont -> {"unused", "detached", "taken"}]
  <2>1. chain' = [chain EXCEPT ![k] = c] /\ kont' = [kont EXCEPT ![k] = "detached"]
    BY DEF Perform, c
  <2> QED BY <1>2, <2>1 DEF Shape, TypeOK, ChainShape
<1>4. slot' \in [Slot -> {"absent", "live", "vacant"}]
  BY DEF Perform, SlotsWithout, Shape, TypeOK
<1>5. fiber' \in [Slot -> Fiber] /\ BoundaryParents'
  BY EmptyFibers DEF Perform, FibersWithout, Shape, TypeOK, BoundaryParents
<1>6. current' \in Slot
  BY <1>2 DEF Perform, Captures, Shape, BoundaryParents
<1>7. UNCHANGED <<free, queue>> /\ handle' = k /\ pc' = "handler"
  BY DEF Perform
<1> QED BY <1>3, <1>4, <1>5, <1>6, <1>7
        DEF Shape, TypeOK, ActiveCurrent, DispatchHandle

(* A Pass of a live continuation keeps the shape.                              *)
LEMMA PassOnShape ==
  ASSUME Shape, NEW k \in Kont, NEW l \in Kont, NEW ids \in SUBSET Live, NEW b \in Live,
         PassOn(k, l, ids, b)
  PROVE  Shape'
<1>1. current \in Slot /\ kont[k] = "detached"
  BY DEF PassOn, Shape, ActiveCurrent, Active
<1> DEFINE c == chain[k]
           d == PassedCut(ids, b)
           e == Appended(c, d)
<1>2. /\ d \in Chain /\ d.head = current /\ d.last = b /\ d.ids = ids
      /\ current \in ids /\ b \in ids /\ b \in Slot
      /\ \A i \in ids \ {b} : d.fibers[i].parent \in ids
  BY <1>1, DetachedShape DEF PassOn
<1>3. /\ c \in Chain /\ c.head \in c.ids /\ c.last \in c.ids
      /\ \A i \in c.ids \ {c.last} : c.fibers[i].parent \in c.ids
  BY <1>1 DEF Shape, TypeOK, ChainShape
<1> HIDE DEF c, d
<1>4. /\ e \in Chain /\ e.head \in e.ids /\ e.last \in e.ids
      /\ \A i \in e.ids \ {e.last} : e.fibers[i].parent \in e.ids
  BY <1>2, <1>3, AppendedShape
<1> HIDE DEF e
<1>5. ChainShape' /\ chain' \in [Kont -> Chain]
      /\ kont' \in [Kont -> {"unused", "detached", "taken"}]
  <2>1. /\ chain' = [chain EXCEPT ![k] = NoChain, ![l] = e]
        /\ kont' = [kont EXCEPT ![k] = "taken", ![l] = "detached"] /\ k # l
    BY <1>1 DEF PassOn, c, d, e
  <2> QED BY <1>4, <2>1, EmptyFibers DEF Shape, TypeOK, ChainShape
<1>6. slot' \in [Slot -> {"absent", "live", "vacant"}]
  BY DEF PassOn, SlotsWithout, Shape, TypeOK
<1>7. fiber' \in [Slot -> Fiber] /\ BoundaryParents'
  BY EmptyFibers DEF PassOn, FibersWithout, Shape, TypeOK, BoundaryParents
<1>8. current' \in Slot
  BY <1>2 DEF PassOn, Captures, Shape, BoundaryParents
<1>9. UNCHANGED <<free, queue>> /\ handle' = l /\ pc' = "handler"
  BY DEF PassOn
<1> QED BY <1>5, <1>6, <1>7, <1>8, <1>9
        DEF Shape, TypeOK, ActiveCurrent, DispatchHandle

(* So does the death of a PyK.                                                 *)
LEMMA DropShape ==
  ASSUME Shape, NEW k \in Kont, DropKont(k)
  PROVE  Shape'
<1>1. queue' \in [Slot -> Nat]
  BY DEF DropKont, Report, Shape, TypeOK
<1>2. chain' \in [Kont -> Chain] /\ kont' \in [Kont -> {"unused", "detached", "taken"}]
  BY EmptyFibers DEF DropKont, Shape, TypeOK
<1>3. ChainShape'
  BY DEF DropKont, Shape, TypeOK, ChainShape
<1> QED BY <1>1, <1>2, <1>3
        DEF DropKont, Shape, TypeOK, ActiveCurrent, Active, DispatchHandle, BoundaryParents

(* So does a Pass of a consumed one.                                           *)
LEMMA PassTakenShape ==
  ASSUME Shape, NEW k \in Kont, NEW ids \in SUBSET Live, NEW b \in Live, PassTaken(k, ids, b)
  PROVE  Shape'
<1>1. slot' \in [Slot -> {"absent", "live", "vacant"}] /\ queue' \in [Slot -> Nat]
  BY DEF PassTaken, SlotsWithout, Report, Shape, TypeOK
<1>2. fiber' \in [Slot -> Fiber] /\ BoundaryParents'
  BY EmptyFibers DEF PassTaken, FibersWithout, Shape, TypeOK, BoundaryParents
<1> QED BY <1>1, <1>2
        DEF PassTaken, Shape, TypeOK, ActiveCurrent, Active, DispatchHandle, ChainShape

(* The handle of the top frame is a PyK handle or None.                        *)
LEMMA TopHandleType ==
  ASSUME TypeOK, current \in Slot, Frames(current) # <<>>
  PROVE  /\ TopHandle \in Kont \cup {None}
         /\ TopHandle \in Kont => HasHandle(fiber[current], TopHandle)
<1> DEFINE s == fiber[current].frames
<1>1. s \in Seq(Kont \cup {None}) /\ s # <<>>
  BY DEF TypeOK, Fiber, Frames
<1>2. Len(s) \in 1..Len(s) /\ s[Len(s)] \in Kont \cup {None} /\ DOMAIN s = 1..Len(s)
  BY <1>1
<1> QED BY <1>2 DEF TopHandle, Frames, HasHandle

(* Every step but those above.                                                 *)
LEMMA ShapeStep ==
  ASSUME Shape, [Next]_vars
  PROVE  Shape'
<1>1. CASE UNCHANGED vars
  BY <1>1 DEF vars, avars, Shape, TypeOK, ActiveCurrent, Active, DispatchHandle,
              BoundaryParents, ChainShape
<1>2. CASE BeginRun
  <2>1. slot' \in [Slot -> {"absent", "live", "vacant"}] /\ current' \in Slot
    BY <1>2 DEF BeginRun
  <2>2. ArenaShape'
    BY <1>2, <2>1, ClearedShape DEF BeginRun
  <2> QED BY <1>2, <2>1, <2>2, ShapeParts
          DEF BeginRun, ArenaShape, Shape, TypeOK, ActiveCurrent, Active, DispatchHandle
<1>3. CASE EndRun
  <2>1. ArenaShape'
    BY <1>3, ClearedShape DEF EndRun, Clear
  <2> QED BY <1>3, <2>1 DEF EndRun, ArenaShape, Shape, TypeOK, ActiveCurrent, Active, DispatchHandle
<1>4. ASSUME NEW k \in Kont, DropKont(k) PROVE Shape'
  BY <1>4, DropShape
<1> DEFINE Signals == {"eval", "send", "raise", "done", "failed"}
<1>5. ASSUME ArenaShape', current' \in Slot, pc' \in Signals, handle' = None
      PROVE  Shape'
  BY <1>5, NoneIsNoName DEF ArenaShape, Shape, TypeOK, ActiveCurrent, DispatchHandle
<1>6. ASSUME pc # "handler" PROVE handle = None
  BY <1>6 DEF Shape, TypeOK, DispatchHandle
<1>7. Active => current \in Slot /\ SameButFrames(PopFrame(current))
  BY PopFrameSame DEF Shape, ActiveCurrent
<1>8. CASE StreamYields \/ EvalValue \/ EvalFails \/ PerformRefused \/ HandlerAnswers \/ HandlerFails
  <2>1. UNCHANGED <<avars, current>> /\ pc' \in Signals /\ handle' = None /\ Active
    BY <1>6, <1>8 DEF StreamYields, EvalValue, EvalFails, PerformRefused, HandlerAnswers,
                      HandlerFails, Running, Active, avars
  <2>2. SameButFrames(fiber')
    BY <2>1, FiberSame DEF avars, Shape
  <2> QED BY <1>5, <1>7, <2>1, <2>2, SameShape DEF avars
<1>9. CASE StreamDone \/ TailEval
  <2>1. /\ fiber' = PopFrame(current) /\ UNCHANGED <<slot, free, queue, kont, chain, current>>
        /\ pc' \in Signals /\ handle' = None /\ Active
    BY <1>6, <1>9 DEF StreamDone, TailEval, Running, Active
  <2> QED BY <1>5, <1>7, <2>1, SameShape
<1>10. CASE EvalExpand \/ HandlerStreams
  <2> DEFINE g == IF pc = "handler" THEN handle ELSE None
  <2>1. /\ fiber' = [fiber EXCEPT ![current] = Pushed(fiber[current], g)]
        /\ UNCHANGED <<slot, free, queue, kont, chain, current>>
        /\ pc' \in Signals /\ handle' = None /\ Active
    BY <1>6, <1>10 DEF EvalExpand, HandlerStreams, Active
  <2>2. g \in Kont \cup {None} /\ fiber \in [Slot -> Fiber] /\ current \in Slot
    BY <1>7, <2>1 DEF Shape, TypeOK
  <2>3. fiber' \in [Slot -> Fiber] /\ BoundaryParents'
    BY <2>1, <2>2, PushedFiber DEF Shape, BoundaryParents
  <2>4. ArenaShape'
    BY <2>1, <2>3 DEF ArenaShape, Shape, TypeOK, ChainShape
  <2> QED BY <1>5, <2>1, <2>2, <2>4
<1>11. CASE StreamRaises \/ HandlerRaises
  <2> DEFINE h == IF pc = "handler" THEN handle ELSE TopHandle
             before == IF pc = "handler" THEN fiber ELSE PopFrame(current)
  <2>1. Recover(h, before) /\ handle' = None /\ Active
    BY <1>6, <1>11 DEF StreamRaises, HandlerRaises, Running, Active
  <2>2. current \in Slot /\ SameButFrames(before) /\ h \in Kont \cup {None}
    BY <1>7, <1>11, <2>1, FiberSame, TopHandleType
       DEF Shape, TypeOK, StreamRaises, HandlerRaises, Running
  <2> HIDE DEF h, before
  <2>3. ArenaShape' /\ current' \in Slot /\ pc' \in Signals
    BY <2>1, <2>2, RecoverShape
  <2> QED BY <1>5, <2>1, <2>3
<1>12. CASE FiberEnds
  <2>1. current \in Slot /\ Free(current) /\ handle' = None
    BY <1>6, <1>7, <1>12 DEF FiberEnds, Running, Active
  <2>2. ArenaShape'
    BY <2>1, FreeShape
  <2>3. current' \in Slot \cup {None} /\ pc' \in Signals /\ (current' = None => ~Active')
    BY <1>12, <2>1 DEF FiberEnds, Running, Active, Shape, TypeOK, Fiber
  <2> QED BY <2>1, <2>2, <2>3, NoneIsNoName
          DEF ArenaShape, Shape, TypeOK, ActiveCurrent, DispatchHandle
<1>13. ASSUME NEW i \in Slot, BodyFiber(i) \/ \E role \in Roles : MatchWith(i, role)
       PROVE  Shape'
  <2>1. PICK r \in {"plain", "prompt", "observe"} : Alloc(i, NewFiber(current, r))
    BY <1>13, Bounds DEF BodyFiber, MatchWith
  <2>2. current \in Slot /\ handle' = None /\ current' \in Slot /\ pc' \in {"eval", "body"}
    BY <1>6, <1>7, <1>13 DEF BodyFiber, MatchWith, Active
  <2>3. ArenaShape'
    BY <2>1, <2>2, AllocShape
  <2> QED BY <2>2, <2>3, NoneIsNoName
          DEF ArenaShape, Shape, TypeOK, ActiveCurrent, DispatchHandle
<1>14. ASSUME NEW k \in Kont,
              PassUnhandled(k) \/ \E t \in BOOLEAN, g \in {"send", "raise"} : Resume(k, t, g)
       PROVE  Shape'
  <2>1. handle' = None /\ current \in Slot /\ SameButFrames(PopFrame(current))
    BY <1>6, <1>7, <1>14 DEF PassUnhandled, Resume, Active
  <2>2. CASE PassUnhandled(k)
    <3>1. Continue(k, PopFrame(current), "raise")
      BY <2>2 DEF PassUnhandled
    <3> QED BY <1>5, <2>1, <3>1, ContinueShape
  <2>3. ASSUME NEW t \in BOOLEAN, NEW g \in {"send", "raise"}, Resume(k, t, g)
        PROVE  Shape'
    <3> DEFINE before == IF t THEN PopFrame(current) ELSE fiber
    <3>1. Continue(k, before, g)
      BY <2>3 DEF Resume
    <3>2. SameButFrames(before)
      BY <2>1, FiberSame DEF Shape
    <3> HIDE DEF before
    <3>3. ArenaShape' /\ current' \in Slot /\ pc' \in {g, "failed"}
      BY <2>1, <3>1, <3>2, ContinueShape
    <3> QED BY <1>5, <2>1, <3>3
  <2> QED BY <1>14, <2>2, <2>3
<1>15. ASSUME NEW ids \in SUBSET Live, NEW b \in Live, NEW k \in Kont,
              \/ Perform(k, ids, b) \/ PassTaken(k, ids, b)
              \/ \E l \in Kont : PassOn(k, l, ids, b)
       PROVE  Shape'
  BY <1>15, PerformShape, PassTakenShape, PassOnShape
<1> QED BY <1>1, <1>2, <1>3, <1>4, <1>8, <1>9, <1>10, <1>11, <1>12, <1>13, <1>14, <1>15
        DEF Next, Step, Instruction

(* Every variable keeps its type.                                              *)
THEOREM TypeCorrect == Spec => []TypeOK
<1>1. Init => Shape
  BY InitShape
<1>2. Shape /\ [Next]_vars => Shape'
  BY ShapeStep
<1>3. Shape => TypeOK
  BY DEF Shape
<1> QED BY <1>1, <1>2, <1>3, PTL DEF Spec

-------------------------------------------------------------------------------
(* Handles: when programs leave the continuations of earlier runs alone, no    *)
(* step lets the running program reach one through a frame.                    *)

Reached(h) ==
  \/ \E i \in Slot : HasHandle(fiber[i], h)
  \/ \E k \in Kont : ~chain[k].stale /\ \E i \in chain[k].ids : HasHandle(chain[k].fibers[i], h)

(* FreshHandles, handle by handle.                                             *)
LEMMA FreshReached ==
  FreshHandles <=> \A h \in Kont : chain[h].stale => handle # h /\ ~Reached(h)
BY DEF FreshHandles, Reached

(* It is enough that a step makes no chain stale and reaches no new handle.    *)
LEMMA FreshKept ==
  ASSUME FreshHandles,
         \A h \in Kont : /\ chain'[h].stale => chain[h].stale
                         /\ Reached(h)' => Reached(h) \/ handle = h
                         /\ handle' = h => handle = h \/ ~chain'[h].stale
  PROVE  FreshHandles'
BY DEF FreshHandles, Reached

(* Handles stay fresh when frames only go and the chains stay.                 *)
LEMMA FreshSame ==
  ASSUME FreshHandles, SameButFrames(fiber'), chain' = chain, handle' \in {handle, None}
  PROVE  FreshHandles'
BY NoneIsNoName DEF FreshHandles, SameButFrames

(* The fibers of a chain of this run bring in fresh handles only.              *)
LEMMA FreshReattach ==
  ASSUME Shape, FreshHandles, NEW k \in Kont, kont[k] = "detached", ~chain[k].stale,
         current \in Slot, NEW before, SameButFrames(before), NEW signal,
         Reattach(k, before, signal), handle' \in {handle, None}
  PROVE  FreshHandles'
<1> DEFINE c == chain[k]
<1>1. /\ c \in Chain /\ c.ids \subseteq Slot /\ \A i \in Slot : c.fibers[i] \in Fiber
      /\ Placed(c) \subseteq c.ids
  BY DEF Shape, TypeOK, Chain, Placed
<1>2. \A i \in Slot, h \in Kont :
        HasHandle(Attached(c, current)[i], h) => HasHandle(c.fibers[i], h)
  <2>1. \A f \in Fiber : [f EXCEPT !.parent = current].frames = f.frames
    BY DEF Fiber
  <2> QED BY <1>1, <2>1 DEF Attached, HasHandle
<1>3. /\ \A i \in Slot : fiber'[i] = IF i \in Placed(c) THEN Attached(c, current)[i]
                                     ELSE before[i]
      /\ chain' = [chain EXCEPT ![k] = NoChain]
  BY DEF Reattach
<1> HIDE DEF c
<1>4. NoChain.ids = {} /\ NoChain.stale = FALSE
  BY DEF NoChain
<1>5. \A h \in Kont : chain'[h].stale => chain[h].stale
  BY <1>3, <1>4 DEF Shape, TypeOK
<1>6. ASSUME NEW h \in Kont, Reached(h)' PROVE Reached(h)
  <2>1. CASE \E i \in Slot : HasHandle(fiber'[i], h)
    <3>1. PICK i \in Slot : HasHandle(fiber'[i], h)
      BY <2>1
    <3>2. HasHandle(fiber[i], h) \/ (i \in c.ids /\ HasHandle(c.fibers[i], h))
      BY <1>1, <1>2, <1>3, <3>1 DEF SameButFrames
    <3> QED BY <3>2 DEF Reached, c
  <2>2. CASE \E g \in Kont : ~chain'[g].stale
                /\ \E i \in chain'[g].ids : HasHandle(chain'[g].fibers[i], h)
    <3>1. PICK g \in Kont : ~chain'[g].stale
                /\ \E i \in chain'[g].ids : HasHandle(chain'[g].fibers[i], h)
      BY <2>2
    <3>2. g # k /\ chain'[g] = chain[g]
      BY <1>3, <1>4, <3>1 DEF Shape, TypeOK
    <3> QED BY <3>1, <3>2 DEF Reached
  <2> QED BY <1>6, <2>1, <2>2 DEF Reached
<1> QED BY <1>5, <1>6, FreshKept, NoneIsNoName

(* A new chain made of fibers the running program has.                         *)
LEMMA FreshCapture ==
  ASSUME Shape, FreshHandles, NEW l \in Kont, NEW K \in SUBSET Kont, NEW c \in Chain, NEW ids,
         ~c.stale, handle' = l, fiber' = FibersWithout(ids),
         chain' = [g \in Kont |-> IF g = l THEN c ELSE IF g \in K THEN NoChain ELSE chain[g]],
         \A i \in c.ids, h \in Kont : HasHandle(c.fibers[i], h) => Reached(h)
  PROVE  FreshHandles'
<1>1. NoChain.ids = {} /\ NoChain.stale = FALSE
  BY DEF NoChain
<1>2. \A h \in Kont : chain'[h].stale => chain[h].stale
  BY <1>1 
<1>3. ~chain'[l].stale
  OBVIOUS
<1>4. ASSUME NEW h \in Kont, Reached(h)' PROVE Reached(h)
  <2>1. CASE \E i \in Slot : HasHandle(fiber'[i], h)
    <3>1. PICK i \in Slot : HasHandle(fiber'[i], h)
      BY <2>1
    <3>2. fiber'[i] = IF i \in ids THEN NoFiber ELSE fiber[i]
      BY DEF FibersWithout
    <3> QED BY <3>1, <3>2, EmptyFibers DEF Reached
  <2>2. CASE \E g \in Kont : ~chain'[g].stale
                /\ \E i \in chain'[g].ids : HasHandle(chain'[g].fibers[i], h)
    <3>1. PICK g \in Kont : ~chain'[g].stale
                /\ \E i \in chain'[g].ids : HasHandle(chain'[g].fibers[i], h)
      BY <2>2
    <3>2. CASE g = l
      BY <3>1, <3>2
    <3>3. CASE g # l
      <4>1. chain'[g] = chain[g]
        BY <1>1, <3>1, <3>3
      <4> QED BY <3>1, <4>1 DEF Reached
    <3> QED BY <3>2, <3>3
  <2> QED BY <1>4, <2>1, <2>2 DEF Reached
<1> QED BY <1>2, <1>3, <1>4, FreshKept

(* The handle recovered from a frame or the dispatch is of this run.           *)
LEMMA RecoveredFresh ==
  ASSUME Shape, FreshHandles, StreamRaises \/ HandlerRaises
  PROVE  \E h \in Kont \cup {None} : \E before :
           /\ Recover(h, before) /\ SameButFrames(before) /\ current \in Slot
           /\ h \in Kont => ~chain[h].stale
<1>1. current \in Slot /\ SameButFrames(PopFrame(current)) /\ SameButFrames(fiber)
  BY PopFrameSame, FiberSame
     DEF StreamRaises, HandlerRaises, Running, Shape, ActiveCurrent, Active
<1>2. CASE StreamRaises
  <2>1. TopHandle \in Kont \cup {None} /\ (TopHandle \in Kont => HasHandle(fiber[current], TopHandle))
    BY <1>1, <1>2, TopHandleType DEF StreamRaises, Shape
  <2>2. TopHandle \in Kont => ~chain[TopHandle].stale
    BY <1>1, <2>1 DEF FreshHandles
  <2>3. Recover(TopHandle, PopFrame(current))
    BY <1>2 DEF StreamRaises
  <2> QED BY <1>1, <2>1, <2>2, <2>3
<1>3. CASE HandlerRaises
  <2>1. handle \in Kont /\ ~chain[handle].stale /\ Recover(handle, fiber)
    BY <1>3 DEF HandlerRaises, Shape, DispatchHandle, FreshHandles
  <2> QED BY <1>1, <2>1
<1> QED BY <1>2, <1>3

(* A recovery resumes through a fresh handle.                                  *)
LEMMA FreshRecover ==
  ASSUME Shape, FreshHandles, NEW h \in Kont \cup {None}, h \in Kont => ~chain[h].stale,
         NEW before, SameButFrames(before), current \in Slot, Recover(h, before),
         handle' \in {handle, None}
  PROVE  FreshHandles'
<1>1. CASE h # None /\ kont[h] = "detached"
  BY <1>1, FreshReattach DEF Recover
<1>2. CASE ~(h # None /\ kont[h] = "detached")
  BY <1>2, FreshSame DEF Recover
<1> QED BY <1>1, <1>2

(* So does a program that resumes a continuation of this run.                  *)
LEMMA FreshContinue ==
  ASSUME Shape, FreshHandles, NEW k \in Kont, ~chain[k].stale, NEW signal,
         NEW before, SameButFrames(before), current \in Slot, Continue(k, before, signal),
         handle' \in {handle, None}
  PROVE  FreshHandles'
<1>1. CASE kont[k] = "detached"
  BY <1>1, FreshReattach DEF Continue
<1>2. CASE kont[k] # "detached"
  BY <1>2, FreshSame DEF Continue
<1> QED BY <1>1, <1>2

(* At the end of a run no handle is left in the arena.                         *)
LEMMA FreshCleared ==
  ASSUME Shape, handle = None, chain' = Orphaned, UNCHANGED <<kont, handle>>, fiber' = NoFibers
  PROVE  FreshHandles'
<1>1. \A k \in Kont : ~chain'[k].stale => chain'[k] = NoChain
  BY OrphanedChains
<1>2. NoChain.ids = {} /\ \A i \in Slot : fiber'[i] = NoFiber
  BY DEF NoChain, NoFibers
<1> QED BY <1>1, <1>2, EmptyFibers, NoneIsNoName DEF FreshHandles

(* Without escaped continuations every step keeps the handles fresh.           *)
LEMMA FreshStep ==
  ASSUME ~EscapedK, Shape, FreshHandles, [Next]_vars
  PROVE  FreshHandles'
<1>1. CASE UNCHANGED vars
  BY <1>1 DEF vars, avars, FreshHandles
<1>2. ASSUME pc # "handler" PROVE handle = None
  BY <1>2 DEF Shape, TypeOK, DispatchHandle
<1>3. CASE BeginRun \/ EndRun
  BY <1>2, <1>3, FreshCleared DEF BeginRun, EndRun, Clear
<1>4. ASSUME NEW k \in Kont, DropKont(k) PROVE FreshHandles'
  <2>1. NoChain.ids = {} /\ NoChain.stale = FALSE
    BY DEF NoChain
  <2>2. /\ chain' = [chain EXCEPT ![k] = NoChain] /\ chain \in [Kont -> Chain]
        /\ UNCHANGED <<fiber, handle>>
    BY <1>4 DEF DropKont, Shape, TypeOK
  <2>3. \A g \in Kont : chain'[g] = IF g = k THEN NoChain ELSE chain[g]
    BY <2>2
  <2>4. \A h \in Kont : chain'[h].stale => chain[h].stale
    BY <2>1, <2>3
  <2>5. \A h \in Kont : Reached(h)' => Reached(h)
    BY <2>1, <2>2, <2>3 DEF Reached
  <2> QED BY <2>2, <2>4, <2>5, FreshKept
<1>5. Active => current \in Slot /\ SameButFrames(PopFrame(current))
  BY PopFrameSame DEF Shape, ActiveCurrent
<1>6. CASE StreamYields \/ EvalValue \/ EvalFails \/ PerformRefused \/ HandlerAnswers \/ HandlerFails
  <2>1. UNCHANGED <<fiber, chain>> /\ handle' \in {handle, None}
    BY <1>6 DEF StreamYields, EvalValue, EvalFails, PerformRefused, HandlerAnswers,
                HandlerFails, avars
  <2> QED BY <2>1, FreshSame, FiberSame DEF Shape
<1>7. CASE StreamDone \/ TailEval
  <2>1. fiber' = PopFrame(current) /\ UNCHANGED <<chain, handle>> /\ Active
    BY <1>7 DEF StreamDone, TailEval, Running, Active
  <2> QED BY <1>5, <2>1, FreshSame
<1>8. CASE EvalExpand \/ HandlerStreams
  <2> DEFINE g == IF pc = "handler" THEN handle ELSE None
  <2>1. /\ fiber' = [fiber EXCEPT ![current] = Pushed(fiber[current], g)]
        /\ chain' = chain /\ handle' = None /\ Active
    BY <1>2, <1>8 DEF EvalExpand, HandlerStreams, Active
  <2>2. g \in Kont \cup {None} /\ fiber \in [Slot -> Fiber] /\ current \in Slot
    BY <1>5, <2>1 DEF Shape, TypeOK
  <2>3. \A i \in Slot, h \in Kont : HasHandle(fiber'[i], h) => HasHandle(fiber[i], h) \/ h = handle
    BY <2>1, <2>2, PushedFiber, NoneIsNoName
  <2>4. \A h \in Kont : Reached(h)' => Reached(h) \/ handle = h
    BY <2>1, <2>3 DEF Reached
  <2> QED BY <2>1, <2>4, FreshKept, NoneIsNoName
<1>9. CASE StreamRaises \/ HandlerRaises
  <2>1. handle' \in {handle, None}
    BY <1>9 DEF StreamRaises, HandlerRaises
  <2> QED BY <1>9, <2>1, RecoveredFresh, FreshRecover
<1>10. CASE FiberEnds
  <2>1. /\ fiber' = [fiber EXCEPT ![current] = NoFiber] /\ UNCHANGED <<chain, handle>>
        /\ fiber \in [Slot -> Fiber]
    BY <1>10 DEF FiberEnds, Free, Shape, TypeOK
  <2>2. \A h \in Kont : Reached(h)' => Reached(h)
    BY <2>1, EmptyFibers DEF Reached
  <2> QED BY <2>1, <2>2, FreshKept
<1>11. ASSUME NEW i \in Slot, BodyFiber(i) \/ \E role \in Roles : MatchWith(i, role)
       PROVE  FreshHandles'
  <2>1. PICK r \in {"plain", "prompt", "observe"} : Alloc(i, NewFiber(current, r))
    BY <1>11, Bounds DEF BodyFiber, MatchWith
  <2>2. UNCHANGED <<chain, handle>> /\ current \in Slot
    BY <1>5, <1>11 DEF BodyFiber, MatchWith, Active, Alloc
  <2>3. fiber' = [fiber EXCEPT ![i] = NewFiber(current, r)] /\ fiber \in [Slot -> Fiber]
    BY <2>1 DEF Alloc, Shape, TypeOK
  <2>4. \A h \in Kont : Reached(h)' => Reached(h)
    BY <2>2, <2>3, EmptyFiber DEF Reached
  <2> QED BY <2>2, <2>4, FreshKept
<1>12. ASSUME NEW k \in Kont,
              PassUnhandled(k) \/ \E t \in BOOLEAN, g \in {"send", "raise"} : Resume(k, t, g)
       PROVE  FreshHandles'
  <2>1. /\ handle' = handle /\ ~chain[k].stale
        /\ current \in Slot /\ SameButFrames(PopFrame(current)) /\ SameButFrames(fiber)
    BY <1>5, <1>12, FiberSame DEF PassUnhandled, Resume, Active, Accessible, Shape
  <2>2. CASE PassUnhandled(k)
    <3>1. Continue(k, PopFrame(current), "raise")
      BY <2>2 DEF PassUnhandled
    <3> QED BY <2>1, <3>1, FreshContinue
  <2>3. ASSUME NEW t \in BOOLEAN, NEW g \in {"send", "raise"}, Resume(k, t, g)
        PROVE  FreshHandles'
    <3> DEFINE before == IF t THEN PopFrame(current) ELSE fiber
    <3>1. Continue(k, before, g)
      BY <2>3 DEF Resume
    <3>2. SameButFrames(before)
      BY <2>1
    <3> HIDE DEF before
    <3> QED BY <2>1, <3>1, <3>2, FreshContinue
  <2> QED BY <1>12, <2>2, <2>3
<1>13. ASSUME NEW ids \in SUBSET Live, NEW b \in Live, NEW k \in Kont, Perform(k, ids, b)
       PROVE  FreshHandles'
  <2> DEFINE c == DetachedChain(ids, current, b)
  <2>1. Captures(ids, b) /\ current \in Slot
    BY <1>5, <1>13 DEF Perform, Active
  <2>2. c \in Chain /\ ~c.stale /\ \A i \in c.ids, h \in Kont : HasHandle(c.fibers[i], h) => Reached(h)
    BY <2>1, DetachedShape DEF Reached
  <2>3. /\ fiber' = FibersWithout(ids) /\ handle' = k
        /\ chain' = [g \in Kont |-> IF g = k THEN c ELSE IF g \in {k} THEN NoChain ELSE chain[g]]
    BY <1>13 DEF Perform, Shape, TypeOK
  <2> HIDE DEF c
  <2> QED BY <2>2, <2>3, FreshCapture
<1>14. ASSUME NEW ids \in SUBSET Live, NEW b \in Live, NEW k \in Kont, PassTaken(k, ids, b)
       PROVE  FreshHandles'
  <2>1. fiber' = FibersWithout(ids) /\ UNCHANGED <<chain, handle>>
    BY <1>14 DEF PassTaken
  <2>2. \A h \in Kont : Reached(h)' => Reached(h)
    BY <2>1, EmptyFibers DEF Reached, FibersWithout
  <2> QED BY <2>1, <2>2, FreshKept
<1>15. ASSUME NEW ids \in SUBSET Live, NEW b \in Live, NEW k \in Kont, NEW l \in Kont,
              PassOn(k, l, ids, b)
       PROVE  FreshHandles'
  <2> DEFINE c == chain[k]
             d == PassedCut(ids, b)
             e == Appended(c, d)
  <2>1. Captures(ids, b) /\ current \in Slot /\ kont[k] = "detached" /\ ~c.stale /\ l # k
    BY <1>5, <1>15 DEF PassOn, Active
  <2>2. /\ d \in Chain /\ d.ids = ids /\ d.head \in ids /\ d.last \in ids
        /\ \A i \in ids \ {d.last} : d.fibers[i].parent \in ids
        /\ \A i \in Slot, h \in Kont : HasHandle(d.fibers[i], h) => Reached(h)
    BY <2>1, DetachedShape DEF Reached
  <2>3. /\ c \in Chain /\ c.head \in c.ids /\ c.last \in c.ids
        /\ \A i \in c.ids \ {c.last} : c.fibers[i].parent \in c.ids
    BY <2>1 DEF Shape, TypeOK, ChainShape
  <2>4. \A i \in c.ids, h \in Kont : HasHandle(c.fibers[i], h) => Reached(h)
    BY <2>1 DEF Reached
  <2>5. /\ fiber' = FibersWithout(ids) /\ handle' = l
        /\ chain' = [g \in Kont |-> IF g = l THEN e ELSE IF g \in {k} THEN NoChain ELSE chain[g]]
    BY <1>15, <2>1 DEF PassOn, Shape, TypeOK
  <2> HIDE DEF c, d
  <2>6. /\ e \in Chain /\ e.ids = c.ids \cup d.ids /\ e.stale = c.stale /\ e.ids \subseteq Slot
        /\ \A i \in Slot, h \in Kont :
             HasHandle(e.fibers[i], h) => (i \in c.ids /\ HasHandle(c.fibers[i], h))
                                            \/ (i \notin c.ids /\ HasHandle(d.fibers[i], h))
    BY <2>2, <2>3, AppendedShape DEF Chain
  <2> HIDE DEF e
  <2>7. ~e.stale /\ \A i \in e.ids, h \in Kont : HasHandle(e.fibers[i], h) => Reached(h)
    BY <2>1, <2>2, <2>4, <2>6
  <2> QED BY <2>5, <2>6, <2>7, FreshCapture
<1> QED BY <1>1, <1>3, <1>4, <1>6, <1>7, <1>8, <1>9, <1>10, <1>11, <1>12, <1>13, <1>14, <1>15
        DEF Next, Step, Instruction

-------------------------------------------------------------------------------
(* The single-location law.                                                    *)

(* A step that moves no slot, index or chain.                                  *)
LEMMA LocationSame ==
  ASSUME Location, UNCHANGED <<slot, free, queue, kont, chain>>
  PROVE  Location'
BY DEF Location, OwnedReserved, OneOwner, ClaimedOnce, NoneLost, Owns

(* After a clear nothing is vacant, and every chain is stale.                  *)
LEMMA LocationCleared ==
  ASSUME Shape, chain' = Orphaned, UNCHANGED kont,
         free' = [i \in Slot |-> 0], queue' = [i \in Slot |-> 0],
         slot' \in [Slot -> {"absent", "live"}]
  PROVE  Location'
<1>1. \A k \in Kont, i \in Slot : ~Owns(k, i)'
  BY OrphanedChains DEF Owns
<1> QED BY <1>1 DEF Location, OwnedReserved, OneOwner, ClaimedOnce, NoneLost

(* alloc takes a slot of the free list, or a new one.                          *)
LEMMA LocationAlloc ==
  ASSUME Shape, Location, NEW i \in Slot, NEW f, Alloc(i, f)
  PROVE  Location'
<1>1. \A j \in Slot : free[j] \in Nat /\ queue[j] \in Nat /\ Reclaimed[j] = free[j] + queue[j]
  BY DEF Shape, TypeOK, Reclaimed
<1>2. UNCHANGED <<kont, chain>> /\ \A k \in Kont, j \in Slot : Owns(k, j)' = Owns(k, j)
  BY DEF Alloc, Owns
<1>3. /\ \A j \in Slot : slot'[j] = IF j = i THEN "live" ELSE slot[j]
      /\ \A j \in Slot : queue'[j] = 0
      /\ \A j \in Slot : free'[j] = IF j = i /\ Reclaimed[i] > 0 THEN Reclaimed[i] - 1
                                    ELSE Reclaimed[j]
  BY DEF Alloc, Shape, TypeOK
<1>4. Reclaimed[i] > 0 \/ (slot[i] = "absent" /\ Reclaimed[i] = 0)
  BY <1>1 DEF Alloc, AtEnd
<1>5. free'[i] = 0 /\ \A k \in Kont : ~Owns(k, i)
  BY <1>1, <1>3, <1>4 DEF Location, ClaimedOnce, OwnedReserved
<1>6. \A j \in Slot \ {i} : slot'[j] = slot[j] /\ free'[j] + queue'[j] = free[j] + queue[j]
  BY <1>1, <1>3
<1>7. slot'[i] = "live" /\ free'[i] + queue'[i] = 0
  BY <1>3, <1>5
<1>8. OwnedReserved'
  BY <1>2, <1>5, <1>6 DEF Location, OwnedReserved
<1>9. OneOwner'
  BY <1>2 DEF Location, OneOwner
<1>10. ClaimedOnce'
  BY <1>6, <1>7 DEF Location, ClaimedOnce
<1>11. NoneLost'
  BY <1>2, <1>6, <1>7 DEF Location, NoneLost
<1> QED BY <1>8, <1>9, <1>10, <1>11 DEF Location

(* free puts a live slot on the free list, once.                               *)
LEMMA LocationFree ==
  ASSUME Shape, Location, NEW i \in Slot, Free(i)
  PROVE  Location'
<1>1. UNCHANGED <<queue, kont, chain>> /\ \A k \in Kont, j \in Slot : Owns(k, j)' = Owns(k, j)
  BY DEF Free, Owns
<1>2. \A j \in Slot : free[j] \in Nat /\ queue[j] \in Nat
  BY DEF Shape, TypeOK
<1>3. CASE slot[i] # "live"
  <2>1. UNCHANGED <<slot, free>>
    BY <1>3 DEF Free, Shape, TypeOK
  <2> QED BY <1>1, <2>1, LocationSame
<1>4. CASE slot[i] = "live"
  <2>1. free[i] = 0 /\ queue[i] = 0 /\ \A k \in Kont : ~Owns(k, i)
    BY <1>2, <1>4 DEF Location, ClaimedOnce, OwnedReserved
  <2>2. /\ slot'[i] = "vacant" /\ free'[i] = 1 /\ queue'[i] = 0
        /\ \A j \in Slot \ {i} : slot'[j] = slot[j] /\ free'[j] = free[j] /\ queue'[j] = queue[j]
    BY <1>1, <1>2, <1>4, <2>1 DEF Free, Shape, TypeOK
  <2>3. OwnedReserved' /\ NoneLost'
    BY <1>1, <1>2, <2>1, <2>2 DEF Location, OwnedReserved, NoneLost
  <2>4. OneOwner'
    BY <1>1 DEF Location, OneOwner
  <2>5. ClaimedOnce'
    BY <1>2, <2>2 DEF Location, ClaimedOnce
  <2> QED BY <2>3, <2>4, <2>5 DEF Location
<1> QED BY <1>3, <1>4

(* A chain that is not stale finds all its slots reserved: all are placed.     *)
LEMMA LocationReattach ==
  ASSUME Shape, Location, NEW k \in Kont, kont[k] = "detached", ~chain[k].stale,
         NEW before, NEW signal, Reattach(k, before, signal)
  PROVE  Location'
<1> DEFINE c == chain[k]
<1>1. c.ids \subseteq Slot /\ \A j \in Slot : free[j] \in Nat /\ queue[j] \in Nat
  BY DEF Shape, TypeOK, Chain
<1>2. \A i \in c.ids : Owns(k, i) /\ Attachable(i)
  BY <1>1 DEF Owns, Location, OwnedReserved, Attachable
<1>3. Placed(c) = c.ids
  BY <1>2 DEF Placed
<1>4. /\ \A i \in Slot : slot'[i] = IF i \in c.ids THEN "live" ELSE slot[i]
      /\ kont' = [kont EXCEPT ![k] = "taken"] /\ chain' = [chain EXCEPT ![k] = NoChain]
      /\ UNCHANGED <<free, queue>>
  BY <1>3 DEF Reattach, SlotsWith
<1> HIDE DEF c
<1>5. \A g \in Kont, i \in Slot : Owns(g, i)' <=> g # k /\ Owns(g, i)
  BY <1>4 DEF Owns, Shape, TypeOK
<1>6. \A i \in c.ids : free[i] + queue[i] = 0 /\ \A g \in Kont : Owns(g, i) => g = k
  BY <1>1, <1>2 DEF Location, OwnedReserved, OneOwner
<1>7. \A i \in Slot : Owns(k, i) => i \in c.ids
  BY DEF Owns, c
<1>8. OwnedReserved'
  BY <1>4, <1>5, <1>6 DEF Location, OwnedReserved
<1>9. OneOwner'
  BY <1>5 DEF Location, OneOwner
<1>10. ClaimedOnce'
  BY <1>1, <1>4, <1>6 DEF Location, ClaimedOnce
<1>11. NoneLost'
  BY <1>1, <1>4, <1>5, <1>7 DEF Location, NoneLost
<1> QED BY <1>8, <1>9, <1>10, <1>11 DEF Location

(* Fibers leave the arena for a chain of their own, or join one.               *)
LEMMA LocationCapture ==
  ASSUME Shape, Location, NEW l \in Kont, NEW k \in Kont, NEW c \in Chain,
         NEW ids \in SUBSET Live, kont[l] = "unused",
         k = l \/ (kont[k] = "detached" /\ ~chain[k].stale),
         ~c.stale, c.ids = ids \cup chain[k].ids, slot' = SlotsWithout(ids),
         kont'[l] = "detached", chain'[l] = c, k # l => kont'[k] = "taken",
         \A g \in Kont \ {k, l} : kont'[g] = kont[g] /\ chain'[g] = chain[g],
         UNCHANGED <<free, queue>>
  PROVE  Location'
<1>1. /\ \A i \in Slot : slot'[i] = IF i \in ids THEN "vacant" ELSE slot[i]
      /\ \A j \in Slot : free[j] \in Nat /\ queue[j] \in Nat
      /\ ids \subseteq Slot
  BY DEF SlotsWithout, Shape, TypeOK, Live
<1>2. \A i \in ids : /\ slot[i] = "live" /\ free[i] + queue[i] = 0
                     /\ \A g \in Kont : ~Owns(g, i)
  BY <1>1 DEF Location, ClaimedOnce, OwnedReserved, Live
<1>3. \A i \in Slot : i \in chain[k].ids <=> Owns(k, i)
  <2>1. k = l => chain[k].ids = {}
    BY DEF Shape, ChainShape, NoChain
  <2> QED BY <2>1 DEF Owns
<1>4. \A i \in Slot : Owns(l, i)' <=> (i \in ids \/ Owns(k, i))
  BY <1>3 DEF Owns
<1>5. \A g \in Kont \ {l}, i \in Slot : Owns(g, i)' <=> g # k /\ Owns(g, i)
  BY DEF Owns
<1>6. \A i \in Slot : ~Owns(l, i)
  BY DEF Owns
<1>7. OwnedReserved'
  BY <1>1, <1>2, <1>4, <1>5 DEF Location, OwnedReserved
<1>8. OneOwner'
  BY <1>1, <1>2, <1>4, <1>5 DEF Location, OneOwner
<1>9. ClaimedOnce'
  BY <1>1, <1>2 DEF Location, ClaimedOnce
<1>10. NoneLost'
  <2> SUFFICES ASSUME NEW i \in Slot, slot'[i] = "vacant", free[i] + queue[i] = 0
               PROVE  \E g \in Kont : Owns(g, i)'
    BY DEF NoneLost
  <2>1. CASE i \in ids
    BY <1>4, <2>1
  <2>2. CASE i \notin ids
    <3>1. PICK g \in Kont : Owns(g, i)
      BY <1>1, <2>2 DEF Location, NoneLost
    <3>2. CASE g = k
      BY <1>4, <3>1, <3>2
    <3>3. CASE g # k
      BY <1>5, <1>6, <3>1, <3>3
    <3> QED BY <3>2, <3>3
  <2> QED BY <2>1, <2>2
<1> QED BY <1>7, <1>8, <1>9, <1>10 DEF Location

(* A chain dies: the slots it owned are reported, once.                        *)
LEMMA LocationDrop ==
  ASSUME Shape, Location, NEW k \in Kont, DropKont(k)
  PROVE  Location'
<1>1. /\ kont' = [kont EXCEPT ![k] = "unused"] /\ chain' = [chain EXCEPT ![k] = NoChain]
      /\ UNCHANGED <<slot, free>>
      /\ \A i \in Slot : queue'[i] = IF i \in chain[k].ids /\ ~chain[k].stale
                                     THEN queue[i] + 1 ELSE queue[i]
  BY DEF DropKont, Report
<1>2. \A i \in Slot : i \in chain[k].ids /\ ~chain[k].stale <=> Owns(k, i)
  BY DEF Shape, ChainShape, NoChain, Owns
<1>3. \A j \in Slot : free[j] \in Nat /\ queue[j] \in Nat
  BY DEF Shape, TypeOK
<1>4. \A g \in Kont, i \in Slot : Owns(g, i)' <=> g # k /\ Owns(g, i)
  BY <1>1 DEF Owns, Shape, TypeOK
<1>5. \A i \in Slot : free'[i] + queue'[i] = free[i] + queue[i] + (IF Owns(k, i) THEN 1 ELSE 0)
  BY <1>1, <1>2, <1>3
<1>6. \A i \in Slot : Owns(k, i) => /\ slot[i] = "vacant" /\ free[i] + queue[i] = 0
                                    /\ \A g \in Kont : Owns(g, i) => g = k
  BY DEF Location, OwnedReserved, OneOwner
<1>7. OwnedReserved'
  BY <1>1, <1>3, <1>4, <1>5, <1>6 DEF Location, OwnedReserved
<1>8. OneOwner'
  BY <1>4 DEF Location, OneOwner
<1>9. ClaimedOnce'
  BY <1>1, <1>3, <1>5, <1>6 DEF Location, ClaimedOnce
<1>10. NoneLost'
  BY <1>1, <1>3, <1>4, <1>5 DEF Location, NoneLost
<1> QED BY <1>7, <1>8, <1>9, <1>10 DEF Location

(* A recovery moves the slots of one chain, or reports them.                   *)
LEMMA LocationRecover ==
  ASSUME Shape, Location, NEW h \in Kont \cup {None}, h \in Kont => ~chain[h].stale,
         NEW before, Recover(h, before)
  PROVE  Location'
<1>1. CASE h # None /\ kont[h] = "detached"
  BY <1>1, LocationReattach DEF Recover
<1>2. CASE ~(h # None /\ kont[h] = "detached")
  BY <1>2, LocationSame DEF Recover
<1> QED BY <1>1, <1>2

(* So does a resume.                                                           *)
LEMMA LocationContinue ==
  ASSUME Shape, Location, NEW k \in Kont, ~chain[k].stale, NEW before, NEW signal,
         Continue(k, before, signal)
  PROVE  Location'
<1>1. CASE kont[k] = "detached"
  BY <1>1, LocationReattach DEF Continue
<1>2. CASE kont[k] # "detached"
  BY <1>2, LocationSame DEF Continue
<1> QED BY <1>1, <1>2

(* A Pass of a consumed continuation frees what it cut off.                    *)
LEMMA LocationPassTaken ==
  ASSUME Shape, Location, NEW k \in Kont, NEW ids \in SUBSET Live, NEW b \in Live,
         PassTaken(k, ids, b)
  PROVE  Location'
<1>1. current \in Slot /\ Captures(ids, b)
  BY DEF PassTaken, Shape, ActiveCurrent, Active
<1>2. PassedCut(ids, b).ids = ids /\ ~PassedCut(ids, b).stale
  BY <1>1, DetachedShape
<1>3. /\ \A i \in Slot : slot'[i] = IF i \in ids THEN "vacant" ELSE slot[i]
      /\ \A i \in Slot : queue'[i] = IF i \in ids THEN queue[i] + 1 ELSE queue[i]
      /\ UNCHANGED <<free, kont, chain>>
      /\ \A j \in Slot : free[j] \in Nat /\ queue[j] \in Nat
  BY <1>2 DEF PassTaken, SlotsWithout, Report, Shape, TypeOK
<1>4. \A i \in ids : i \in Slot /\ free[i] + queue[i] = 0 /\ \A g \in Kont : ~Owns(g, i)
  BY <1>3 DEF Live, Location, ClaimedOnce, OwnedReserved
<1>5. \A g \in Kont, i \in Slot : Owns(g, i)' <=> Owns(g, i)
  BY <1>3 DEF Owns
<1>6. OwnedReserved'
  BY <1>3, <1>4, <1>5 DEF Location, OwnedReserved
<1>7. OneOwner'
  BY <1>5 DEF Location, OneOwner
<1>8. ClaimedOnce'
  BY <1>3, <1>4 DEF Location, ClaimedOnce
<1>9. NoneLost'
  BY <1>3, <1>4, <1>5 DEF Location, NoneLost
<1> QED BY <1>6, <1>7, <1>8, <1>9 DEF Location

(* Without escaped continuations every step keeps every slot in one place.     *)
LEMMA LocationStep ==
  ASSUME ~EscapedK, Shape, FreshHandles, Location, [Next]_vars
  PROVE  Location'
<1>1. CASE \/ UNCHANGED vars \/ StreamYields \/ EvalValue \/ EvalFails \/ PerformRefused
           \/ HandlerAnswers \/ HandlerFails \/ StreamDone \/ TailEval \/ EvalExpand
           \/ HandlerStreams
  <2>1. UNCHANGED <<slot, free, queue, kont, chain>>
    BY <1>1 DEF vars, avars, StreamYields, EvalValue, EvalFails, PerformRefused,
                HandlerAnswers, HandlerFails, StreamDone, TailEval, EvalExpand, HandlerStreams
  <2> QED BY <2>1, LocationSame
<1>2. CASE BeginRun \/ EndRun
  <2>1. slot' \in [Slot -> {"absent", "live"}]
    BY <1>2 DEF BeginRun, EndRun, Clear
  <2> QED BY <1>2, <2>1, LocationCleared DEF BeginRun, EndRun, Clear
<1>3. ASSUME NEW k \in Kont, DropKont(k) PROVE Location'
  BY <1>3, LocationDrop
<1>4. CASE StreamRaises \/ HandlerRaises
  BY <1>4, RecoveredFresh, LocationRecover
<1>5. CASE FiberEnds
  BY <1>5, LocationFree DEF FiberEnds, Running, Shape, ActiveCurrent, Active
<1>6. ASSUME NEW i \in Slot, BodyFiber(i) \/ \E role \in Roles : MatchWith(i, role)
      PROVE  Location'
  BY <1>6, LocationAlloc DEF BodyFiber, MatchWith
<1>7. ASSUME NEW k \in Kont,
             PassUnhandled(k) \/ \E t \in BOOLEAN, g \in {"send", "raise"} : Resume(k, t, g)
      PROVE  Location'
  <2>1. ~chain[k].stale
    BY <1>7 DEF PassUnhandled, Resume, Accessible
  <2> QED BY <1>7, <2>1, LocationContinue DEF PassUnhandled, Resume
<1>8. ASSUME NEW ids \in SUBSET Live, NEW b \in Live, NEW k \in Kont, Perform(k, ids, b)
      PROVE  Location'
  <2> DEFINE c == DetachedChain(ids, current, b)
  <2>1. current \in Slot /\ Captures(ids, b) /\ kont[k] = "unused"
    BY <1>8 DEF Perform, Shape, ActiveCurrent, Active
  <2>2. c \in Chain /\ c.ids = ids /\ ~c.stale
    BY <2>1, DetachedShape
  <2>3. chain[k].ids = {}
    BY <2>1 DEF Shape, ChainShape, NoChain
  <2>4. /\ slot' = SlotsWithout(ids) /\ kont'[k] = "detached" /\ chain'[k] = c
        /\ UNCHANGED <<free, queue>>
        /\ \A g \in Kont \ {k, k} : kont'[g] = kont[g] /\ chain'[g] = chain[g]
    BY <1>8 DEF Perform, Shape, TypeOK
  <2> HIDE DEF c
  <2>5. c.ids = ids \cup chain[k].ids
    BY <2>2, <2>3
  <2> QED BY <2>1, <2>2, <2>4, <2>5, LocationCapture
<1>9. ASSUME NEW ids \in SUBSET Live, NEW b \in Live, NEW k \in Kont, NEW l \in Kont,
             PassOn(k, l, ids, b)
      PROVE  Location'
  <2> DEFINE c == chain[k]
             d == PassedCut(ids, b)
             e == Appended(c, d)
  <2>1. /\ current \in Slot /\ Captures(ids, b) /\ kont[l] = "unused" /\ kont[k] = "detached"
        /\ ~c.stale /\ k # l
    BY <1>9 DEF PassOn, Shape, ActiveCurrent, Active
  <2>2. /\ d \in Chain /\ d.ids = ids /\ d.head \in ids /\ d.last \in ids
        /\ \A i \in ids \ {d.last} : d.fibers[i].parent \in ids
    BY <2>1, DetachedShape
  <2>3. /\ c \in Chain /\ c.head \in c.ids /\ c.last \in c.ids
        /\ \A i \in c.ids \ {c.last} : c.fibers[i].parent \in c.ids
    BY <2>1 DEF Shape, TypeOK, ChainShape
  <2>4. /\ slot' = SlotsWithout(ids) /\ kont'[l] = "detached" /\ chain'[l] = e
        /\ kont'[k] = "taken" /\ UNCHANGED <<free, queue>>
        /\ \A g \in Kont \ {k, l} : kont'[g] = kont[g] /\ chain'[g] = chain[g]
    BY <1>9, <2>1 DEF PassOn, Shape, TypeOK
  <2> HIDE DEF c, d
  <2>5. e \in Chain /\ e.ids = c.ids \cup d.ids /\ e.stale = c.stale
    BY <2>2, <2>3, AppendedShape
  <2> HIDE DEF e
  <2>6. e.ids = ids \cup chain[k].ids /\ ~e.stale
    BY <2>1, <2>2, <2>3, <2>5 DEF c
  <2>7. ~chain[k].stale
    BY <2>1 DEF c
  <2> QED BY <2>1, <2>4, <2>5, <2>6, <2>7, LocationCapture
<1>10. ASSUME NEW ids \in SUBSET Live, NEW b \in Live, NEW k \in Kont, PassTaken(k, ids, b)
       PROVE  Location'
  BY <1>10, LocationPassTaken
<1> QED BY <1>1, <1>2, <1>3, <1>4, <1>5, <1>6, <1>7, <1>8, <1>9, <1>10
        DEF Next, Step, Instruction

-------------------------------------------------------------------------------
(* The ways through the stack and through the chains.                          *)

(* The parents in f lead from h through all of S, to one root in S: h is no    *)
(* parent, no two fibers have one parent, and what holds h and is closed under *)
(* parents is all of S.                                                        *)
Way(S, h, f) ==
  /\ S \subseteq Slot /\ h \in S
  /\ \A i \in S : f[i].parent \in (S \ {h}) \cup {None}
  /\ \E i \in S : f[i].parent = None
  /\ \A i, j \in S : f[i].parent = f[j].parent => i = j
  /\ \A ids \in SUBSET S :
       h \in ids /\ (\A i \in ids : f[i].parent \in ids \cup {None}) => ids = S

(* While a program runs, there is one way from the current fiber through all   *)
(* live ones; and one through every chain, which ends in a prompt.             *)
StackWay == Active => Way(Live, current, fiber)
ChainWay(c) ==
  /\ Way(c.ids, c.head, c.fibers) /\ c.last \in c.ids
  /\ c.fibers[c.last].parent = None /\ c.fibers[c.last].role = "prompt"
ChainWays == \A k \in Kont : kont[k] = "detached" => ChainWay(chain[k])
Paths == StackWay /\ ChainWays

(* Only the parents count.                                                     *)
LEMMA WaySame ==
  ASSUME NEW S, NEW h, NEW f, NEW g, Way(S, h, f), \A i \in S : g[i].parent = f[i].parent
  PROVE  Way(S, h, g)
BY DEF Way

(* Two ways joined: the root t of one becomes a child of the head of the       *)
(* other.  (A new fiber is a way of its own.)                                  *)
LEMMA WayJoined ==
  ASSUME NEW S, NEW h, NEW f, NEW T, NEW g, NEW e, NEW t \in T, NEW m,
         Way(S, h, f), Way(T, g, e), S \cap T = {}, e[t].parent = None,
         \A i \in S : m[i].parent = f[i].parent,
         \A i \in T \ {t} : m[i].parent = e[i].parent, m[t].parent = h
  PROVE  Way(S \cup T, g, m)
<1>1. S \cup T \subseteq Slot /\ g \in T /\ h \in S /\ None \notin Slot
  BY NoneIsNoName DEF Way
<1>2. \A i \in T \ {t} : m[i].parent \in T \ {g}
  BY DEF Way
<1>3. \A i \in S : m[i].parent \in (S \ {h}) \cup {None}
  BY DEF Way
<1>4. \A i \in S \cup T : m[i].parent \in ((S \cup T) \ {g}) \cup {None}
  BY <1>1, <1>2, <1>3
<1>5. \E i \in S \cup T : m[i].parent = None
  BY DEF Way
<1>6. ASSUME NEW i \in S \cup T, NEW j \in S \cup T, m[i].parent = m[j].parent
      PROVE  i = j
  <2>1. CASE i \in S /\ j \in S
    BY <1>6, <2>1 DEF Way
  <2>2. CASE i \in T \ {t} /\ j \in T \ {t}
    BY <1>6, <2>2 DEF Way
  <2>3. CASE i = t \/ j = t
    BY <1>1, <1>2, <1>3, <1>6, <2>3
  <2>4. CASE (i \in S /\ j \in T \ {t}) \/ (i \in T \ {t} /\ j \in S)
    BY <1>1, <1>2, <1>3, <1>6, <2>4
  <2> QED BY <2>1, <2>2, <2>3, <2>4
<1>7. ASSUME NEW ids \in SUBSET (S \cup T), g \in ids,
             \A i \in ids : m[i].parent \in ids \cup {None}
      PROVE  ids = S \cup T
  <2>1. ids \cap T = T
    <3>1. ASSUME NEW i \in ids \cap T PROVE e[i].parent \in (ids \cap T) \cup {None}
      <4>1. CASE i = t
        BY <4>1
      <4>2. CASE i # t
        BY <1>1, <1>2, <1>7, <3>1, <4>2
      <4> QED BY <4>1, <4>2
    <3>2. g \in ids \cap T /\ ids \cap T \in SUBSET T
      BY <1>1, <1>7
    <3> HIDE <1>7
    <3> QED BY <3>1, <3>2 DEF Way
  <2>2. h \in ids
    BY <1>1, <1>7, <2>1
  <2>3. ids \cap S = S
    <3>1. ASSUME NEW i \in ids \cap S PROVE f[i].parent \in (ids \cap S) \cup {None}
      BY <1>3, <1>7, <3>1
    <3>2. h \in ids \cap S /\ ids \cap S \in SUBSET S
      BY <1>1, <2>2
    <3> QED BY <3>1, <3>2 DEF Way
  <2> QED BY <2>1, <2>3
<1> QED BY <1>1, <1>4, <1>5, <1>6, <1>7 DEF Way

(* ids are what is on the way from h to b, and the way goes on.                *)
CutAt(h, f, ids, b) ==
  /\ h \in ids /\ b \in ids
  /\ \A i \in ids \ {b} : f[i].parent \in ids
  /\ \A i \in ids \ {h} : \E j \in ids \ {b} : f[j].parent = i
  /\ f[b].parent \notin ids /\ f[b].parent # None

(* A way cut at b: what was cut off is a way to b, what is left a way from the *)
(* parent of b.                                                                *)
LEMMA WayCut ==
  ASSUME NEW S, NEW h, NEW f, NEW ids \in SUBSET S, NEW b,
         Way(S, h, f), CutAt(h, f, ids, b),
         NEW e, e[b].parent = None, \A i \in ids \ {b} : e[i].parent = f[i].parent,
         NEW r, \A i \in S \ ids : r[i].parent = f[i].parent
  PROVE  Way(ids, h, e) /\ Way(S \ ids, f[b].parent, r)
<1> USE DEF CutAt
<1> DEFINE R == S \ ids
           p == f[b].parent
<1>1. /\ S \subseteq Slot /\ None \notin Slot /\ p \in R
      /\ \A i, j \in S : f[i].parent = f[j].parent => i = j
      /\ \A i \in S : f[i].parent \in (S \ {h}) \cup {None}
  BY NoneIsNoName DEF Way
<1>2. \A i \in R : f[i].parent \in (R \ {p}) \cup {None}
  <2> SUFFICES ASSUME NEW i \in R, f[i].parent # None PROVE f[i].parent \in R \ {p}
    OBVIOUS
  <2>1. f[i].parent \in S \ {h}
    BY <1>1
  <2>2. f[i].parent # p
    BY <1>1
  <2>3. f[i].parent \notin ids
    BY <1>1, <2>1
  <2> QED BY <2>1, <2>2, <2>3
<1>3. Way(ids, h, e)
  <2>1. \A i \in ids : e[i].parent \in (ids \ {h}) \cup {None}
    BY <1>1
  <2>2. \A i, j \in ids : e[i].parent = e[j].parent => i = j
    BY <1>1
  <2>3. ASSUME NEW Y \in SUBSET ids, h \in Y, \A i \in Y : e[i].parent \in Y \cup {None}
        PROVE  Y = ids
    <3>1. \A i \in Y \ {b} : f[i].parent \in Y
      BY <1>1, <2>3
    <3>2. ASSUME NEW i \in Y \cup R PROVE f[i].parent \in (Y \cup R) \cup {None}
      BY <1>1, <1>2, <3>1, <3>2
    <3>3. Y \cup R \in SUBSET S /\ h \in Y \cup R
      BY <2>3
    <3>4. Y \cup R = S
      BY <3>2, <3>3 DEF Way
    <3> QED BY <3>4
  <2> QED BY <1>1, <2>1, <2>2, <2>3 DEF Way
<1>4. Way(R, p, r)
  <2>1. \A i \in R : r[i].parent \in (R \ {p}) \cup {None}
    BY <1>2
  <2>2. \A i, j \in R : r[i].parent = r[j].parent => i = j
    BY <1>1
  <2>3. \E i \in R : r[i].parent = None
    <3>1. PICK i \in S : f[i].parent = None
      BY DEF Way
    <3>2. i \notin ids
      BY <1>1, <3>1
    <3> QED BY <3>1, <3>2
  <2>4. ASSUME NEW Y \in SUBSET R, p \in Y, \A i \in Y : r[i].parent \in Y \cup {None}
        PROVE  Y = R
    <3>1. ASSUME NEW i \in Y \cup ids PROVE f[i].parent \in (Y \cup ids) \cup {None}
      BY <2>4, <3>1
    <3>2. Y \cup ids \in SUBSET S /\ h \in Y \cup ids
      BY <2>4
    <3>3. Y \cup ids = S
      BY <3>1, <3>2 DEF Way
    <3> QED BY <3>3
  <2> QED BY <1>1, <2>1, <2>2, <2>3, <2>4 DEF Way
<1> QED BY <1>3, <1>4

(* One fiber without a parent is a way.                                        *)
LEMMA WayOfOne ==
  ASSUME NEW i \in Slot, NEW f, f[i].parent = None
  PROVE  Way({i}, i, f)
BY DEF Way

(* A chain whose fibers differ in frames only goes the same way, also when it  *)
(* becomes stale.                                                              *)
LEMMA ChainWaySame ==
  ASSUME NEW c, NEW d, ChainWay(c), d.head = c.head, d.last = c.last, d.ids = c.ids,
         \A i \in c.ids : /\ d.fibers[i].parent = c.fibers[i].parent
                          /\ d.fibers[i].role = c.fibers[i].role
  PROVE  ChainWay(d)
BY WaySame DEF ChainWay

(* Frames that come and go leave the ways as they are.                         *)
LEMMA PathsSame ==
  ASSUME Paths, Active' => Active, SameButFrames(fiber'),
         UNCHANGED <<slot, kont, chain, current>>
  PROVE  Paths'
<1>1. Live' = Live /\ Live \subseteq Slot
  BY DEF Live
<1>2. ChainWays'
  BY DEF Paths, ChainWays
<1>3. StackWay'
  <2> SUFFICES ASSUME Active' PROVE Way(Live, current, fiber')
    BY <1>1 DEF StackWay
  <2>1. Way(Live, current, fiber)
    BY DEF Paths, StackWay
  <2>2. \A i \in Live : fiber'[i].parent = fiber[i].parent
    BY <1>1 DEF SameButFrames
  <2> QED BY <2>1, <2>2, WaySame
<1> QED BY <1>2, <1>3 DEF Paths

(* An attached chain goes on into the stack under which it was attached; a     *)
(* chain that cannot be attached ends the run.                                 *)
LEMMA PathsReattach ==
  ASSUME Shape, Paths, Active, NEW k \in Kont, kont[k] = "detached",
         NEW before, SameButFrames(before), NEW signal, Reattach(k, before, signal)
  PROVE  Paths'
<1> DEFINE c == chain[k]
<1>1. /\ ChainWay(c) /\ c.ids \subseteq Slot /\ Way(Live, current, fiber)
      /\ \A i \in Slot : c.fibers[i] \in Fiber
  BY DEF Paths, ChainWays, StackWay, Shape, TypeOK, Chain
<1>2. ChainWays'
  BY DEF Reattach, Paths, ChainWays, Shape, TypeOK
<1>3. CASE Placed(c) = c.ids
  <2>1. c.ids \cap Live = {}
    BY <1>3 DEF Placed, Attachable, Live
  <2>2. /\ Live' = Live \cup c.ids /\ current' = c.head
        /\ \A i \in Slot : fiber'[i] = IF i \in c.ids THEN Attached(c, current)[i] ELSE before[i]
    BY <1>1, <1>3 DEF Reattach, SlotsWith, Live
  <2>3. \A f \in Fiber : [f EXCEPT !.parent = current].parent = current
    BY DEF Fiber
  <2>4. \A i \in Slot : Attached(c, current)[i]
          = IF i = c.last THEN [c.fibers[i] EXCEPT !.parent = current] ELSE c.fibers[i]
    BY DEF Attached
  <2> HIDE DEF c
  <2>5. fiber'[c.last].parent = current
    <3>1. c.last \in c.ids /\ c.last \in Slot /\ c.fibers[c.last] \in Fiber
      BY <1>1 DEF ChainWay
    <3>2. fiber'[c.last] = Attached(c, current)[c.last]
      BY <2>2, <3>1
    <3>3. Attached(c, current)[c.last] = [c.fibers[c.last] EXCEPT !.parent = current]
      BY <2>4, <3>1
    <3> QED BY <2>3, <3>1, <3>2, <3>3
  <2>6. \A i \in c.ids \ {c.last} : fiber'[i].parent = c.fibers[i].parent
    BY <1>1, <2>2, <2>4
  <2>7. \A i \in Live : fiber'[i].parent = fiber[i].parent
    BY <2>1, <2>2 DEF SameButFrames, Live
  <2>8. Way(Live \cup c.ids, c.head, fiber')
    BY <1>1, <2>1, <2>5, <2>6, <2>7, WayJoined DEF ChainWay
  <2> QED BY <1>2, <2>2, <2>8 DEF Paths, StackWay
<1>4. CASE Placed(c) # c.ids
  <2>1. pc' = "failed"
    BY <1>4 DEF Reattach
  <2> QED BY <1>2, <2>1 DEF Paths, StackWay, Active
<1> QED BY <1>3, <1>4

(* A recovery attaches a chain or leaves the ways as they are.                 *)
LEMMA PathsRecover ==
  ASSUME Shape, Paths, Active, NEW h \in Kont \cup {None},
         NEW before, SameButFrames(before), Recover(h, before)
  PROVE  Paths'
<1>1. CASE h # None /\ kont[h] = "detached"
  BY <1>1, PathsReattach DEF Recover
<1>2. CASE ~(h # None /\ kont[h] = "detached")
  BY <1>2, PathsSame DEF Recover
<1> QED BY <1>1, <1>2

(* So does a resume.                                                           *)
LEMMA PathsContinue ==
  ASSUME Shape, Paths, Active, NEW k \in Kont,
         NEW before, SameButFrames(before), NEW signal, Continue(k, before, signal)
  PROVE  Paths'
<1>1. CASE kont[k] = "detached"
  BY <1>1, PathsReattach DEF Continue
<1>2. CASE kont[k] # "detached"
  BY <1>2, PathsSame DEF Continue
<1> QED BY <1>1, <1>2

(* A new fiber goes under the current one, in a slot where none is.            *)
LEMMA PathsAlloc ==
  ASSUME Shape, Paths, Active, ClaimedOnce, NEW i \in Slot,
         NEW r \in {"plain", "prompt", "observe"},
         Alloc(i, NewFiber(current, r)), current' = i
  PROVE  Paths'
<1>1. /\ \A j \in Slot : free[j] \in Nat /\ queue[j] \in Nat
      /\ current \in Slot /\ i \notin Live
  BY DEF Shape, TypeOK, ActiveCurrent, Alloc, AtEnd, Reclaimed, ClaimedOnce, Live
<1>2. /\ Live' = Live \cup {i} /\ UNCHANGED <<kont, chain>>
      /\ \A j \in Slot : fiber'[j] = IF j = i THEN NewFiber(current, r) ELSE fiber[j]
  BY DEF Alloc, Live, Shape, TypeOK
<1>3. Way({i}, i, NoFibers) /\ NoFibers[i].parent = None
  BY WayOfOne, EmptyFibers DEF NoFibers
<1>4. /\ fiber'[i].parent = current /\ Live \cap {i} = {}
      /\ \A j \in Live : fiber'[j].parent = fiber[j].parent
  BY <1>1, <1>2 DEF NewFiber, Live
<1>5. Way(Live, current, fiber)
  BY DEF Paths, StackWay
<1>6. Way(Live \cup {i}, i, fiber')
  BY <1>3, <1>4, <1>5, WayJoined
<1>7. ChainWays'
  BY <1>2 DEF Paths, ChainWays
<1> QED BY <1>2, <1>6, <1>7 DEF Paths, StackWay

(* The fibers cut off at a prompt are a chain, and the stack goes on at the    *)
(* parent of the prompt.                                                       *)
LEMMA PathsCut ==
  ASSUME Shape, Paths, Active, NEW ids \in SUBSET Live, NEW b \in Live, Captures(ids, b)
  PROVE  /\ ChainWay(DetachedChain(ids, current, b)) /\ ChainWay(PassedCut(ids, b))
         /\ Way(Live \ ids, fiber[b].parent, FibersWithout(ids))
<1> DEFINE c == DetachedChain(ids, current, b)
           d == PassedCut(ids, b)
<1>1. /\ ids \subseteq Slot /\ b \in ids /\ current \in ids /\ fiber[b].role = "prompt"
      /\ \A i \in ids \ {b} : fiber[i].parent \in ids
      /\ \A i \in ids \ {current} : \E j \in ids \ {b} : fiber[j].parent = i
      /\ fiber[b].parent \notin ids
  BY DEF Captures, ChainIds, Live
<1>2. fiber[b].parent # None
  BY <1>1, NoneIsNoName DEF Shape, BoundaryParents
<1>3. c \in Chain /\ c.head = current /\ c.last = b /\ c.ids = ids
  BY <1>1, DetachedShape DEF Shape, ActiveCurrent
<1>4. \A f \in Fiber : /\ [f EXCEPT !.parent = None].parent = None
                       /\ [f EXCEPT !.parent = None].role = f.role
  BY DEF Fiber
<1>5. \A i \in Slot : c.fibers[i] = IF i = b THEN [fiber[i] EXCEPT !.parent = None]
                                    ELSE IF i \in ids THEN fiber[i] ELSE NoFiber
  BY DEF DetachedChain
<1>6. d = [c EXCEPT !.fibers = [c.fibers EXCEPT ![current] = Popped(c.fibers[current])]]
  BY DEF PassedCut
<1> HIDE DEF c, d
<1>7. /\ c.fibers[b].parent = None /\ c.fibers[b].role = "prompt"
      /\ \A i \in ids \ {b} : c.fibers[i].parent = fiber[i].parent
  <2>1. fiber[b] \in Fiber /\ b \in Slot
    BY <1>1 DEF Shape, TypeOK
  <2>2. c.fibers[b] = [fiber[b] EXCEPT !.parent = None]
    BY <1>5, <2>1
  <2>3. c.fibers[b].parent = None /\ c.fibers[b].role = "prompt"
    BY <1>1, <1>4, <2>1, <2>2
  <2>4. \A i \in ids \ {b} : c.fibers[i] = fiber[i]
    BY <1>1, <1>5
  <2> QED BY <2>3, <2>4
<1>8. \A i \in Live \ ids : FibersWithout(ids)[i].parent = fiber[i].parent
  BY DEF FibersWithout, Live
<1>9. Way(Live, current, fiber)
  BY DEF Paths, StackWay
<1>10. Way(ids, current, c.fibers) /\ Way(Live \ ids, fiber[b].parent, FibersWithout(ids))
  <2> DEFINE e == c.fibers
             r == FibersWithout(ids)
  <2>1. /\ e[b].parent = None /\ \A i \in ids \ {b} : e[i].parent = fiber[i].parent
        /\ \A i \in Live \ ids : r[i].parent = fiber[i].parent
    BY <1>7, <1>8
  <2> HIDE DEF e, r
  <2>2. Way(ids, current, e) /\ Way(Live \ ids, fiber[b].parent, r)
    <3>1. CutAt(current, fiber, ids, b)
      BY <1>1, <1>2 DEF CutAt
    <3> QED BY <1>9, <2>1, <3>1, WayCut
  <2> QED BY <2>2 DEF e, r
<1>11. ChainWay(c)
  BY <1>1, <1>3, <1>7, <1>10 DEF ChainWay
<1>12. Popped(c.fibers[current]).parent = c.fibers[current].parent
         /\ Popped(c.fibers[current]).role = c.fibers[current].role
  BY <1>1, <1>3, PoppedFiber DEF Chain
<1>13. /\ d.head = c.head /\ d.last = c.last /\ d.ids = c.ids
       /\ \A i \in Slot : d.fibers[i] = IF i = current THEN Popped(c.fibers[i]) ELSE c.fibers[i]
  BY <1>3, <1>6 DEF Chain
<1>14. ChainWay(d)
  BY <1>1, <1>3, <1>11, <1>12, <1>13, ChainWaySame
<1> QED BY <1>10, <1>11, <1>14 DEF c, d

(* Appended chains are one way, from the head of the first to the prompt of    *)
(* the second.                                                                 *)
LEMMA WayAppended ==
  ASSUME NEW c \in Chain, NEW d \in Chain, ChainWay(c), ChainWay(d), c.ids \cap d.ids = {}
  PROVE  ChainWay(Appended(c, d))
<1> DEFINE e == Appended(c, d)
<1>1. /\ c.ids \subseteq Slot /\ d.ids \subseteq Slot /\ c.last \in c.ids /\ d.last \in d.ids
      /\ \A i \in Slot : c.fibers[i] \in Fiber /\ d.fibers[i] \in Fiber
  BY DEF Chain, ChainWay
<1>2. /\ e.ids = c.ids \cup d.ids /\ e.head = c.head /\ e.last = d.last
      /\ \A i \in Slot : e.fibers[i] = IF i = c.last THEN [c.fibers[i] EXCEPT !.parent = d.head]
                                       ELSE IF i \in c.ids THEN c.fibers[i] ELSE d.fibers[i]
  BY DEF Appended
<1>3. \A f \in Fiber : [f EXCEPT !.parent = d.head].parent = d.head
  BY DEF Fiber
<1> HIDE DEF e
<1>4. /\ e.fibers[c.last].parent = d.head
      /\ \A i \in c.ids \ {c.last} : e.fibers[i].parent = c.fibers[i].parent
      /\ \A i \in d.ids : e.fibers[i] = d.fibers[i]
  <2>1. c.last \in Slot /\ c.fibers[c.last] \in Fiber
    BY <1>1
  <2>2. e.fibers[c.last] = [c.fibers[c.last] EXCEPT !.parent = d.head]
    BY <1>2, <2>1
  <2>3. e.fibers[c.last].parent = d.head
    BY <1>3, <2>1, <2>2
  <2>4. \A i \in c.ids \ {c.last} : e.fibers[i] = c.fibers[i]
    BY <1>1, <1>2
  <2>5. \A i \in d.ids : e.fibers[i] = d.fibers[i]
    BY <1>1, <1>2
  <2> QED BY <2>3, <2>4, <2>5
<1>5. Way(d.ids \cup c.ids, c.head, e.fibers)
  BY <1>4, WayJoined DEF ChainWay
<1>6. d.ids \cup c.ids = e.ids
  BY <1>2
<1> QED BY <1>1, <1>2, <1>4, <1>5, <1>6 DEF ChainWay, e

(* A finished fiber leaves the stack to its parent.                            *)
LEMMA PathsEnds ==
  ASSUME Shape, Paths, FiberEnds
  PROVE  Paths'
<1>1. /\ Active /\ current \in Slot /\ Way(Live, current, fiber)
      /\ UNCHANGED <<kont, chain>>
      /\ Live' = Live \ {current} /\ current' = fiber[current].parent
      /\ \A i \in Slot : fiber'[i] = IF i = current THEN NoFiber ELSE fiber[i]
      /\ current' = None => ~Active'
  BY DEF FiberEnds, Running, Active, Free, Live, Paths, StackWay, Shape, TypeOK, ActiveCurrent
<1>2. ChainWays'
  BY <1>1 DEF Paths, ChainWays
<1>3. CASE current' = None
  BY <1>1, <1>2, <1>3 DEF Paths, StackWay
<1>4. CASE current' # None
  <2>1. CutAt(current, fiber, {current}, current) /\ {current} \in SUBSET Live
    BY <1>1, <1>4 DEF CutAt, Way
  <2>2. NoFibers[current].parent = None
    BY <1>1, EmptyFibers DEF NoFibers
  <2>3. \A i \in Live \ {current} : fiber'[i].parent = fiber[i].parent
    BY <1>1 DEF Live
  <2>4. Way(Live \ {current}, fiber[current].parent, fiber')
    BY <1>1, <2>1, <2>2, <2>3, WayCut
  <2> QED BY <1>1, <1>2, <2>4 DEF Paths, StackWay
<1> QED BY <1>3, <1>4

(* A run begins with its root fiber, and ends without a stack.                 *)
LEMMA PathsCleared ==
  ASSUME Shape, Paths, BeginRun \/ EndRun
  PROVE  Paths'
<1>1. chain' = Orphaned /\ UNCHANGED kont /\ fiber' = NoFibers
  BY DEF BeginRun, EndRun, Clear
<1>2. ChainWays'
  <2> SUFFICES ASSUME NEW k \in Kont, kont[k] = "detached" PROVE ChainWay(Orphaned[k])
    BY <1>1 DEF ChainWays
  <2>1. /\ Orphaned[k].head = chain[k].head /\ Orphaned[k].last = chain[k].last
        /\ Orphaned[k].ids = chain[k].ids /\ Orphaned[k].fibers = chain[k].fibers
    BY OrphanedChains
  <2>2. ChainWay(chain[k])
    BY DEF Paths, ChainWays
  <2> QED BY <2>1, <2>2, ChainWaySame
<1>3. CASE BeginRun
  <2>1. PICK i \in Slot : current' = i /\ slot' = [j \in Slot |-> IF j = i THEN "live" ELSE "absent"]
    BY <1>3 DEF BeginRun
  <2>2. Live' = {i}
    BY <2>1 DEF Live
  <2>3. fiber'[i].parent = None
    BY <1>1, EmptyFibers DEF NoFibers
  <2>4. Way({i}, i, fiber')
    BY <2>3, WayOfOne
  <2> QED BY <1>2, <2>1, <2>2, <2>4 DEF Paths, StackWay
<1>4. CASE EndRun
  BY <1>2, <1>4 DEF Paths, StackWay, EndRun, Active
<1> QED BY <1>3, <1>4

(* Perform cuts a chain off the stack, Pass hands it on behind another one.    *)
LEMMA PathsCapture ==
  ASSUME Shape, Paths, Location, NEW ids \in SUBSET Live, NEW b \in Live, NEW k \in Kont,
         \/ Perform(k, ids, b) \/ PassTaken(k, ids, b)
         \/ \E l \in Kont : PassOn(k, l, ids, b)
  PROVE  Paths'
<1>1. /\ Active /\ Captures(ids, b) /\ ids \subseteq Slot /\ current \in Slot
      /\ Live' = Live \ ids /\ fiber' = FibersWithout(ids)
      /\ Active' => current' = fiber[b].parent
  BY DEF Perform, PassTaken, PassOn, Active, SlotsWithout, Live, Shape, ActiveCurrent
<1>2. /\ ChainWay(DetachedChain(ids, current, b)) /\ ChainWay(PassedCut(ids, b))
      /\ Way(Live \ ids, fiber[b].parent, FibersWithout(ids))
  BY <1>1, PathsCut
<1>3. StackWay'
  BY <1>1, <1>2 DEF StackWay
<1>4. CASE Perform(k, ids, b)
  <2>1. \A g \in Kont : IF g = k THEN chain'[g] = DetachedChain(ids, current, b)
                        ELSE kont'[g] = kont[g] /\ chain'[g] = chain[g]
    BY <1>4 DEF Perform, Shape, TypeOK
  <2>2. ChainWays'
    BY <1>2, <2>1 DEF Paths, ChainWays
  <2> QED BY <1>3, <2>2 DEF Paths
<1>5. CASE PassTaken(k, ids, b)
  BY <1>3, <1>5 DEF PassTaken, Paths, ChainWays
<1>6. ASSUME NEW l \in Kont, PassOn(k, l, ids, b) PROVE Paths'
  <2> DEFINE c == chain[k]
             d == PassedCut(ids, b)
             e == Appended(c, d)
  <2>1. /\ kont[k] = "detached" /\ ~chain[k].stale /\ k # l
        /\ \A g \in Kont : \/ g = l /\ chain'[g] = e
                           \/ g = k /\ kont'[g] = "taken"
                           \/ kont'[g] = kont[g] /\ chain'[g] = chain[g]
    BY <1>6 DEF PassOn, Shape, TypeOK
  <2>2. c \in Chain /\ ChainWay(c) /\ d \in Chain /\ ChainWay(d) /\ d.ids = ids
    BY <1>1, <1>2, <2>1, DetachedShape DEF Shape, TypeOK, Paths, ChainWays
  <2>3. c.ids \cap d.ids = {}
    BY <1>1, <2>1, <2>2 DEF Location, OwnedReserved, Owns, Live
  <2> HIDE DEF c, d
  <2>4. ChainWay(e)
    BY <2>2, <2>3, WayAppended
  <2> HIDE DEF e
  <2>5. ChainWays'
    BY <2>1, <2>4 DEF Paths, ChainWays
  <2> QED BY <1>3, <2>5 DEF Paths
<1> QED BY <1>4, <1>5, <1>6

(* Every step keeps the ways.                                                  *)
LEMMA PathsStep ==
  ASSUME Shape, FreshHandles, Location, Paths, [Next]_vars
  PROVE  Paths'
<1>1. Active => current \in Slot /\ SameButFrames(PopFrame(current))
  BY PopFrameSame DEF Shape, ActiveCurrent
<1>2. CASE \/ UNCHANGED vars \/ StreamYields \/ EvalValue \/ EvalFails \/ PerformRefused
           \/ HandlerAnswers \/ HandlerFails
  <2>1. UNCHANGED <<avars, current>> /\ (Active' => Active)
    BY <1>2 DEF vars, StreamYields, EvalValue, EvalFails, PerformRefused,
                HandlerAnswers, HandlerFails, Running, Active
  <2>2. SameButFrames(fiber')
    BY <2>1, FiberSame DEF avars, Shape
  <2> QED BY <2>1, <2>2, PathsSame DEF avars
<1>3. CASE StreamDone \/ TailEval
  <2>1. /\ fiber' = PopFrame(current) /\ UNCHANGED <<slot, kont, chain, current>> /\ Active
    BY <1>3 DEF StreamDone, TailEval, Running, Active
  <2> QED BY <1>1, <2>1, PathsSame
<1>4. CASE EvalExpand \/ HandlerStreams
  <2> DEFINE g == IF pc = "handler" THEN handle ELSE None
  <2>1. /\ fiber' = [fiber EXCEPT ![current] = Pushed(fiber[current], g)]
        /\ UNCHANGED <<slot, kont, chain, current>> /\ Active
    BY <1>4 DEF EvalExpand, HandlerStreams, Active
  <2>2. g \in Kont \cup {None} /\ fiber \in [Slot -> Fiber] /\ current \in Slot
    BY <1>1, <2>1 DEF Shape, TypeOK
  <2> HIDE DEF g
  <2>3. \A i \in Slot : /\ fiber'[i].parent = fiber[i].parent
    BY <2>1, <2>2, PushedFiber
  <2>4. Live' = Live /\ Live \subseteq Slot /\ Way(Live, current, fiber) /\ ChainWays'
    BY <2>1 DEF Live, Paths, StackWay, ChainWays
  <2>5. Way(Live, current, fiber')
    BY <2>3, <2>4, WaySame
  <2> QED BY <2>1, <2>4, <2>5 DEF Paths, StackWay
<1>5. CASE BeginRun \/ EndRun
  BY <1>5, PathsCleared
<1>6. ASSUME NEW k \in Kont, DropKont(k) PROVE Paths'
  <2>1. /\ \A g \in Kont : IF g = k THEN kont'[g] = "unused"
                           ELSE kont'[g] = kont[g] /\ chain'[g] = chain[g]
        /\ UNCHANGED <<slot, fiber, current, pc>>
    BY <1>6 DEF DropKont, Shape, TypeOK
  <2> QED BY <2>1 DEF Paths, StackWay, ChainWays, Active, Live
<1>7. CASE StreamRaises \/ HandlerRaises
  <2>1. Active
    BY <1>7 DEF StreamRaises, HandlerRaises, Running, Active
  <2> QED BY <1>7, <2>1, RecoveredFresh, PathsRecover
<1>8. CASE FiberEnds
  BY <1>8, PathsEnds
<1>9. ASSUME NEW i \in Slot, BodyFiber(i) \/ \E role \in Roles : MatchWith(i, role)
      PROVE  Paths'
  <2>1. PICK r \in {"plain", "prompt", "observe"} : Alloc(i, NewFiber(current, r))
    BY <1>9, Bounds DEF BodyFiber, MatchWith
  <2>2. Active /\ current' = i
    BY <1>9 DEF BodyFiber, MatchWith, Active
  <2> QED BY <2>1, <2>2, PathsAlloc DEF Location
<1>10. ASSUME NEW k \in Kont,
              PassUnhandled(k) \/ \E t \in BOOLEAN, g \in {"send", "raise"} : Resume(k, t, g)
       PROVE  Paths'
  <2>1. Active /\ SameButFrames(PopFrame(current)) /\ SameButFrames(fiber)
    BY <1>1, <1>10, FiberSame DEF PassUnhandled, Resume, Active, Shape
  <2> QED BY <1>10, <2>1, PathsContinue DEF PassUnhandled, Resume
<1>11. ASSUME NEW ids \in SUBSET Live, NEW b \in Live, NEW k \in Kont,
              \/ Perform(k, ids, b) \/ PassTaken(k, ids, b)
              \/ \E l \in Kont : PassOn(k, l, ids, b)
       PROVE  Paths'
  BY <1>11, PathsCapture
<1> QED BY <1>2, <1>3, <1>4, <1>5, <1>6, <1>7, <1>8, <1>9, <1>10, <1>11
        DEF Next, Step, Instruction

(* The ways give the paths as the runs check them.                             *)
LEMMA PathsImply == Shape /\ Paths => PathsIntact
<1> SUFFICES ASSUME Shape, Paths PROVE StackIsPath /\ ChainsIntact
  BY DEF PathsIntact
<1>1. StackIsPath
  BY DEF Paths, StackWay, Active, Way, StackIsPath
<1>2. ASSUME NEW k \in Kont, kont[k] = "detached"
      PROVE  LET c == chain[k]
             IN  /\ c.head \in c.ids /\ c.last \in c.ids
                 /\ c.fibers[c.last].parent = None /\ c.fibers[c.last].role = "prompt"
                 /\ \A i \in c.ids \ {c.last} : c.fibers[i].parent \in c.ids
                 /\ \A ids \in SUBSET c.ids :
                      c.head \in ids /\ (\A i \in ids \ {c.last} : c.fibers[i].parent \in ids)
                        => ids = c.ids
  <2> DEFINE c == chain[k]
  <2>1. ChainWay(c) /\ \A i \in c.ids \ {c.last} : c.fibers[i].parent \in c.ids
    BY <1>2 DEF Paths, ChainWays, Shape, ChainShape
  <2> HIDE DEF c
  <2>2. ASSUME NEW ids \in SUBSET c.ids, c.head \in ids,
               \A i \in ids \ {c.last} : c.fibers[i].parent \in ids
        PROVE  ids = c.ids
    <3>1. \A i \in ids : c.fibers[i].parent \in ids \cup {None}
      BY <2>1, <2>2 DEF ChainWay
    <3> QED BY <2>1, <2>2, <3>1 DEF ChainWay, Way
  <2>3. c.head \in c.ids
    BY <2>1 DEF ChainWay, Way
  <2> QED BY <2>1, <2>2, <2>3 DEF ChainWay, c
<1>3. ChainsIntact
  BY <1>2 DEF ChainsIntact
<1> QED BY <1>1, <1>3

-------------------------------------------------------------------------------
(* Theorems.                                                                   *)

(* The initial states satisfy the invariant.                                   *)
LEMMA InitInvariant == Init => IInv
<1> SUFFICES ASSUME Init PROVE FreshHandles /\ Location
  BY InitShape DEF IInv
<1>1. /\ \A k \in Kont : chain[k].stale = FALSE /\ kont[k] = "unused"
      /\ \A i \in Slot : slot[i] = "absent" /\ free[i] = 0 /\ queue[i] = 0
  BY DEF Init, ArenaInit, NoChain
<1>2. FreshHandles
  BY <1>1 DEF FreshHandles
<1>3. Location
  BY <1>1 DEF Location, OwnedReserved, OneOwner, ClaimedOnce, NoneLost, Owns
<1> QED BY <1>2, <1>3

(* The invariant gives the law as the runs check it.                           *)
LEMMA InvariantImplies == IInv => SingleLocation /\ FreeListClean
<1> SUFFICES ASSUME IInv, NEW i \in Slot
             PROVE  /\ slot[i] # "vacant" => free[i] = 0 /\ queue[i] = 0 /\ Owners(i) = {}
                    /\ slot[i] = "vacant" =>
                         \/ free[i] = 1 /\ queue[i] = 0 /\ Owners(i) = {}
                         \/ free[i] = 0 /\ queue[i] = 1 /\ Owners(i) = {}
                         \/ free[i] = 0 /\ queue[i] = 0 /\ \E k \in Kont : Owners(i) = {k}
                    /\ free[i] <= 1 /\ (free[i] = 1 => slot[i] = "vacant")
  BY DEF SingleLocation, FreeListClean
<1>1. free[i] \in Nat /\ queue[i] \in Nat
  BY DEF IInv, Shape, TypeOK
<1>2. Owners(i) = {k \in Kont : Owns(k, i)}
  BY DEF Owners, Owns
<1>3. /\ free[i] + queue[i] <= 1 /\ (free[i] + queue[i] > 0 => slot[i] = "vacant")
      /\ \A k \in Kont : Owns(k, i) => slot[i] = "vacant" /\ free[i] + queue[i] = 0
      /\ \A k, l \in Kont : Owns(k, i) /\ Owns(l, i) => k = l
      /\ slot[i] = "vacant" /\ free[i] + queue[i] = 0 => \E k \in Kont : Owns(k, i)
  BY DEF IInv, Location, OwnedReserved, OneOwner, ClaimedOnce, NoneLost
<1>4. CASE \E k \in Kont : Owns(k, i)
  <2>1. PICK k \in Kont : Owns(k, i)
    BY <1>4
  <2>2. Owners(i) = {k}
    BY <1>2, <1>3, <2>1
  <2> QED BY <1>1, <1>3, <2>1, <2>2
<1>5. CASE ~\E k \in Kont : Owns(k, i)
  <2>1. Owners(i) = {}
    BY <1>2, <1>5
  <2> QED BY <1>1, <1>3, <1>5, <2>1
<1> QED BY <1>4, <1>5

(* When no program resumes a continuation of an earlier run, every slot of the *)
(* arena that was allocated is in exactly one place, however runs, handlers    *)
(* and the deaths of continuations interleave: no fiber is in two places, no   *)
(* slot leaks.                                                                 *)
THEOREM SingleLocationLaw == ASSUME ~EscapedK PROVE Spec => []SingleLocation
<1>1. Init => IInv
  BY InitInvariant
<1>2. IInv /\ [Next]_vars => IInv'
  BY ShapeStep, FreshStep, LocationStep DEF IInv
<1>3. IInv => SingleLocation
  BY InvariantImplies
<1> QED BY <1>1, <1>2, <1>3, PTL DEF Spec

(* Then the free list alloc takes slots from is clean, too.                    *)
THEOREM FreeListHygiene == ASSUME ~EscapedK PROVE Spec => []FreeListClean
<1>1. Init => IInv
  BY InitInvariant
<1>2. IInv /\ [Next]_vars => IInv'
  BY ShapeStep, FreshStep, LocationStep DEF IInv
<1>3. IInv => FreeListClean
  BY InvariantImplies
<1> QED BY <1>1, <1>2, <1>3, PTL DEF Spec

(* When no program resumes a continuation of an earlier run, there is one way  *)
(* from the current fiber through all live ones to the root, and one through   *)
(* every continuation to its prompt, however deep handlers are nested and      *)
(* however often continuations are cut off, passed on, dropped and attached.   *)
THEOREM PathsStayIntact == ASSUME ~EscapedK PROVE Spec => []PathsIntact
<1>1. Init => IInv /\ Paths
  BY InitInvariant DEF Init, ArenaInit, Paths, StackWay, ChainWays, Active
<1>2. IInv /\ Paths /\ [Next]_vars => (IInv /\ Paths)'
  BY ShapeStep, FreshStep, LocationStep, PathsStep DEF IInv
<1>3. IInv /\ Paths => PathsIntact
  BY PathsImply DEF IInv
<1> QED BY <1>1, <1>2, <1>3, PTL DEF Spec
===============================================================================
