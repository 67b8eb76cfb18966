------------------------------ MODULE FiberArena -------------------------------
(* The arena of the doeff VM (arena.rs) and the detached fiber chains its      *)
(* continuations own (continuation.rs): which slot every fiber is in, which    *)
(* slots may be allocated, and which are reserved for a continuation.          *)
(*                                                                             *)
(* The order of the free list and of the reclaim queue is left out (alloc may  *)
(* take any free index); their multiplicities are kept, because an index that  *)
(* is entered twice is what goes wrong.                                        *)
EXTENDS Integers, FiniteSets, Sequences

CONSTANTS
  Slot,       \* the slot indices the runs can reach (bounds the arena's growth)
  Rank,       \* Rank[i]: the index itself, or 0 for all slots: a model in which
              \* the arena grows by any slot, symmetric in the slots
  Kont,       \* identities of PyK objects, recycled when the object is gone
  None        \* no parent, no continuation handle

ASSUME RankIsOrder == Rank \in [Slot -> Nat]
ASSUME NoneIsNoName == None \notin Slot \cup Kont

VARIABLES
  slot,       \* fibers[i]: past the end ("absent"), a fiber ("live") or None ("vacant")
  fiber,      \* the fiber in a live slot
  free,       \* how often an index is on free_list
  queue,      \* how often it is in the slot_reclaim queue of this session
  kont,       \* the life of a PyK: no object, owns a chain, or was taken
  chain       \* the DetachedFiberChain it owns

avars == <<slot, fiber, free, queue, kont, chain>>

(* A fiber: the frames are Program frames, innermost last, each with the PyK   *)
(* handle of the dispatch that pushed it, or None.                             *)
Fiber == [parent : Slot \cup {None}, role : {"plain", "prompt", "observe"},
          frames : Seq(Kont \cup {None})]
NewFiber(parent, role) == [parent |-> parent, role |-> role, frames |-> <<>>]
NoFiber == NewFiber(None, "plain")
NoFibers == [i \in Slot |-> NoFiber]

(* stale: armed with the reclaim queue of an earlier session.                  *)
Chain == [head : Slot \cup {None}, last : Slot \cup {None}, ids : SUBSET Slot,
          fibers : [Slot -> Fiber], stale : BOOLEAN]
NoChain == [head |-> None, last |-> None, ids |-> {}, fibers |-> NoFibers, stale |-> FALSE]

ArenaInit ==
  /\ slot = [i \in Slot |-> "absent"]
  /\ fiber = NoFibers
  /\ free = [i \in Slot |-> 0]
  /\ queue = [i \in Slot |-> 0]
  /\ kont = [k \in Kont |-> "unused"]
  /\ chain = [k \in Kont |-> NoChain]

Live == {i \in Slot : slot[i] = "live"}

-------------------------------------------------------------------------------
(* alloc, free and clear.                                                      *)

Reclaimed == [i \in Slot |-> free[i] + queue[i]]

(* The end of the arena, where it grows.                                       *)
AtEnd(i) ==
  slot[i] = "absent" /\ \A j \in Slot : slot[j] = "absent" => Rank[i] <= Rank[j]

(* alloc drains the reclaim queue first, then reuses a free index, and grows   *)
(* the arena only when there is none.                                          *)
Alloc_Undrained(i, f) ==
  /\ IF \E j \in Slot : Reclaimed[j] > 0 THEN Reclaimed[i] > 0 ELSE AtEnd(i)
  /\ slot' = [slot EXCEPT ![i] = "live"]
  /\ fiber' = [fiber EXCEPT ![i] = f]
  /\ free' = [j \in Slot |-> IF j = i /\ Reclaimed[i] > 0 THEN Reclaimed[i] - 1
                             ELSE Reclaimed[j]]
  /\ UNCHANGED <<queue, kont, chain>>

Alloc_Underflow(i, f) ==
  /\ IF \E j \in Slot : Reclaimed[j] > 0 THEN Reclaimed[i] > 0 ELSE AtEnd(i)
  /\ slot' = [slot EXCEPT ![i] = "live"]
  /\ fiber' = [fiber EXCEPT ![i] = f]
  /\ free' = [Reclaimed EXCEPT ![i] = @ - 1]
  /\ queue' = [j \in Slot |-> 0]
  /\ UNCHANGED <<kont, chain>>

Alloc(i, f) ==
  /\ IF \E j \in Slot : Reclaimed[j] > 0 THEN Reclaimed[i] > 0 ELSE AtEnd(i)
  /\ slot' = [slot EXCEPT ![i] = "live"]
  /\ fiber' = [fiber EXCEPT ![i] = f]
  /\ free' = [j \in Slot |-> IF j = i /\ Reclaimed[i] > 0 THEN Reclaimed[i] - 1
                             ELSE Reclaimed[j]]
  /\ queue' = [j \in Slot |-> 0]
  /\ UNCHANGED <<kont, chain>>

Free(i) ==
  /\ slot' = [slot EXCEPT ![i] = IF @ = "live" THEN "vacant" ELSE @]
  /\ fiber' = [fiber EXCEPT ![i] = NoFiber]
  /\ free' = [free EXCEPT ![i] = IF slot[i] = "live" THEN @ + 1 ELSE @]
  /\ UNCHANGED <<queue, kont, chain>>

(* Begin or end of a run: the chains that outlive it keep the old queue.       *)
Orphaned_StillArmed == chain
Orphaned ==
  [k \in Kont |-> IF kont[k] = "detached" THEN [chain[k] EXCEPT !.stale = TRUE] ELSE chain[k]]

Clear ==
  /\ slot' = [i \in Slot |-> "absent"]
  /\ fiber' = NoFibers
  /\ free' = [i \in Slot |-> 0]
  /\ queue' = [i \in Slot |-> 0]
  /\ chain' = Orphaned
  /\ UNCHANGED kont

-------------------------------------------------------------------------------
(* detach_chain and attach_chain.                                              *)

(* ids are the slots on the way from head to last along the parents.           *)
ChainIds(ids, head, last) ==
  /\ ids \subseteq Live /\ head \in ids /\ last \in ids
  /\ \A i \in ids \ {last} : fiber[i].parent \in ids
  /\ \A i \in ids \ {head} : \E j \in ids \ {last} : fiber[j].parent = i
  /\ fiber[last].parent \notin ids

(* The fibers of ids leave the arena; the slots stay reserved.                 *)
SlotsWithout(ids) == [i \in Slot |-> IF i \in ids THEN "vacant" ELSE slot[i]]
FibersWithout(ids) == [i \in Slot |-> IF i \in ids THEN NoFiber ELSE fiber[i]]

DetachedChain(ids, head, last) ==
  [head |-> head, last |-> last, ids |-> ids, stale |-> FALSE,
   fibers |-> [i \in Slot |->
                 IF i = last THEN [fiber[i] EXCEPT !.parent = None]
                 ELSE IF i \in ids THEN fiber[i] ELSE NoFiber]]

(* append: the chain c goes on with d, and stays armed with the queue of c.    *)
Appended(c, d) ==
  [head |-> c.head, last |-> d.last, ids |-> c.ids \cup d.ids, stale |-> c.stale,
   fibers |-> [i \in Slot |->
                 IF i = c.last THEN [c.fibers[i] EXCEPT !.parent = d.head]
                 ELSE IF i \in c.ids THEN c.fibers[i] ELSE d.fibers[i]]]

(* The fibers of c as they enter the arena, the tail under parent.             *)
Attached_Loose(c, parent) == c.fibers
Attached(c, parent) ==
  [i \in Slot |-> IF i = c.last THEN [c.fibers[i] EXCEPT !.parent = parent] ELSE c.fibers[i]]

(* A slot attach_chain accepts: allocated before, vacant, not released.        *)
Attachable(i) == slot[i] = "vacant" /\ free[i] = 0

(* attach_chain goes from the head on and returns an error at the first slot   *)
(* it does not accept: the fibers before it are placed, the others are lost.   *)
Placed(c) ==
  UNION {ids \in SUBSET c.ids :
           /\ \A i \in c.ids : c.fibers[i].parent \in ids => i \in ids
           /\ \A i \in ids : Attachable(i)}

SlotsWith(ids) == [i \in Slot |-> IF i \in ids THEN "live" ELSE slot[i]]

(* The Drop of a chain reports the slots it still owns.                        *)
Report_ToNewQueue(c) == [i \in Slot |-> IF i \in c.ids THEN queue[i] + 1 ELSE queue[i]]
Report(c) == [i \in Slot |-> IF i \in c.ids /\ ~c.stale THEN queue[i] + 1 ELSE queue[i]]
===============================================================================
