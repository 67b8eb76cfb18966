-------------------------------- MODULE FiberVM --------------------------------
(* The step machine of the doeff VM (dispatch.rs, step.rs) over FiberArena:    *)
(* handlers are installed, effects performed and passed on, continuations      *)
(* resumed, fibers finish, and runs begin and end on one VM.                   *)
(*                                                                             *)
(* The program is open: at every instruction it performs any operation, on any *)
(* continuation that still exists, and its PyK objects die on any thread at    *)
(* any time.  Values are left out; of the frames the model keeps those of      *)
(* Program streams.  A handler that builds its stream in a second step         *)
(* (Expand of Apply) differs in no state change from one that returns it.      *)
EXTENDS FiberArena

CONSTANTS
  Roles,      \* the boundaries programs install: "prompt", "observe"
  MaxFrames,  \* bound on the frames of a fiber
  EscapedK    \* TRUE: programs resume continuations of earlier runs as well

ASSUME Bounds == Roles \subseteq {"prompt", "observe"} /\ MaxFrames \in Nat /\ EscapedK \in BOOLEAN

VARIABLES
  current,    \* current_segment
  pc,         \* the signal to step: eval (the instruction of the stream on top),
              \* send, raise; body: a boundary is installed, its body fiber not
              \* yet; handler: a handler is being called; idle: no run; done,
              \* failed: the step loop has returned
  handle      \* the dispatch-local PyK handle while a handler is being called

vars == <<avars, current, pc, handle>>

Init == ArenaInit /\ current = None /\ pc = "idle" /\ handle = None

-------------------------------------------------------------------------------
(* Frames.                                                                     *)

Frames(i) == fiber[i].frames
Pushed(f, k) == [f EXCEPT !.frames = Append(@, k)]
Popped(f) == [f EXCEPT !.frames = IF @ = <<>> THEN @ ELSE SubSeq(@, 1, Len(@) - 1)]
PopFrame(i) == [fiber EXCEPT ![i] = Popped(@)]

(* A frame, in the arena or detached, or the dispatch holds the handle k.      *)
HasHandle(f, k) == \E n \in DOMAIN f.frames : f.frames[n] = k
Referenced(k) ==
  \/ handle = k
  \/ \E i \in Live : HasHandle(fiber[i], k)
  \/ \E h \in Kont : \E i \in chain[h].ids : HasHandle(chain[h].fibers[i], k)

-------------------------------------------------------------------------------
(* Runs.                                                                       *)

(* begin_run_session and the root fiber; a failed run was not cleared.         *)
BeginRun ==
  /\ pc \in {"idle", "failed"}
  /\ \E i \in Slot :
       /\ \A j \in Slot : Rank[i] <= Rank[j]
       /\ slot' = [j \in Slot |-> IF j = i THEN "live" ELSE "absent"]
       /\ current' = i
  /\ fiber' = NoFibers
  /\ free' = [i \in Slot |-> 0]
  /\ queue' = [i \in Slot |-> 0]
  /\ chain' = Orphaned
  /\ pc' = "eval"
  /\ UNCHANGED <<kont, handle>>

EndRun ==
  /\ pc = "done"
  /\ Clear
  /\ current' = None
  /\ pc' = "idle"
  /\ UNCHANGED handle

(* The last reference to the PyK k dies: its chain reports the slots it still  *)
(* owns to the queue it is armed with.                                         *)
DropKont(k) ==
  /\ kont[k] # "unused" /\ ~Referenced(k)
  /\ queue' = Report(chain[k])
  /\ kont' = [kont EXCEPT ![k] = "unused"]
  /\ chain' = [chain EXCEPT ![k] = NoChain]
  /\ UNCHANGED <<slot, fiber, free, current, pc, handle>>

-------------------------------------------------------------------------------
(* Frames run: step_send and step_raise.                                       *)

Running == pc \in {"send", "raise"}
TopHandle == Frames(current)[Len(Frames(current))]

StreamYields ==
  /\ Running /\ Frames(current) # <<>>
  /\ pc' = "eval"
  /\ UNCHANGED <<avars, current, handle>>

StreamDone ==
  /\ Running /\ Frames(current) # <<>>
  /\ fiber' = PopFrame(current)
  /\ pc' = "send"
  /\ UNCHANGED <<slot, free, queue, kont, chain, current, handle>>

(* reattach_chain: the PyK k is taken, its chain enters the arena under the    *)
(* current fiber and its head becomes current.  before: the fibers of the      *)
(* arena after the frames the step has popped.                                 *)
Reattach(k, before, signal) ==
  LET c == chain[k]
      ids == Placed(c)
  IN  /\ slot' = SlotsWith(ids)
      /\ fiber' = [i \in Slot |-> IF i \in ids THEN Attached(c, current)[i] ELSE before[i]]
      /\ kont' = [kont EXCEPT ![k] = "taken"]
      /\ chain' = [chain EXCEPT ![k] = NoChain]
      /\ IF ids = c.ids THEN current' = c.head /\ pc' = signal
         ELSE current' = current /\ pc' = "failed"
      /\ UNCHANGED <<free, queue>>

(* recover_from_k_handle: the error goes on at the perform site when the       *)
(* handler did not consume the continuation h, else at the current fiber.      *)
Recover(h, before) ==
  IF h # None /\ kont[h] = "detached"
  THEN Reattach(h, before, "raise")
  ELSE /\ fiber' = before
       /\ pc' = "raise"
       /\ UNCHANGED <<slot, free, queue, kont, chain, current>>

(* The stream on top raises: its frame is popped, its handle recovered.  (An   *)
(* error while a value is sent first throws into the stream, now exhausted.)   *)
StreamRaises ==
  /\ Running /\ Frames(current) # <<>>
  /\ Recover(TopHandle, PopFrame(current))
  /\ UNCHANGED handle

(* A fiber without frames is finished: the value or error goes to its parent.  *)
FiberEnds ==
  /\ Running /\ Frames(current) = <<>>
  /\ Free(current)
  /\ current' = fiber[current].parent
  /\ pc' = IF current' # None THEN pc ELSE IF pc = "send" THEN "done" ELSE "failed"
  /\ UNCHANGED handle

-------------------------------------------------------------------------------
(* Instructions: step_eval.                                                    *)

(* Pure, Apply, a traceback or an external call: a value or an exception.      *)
EvalValue ==
  /\ pc = "eval"
  /\ pc' \in {"send", "raise"}
  /\ UNCHANGED <<avars, current, handle>>

(* An instruction of the wrong type ends the run.                              *)
EvalFails ==
  /\ pc = "eval"
  /\ pc' = "failed"
  /\ UNCHANGED <<avars, current, handle>>

(* Expand: the stream of a called program runs on the current fiber.           *)
EvalExpand ==
  /\ pc = "eval"
  /\ Len(Frames(current)) < MaxFrames
  /\ fiber' = [fiber EXCEPT ![current] = Pushed(@, None)]
  /\ pc' = "send"
  /\ UNCHANGED <<slot, free, queue, kont, chain, current, handle>>

(* TailEval drops the frame of the yielding stream, then its expression is     *)
(* evaluated; of a Transfer it leaves the frame to the Transfer.               *)
TailEval ==
  /\ pc = "eval"
  /\ fiber' = PopFrame(current)
  /\ UNCHANGED <<slot, free, queue, kont, chain, current, pc, handle>>

(* WithHandler and WithObserve: match_with installs the boundary fiber ...     *)
(* (the slots bound the arena: only when there is room for the body as well).  *)
MatchWith(i, role) ==
  /\ pc = "eval"
  /\ Cardinality({j \in Slot : slot[j] = "absent" \/ Reclaimed[j] > 0}) >= 2
  /\ Alloc(i, NewFiber(current, role))
  /\ current' = i
  /\ pc' = "body"
  /\ UNCHANGED handle

(* ... and the body gets a fiber under it.                                     *)
BodyFiber(i) ==
  /\ pc = "body"
  /\ Alloc(i, NewFiber(current, "plain"))
  /\ current' = i
  /\ pc' = "eval"
  /\ UNCHANGED handle

(* ids are the slots from the current fiber to its nearest prompt, b.          *)
Captures(ids, b) ==
  /\ ChainIds(ids, current, b)
  /\ fiber[b].role = "prompt"
  /\ \A i \in ids \ {b} : fiber[i].role # "prompt"

Handled == \E ids \in SUBSET Live, b \in Live : Captures(ids, b)

(* perform: the fibers up to the nearest prompt become the chain of a new PyK, *)
(* and the handler is called on the parent of the prompt.                      *)
Perform(k, ids, b) ==
  /\ pc = "eval" /\ kont[k] = "unused"
  /\ Captures(ids, b)
  /\ slot' = SlotsWithout(ids)
  /\ fiber' = FibersWithout(ids)
  /\ kont' = [kont EXCEPT ![k] = "detached"]
  /\ chain' = [chain EXCEPT ![k] = DetachedChain(ids, current, b)]
  /\ current' = fiber[b].parent
  /\ handle' = k
  /\ pc' = "handler"
  /\ UNCHANGED <<free, queue>>

(* The handler returns a stream, whose frame gets the handle, ...              *)
HandlerStreams ==
  /\ pc = "handler"
  /\ Len(Frames(current)) < MaxFrames
  /\ fiber' = [fiber EXCEPT ![current] = Pushed(@, handle)]
  /\ handle' = None
  /\ pc' = "send"
  /\ UNCHANGED <<slot, free, queue, kont, chain, current>>

(* ... or another instruction; the handle is dropped, ...                      *)
HandlerAnswers ==
  /\ pc = "handler"
  /\ handle' = None
  /\ pc' = "eval"
  /\ UNCHANGED <<avars, current>>

(* ... or raises: the exception goes on at the perform site, ...               *)
HandlerRaises ==
  /\ pc = "handler"
  /\ Recover(handle, fiber)
  /\ handle' = None

(* ... or the bridge fails, and the run with it.                               *)
HandlerFails ==
  /\ pc = "handler"
  /\ handle' = None
  /\ pc' = "failed"
  /\ UNCHANGED <<avars, current>>

(* No handler, or an observer that raises: the error is raised where the       *)
(* effect was performed.                                                       *)
PerformRefused ==
  /\ pc = "eval"
  /\ ~Handled \/ \E i \in Live : fiber[i].role = "observe"
  /\ pc' = "raise"
  /\ UNCHANGED <<avars, current, handle>>

(* The program can still name k (a taken one as well).                         *)
Accessible(k) == kont[k] # "unused" /\ (EscapedK \/ ~chain[k].stale)

(* continue_k; a k that was taken ends the run.                                *)
Continue(k, before, signal) ==
  IF kont[k] = "detached" THEN Reattach(k, before, signal)
  ELSE /\ fiber' = before
       /\ pc' = "failed"
       /\ UNCHANGED <<slot, free, queue, kont, chain, current>>

(* Resume, ResumeThrow: the chain of k goes on under the current fiber.        *)
(* Transfer, TransferThrow drop the frame of the yielding stream first.        *)
Resume(k, transfer, signal) ==
  /\ pc = "eval" /\ Accessible(k)
  /\ Continue(k, IF transfer THEN PopFrame(current) ELSE fiber, signal)
  /\ UNCHANGED handle

(* Pass without an outer handler: the error is raised at the perform site.     *)
PassUnhandled(k) ==
  /\ pc = "eval" /\ Accessible(k) /\ ~Handled
  /\ Continue(k, PopFrame(current), "raise")
  /\ UNCHANGED handle

(* The fibers Pass cuts off, the frame of the passing stream popped.           *)
PassedCut(ids, b) == [DetachedChain(ids, current, b) EXCEPT !.fibers[current] = Popped(@)]

(* Pass extends the chain of k up to the next prompt and hands it on as a new  *)
(* PyK l.  (Of a k of an earlier run it is left out.)                          *)
PassOn(k, l, ids, b) ==
  /\ pc = "eval" /\ Accessible(k) /\ ~chain[k].stale
  /\ kont[k] = "detached" /\ kont[l] = "unused"
  /\ Captures(ids, b)
  /\ slot' = SlotsWithout(ids)
  /\ fiber' = FibersWithout(ids)
  /\ kont' = [kont EXCEPT ![k] = "taken", ![l] = "detached"]
  /\ chain' = [chain EXCEPT ![k] = NoChain, ![l] = Appended(chain[k], PassedCut(ids, b))]
  /\ current' = fiber[b].parent
  /\ handle' = l
  /\ pc' = "handler"
  /\ UNCHANGED <<free, queue>>

(* Of a k that was taken the fibers just cut off are dropped, and the run ends *)
(* with current_segment still on the first of them.                            *)
PassTaken(k, ids, b) ==
  /\ pc = "eval" /\ Accessible(k) /\ kont[k] = "taken"
  /\ Captures(ids, b)
  /\ slot' = SlotsWithout(ids)
  /\ fiber' = FibersWithout(ids)
  /\ queue' = Report(PassedCut(ids, b))
  /\ pc' = "failed"
  /\ UNCHANGED <<free, kont, chain, current, handle>>

Instruction ==
  \/ EvalValue
  \/ EvalFails
  \/ EvalExpand
  \/ TailEval
  \/ \E i \in Slot, role \in Roles : MatchWith(i, role)
  \/ \E k \in Kont, ids \in SUBSET Live, b \in Live : Perform(k, ids, b)
  \/ PerformRefused
  \/ \E k \in Kont, transfer \in BOOLEAN, signal \in {"send", "raise"} :
        Resume(k, transfer, signal)
  \/ \E k \in Kont : PassUnhandled(k)
  \/ \E k, l \in Kont, ids \in SUBSET Live, b \in Live : PassOn(k, l, ids, b)
  \/ \E k \in Kont, ids \in SUBSET Live, b \in Live : PassTaken(k, ids, b)

Step ==
  \/ StreamYields
  \/ StreamDone
  \/ StreamRaises
  \/ FiberEnds
  \/ \E i \in Slot : BodyFiber(i)
  \/ HandlerStreams
  \/ HandlerAnswers
  \/ HandlerRaises
  \/ HandlerFails
  \/ Instruction

Next ==
  \/ BeginRun
  \/ EndRun
  \/ Step
  \/ \E k \in Kont : DropKont(k)

Spec == Init /\ [][Next]_vars

-------------------------------------------------------------------------------
(* Properties.  Owners(i) are the continuations of this session that own the   *)
(* fiber of slot i.                                                            *)

Owners(i) == {k \in Kont : kont[k] = "detached" /\ ~chain[k].stale /\ i \in chain[k].ids}

(* Every variable has its type.                                                *)
TypeOK ==
  /\ slot \in [Slot -> {"absent", "live", "vacant"}]
  /\ fiber \in [Slot -> Fiber]
  /\ free \in [Slot -> Nat] /\ queue \in [Slot -> Nat]
  /\ kont \in [Kont -> {"unused", "detached", "taken"}]
  /\ chain \in [Kont -> Chain]
  /\ current \in Slot \cup {None} /\ handle \in Kont \cup {None}
  /\ pc \in {"idle", "eval", "send", "raise", "body", "handler", "done", "failed"}

(* I1, the hygiene alloc relies on: the free list has no duplicate, and every  *)
(* index on it is a vacant slot.                                               *)
FreeListClean ==
  \A i \in Slot : free[i] <= 1 /\ (free[i] = 1 => slot[i] = "vacant")

(* I6, the single-location law, for the continuations only Python holds too:   *)
(* a slot that was allocated is in exactly one place: it holds a fiber, or it  *)
(* is free, or reported and about to be free, or reserved for the one          *)
(* continuation that owns its fiber.  None leaks, none is in two places.       *)
SingleLocation ==
  \A i \in Slot :
    /\ slot[i] # "vacant" => free[i] = 0 /\ queue[i] = 0 /\ Owners(i) = {}
    /\ slot[i] = "vacant" =>
         \/ free[i] = 1 /\ queue[i] = 0 /\ Owners(i) = {}
         \/ free[i] = 0 /\ queue[i] = 1 /\ Owners(i) = {}
         \/ free[i] = 0 /\ queue[i] = 0 /\ \E k \in Kont : Owners(i) = {k}

(* I2 and I3, and no orphans: while a program runs, the live fibers are the    *)
(* way from current_segment to the root: the current one is live, no parent    *)
(* dangles, none is in a cycle, none is cut off.                               *)
StackIsPath ==
  pc \in {"eval", "send", "raise", "body", "handler"} =>
    /\ current \in Live
    /\ \A i \in Live : fiber[i].parent \in Live \cup {None}
    /\ \A ids \in SUBSET Live :
         current \in ids /\ (\A i \in ids : fiber[i].parent \in ids \cup {None}) => ids = Live

(* I5: the fibers of a continuation are the way from its head to its last one, *)
(* the prompt it was captured at, and lead nowhere else.                       *)
ChainsIntact ==
  \A k \in {h \in Kont : kont[h] = "detached"} :
    LET c == chain[k]
    IN  /\ c.head \in c.ids /\ c.last \in c.ids
        /\ c.fibers[c.last].parent = None /\ c.fibers[c.last].role = "prompt"
        /\ \A i \in c.ids \ {c.last} : c.fibers[i].parent \in c.ids
        /\ \A ids \in SUBSET c.ids :
             c.head \in ids /\ (\A i \in ids \ {c.last} : c.fibers[i].parent \in ids)
               => ids = c.ids

(* I2, I3 and I5 together: cutting a continuation off, passing it on and       *)
(* attaching it leave one way from the current fiber through all live ones and *)
(* one way through each continuation.                                          *)
PathsIntact == StackIsPath /\ ChainsIntact
===============================================================================
