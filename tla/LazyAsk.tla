-------------------------------- MODULE LazyAsk --------------------------------
(* lazy_ask of doeff_core_effects/handlers.py: Ask and Local over an environment *)
(* whose values may be programs, evaluated on the first Ask and cached, per      *)
(* scope when they read something a Local overrides and for everybody otherwise. *)
(* A program may suspend between two of its effects, so that the tasks of a run  *)
(* interleave there; between a handler's own steps nothing suspends, except a    *)
(* wait for the key's semaphore (module Scheduler has CreateSemaphore,           *)
(* AcquireSemaphore with a permit and ReleaseSemaphore resume their performer).  *)
EXTENDS Naturals, Sequences, SequencesExt

CONSTANTS
  Task, Main,     \* the tasks of the run; the one that is not spawned
  Key,
  Lazy,           \* [program |-> sequence of the keys it asks for]
  BaseEnv,        \* what lazy_ask was given, [Key -> binding]
  Overrides,      \* what a Local may be given, functions from keys to bindings
  None,
  MaxAsks, MaxScopes, MaxFails   \* bounds

(* A binding is a plain value or names a program of Lazy.                        *)
Binding == {BaseEnv[k] : k \in Key} \cup UNION {{o[k] : k \in DOMAIN o} : o \in Overrides}

(* What an evaluation has read, as pairs of keys and the bindings found there;   *)
(* what is cached of it.                                                         *)
Value == SUBSET (Key \X Binding)
CacheEntry == [val : Value, deps : SUBSET Key]

ASSUME EnvAssumption ==
  /\ Main \in Task /\ BaseEnv \in [Key -> Binding]
  /\ \A o \in Overrides : DOMAIN o \subseteq Key
  /\ \A p \in DOMAIN Lazy : Lazy[p] \in Seq(Key)
  /\ MaxAsks \in Nat /\ MaxScopes \in Nat \ {0} /\ MaxFails \in Nat
ASSUME NoneIsNothing == None \notin Key \cup Task \cup CacheEntry

VARIABLES
  scopes,      \* the handlers made so far: effective_env, override_keys, scope_cache
  shared,      \* shared_cache and shared_deps
  evalStack,   \* eval_stack, one for all tasks
  holder, queue,  \* the keys' semaphores: who has the permit, who waits for it
  frames,      \* per task, the bodies it is in, innermost last
  state, want, \* per task, what it is doing; the key it waits for
  answer,      \* per task, its last answer
  settled,     \* keys evaluated with success under the base handler
  mixed,       \* two tasks had an evaluation open at the same time
  asks, fails

vars == <<scopes, shared, evalStack, holder, queue, frames, state, want, answer,
          settled, mixed, asks, fails>>

IsLazy(b) == b \in DOMAIN Lazy
Body(s) == [scope |-> s, key |-> None, rest |-> <<>>, got |-> {}]
NoCache == [k \in Key |-> None]

Init ==
  /\ scopes = <<[env |-> BaseEnv, over |-> {}, cache |-> NoCache]>> /\ shared = NoCache
  /\ evalStack = <<>> /\ holder = [k \in Key |-> None] /\ queue = [k \in Key |-> <<>>]
  /\ frames = [t \in Task |-> IF t = Main THEN <<Body(1)>> ELSE <<>>]
  /\ state = [t \in Task |-> IF t = Main THEN "run" ELSE "unborn"]
  /\ want = [t \in Task |-> None] /\ answer = [t \in Task |-> None]
  /\ settled = {} /\ mixed = FALSE /\ asks = 0 /\ fails = 0

Top(t) == Last(frames[t])
Scope(t) == Top(t).scope
Runs(t) == state[t] = "run"
Evaluating(t) == {frames[t][i].key : i \in DOMAIN frames[t]} \ {None}
Live(t) == state[t] # "cancelled"

(* _cache_lookup: the scope's own entry, else a shared one nothing overrides.    *)
Usable_Bug(s, e) == e # None                  \* overrides are not looked at
Usable(s, e) == e # None /\ e.deps \cap scopes[s].over = {}
Lookup(s, k) == IF scopes[s].cache[k] # None THEN scopes[s].cache[k]
                ELSE IF Usable(s, shared[k]) THEN shared[k] ELSE None

(* eval_stack[-1].update: deps go to the evaluation on top, whoever asked.       *)
Noted(stack, deps) == IF stack = <<>> THEN stack ELSE [stack EXCEPT ![Len(stack)] = @ \cup deps]

(* fs with val as the answer to what its innermost body asked.                   *)
Answered(fs, val) ==
  [fs EXCEPT ![Len(fs)].got = IF Last(fs).key = None THEN @ ELSE @ \cup val,
             ![Len(fs)].rest = IF @ = <<>> THEN @ ELSE Tail(@)]
Reply(t, fs, k, val) ==
  /\ frames' = [frames EXCEPT ![t] = Answered(fs, val)]
  /\ answer' = [answer EXCEPT ![t] = [scope |-> Last(fs).scope, key |-> k, val |-> val]]

(* ReleaseSemaphore: the permit goes to the next live waiter, the cancelled ones *)
(* before it are dropped; st is what the tasks do apart from that.               *)
Release(k, st) ==
  LET q == queue[k] IN
  \/ /\ \A i \in DOMAIN q : ~Live(q[i])
     /\ holder' = [holder EXCEPT ![k] = None] /\ queue' = [queue EXCEPT ![k] = <<>>] /\ state' = st
  \/ \E i \in DOMAIN q :
       /\ Live(q[i]) /\ \A j \in 1 .. (i - 1) : ~Live(q[j])
       /\ holder' = [holder EXCEPT ![k] = q[i]]
       /\ queue' = [queue EXCEPT ![k] = SubSeq(q, i + 1, Len(q))]
       /\ state' = [st EXCEPT ![q[i]] = "granted"]

(* The program bound to k is run under the handler of t's scope.                 *)
Evaluate(t, k, stack) ==
  LET p == scopes[Scope(t)].env[k] IN
  /\ holder' = [holder EXCEPT ![k] = t]
  /\ frames' = [frames EXCEPT ![t] = Append(@, [scope |-> Scope(t), key |-> k,
                                               rest |-> Lazy[p], got |-> {<<k, p>>}])]
  /\ evalStack' = Append(stack, {})
  /\ mixed' = (mixed \/ \E u \in Task \ {t} : Live(u) /\ Evaluating(u) # {})

Ask(t, k) ==
  LET s == Scope(t)
      b == scopes[s].env[k]
      hit == Lookup(s, k)
      stack == Noted(evalStack, {k})
  IN
  /\ Runs(t)
  /\ IF Top(t).key = None THEN asks < MaxAsks /\ asks' = asks + 1
     ELSE Top(t).rest # <<>> /\ k = Head(Top(t).rest) /\ UNCHANGED asks
  /\ \/ /\ ~IsLazy(b) \/ hit # None
        /\ Reply(t, frames[t], k, IF IsLazy(b) THEN hit.val ELSE {<<k, b>>})
        /\ evalStack' = IF IsLazy(b) THEN Noted(stack, hit.deps) ELSE stack
        /\ UNCHANGED <<holder, queue, state, want, mixed>>
     \/ /\ IsLazy(b) /\ hit = None /\ holder[k] = None
        /\ Evaluate(t, k, stack)
        /\ UNCHANGED <<queue, state, want, answer>>
     \/ /\ IsLazy(b) /\ hit = None /\ holder[k] # None
        /\ queue' = [queue EXCEPT ![k] = Append(@, t)]
        /\ state' = [state EXCEPT ![t] = "waits"] /\ want' = [want EXCEPT ![t] = k]
        /\ evalStack' = stack /\ UNCHANGED <<holder, frames, answer, mixed>>
  /\ UNCHANGED <<scopes, shared, settled, fails>>

(* The waiter has the permit: it looks again before it evaluates.                *)
SecondLook_Bug(s, k) == None                  \* it evaluates in any case
SecondLook(s, k) == Lookup(s, k)
Granted(t) ==
  LET k == want[t]
      hit == SecondLook(Scope(t), k)
  IN
  /\ state[t] = "granted" /\ want' = [want EXCEPT ![t] = None]
  /\ IF hit # None
     THEN /\ Release(k, [state EXCEPT ![t] = "run"]) /\ Reply(t, frames[t], k, hit.val)
          /\ evalStack' = Noted(evalStack, hit.deps) /\ UNCHANGED mixed
     ELSE /\ Evaluate(t, k, evalStack) /\ state' = [state EXCEPT ![t] = "run"]
          /\ UNCHANGED <<queue, answer>>
  /\ UNCHANGED <<scopes, shared, settled, asks, fails>>

(* An evaluation ends, with the value stored or with an error to whoever asked.  *)
EndsEvaluation(t) == Runs(t) /\ Top(t).key # None
Deps == IF evalStack = <<>> THEN {} ELSE Last(evalStack)
Popped == IF evalStack = <<>> THEN evalStack ELSE Front(evalStack)

Store(s, k, e) ==
  IF e.deps \cap scopes[s].over # {}
  THEN scopes' = [scopes EXCEPT ![s].cache[k] = e] /\ UNCHANGED shared
  ELSE shared' = [shared EXCEPT ![k] = e] /\ UNCHANGED scopes

Succeed(t) ==
  LET f == Top(t) IN
  /\ EndsEvaluation(t) /\ f.rest = <<>>
  /\ Release(f.key, state) /\ Store(f.scope, f.key, [val |-> f.got, deps |-> Deps])
  /\ evalStack' = Noted(Popped, Deps)
  /\ Reply(t, Front(frames[t]), f.key, f.got)
  /\ settled' = IF f.scope = 1 THEN settled \cup {f.key} ELSE settled
  /\ UNCHANGED <<want, mixed, asks, fails>>

ReleaseOnError_Bug(k) == UNCHANGED <<holder, queue, state>>
ReleaseOnError(k) == Release(k, state)
AfterError(fs) == Answered(Front(fs), {})
Fail(t) ==
  /\ EndsEvaluation(t) /\ fails < MaxFails /\ fails' = fails + 1
  /\ ReleaseOnError(Top(t).key) /\ evalStack' = Popped
  /\ frames' = [frames EXCEPT ![t] = AfterError(@)]
  /\ UNCHANGED <<scopes, shared, want, answer, settled, mixed, asks>>

(* Local: a handler of its own, with the overrides merged in and an empty cache. *)
EnterLocal(t, o) ==
  LET s == scopes[Scope(t)] IN
  /\ Runs(t) /\ Top(t).key = None /\ Len(scopes) < MaxScopes
  /\ scopes' = Append(scopes, [env |-> [k \in Key |-> IF k \in DOMAIN o THEN o[k] ELSE s.env[k]],
                               over |-> s.over \cup DOMAIN o, cache |-> NoCache])
  /\ frames' = [frames EXCEPT ![t] = Append(@, Body(Len(scopes) + 1))]
  /\ UNCHANGED <<shared, evalStack, holder, queue, state, want, answer, settled, mixed, asks, fails>>

LeaveLocal(t) ==
  /\ Runs(t) /\ Top(t).key = None /\ Len(frames[t]) > 1
  /\ frames' = [frames EXCEPT ![t] = Front(@)]
  /\ UNCHANGED <<scopes, shared, evalStack, holder, queue, state, want, answer, settled, mixed,
                 asks, fails>>

(* A task spawned inside a Local is handled by that Local's handler.             *)
Spawn(t, u) ==
  /\ Runs(t) /\ Top(t).key = None /\ state[u] = "unborn"
  /\ state' = [state EXCEPT ![u] = "run"]
  /\ frames' = [frames EXCEPT ![u] = <<Body(Scope(t))>>]
  /\ UNCHANGED <<scopes, shared, evalStack, holder, queue, want, answer, settled, mixed, asks, fails>>

(* A cancelled task is dropped where it is, no handler of it runs again; only a   *)
(* permit that was granted to it and not taken up goes on to the next.           *)
Cancel(u) ==
  /\ u # Main /\ state[u] \notin {"unborn", "cancelled"}
  /\ LET st == [state EXCEPT ![u] = "cancelled"] IN
     IF state[u] = "granted" THEN Release(want[u], st)
     ELSE state' = st /\ UNCHANGED <<holder, queue>>
  /\ UNCHANGED <<scopes, shared, evalStack, frames, want, answer, settled, mixed, asks, fails>>

Advances(t) == (\E k \in Key : Ask(t, k)) \/ Granted(t) \/ Succeed(t) \/ Fail(t)
Next ==
  \E t \in Task : \/ Advances(t) \/ LeaveLocal(t) \/ Cancel(t)
                  \/ \E o \in Overrides : EnterLocal(t, o)
                  \/ \E u \in Task : Spawn(t, u)

Spec == Init /\ [][Next]_vars

(* The dispatch loop runs whoever can, and a program that is evaluated ends.     *)
Busy(t) == Granted(t) \/ (Evaluating(t) # {} /\ Advances(t))
FairSpec == Spec /\ \A t \in Task : WF_vars(Busy(t))

-------------------------------------------------------------------------------
TypeOK ==
  /\ \A i \in DOMAIN scopes : /\ scopes[i].env \in [Key -> Binding] /\ scopes[i].over \subseteq Key
                              /\ \A k \in Key : scopes[i].cache[k] # None => scopes[i].cache[k] \in CacheEntry
  /\ \A k \in Key : shared[k] # None => shared[k] \in CacheEntry
  /\ evalStack \in Seq(SUBSET Key)
  /\ holder \in [Key -> Task \cup {None}] /\ queue \in [Key -> Seq(Task)]
  /\ \A t \in Task : /\ Live(t) /\ state[t] # "unborn" => frames[t] # <<>>
                     /\ \A i \in DOMAIN frames[t] : frames[t][i].scope \in DOMAIN scopes
  /\ state \in [Task -> {"unborn", "run", "waits", "granted", "cancelled"}]
  /\ want \in [Task -> Key \cup {None}]
  /\ settled \subseteq Key /\ mixed \in BOOLEAN

(* What an Ask is answered with rests on the bindings of the asker's own scope,  *)
(* the override of an enclosing Local before the base value, whatever was cached *)
(* by whom before; as long as no two tasks had evaluations open together, which  *)
(* confuses the one eval_stack they record what they read in.                    *)
AskSound ==
  /\ TypeOK
  /\ ~mixed => \A t \in Task : answer[t] # None =>
       LET env == scopes[answer[t].scope].env IN
       /\ <<answer[t].key, env[answer[t].key]>> \in answer[t].val
       /\ \A kb \in answer[t].val : env[kb[1]] = kb[2]

(* A key the base handler has evaluated is not evaluated by it again: those who  *)
(* waited for the permit find the value.                                         *)
OneEvaluation ==
  [][\A t \in Task : \A k \in settled :
       Len(frames'[t]) > Len(frames[t]) => Last(frames'[t]).key # k \/ Last(frames'[t]).scope # 1]_vars

(* Whoever waits for a key gets the permit, however the evaluation before it     *)
(* ended, if no task was cancelled while it evaluated something (by which the     *)
(* permit is lost).                                                              *)
AskersServed ==
  \A t \in Task : state[t] = "waits" ~>
    state[t] # "waits" \/ \E u \in Task : ~Live(u) /\ Evaluating(u) # {}

(* A Local that binds a key to another program invalidates what was cached for   *)
(* the key: inside, Ask is answered by the Local's program, outside by the base  *)
(* one.                                                                          *)
LocalInvalidates ==
  \A t \in Task : answer[t] # None =>
    <<answer[t].key, scopes[answer[t].scope].env[answer[t].key]>> \in answer[t].val
================================================================================
