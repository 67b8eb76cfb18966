----------------------------- MODULE LazyAskProofs -----------------------------
(* Proofs about LazyAsk: what an Ask is answered with, and that the base handler *)
(* evaluates a key once.                                                         *)
EXTENDS LazyAsk, TLAPS

(* A Local binds a key to a program only if the key is bound to that program     *)
(* anyway; plain values are free (run LazyAsk_override shows what happens         *)
(* otherwise).                                                                   *)
NoRebinding == \A o \in Overrides : \A k \in DOMAIN o : IsLazy(o[k]) => o[k] = BaseEnv[k]

Frame == [scope : Nat, key : Key \cup {None}, rest : Seq(Key), got : Value]
ScopeType == [env : [Key -> Binding], over : SUBSET Key, cache : [Key -> CacheEntry \cup {None}]]
Answer == [scope : Nat, key : Key, val : Value]
States == {"unborn", "run", "waits", "granted", "cancelled"}

Types ==
  /\ scopes \in Seq(ScopeType) /\ scopes # <<>>
  /\ shared \in [Key -> CacheEntry \cup {None}]
  /\ evalStack \in Seq(SUBSET Key)
  /\ holder \in [Key -> Task \cup {None}] /\ queue \in [Key -> Seq(Task)]
  /\ frames \in [Task -> Seq(Frame)]
  /\ state \in [Task -> States] /\ want \in [Task -> Key \cup {None}]
  /\ answer \in [Task -> Answer \cup {None}]
  /\ settled \subseteq Key /\ mixed \in BOOLEAN

(* Frames and answers are of handlers there are.                                 *)
Inside(fs, sc) == \A i \in DOMAIN fs : fs[i].scope \in DOMAIN sc
Placed ==
  \A t \in Task : /\ state[t] # "unborn" => frames[t] # <<>>
                  /\ Inside(frames[t], scopes)
                  /\ answer[t] # None => answer[t].scope \in DOMAIN scopes

(* A body of a program has evaluations above it only, all under one handler.     *)
Kinds(fs) ==
  \A i \in DOMAIN fs : fs[i].key # None =>
    /\ i > 1 /\ fs[i-1].scope = fs[i].scope
    /\ \A j \in DOMAIN fs : i <= j => fs[j].key # None

(* Who waits for a key is in its queue once, and it is a program for who waits.  *)
Queued(q, st, wt) ==
  \A k \in Key : \A i \in DOMAIN q[k] :
    /\ st[q[k][i]] \in {"waits", "cancelled"} /\ wt[q[k][i]] = k
    /\ \A j \in DOMAIN q[k] : q[k][i] = q[k][j] => i = j
Waiting ==
  \A t \in Task : state[t] \in {"waits", "granted"} =>
    want[t] \in Key /\ IsLazy(scopes[Scope(t)].env[want[t]])

(* What a handler did not override is bound as for the base handler, and so is   *)
(* what it binds to a program.                                                   *)
Bound(s) ==
  \A q \in Key : (q \notin s.over \/ IsLazy(s.env[q])) => s.env[q] = BaseEnv[q]
Bindings ==
  /\ scopes[1].env = BaseEnv /\ scopes[1].over = {}
  /\ \A i \in DOMAIN scopes : Bound(scopes[i])

(* What the base handler evaluated is in the cache all share.                    *)
Once == \A k \in settled : shared[k] # None

(* A value rests on the bindings env, on that of k among them.                   *)
Rests(val, env, k) == <<k, env[k]>> \in val /\ \A kb \in val : env[kb[1]] = kb[2]
(* It was read at k or at what is noted.                                         *)
Within(val, k, noted) == \A kb \in val : kb[1] = k \/ kb[1] \in noted
Sound(e, env, k) == e # None => Rests(e.val, env, k) /\ Within(e.val, k, e.deps)

CacheSound ==
  /\ \A k \in Key : Sound(shared[k], BaseEnv, k)
  /\ \A i \in DOMAIN scopes : \A k \in Key : Sound(scopes[i].cache[k], scopes[i].env, k)
Answers == \A t \in Task : answer[t] # None =>
             Rests(answer[t].val, scopes[answer[t].scope].env, answer[t].key)
Reads(fs, sc) ==
  \A i \in DOMAIN fs : fs[i].key # None =>
    Rests(fs[i].got, sc[fs[i].scope].env, fs[i].key) /\ IsLazy(sc[fs[i].scope].env[fs[i].key])

(* The evaluations fs is in have the last entries of the stack, in order, and    *)
(* what they read is noted there.                                                *)
Depth(fs, st, i) == Len(st) - (Len(fs) - i)
Recorded(fs, st) ==
  \A i \in DOMAIN fs : fs[i].key # None =>
    /\ Depth(fs, st, i) \in DOMAIN st
    /\ Within(fs[i].got, fs[i].key, st[Depth(fs, st, i)])
    /\ i < Len(fs) => fs[i+1].key \in st[Depth(fs, st, i)]

Alone == \A t, u \in Task : Live(t) /\ Live(u) /\ Evaluating(t) # {} /\ Evaluating(u) # {} => t = u
StackOK(t) ==
  Live(t) =>
    /\ Recorded(frames[t], evalStack)
    /\ state[t] \in {"waits", "granted"} /\ Top(t).key # None => want[t] \in Last(evalStack)

Base == Types /\ Placed /\ (\A t \in Task : Kinds(frames[t])) /\ Queued(queue, state, want) /\ Waiting
BaseScope == scopes[1].over = {}
OnceInv == Base /\ BaseScope /\ Once
Unmixed == CacheSound /\ Answers /\ (\A t \in Task : Reads(frames[t], scopes)) /\ Alone /\ (\A t \in Task : StackOK(t))
SoundInv == Base /\ Bindings /\ (~mixed => Unmixed)

-------------------------------------------------------------------------------
(* Sequences of frames and of notes.                                             *)

(* An answer goes to the innermost body of a task and leaves the others alone.   *)
LEMMA AnsweredFacts ==
  ASSUME NEW fs \in Seq(Frame), fs # <<>>, NEW val \in Value
  PROVE  LET gs == Answered(fs, val) IN
         /\ gs \in Seq(Frame) /\ gs # <<>> /\ Len(gs) = Len(fs) /\ DOMAIN gs = DOMAIN fs
         /\ \A i \in DOMAIN fs : gs[i].scope = fs[i].scope /\ gs[i].key = fs[i].key
         /\ \A i \in DOMAIN fs : gs[i].got = fs[i].got \/ (i = Len(fs) /\ fs[i].key # None /\ gs[i].got = fs[i].got \cup val)
<1> DEFINE n == Len(fs)
           f == fs[n]
           g == [f EXCEPT !.got = IF f.key = None THEN @ ELSE @ \cup val,
                          !.rest = IF @ = <<>> THEN @ ELSE Tail(@)]
           hs == [fs EXCEPT ![n] = g]
<1>1. n \in DOMAIN fs /\ f \in Frame
  OBVIOUS
<1>2. f.rest \in Seq(Key) /\ f.got \in Value
  BY <1>1 DEF Frame
<1>3. g \in Frame /\ g.scope = f.scope /\ g.key = f.key
  <2>1. (IF f.key = None THEN f.got ELSE f.got \cup val) \in Value
    BY <1>2 DEF Value
  <2>2. (IF f.rest = <<>> THEN f.rest ELSE Tail(f.rest)) \in Seq(Key)
    BY <1>2
  <2> QED
    BY <1>1, <2>1, <2>2 DEF Frame
<1>4. g.got = f.got \/ (f.key # None /\ g.got = f.got \cup val)
  BY <1>1 DEF Frame
<1>5. Answered(fs, val) = hs
  BY <1>1 DEF Answered, Last
<1>6. hs \in Seq(Frame) /\ Len(hs) = n /\ DOMAIN hs = DOMAIN fs
  BY <1>1, <1>3
<1> QED
  BY <1>1, <1>3, <1>4, <1>5, <1>6

(* The last of a sequence, what is before it.                                    *)
LEMMA FrontFacts ==
  ASSUME NEW S, NEW s \in Seq(S), s # <<>>
  PROVE  /\ Front(s) \in Seq(S) /\ Len(Front(s)) = Len(s) - 1 /\ DOMAIN Front(s) = 1 .. (Len(s) - 1)
         /\ \A i \in DOMAIN Front(s) : i \in DOMAIN s /\ Front(s)[i] = s[i]
         /\ Len(s) \in DOMAIN s /\ Last(s) = s[Len(s)] /\ Last(s) \in S
         /\ DOMAIN s = 1 .. Len(s) /\ Len(s) \in Nat \ {0}
<1>1. Len(s) \in Nat \ {0} /\ DOMAIN s = 1 .. Len(s)
  OBVIOUS
<1>2. Front(s) \in Seq(S) /\ Len(Front(s)) = Len(s) - 1
  BY <1>1 DEF Front
<1>3. \A i \in 1 .. (Len(s) - 1) : Front(s)[i] = s[i]
  BY <1>1 DEF Front
<1> QED
  BY <1>1, <1>2, <1>3 DEF Last

(* One more at the end of a sequence.                                            *)
LEMMA AppendFacts ==
  ASSUME NEW S, NEW s \in Seq(S), NEW e \in S
  PROVE  /\ Append(s, e) \in Seq(S) /\ Append(s, e) # <<>> /\ Len(Append(s, e)) = Len(s) + 1
         /\ DOMAIN Append(s, e) = 1 .. (Len(s) + 1) /\ DOMAIN s = 1 .. Len(s)
         /\ \A i \in DOMAIN s : Append(s, e)[i] = s[i]
         /\ Append(s, e)[Len(s) + 1] = e /\ Last(Append(s, e)) = e
  BY DEF Last

(* Notes are only added, to the evaluation on top.                               *)
Covers(st2, st1) ==
  /\ Len(st2) = Len(st1) /\ DOMAIN st2 = DOMAIN st1
  /\ \A d \in DOMAIN st1 : st1[d] \subseteq st2[d]
(* Noting keys on the top of the evaluation stack only adds to it.           *)
LEMMA NotedFacts ==
  ASSUME NEW st \in Seq(SUBSET Key), NEW deps \in SUBSET Key
  PROVE  /\ Noted(st, deps) \in Seq(SUBSET Key) /\ Covers(Noted(st, deps), st)
         /\ st # <<>> => deps \subseteq Last(Noted(st, deps)) /\ Last(st) \subseteq Last(Noted(st, deps))
<1>1. CASE st = <<>>
  BY <1>1 DEF Noted, Covers
<1>2. CASE st # <<>>
  <2>1. Len(st) \in DOMAIN st /\ st[Len(st)] \in SUBSET Key
    BY <1>2
  <2>2. Noted(st, deps) = [st EXCEPT ![Len(st)] = @ \cup deps]
    BY <1>2 DEF Noted
  <2> QED
    BY <2>1, <2>2, <1>2 DEF Covers, Last
<1> QED
  BY <1>1, <1>2

(* What was recorded stays so when notes are added.                              *)
LEMMA RecordedCovers ==
  ASSUME NEW fs \in Seq(Frame), NEW st \in Seq(SUBSET Key), NEW st2 \in Seq(SUBSET Key),
         Recorded(fs, st), Covers(st2, st)
  PROVE  Recorded(fs, st2)
<1> SUFFICES ASSUME NEW i \in DOMAIN fs, fs[i].key # None
             PROVE  /\ Depth(fs, st2, i) \in DOMAIN st2
                    /\ Within(fs[i].got, fs[i].key, st2[Depth(fs, st2, i)])
                    /\ i < Len(fs) => fs[i+1].key \in st2[Depth(fs, st2, i)]
  BY DEF Recorded
<1>1. Depth(fs, st2, i) = Depth(fs, st, i)
  BY DEF Depth, Covers
<1>2. /\ Depth(fs, st, i) \in DOMAIN st
      /\ Within(fs[i].got, fs[i].key, st[Depth(fs, st, i)])
      /\ i < Len(fs) => fs[i+1].key \in st[Depth(fs, st, i)]
  BY DEF Recorded
<1>3. st[Depth(fs, st, i)] \subseteq st2[Depth(fs, st, i)] /\ DOMAIN st2 = DOMAIN st
  BY <1>2 DEF Covers
<1> QED
  BY <1>1, <1>2, <1>3 DEF Within

(* An evaluation is begun for a key the one below has noted.                     *)
LEMMA RecordedPush ==
  ASSUME NEW fs \in Seq(Frame), NEW st \in Seq(SUBSET Key), NEW f \in Frame,
         Recorded(fs, st), Within(f.got, f.key, {}),
         fs # <<>> /\ Last(fs).key # None => f.key \in Last(st)
  PROVE  Recorded(Append(fs, f), Append(st, {}))
<1> DEFINE gs == Append(fs, f)
           tt == Append(st, {})
<1>1. /\ DOMAIN gs = 1 .. (Len(fs) + 1) /\ DOMAIN fs = 1 .. Len(fs) /\ Len(gs) = Len(fs) + 1
      /\ \A i \in DOMAIN fs : gs[i] = fs[i]
      /\ gs[Len(fs) + 1] = f /\ Len(fs) \in Nat
  BY AppendFacts
<1>2. /\ DOMAIN tt = 1 .. (Len(st) + 1) /\ DOMAIN st = 1 .. Len(st) /\ Len(tt) = Len(st) + 1
      /\ \A i \in DOMAIN st : tt[i] = st[i]
      /\ tt[Len(st) + 1] = {} /\ Len(st) \in Nat
  <2>1. {} \in SUBSET Key
    OBVIOUS
  <2> QED
    BY <2>1, AppendFacts
<1> HIDE DEF gs, tt
<1> SUFFICES ASSUME NEW i \in DOMAIN gs, gs[i].key # None
             PROVE  /\ Depth(gs, tt, i) \in DOMAIN tt
                    /\ Within(gs[i].got, gs[i].key, tt[Depth(gs, tt, i)])
                    /\ i < Len(gs) => gs[i+1].key \in tt[Depth(gs, tt, i)]
  BY DEF Recorded, gs, tt
<1>3. CASE i = Len(fs) + 1
  <2>1. Depth(gs, tt, i) = Len(st) + 1
    BY <1>1, <1>2, <1>3 DEF Depth
  <2> QED
    BY <1>1, <1>2, <1>3, <2>1 DEF Within
<1>4. CASE i # Len(fs) + 1
  <2>1. i \in DOMAIN fs /\ gs[i] = fs[i]
    BY <1>1, <1>4
  <2>2. Depth(gs, tt, i) = Depth(fs, st, i)
    BY <1>1, <1>2, <2>1 DEF Depth
  <2>3. /\ Depth(fs, st, i) \in DOMAIN st
        /\ Within(fs[i].got, fs[i].key, st[Depth(fs, st, i)])
        /\ i < Len(fs) => fs[i+1].key \in st[Depth(fs, st, i)]
    BY <2>1 DEF Recorded
  <2>4. tt[Depth(gs, tt, i)] = st[Depth(fs, st, i)] /\ Depth(gs, tt, i) \in DOMAIN tt
    BY <2>2, <2>3, <1>2
  <2>5. CASE i < Len(fs)
    <3>1. i + 1 \in DOMAIN fs
      BY <1>1, <2>1, <2>5
    <3> QED
      BY <2>1, <2>3, <2>4, <2>5, <3>1, <1>1
  <2>6. CASE i = Len(fs)
    <3>1. Depth(fs, st, i) = Len(st)
      BY <1>1, <1>2, <2>6 DEF Depth
    <3>2. f.key \in st[Len(st)]
      BY <2>1, <2>6, <1>1 DEF Last
    <3> QED
      BY <2>1, <2>3, <2>4, <2>6, <3>1, <3>2, <1>1
  <2> QED
    BY <2>1, <2>5, <2>6, <1>1
<1> QED
  BY <1>3, <1>4

(* An evaluation ends, and its notes go.                                         *)
LEMMA RecordedPop ==
  ASSUME NEW fs \in Seq(Frame), fs # <<>>, NEW st \in Seq(SUBSET Key), st # <<>>,
         Recorded(fs, st)
  PROVE  /\ Recorded(Front(fs), Front(st))
         /\ Front(fs) # <<>> /\ Last(Front(fs)).key # None =>
              Front(st) # <<>> /\ Last(fs).key \in Last(Front(st))
<1> DEFINE gs == Front(fs)
           tt == Front(st)
<1>1. /\ DOMAIN gs = 1 .. (Len(fs) - 1) /\ Len(gs) = Len(fs) - 1 /\ DOMAIN fs = 1 .. Len(fs)
      /\ \A i \in DOMAIN gs : gs[i] = fs[i]
      /\ Len(fs) \in Nat \ {0} /\ gs \in Seq(Frame) /\ Last(fs) = fs[Len(fs)]
  BY FrontFacts
<1>2. /\ DOMAIN tt = 1 .. (Len(st) - 1) /\ Len(tt) = Len(st) - 1 /\ DOMAIN st = 1 .. Len(st)
      /\ \A i \in DOMAIN tt : tt[i] = st[i]
      /\ Len(st) \in Nat \ {0} /\ tt \in Seq(SUBSET Key)
  BY FrontFacts
<1> HIDE DEF gs, tt
<1>3. ASSUME NEW i \in DOMAIN gs, gs[i].key # None
      PROVE  /\ Depth(gs, tt, i) \in DOMAIN tt
             /\ Within(gs[i].got, gs[i].key, tt[Depth(gs, tt, i)])
             /\ i < Len(gs) => gs[i+1].key \in tt[Depth(gs, tt, i)]
             /\ i = Len(gs) => Depth(gs, tt, i) = Len(tt) /\ Last(fs).key \in tt[Depth(gs, tt, i)]
  <2>1. i \in DOMAIN fs /\ gs[i] = fs[i] /\ i + 1 \in DOMAIN fs /\ i < Len(fs)
    BY <1>1, <1>3
  <2>2. Depth(gs, tt, i) = Depth(fs, st, i) /\ Depth(fs, st, i) < Len(st)
        /\ (i = Len(gs) => Depth(gs, tt, i) = Len(tt))
    BY <1>1, <1>2, <2>1 DEF Depth
  <2>3. /\ Depth(fs, st, i) \in DOMAIN st
        /\ Within(fs[i].got, fs[i].key, st[Depth(fs, st, i)])
        /\ fs[i+1].key \in st[Depth(fs, st, i)]
    BY <2>1, <1>3 DEF Recorded
  <2>4. Depth(gs, tt, i) \in DOMAIN tt /\ tt[Depth(gs, tt, i)] = st[Depth(fs, st, i)]
    BY <2>2, <2>3, <1>2
  <2>5. i < Len(gs) => gs[i+1] = fs[i+1]
    BY <1>1, <2>1
  <2>6. i = Len(gs) => fs[i+1] = Last(fs)
    BY <1>1, <2>1
  <2> QED
    BY <2>1, <2>2, <2>3, <2>4, <2>5, <2>6
<1>4. Recorded(gs, tt)
  BY <1>3 DEF Recorded
<1>5. ASSUME gs # <<>>, Last(gs).key # None PROVE tt # <<>> /\ Last(fs).key \in Last(tt)
  <2>1. Len(gs) \in DOMAIN gs /\ Last(gs) = gs[Len(gs)]
    BY <1>1, <1>5, FrontFacts
  <2>2. Depth(gs, tt, Len(gs)) \in DOMAIN tt /\ Depth(gs, tt, Len(gs)) = Len(tt)
        /\ Last(fs).key \in tt[Depth(gs, tt, Len(gs))]
    BY <1>3, <1>5, <2>1
  <2>3. tt # <<>>
    BY <1>2, <2>2
  <2> QED
    BY <2>2, <2>3 DEF Last
<1> QED
  BY <1>4, <1>5 DEF gs, tt

(* An answer rests on what is noted on top.                                      *)
LEMMA RecordedAnswer ==
  ASSUME NEW fs \in Seq(Frame), fs # <<>>, NEW st \in Seq(SUBSET Key), NEW val \in Value,
         Recorded(fs, st),
         Last(fs).key # None => \A kb \in val : kb[1] \in Last(st)
  PROVE  Recorded(Answered(fs, val), st)
<1> DEFINE gs == Answered(fs, val)
<1>1. /\ gs \in Seq(Frame) /\ Len(gs) = Len(fs) /\ DOMAIN gs = DOMAIN fs
      /\ \A i \in DOMAIN fs : gs[i].scope = fs[i].scope /\ gs[i].key = fs[i].key
      /\ \A i \in DOMAIN fs : gs[i].got = fs[i].got \/ (i = Len(fs) /\ fs[i].key # None /\ gs[i].got = fs[i].got \cup val)
  BY AnsweredFacts
<1> HIDE DEF gs
<1> SUFFICES ASSUME NEW i \in DOMAIN fs, fs[i].key # None
             PROVE  /\ Depth(gs, st, i) \in DOMAIN st
                    /\ Within(gs[i].got, gs[i].key, st[Depth(gs, st, i)])
                    /\ i < Len(gs) => gs[i+1].key \in st[Depth(gs, st, i)]
  BY <1>1 DEF Recorded, gs
<1>2. /\ Depth(fs, st, i) \in DOMAIN st
      /\ Within(fs[i].got, fs[i].key, st[Depth(fs, st, i)])
      /\ i < Len(fs) => fs[i+1].key \in st[Depth(fs, st, i)]
  BY DEF Recorded
<1>3. Depth(gs, st, i) = Depth(fs, st, i) /\ i \in 1 .. Len(fs)
      /\ (i = Len(fs) => Depth(fs, st, i) = Len(st))
  BY <1>1 DEF Depth
<1>4. i < Len(fs) => gs[i+1].key = fs[i+1].key
  BY <1>1, <1>3
<1>5. Within(gs[i].got, gs[i].key, st[Depth(gs, st, i)])
  <2>1. CASE gs[i].got = fs[i].got
    BY <2>1, <1>1, <1>2, <1>3
  <2>2. CASE i = Len(fs) /\ gs[i].got = fs[i].got \cup val
    BY <2>2, <1>1, <1>2, <1>3 DEF Within, Last
  <2> QED
    BY <1>1, <2>1, <2>2
<1> QED
  BY <1>1, <1>2, <1>3, <1>4, <1>5

(* Bodies and evaluations, as frames are pushed, popped and answered.            *)
LEMMA KindsPush ==
  ASSUME NEW fs \in Seq(Frame), NEW f \in Frame, Kinds(fs),
         f.key # None => fs # <<>> /\ Last(fs).scope = f.scope,
         f.key = None /\ fs # <<>> => Last(fs).key = None
  PROVE  Kinds(Append(fs, f))
<1> DEFINE gs == Append(fs, f)
<1>1. /\ DOMAIN gs = 1 .. (Len(fs) + 1) /\ DOMAIN fs = 1 .. Len(fs)
      /\ \A i \in DOMAIN fs : gs[i] = fs[i]
      /\ gs[Len(fs) + 1] = f /\ Len(fs) \in Nat
  BY AppendFacts
<1>2. fs # <<>> => Last(fs) = fs[Len(fs)] /\ Len(fs) \in DOMAIN fs
  BY FrontFacts
<1> HIDE DEF gs
<1> SUFFICES ASSUME NEW i \in DOMAIN gs, gs[i].key # None
             PROVE  /\ i > 1 /\ gs[i-1].scope = gs[i].scope
                    /\ \A j \in DOMAIN gs : i <= j => gs[j].key # None
  BY DEF Kinds, gs
<1>3. CASE i = Len(fs) + 1
  BY <1>1, <1>2, <1>3
<1>4. CASE i \in DOMAIN fs
  <2>1. i > 1 /\ i - 1 \in DOMAIN fs /\ fs[i-1].scope = fs[i].scope
        /\ \A j \in DOMAIN fs : i <= j => fs[j].key # None
    BY <1>1, <1>4 DEF Kinds
  <2>2. fs # <<>> /\ fs[Len(fs)].key # None
    BY <1>1, <1>2, <1>4, <2>1
  <2> QED
    BY <1>1, <1>2, <1>4, <2>1, <2>2
<1> QED
  BY <1>1, <1>3, <1>4

(* What is left of a task's frames when the last is dropped.                 *)
LEMMA KindsPop ==
  ASSUME NEW fs \in Seq(Frame), fs # <<>>, Kinds(fs)
  PROVE  /\ Kinds(Front(fs))
         /\ Last(fs).key # None => Front(fs) # <<>> /\ Last(Front(fs)).scope = Last(fs).scope
<1> DEFINE gs == Front(fs)
<1>1. /\ DOMAIN gs = 1 .. (Len(fs) - 1) /\ DOMAIN fs = 1 .. Len(fs) /\ gs \in Seq(Frame)
      /\ \A i \in DOMAIN gs : gs[i] = fs[i]
      /\ Last(fs) = fs[Len(fs)] /\ Len(fs) \in Nat \ {0} /\ Len(gs) = Len(fs) - 1
  BY FrontFacts
<1> HIDE DEF gs
<1>2. Kinds(gs)
  <2> SUFFICES ASSUME NEW i \in DOMAIN gs, gs[i].key # None
               PROVE  /\ i > 1 /\ gs[i-1].scope = gs[i].scope
                      /\ \A j \in DOMAIN gs : i <= j => gs[j].key # None
    BY DEF Kinds
  <2>1. i > 1 /\ fs[i-1].scope = fs[i].scope
        /\ \A j \in DOMAIN fs : i <= j => fs[j].key # None
    BY <1>1 DEF Kinds
  <2> QED
    BY <1>1, <2>1
<1>3. ASSUME Last(fs).key # None PROVE gs # <<>> /\ Last(gs).scope = Last(fs).scope
  <2>1. Len(fs) > 1 /\ fs[Len(fs) - 1].scope = fs[Len(fs)].scope
    BY <1>1, <1>3 DEF Kinds
  <2>2. gs # <<>> /\ gs[Len(gs)] = fs[Len(fs) - 1]
    BY <1>1, <2>1
  <2> QED
    BY <1>1, <2>1, <2>2 DEF Last
<1> QED
  BY <1>2, <1>3 DEF gs

(* Answering the last frame changes no frame's scope or key.                 *)
LEMMA KindsAnswer ==
  ASSUME NEW fs \in Seq(Frame), fs # <<>>, NEW val \in Value, Kinds(fs)
  PROVE  Kinds(Answered(fs, val))
<1> DEFINE gs == Answered(fs, val)
<1>1. /\ DOMAIN gs = DOMAIN fs /\ DOMAIN fs = 1 .. Len(fs) /\ Len(fs) \in Nat
      /\ \A i \in DOMAIN fs : gs[i].scope = fs[i].scope /\ gs[i].key = fs[i].key
  BY AnsweredFacts
<1> HIDE DEF gs
<1>2. ASSUME NEW i \in DOMAIN fs, fs[i].key # None
      PROVE  i > 1 /\ i - 1 \in DOMAIN fs
  BY <1>1, <1>2 DEF Kinds
<1> QED
  BY <1>1, <1>2 DEF Kinds, gs

(* A task whose innermost body is no evaluation is in none.                      *)
LEMMA BodiesOnly ==
  ASSUME NEW fs \in Seq(Frame), fs # <<>>, Kinds(fs), Last(fs).key = None, NEW i \in DOMAIN fs
  PROVE  fs[i].key = None
<1>1. Len(fs) \in DOMAIN fs /\ i <= Len(fs)
  OBVIOUS
<1> QED
  BY <1>1 DEF Kinds, Last

(* Frames stay inside the handlers there are.                                    *)
LEMMA InsideFacts ==
  ASSUME NEW fs \in Seq(Frame), NEW sc, Inside(fs, sc)
  PROVE  /\ \A f \in Frame : f.scope \in DOMAIN sc => Inside(Append(fs, f), sc)
         /\ fs # <<>> => Inside(Front(fs), sc) /\ Last(fs).scope \in DOMAIN sc
         /\ \A val \in Value : fs # <<>> => Inside(Answered(fs, val), sc)
<1>1. ASSUME NEW f \in Frame, f.scope \in DOMAIN sc PROVE Inside(Append(fs, f), sc)
  <2>1. /\ DOMAIN Append(fs, f) = 1 .. (Len(fs) + 1) /\ DOMAIN fs = 1 .. Len(fs)
        /\ \A i \in DOMAIN fs : Append(fs, f)[i] = fs[i]
        /\ Append(fs, f)[Len(fs) + 1] = f /\ Len(fs) \in Nat
    BY AppendFacts
  <2> QED
    BY <1>1, <2>1 DEF Inside
<1>2. ASSUME fs # <<>> PROVE Inside(Front(fs), sc) /\ Last(fs).scope \in DOMAIN sc
  <2>1. /\ \A i \in DOMAIN Front(fs) : i \in DOMAIN fs /\ Front(fs)[i] = fs[i]
        /\ Len(fs) \in DOMAIN fs /\ Last(fs) = fs[Len(fs)]
    BY <1>2, FrontFacts
  <2> QED
    BY <2>1 DEF Inside
<1>3. ASSUME NEW val \in Value, fs # <<>> PROVE Inside(Answered(fs, val), sc)
  BY <1>3, AnsweredFacts DEF Inside
<1> QED
  BY <1>1, <1>2, <1>3

(* What is behind the element i of a queue.                                      *)
LEMMA BehindFacts ==
  ASSUME NEW T, NEW s \in Seq(T), NEW i \in DOMAIN s
  PROVE  /\ SubSeq(s, i + 1, Len(s)) \in Seq(T)
         /\ DOMAIN SubSeq(s, i + 1, Len(s)) = 1 .. (Len(s) - i)
         /\ \A m \in DOMAIN SubSeq(s, i + 1, Len(s)) :
              SubSeq(s, i + 1, Len(s))[m] = s[i + m] /\ i + m \in DOMAIN s
<1>1. Len(s) \in Nat /\ DOMAIN s = 1 .. Len(s) /\ i \in 1 .. Len(s)
  OBVIOUS
<1>2. PICK l \in Nat : l = Len(s) - i
  BY <1>1
<1>3. \A m \in 1 .. l : i + m \in DOMAIN s /\ s[i + m] \in T
  BY <1>1, <1>2
<1>4. PICK r : r = SubSeq(s, i + 1, Len(s))
  OBVIOUS
<1>5. Len(r) = l /\ DOMAIN r = 1 .. l /\ \A m \in 1 .. l : r[m] = s[i + m]
  BY <1>1, <1>2, <1>4
<1>6. r \in Seq(T)
  BY <1>3, <1>4, <1>5
<1>. QED
  BY <1>2, <1>3, <1>4, <1>5, <1>6

-------------------------------------------------------------------------------
(* What holds whoever interleaves with whom.                                     *)

(* The permit of k goes to a waiter or to nobody; st is what the tasks do apart  *)
(* from that, wt what they wait for, where those in a queue stay in it.          *)
LEMMA ReleaseFacts ==
  ASSUME Types, Queued(queue, state, want), NEW k \in Key,
         NEW st \in [Task -> States], NEW wt \in [Task -> Key \cup {None}], Release(k, st),
         \A t \in Task : state[t] \in {"waits", "cancelled"} => st[t] = state[t] /\ wt[t] = want[t]
  PROVE  /\ holder' \in [Key -> Task \cup {None}] /\ queue' \in [Key -> Seq(Task)]
         /\ state' \in [Task -> States] /\ Queued(queue', state', wt)
         /\ \A t \in Task : state'[t] = st[t] \/ (state[t] = "waits" /\ state'[t] = "granted")
<1> DEFINE q == queue[k]
<1>0. q \in Seq(Task) /\ DOMAIN q = 1 .. Len(q) /\ Len(q) \in Nat
  BY DEF Types
<1>q. ASSUME NEW j \in Key, NEW i \in DOMAIN queue[j]
      PROVE  /\ queue[j][i] \in Task /\ st[queue[j][i]] \in {"waits", "cancelled"} /\ wt[queue[j][i]] = j
             /\ state[queue[j][i]] \in {"waits", "cancelled"}
             /\ \A m \in DOMAIN queue[j] : queue[j][i] = queue[j][m] => i = m
  <2>1. queue[j] \in Seq(Task)
    BY DEF Types
  <2>2. queue[j][i] \in Task
    BY <2>1
  <2> QED
    BY <2>2 DEF Queued
<1>1. CASE /\ holder' = [holder EXCEPT ![k] = None]
           /\ queue' = [queue EXCEPT ![k] = <<>>] /\ state' = st
  <2>1. queue' \in [Key -> Seq(Task)] /\ holder' \in [Key -> Task \cup {None}]
    BY <1>1 DEF Types
  <2>2. \A j \in Key : queue'[j] = IF j = k THEN <<>> ELSE queue[j]
    BY <1>1 DEF Types
  <2>3. Queued(queue', state', wt)
    BY <1>1, <1>q, <2>2 DEF Queued
  <2> QED
    BY <1>1, <2>1, <2>3
<1>2. CASE \E i \in DOMAIN q :
       /\ Live(q[i]) /\ \A j \in 1 .. (i - 1) : ~Live(q[j])
       /\ holder' = [holder EXCEPT ![k] = q[i]]
       /\ queue' = [queue EXCEPT ![k] = SubSeq(q, i + 1, Len(q))]
       /\ state' = [st EXCEPT ![q[i]] = "granted"]
  <2> PICK i \in DOMAIN q :
       /\ Live(q[i])
       /\ holder' = [holder EXCEPT ![k] = q[i]]
       /\ queue' = [queue EXCEPT ![k] = SubSeq(q, i + 1, Len(q))]
       /\ state' = [st EXCEPT ![q[i]] = "granted"]
    BY <1>2
  <2> DEFINE r == SubSeq(q, i + 1, Len(q))
  <2>1. /\ r \in Seq(Task) /\ DOMAIN r = 1 .. (Len(q) - i)
        /\ \A m \in DOMAIN r : r[m] = q[i + m] /\ i + m \in DOMAIN q
    BY <1>0, BehindFacts
  <2>2. q[i] \in Task /\ state[q[i]] = "waits" /\ wt[q[i]] = k
    BY <1>q DEF Live
  <2>3. \A j \in Key : queue'[j] = IF j = k THEN r ELSE queue[j]
    BY DEF Types
  <2>4. /\ holder' \in [Key -> Task \cup {None}] /\ queue' \in [Key -> Seq(Task)]
        /\ state' \in [Task -> States]
    BY <2>1, <2>2 DEF Types, States
  <2>5. \A t \in Task : state'[t] = IF t = q[i] THEN "granted" ELSE st[t]
    BY <2>2
  <2> HIDE DEF r
  <2>6. ASSUME NEW m \in DOMAIN r
        PROVE  /\ state'[r[m]] \in {"waits", "cancelled"} /\ wt[r[m]] = k
               /\ \A n \in DOMAIN r : r[m] = r[n] => m = n
    <3>1. i + m \in DOMAIN q /\ r[m] = q[i + m] /\ i + m # i
      BY <2>1, <1>0
    <3>2. q[i + m] # q[i]
      BY <3>1, <1>q
    <3>3. \A n \in DOMAIN r : r[m] = r[n] => i + m = i + n
      BY <3>1, <2>1, <1>q
    <3>4. \A n \in DOMAIN r : r[m] = r[n] => m = n
      BY <3>3, <2>1, <1>0
    <3> QED
      BY <3>1, <3>2, <3>4, <2>5, <1>q
  <2>7. ASSUME NEW j \in Key, j # k, NEW m \in DOMAIN queue[j]
        PROVE  /\ state'[queue[j][m]] \in {"waits", "cancelled"} /\ wt[queue[j][m]] = j
               /\ \A n \in DOMAIN queue[j] : queue[j][m] = queue[j][n] => m = n
    <3>1. queue[j][m] # q[i]
      BY <1>q, <2>7, <2>2
    <3> QED
      BY <3>1, <1>q, <2>5
  <2>8. ASSUME NEW j \in Key, NEW m \in DOMAIN queue'[j]
        PROVE  /\ state'[queue'[j][m]] \in {"waits", "cancelled"} /\ wt[queue'[j][m]] = j
               /\ \A n \in DOMAIN queue'[j] : queue'[j][m] = queue'[j][n] => m = n
    <3>1. CASE j = k
      <4>1. queue'[j] = r
        BY <2>3, <3>1
      <4> QED
        BY <2>6, <3>1, <4>1
    <3>2. CASE j # k
      <4>1. queue'[j] = queue[j]
        BY <2>3, <3>2
      <4> QED
        BY <2>7, <3>2, <4>1
    <3> QED
      BY <3>1, <3>2
  <2>9. Queued(queue', state', wt)
    BY <2>8 DEF Queued
  <2> QED
    BY <2>2, <2>4, <2>5, <2>9
<1> QED
  BY <1>1, <1>2 DEF Release

(* Nobody in a queue changes: the queues stay as they are.                       *)
LEMMA QueuedKept ==
  ASSUME Types, Queued(queue, state, want),
         NEW st, NEW wt,
         \A t \in Task : state[t] \in {"waits", "cancelled"} => st[t] \in {"waits", "cancelled"} /\ wt[t] = want[t]
  PROVE  Queued(queue, st, wt)
<1>1. ASSUME NEW k \in Key, NEW i \in DOMAIN queue[k] PROVE queue[k][i] \in Task
  <2>1. queue[k] \in Seq(Task)
    BY DEF Types
  <2> QED
    BY <2>1
<1> QED
  BY <1>1 DEF Queued

(* One more waits for k.                                                         *)
LEMMA QueuedMore ==
  ASSUME Types, Queued(queue, state, want), NEW k \in Key, NEW t \in Task, state[t] = "run"
  PROVE  LET q == [queue EXCEPT ![k] = Append(@, t)] IN
         /\ q \in [Key -> Seq(Task)]
         /\ Queued(q, [state EXCEPT ![t] = "waits"], [want EXCEPT ![t] = k])
<1> DEFINE q == [queue EXCEPT ![k] = Append(@, t)]
           st == [state EXCEPT ![t] = "waits"]
           wt == [want EXCEPT ![t] = k]
<1>0. queue \in [Key -> Seq(Task)] /\ queue[k] \in Seq(Task)
  BY DEF Types
<1>1. /\ Append(queue[k], t) \in Seq(Task)
      /\ DOMAIN Append(queue[k], t) = 1 .. (Len(queue[k]) + 1) /\ DOMAIN queue[k] = 1 .. Len(queue[k])
      /\ \A i \in DOMAIN queue[k] : Append(queue[k], t)[i] = queue[k][i]
      /\ Append(queue[k], t)[Len(queue[k]) + 1] = t /\ Len(queue[k]) \in Nat
  BY <1>0, AppendFacts
<1>2. q \in [Key -> Seq(Task)] /\ \A j \in Key : q[j] = IF j = k THEN Append(queue[k], t) ELSE queue[j]
  BY <1>0, <1>1
<1>3. \A u \in Task : st[u] = (IF u = t THEN "waits" ELSE state[u]) /\ wt[u] = IF u = t THEN k ELSE want[u]
  BY DEF Types
<1>4. ASSUME NEW j \in Key, NEW i \in DOMAIN queue[j]
      PROVE  queue[j][i] \in Task /\ queue[j][i] # t
  <2>1. queue[j] \in Seq(Task)
    BY DEF Types
  <2> QED
    BY <2>1 DEF Queued
<1> HIDE DEF q, st, wt
<1>5. ASSUME NEW j \in Key, NEW i \in DOMAIN q[j]
      PROVE  /\ st[q[j][i]] \in {"waits", "cancelled"} /\ wt[q[j][i]] = j
             /\ \A m \in DOMAIN q[j] : q[j][i] = q[j][m] => i = m
  <2>1. CASE j # k
    BY <2>1, <1>2, <1>3, <1>4 DEF Queued
  <2>2. CASE j = k /\ i = Len(queue[k]) + 1
    <3>1. q[j] = Append(queue[k], t) /\ q[j][i] = t
      BY <2>2, <1>1, <1>2
    <3>2. ASSUME NEW m \in DOMAIN q[j], q[j][m] = t PROVE m = i
      <4>1. m \in DOMAIN queue[k] => q[j][m] = queue[k][m] /\ queue[k][m] # t
        BY <3>1, <1>1, <1>4
      <4> QED
        BY <4>1, <3>1, <3>2, <2>2, <1>1
    <3> QED
      BY <2>2, <3>1, <3>2, <1>3
  <2>3. CASE j = k /\ i \in DOMAIN queue[k]
    <3>1. q[j][i] = queue[k][i] /\ queue[k][i] \in Task /\ queue[k][i] # t
      BY <2>3, <1>1, <1>2, <1>4
    <3>2. /\ state[queue[k][i]] \in {"waits", "cancelled"} /\ want[queue[k][i]] = k
          /\ \A m \in DOMAIN queue[k] : queue[k][i] = queue[k][m] => i = m
      BY <2>3 DEF Queued
    <3>3. st[q[j][i]] \in {"waits", "cancelled"} /\ wt[q[j][i]] = j
      BY <2>3, <3>1, <3>2, <1>3
    <3>4. ASSUME NEW m \in DOMAIN q[j], q[j][i] = q[j][m] PROVE i = m
      <4>1. q[j] = Append(queue[k], t)
        BY <2>3, <1>2
      <4>2. m # Len(queue[k]) + 1
        BY <3>1, <3>4, <4>1, <1>1
      <4>3. m \in DOMAIN queue[k] /\ q[j][m] = queue[k][m]
        BY <4>1, <4>2, <1>1
      <4> QED
        BY <4>3, <3>1, <3>2, <3>4
    <3> QED
      BY <3>3, <3>4
  <2> QED
    BY <2>1, <2>2, <2>3, <1>1, <1>2
<1> QED
  BY <1>2, <1>5 DEF Queued, q, st, wt

(* The frames of all tasks: their types, their kinds and the handlers they name. *)
FramesOK(fr, sc) ==
  /\ fr \in [Task -> Seq(Frame)]
  /\ \A t \in Task : Kinds(fr[t]) /\ Inside(fr[t], sc)

(* What a step does to the handlers: they keep what they bind.                   *)
EnvKept(sc, sc2) ==
  /\ DOMAIN sc \subseteq DOMAIN sc2
  /\ \A i \in DOMAIN sc : sc2[i].env = sc[i].env /\ sc2[i].over = sc[i].over

(* One task's frames may change, and scopes be added, as long as they fit.   *)
LEMMA FramesChange ==
  ASSUME FramesOK(frames, scopes), NEW t \in Task, NEW gs \in Seq(Frame), NEW sc2,
         Kinds(gs), Inside(gs, sc2), DOMAIN scopes \subseteq DOMAIN sc2
  PROVE  FramesOK([frames EXCEPT ![t] = gs], sc2)
  BY DEF FramesOK, Inside

(* Whoever still waits for a key after a step waits for a lazy binding.      *)
LEMMA WaitingKept ==
  ASSUME Types, Placed, Waiting, EnvKept(scopes, scopes'),
         \A u \in Task : state'[u] \in {"waits", "granted"} =>
           state[u] \in {"waits", "granted"} /\ frames'[u] = frames[u] /\ want'[u] = want[u]
  PROVE  Waiting'
<1> SUFFICES ASSUME NEW u \in Task, state'[u] \in {"waits", "granted"}
             PROVE  want'[u] \in Key /\ IsLazy(scopes'[Last(frames'[u]).scope].env[want'[u]])
  BY DEF Waiting, Scope, Top
<1>1. state[u] \in {"waits", "granted"} /\ frames'[u] = frames[u] /\ want'[u] = want[u]
  OBVIOUS
<1>2. want[u] \in Key /\ IsLazy(scopes[Last(frames[u]).scope].env[want[u]])
  BY <1>1 DEF Waiting, Scope, Top
<1>3. Last(frames[u]).scope \in DOMAIN scopes
  <2>1. frames[u] # <<>> /\ Inside(frames[u], scopes) /\ frames[u] \in Seq(Frame)
    BY <1>1 DEF Placed, Types
  <2> QED
    BY <2>1, InsideFacts
<1> QED
  BY <1>1, <1>2, <1>3 DEF EnvKept

(* The frames of a task that has started.                                        *)
LEMMA TopFacts ==
  ASSUME Base, NEW t \in Task, state[t] # "unborn"
  PROVE  /\ frames[t] \in Seq(Frame) /\ frames[t] # <<>> /\ Kinds(frames[t]) /\ Inside(frames[t], scopes)
         /\ Top(t) \in Frame /\ Scope(t) \in DOMAIN scopes /\ Scope(t) = Last(frames[t]).scope
         /\ scopes[Scope(t)] \in ScopeType
<1>1. frames[t] \in Seq(Frame) /\ frames[t] # <<>> /\ Kinds(frames[t]) /\ Inside(frames[t], scopes)
  BY DEF Base, Types, Placed
<1>2. Top(t) \in Frame
  BY <1>1, FrontFacts DEF Top
<1>3. Scope(t) \in DOMAIN scopes
  BY <1>1, InsideFacts DEF Top, Scope
<1>4. scopes[Scope(t)] \in ScopeType
  BY <1>3 DEF Base, Types
<1> QED
  BY <1>1, <1>2, <1>3, <1>4 DEF Top, Scope

(* A cached entry is found in the handler's own cache, or in the shared one.     *)
LEMMA LookupFacts ==
  ASSUME Types, NEW s \in DOMAIN scopes, NEW k \in Key, Lookup(s, k) # None
  PROVE  /\ Lookup(s, k) \in CacheEntry
         /\ Lookup(s, k).val \in Value /\ Lookup(s, k).deps \in SUBSET Key
         /\ \/ Lookup(s, k) = scopes[s].cache[k]
            \/ Lookup(s, k) = shared[k] /\ shared[k].deps \cap scopes[s].over = {}
<1>1. scopes[s].cache[k] \in CacheEntry \cup {None} /\ shared[k] \in CacheEntry \cup {None}
  <2>1. scopes[s] \in ScopeType /\ shared[k] \in CacheEntry \cup {None}
    BY DEF Types
  <2>2. scopes[s].cache \in [Key -> CacheEntry \cup {None}]
    BY <2>1 DEF ScopeType
  <2> QED
    BY <2>1, <2>2
<1>2. \/ Lookup(s, k) = scopes[s].cache[k]
      \/ Lookup(s, k) = shared[k] /\ shared[k].deps \cap scopes[s].over = {}
  BY DEF Lookup, Usable
<1> QED
  BY <1>1, <1>2 DEF CacheEntry

(* What an evaluation leaves, in the handler's cache or in the shared one.       *)
LEMMA StoreFacts ==
  ASSUME Types, NEW s \in DOMAIN scopes, NEW k \in Key, NEW e \in CacheEntry, Store(s, k, e)
  PROVE  /\ scopes' \in Seq(ScopeType) /\ scopes' # <<>> /\ DOMAIN scopes' = DOMAIN scopes
         /\ EnvKept(scopes, scopes')
         /\ shared' \in [Key -> CacheEntry \cup {None}]
         /\ \A i \in DOMAIN scopes : \A j \in Key :
              scopes'[i].cache[j] = scopes[i].cache[j]
              \/ (i = s /\ j = k /\ scopes'[i].cache[j] = e /\ e.deps \cap scopes[s].over # {})
         /\ \A j \in Key : shared'[j] = shared[j]
              \/ (j = k /\ shared'[j] = e /\ e.deps \cap scopes[s].over = {})
         /\ scopes[s].over = {} => scopes' = scopes /\ shared'[k] = e
<1>0. scopes[s] \in ScopeType /\ scopes[s].cache \in [Key -> CacheEntry \cup {None}]
  <2>1. scopes[s] \in ScopeType
    BY DEF Types
  <2> QED
    BY <2>1 DEF ScopeType
<1>1. CASE e.deps \cap scopes[s].over # {}
  <2> DEFINE c == [scopes[s].cache EXCEPT ![k] = e]
             r == [scopes[s] EXCEPT !.cache = c]
  <2>1. scopes' = [scopes EXCEPT ![s] = r] /\ shared' = shared
    BY <1>0, <1>1 DEF Store
  <2>2. c \in [Key -> CacheEntry \cup {None}] /\ \A j \in Key : c[j] = IF j = k THEN e ELSE scopes[s].cache[j]
    BY <1>0
  <2> HIDE DEF c
  <2>3. r \in ScopeType /\ r.env = scopes[s].env /\ r.over = scopes[s].over /\ r.cache = c
    BY <1>0, <2>2 DEF ScopeType
  <2> HIDE DEF r
  <2>4. /\ scopes' \in Seq(ScopeType) /\ DOMAIN scopes' = DOMAIN scopes /\ scopes' # <<>>
        /\ \A i \in DOMAIN scopes : scopes'[i] = IF i = s THEN r ELSE scopes[i]
    BY <2>1, <2>3 DEF Types
  <2>5. scopes[s].over # {}
    BY <1>1
  <2> QED
    BY <1>1, <2>1, <2>2, <2>3, <2>4, <2>5 DEF EnvKept, Types
<1>2. CASE ~(e.deps \cap scopes[s].over # {})
  BY <1>2 DEF Store, EnvKept, Types
<1> QED
  BY <1>1, <1>2

(* A task is answered.                                                           *)
LEMMA ReplyFacts ==
  ASSUME Base, NEW t \in Task, NEW fs \in Seq(Frame), fs # <<>>, Kinds(fs), Inside(fs, scopes),
         NEW k \in Key, NEW val \in Value, Reply(t, fs, k, val), DOMAIN scopes' = DOMAIN scopes
  PROVE  /\ FramesOK(frames', scopes') /\ frames'[t] = Answered(fs, val) /\ frames'[t] # <<>>
         /\ \A u \in Task : u # t => frames'[u] = frames[u]
         /\ answer' \in [Task -> Answer \cup {None}]
         /\ answer'[t] = [scope |-> Last(fs).scope, key |-> k, val |-> val]
         /\ \A u \in Task : u # t => answer'[u] = answer[u]
         /\ \A u \in Task : answer'[u] # None => answer'[u].scope \in DOMAIN scopes'
<1> DEFINE gs == Answered(fs, val)
           a == [scope |-> Last(fs).scope, key |-> k, val |-> val]
<1>1. frames' = [frames EXCEPT ![t] = gs] /\ answer' = [answer EXCEPT ![t] = a]
  BY DEF Reply
<1>2. gs \in Seq(Frame) /\ gs # <<>>
  BY AnsweredFacts
<1>3. Kinds(gs) /\ Inside(gs, scopes)
  BY KindsAnswer, InsideFacts
<1>4. Last(fs) \in Frame /\ Last(fs).scope \in DOMAIN scopes
  BY FrontFacts, InsideFacts
<1>5. a \in Answer
  BY <1>4 DEF Answer, Frame
<1>6. FramesOK(frames, scopes)
  BY DEF FramesOK, Base, Types, Placed
<1> HIDE DEF gs
<1>7. FramesOK([frames EXCEPT ![t] = gs], scopes)
  BY <1>2, <1>3, <1>6, FramesChange
<1>8. FramesOK(frames', scopes')
  BY <1>1, <1>7 DEF FramesOK, Inside
<1>9. frames \in [Task -> Seq(Frame)] /\ answer \in [Task -> Answer \cup {None}]
      /\ \A u \in Task : answer[u] # None => answer[u].scope \in DOMAIN scopes
  BY DEF Base, Types, Placed
<1>10. answer' \in [Task -> Answer \cup {None}] /\ \A u \in Task : answer'[u] = IF u = t THEN a ELSE answer[u]
  BY <1>1, <1>5, <1>9
<1> QED
  BY <1>1, <1>2, <1>4, <1>8, <1>9, <1>10 DEF gs

(* An evaluation is begun.                                                       *)
LEMMA EvaluateFacts ==
  ASSUME Base, NEW t \in Task, state[t] # "unborn", NEW k \in Key,
         IsLazy(scopes[Scope(t)].env[k]), NEW stack \in Seq(SUBSET Key), Evaluate(t, k, stack),
         scopes' = scopes
  PROVE  LET f == [scope |-> Scope(t), key |-> k, rest |-> Lazy[scopes[Scope(t)].env[k]],
                   got |-> {<<k, scopes[Scope(t)].env[k]>>}] IN
         /\ f \in Frame /\ frames'[t] = Append(frames[t], f) /\ frames'[t] # <<>>
         /\ \A u \in Task : u # t => frames'[u] = frames[u]
         /\ FramesOK(frames', scopes')
         /\ holder' \in [Key -> Task \cup {None}]
         /\ evalStack' = Append(stack, {}) /\ evalStack' \in Seq(SUBSET Key) /\ mixed' \in BOOLEAN
<1> DEFINE p == scopes[Scope(t)].env[k]
           f == [scope |-> Scope(t), key |-> k, rest |-> Lazy[p], got |-> {<<k, p>>}]
<1>1. /\ frames[t] \in Seq(Frame) /\ frames[t] # <<>> /\ Kinds(frames[t]) /\ Inside(frames[t], scopes)
      /\ Top(t) \in Frame /\ Scope(t) \in DOMAIN scopes /\ Scope(t) = Last(frames[t]).scope
      /\ scopes[Scope(t)] \in ScopeType
  BY TopFacts
<1>2. p \in Binding
  BY <1>1 DEF ScopeType
<1>3. Lazy[p] \in Seq(Key) /\ {<<k, p>>} \in Value /\ Scope(t) \in Nat
  BY <1>1, <1>2, EnvAssumption DEF IsLazy, Value, Frame, Scope, Top
<1>4. f \in Frame /\ f.scope = Scope(t) /\ f.key = k
  BY <1>3 DEF Frame
<1>5. /\ holder' = [holder EXCEPT ![k] = t] /\ frames' = [frames EXCEPT ![t] = Append(frames[t], f)]
      /\ evalStack' = Append(stack, {})
      /\ mixed' = (mixed \/ \E u \in Task \ {t} : Live(u) /\ Evaluating(u) # {})
  BY DEF Evaluate
<1> HIDE DEF f
<1>6. Append(frames[t], f) \in Seq(Frame) /\ Append(frames[t], f) # <<>>
  BY <1>1, <1>4, AppendFacts
<1>7. k # None
  BY NoneIsNothing
<1>8. Kinds(Append(frames[t], f)) /\ Inside(Append(frames[t], f), scopes)
  BY <1>1, <1>4, <1>7, KindsPush, InsideFacts
<1>9. FramesOK(frames, scopes)
  BY DEF FramesOK, Base, Types, Placed
<1>10. FramesOK(frames', scopes')
  BY <1>5, <1>6, <1>8, <1>9, FramesChange
<1>11. Append(stack, {}) \in Seq(SUBSET Key)
  <2>1. {} \in SUBSET Key
    OBVIOUS
  <2> QED
    BY <2>1, AppendFacts
<1>12. frames \in [Task -> Seq(Frame)] /\ holder \in [Key -> Task \cup {None}] /\ mixed \in BOOLEAN
  BY DEF Base, Types
<1>13. mixed' \in BOOLEAN
  BY <1>5, <1>12
<1>14. holder' \in [Key -> Task \cup {None}]
  BY <1>5, <1>12
<1>15. frames'[t] = Append(frames[t], f) /\ \A u \in Task : u # t => frames'[u] = frames[u]
  BY <1>5, <1>12
<1>16. f = [scope |-> Scope(t), key |-> k, rest |-> Lazy[scopes[Scope(t)].env[k]],
            got |-> {<<k, scopes[Scope(t)].env[k]>>}]
  BY DEF f
<1> QED
  BY <1>4, <1>5, <1>6, <1>10, <1>11, <1>13, <1>14, <1>15, <1>16

(* The parts of Base after a step, put together.                                 *)
LEMMA BaseTogether ==
  ASSUME scopes' \in Seq(ScopeType), scopes' # <<>>, shared' \in [Key -> CacheEntry \cup {None}],
         evalStack' \in Seq(SUBSET Key),
         holder' \in [Key -> Task \cup {None}], queue' \in [Key -> Seq(Task)],
         FramesOK(frames', scopes'),
         state' \in [Task -> States], want' \in [Task -> Key \cup {None}],
         answer' \in [Task -> Answer \cup {None}],
         \A u \in Task : answer'[u] # None => answer'[u].scope \in DOMAIN scopes',
         settled' \subseteq Key, mixed' \in BOOLEAN,
         \A u \in Task : state'[u] # "unborn" => frames'[u] # <<>>,
         Queued(queue', state', want'), Waiting'
  PROVE  Base'
  BY DEF Base, Types, Placed, FramesOK

(* What Base says of one variable at a time.                                     *)
LEMMA BaseFacts ==
  ASSUME Base
  PROVE  /\ scopes \in Seq(ScopeType) /\ scopes # <<>> /\ shared \in [Key -> CacheEntry \cup {None}]
         /\ evalStack \in Seq(SUBSET Key)
         /\ holder \in [Key -> Task \cup {None}] /\ queue \in [Key -> Seq(Task)]
         /\ FramesOK(frames, scopes)
         /\ state \in [Task -> States] /\ want \in [Task -> Key \cup {None}]
         /\ answer \in [Task -> Answer \cup {None}]
         /\ \A u \in Task : answer[u] # None => answer[u].scope \in DOMAIN scopes
         /\ settled \subseteq Key /\ mixed \in BOOLEAN
         /\ \A u \in Task : state[u] # "unborn" => frames[u] # <<>>
         /\ Queued(queue, state, want) /\ Waiting /\ Types /\ Placed
  BY DEF Base, Types, Placed, FramesOK

(* An Ask is answered at once: a plain value, or a cached one.                    *)
AskAnswered(t, k) ==
  LET b == scopes[Scope(t)].env[k]
      hit == Lookup(Scope(t), k)
      stack == Noted(evalStack, {k})
  IN
  /\ ~IsLazy(b) \/ hit # None
  /\ Reply(t, frames[t], k, IF IsLazy(b) THEN hit.val ELSE {<<k, b>>})
  /\ evalStack' = IF IsLazy(b) THEN Noted(stack, hit.deps) ELSE stack
  /\ UNCHANGED <<holder, queue, state, want, mixed>>
(* It evaluates the program; it waits for who does.                              *)
AskEvaluates(t, k) ==
  /\ IsLazy(scopes[Scope(t)].env[k]) /\ Lookup(Scope(t), k) = None
  /\ Evaluate(t, k, Noted(evalStack, {k}))
  /\ UNCHANGED <<queue, state, want, answer>>
AskWaits(t, k) ==
  /\ IsLazy(scopes[Scope(t)].env[k])
  /\ queue' = [queue EXCEPT ![k] = Append(@, t)]
  /\ state' = [state EXCEPT ![t] = "waits"] /\ want' = [want EXCEPT ![t] = k]
  /\ evalStack' = Noted(evalStack, {k}) /\ UNCHANGED <<holder, frames, answer, mixed>>
(* An Ask is answered at once, starts an evaluation, or waits for one.       *)
LEMMA AskCases ==
  ASSUME NEW t \in Task, NEW k \in Key, Ask(t, k)
  PROVE  /\ Runs(t) /\ UNCHANGED <<scopes, shared, settled>>
         /\ AskAnswered(t, k) \/ AskEvaluates(t, k) \/ AskWaits(t, k)
  BY DEF Ask, AskAnswered, AskEvaluates, AskWaits

(* The value of an Ask that is answered at once, and the notes it leaves.        *)
LEMMA AskAnsweredFacts ==
  ASSUME Base, NEW t \in Task, NEW k \in Key, Runs(t), AskAnswered(t, k), scopes' = scopes
  PROVE  LET b == scopes[Scope(t)].env[k]
             val == IF IsLazy(b) THEN Lookup(Scope(t), k).val ELSE {<<k, b>>}
         IN /\ val \in Value /\ evalStack' \in Seq(SUBSET Key) /\ Covers(evalStack', evalStack)
            /\ evalStack # <<>> => k \in Last(evalStack')
            /\ evalStack # <<>> /\ IsLazy(b) => Lookup(Scope(t), k).deps \subseteq Last(evalStack')
            /\ evalStack # <<>> => evalStack' # <<>>
            /\ IsLazy(b) => Lookup(Scope(t), k) # None
            /\ frames[t] \in Seq(Frame) /\ frames[t] # <<>> /\ Kinds(frames[t]) /\ Inside(frames[t], scopes)
            /\ Reply(t, frames[t], k, val)
<1> DEFINE s == Scope(t)
           b == scopes[s].env[k]
           hit == Lookup(s, k)
           val == IF IsLazy(b) THEN hit.val ELSE {<<k, b>>}
           st1 == Noted(evalStack, {k})
<1>1. /\ frames[t] \in Seq(Frame) /\ frames[t] # <<>> /\ Kinds(frames[t]) /\ Inside(frames[t], scopes)
      /\ s \in DOMAIN scopes /\ scopes[s] \in ScopeType
  BY TopFacts DEF Runs
<1>2. b \in Binding
  BY <1>1 DEF ScopeType
<1>3. IsLazy(b) => hit # None /\ hit.val \in Value /\ hit.deps \in SUBSET Key
  BY <1>1, LookupFacts DEF AskAnswered, Base
<1>4. val \in Value
  <2>1. {<<k, b>>} \in Value
    BY <1>2 DEF Value
  <2> QED
    BY <1>3, <2>1
<1>5. evalStack \in Seq(SUBSET Key) /\ {k} \in SUBSET Key
  BY DEF Base, Types
<1>6. /\ st1 \in Seq(SUBSET Key) /\ Covers(st1, evalStack)
      /\ evalStack # <<>> => {k} \subseteq Last(st1)
  BY <1>5, NotedFacts
<1>7. evalStack # <<>> => st1 # <<>>
  BY <1>5, <1>6 DEF Covers
<1> HIDE DEF st1
<1>8. CASE ~IsLazy(b)
  <2>1. evalStack' = st1
    BY <1>8 DEF AskAnswered, st1
  <2> QED
    BY <1>1, <1>3, <1>4, <1>6, <1>7, <1>8, <2>1 DEF AskAnswered
<1>9. CASE IsLazy(b)
  <2>1. evalStack' = Noted(st1, hit.deps)
    BY <1>9 DEF AskAnswered, st1
  <2>2. /\ evalStack' \in Seq(SUBSET Key) /\ Covers(evalStack', st1)
        /\ st1 # <<>> => hit.deps \subseteq Last(evalStack') /\ Last(st1) \subseteq Last(evalStack')
    BY <1>3, <1>6, <1>9, <2>1, NotedFacts
  <2>3. Covers(evalStack', evalStack)
    BY <1>6, <2>2 DEF Covers
  <2>4. evalStack # <<>> => evalStack' # <<>>
    BY <1>5, <2>2, <2>3 DEF Covers
  <2>5. Reply(t, frames[t], k, val)
    BY DEF AskAnswered
  <2> QED
    BY <1>1, <1>3, <1>4, <1>6, <1>7, <2>2, <2>3, <2>4, <2>5
<1> QED
  BY <1>8, <1>9

(* An Ask keeps the base invariant.                                          *)
LEMMA AskBase ==
  ASSUME Base, NEW t \in Task, NEW k \in Key, Ask(t, k)
  PROVE  Base'
<1>1. Runs(t) /\ UNCHANGED <<scopes, shared, settled>>
      /\ (AskAnswered(t, k) \/ AskEvaluates(t, k) \/ AskWaits(t, k))
  BY AskCases
<1>2. EnvKept(scopes, scopes') /\ state[t] = "run"
  BY <1>1 DEF EnvKept, Runs
<1>3. CASE AskAnswered(t, k)
  <2> DEFINE b == scopes[Scope(t)].env[k]
             val == IF IsLazy(b) THEN Lookup(Scope(t), k).val ELSE {<<k, b>>}
  <2>1. /\ val \in Value /\ evalStack' \in Seq(SUBSET Key)
        /\ frames[t] \in Seq(Frame) /\ frames[t] # <<>> /\ Kinds(frames[t]) /\ Inside(frames[t], scopes)
        /\ Reply(t, frames[t], k, val)
    BY <1>1, <1>3, AskAnsweredFacts
  <2> HIDE DEF val
  <2>2. /\ FramesOK(frames', scopes') /\ frames'[t] # <<>>
        /\ \A u \in Task : u # t => frames'[u] = frames[u]
        /\ answer' \in [Task -> Answer \cup {None}]
        /\ \A u \in Task : answer'[u] # None => answer'[u].scope \in DOMAIN scopes'
    BY <1>1, <2>1, ReplyFacts
  <2>3. UNCHANGED <<holder, queue, state, want, mixed>>
    BY <1>3 DEF AskAnswered
  <2>4. Waiting'
    BY <1>2, <2>2, <2>3, WaitingKept, BaseFacts
  <2> QED
    BY <1>1, <2>1, <2>2, <2>3, <2>4, BaseFacts, BaseTogether
<1>4. CASE AskEvaluates(t, k)
  <2>1. Noted(evalStack, {k}) \in Seq(SUBSET Key)
    BY BaseFacts, NotedFacts
  <2>2. /\ frames'[t] # <<>> /\ \A u \in Task : u # t => frames'[u] = frames[u]
        /\ FramesOK(frames', scopes')
        /\ holder' \in [Key -> Task \cup {None}]
        /\ evalStack' \in Seq(SUBSET Key) /\ mixed' \in BOOLEAN
    BY <1>1, <1>2, <1>4, <2>1, EvaluateFacts DEF AskEvaluates
  <2>3. UNCHANGED <<queue, state, want, answer>>
    BY <1>4 DEF AskEvaluates
  <2>4. Waiting'
    BY <1>2, <2>2, <2>3, WaitingKept, BaseFacts
  <2> QED
    BY <1>1, <2>2, <2>3, <2>4, BaseFacts, BaseTogether
<1>5. CASE AskWaits(t, k)
  <2>1. Noted(evalStack, {k}) \in Seq(SUBSET Key)
    BY BaseFacts, NotedFacts
  <2>2. queue' \in [Key -> Seq(Task)] /\ Queued(queue', state', want')
    BY <1>2, <1>5, QueuedMore, BaseFacts DEF AskWaits
  <2>3. /\ state' \in [Task -> States] /\ want' \in [Task -> Key \cup {None}]
        /\ \A u \in Task : u # t => state'[u] = state[u] /\ want'[u] = want[u]
        /\ want'[t] = k
    BY <1>5, BaseFacts DEF AskWaits, States
  <2>4. Waiting'
    BY <1>1, <1>5, <2>3, BaseFacts DEF Waiting, Scope, Top, AskWaits
  <2>5. \A u \in Task : state'[u] # "unborn" => frames'[u] # <<>>
    BY <1>2, <1>5, <2>3, BaseFacts DEF AskWaits
  <2> QED
    BY <1>1, <1>5, <2>1, <2>2, <2>3, <2>4, <2>5, BaseFacts, BaseTogether DEF AskWaits
<1> QED
  BY <1>1, <1>3, <1>4, <1>5

(* The waiter that got the permit finds a value, or evaluates.                   *)
GrantedFinds(t) ==
  LET k == want[t]
      hit == Lookup(Scope(t), k)
  IN
  /\ hit # None
  /\ Release(k, [state EXCEPT ![t] = "run"]) /\ Reply(t, frames[t], k, hit.val)
  /\ evalStack' = Noted(evalStack, hit.deps) /\ UNCHANGED mixed
GrantedEvaluates(t) ==
  /\ Lookup(Scope(t), want[t]) = None
  /\ Evaluate(t, want[t], evalStack) /\ state' = [state EXCEPT ![t] = "run"]
  /\ UNCHANGED <<queue, answer>>
(* A woken task runs, and finds the value or evaluates itself.               *)
LEMMA GrantedCases ==
  ASSUME Base, NEW t \in Task, Granted(t)
  PROVE  /\ state[t] = "granted" /\ want' = [want EXCEPT ![t] = None]
         /\ UNCHANGED <<scopes, shared, settled>>
         /\ want[t] \in Key /\ IsLazy(scopes[Scope(t)].env[want[t]])
         /\ GrantedFinds(t) \/ GrantedEvaluates(t)
         /\ [state EXCEPT ![t] = "run"] \in [Task -> States]
         /\ want' \in [Task -> Key \cup {None}]
         /\ \A u \in Task : u # t => [state EXCEPT ![t] = "run"][u] = state[u] /\ want'[u] = want[u]
         /\ [state EXCEPT ![t] = "run"][t] = "run"
<1>1. /\ state[t] = "granted" /\ want' = [want EXCEPT ![t] = None]
      /\ UNCHANGED <<scopes, shared, settled>>
      /\ GrantedFinds(t) \/ GrantedEvaluates(t)
  BY DEF Granted, GrantedFinds, GrantedEvaluates, SecondLook
<1>2. want[t] \in Key /\ IsLazy(scopes[Scope(t)].env[want[t]])
  BY <1>1 DEF Base, Waiting
<1>3. state \in [Task -> States] /\ want \in [Task -> Key \cup {None}]
  BY BaseFacts
<1> QED
  BY <1>1, <1>2, <1>3 DEF States

(* What a woken task that finds the value reads and notes.                   *)
LEMMA GrantedFindsFacts ==
  ASSUME Base, NEW t \in Task, Granted(t), GrantedFinds(t)
  PROVE  LET hit == Lookup(Scope(t), want[t]) IN
         /\ hit \in CacheEntry /\ hit.val \in Value /\ hit.deps \in SUBSET Key
         /\ evalStack' \in Seq(SUBSET Key) /\ Covers(evalStack', evalStack)
         /\ evalStack # <<>> => hit.deps \subseteq Last(evalStack') /\ Last(evalStack) \subseteq Last(evalStack')
         /\ frames[t] \in Seq(Frame) /\ frames[t] # <<>> /\ Kinds(frames[t]) /\ Inside(frames[t], scopes)
<1>1. state[t] = "granted" /\ want[t] \in Key
  BY GrantedCases
<1>2. /\ frames[t] \in Seq(Frame) /\ frames[t] # <<>> /\ Kinds(frames[t]) /\ Inside(frames[t], scopes)
      /\ Scope(t) \in DOMAIN scopes
  BY <1>1, TopFacts
<1>3. LET hit == Lookup(Scope(t), want[t]) IN
      hit \in CacheEntry /\ hit.val \in Value /\ hit.deps \in SUBSET Key
  BY <1>1, <1>2, LookupFacts, BaseFacts DEF GrantedFinds
<1> QED
  BY <1>2, <1>3, NotedFacts, BaseFacts DEF GrantedFinds

(* A woken task keeps the base invariant.                                    *)
LEMMA GrantedBase ==
  ASSUME Base, NEW t \in Task, Granted(t)
  PROVE  Base'
<1> DEFINE k == want[t]
           st == [state EXCEPT ![t] = "run"]
<1>1. /\ state[t] = "granted" /\ UNCHANGED <<scopes, shared, settled>>
      /\ k \in Key /\ IsLazy(scopes[Scope(t)].env[k])
      /\ GrantedFinds(t) \/ GrantedEvaluates(t)
      /\ st \in [Task -> States] /\ want' \in [Task -> Key \cup {None}]
      /\ \A u \in Task : u # t => st[u] = state[u] /\ want'[u] = want[u]
      /\ st[t] = "run"
  BY GrantedCases
<1>2. EnvKept(scopes, scopes')
  BY <1>1 DEF EnvKept
<1>3. CASE GrantedFinds(t)
  <2> DEFINE val == Lookup(Scope(t), k).val
  <2>1. /\ val \in Value /\ evalStack' \in Seq(SUBSET Key)
        /\ frames[t] \in Seq(Frame) /\ frames[t] # <<>> /\ Kinds(frames[t]) /\ Inside(frames[t], scopes)
    BY <1>3, GrantedFindsFacts
  <2>2. Release(k, st) /\ Reply(t, frames[t], k, val) /\ UNCHANGED mixed
    BY <1>3 DEF GrantedFinds
  <2> HIDE DEF val, st
  <2>3. /\ FramesOK(frames', scopes') /\ frames'[t] # <<>>
        /\ \A u \in Task : u # t => frames'[u] = frames[u]
        /\ answer' \in [Task -> Answer \cup {None}]
        /\ \A u \in Task : answer'[u] # None => answer'[u].scope \in DOMAIN scopes'
    BY <1>1, <2>1, <2>2, ReplyFacts
  <2>4. /\ holder' \in [Key -> Task \cup {None}] /\ queue' \in [Key -> Seq(Task)]
        /\ state' \in [Task -> States] /\ Queued(queue', state', want')
        /\ \A u \in Task : state'[u] = st[u] \/ (state[u] = "waits" /\ state'[u] = "granted")
    <3>1. \A u \in Task : state[u] \in {"waits", "cancelled"} => st[u] = state[u] /\ want'[u] = want[u]
      BY <1>1
    <3>2. Types /\ Queued(queue, state, want)
      BY BaseFacts
    <3> QED
      BY <1>1, <2>2, <3>1, <3>2, ReleaseFacts
  <2>5. Waiting'
    <3>1. state'[t] = "run"
      BY <1>1, <2>4
    <3>2. \A u \in Task : state'[u] \in {"waits", "granted"} =>
            state[u] \in {"waits", "granted"} /\ frames'[u] = frames[u] /\ want'[u] = want[u]
      BY <1>1, <2>3, <2>4, <3>1
    <3> QED
      BY <1>2, <3>2, WaitingKept, BaseFacts
  <2>6. \A u \in Task : state'[u] # "unborn" => frames'[u] # <<>>
    BY <1>1, <2>3, <2>4, BaseFacts
  <2> QED
    BY <1>1, <2>1, <2>2, <2>3, <2>4, <2>5, <2>6, BaseFacts, BaseTogether
<1>4. CASE GrantedEvaluates(t)
  <2>1. Evaluate(t, k, evalStack) /\ state' = st /\ UNCHANGED <<queue, answer>>
    BY <1>4 DEF GrantedEvaluates
  <2> HIDE DEF st
  <2>2. /\ frames'[t] # <<>> /\ \A u \in Task : u # t => frames'[u] = frames[u]
        /\ FramesOK(frames', scopes')
        /\ holder' \in [Key -> Task \cup {None}]
        /\ evalStack' \in Seq(SUBSET Key) /\ mixed' \in BOOLEAN
    BY <1>1, <2>1, EvaluateFacts, BaseFacts
  <2>3. Queued(queue', state', want')
    BY <1>1, <2>1, QueuedKept, BaseFacts
  <2>4. Waiting'
    <3>2. \A u \in Task : state'[u] \in {"waits", "granted"} =>
            state[u] \in {"waits", "granted"} /\ frames'[u] = frames[u] /\ want'[u] = want[u]
      BY <1>1, <2>1, <2>2
    <3> QED
      BY <1>2, <3>2, WaitingKept, BaseFacts
  <2>5. \A u \in Task : state'[u] # "unborn" => frames'[u] # <<>>
    BY <1>1, <2>1, <2>2, BaseFacts
  <2> QED
    BY <1>1, <2>1, <2>2, <2>3, <2>4, <2>5, BaseFacts, BaseTogether
<1> QED
  BY <1>1, <1>3, <1>4

(* The stack an evaluation leaves.                                               *)
LEMMA PoppedFacts ==
  ASSUME Base
  PROVE  /\ Deps \in SUBSET Key /\ Popped \in Seq(SUBSET Key)
         /\ evalStack # <<>> => Popped = Front(evalStack) /\ Deps = Last(evalStack)
<1>1. evalStack \in Seq(SUBSET Key)
  BY BaseFacts
<1>2. CASE evalStack = <<>>
  BY <1>1, <1>2 DEF Deps, Popped
<1>3. CASE evalStack # <<>>
  BY <1>1, <1>3, FrontFacts DEF Deps, Popped
<1> QED
  BY <1>2, <1>3

(* A task that ends an evaluation returns to what asked for it.                  *)
LEMMA EndsFacts ==
  ASSUME Base, NEW t \in Task, EndsEvaluation(t)
  PROVE  /\ state[t] = "run" /\ Top(t) \in Frame /\ Top(t).key \in Key /\ Top(t).got \in Value
         /\ Top(t) = Last(frames[t]) /\ Top(t).key # None
         /\ Top(t).scope = Scope(t) /\ Scope(t) \in DOMAIN scopes /\ scopes[Scope(t)] \in ScopeType
         /\ frames[t] \in Seq(Frame) /\ frames[t] # <<>> /\ Kinds(frames[t])
         /\ Front(frames[t]) \in Seq(Frame) /\ Front(frames[t]) # <<>> /\ Kinds(Front(frames[t]))
         /\ Inside(Front(frames[t]), scopes)
         /\ Last(Front(frames[t])).scope = Scope(t)
         /\ [val |-> Top(t).got, deps |-> Deps] \in CacheEntry
<1>1. state[t] = "run" /\ Top(t).key # None
  BY DEF EndsEvaluation, Runs
<1>2. /\ frames[t] \in Seq(Frame) /\ frames[t] # <<>> /\ Kinds(frames[t]) /\ Inside(frames[t], scopes)
      /\ Top(t) \in Frame /\ Scope(t) \in DOMAIN scopes /\ Scope(t) = Last(frames[t]).scope
      /\ scopes[Scope(t)] \in ScopeType
  BY <1>1, TopFacts
<1>3. Top(t).key \in Key /\ Top(t).got \in Value
  BY <1>1, <1>2 DEF Frame
<1>4. [val |-> Top(t).got, deps |-> Deps] \in CacheEntry
  BY <1>3, PoppedFacts DEF CacheEntry
<1>5. /\ Front(frames[t]) \in Seq(Frame) /\ Front(frames[t]) # <<>> /\ Kinds(Front(frames[t]))
      /\ Inside(Front(frames[t]), scopes) /\ Last(Front(frames[t])).scope = Scope(t)
  BY <1>1, <1>2, FrontFacts, KindsPop, InsideFacts DEF Top
<1> QED
  BY <1>1, <1>2, <1>3, <1>4, <1>5 DEF Top, Scope

(* An evaluation that ends keeps the base invariant.                         *)
LEMMA SucceedBase ==
  ASSUME Base, NEW t \in Task, Succeed(t)
  PROVE  Base'
<1> DEFINE f == Top(t)
           e == [val |-> f.got, deps |-> Deps]
           fs == Front(frames[t])
<1>1. /\ EndsEvaluation(t) /\ Release(f.key, state) /\ Store(f.scope, f.key, e)
      /\ evalStack' = Noted(Popped, Deps) /\ Reply(t, fs, f.key, f.got)
      /\ settled' = (IF f.scope = 1 THEN settled \cup {f.key} ELSE settled)
      /\ UNCHANGED <<want, mixed>>
  BY DEF Succeed
<1>2. /\ state[t] = "run" /\ f.key \in Key /\ f.got \in Value /\ f.scope \in DOMAIN scopes
      /\ fs \in Seq(Frame) /\ fs # <<>> /\ Kinds(fs) /\ Inside(fs, scopes) /\ e \in CacheEntry
  BY <1>1, EndsFacts
<1> HIDE DEF f, e, fs
<1>3. /\ scopes' \in Seq(ScopeType) /\ scopes' # <<>> /\ DOMAIN scopes' = DOMAIN scopes
      /\ EnvKept(scopes, scopes') /\ shared' \in [Key -> CacheEntry \cup {None}]
  BY <1>1, <1>2, StoreFacts, BaseFacts
<1>4. /\ FramesOK(frames', scopes') /\ frames'[t] # <<>>
      /\ \A u \in Task : u # t => frames'[u] = frames[u]
      /\ answer' \in [Task -> Answer \cup {None}]
      /\ \A u \in Task : answer'[u] # None => answer'[u].scope \in DOMAIN scopes'
  BY <1>1, <1>2, <1>3, ReplyFacts
<1>5. /\ holder' \in [Key -> Task \cup {None}] /\ queue' \in [Key -> Seq(Task)]
      /\ state' \in [Task -> States] /\ Queued(queue', state', want)
      /\ \A u \in Task : state'[u] = state[u] \/ (state[u] = "waits" /\ state'[u] = "granted")
  BY <1>1, <1>2, ReleaseFacts, BaseFacts
<1>6. evalStack' \in Seq(SUBSET Key)
  BY <1>1, PoppedFacts, NotedFacts
<1>7. settled' \subseteq Key
  BY <1>1, <1>2, BaseFacts
<1>8. Waiting'
  <2>1. \A u \in Task : state'[u] \in {"waits", "granted"} =>
            state[u] \in {"waits", "granted"} /\ frames'[u] = frames[u] /\ want'[u] = want[u]
    BY <1>1, <1>2, <1>4, <1>5
  <2> QED
    BY <1>3, <2>1, WaitingKept, BaseFacts
<1>9. \A u \in Task : state'[u] # "unborn" => frames'[u] # <<>>
  BY <1>2, <1>4, <1>5, BaseFacts
<1> QED
  BY <1>1, <1>3, <1>4, <1>5, <1>6, <1>7, <1>8, <1>9, BaseFacts, BaseTogether

(* So does one that fails.                                                   *)
LEMMA FailBase ==
  ASSUME Base, NEW t \in Task, Fail(t)
  PROVE  Base'
<1> DEFINE f == Top(t)
           fs == Front(frames[t])
           gs == Answered(fs, {})
<1>1. /\ EndsEvaluation(t) /\ Release(f.key, state) /\ evalStack' = Popped
      /\ frames' = [frames EXCEPT ![t] = gs]
      /\ UNCHANGED <<scopes, shared, want, answer, settled, mixed>>
  BY DEF Fail, ReleaseOnError, AfterError
<1>2. /\ state[t] = "run" /\ f.key \in Key
      /\ fs \in Seq(Frame) /\ fs # <<>> /\ Kinds(fs) /\ Inside(fs, scopes)
  BY <1>1, EndsFacts
<1>3. gs \in Seq(Frame) /\ gs # <<>> /\ Kinds(gs) /\ Inside(gs, scopes)
  <2>1. {} \in Value
    BY DEF Value
  <2> QED
    BY <1>2, <2>1, AnsweredFacts, KindsAnswer, InsideFacts
<1> HIDE DEF f, fs, gs
<1>4. FramesOK(frames', scopes') /\ frames'[t] # <<>>
      /\ \A u \in Task : u # t => frames'[u] = frames[u]
  BY <1>1, <1>3, FramesChange, BaseFacts DEF FramesOK
<1>5. /\ holder' \in [Key -> Task \cup {None}] /\ queue' \in [Key -> Seq(Task)]
      /\ state' \in [Task -> States] /\ Queued(queue', state', want)
      /\ \A u \in Task : state'[u] = state[u] \/ (state[u] = "waits" /\ state'[u] = "granted")
  BY <1>1, <1>2, ReleaseFacts, BaseFacts
<1>6. evalStack' \in Seq(SUBSET Key)
  BY <1>1, PoppedFacts
<1>8. Waiting'
  <2>1. \A u \in Task : state'[u] \in {"waits", "granted"} =>
            state[u] \in {"waits", "granted"} /\ frames'[u] = frames[u] /\ want'[u] = want[u]
    BY <1>1, <1>2, <1>4, <1>5
  <2>2. EnvKept(scopes, scopes')
    BY <1>1 DEF EnvKept
  <2> QED
    BY <2>1, <2>2, WaitingKept, BaseFacts
<1>9. \A u \in Task : state'[u] # "unborn" => frames'[u] # <<>>
  BY <1>2, <1>4, <1>5, BaseFacts
<1> QED
  BY <1>1, <1>4, <1>5, <1>6, <1>8, <1>9, BaseFacts, BaseTogether

(* A Local begins: its handler is new, with an empty cache.                      *)
LEMMA EnterLocalFacts ==
  ASSUME Base, NEW t \in Task, NEW o \in Overrides, EnterLocal(t, o)
  PROVE  LET s == scopes[Scope(t)]
             r == [env |-> [k \in Key |-> IF k \in DOMAIN o THEN o[k] ELSE s.env[k]],
                   over |-> s.over \cup DOMAIN o, cache |-> NoCache]
             b == Body(Len(scopes) + 1)
         IN
         /\ state[t] = "run" /\ Last(frames[t]).key = None
         /\ r \in ScopeType /\ scopes' = Append(scopes, r) /\ EnvKept(scopes, scopes')
         /\ DOMAIN scopes' = 1 .. (Len(scopes) + 1) /\ DOMAIN scopes = 1 .. Len(scopes)
         /\ Len(scopes) \in Nat \ {0}
         /\ scopes'[Len(scopes) + 1] = r /\ \A i \in DOMAIN scopes : scopes'[i] = scopes[i]
         /\ b \in Frame /\ b.key = None /\ frames'[t] = Append(frames[t], b)
         /\ \A u \in Task : u # t => frames'[u] = frames[u]
         /\ UNCHANGED <<shared, evalStack, holder, queue, state, want, answer, settled, mixed>>
         /\ Base'
<1> DEFINE s == scopes[Scope(t)]
           env == [k \in Key |-> IF k \in DOMAIN o THEN o[k] ELSE s.env[k]]
           r == [env |-> env, over |-> s.over \cup DOMAIN o, cache |-> NoCache]
           b == Body(Len(scopes) + 1)
<1>1. /\ state[t] = "run" /\ Top(t).key = None
      /\ scopes' = Append(scopes, r) /\ frames' = [frames EXCEPT ![t] = Append(frames[t], b)]
      /\ UNCHANGED <<shared, evalStack, holder, queue, state, want, answer, settled, mixed>>
  BY DEF EnterLocal, Runs
<1>2. /\ frames[t] \in Seq(Frame) /\ frames[t] # <<>> /\ Kinds(frames[t]) /\ Inside(frames[t], scopes)
      /\ s \in ScopeType /\ Top(t) = Last(frames[t])
  BY <1>1, TopFacts DEF Top
<1>3. r \in ScopeType
  <2>1. s.env \in [Key -> Binding] /\ s.over \subseteq Key
    BY <1>2 DEF ScopeType
  <2>2. \A k \in DOMAIN o : o[k] \in Binding
    BY DEF Binding
  <2>3. env \in [Key -> Binding]
    BY <2>1, <2>2
  <2>4. NoCache \in [Key -> CacheEntry \cup {None}]
    BY DEF NoCache
  <2>5. s.over \cup DOMAIN o \in SUBSET Key
    BY <2>1, EnvAssumption
  <2> HIDE DEF env
  <2> QED
    BY <2>3, <2>4, <2>5 DEF ScopeType
<1> HIDE DEF r
<1>4. scopes \in Seq(ScopeType) /\ scopes # <<>>
  BY BaseFacts
<1>5. /\ scopes' \in Seq(ScopeType) /\ scopes' # <<>>
      /\ DOMAIN scopes' = 1 .. (Len(scopes) + 1) /\ DOMAIN scopes = 1 .. Len(scopes)
      /\ scopes'[Len(scopes) + 1] = r /\ \A i \in DOMAIN scopes : scopes'[i] = scopes[i]
  BY <1>1, <1>3, <1>4, AppendFacts
<1>6. Len(scopes) \in Nat \ {0}
  BY <1>4
<1>7. EnvKept(scopes, scopes')
  BY <1>5, <1>6 DEF EnvKept
<1>8. b \in Frame /\ b.key = None /\ b.scope \in DOMAIN scopes'
  <2>1. {} \in Value /\ <<>> \in Seq(Key)
    BY DEF Value
  <2> QED
    BY <2>1, <1>5, <1>6 DEF Body, Frame
<1> HIDE DEF b
<1>9. /\ Append(frames[t], b) \in Seq(Frame) /\ Append(frames[t], b) # <<>> /\ Kinds(Append(frames[t], b))
      /\ Inside(Append(frames[t], b), scopes')
  <2>1. Inside(frames[t], scopes')
    BY <1>2, <1>7 DEF Inside, EnvKept
  <2>2. Inside(Append(frames[t], b), scopes')
    BY <1>2, <1>8, <2>1, InsideFacts
  <2> QED
    BY <1>1, <1>2, <1>8, <2>2, AppendFacts, KindsPush
<1>10. FramesOK(frames', scopes')
  BY <1>1, <1>7, <1>9, FramesChange, BaseFacts DEF EnvKept
<1>11. frames'[t] = Append(frames[t], b) /\ \A u \in Task : u # t => frames'[u] = frames[u]
  BY <1>1, BaseFacts DEF FramesOK
<1>12. Waiting'
  <2>1. \A u \in Task : state'[u] \in {"waits", "granted"} =>
            state[u] \in {"waits", "granted"} /\ frames'[u] = frames[u] /\ want'[u] = want[u]
    BY <1>1, <1>11
  <2> QED
    BY <1>7, <2>1, WaitingKept, BaseFacts
<1>13. \A u \in Task : state'[u] # "unborn" => frames'[u] # <<>>
  BY <1>1, <1>9, <1>11, BaseFacts
<1>14. \A u \in Task : answer'[u] # None => answer'[u].scope \in DOMAIN scopes'
  BY <1>1, <1>7, BaseFacts DEF EnvKept
<1>15. Base'
  BY <1>1, <1>5, <1>10, <1>12, <1>13, <1>14, BaseFacts, BaseTogether
<1> QED
  BY <1>1, <1>2, <1>3, <1>5, <1>6, <1>7, <1>8, <1>11, <1>15 DEF b, r

(* Frames or states change, and no handler, cache or stack.                      *)
LEMMA FramesBase ==
  ASSUME Base, NEW t \in Task, NEW gs \in Seq(Frame), gs # <<>>, Kinds(gs), Inside(gs, scopes),
         frames' = [frames EXCEPT ![t] = gs],
         state[t] \in {"run", "unborn"}, state' \in [Task -> States],
         \A u \in Task : state'[u] = state[u] \/ (u = t /\ state'[u] = "run"),
         UNCHANGED <<scopes, shared, evalStack, holder, queue, want, answer, settled, mixed>>
  PROVE  Base'
<1>1. FramesOK(frames', scopes')
  BY FramesChange, BaseFacts
<1>2. frames'[t] = gs /\ \A u \in Task : u # t => frames'[u] = frames[u]
  BY BaseFacts DEF FramesOK
<1>3. Queued(queue', state', want')
  <2>1. \A u \in Task : state[u] \in {"waits", "cancelled"} =>
          state'[u] \in {"waits", "cancelled"} /\ want'[u] = want[u]
    OBVIOUS
  <2> QED
    BY <2>1, QueuedKept, BaseFacts
<1>4. Waiting'
  <2>1. \A u \in Task : state'[u] \in {"waits", "granted"} =>
            state[u] \in {"waits", "granted"} /\ frames'[u] = frames[u] /\ want'[u] = want[u]
    BY <1>2
  <2>2. EnvKept(scopes, scopes')
    BY DEF EnvKept
  <2> QED
    BY <2>1, <2>2, WaitingKept, BaseFacts
<1>5. \A u \in Task : state'[u] # "unborn" => frames'[u] # <<>>
  BY <1>2, BaseFacts
<1> QED
  BY <1>1, <1>3, <1>4, <1>5, BaseFacts, BaseTogether

(* Leaving a Local drops the task's last frame, and nothing else.            *)
LEMMA LeaveLocalFacts ==
  ASSUME Base, NEW t \in Task, LeaveLocal(t)
  PROVE  /\ state[t] = "run" /\ Last(frames[t]).key = None /\ frames[t] \in Seq(Frame) /\ frames[t] # <<>>
         /\ frames'[t] = Front(frames[t]) /\ \A u \in Task : u # t => frames'[u] = frames[u]
         /\ UNCHANGED <<scopes, shared, evalStack, holder, queue, state, want, answer, settled, mixed>>
         /\ Base'
<1>1. /\ state[t] = "run" /\ Top(t).key = None /\ Len(frames[t]) > 1
      /\ frames' = [frames EXCEPT ![t] = Front(frames[t])]
      /\ UNCHANGED <<scopes, shared, evalStack, holder, queue, state, want, answer, settled, mixed>>
  BY DEF LeaveLocal, Runs
<1>2. /\ frames[t] \in Seq(Frame) /\ frames[t] # <<>> /\ Kinds(frames[t]) /\ Inside(frames[t], scopes)
  BY <1>1, TopFacts
<1>3. /\ Front(frames[t]) \in Seq(Frame) /\ Front(frames[t]) # <<>> /\ Kinds(Front(frames[t]))
      /\ Inside(Front(frames[t]), scopes)
  <2>1. Front(frames[t]) \in Seq(Frame) /\ Len(Front(frames[t])) = Len(frames[t]) - 1
    BY <1>2, FrontFacts
  <2>2. Front(frames[t]) # <<>>
    BY <1>1, <1>2, <2>1
  <2> QED
    BY <1>2, <2>1, <2>2, KindsPop, InsideFacts
<1>4. Base'
  BY <1>1, <1>3, FramesBase, BaseFacts
<1>5. frames'[t] = Front(frames[t]) /\ \A u \in Task : u # t => frames'[u] = frames[u]
  BY <1>1, BaseFacts DEF FramesOK
<1> QED
  BY <1>1, <1>2, <1>4, <1>5 DEF Top

(* A spawned task starts in the scope of its parent.                         *)
LEMMA SpawnFacts ==
  ASSUME Base, NEW t \in Task, NEW u \in Task, Spawn(t, u)
  PROVE  LET b == Body(Scope(t)) IN
         /\ state[u] = "unborn" /\ state' = [state EXCEPT ![u] = "run"]
         /\ b \in Frame /\ b.key = None /\ frames'[u] = <<b>>
         /\ \A v \in Task : v # u => frames'[v] = frames[v] /\ state'[v] = state[v]
         /\ UNCHANGED <<scopes, shared, evalStack, holder, queue, want, answer, settled, mixed>>
         /\ Base'
<1> DEFINE b == Body(Scope(t))
<1>1. /\ state[t] = "run" /\ state[u] = "unborn" /\ state' = [state EXCEPT ![u] = "run"]
      /\ frames' = [frames EXCEPT ![u] = <<b>>]
      /\ UNCHANGED <<scopes, shared, evalStack, holder, queue, want, answer, settled, mixed>>
  BY DEF Spawn, Runs
<1>2. Scope(t) \in DOMAIN scopes /\ scopes \in Seq(ScopeType)
  BY <1>1, TopFacts, BaseFacts
<1>3. b \in Frame /\ b.key = None /\ b.scope \in DOMAIN scopes
  <2>1. {} \in Value /\ <<>> \in Seq(Key)
    BY DEF Value
  <2> QED
    BY <2>1, <1>2 DEF Body, Frame
<1> HIDE DEF b
<1>4. <<b>> \in Seq(Frame) /\ <<b>> # <<>> /\ Kinds(<<b>>) /\ Inside(<<b>>, scopes)
  BY <1>3 DEF Kinds, Inside
<1>5. state' \in [Task -> States] /\ \A v \in Task : state'[v] = IF v = u THEN "run" ELSE state[v]
  BY <1>1, BaseFacts DEF States
<1>6. frames'[u] = <<b>> /\ \A v \in Task : v # u => frames'[v] = frames[v]
  BY <1>1, BaseFacts DEF FramesOK
<1>7. Base'
  BY <1>1, <1>4, <1>5, FramesBase, BaseFacts
<1> QED
  BY <1>1, <1>3, <1>5, <1>6, <1>7 DEF b

(* A cancellation stops its task and may wake another; frames, stack and     *)
(* scopes stay.                                                              *)
LEMMA CancelFacts ==
  ASSUME Base, NEW u \in Task, Cancel(u)
  PROVE  /\ state'[u] = "cancelled"
         /\ \A v \in Task : v # u => state'[v] = state[v] \/ (state[v] = "waits" /\ state'[v] = "granted")
         /\ UNCHANGED <<scopes, shared, evalStack, frames, want, answer, settled, mixed>>
         /\ Base'
<1> DEFINE st == [state EXCEPT ![u] = "cancelled"]
<1>1. /\ state[u] \notin {"unborn", "cancelled"}
      /\ IF state[u] = "granted" THEN Release(want[u], st)
         ELSE state' = st /\ UNCHANGED <<holder, queue>>
      /\ UNCHANGED <<scopes, shared, evalStack, frames, want, answer, settled, mixed>>
  BY DEF Cancel
<1>2. /\ st \in [Task -> States] /\ \A v \in Task : st[v] = IF v = u THEN "cancelled" ELSE state[v]
  BY BaseFacts DEF States
<1> HIDE DEF st
<1>3. /\ holder' \in [Key -> Task \cup {None}] /\ queue' \in [Key -> Seq(Task)]
      /\ state' \in [Task -> States] /\ Queued(queue', state', want)
      /\ state'[u] = "cancelled"
      /\ \A v \in Task : v # u => state'[v] = state[v] \/ (state[v] = "waits" /\ state'[v] = "granted")
  <2>1. CASE state[u] = "granted"
    <3>1. want[u] \in Key
      BY <2>1, BaseFacts DEF Waiting
    <3>2. \A v \in Task : state[v] \in {"waits", "cancelled"} => st[v] = state[v] /\ want[v] = want[v]
      BY <1>2, <2>1
    <3>3. Types /\ Queued(queue, state, want) /\ want \in [Task -> Key \cup {None}]
      BY BaseFacts
    <3>4. /\ holder' \in [Key -> Task \cup {None}] /\ queue' \in [Key -> Seq(Task)]
          /\ state' \in [Task -> States] /\ Queued(queue', state', want)
          /\ \A v \in Task : state'[v] = st[v] \/ (state[v] = "waits" /\ state'[v] = "granted")
      BY <1>1, <1>2, <2>1, <3>1, <3>2, <3>3, ReleaseFacts
    <3> QED
      BY <1>2, <2>1, <3>4
  <2>2. CASE state[u] # "granted"
    <3>1. state' = st /\ UNCHANGED <<holder, queue>>
      BY <1>1, <2>2
    <3>2. \A v \in Task : state[v] \in {"waits", "cancelled"} =>
            st[v] \in {"waits", "cancelled"} /\ want[v] = want[v]
      BY <1>2
    <3>3. Queued(queue, st, want)
      BY <3>2, QueuedKept, BaseFacts
    <3> QED
      BY <1>2, <3>1, <3>3, BaseFacts
  <2> QED
    BY <2>1, <2>2
<1>4. Waiting'
  <2>1. \A v \in Task : state'[v] \in {"waits", "granted"} =>
            state[v] \in {"waits", "granted"} /\ frames'[v] = frames[v] /\ want'[v] = want[v]
    BY <1>1, <1>3
  <2>2. EnvKept(scopes, scopes')
    BY <1>1 DEF EnvKept
  <2> QED
    BY <2>1, <2>2, WaitingKept, BaseFacts
<1>5. \A v \in Task : state'[v] # "unborn" => frames'[v] # <<>>
  BY <1>1, <1>3, BaseFacts
<1>6. FramesOK(frames', scopes')
  BY <1>1, BaseFacts
<1>7. Base'
  BY <1>1, <1>3, <1>4, <1>5, <1>6, BaseFacts, BaseTogether
<1> QED
  BY <1>1, <1>3, <1>7

(* Every step keeps the base invariant.                                      *)
LEMMA BaseStep ==
  ASSUME Base, [Next]_vars
  PROVE  Base'
<1>1. CASE UNCHANGED vars
  BY <1>1 DEF vars, Base, Types, Placed, Queued, Waiting, Scope, Top
<1>2. CASE Next
  <2> PICK t \in Task : \/ Advances(t) \/ LeaveLocal(t) \/ Cancel(t)
                        \/ \E o \in Overrides : EnterLocal(t, o)
                        \/ \E u \in Task : Spawn(t, u)
    BY <1>2 DEF Next
  <2>1. CASE Advances(t)
    BY <2>1, AskBase, GrantedBase, SucceedBase, FailBase DEF Advances
  <2> QED
    BY <2>1, LeaveLocalFacts, CancelFacts, EnterLocalFacts, SpawnFacts
<1> QED
  BY <1>1, <1>2

(* The base invariant holds initially.                                       *)
LEMMA BaseInit == Init => Base
<1> SUFFICES ASSUME Init PROVE Base
  OBVIOUS
<1> DEFINE r == [env |-> BaseEnv, over |-> {}, cache |-> NoCache]
<1>1. r \in ScopeType
  <2>1. NoCache \in [Key -> CacheEntry \cup {None}]
    BY DEF NoCache
  <2>2. BaseEnv \in [Key -> Binding]
    BY EnvAssumption
  <2> QED
    BY <2>1, <2>2 DEF ScopeType
<1> HIDE DEF r
<1>2. scopes = <<r>> /\ scopes \in Seq(ScopeType) /\ scopes # <<>> /\ DOMAIN scopes = {1}
  BY <1>1 DEF Init, r
<1>3. Body(1) \in Frame /\ Body(1).key = None /\ Body(1).scope = 1
  <2>1. {} \in Value /\ <<>> \in Seq(Key)
    BY DEF Value
  <2> QED
    BY <2>1 DEF Body, Frame
<1>4. <<Body(1)>> \in Seq(Frame) /\ Kinds(<<Body(1)>>) /\ Inside(<<Body(1)>>, scopes) /\ <<Body(1)>> # <<>>
  BY <1>2, <1>3 DEF Kinds, Inside
<1>5. <<>> \in Seq(Frame) /\ Kinds(<<>>) /\ Inside(<<>>, scopes)
  BY DEF Kinds, Inside
<1>6. frames \in [Task -> Seq(Frame)] /\ \A t \in Task : Kinds(frames[t]) /\ Inside(frames[t], scopes)
  BY <1>4, <1>5 DEF Init
<1>7. \A t \in Task : state[t] # "unborn" => frames[t] # <<>>
  BY <1>4 DEF Init
<1>8. Types
  <2>1. shared \in [Key -> CacheEntry \cup {None}] /\ settled \subseteq Key /\ mixed \in BOOLEAN
    BY DEF Init, NoCache
  <2>2. holder \in [Key -> Task \cup {None}] /\ queue \in [Key -> Seq(Task)] /\ evalStack \in Seq(SUBSET Key)
    BY DEF Init
  <2>3. state \in [Task -> States] /\ want \in [Task -> Key \cup {None}] /\ answer \in [Task -> Answer \cup {None}]
    BY DEF Init, States
  <2> QED
    BY <1>2, <1>6, <2>1, <2>2, <2>3 DEF Types
<1>9. Queued(queue, state, want) /\ Waiting
  BY DEF Init, Queued, Waiting
<1> QED
  BY <1>6, <1>7, <1>8, <1>9 DEF Base, Placed, Init

-------------------------------------------------------------------------------
(* A key the base handler has evaluated has its value in the shared cache, which *)
(* nothing leaves, and which the base handler, without overrides, may always use.*)

(* The handlers only become more, and keep what they override.                   *)
LEMMA ScopesStep ==
  ASSUME Base, [Next]_vars
  PROVE  EnvKept(scopes, scopes')
<1>1. CASE UNCHANGED scopes
  BY <1>1 DEF EnvKept
<1>2. CASE \E t \in Task : \E o \in Overrides : EnterLocal(t, o)
  BY <1>2, EnterLocalFacts
<1>3. CASE \E t \in Task : Succeed(t)
  <2> PICK t \in Task : Succeed(t)
    BY <1>3
  <2>1. /\ EndsEvaluation(t) /\ Store(Top(t).scope, Top(t).key, [val |-> Top(t).got, deps |-> Deps])
    BY DEF Succeed
  <2> QED
    BY <2>1, EndsFacts, StoreFacts, BaseFacts
<1> QED
  BY <1>1, <1>2, <1>3 DEF Next, vars, Advances, Ask, Granted, Fail, LeaveLocal, Cancel, Spawn

(* Every step keeps what the base scope has settled.                         *)
LEMMA SettledStep ==
  ASSUME OnceInv, [Next]_vars
  PROVE  OnceInv'
<1>0. Base /\ Base' /\ scopes[1].over = {} /\ \A k \in settled : shared[k] # None
  BY BaseStep DEF OnceInv, BaseScope, Once
<1>1. 1 \in DOMAIN scopes
  BY <1>0, BaseFacts
<1>2. BaseScope'
  BY <1>0, <1>1, ScopesStep DEF BaseScope, EnvKept
<1>3. CASE UNCHANGED <<shared, settled>>
  BY <1>0, <1>2, <1>3 DEF OnceInv, Once
<1>4. CASE \E t \in Task : Succeed(t)
  <2> PICK t \in Task : Succeed(t)
    BY <1>4
  <2> DEFINE e == [val |-> Top(t).got, deps |-> Deps]
  <2>1. /\ EndsEvaluation(t) /\ Store(Top(t).scope, Top(t).key, e)
        /\ settled' = IF Top(t).scope = 1 THEN settled \cup {Top(t).key} ELSE settled
    BY DEF Succeed
  <2>2. Top(t).scope \in DOMAIN scopes /\ Top(t).key \in Key /\ e \in CacheEntry
    BY <1>0, <2>1, EndsFacts
  <2> HIDE DEF e
  <2>3. e # None
    BY <2>2, NoneIsNothing
  <2>4. /\ \A j \in Key : shared'[j] = shared[j] \/ (j = Top(t).key /\ shared'[j] = e)
        /\ scopes[Top(t).scope].over = {} => shared'[Top(t).key] = e
    <3>1. Types
      BY <1>0, BaseFacts
    <3>2. \A j \in Key : shared'[j] = shared[j]
              \/ (j = Top(t).key /\ shared'[j] = e /\ e.deps \cap scopes[Top(t).scope].over = {})
      BY <2>1, <2>2, <3>1, StoreFacts
    <3>3. scopes[Top(t).scope].over = {} => shared'[Top(t).key] = e
      BY <2>1, <2>2, <3>1, StoreFacts
    <3> QED
      BY <3>2, <3>3
  <2>5. settled \subseteq Key
    BY <1>0, BaseFacts
  <2>6. \A k \in settled' : shared'[k] # None
    BY <1>0, <2>1, <2>2, <2>3, <2>4, <2>5
  <2> QED
    BY <1>0, <1>2, <2>6 DEF OnceInv, Once
<1> QED
  BY <1>3, <1>4 DEF Next, vars, Advances, Ask, Granted, Fail, LeaveLocal, Cancel, Spawn, EnterLocal

(* No evaluation of k is begun under the base handler when its value is there.   *)
LEMMA NoSecond ==
  ASSUME OnceInv, NEW t \in Task, NEW k \in Key, state[t] # "unborn", Lookup(Scope(t), k) = None
  PROVE  Scope(t) # 1 \/ k \notin settled
<1> SUFFICES ASSUME Scope(t) = 1, k \in settled PROVE FALSE
  OBVIOUS
<1>1. scopes[1].over = {} /\ shared[k] # None
  BY DEF OnceInv, Once, BaseScope
<1> QED
  BY <1>1 DEF Lookup, Usable

(* The frames of a task grow by a body, or by an evaluation of what was not      *)
(* found.                                                                        *)
LEMMA OnceStep ==
  ASSUME OnceInv, [Next]_vars, NEW t \in Task, NEW k \in settled, Len(frames'[t]) > Len(frames[t])
  PROVE  Last(frames'[t]).key # k \/ Last(frames'[t]).scope # 1
<1>0. Base /\ k \in Key /\ k # None /\ frames[t] \in Seq(Frame)
  BY BaseFacts, NoneIsNothing DEF OnceInv, FramesOK
<1>1. frames'[t] # frames[t]
  OBVIOUS
<1>e. ASSUME NEW j \in Key, state[t] # "unborn", IsLazy(scopes[Scope(t)].env[j]), Lookup(Scope(t), j) = None,
             NEW st \in Seq(SUBSET Key), Evaluate(t, j, st), scopes' = scopes
      PROVE  Last(frames'[t]).key # k \/ Last(frames'[t]).scope # 1
  <2> DEFINE f == [scope |-> Scope(t), key |-> j, rest |-> Lazy[scopes[Scope(t)].env[j]],
                   got |-> {<<j, scopes[Scope(t)].env[j]>>}]
  <2>1. f \in Frame /\ frames'[t] = Append(frames[t], f) /\ f.key = j /\ f.scope = Scope(t)
    BY <1>0, <1>e, EvaluateFacts
  <2> HIDE DEF f
  <2>2. Last(frames'[t]) = f
    BY <1>0, <2>1, AppendFacts
  <2> QED
    BY <1>e, <2>1, <2>2, NoSecond
<1>2. ASSUME NEW u \in Task, NEW j \in Key, Ask(u, j)
      PROVE  Last(frames'[t]).key # k \/ Last(frames'[t]).scope # 1
  <2>1. /\ Runs(u) /\ UNCHANGED <<scopes, shared, settled>>
        /\ AskAnswered(u, j) \/ AskEvaluates(u, j) \/ AskWaits(u, j)
    BY <1>2, AskCases
  <2>2. CASE AskAnswered(u, j)
    <3> DEFINE b == scopes[Scope(u)].env[j]
               val == IF IsLazy(b) THEN Lookup(Scope(u), j).val ELSE {<<j, b>>}
    <3>1. /\ val \in Value /\ frames[u] \in Seq(Frame) /\ frames[u] # <<>>
          /\ Reply(u, frames[u], j, val)
      BY <1>0, <2>1, <2>2, AskAnsweredFacts
    <3> HIDE DEF val
    <3>2. Len(Answered(frames[u], val)) = Len(frames[u]) /\ frames' = [frames EXCEPT ![u] = Answered(frames[u], val)]
      BY <3>1, AnsweredFacts DEF Reply
    <3>3. Len(frames'[t]) = Len(frames[t])
      BY <1>0, <3>2, BaseFacts DEF FramesOK
    <3> QED
      BY <1>0, <3>3
  <2>3. CASE AskEvaluates(u, j)
    <3>1. Noted(evalStack, {j}) \in Seq(SUBSET Key)
      BY <1>0, BaseFacts, NotedFacts
    <3>2. u = t
      BY <1>0, <1>1, <2>3, BaseFacts DEF AskEvaluates, Evaluate, FramesOK
    <3> QED
      BY <1>e, <2>1, <2>3, <3>1, <3>2 DEF AskEvaluates, Runs
  <2>4. CASE AskWaits(u, j)
    BY <1>1, <2>4 DEF AskWaits
  <2> QED
    BY <2>1, <2>2, <2>3, <2>4
<1>3. ASSUME NEW u \in Task, Granted(u)
      PROVE  Last(frames'[t]).key # k \/ Last(frames'[t]).scope # 1
  <2>1. /\ state[u] = "granted" /\ UNCHANGED <<scopes, shared, settled>>
        /\ want[u] \in Key /\ IsLazy(scopes[Scope(u)].env[want[u]])
        /\ GrantedFinds(u) \/ GrantedEvaluates(u)
    BY <1>0, <1>3, GrantedCases
  <2>2. CASE GrantedFinds(u)
    <3> DEFINE val == Lookup(Scope(u), want[u]).val
    <3>1. /\ val \in Value /\ frames[u] \in Seq(Frame) /\ frames[u] # <<>>
      BY <1>0, <1>3, <2>2, GrantedFindsFacts
    <3>2. Reply(u, frames[u], want[u], val)
      BY <2>2 DEF GrantedFinds
    <3> HIDE DEF val
    <3>3. Len(Answered(frames[u], val)) = Len(frames[u]) /\ frames' = [frames EXCEPT ![u] = Answered(frames[u], val)]
      BY <3>1, <3>2, AnsweredFacts DEF Reply
    <3>4. Len(frames'[t]) = Len(frames[t])
      BY <1>0, <3>3, BaseFacts DEF FramesOK
    <3> QED
      BY <1>0, <3>4
  <2>3. CASE GrantedEvaluates(u)
    <3>1. evalStack \in Seq(SUBSET Key)
      BY <1>0, BaseFacts
    <3>2. u = t
      BY <1>0, <1>1, <2>3, BaseFacts DEF GrantedEvaluates, Evaluate, FramesOK
    <3> QED
      BY <1>e, <2>1, <2>3, <3>1, <3>2 DEF GrantedEvaluates
  <2> QED
    BY <2>1, <2>2, <2>3
<1>4. ASSUME NEW u \in Task, EndsEvaluation(u), NEW val \in Value,
             frames' = [frames EXCEPT ![u] = Answered(Front(frames[u]), val)]
      PROVE  FALSE
  <2>1. /\ frames[u] \in Seq(Frame) /\ frames[u] # <<>>
        /\ Front(frames[u]) \in Seq(Frame) /\ Front(frames[u]) # <<>>
    BY <1>0, <1>4, EndsFacts
  <2>2. Len(Answered(Front(frames[u]), val)) = Len(frames[u]) - 1 /\ Len(frames[u]) \in Nat
    <3>1. Len(Front(frames[u])) = Len(frames[u]) - 1 /\ Len(frames[u]) \in Nat
      BY <2>1, FrontFacts
    <3>2. Len(Answered(Front(frames[u]), val)) = Len(Front(frames[u]))
      BY <2>1, <1>4, AnsweredFacts
    <3> QED
      BY <3>1, <3>2
  <2>3. frames'[t] = IF t = u THEN Answered(Front(frames[u]), val) ELSE frames[t]
    BY <1>0, <1>4, BaseFacts DEF FramesOK
  <2> QED
    BY <1>0, <2>1, <2>2, <2>3
<1>5. ASSUME NEW u \in Task, Succeed(u) PROVE FALSE
  <2>1. EndsEvaluation(u) /\ frames' = [frames EXCEPT ![u] = Answered(Front(frames[u]), Top(u).got)]
    BY <1>5 DEF Succeed, Reply
  <2>2. Top(u).got \in Value
    BY <1>0, <2>1, EndsFacts
  <2> QED
    BY <1>4, <2>1, <2>2
<1>6. ASSUME NEW u \in Task, Fail(u) PROVE FALSE
  <2>1. EndsEvaluation(u) /\ frames' = [frames EXCEPT ![u] = Answered(Front(frames[u]), {})]
    BY <1>6 DEF Fail, AfterError
  <2>2. {} \in Value
    BY DEF Value
  <2> QED
    BY <1>4, <2>1, <2>2
<1>7. ASSUME NEW u \in Task, NEW o \in Overrides, EnterLocal(u, o)
      PROVE  Last(frames'[t]).key # k \/ Last(frames'[t]).scope # 1
  <2> DEFINE b == Body(Len(scopes) + 1)
  <2>1. /\ b \in Frame /\ b.key = None /\ frames'[u] = Append(frames[u], b)
        /\ \A v \in Task : v # u => frames'[v] = frames[v]
    BY <1>0, <1>7, EnterLocalFacts
  <2> HIDE DEF b
  <2>2. u = t
    BY <1>1, <2>1
  <2>3. frames'[t] = Append(frames[t], b)
    BY <2>1, <2>2
  <2>4. Last(frames'[t]) = b
    BY <1>0, <2>1, <2>3, AppendFacts
  <2> QED
    BY <1>0, <2>1, <2>4
<1>8. ASSUME NEW u \in Task, NEW v \in Task, Spawn(u, v)
      PROVE  Last(frames'[t]).key # k \/ Last(frames'[t]).scope # 1
  <2> DEFINE b == Body(Scope(u))
  <2>1. /\ b.key = None /\ frames'[v] = <<b>>
        /\ \A w \in Task : w # v => frames'[w] = frames[w]
    BY <1>0, <1>8, SpawnFacts
  <2> HIDE DEF b
  <2>2. v = t
    BY <1>1, <2>1
  <2>3. Last(frames'[t]) = b
    BY <2>1, <2>2 DEF Last
  <2> QED
    BY <1>0, <2>1, <2>3
<1>9. ASSUME NEW u \in Task, LeaveLocal(u) PROVE FALSE
  <2>1. /\ frames[u] \in Seq(Frame) /\ frames[u] # <<>> /\ frames'[u] = Front(frames[u])
        /\ \A v \in Task : v # u => frames'[v] = frames[v]
    BY <1>0, <1>9, LeaveLocalFacts
  <2>2. Len(frames'[u]) = Len(frames[u]) - 1 /\ Len(frames[u]) \in Nat
    BY <2>1, FrontFacts
  <2> QED
    BY <1>0, <1>1, <2>1, <2>2
<1>10. ASSUME NEW u \in Task, Cancel(u) PROVE FALSE
  BY <1>1, <1>10 DEF Cancel
<1>11. CASE UNCHANGED vars
  BY <1>1, <1>11 DEF vars
<1> QED
  BY <1>2, <1>3, <1>5, <1>6, <1>7, <1>8, <1>9, <1>10, <1>11 DEF Next, Advances

(* Nothing is settled initially.                                             *)
LEMMA OnceInit == Init => OnceInv
<1> SUFFICES ASSUME Init PROVE OnceInv
  OBVIOUS
<1>1. scopes[1].over = {} /\ settled = {}
  BY DEF Init
<1> QED
  BY <1>1, BaseInit DEF OnceInv, BaseScope, Once

(* A key the base handler has evaluated is never evaluated by it again: whoever  *)
(* waits for the permit finds the value.                                         *)
THEOREM EvaluatedOnce == Spec => OneEvaluation
<1>1. ASSUME OnceInv, [Next]_vars
      PROVE  [\A t \in Task : \A k \in settled :
                Len(frames'[t]) > Len(frames[t]) => Last(frames'[t]).key # k \/ Last(frames'[t]).scope # 1]_vars
  BY <1>1, OnceStep
<1> QED
  BY <1>1, OnceInit, SettledStep, PTL DEF Spec, OneEvaluation

-------------------------------------------------------------------------------
(* What an Ask is answered with.                                                 *)

(* What is found in a cache is right for the handler that finds it.              *)
LEMMA FoundSound ==
  ASSUME Base, Bindings, CacheSound, NEW s \in DOMAIN scopes, NEW k \in Key,
         IsLazy(scopes[s].env[k]), Lookup(s, k) # None
  PROVE  Rests(Lookup(s, k).val, scopes[s].env, k) /\ Within(Lookup(s, k).val, k, Lookup(s, k).deps)
<1> DEFINE hit == Lookup(s, k)
<1>1. /\ hit \in CacheEntry /\ hit.val \in Value /\ hit.deps \in SUBSET Key
      /\ \/ hit = scopes[s].cache[k]
         \/ hit = shared[k] /\ shared[k].deps \cap scopes[s].over = {}
  BY LookupFacts, BaseFacts
<1>2. CASE hit = scopes[s].cache[k]
  BY <1>2 DEF CacheSound, Sound
<1>3. CASE hit = shared[k] /\ shared[k].deps \cap scopes[s].over = {}
  <2>1. Rests(hit.val, BaseEnv, k) /\ Within(hit.val, k, hit.deps)
    BY <1>3 DEF CacheSound, Sound
  <2>2. scopes[s].env[k] = BaseEnv[k] /\ \A q \in hit.deps : scopes[s].env[q] = BaseEnv[q]
    BY <1>1, <1>3 DEF Bindings, Bound
  <2> QED
    BY <2>1, <2>2 DEF Rests, Within
<1> QED
  BY <1>1, <1>2, <1>3

(* Evaluations keep to the bindings of their handler as they are answered.       *)
LEMMA ReadsAnswer ==
  ASSUME NEW fs \in Seq(Frame), fs # <<>>, NEW val \in Value, NEW sc, Reads(fs, sc),
         \A kb \in val : sc[Last(fs).scope].env[kb[1]] = kb[2]
  PROVE  Reads(Answered(fs, val), sc)
<1> DEFINE gs == Answered(fs, val)
<1>1. /\ DOMAIN gs = DOMAIN fs
      /\ \A i \in DOMAIN fs : gs[i].scope = fs[i].scope /\ gs[i].key = fs[i].key
      /\ \A i \in DOMAIN fs : gs[i].got = fs[i].got \/ (i = Len(fs) /\ fs[i].key # None /\ gs[i].got = fs[i].got \cup val)
  BY AnsweredFacts
<1> HIDE DEF gs
<1>2. ASSUME NEW i \in DOMAIN fs, fs[i].key # None
      PROVE  Rests(gs[i].got, sc[gs[i].scope].env, gs[i].key) /\ IsLazy(sc[gs[i].scope].env[gs[i].key])
  <2>1. Rests(fs[i].got, sc[fs[i].scope].env, fs[i].key) /\ IsLazy(sc[fs[i].scope].env[fs[i].key])
    BY <1>2 DEF Reads
  <2>2. CASE gs[i].got = fs[i].got
    BY <1>1, <2>1, <2>2
  <2>3. CASE i = Len(fs) /\ gs[i].got = fs[i].got \cup val
    BY <1>1, <2>1, <2>3 DEF Rests, Last
  <2> QED
    BY <1>1, <2>2, <2>3
<1> QED
  BY <1>1, <1>2 DEF Reads, gs

(* What the frames have read stays readable when one is dropped or added, and*)
(* when scopes are added.                                                    *)
LEMMA ReadsFacts ==
  ASSUME NEW fs \in Seq(Frame), NEW sc, Reads(fs, sc)
  PROVE  /\ fs # <<>> => Reads(Front(fs), sc)
         /\ \A f \in Frame : (f.key # None => Rests(f.got, sc[f.scope].env, f.key)
                                              /\ IsLazy(sc[f.scope].env[f.key]))
                             => Reads(Append(fs, f), sc)
         /\ \A sc2 : EnvKept(sc, sc2) /\ Inside(fs, sc) => Reads(fs, sc2)
<1>1. ASSUME fs # <<>> PROVE Reads(Front(fs), sc)
  <2>1. \A i \in DOMAIN Front(fs) : i \in DOMAIN fs /\ Front(fs)[i] = fs[i]
    BY <1>1, FrontFacts
  <2> QED
    BY <2>1 DEF Reads
<1>2. ASSUME NEW f \in Frame,
             f.key # None => Rests(f.got, sc[f.scope].env, f.key) /\ IsLazy(sc[f.scope].env[f.key])
      PROVE  Reads(Append(fs, f), sc)
  <2>1. /\ DOMAIN Append(fs, f) = 1 .. (Len(fs) + 1) /\ DOMAIN fs = 1 .. Len(fs)
        /\ \A i \in DOMAIN fs : Append(fs, f)[i] = fs[i]
        /\ Append(fs, f)[Len(fs) + 1] = f /\ Len(fs) \in Nat
    BY AppendFacts
  <2>2. \A i \in 1 .. (Len(fs) + 1) : i \in DOMAIN fs \/ i = Len(fs) + 1
    BY <2>1
  <2> QED
    BY <1>2, <2>1, <2>2 DEF Reads
<1>3. ASSUME NEW sc2, EnvKept(sc, sc2), Inside(fs, sc) PROVE Reads(fs, sc2)
  BY <1>3 DEF Reads, EnvKept, Inside
<1> QED
  BY <1>1, <1>2, <1>3

(* A task the step does not concern, as notes are added.                         *)
LEMMA StackKept ==
  ASSUME Base, Base', NEW u \in Task, StackOK(u), frames'[u] = frames[u], want'[u] = want[u],
         \/ state'[u] = state[u] \/ (state[u] = "waits" /\ state'[u] = "granted")
         \/ state'[u] \notin {"waits", "granted"} /\ state[u] # "cancelled",
         Covers(evalStack', evalStack)
  PROVE  StackOK(u)'
<1> SUFFICES ASSUME state'[u] # "cancelled"
             PROVE  /\ Recorded(frames[u], evalStack')
                    /\ state'[u] \in {"waits", "granted"} /\ Last(frames[u]).key # None =>
                         want[u] \in Last(evalStack')
  BY DEF StackOK, Live, Top
<1>1. /\ frames[u] \in Seq(Frame) /\ evalStack \in Seq(SUBSET Key) /\ evalStack' \in Seq(SUBSET Key)
  BY BaseFacts DEF FramesOK, Base, Types
<1>2. Recorded(frames[u], evalStack)
      /\ (state[u] \in {"waits", "granted"} /\ Last(frames[u]).key # None => want[u] \in Last(evalStack))
  BY DEF StackOK, Live, Top
<1>3. Recorded(frames[u], evalStack')
  BY <1>1, <1>2, RecordedCovers
<1>4. ASSUME state'[u] \in {"waits", "granted"}, Last(frames[u]).key # None
      PROVE  want[u] \in Last(evalStack')
  <2>1. state[u] \in {"waits", "granted"} /\ want[u] \in Last(evalStack) /\ frames[u] # <<>>
    BY <1>2, <1>4, BaseFacts
  <2>2. Len(frames[u]) \in DOMAIN frames[u] /\ Last(frames[u]) = frames[u][Len(frames[u])]
    BY <1>1, <2>1, FrontFacts
  <2>3. Depth(frames[u], evalStack, Len(frames[u])) \in DOMAIN evalStack
    BY <1>2, <1>4, <2>2 DEF Recorded
  <2>4. Len(evalStack) \in DOMAIN evalStack
    BY <1>1, <2>2, <2>3 DEF Depth
  <2> QED
    BY <2>1, <2>4 DEF Covers, Last
<1> QED
  BY <1>3, <1>4

(* A task in no evaluation has nothing on the stack.                             *)
LEMMA StackIdle ==
  ASSUME Base', NEW u \in Task, \A i \in DOMAIN frames'[u] : frames'[u][i].key = None
  PROVE  StackOK(u)'
<1>1. Recorded(frames'[u], evalStack')
  BY DEF Recorded
<1>2. ASSUME state'[u] \in {"waits", "granted"} PROVE Last(frames'[u]).key = None
  <2>1. frames'[u] # <<>> /\ frames'[u] \in Seq(Frame)
    BY <1>2 DEF Base, Placed, Types
  <2>2. Len(frames'[u]) \in DOMAIN frames'[u]
    BY <2>1
  <2> QED
    BY <2>2 DEF Last
<1> QED
  BY <1>1, <1>2 DEF StackOK, Top

(* Nobody else begins an evaluation.                                             *)
LEMMA AloneKept ==
  ASSUME Alone, \A u \in Task : state'[u] # "cancelled" => state[u] # "cancelled",
         \A u \in Task : (\A i \in DOMAIN frames[u] : frames[u][i].key = None) =>
                         (\A i \in DOMAIN frames'[u] : frames'[u][i].key = None)
  PROVE  Alone'
<1> SUFFICES ASSUME NEW t \in Task, NEW u \in Task, state'[t] # "cancelled", state'[u] # "cancelled",
                    Evaluating(t)' # {}, Evaluating(u)' # {}
             PROVE  t = u
  BY DEF Alone, Live
<1>1. Evaluating(t) # {} /\ Evaluating(u) # {}
  BY DEF Evaluating
<1> QED
  BY <1>1 DEF Alone, Live

(* While one evaluates, the others who live do not.                              *)
LEMMA OthersIdle ==
  ASSUME Alone, NEW t \in Task, NEW u \in Task, t # u, Live(t), Live(u),
         NEW i \in DOMAIN frames[t], frames[t][i].key # None
  PROVE  \A j \in DOMAIN frames[u] : frames[u][j].key = None
  BY DEF Alone, Evaluating

(* Without rebinding, every step leaves each key one program.                *)
LEMMA BindingsStep ==
  ASSUME NoRebinding, Base, Bindings, [Next]_vars
  PROVE  Bindings'
<1>1. 1 \in DOMAIN scopes /\ EnvKept(scopes, scopes')
  BY BaseFacts, ScopesStep
<1>2. scopes'[1].env = BaseEnv /\ scopes'[1].over = {}
  BY <1>1 DEF Bindings, EnvKept
<1>3. \A i \in DOMAIN scopes : Bound(scopes'[i])
  BY <1>1 DEF Bindings, EnvKept, Bound
<1>4. CASE DOMAIN scopes' = DOMAIN scopes
  BY <1>2, <1>3, <1>4 DEF Bindings
<1>5. CASE \E t \in Task : \E o \in Overrides : EnterLocal(t, o)
  <2> PICK t \in Task, o \in Overrides : EnterLocal(t, o)
    BY <1>5
  <2> DEFINE s == scopes[Scope(t)]
             env == [k \in Key |-> IF k \in DOMAIN o THEN o[k] ELSE s.env[k]]
             r == [env |-> env, over |-> s.over \cup DOMAIN o, cache |-> NoCache]
  <2>1. /\ state[t] = "run"
        /\ DOMAIN scopes' = 1 .. (Len(scopes) + 1) /\ DOMAIN scopes = 1 .. Len(scopes)
        /\ Len(scopes) \in Nat \ {0} /\ scopes'[Len(scopes) + 1] = r
    BY EnterLocalFacts
  <2>2. Bound(s)
    BY <2>1, TopFacts DEF Bindings
  <2>3. ASSUME NEW q \in Key, q \notin r.over \/ IsLazy(r.env[q]) PROVE r.env[q] = BaseEnv[q]
    <3>1. CASE q \in DOMAIN o
      <4>1. r.env[q] = o[q] /\ IsLazy(o[q])
        BY <2>3, <3>1
      <4> QED
        BY <3>1, <4>1 DEF NoRebinding
    <3>2. CASE q \notin DOMAIN o
      <4>1. r.env[q] = s.env[q] /\ (q \notin s.over \/ IsLazy(s.env[q]))
        BY <2>3, <3>2
      <4> QED
        BY <4>1, <2>2 DEF Bound
    <3> QED
      BY <3>1, <3>2
  <2>4. Bound(r)
    BY <2>3 DEF Bound
  <2> HIDE DEF r
  <2>5. \A i \in DOMAIN scopes' : i \in DOMAIN scopes \/ i = Len(scopes) + 1
    BY <2>1
  <2> QED
    BY <1>2, <1>3, <2>1, <2>4, <2>5 DEF Bindings
<1>6. CASE \E t \in Task : Succeed(t)
  <2> PICK t \in Task : Succeed(t)
    BY <1>6
  <2>1. /\ EndsEvaluation(t) /\ Store(Top(t).scope, Top(t).key, [val |-> Top(t).got, deps |-> Deps])
    BY DEF Succeed
  <2>2. DOMAIN scopes' = DOMAIN scopes
    BY <2>1, EndsFacts, StoreFacts, BaseFacts
  <2> QED
    BY <1>4, <2>2
<1> QED
  BY <1>4, <1>5, <1>6 DEF Next, vars, Advances, Ask, Granted, Fail, LeaveLocal, Cancel, Spawn

(* An evaluation on top of a task has the last notes.                            *)
LEMMA StackTop ==
  ASSUME Base, NEW t \in Task, state[t] # "unborn", Live(t), StackOK(t), Last(frames[t]).key # None
  PROVE  /\ evalStack # <<>> /\ Within(Last(frames[t]).got, Last(frames[t]).key, Last(evalStack))
         /\ Len(frames[t]) \in DOMAIN frames[t] /\ frames[t][Len(frames[t])].key # None
<1>1. /\ frames[t] \in Seq(Frame) /\ frames[t] # <<>> /\ evalStack \in Seq(SUBSET Key)
      /\ Recorded(frames[t], evalStack)
  BY TopFacts, BaseFacts DEF StackOK
<1>2. Len(frames[t]) \in DOMAIN frames[t] /\ Last(frames[t]) = frames[t][Len(frames[t])]
  BY <1>1, FrontFacts
<1>3. /\ Depth(frames[t], evalStack, Len(frames[t])) \in DOMAIN evalStack
      /\ Within(Last(frames[t]).got, Last(frames[t]).key, evalStack[Depth(frames[t], evalStack, Len(frames[t]))])
  BY <1>1, <1>2 DEF Recorded
<1>4. Depth(frames[t], evalStack, Len(frames[t])) = Len(evalStack) /\ evalStack # <<>>
  BY <1>1, <1>2, <1>3 DEF Depth
<1> QED
  BY <1>2, <1>3, <1>4 DEF Last

(* A task is answered with what is right for it.                                 *)
LEMMA AnsweredSound ==
  ASSUME Base, NEW t \in Task, NEW fs \in Seq(Frame), fs # <<>>, Kinds(fs), Inside(fs, scopes),
         NEW k \in Key, NEW val \in Value, Reply(t, fs, k, val),
         DOMAIN scopes' = DOMAIN scopes, EnvKept(scopes, scopes'),
         Answers, \A u \in Task : Reads(frames[u], scopes), Reads(fs, scopes),
         Rests(val, scopes[Last(fs).scope].env, k)
  PROVE  Answers' /\ \A u \in Task : Reads(frames'[u], scopes')
<1>1. /\ FramesOK(frames', scopes') /\ frames'[t] = Answered(fs, val)
      /\ \A u \in Task : u # t => frames'[u] = frames[u]
      /\ answer'[t] = [scope |-> Last(fs).scope, key |-> k, val |-> val]
      /\ \A u \in Task : u # t => answer'[u] = answer[u]
  BY ReplyFacts
<1>2. /\ Last(fs).scope \in DOMAIN scopes
      /\ \A u \in Task : answer[u] # None => answer[u].scope \in DOMAIN scopes
  BY InsideFacts, BaseFacts
<1>3. Answers'
  BY <1>1, <1>2 DEF Answers, EnvKept
<1>4. ASSUME NEW u \in Task PROVE Reads(frames'[u], scopes')
  <2>1. frames'[u] \in Seq(Frame) /\ Inside(frames'[u], scopes)
    BY <1>1 DEF FramesOK, Inside
  <2>2. Reads(frames'[u], scopes)
    <3>1. CASE u = t
      BY <1>1, <3>1, ReadsAnswer DEF Rests
    <3>2. CASE u # t
      BY <1>1, <3>2
    <3> QED
      BY <3>1, <3>2
  <2> QED
    BY <2>1, <2>2, ReadsFacts
<1> QED
  BY <1>3, <1>4

(* An Ask answered at once gives a value made of current bindings.           *)
LEMMA AskAnsweredSound ==
  ASSUME Base, Base', Bindings, Unmixed, NEW t \in Task, NEW k \in Key, Runs(t), AskAnswered(t, k),
         UNCHANGED <<scopes, shared>>
  PROVE  Unmixed'
<1> DEFINE b == scopes[Scope(t)].env[k]
           val == IF IsLazy(b) THEN Lookup(Scope(t), k).val ELSE {<<k, b>>}
<1>1. /\ val \in Value /\ evalStack' \in Seq(SUBSET Key) /\ Covers(evalStack', evalStack)
      /\ evalStack # <<>> => k \in Last(evalStack')
      /\ evalStack # <<>> /\ IsLazy(b) => Lookup(Scope(t), k).deps \subseteq Last(evalStack')
      /\ IsLazy(b) => Lookup(Scope(t), k) # None
      /\ frames[t] \in Seq(Frame) /\ frames[t] # <<>> /\ Kinds(frames[t]) /\ Inside(frames[t], scopes)
      /\ Reply(t, frames[t], k, val)
  BY AskAnsweredFacts
<1>2. Scope(t) \in DOMAIN scopes /\ Scope(t) = Last(frames[t]).scope
  BY TopFacts DEF Runs
<1>3. Rests(val, scopes[Scope(t)].env, k)
      /\ (IsLazy(b) => Within(val, k, Lookup(Scope(t), k).deps)) /\ (~IsLazy(b) => Within(val, k, {}))
  <2>1. CASE IsLazy(b)
    BY <1>1, <1>2, <2>1, FoundSound DEF Unmixed
  <2>2. CASE ~IsLazy(b)
    BY <2>2 DEF Rests, Within
  <2> QED
    BY <2>1, <2>2
<1>4. evalStack # <<>> => \A kb \in val : kb[1] \in Last(evalStack')
  BY <1>1, <1>3 DEF Within
<1> HIDE DEF val
<1>5. EnvKept(scopes, scopes') /\ DOMAIN scopes' = DOMAIN scopes
  BY DEF EnvKept
<1>6. Answers' /\ \A u \in Task : Reads(frames'[u], scopes')
  BY <1>1, <1>2, <1>3, <1>5, AnsweredSound DEF Unmixed
<1>7. UNCHANGED <<state, want>> /\ frames'[t] = Answered(frames[t], val)
      /\ \A u \in Task : u # t => frames'[u] = frames[u]
  BY <1>1, <1>5, ReplyFacts DEF AskAnswered
<1>8. Alone'
  <2>1. \A u \in Task : (\A i \in DOMAIN frames[u] : frames[u][i].key = None) =>
                        (\A i \in DOMAIN frames'[u] : frames'[u][i].key = None)
    <3>1. DOMAIN frames'[t] = DOMAIN frames[t] /\ \A i \in DOMAIN frames[t] : frames'[t][i].key = frames[t][i].key
      BY <1>1, <1>7, AnsweredFacts
    <3> QED
      BY <1>7, <3>1
  <2> QED
    BY <1>7, <2>1, AloneKept DEF Unmixed
<1>9. ASSUME NEW u \in Task PROVE StackOK(u)'
  <2>1. CASE u # t
    BY <1>1, <1>7, <2>1, StackKept DEF Unmixed
  <2>2. CASE u = t
    <3>1. state[t] = "run" /\ Live(t) /\ StackOK(t)
      BY DEF Unmixed, Runs, Live
    <3>2. Recorded(frames[t], evalStack) /\ evalStack \in Seq(SUBSET Key)
      BY <3>1, BaseFacts DEF StackOK
    <3>3. Recorded(frames[t], evalStack')
      BY <1>1, <3>2, RecordedCovers
    <3>4. Last(frames[t]).key # None => \A kb \in val : kb[1] \in Last(evalStack')
      BY <1>4, <3>1, StackTop
    <3>5. Recorded(frames'[t], evalStack')
      BY <1>1, <1>7, <3>3, <3>4, RecordedAnswer
    <3> QED
      BY <1>7, <2>2, <3>1, <3>5 DEF StackOK
  <2> QED
    BY <2>1, <2>2
<1>10. CacheSound'
  BY DEF Unmixed, CacheSound
<1> QED
  BY <1>6, <1>8, <1>9, <1>10 DEF Unmixed

(* An evaluation begins while nobody else who lives is in one.                   *)
LEMMA EvaluateSound ==
  ASSUME Base, Base', Unmixed, NEW t \in Task, state[t] \in {"run", "granted"}, NEW k \in Key,
         IsLazy(scopes[Scope(t)].env[k]), NEW stack \in Seq(SUBSET Key), Evaluate(t, k, stack),
         Covers(stack, evalStack),
         Last(frames[t]).key # None => k \in Last(stack),
         ~mixed', UNCHANGED <<scopes, shared, answer>>, state'[t] = "run",
         \A u \in Task : u # t => state'[u] = state[u] /\ want'[u] = want[u]
  PROVE  Unmixed'
<1> DEFINE p == scopes[Scope(t)].env[k]
           f == [scope |-> Scope(t), key |-> k, rest |-> Lazy[p], got |-> {<<k, p>>}]
<1>1. /\ f \in Frame /\ frames'[t] = Append(frames[t], f) /\ frames'[t] # <<>>
      /\ \A u \in Task : u # t => frames'[u] = frames[u]
      /\ evalStack' = Append(stack, {}) /\ evalStack' \in Seq(SUBSET Key)
  BY EvaluateFacts
<1>2. f.key = k /\ f.scope = Scope(t) /\ f.got = {<<k, p>>} /\ k # None
  BY NoneIsNothing
<1> HIDE DEF f
<1>3. /\ frames[t] \in Seq(Frame) /\ frames[t] # <<>> /\ Scope(t) = Last(frames[t]).scope
      /\ evalStack \in Seq(SUBSET Key)
  BY TopFacts, BaseFacts
<1>4. \A u \in Task : u # t /\ Live(u) => \A i \in DOMAIN frames[u] : frames[u][i].key = None
  BY DEF Evaluate, Evaluating
<1>5. CacheSound' /\ Answers'
  BY DEF Unmixed, CacheSound, Answers
<1>6. ASSUME NEW u \in Task PROVE Reads(frames'[u], scopes')
  <2>1. CASE u # t
    BY <1>1, <2>1 DEF Unmixed
  <2>2. CASE u = t
    <3>1. Rests(f.got, scopes[f.scope].env, f.key) /\ IsLazy(scopes[f.scope].env[f.key])
      BY <1>2 DEF Rests
    <3>2. Reads(frames[t], scopes)
      BY DEF Unmixed
    <3> QED
      BY <1>1, <1>3, <2>2, <3>1, <3>2, ReadsFacts
  <2> QED
    BY <2>1, <2>2
<1>7. Alone'
  <2> SUFFICES ASSUME NEW v \in Task, NEW u \in Task, state'[v] # "cancelled", state'[u] # "cancelled",
                      Evaluating(v)' # {}, Evaluating(u)' # {}
               PROVE  v = u
    BY DEF Alone, Live
  <2>1. \A w \in Task : w # t /\ Live(w) => Evaluating(w)' = {}
    BY <1>1, <1>4 DEF Evaluating
  <2>2. \A w \in Task : w # t /\ state'[w] # "cancelled" => Live(w)
    BY DEF Live
  <2> QED
    BY <2>1, <2>2
<1>8. ASSUME NEW u \in Task PROVE StackOK(u)'
  <2>1. CASE u # t /\ Live(u)
    <3>1. \A i \in DOMAIN frames'[u] : frames'[u][i].key = None
      BY <1>1, <1>4, <2>1
    <3> QED
      BY <3>1, StackIdle
  <2>2. CASE u # t /\ ~Live(u)
    BY <2>2 DEF StackOK, Live
  <2>3. CASE u = t
    <3>1. Recorded(frames[t], evalStack)
      BY DEF Unmixed, StackOK, Live
    <3>2. Recorded(frames[t], stack)
      BY <1>3, <3>1, RecordedCovers
    <3>3. Within(f.got, f.key, {})
      BY <1>2 DEF Within
    <3>4. Last(frames[t]).key # None => f.key \in Last(stack)
      BY <1>2
    <3>5. Recorded(frames'[t], evalStack')
      BY <1>1, <1>3, <3>2, <3>3, <3>4, RecordedPush
    <3> QED
      BY <2>3, <3>5 DEF StackOK
  <2> QED
    BY <2>1, <2>2, <2>3
<1> QED
  BY <1>5, <1>6, <1>7, <1>8 DEF Unmixed

(* So does every Ask.                                                        *)
LEMMA AskSoundStep ==
  ASSUME Base, Base', Bindings, Unmixed, ~mixed', NEW t \in Task, NEW k \in Key, Ask(t, k)
  PROVE  Unmixed'
<1>1. /\ Runs(t) /\ UNCHANGED <<scopes, shared, settled>>
      /\ AskAnswered(t, k) \/ AskEvaluates(t, k) \/ AskWaits(t, k)
  BY AskCases
<1> DEFINE stack == Noted(evalStack, {k})
<1>2. /\ stack \in Seq(SUBSET Key) /\ Covers(stack, evalStack)
      /\ evalStack # <<>> => {k} \subseteq Last(stack)
  <2>1. evalStack \in Seq(SUBSET Key) /\ {k} \in SUBSET Key
    BY BaseFacts
  <2> QED
    BY <2>1, NotedFacts
<1>3. Last(frames[t]).key # None => k \in Last(stack)
  BY <1>1, <1>2, StackTop DEF Unmixed, Runs, Live
<1> HIDE DEF stack
<1>4. CASE AskAnswered(t, k)
  BY <1>1, <1>4, AskAnsweredSound
<1>5. CASE AskEvaluates(t, k)
  <2>1. /\ IsLazy(scopes[Scope(t)].env[k]) /\ Evaluate(t, k, stack)
        /\ UNCHANGED <<queue, state, want, answer>>
    BY <1>5 DEF AskEvaluates, stack
  <2> QED
    BY <1>1, <1>2, <1>3, <2>1, EvaluateSound DEF Runs
<1>6. CASE AskWaits(t, k)
  <2>1. /\ state' = [state EXCEPT ![t] = "waits"] /\ want' = [want EXCEPT ![t] = k]
        /\ evalStack' = stack /\ UNCHANGED <<frames, answer>>
    BY <1>6 DEF AskWaits, stack
  <2>2. /\ state'[t] = "waits" /\ want'[t] = k /\ state[t] = "run"
        /\ \A u \in Task : u # t => state'[u] = state[u] /\ want'[u] = want[u]
    BY <1>1, <2>1, BaseFacts DEF Runs
  <2>3. CacheSound' /\ Answers' /\ \A u \in Task : Reads(frames'[u], scopes')
    BY <1>1, <2>1 DEF Unmixed, CacheSound, Answers
  <2>4. Alone'
    BY <2>1, <2>2, AloneKept DEF Unmixed
  <2>5. ASSUME NEW u \in Task PROVE StackOK(u)'
    <3>1. CASE u # t
      BY <1>2, <2>1, <2>2, <3>1, StackKept DEF Unmixed
    <3>2. CASE u = t
      <4>1. Recorded(frames[t], evalStack) /\ frames[t] \in Seq(Frame) /\ evalStack \in Seq(SUBSET Key)
        BY <2>2, BaseFacts DEF Unmixed, StackOK, Live, FramesOK
      <4>2. Recorded(frames[t], stack)
        BY <1>2, <4>1, RecordedCovers
      <4> QED
        BY <1>3, <2>1, <2>2, <3>2, <4>2 DEF StackOK, Top
    <3> QED
      BY <3>1, <3>2
  <2> QED
    BY <2>3, <2>4, <2>5 DEF Unmixed
<1> QED
  BY <1>1, <1>4, <1>5, <1>6

(* A woken task reads or evaluates current bindings.                         *)
LEMMA GrantedSound ==
  ASSUME Base, Base', Bindings, Unmixed, ~mixed', NEW t \in Task, Granted(t)
  PROVE  Unmixed'
<1> DEFINE k == want[t]
           st == [state EXCEPT ![t] = "run"]
<1>1. /\ state[t] = "granted" /\ UNCHANGED <<scopes, shared, settled>>
      /\ k \in Key /\ IsLazy(scopes[Scope(t)].env[k])
      /\ GrantedFinds(t) \/ GrantedEvaluates(t)
      /\ st \in [Task -> States] /\ want' \in [Task -> Key \cup {None}]
      /\ \A u \in Task : u # t => st[u] = state[u] /\ want'[u] = want[u]
      /\ st[t] = "run"
  BY GrantedCases
<1>2. /\ frames[t] \in Seq(Frame) /\ frames[t] # <<>> /\ Kinds(frames[t]) /\ Inside(frames[t], scopes)
      /\ Scope(t) \in DOMAIN scopes /\ Scope(t) = Last(frames[t]).scope
      /\ evalStack \in Seq(SUBSET Key)
  BY <1>1, TopFacts, BaseFacts
<1>3. /\ StackOK(t) /\ Live(t) /\ Recorded(frames[t], evalStack)
      /\ Last(frames[t]).key # None => k \in Last(evalStack)
  BY <1>1 DEF Unmixed, StackOK, Live, Top
<1>4. CASE GrantedFinds(t)
  <2> DEFINE hit == Lookup(Scope(t), k)
             val == hit.val
  <2>1. /\ val \in Value /\ hit.deps \in SUBSET Key
        /\ evalStack' \in Seq(SUBSET Key) /\ Covers(evalStack', evalStack)
        /\ evalStack # <<>> => hit.deps \subseteq Last(evalStack') /\ Last(evalStack) \subseteq Last(evalStack')
    BY <1>4, GrantedFindsFacts
  <2>2. hit # None /\ Release(k, st) /\ Reply(t, frames[t], k, val)
    BY <1>4 DEF GrantedFinds
  <2>3. Rests(val, scopes[Scope(t)].env, k) /\ Within(val, k, hit.deps)
    BY <1>1, <1>2, <2>2, FoundSound DEF Unmixed
  <2> HIDE DEF val, hit, st
  <2>4. EnvKept(scopes, scopes') /\ DOMAIN scopes' = DOMAIN scopes
    BY <1>1 DEF EnvKept
  <2>5. Answers' /\ \A u \in Task : Reads(frames'[u], scopes')
    BY <1>1, <1>2, <2>1, <2>2, <2>3, <2>4, AnsweredSound DEF Unmixed
  <2>6. frames'[t] = Answered(frames[t], val) /\ \A u \in Task : u # t => frames'[u] = frames[u]
    BY <1>1, <1>2, <2>1, <2>2, <2>4, ReplyFacts
  <2>7. \A u \in Task : state'[u] = st[u] \/ (state[u] = "waits" /\ state'[u] = "granted")
    <3>1. \A u \in Task : state[u] \in {"waits", "cancelled"} => st[u] = state[u] /\ want'[u] = want[u]
      BY <1>1
    <3>2. Types /\ Queued(queue, state, want)
      BY BaseFacts
    <3> QED
      BY <1>1, <2>2, <3>1, <3>2, ReleaseFacts
  <2>8. state'[t] = "run" /\ \A u \in Task : u # t =>
          state'[u] = state[u] \/ (state[u] = "waits" /\ state'[u] = "granted")
    BY <1>1, <2>7
  <2>9. Alone'
    <3>1. \A u \in Task : (\A i \in DOMAIN frames[u] : frames[u][i].key = None) =>
                          (\A i \in DOMAIN frames'[u] : frames'[u][i].key = None)
      <4>1. DOMAIN frames'[t] = DOMAIN frames[t] /\ \A i \in DOMAIN frames[t] : frames'[t][i].key = frames[t][i].key
        BY <1>2, <2>1, <2>6, AnsweredFacts
      <4> QED
        BY <2>6, <4>1
    <3>2. \A u \in Task : state'[u] # "cancelled" => state[u] # "cancelled"
      BY <1>1, <2>8
    <3> QED
      BY <3>1, <3>2, AloneKept DEF Unmixed
  <2>10. ASSUME NEW u \in Task PROVE StackOK(u)'
    <3>1. CASE u # t
      BY <1>1, <2>1, <2>6, <2>8, <3>1, StackKept DEF Unmixed
    <3>2. CASE u = t
      <4>1. Recorded(frames[t], evalStack')
        BY <1>2, <1>3, <2>1, RecordedCovers
      <4>2. Last(frames[t]).key # None => \A kb \in val : kb[1] \in Last(evalStack')
        BY <1>1, <1>3, <2>1, <2>3, StackTop DEF Within
      <4>3. Recorded(frames'[t], evalStack')
        BY <1>2, <2>1, <2>6, <4>1, <4>2, RecordedAnswer
      <4> QED
        BY <2>8, <3>2, <4>3 DEF StackOK
    <3> QED
      BY <3>1, <3>2
  <2>11. CacheSound'
    BY <1>1 DEF Unmixed, CacheSound
  <2> QED
    BY <2>5, <2>9, <2>10, <2>11 DEF Unmixed
<1>5. CASE GrantedEvaluates(t)
  <2>1. Evaluate(t, k, evalStack) /\ state' = st /\ UNCHANGED <<queue, answer>>
    BY <1>5 DEF GrantedEvaluates
  <2>2. Covers(evalStack, evalStack)
    BY DEF Covers
  <2>3. state'[t] = "run" /\ \A u \in Task : u # t => state'[u] = state[u] /\ want'[u] = want[u]
    BY <1>1, <2>1
  <2> HIDE DEF st
  <2> QED
    BY <1>1, <1>2, <1>3, <2>1, <2>2, <2>3, EvaluateSound
<1> QED
  BY <1>1, <1>4, <1>5

(* An evaluation that ends is the only one of those who live, and its notes are  *)
(* the last on the stack.                                                        *)
LEMMA EndsAlone ==
  ASSUME Base, Unmixed, NEW t \in Task, EndsEvaluation(t)
  PROVE  /\ evalStack # <<>> /\ Popped = Front(evalStack) /\ Deps = Last(evalStack)
         /\ Recorded(Front(frames[t]), Popped)
         /\ Last(Front(frames[t])).key # None => Popped # <<>> /\ Top(t).key \in Last(Popped)
         /\ Within(Top(t).got, Top(t).key, Deps)
         /\ Rests(Top(t).got, scopes[Scope(t)].env, Top(t).key) /\ IsLazy(scopes[Scope(t)].env[Top(t).key])
         /\ Reads(Front(frames[t]), scopes)
         /\ \A u \in Task : u # t /\ Live(u) => \A i \in DOMAIN frames[u] : frames[u][i].key = None
<1>1. /\ state[t] = "run" /\ Top(t) = Last(frames[t]) /\ Top(t).key # None /\ Top(t).scope = Scope(t)
      /\ frames[t] \in Seq(Frame) /\ frames[t] # <<>> /\ Front(frames[t]) # <<>>
  BY EndsFacts
<1>2. StackOK(t) /\ Live(t) /\ Recorded(frames[t], evalStack) /\ Reads(frames[t], scopes) /\ Alone
  BY <1>1 DEF Unmixed, StackOK, Live
<1>3. /\ evalStack # <<>> /\ Within(Top(t).got, Top(t).key, Last(evalStack))
      /\ Len(frames[t]) \in DOMAIN frames[t] /\ frames[t][Len(frames[t])].key # None
  BY <1>1, <1>2, StackTop
<1>4. Popped = Front(evalStack) /\ Deps = Last(evalStack) /\ evalStack \in Seq(SUBSET Key)
  BY <1>3, PoppedFacts, BaseFacts
<1>5. /\ Recorded(Front(frames[t]), Popped)
      /\ Last(Front(frames[t])).key # None => Popped # <<>> /\ Top(t).key \in Last(Popped)
  BY <1>1, <1>2, <1>3, <1>4, RecordedPop
<1>6. Rests(Top(t).got, scopes[Scope(t)].env, Top(t).key) /\ IsLazy(scopes[Scope(t)].env[Top(t).key])
  <2>1. Top(t) = frames[t][Len(frames[t])]
    BY <1>1 DEF Last
  <2> QED
    BY <1>1, <1>2, <1>3, <2>1 DEF Reads
<1>7. Reads(Front(frames[t]), scopes)
  BY <1>1, <1>2, ReadsFacts
<1>8. \A u \in Task : u # t /\ Live(u) => \A i \in DOMAIN frames[u] : frames[u][i].key = None
  BY <1>2, <1>3, OthersIdle
<1> QED
  BY <1>3, <1>4, <1>5, <1>6, <1>7, <1>8

(* After an evaluation ended: the tasks, as far as the stack goes.               *)
LEMMA EndsStack ==
  ASSUME Base, Base', Unmixed, NEW t \in Task, EndsEvaluation(t), NEW val \in Value,
         frames'[t] = Answered(Front(frames[t]), val), \A u \in Task : u # t => frames'[u] = frames[u],
         \A u \in Task : state'[u] = state[u] \/ (state[u] = "waits" /\ state'[u] = "granted"),
         Covers(evalStack', Popped),
         Last(Front(frames[t])).key # None => \A kb \in val : kb[1] \in Last(evalStack')
  PROVE  Alone' /\ \A u \in Task : StackOK(u)'
<1>1. /\ evalStack # <<>> /\ Popped = Front(evalStack) /\ Recorded(Front(frames[t]), Popped)
      /\ \A u \in Task : u # t /\ Live(u) => \A i \in DOMAIN frames[u] : frames[u][i].key = None
  BY EndsAlone
<1>2. /\ state[t] = "run" /\ frames[t] \in Seq(Frame) /\ frames[t] # <<>>
      /\ Front(frames[t]) \in Seq(Frame) /\ Front(frames[t]) # <<>>
  BY EndsFacts
<1>3. Popped \in Seq(SUBSET Key) /\ evalStack' \in Seq(SUBSET Key)
  BY PoppedFacts DEF Base, Types
<1>4. Alone'
  <2> SUFFICES ASSUME NEW v \in Task, NEW u \in Task, state'[v] # "cancelled", state'[u] # "cancelled",
                      Evaluating(v)' # {}, Evaluating(u)' # {}
               PROVE  v = u
    BY DEF Alone, Live
  <2>1. \A w \in Task : w # t /\ Live(w) => Evaluating(w)' = {}
    BY <1>1 DEF Evaluating
  <2>2. \A w \in Task : w # t /\ state'[w] # "cancelled" => Live(w)
    BY DEF Live
  <2> QED
    BY <2>1, <2>2
<1>5. ASSUME NEW u \in Task PROVE StackOK(u)'
  <2>1. CASE u # t /\ Live(u)
    <3>1. \A i \in DOMAIN frames'[u] : frames'[u][i].key = None
      BY <1>1, <2>1
    <3> QED
      BY <3>1, StackIdle
  <2>2. CASE u # t /\ ~Live(u)
    BY <2>2 DEF StackOK, Live
  <2>3. CASE u = t
    <3>1. Recorded(Front(frames[t]), evalStack')
      BY <1>1, <1>2, <1>3, RecordedCovers
    <3>2. Recorded(frames'[t], evalStack')
      BY <1>2, <1>3, <3>1, RecordedAnswer
    <3>3. state'[t] = "run"
      BY <1>2
    <3> QED
      BY <2>3, <3>2, <3>3 DEF StackOK
  <2> QED
    BY <2>1, <2>2, <2>3
<1> QED
  BY <1>4, <1>5

(* The value an evaluation stores is made of what it has noted.              *)
LEMMA SucceedSound ==
  ASSUME Base, Base', Bindings, Unmixed, NEW t \in Task, Succeed(t)
  PROVE  Unmixed'
<1> DEFINE f == Top(t)
           s == Scope(t)
           e == [val |-> f.got, deps |-> Deps]
           fs == Front(frames[t])
<1>1. /\ EndsEvaluation(t) /\ Release(f.key, state) /\ Store(f.scope, f.key, e)
      /\ evalStack' = Noted(Popped, Deps) /\ Reply(t, fs, f.key, f.got)
      /\ UNCHANGED <<want, mixed>>
  BY DEF Succeed
<1>2. /\ state[t] = "run" /\ f.key \in Key /\ f.got \in Value /\ f.scope = s /\ s \in DOMAIN scopes
      /\ fs \in Seq(Frame) /\ fs # <<>> /\ Kinds(fs) /\ Inside(fs, scopes) /\ e \in CacheEntry
      /\ Last(fs).scope = s /\ scopes[s] \in ScopeType
  BY <1>1, EndsFacts
<1>3. e.val = f.got /\ e.deps = Deps
  OBVIOUS
<1>4. /\ Within(f.got, f.key, Deps) /\ Rests(f.got, scopes[s].env, f.key) /\ IsLazy(scopes[s].env[f.key])
      /\ Reads(fs, scopes)
      /\ Last(fs).key # None => Popped # <<>> /\ f.key \in Last(Popped)
  BY <1>1, EndsAlone
<1>5. Types /\ Deps \in SUBSET Key /\ Popped \in Seq(SUBSET Key)
  BY PoppedFacts, BaseFacts
<1> HIDE DEF f, e, fs, s
<1>6. /\ DOMAIN scopes' = DOMAIN scopes /\ EnvKept(scopes, scopes')
      /\ \A i \in DOMAIN scopes : \A j \in Key :
              scopes'[i].cache[j] = scopes[i].cache[j]
              \/ (i = s /\ j = f.key /\ scopes'[i].cache[j] = e /\ e.deps \cap scopes[s].over # {})
      /\ \A j \in Key : shared'[j] = shared[j]
              \/ (j = f.key /\ shared'[j] = e /\ e.deps \cap scopes[s].over = {})
  BY <1>1, <1>2, <1>5, StoreFacts
<1>7. CacheSound'
  <2>1. ASSUME NEW j \in Key PROVE Sound(shared'[j], BaseEnv, j)
    <3>1. CASE shared'[j] = shared[j]
      BY <3>1 DEF Unmixed, CacheSound
    <3>2. CASE j = f.key /\ shared'[j] = e /\ e.deps \cap scopes[s].over = {}
      <4>1. scopes[s].env[f.key] = BaseEnv[f.key] /\ \A q \in Deps : scopes[s].env[q] = BaseEnv[q]
        BY <1>2, <1>3, <1>4, <1>5, <3>2 DEF Bindings, Bound
      <4>2. Rests(f.got, BaseEnv, f.key)
        BY <1>4, <4>1 DEF Rests, Within
      <4> QED
        BY <1>3, <1>4, <3>2, <4>2 DEF Sound
    <3> QED
      BY <1>6, <3>1, <3>2
  <2>2. ASSUME NEW i \in DOMAIN scopes, NEW j \in Key PROVE Sound(scopes'[i].cache[j], scopes'[i].env, j)
    <3>1. scopes'[i].env = scopes[i].env
      BY <1>6 DEF EnvKept
    <3>2. CASE scopes'[i].cache[j] = scopes[i].cache[j]
      BY <3>1, <3>2 DEF Unmixed, CacheSound
    <3>3. CASE i = s /\ j = f.key /\ scopes'[i].cache[j] = e
      BY <1>3, <1>4, <3>1, <3>3 DEF Sound
    <3> QED
      BY <1>6, <3>2, <3>3
  <2> QED
    BY <1>6, <2>1, <2>2 DEF CacheSound
<1>8. Answers' /\ \A u \in Task : Reads(frames'[u], scopes')
  BY <1>1, <1>2, <1>4, <1>6, AnsweredSound DEF Unmixed
<1>9. frames'[t] = Answered(fs, f.got) /\ \A u \in Task : u # t => frames'[u] = frames[u]
  BY <1>1, BaseFacts DEF Reply, FramesOK
<1>10. \A u \in Task : state'[u] = state[u] \/ (state[u] = "waits" /\ state'[u] = "granted")
  <2>1. Queued(queue, state, want) /\ state \in [Task -> States] /\ want \in [Task -> Key \cup {None}]
    BY BaseFacts
  <2> QED
    BY <1>1, <1>2, <1>5, <2>1, ReleaseFacts
<1>11. /\ Covers(evalStack', Popped)
       /\ Popped # <<>> => Deps \subseteq Last(evalStack') /\ Last(Popped) \subseteq Last(evalStack')
  BY <1>1, <1>5, NotedFacts
<1>12. Last(fs).key # None => \A kb \in f.got : kb[1] \in Last(evalStack')
  BY <1>4, <1>11 DEF Within
<1>13. Alone' /\ \A u \in Task : StackOK(u)'
  BY <1>1, <1>2, <1>9, <1>10, <1>11, <1>12, EndsStack DEF fs
<1> QED
  BY <1>7, <1>8, <1>13 DEF Unmixed

(* A failed evaluation stores nothing.                                       *)
LEMMA FailSound ==
  ASSUME Base, Base', Unmixed, NEW t \in Task, Fail(t)
  PROVE  Unmixed'
<1> DEFINE fs == Front(frames[t])
<1>1. /\ EndsEvaluation(t) /\ Release(Top(t).key, state) /\ evalStack' = Popped
      /\ frames' = [frames EXCEPT ![t] = Answered(fs, {})]
      /\ UNCHANGED <<scopes, shared, want, answer, settled, mixed>>
  BY DEF Fail, ReleaseOnError, AfterError
<1>2. /\ state[t] = "run" /\ Top(t).key \in Key /\ fs \in Seq(Frame) /\ fs # <<>> /\ {} \in Value
  BY <1>1, EndsFacts DEF Value
<1>3. Reads(fs, scopes)
  BY <1>1, EndsAlone
<1> HIDE DEF fs
<1>4. frames'[t] = Answered(fs, {}) /\ \A u \in Task : u # t => frames'[u] = frames[u]
  BY <1>1, BaseFacts DEF FramesOK
<1>5. ASSUME NEW u \in Task PROVE Reads(frames'[u], scopes')
  <2>1. CASE u = t
    BY <1>1, <1>2, <1>3, <1>4, <2>1, ReadsAnswer
  <2>2. CASE u # t
    BY <1>1, <1>4, <2>2 DEF Unmixed
  <2> QED
    BY <2>1, <2>2
<1>6. \A u \in Task : state'[u] = state[u] \/ (state[u] = "waits" /\ state'[u] = "granted")
  <2>1. Types /\ Queued(queue, state, want) /\ state \in [Task -> States] /\ want \in [Task -> Key \cup {None}]
    BY BaseFacts
  <2> QED
    BY <1>1, <1>2, <2>1, ReleaseFacts
<1>7. Covers(evalStack', Popped)
  BY <1>1 DEF Covers
<1>8. Alone' /\ \A u \in Task : StackOK(u)'
  BY <1>1, <1>2, <1>4, <1>6, <1>7, EndsStack DEF fs
<1>9. CacheSound' /\ Answers'
  BY <1>1 DEF Unmixed, CacheSound, Answers
<1> QED
  BY <1>5, <1>8, <1>9 DEF Unmixed

(* Bodies come and go, tasks are spawned and cancelled: nothing is evaluated.    *)
LEMMA EnterLocalSound ==
  ASSUME Base, Unmixed, NEW t \in Task, NEW o \in Overrides, EnterLocal(t, o)
  PROVE  Unmixed'
<1> DEFINE s == scopes[Scope(t)]
           r == [env |-> [k \in Key |-> IF k \in DOMAIN o THEN o[k] ELSE s.env[k]],
                 over |-> s.over \cup DOMAIN o, cache |-> NoCache]
           b == Body(Len(scopes) + 1)
<1>1. /\ state[t] = "run" /\ Last(frames[t]).key = None /\ EnvKept(scopes, scopes')
      /\ DOMAIN scopes' = 1 .. (Len(scopes) + 1) /\ DOMAIN scopes = 1 .. Len(scopes)
      /\ Len(scopes) \in Nat \ {0}
      /\ scopes'[Len(scopes) + 1] = r /\ \A i \in DOMAIN scopes : scopes'[i] = scopes[i]
      /\ b \in Frame /\ b.key = None /\ frames'[t] = Append(frames[t], b)
      /\ \A u \in Task : u # t => frames'[u] = frames[u]
      /\ UNCHANGED <<shared, evalStack, holder, queue, state, want, answer, settled, mixed>>
      /\ Base'
  BY EnterLocalFacts
<1>2. r.cache = NoCache
  OBVIOUS
<1> HIDE DEF b, r
<1>3. /\ frames[t] \in Seq(Frame) /\ frames[t] # <<>> /\ Kinds(frames[t])
  BY <1>1, TopFacts
<1>4. CacheSound'
  <2>1. ASSUME NEW i \in DOMAIN scopes', NEW k \in Key PROVE Sound(scopes'[i].cache[k], scopes'[i].env, k)
    <3>1. CASE i \in DOMAIN scopes
      BY <1>1, <3>1 DEF Unmixed, CacheSound
    <3>2. CASE i = Len(scopes) + 1
      BY <1>1, <1>2, <3>2 DEF Sound, NoCache
    <3> QED
      BY <1>1, <3>1, <3>2
  <2> QED
    BY <1>1, <2>1 DEF Unmixed, CacheSound
<1>5. Answers'
  BY <1>1, BaseFacts DEF Unmixed, Answers, EnvKept
<1>6. ASSUME NEW u \in Task PROVE Reads(frames'[u], scopes')
  <2>1. frames[u] \in Seq(Frame) /\ Inside(frames[u], scopes) /\ Reads(frames[u], scopes)
    BY BaseFacts DEF FramesOK, Unmixed
  <2>2. Reads(frames[u], scopes')
    BY <1>1, <2>1, ReadsFacts
  <2> QED
    BY <1>1, <2>1, <2>2, ReadsFacts
<1>7. \A i \in DOMAIN frames'[t] : frames'[t][i].key = None
  <2>1. \A i \in DOMAIN frames[t] : frames[t][i].key = None
    BY <1>1, <1>3, BodiesOnly
  <2>2. /\ DOMAIN frames'[t] = 1 .. (Len(frames[t]) + 1) /\ DOMAIN frames[t] = 1 .. Len(frames[t])
        /\ \A i \in DOMAIN frames[t] : frames'[t][i] = frames[t][i]
        /\ frames'[t][Len(frames[t]) + 1] = b /\ Len(frames[t]) \in Nat
    BY <1>1, <1>3, AppendFacts
  <2> QED
    BY <1>1, <2>1, <2>2
<1>8. Alone'
  BY <1>1, <1>7, AloneKept DEF Unmixed
<1>9. ASSUME NEW u \in Task PROVE StackOK(u)'
  <2>1. CASE u = t
    BY <1>1, <1>7, <2>1, StackIdle
  <2>2. CASE u # t
    <3>1. Covers(evalStack', evalStack)
      BY <1>1 DEF Covers
    <3> QED
      BY <1>1, <2>2, <3>1, StackKept DEF Unmixed
  <2> QED
    BY <2>1, <2>2
<1> QED
  BY <1>4, <1>5, <1>6, <1>8, <1>9 DEF Unmixed

(* Leaving a Local changes no binding of another frame.                      *)
LEMMA LeaveLocalSound ==
  ASSUME Base, Unmixed, NEW t \in Task, LeaveLocal(t)
  PROVE  Unmixed'
<1>1. /\ state[t] = "run" /\ Last(frames[t]).key = None /\ frames[t] \in Seq(Frame) /\ frames[t] # <<>>
      /\ frames'[t] = Front(frames[t]) /\ \A u \in Task : u # t => frames'[u] = frames[u]
      /\ UNCHANGED <<scopes, shared, evalStack, holder, queue, state, want, answer, settled, mixed>>
      /\ Base'
  BY LeaveLocalFacts
<1>2. \A i \in DOMAIN frames'[t] : frames'[t][i].key = None
  <2>1. \A i \in DOMAIN frames[t] : frames[t][i].key = None
    BY <1>1, TopFacts, BodiesOnly
  <2>2. \A i \in DOMAIN Front(frames[t]) : i \in DOMAIN frames[t] /\ Front(frames[t])[i] = frames[t][i]
    BY <1>1, FrontFacts
  <2> QED
    BY <1>1, <2>1, <2>2
<1>3. CacheSound' /\ Answers'
  BY <1>1 DEF Unmixed, CacheSound, Answers
<1>4. \A u \in Task : Reads(frames'[u], scopes')
  BY <1>1, ReadsFacts DEF Unmixed
<1>5. Alone'
  BY <1>1, <1>2, AloneKept DEF Unmixed
<1>6. ASSUME NEW u \in Task PROVE StackOK(u)'
  <2>1. CASE u = t
    BY <1>1, <1>2, <2>1, StackIdle
  <2>2. CASE u # t
    <3>1. Covers(evalStack', evalStack)
      BY <1>1 DEF Covers
    <3> QED
      BY <1>1, <2>2, <3>1, StackKept DEF Unmixed
  <2> QED
    BY <2>1, <2>2
<1> QED
  BY <1>3, <1>4, <1>5, <1>6 DEF Unmixed

(* A spawned task has read nothing.                                          *)
LEMMA SpawnSound ==
  ASSUME Base, Unmixed, NEW t \in Task, NEW v \in Task, Spawn(t, v)
  PROVE  Unmixed'
<1> DEFINE b == Body(Scope(t))
<1>1. /\ state[v] = "unborn" /\ b.key = None /\ frames'[v] = <<b>>
      /\ \A u \in Task : u # v => frames'[u] = frames[u] /\ state'[u] = state[u]
      /\ UNCHANGED <<scopes, shared, evalStack, holder, queue, want, answer, settled, mixed>>
      /\ Base'
  BY SpawnFacts
<1> HIDE DEF b
<1>2. \A i \in DOMAIN frames'[v] : frames'[v][i].key = None
  BY <1>1
<1>3. CacheSound' /\ Answers'
  BY <1>1 DEF Unmixed, CacheSound, Answers
<1>4. \A u \in Task : Reads(frames'[u], scopes')
  BY <1>1, <1>2 DEF Unmixed, Reads
<1>5. Alone'
  BY <1>1, <1>2, AloneKept DEF Unmixed
<1>6. ASSUME NEW u \in Task PROVE StackOK(u)'
  <2>1. CASE u = v
    BY <1>1, <1>2, <2>1, StackIdle
  <2>2. CASE u # v
    <3>1. Covers(evalStack', evalStack)
      BY <1>1 DEF Covers
    <3> QED
      BY <1>1, <2>2, <3>1, StackKept DEF Unmixed
  <2> QED
    BY <2>1, <2>2
<1> QED
  BY <1>3, <1>4, <1>5, <1>6 DEF Unmixed

(* A cancelled task answers nothing.                                         *)
LEMMA CancelSound ==
  ASSUME Base, Unmixed, NEW v \in Task, Cancel(v)
  PROVE  Unmixed'
<1>1. /\ state'[v] = "cancelled"
      /\ \A u \in Task : u # v => state'[u] = state[u] \/ (state[u] = "waits" /\ state'[u] = "granted")
      /\ UNCHANGED <<scopes, shared, evalStack, frames, want, answer, settled, mixed>>
      /\ Base'
  BY CancelFacts
<1>2. CacheSound' /\ Answers' /\ \A u \in Task : Reads(frames'[u], scopes')
  BY <1>1 DEF Unmixed, CacheSound, Answers
<1>3. Alone'
  BY <1>1, AloneKept DEF Unmixed
<1>4. ASSUME NEW u \in Task PROVE StackOK(u)'
  <2>1. CASE u = v
    BY <1>1, <2>1 DEF StackOK, Live
  <2>2. CASE u # v
    <3>1. Covers(evalStack', evalStack)
      BY <1>1 DEF Covers
    <3> QED
      BY <1>1, <2>2, <3>1, StackKept DEF Unmixed
  <2> QED
    BY <2>1, <2>2
<1> QED
  BY <1>2, <1>3, <1>4 DEF Unmixed

(* Once confused, the stack stays so.                                            *)
LEMMA MixedStays ==
  ASSUME [Next]_vars, mixed
  PROVE  mixed'
<1>1. ASSUME NEW t \in Task, NEW k \in Key, Ask(t, k) PROVE mixed'
  BY <1>1, AskCases DEF AskAnswered, AskEvaluates, AskWaits, Evaluate
<1>2. ASSUME NEW t \in Task, Granted(t) PROVE mixed'
  BY <1>2 DEF Granted, Evaluate
<1>3. ASSUME UNCHANGED mixed PROVE mixed'
  BY <1>3
<1> QED
  BY <1>1, <1>2, <1>3 DEF Next, vars, Advances, Succeed, Fail, LeaveLocal, Cancel, Spawn, EnterLocal

(* Every step keeps the soundness invariant.                                 *)
LEMMA SoundStep ==
  ASSUME NoRebinding, SoundInv, [Next]_vars
  PROVE  SoundInv'
<1>1. Base /\ Base' /\ Bindings /\ Bindings'
  BY BaseStep, BindingsStep DEF SoundInv
<1>2. ASSUME ~mixed' PROVE Unmixed'
  <2>1. ~mixed /\ Unmixed
    BY <1>2, MixedStays DEF SoundInv
  <2>2. CASE UNCHANGED vars
    BY <2>1, <2>2 DEF vars, Unmixed, CacheSound, Answers, Alone, StackOK, Live, Top, Evaluating
  <2>3. CASE Next
    <3> PICK t \in Task : \/ Advances(t) \/ LeaveLocal(t) \/ Cancel(t)
                          \/ \E o \in Overrides : EnterLocal(t, o)
                          \/ \E u \in Task : Spawn(t, u)
      BY <2>3 DEF Next
    <3>1. CASE Advances(t)
      BY <1>1, <1>2, <2>1, <3>1, AskSoundStep, GrantedSound, SucceedSound, FailSound DEF Advances
    <3> QED
      BY <1>1, <2>1, <3>1, LeaveLocalSound, CancelSound, EnterLocalSound, SpawnSound
  <2> QED
    BY <2>2, <2>3
<1> QED
  BY <1>1, <1>2 DEF SoundInv

(* It holds initially.                                                       *)
LEMMA SoundInit ==
  ASSUME Init
  PROVE  SoundInv
<1>1. Base
  BY BaseInit
<1>2. scopes = <<[env |-> BaseEnv, over |-> {}, cache |-> NoCache]>> /\ shared = NoCache
  BY DEF Init
<1>3. DOMAIN scopes = {1} /\ scopes[1].env = BaseEnv /\ scopes[1].over = {} /\ scopes[1].cache = NoCache
  BY <1>2
<1>4. Bindings
  BY <1>3 DEF Bindings, Bound
<1>5. CacheSound
  BY <1>2, <1>3 DEF CacheSound, Sound, NoCache
<1>6. Answers
  BY DEF Init, Answers
<1>7. \A t \in Task : \A i \in DOMAIN frames[t] : frames[t][i].key = None
  BY DEF Init, Body
<1>8. (\A t \in Task : Reads(frames[t], scopes)) /\ Alone
  BY <1>7 DEF Reads, Alone, Evaluating
<1>9. ASSUME NEW t \in Task PROVE StackOK(t)
  <2>1. state[t] \notin {"waits", "granted"}
    BY DEF Init
  <2> QED
    BY <1>7, <2>1 DEF StackOK, Recorded
<1> QED
  BY <1>1, <1>4, <1>5, <1>6, <1>8, <1>9 DEF SoundInv, Unmixed

(* The invariant makes every answer and cached value sound.                  *)
LEMMA SoundImplies ==
  ASSUME SoundInv
  PROVE  AskSound
<1>1. Base /\ Types
  BY BaseFacts DEF SoundInv
<1>2. \A i \in DOMAIN scopes : /\ scopes[i].env \in [Key -> Binding] /\ scopes[i].over \subseteq Key
                               /\ \A k \in Key : scopes[i].cache[k] # None => scopes[i].cache[k] \in CacheEntry
  <2> SUFFICES ASSUME NEW i \in DOMAIN scopes
               PROVE  /\ scopes[i].env \in [Key -> Binding] /\ scopes[i].over \subseteq Key
                      /\ \A k \in Key : scopes[i].cache[k] # None => scopes[i].cache[k] \in CacheEntry
    OBVIOUS
  <2>1. scopes[i] \in ScopeType
    BY <1>1 DEF Types
  <2> QED
    BY <2>1 DEF ScopeType
<1>3. \A t \in Task : /\ Live(t) /\ state[t] # "unborn" => frames[t] # <<>>
                      /\ \A i \in DOMAIN frames[t] : frames[t][i].scope \in DOMAIN scopes
  BY <1>1 DEF Base, Placed, Inside
<1>4. TypeOK
  BY <1>1, <1>2, <1>3 DEF TypeOK, Types, States
<1>5. ~mixed => Answers
  BY DEF SoundInv, Unmixed
<1> QED
  BY <1>4, <1>5 DEF AskSound, Answers, Rests

(* Whatever was evaluated and cached by whom before, by handlers nested in any   *)
(* way: an Ask is answered by the bindings of the asker's own scope, an override *)
(* before the base value, as long as no Local rebinds a key to another program   *)
(* and no two tasks had evaluations open together.                               *)
THEOREM AnswersAreSound == ASSUME NoRebinding PROVE Spec => []AskSound
<1> QED
  BY SoundInit, SoundStep, SoundImplies, PTL DEF Spec
================================================================================
