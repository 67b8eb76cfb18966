---------------------------- MODULE ConductorProofs ----------------------------
(***************************************************************************)
(* Theorems about Conductor for every finite set of agents, every family  *)
(* of well-formed plans, and any number of runs, verbs and kills.          *)
(***************************************************************************)
EXTENDS Conductor, TLAPS, FiniteSetTheorems

Status == {"NONE", "PENDING", "RUNNING", "BLOCKED"} \cup Terminal
Stage == {"off", "pending", "forms", "ended", "failing", "record", "block", "finish", "fail"}
GateKind == {"validation", "deadline", "merge", "checkpoint", "loop", "quorum"}
GateSet == GateKind \X (Agent \cup Nat)
Option == {"proceed", "redirect", "abort", "extend", "retry-agent", "retry-merge"}
Answer == {a \in [gate : GateSet, option : Option] : a.option \in Options(a.gate)}
Outs == UNION {[S -> {"none"} \cup Outcome] : S \in SUBSET Agent}
RunnerState ==
  [at : Stage, created : Nat, seen : Seq(Answer), form : Nat \ {0}, out : Outs,
   gates : SUBSET GateSet]
VerbState ==
  {None} \cup [kind : {"answer"}, gate : GateSet, option : Option, rest : SUBSET GateSet]
         \cup [kind : {"apply"}, gate : GateSet, option : Option]
         \cup [kind : {"stop", "stopped"}, created : Nat]

Types ==
  /\ plan \in Plans
  /\ art \in [Agent -> {"none"} \cup Good]
  /\ answers \in Seq(Answer)
  /\ open \subseteq GateSet
  /\ meta \in [status : Status, created : Nat, updated : Nat]
  /\ clock \in Nat
  /\ runner \in [Run -> RunnerState]
  /\ begun \in 0..MaxRuns
  /\ \A r \in Run : Live(r) => r <= begun
  /\ verb \in VerbState
  /\ verbs \in 0..MaxVerbs[plan]

\* A timestamp is never in the future, and the run began before it ended.
Stamped ==
  /\ meta.created <= meta.updated /\ meta.updated <= clock
  /\ meta.status \in Terminal => meta.created < meta.updated
  /\ \A r \in Run : R(r).created <= clock
  /\ verb.kind \in {"stop", "stopped"} => verb.created <= clock

AllComplete == \A i \in 1..Len(plan) : Complete(i)

\* What a run knows is so: it has read a part of the journal, it opened no gate
\* that this part lets pass, and it is past the forms that are complete.
Heard(w) == Len(w.seen) <= Len(answers) /\ \A i \in 1..Len(w.seen) : w.seen[i] = answers[i]
Ahead(w) ==
  LET B == Branches(plan[w.form]) IN
  /\ w.out \in [B -> {"none"} \cup Outcome]
  /\ \A n \in B : /\ w.out[n] \in Good => art[n] = w.out[n]
                  /\ w.out[n] \in {"exhausted", "overdue"} => w.gates # {}
  /\ \A i \in 1..(w.form - 1) : Complete(i)
Sound(w) ==
  /\ w.form \in 1..Len(plan)
  /\ w.at \in {"off", "pending"} => w.gates = {} /\ w.form = 1
  /\ Heard(w)
  /\ \A g \in w.gates : ~Answered(g, w.seen, {"proceed"})
  /\ w.at = "forms" => Ahead(w)
  /\ w.at = "finish" \/ (w.at = "ended" /\ w.gates = {}) => AllComplete
RunsSound == \A r \in Run : Sound(runner[r])

Done == meta.status = "DONE" => AllComplete

IInv == Types /\ Stamped /\ RunsSound /\ Done

\* One process at a time: it holds the handle it saved, and an answer is filed
\* while no run opens gates.
OneRun ==
  /\ \A q, r \in Run : Live(q) /\ Live(r) => q = r
  /\ \A r \in Run : Live(r) => R(r).created = meta.created
  /\ verb.kind \in {"stop", "stopped"} => verb.created = meta.created
  /\ verb.kind = "answer" => Idle /\ verb.rest = open \ {verb.gate}

-----------------------------------------------------------------------------
(* Shapes of plans and outcomes.                                           *)
LEMMA PlanShape ==
  ASSUME plan \in Plans
  PROVE  Len(plan) \in Nat \ {0} /\ \A i \in 1..Len(plan) : plan[i] \in Form
BY PlansWellFormed

(* The branches of a form are a finite set of agents.                      *)
LEMMA BranchesFit ==
  ASSUME NEW f \in Form
  PROVE  Branches(f) \subseteq Agent /\ IsFiniteSet(Branches(f))
<1>1. Branches(f) \subseteq Agent
  <2>1. CASE f.kind = "parallel"
    BY <2>1 DEF Form, Branches
  <2>2. CASE f.kind = "loop"
    <3>1. f.agents \in Seq(Agent)
      BY <2>2 DEF Form
    <3>2. \A i \in DOMAIN f.agents : f.agents[i] \in Agent
      BY <3>1
    <3>. QED  BY <2>2, <3>2 DEF Branches, Range
  <2>3. CASE f.kind = "merge"
    BY <2>3 DEF Branches
  <2>. QED  BY <2>1, <2>2, <2>3 DEF Form
<1>. QED  BY <1>1, AgentsFinite, FS_Subset

(* Before its first result a form has no outcome of any branch.            *)
LEMMA NoOutcomeFits ==
  ASSUME NEW f \in Form
  PROVE  /\ NoOutcome(f) \in [Branches(f) -> {"none"} \cup Outcome]
         /\ NoOutcome(f) \in Outs
         /\ \A n \in Branches(f) : NoOutcome(f)[n] = "none"
<1>1. NoOutcome(f) \in [Branches(f) -> {"none"} \cup Outcome]
  BY DEF NoOutcome
<1>2. NoOutcome(f) \in Outs
  BY <1>1, BranchesFit DEF Outs
<1>. QED  BY <1>1, <1>2 DEF NoOutcome

(* A process that was not started, or is gone, has no gate and has read    *)
(* nothing.                                                                *)
LEMMA OffFits ==
  /\ Off \in RunnerState /\ Off.at = "off" /\ Off.gates = {} /\ Off.form = 1
  /\ Off.created = 0 /\ Off.seen = <<>>
<1>1. [n \in {} |-> "none"] \in Outs
  <2>1. [n \in {} |-> "none"] \in [{} -> {"none"} \cup Outcome]
    OBVIOUS
  <2>. QED  BY <2>1 DEF Outs
<1>2. <<>> \in Seq(Answer)
  OBVIOUS
<1>. QED  BY <1>1, <1>2 DEF Off, RunnerState, Stage

-----------------------------------------------------------------------------
(* Artifacts and answers are only added, so that what is complete stays so. *)
Grows ==
  /\ plan' = plan
  /\ \A n \in Agent : art[n] # "none" => art'[n] = art[n]
  /\ Len(answers') \in Nat /\ Len(answers) <= Len(answers')
  /\ \A i \in 1..Len(answers) : answers'[i] = answers[i]

(* While artifacts and answers are only added, a complete form stays       *)
(* complete.                                                               *)
LEMMA CompleteStays ==
  ASSUME Types, Grows, answers' \in Seq(Answer), NEW i \in 1..Len(plan), Complete(i)
  PROVE  Complete(i)'
<1>1. plan[i] \in Form
  BY PlanShape DEF Types
<1>2. Range(answers) \subseteq Range(answers')
  <2>1. DOMAIN answers = 1..Len(answers) /\ DOMAIN answers' = 1..Len(answers')
        /\ Len(answers) \in Nat
    BY DEF Types
  <2>. QED  BY <2>1 DEF Range, Grows
<1>3. ASSUME NEW kind, Accepted(kind, i) PROVE Accepted(kind, i)'
  BY <1>2, <1>3 DEF Accepted
<1>4. ASSUME plan[i].kind = "parallel", Cardinality({n \in plan[i].agents : art[n] # "none"}) >= plan[i].quorum
      PROVE  Cardinality({n \in plan[i].agents : art'[n] # "none"}) >= plan[i].quorum
  <2> DEFINE A == {n \in plan[i].agents : art[n] # "none"}
             B == {n \in plan[i].agents : art'[n] # "none"}
  <2>1. plan[i].agents \subseteq Agent /\ plan[i].quorum \in Nat
    BY <1>1, <1>4 DEF Form
  <2>2. A \subseteq B
    BY <2>1 DEF Grows
  <2>3. IsFiniteSet(B)
    BY <2>1, AgentsFinite, FS_Subset
  <2>4. Cardinality(A) <= Cardinality(B) /\ Cardinality(A) \in Nat /\ Cardinality(B) \in Nat
    BY <2>2, <2>3, FS_Subset, FS_CardinalityType
  <2>. QED  BY <1>4, <2>1, <2>4
<1>5. ASSUME plan[i].kind = "loop", NEW n \in Range(plan[i].agents), art[n] = "passing"
      PROVE  art'[n] = "passing"
  <2>1. n \in Agent
    BY <1>1, <1>5, BranchesFit DEF Branches
  <2>. QED  BY <1>5, <2>1 DEF Grows
<1>. QED  BY <1>3, <1>4, <1>5 DEF Complete, Grows

(* For the same reason, what a run knows stays so while others add to the  *)
(* files.                                                                  *)
LEMMA SoundStays ==
  ASSUME Types, Grows, answers' \in Seq(Answer), NEW w \in RunnerState, Sound(w)
  PROVE  Sound(w)'
<1>1. Len(plan) \in Nat /\ Len(answers) \in Nat /\ Len(w.seen) \in Nat /\ w.form \in 1..Len(plan)
  BY PlanShape DEF Types, RunnerState, Sound
<1>2. Heard(w)'
  BY <1>1 DEF Sound, Heard, Grows
<1>3. AllComplete => AllComplete'
  BY CompleteStays DEF AllComplete, Grows
<1>4. Ahead(w) => Ahead(w)'
  <2>1. ASSUME Ahead(w), NEW i \in 1..(w.form - 1) PROVE Complete(i)'
    BY <1>1, <2>1, CompleteStays DEF Ahead
  <2>2. ASSUME Ahead(w), NEW n \in Branches(plan[w.form]), w.out[n] \in Good PROVE art'[n] = w.out[n]
    <3>1. n \in Agent
      BY <1>1, PlanShape, BranchesFit DEF Types
    <3>2. art[n] = w.out[n]
      BY <2>2 DEF Ahead
    <3>. QED  BY <2>2, <3>1, <3>2 DEF Grows, Good
  <2>. QED  BY <2>1, <2>2 DEF Ahead, Grows
<1>. QED  BY <1>2, <1>3, <1>4 DEF Sound, Grows

-----------------------------------------------------------------------------
(* A run takes a step by itself.                                           *)
LEMMA Unmoved ==
  ASSUME Types, UNCHANGED <<plan, art, answers>>
  PROVE  Grows /\ answers' \in Seq(Answer)
BY DEF Types, Grows

(* A step of one process that leaves meta.json, the clock and the overseer *)
(* alone keeps the invariant when the process is sound after it.           *)
LEMMA RunnerMoves ==
  ASSUME IInv, NEW r \in Run, NEW w \in RunnerState, Update(r, w), Grows,
         answers' \in Seq(Answer), art' \in [Agent -> {"none"} \cup Good],
         open' \subseteq GateSet, UNCHANGED <<meta, clock, begun, verb, verbs>>,
         Sound(w)', w.created <= clock, w.at # "off" => Live(r)
  PROVE  IInv'
<1>1. /\ runner' \in [Run -> RunnerState] /\ runner'[r] = w
      /\ \A q \in Run \ {r} : runner'[q] = runner[q]
  BY DEF Update, IInv, Types
<1>2. Types'
  BY <1>1 DEF IInv, Types, Grows, Live, R
<1>3. Stamped'
  BY <1>1 DEF IInv, Stamped, R
<1>4. RunsSound'
  <2>1. ASSUME NEW q \in Run \ {r} PROVE Sound(runner[q])'
    <3>1. runner[q] \in RunnerState /\ Sound(runner[q]) /\ runner'[q] = runner[q]
      BY <1>1 DEF IInv, Types, RunsSound
    <3> DEFINE v == runner[q]
    <3>2. \A u \in RunnerState : Sound(u) => Sound(u)'
      BY SoundStays DEF IInv
    <3>3. \A u \in RunnerState : u = runner'[q] /\ Sound(u)' => Sound(runner[q])'
      BY DEF Sound, Heard, Ahead
    <3>. QED  BY <3>1, <3>2, <3>3
  <2>2. Sound(runner[r])'
    <3>1. \A u \in RunnerState : u = runner'[r] /\ Sound(u)' => Sound(runner[r])'
      BY DEF Sound, Heard, Ahead
    <3>. QED  BY <1>1, <3>1
  <2>. QED  BY <2>1, <2>2 DEF RunsSound
<1>5. Done'
  BY CompleteStays DEF IInv, Done, AllComplete, Grows
<1>. QED  BY <1>2, <1>3, <1>4, <1>5 DEF IInv

(* The same of a step that writes no file but the open gates.              *)
LEMMA RunnerAlone ==
  ASSUME IInv, NEW r \in Run, NEW w \in RunnerState, Update(r, w),
         open' \subseteq GateSet, UNCHANGED <<plan, art, answers, meta, clock, begun, verb, verbs>>,
         Sound(w), w.created <= clock, w.at # "off" => Live(r)
  PROVE  IInv'
<1>1. Grows /\ answers' \in Seq(Answer)
  BY Unmoved DEF IInv
<1>2. Sound(w)'
  BY <1>1, SoundStays DEF IInv
<1>. QED  BY <1>1, <1>2, RunnerMoves DEF IInv, Types

(* A process that is gone knows nothing.                                   *)
LEMMA OffSound == ASSUME Types PROVE Sound(Off)
<1>1. Len(plan) \in Nat \ {0} /\ Len(answers) \in Nat
  BY PlanShape DEF Types
<1>. QED  BY <1>1, OffFits DEF Sound, Heard

(* A kill leaves a process of which nothing is claimed.                    *)
LEMMA KillKeeps ==
  ASSUME IInv, NEW r \in Run, Kill(r)
  PROVE  IInv'
BY RunnerAlone, OffFits, OffSound DEF IInv, Types, Kill, overseer

-----------------------------------------------------------------------------
(* What an answered gate stands for.                                       *)
LEMMA AnsweredAccepted ==
  ASSUME Types, NEW w \in RunnerState, Heard(w), NEW kind, NEW i, NEW options,
         Answered(Gate(kind, i), w.seen, options),
         options \subseteq {"proceed"} \cup (IF kind = "checkpoint" THEN {"redirect"} ELSE {})
  PROVE  Accepted(kind, i)
<1>1. PICK k \in 1..Len(w.seen) :
        w.seen[k].gate = Gate(kind, i) /\ w.seen[k].option \in options
  BY DEF Answered, LatestAnswer
<1>2. k \in DOMAIN answers /\ answers[k] = w.seen[k]
  <2>1. Len(w.seen) \in Nat /\ Len(answers) \in Nat /\ DOMAIN answers = 1..Len(answers)
    BY DEF RunnerState, Types
  <2>. QED  BY <1>1, <2>1 DEF Heard
<1>3. answers[k] \in Range(answers)
  BY <1>2 DEF Range
<1>. QED  BY <1>1, <1>2, <1>3 DEF Accepted

(* No answer lets a gate pass that has no such option.                     *)
LEMMA NotProceedable ==
  ASSUME NEW w \in RunnerState, NEW g, "proceed" \notin Options(g)
  PROVE  ~Answered(g, w.seen, {"proceed"})
<1> SUFFICES ASSUME NEW k \in 1..Len(w.seen), w.seen[k].gate = g, w.seen[k].option = "proceed"
             PROVE  FALSE
  BY DEF Answered, LatestAnswer
<1>1. w.seen \in Seq(Answer)
  BY DEF RunnerState
<1>2. w.seen[k] \in Answer
  BY <1>1
<1>. QED  BY <1>2 DEF Answer

(* Gates are well formed; those of an agent, of a deadline and of a merge  *)
(* do not offer "proceed".                                                 *)
LEMMA GateFacts ==
  /\ \A n \in Agent : Gate("validation", n) \in GateSet /\ Gate("deadline", n) \in GateSet
  /\ \A kind \in GateKind, i \in Nat : Gate(kind, i) \in GateSet
  /\ \A n : "proceed" \notin Options(Gate("validation", n))
  /\ \A n : "proceed" \notin Options(Gate("deadline", n))
  /\ \A n : "proceed" \notin Options(Gate("merge", n))
<1>1. \A kind, n : Gate(kind, n)[1] = kind
  BY DEF Gate
<1>2. /\ \A n \in Agent : Gate("validation", n) \in GateSet /\ Gate("deadline", n) \in GateSet
      /\ \A kind \in GateKind, i \in Nat : Gate(kind, i) \in GateSet
  BY DEF Gate, GateSet, GateKind
<1>3. \A g : g[1] = "validation" => Options(g) = {"retry-agent", "redirect", "abort"}
  BY DEF Options
<1>4. \A g : g[1] = "deadline" => Options(g) = {"extend", "redirect", "abort"}
  BY DEF Options
<1>5. \A g : g[1] = "merge" => Options(g) = {"retry-merge", "abort"}
  BY DEF Options
<1>. QED  BY <1>1, <1>2, <1>3, <1>4, <1>5

-----------------------------------------------------------------------------
(* A run leaves its forms, or a later stage, with more gates.              *)
LEMMA LeaveKeeps ==
  ASSUME IInv, NEW r \in Run, Live(r), NEW where \in Stage \ {"off", "pending", "forms"},
         NEW gates \in SUBSET GateSet, Leave(r, where, gates),
         \A g \in gates : ~Answered(g, R(r).seen, {"proceed"}),
         where = "finish" \/ (where = "ended" /\ R(r).gates \cup gates = {}) => AllComplete,
         open' \subseteq GateSet,
         UNCHANGED <<plan, art, answers, meta, clock, begun, verb, verbs>>
  PROVE  IInv'
<1> DEFINE w == [R(r) EXCEPT !.at = where, !.gates = @ \cup gates]
<1>1. R(r) \in RunnerState /\ Sound(R(r)) /\ R(r).created <= clock
  BY DEF IInv, Types, RunsSound, Stamped, R
<1>2. /\ w \in RunnerState /\ w.at = where /\ w.gates = R(r).gates \cup gates
      /\ w.form = R(r).form /\ w.seen = R(r).seen /\ w.created = R(r).created
  BY <1>1 DEF RunnerState
<1>3. Update(r, w)
  BY DEF Leave
<1> HIDE DEF w
<1>4. Sound(w)
  BY <1>1, <1>2 DEF Sound, Heard
<1>. QED  BY <1>1, <1>2, <1>3, <1>4, RunnerAlone

Satisfied(i) ==
  LET f == plan[i] IN
  /\ f.kind = "parallel" =>
       \/ Cardinality({n \in f.agents : art[n] # "none"}) >= f.quorum
       \/ Accepted("quorum", i)
  /\ f.kind = "loop" =>
       (\E n \in Range(f.agents) : art[n] = "passing") \/ Accepted("loop", i)

(* A form ends for a reason: its results, a gate that it opened, a gate    *)
(* that no answer passes, or an error.                                     *)
LEMMA FormEndsKeeps ==
  ASSUME IInv, NEW r \in Run, R(r).at = "forms", NEW gate \in GateSet,
         NEW result \in {"value", "parked", "short", "error"}, FormEnds(r, result, gate),
         result = "value" => Satisfied(R(r).form),
         result = "parked" => R(r).gates # {},
         result = "short" => ~Answered(gate, R(r).seen, {"proceed"}),
         UNCHANGED <<plan, art, answers, open, meta, clock, begun, verb, verbs>>
  PROVE  IInv'
<1>1. /\ R(r) \in RunnerState /\ Sound(R(r)) /\ R(r).created <= clock /\ Live(r)
      /\ Ahead(R(r)) /\ Heard(R(r)) /\ R(r).form \in 1..Len(plan) /\ Len(plan) \in Nat \ {0}
  BY PlanShape DEF IInv, Types, RunsSound, Stamped, R, Live, Sound
<1>2. open' \subseteq GateSet
  BY DEF IInv, Types
<1>3. CASE result = "parked"
  <2>1. Leave(r, "ended", {})
    BY <1>3 DEF FormEnds
  <2>. QED  BY <1>1, <1>2, <1>3, <2>1, LeaveKeeps DEF Stage
<1>4. CASE result = "short"
  <2>1. Leave(r, "ended", {gate})
    BY <1>4 DEF FormEnds
  <2>. QED  BY <1>1, <1>2, <1>4, <2>1, LeaveKeeps DEF Stage
<1>5. CASE result = "error"
  <2>1. Leave(r, "failing", {})
    BY <1>5 DEF FormEnds
  <2>. QED  BY <1>1, <1>2, <1>5, <2>1, LeaveKeeps DEF Stage
<1>6. CASE result = "value"
  <2>1. Advance(r)
    BY <1>6 DEF FormEnds
  <2>2. CASE AtCheckpoint(r)
    <3>1. Leave(r, "ended", {CheckpointGate(r)})
      BY <2>1, <2>2 DEF Advance
    <3>2. CheckpointGate(r) \in GateSet
      BY <1>1, GateFacts DEF CheckpointGate, GateKind
    <3>3. ~Answered(CheckpointGate(r), R(r).seen, {"proceed"})
      BY <2>2 DEF AtCheckpoint, Answered
    <3>. QED  BY <1>1, <1>2, <3>1, <3>2, <3>3, LeaveKeeps DEF Stage
  <2>3. CASE ~AtCheckpoint(r)
    <3>1. Complete(R(r).form)
      <4>1. plan \in Supervised => Accepted("checkpoint", R(r).form)
        <5>1. plan \in Supervised => Answered(Gate("checkpoint", R(r).form), R(r).seen, {"proceed", "redirect"})
          BY <2>3 DEF AtCheckpoint, CheckpointGate
        <5>. QED  BY <1>1, <5>1, AnsweredAccepted DEF IInv
      <4>. QED  BY <1>6, <4>1 DEF Complete, Satisfied
    <3>2. \A i \in 1..R(r).form : Complete(i)
      BY <1>1, <3>1 DEF Ahead
    <3>3. CASE R(r).form = Len(plan)
      <4>1. Leave(r, "ended", {})
        BY <2>1, <2>3, <3>3 DEF Advance
      <4>. QED  BY <1>1, <1>2, <3>2, <3>3, <4>1, LeaveKeeps DEF Stage, AllComplete
    <3>4. CASE R(r).form # Len(plan)
      <4> DEFINE next == R(r).form + 1
                 w == [R(r) EXCEPT !.form = next, !.out = NoOutcome(plan[next])]
      <4>1. Update(r, w)
        BY <2>1, <2>3, <3>4 DEF Advance
      <4>2. next \in 1..Len(plan) /\ plan[next] \in Form
        BY <1>1, <3>4, PlanShape DEF IInv, Types
      <4>3. /\ w \in RunnerState /\ w.at = R(r).at /\ w.form = next /\ w.seen = R(r).seen
            /\ w.created = R(r).created /\ w.gates = R(r).gates /\ w.out = NoOutcome(plan[next])
        <5>1. NoOutcome(plan[next]) \in Outs /\ next \in Nat \ {0}
          BY <1>1, <4>2, NoOutcomeFits
        <5> HIDE DEF next
        <5>. QED  BY <1>1, <5>1 DEF RunnerState
      <4> HIDE DEF w
      <4>4. Ahead(w)
        <5>1. \A i \in 1..(w.form - 1) : Complete(i)
          BY <1>1, <3>2, <4>3
        <5>. QED  BY <4>2, <4>3, <5>1, NoOutcomeFits DEF Ahead, Good
      <4>5. Sound(w)
        BY <1>1, <4>2, <4>3, <4>4 DEF Sound, Heard
      <4>. QED  BY <1>1, <1>2, <4>1, <4>3, <4>5, RunnerAlone
    <3>. QED  BY <3>3, <3>4
  <2>. QED  BY <2>2, <2>3
<1>. QED  BY <1>3, <1>4, <1>5, <1>6

(* What a form that has its value rests on.                                *)
LEMMA ParallelFacts ==
  ASSUME IInv, NEW r \in Run, R(r).at = "forms", TheForm(r).kind = "parallel"
  PROVE  /\ ParallelResult(r) = "value" => Satisfied(R(r).form)
         /\ ParallelResult(r) = "parked" => R(r).gates # {}
         /\ ParallelResult(r) = "short" => ~Answered(QuorumGate(r), R(r).seen, {"proceed"})
         /\ ParallelResult(r) \in {"none", "value", "parked", "short", "error"}
<1> DEFINE f == TheForm(r)
           A == {n \in f.agents : art[n] # "none"}
           B == {n \in f.agents : R(r).out[n] \in Good}
<1>1. /\ R(r) \in RunnerState /\ Ahead(R(r)) /\ Heard(R(r)) /\ R(r).form \in 1..Len(plan)
      /\ f \in Form /\ f = plan[R(r).form]
  BY PlanShape DEF IInv, Types, RunsSound, R, Sound, TheForm
<1>2. /\ f.agents \subseteq Agent /\ f.quorum \in 1..Cardinality(f.agents)
      /\ Branches(f) = f.agents /\ IsFiniteSet(f.agents)
  <2>1. Branches(f) = f.agents
    BY DEF Branches
  <2>. QED  BY <1>1, <2>1, BranchesFit DEF Form
<1>3. \A n \in f.agents : R(r).out[n] \in Good => art[n] # "none"
  BY <1>1, <1>2 DEF Ahead, Good
<1>4. /\ Cardinality(B) <= Cardinality(A) /\ Cardinality(f.agents) \in Nat
      /\ Cardinality(A) \in Nat /\ Cardinality(B) \in Nat
  <2>1. B \subseteq A /\ A \subseteq f.agents
    BY <1>3
  <2>. QED  BY <1>2, <2>1, FS_Subset, FS_CardinalityType
<1>5. Count(r, Good) = Cardinality(B)
  BY <1>2 DEF Count
<1>6. Outcomes(r) \subseteq Good => B = f.agents
  BY <1>2 DEF Outcomes
<1>7. ASSUME Cardinality(B) >= f.quorum PROVE Satisfied(R(r).form)
  <2>1. Cardinality(A) >= f.quorum
    BY <1>2, <1>4, <1>7
  <2>. QED  BY <1>1, <2>1 DEF Satisfied
<1>8. ASSUME Answered(QuorumGate(r), R(r).seen, {"proceed"}) PROVE Satisfied(R(r).form)
  <2>1. Accepted("quorum", R(r).form)
    BY <1>1, <1>8, AnsweredAccepted DEF QuorumGate, IInv
  <2>. QED  BY <1>1, <2>1 DEF Satisfied
<1>9. ASSUME ParallelResult(r) = "value" PROVE Satisfied(R(r).form)
  <2>1. CASE IsQuorum(f)
    BY <1>5, <1>7, <1>8, <1>9, <2>1 DEF ParallelResult
  <2>2. CASE ~IsQuorum(f)
    <3>1. Outcomes(r) \subseteq Good
      BY <1>9, <2>2 DEF ParallelResult
    <3>2. Cardinality(B) >= f.quorum
      <4>1. B = f.agents
        BY <1>6, <3>1
      <4> HIDE DEF B, f
      <4>. QED  BY <1>2, <1>4, <4>1
    <3>. QED  BY <1>7, <3>2
  <2>. QED  BY <2>1, <2>2
<1>10. ASSUME ParallelResult(r) = "parked" PROVE R(r).gates # {}
  <2>1. "raised" \notin Outcomes(r) /\ "none" \notin Outcomes(r) /\ ~(Outcomes(r) \subseteq Good)
    BY <1>10 DEF ParallelResult, Gathered
  <2>2. PICK n \in Branches(f) : R(r).out[n] \notin Good \cup {"raised", "none"}
    BY <2>1 DEF Outcomes
  <2>3. R(r).out[n] \in {"exhausted", "overdue"}
    BY <1>1, <2>2 DEF Ahead, Outcome, Good
  <2>. QED  BY <1>1, <2>2, <2>3 DEF Ahead
<1>11. ASSUME ParallelResult(r) = "short" PROVE ~Answered(QuorumGate(r), R(r).seen, {"proceed"})
  BY <1>11 DEF ParallelResult
<1>12. ParallelResult(r) \in {"none", "value", "parked", "short", "error"}
  BY DEF ParallelResult
<1>. QED  BY <1>9, <1>10, <1>11, <1>12

(* LoopResult gives each verdict for its reason.                           *)
LEMMA LoopFacts ==
  ASSUME IInv, NEW r \in Run, R(r).at = "forms", TheForm(r).kind = "loop"
  PROVE  /\ LoopResult(r) = "value" => Satisfied(R(r).form)
         /\ LoopResult(r) = "parked" => R(r).gates # {}
         /\ LoopResult(r) = "short" => ~Answered(LoopGate(r), R(r).seen, {"proceed"})
         /\ LoopResult(r) \in {"none", "value", "parked", "short", "error"}
<1> DEFINE f == TheForm(r)
<1>1. /\ R(r) \in RunnerState /\ Ahead(R(r)) /\ Heard(R(r)) /\ R(r).form \in 1..Len(plan)
      /\ f \in Form /\ f = plan[R(r).form]
  BY PlanShape DEF IInv, Types, RunsSound, R, Sound, TheForm
<1>2. Branches(f) = Range(f.agents)
  BY DEF Branches
<1>3. ASSUME "passing" \in Outcomes(r) PROVE Satisfied(R(r).form)
  <2>1. PICK n \in Branches(f) : R(r).out[n] = "passing"
    BY <1>3 DEF Outcomes
  <2>2. art[n] = "passing"
    BY <1>1, <2>1 DEF Ahead, Good
  <2>. QED  BY <1>1, <1>2, <2>1, <2>2 DEF Satisfied
<1>4. ASSUME Answered(LoopGate(r), R(r).seen, {"proceed"}) PROVE Satisfied(R(r).form)
  <2>1. Accepted("loop", R(r).form)
    BY <1>1, <1>4, AnsweredAccepted DEF LoopGate, IInv
  <2>. QED  BY <1>1, <2>1 DEF Satisfied
<1>5. LoopResult(r) = "value" => Satisfied(R(r).form)
  BY <1>3, <1>4 DEF LoopResult
<1>6. ASSUME LoopResult(r) = "parked" PROVE R(r).gates # {}
  <2>1. Outcomes(r) \cap {"exhausted", "overdue"} # {}
    BY <1>6 DEF LoopResult
  <2>2. PICK n \in Branches(f) : R(r).out[n] \in {"exhausted", "overdue"}
    BY <2>1 DEF Outcomes
  <2>. QED  BY <1>1, <2>2 DEF Ahead
<1>7. ASSUME LoopResult(r) = "short" PROVE ~Answered(LoopGate(r), R(r).seen, {"proceed"})
  BY <1>7 DEF LoopResult
<1>8. LoopResult(r) \in {"none", "value", "parked", "short", "error"}
  BY DEF LoopResult
<1>. QED  BY <1>5, <1>6, <1>7, <1>8

(* The end of a parallel form, a loop or a merge keeps the invariant.      *)
LEMMA FormsKeep ==
  ASSUME IInv, NEW r \in Run, ParallelEnds(r) \/ LoopEnds(r) \/ MergeEnds(r)
  PROVE  IInv'
<1>1. UNCHANGED <<plan, art, answers, open, meta, clock, begun, verb, verbs>> /\ R(r).at = "forms"
  BY DEF ParallelEnds, LoopEnds, MergeEnds, overseer
<1>2. R(r).form \in Nat
  BY <1>1 DEF IInv, Types, RunnerState, R
<1>3. QuorumGate(r) \in GateSet /\ LoopGate(r) \in GateSet /\ Gate("merge", R(r).form) \in GateSet
  BY <1>2, GateFacts DEF QuorumGate, LoopGate, GateKind
<1>4. CASE ParallelEnds(r)
  BY <1>1, <1>3, <1>4, FormEndsKeeps, ParallelFacts DEF ParallelEnds
<1>5. CASE LoopEnds(r)
  BY <1>1, <1>3, <1>5, FormEndsKeeps, LoopFacts DEF LoopEnds
<1>6. CASE MergeEnds(r)
  <2>1. PICK result \in {"value", "short", "error"} : FormEnds(r, result, Gate("merge", R(r).form))
    BY <1>6 DEF MergeEnds
  <2>2. ~Answered(Gate("merge", R(r).form), R(r).seen, {"proceed"})
    BY GateFacts, NotProceedable DEF IInv, Types, R
  <2>3. Satisfied(R(r).form)
    BY <1>6 DEF MergeEnds, TheForm, Satisfied
  <2>. QED  BY <1>1, <1>3, <2>1, <2>2, <2>3, FormEndsKeeps
<1>. QED  BY <1>4, <1>5, <1>6

(* An agent that ends leaves its artifact in the journal, or a gate.       *)
LEMMA AgentKeeps ==
  ASSUME IInv, NEW r \in Run, NEW n \in Agent, AgentEnds(r, n)
  PROVE  IInv'
<1>1. PICK o \in (IF art[n] # "none" THEN {art[n]} ELSE Outcome) :
        /\ art' = [art EXCEPT ![n] = IF o \in Good THEN o ELSE @]
        /\ Update(r, [R(r) EXCEPT !.out[n] = o, !.gates = @ \cup GatesOf(n, o)])
  BY DEF AgentEnds
<1>2. /\ R(r).at = "forms" /\ n \in Branches(TheForm(r)) /\ R(r).out[n] = "none"
      /\ UNCHANGED <<plan, answers, open, meta, clock, begun, verb, verbs>>
  BY DEF AgentEnds, Turn, overseer
<1>3. /\ R(r) \in RunnerState /\ Sound(R(r)) /\ Ahead(R(r)) /\ R(r).created <= clock /\ Live(r)
      /\ TheForm(r) = plan[R(r).form] /\ R(r).form \in 1..Len(plan) /\ TheForm(r) \in Form
  BY <1>2, PlanShape DEF IInv, Types, RunsSound, Stamped, R, Sound, TheForm, Live
<1>4. o \in Outcome /\ (art[n] # "none" => o = art[n])
  BY <1>1 DEF IInv, Types, Good, Outcome
<1>5. /\ art' \in [Agent -> {"none"} \cup Good]
      /\ \A m \in Agent \ {n} : art'[m] = art[m]
      /\ art'[n] = IF o \in Good THEN o ELSE art[n]
  BY <1>1 DEF IInv, Types
<1>6. Grows /\ answers' \in Seq(Answer)
  <2>1. \A m \in Agent : art[m] # "none" => art'[m] = art[m]
    BY <1>4, <1>5
  <2>. QED  BY <1>2, <2>1 DEF Grows, IInv, Types
<1>7. GatesOf(n, o) \subseteq GateSet /\ (o \in {"exhausted", "overdue"} => GatesOf(n, o) # {})
      /\ \A g \in GatesOf(n, o) : "proceed" \notin Options(g)
  <2>1. CASE o = "exhausted"
    <3>1. GatesOf(n, o) = {Gate("validation", n)}
      BY <2>1 DEF GatesOf
    <3>. QED  BY <3>1, GateFacts
  <2>2. CASE o = "overdue"
    <3>1. GatesOf(n, o) = {Gate("deadline", n)}
      BY <2>2 DEF GatesOf
    <3>. QED  BY <3>1, GateFacts
  <2>3. CASE o \notin {"exhausted", "overdue"}
    <3>1. GatesOf(n, o) = {}
      BY <2>3 DEF GatesOf
    <3>. QED  BY <2>3, <3>1
  <2>. QED  BY <2>1, <2>2, <2>3
<1>8. PICK u \in RunnerState : u = R(r)
  BY <1>3
<1> DEFINE B == Branches(plan[u.form])
           out == [u.out EXCEPT ![n] = o]
           w == [u EXCEPT !.out = out, !.gates = u.gates \cup GatesOf(n, o)]
<1>9. /\ u.out \in [B -> {"none"} \cup Outcome] /\ n \in B /\ B \subseteq Agent
      /\ out \in [B -> {"none"} \cup Outcome] /\ out[n] = o
      /\ \A m \in B \ {n} : out[m] = u.out[m]
  BY <1>2, <1>3, <1>4, <1>8, BranchesFit DEF Ahead
<1>10. out \in Outs
  BY <1>9 DEF Outs
<1>11. Update(r, w)
  <2>1. w = [R(r) EXCEPT !.out[n] = o, !.gates = @ \cup GatesOf(n, o)]
    BY <1>8 DEF RunnerState
  <2>. QED  BY <1>1, <2>1
<1>12. /\ w \in RunnerState /\ w.at = u.at /\ w.form = u.form /\ w.seen = u.seen
       /\ w.created = u.created /\ w.gates = u.gates \cup GatesOf(n, o) /\ w.out = out
  <2> HIDE DEF out
  <2>. QED  BY <1>7, <1>8, <1>10 DEF RunnerState
<1> HIDE DEF w, out
<1>13. Sound(u) /\ Sound(u)' /\ u.at = "forms"
  BY <1>2, <1>3, <1>6, <1>8, SoundStays DEF IInv
<1>14. plan' = plan
  BY <1>2
<1>15. Ahead(w)'
  <2>1. \A i \in 1..(w.form - 1) : Complete(i)'
    BY <1>12, <1>13 DEF Sound, Ahead
  <2>2. ASSUME NEW m \in B
        PROVE  /\ out[m] \in Good => art'[m] = out[m]
               /\ out[m] \in {"exhausted", "overdue"} => w.gates # {}
    <3>1. CASE m = n
      BY <1>5, <1>7, <1>9, <1>12, <3>1
    <3>2. CASE m # n
      BY <1>9, <1>12, <1>13, <1>14, <2>2, <3>2 DEF Sound, Ahead
    <3>. QED  BY <3>1, <3>2
  <2>. QED  BY <1>9, <1>12, <1>14, <2>1, <2>2 DEF Ahead
<1>16. \A g \in w.gates : ~Answered(g, w.seen, {"proceed"})
  BY <1>7, <1>12, <1>13, NotProceedable DEF Sound
<1>17. Sound(w)'
  BY <1>12, <1>13, <1>15, <1>16 DEF Sound, Heard
<1>18. w.created <= clock /\ open' \subseteq GateSet
  BY <1>2, <1>3, <1>8, <1>12 DEF IInv, Types
<1>. QED  BY <1>2, <1>3, <1>5, <1>6, <1>11, <1>12, <1>17, <1>18, RunnerMoves

(* The look for a stop and the record of the open gates keep it.           *)
LEMMA CheckKeeps ==
  ASSUME IInv, NEW r \in Run, CheckSuperseded(r) \/ RecordOpenGates(r)
  PROVE  IInv'
<1>1. /\ R(r) \in RunnerState /\ Sound(R(r)) /\ R(r).created <= clock /\ R(r).gates \subseteq GateSet
      /\ open \subseteq GateSet
  BY DEF IInv, Types, RunsSound, Stamped, R, RunnerState
<1>2. CASE CheckSuperseded(r)
  <2>1. /\ UNCHANGED <<plan, art, answers, open, meta, clock, begun, verb, verbs>> /\ Live(r)
    BY <1>2 DEF CheckSuperseded, overseer, Live
  <2>2. CASE Superseded(r)
    <3>1. Update(r, Off)
      BY <1>2, <2>2 DEF CheckSuperseded
    <3>. QED  BY <1>1, <2>1, <3>1, RunnerAlone, OffFits, OffSound DEF IInv, Types
  <2>3. CASE ~Superseded(r)
    <3>1. PICK where \in {"fail", "record", "finish"} :
            /\ Leave(r, where, {})
            /\ where = "finish" => R(r).at = "ended" /\ R(r).gates = {}
      BY <1>2, <2>3 DEF CheckSuperseded
    <3>2. where = "finish" => AllComplete
      BY <1>1, <3>1 DEF Sound
    <3>. QED  BY <1>1, <2>1, <3>1, <3>2, LeaveKeeps DEF Stage
  <2>. QED  BY <2>2, <2>3
<1>3. CASE RecordOpenGates(r)
  <2>1. /\ UNCHANGED <<plan, art, answers, meta, clock, begun, verb, verbs>> /\ Live(r)
        /\ Leave(r, "block", {}) /\ open' = open \cup R(r).gates
    BY <1>3 DEF RecordOpenGates, overseer, Live
  <2>. QED  BY <1>1, <2>1, LeaveKeeps DEF Stage
<1>. QED  BY <1>2, <1>3

-----------------------------------------------------------------------------
(* Handles and their timestamps.                                           *)
LEMMA SaveFacts ==
  ASSUME IInv, NEW status \in Status, NEW created \in Nat, created <= clock + 1,
         status \in Terminal => created <= clock, status = "DONE" => AllComplete,
         Save(Handle(status, created)), Grows, answers' \in Seq(Answer)
  PROVE  /\ meta' \in [status : Status, created : Nat, updated : Nat]
         /\ clock' = clock + 1 /\ clock' \in Nat
         /\ meta'.created <= meta'.updated /\ meta'.updated <= clock'
         /\ meta'.status \in Terminal => meta'.created < meta'.updated
         /\ Done'
         /\ \/ meta' = meta /\ Kept(Handle(status, created))
            \/ /\ meta'.status = status /\ meta'.created = created /\ meta'.updated = clock + 1
               /\ ~Kept(Handle(status, created))
<1>1. /\ meta \in [status : Status, created : Nat, updated : Nat] /\ clock \in Nat
      /\ meta.created <= meta.updated /\ meta.updated <= clock
      /\ meta.status \in Terminal => meta.created < meta.updated
  BY DEF IInv, Types, Stamped
<1> DEFINE h == Handle(status, created)
<1>2. /\ h \in [status : Status, created : Nat, updated : Nat]
      /\ h.status = status /\ h.created = created /\ h.updated = clock + 1
  BY <1>1 DEF Handle
<1>3. clock' = clock + 1 /\ (IF Kept(h) THEN meta' = meta ELSE meta' = h)
  BY DEF Save
<1> HIDE DEF h
<1>4. AllComplete => AllComplete'
  BY CompleteStays DEF IInv, AllComplete, Grows
<1>5. Done'
  BY <1>2, <1>3, <1>4 DEF IInv, Done
<1>. QED  BY <1>1, <1>2, <1>3, <1>5 DEF h

(* A handle is written: by a process that goes on, or by the overseer.     *)
Fits(q) ==
  /\ R(q)'.created <= clock + 1
  /\ Live(q)' => q <= begun'
  /\ Sound(runner[q])'

(* A write of meta.json keeps it: the run is complete if it says DONE, and *)
(* the new time stamp is later than all others.                            *)
LEMMA SaveKeeps ==
  ASSUME IInv, NEW status \in Status, NEW created \in Nat, created <= clock + 1,
         status \in Terminal => created <= clock, status = "DONE" => AllComplete,
         Save(Handle(status, created)), UNCHANGED <<plan, art, answers, open>>,
         runner' \in [Run -> RunnerState], \A q \in Run : runner'[q] = runner[q] \/ Fits(q),
         begun' \in begun..MaxRuns, verb' \in {verb, None}, verbs' = verbs
  PROVE  IInv'
<1>1. Grows /\ answers' \in Seq(Answer)
  BY Unmoved DEF IInv
<1>2. /\ meta' \in [status : Status, created : Nat, updated : Nat]
      /\ clock' = clock + 1 /\ clock' \in Nat
      /\ meta'.created <= meta'.updated /\ meta'.updated <= clock'
      /\ meta'.status \in Terminal => meta'.created < meta'.updated
      /\ Done'
  BY <1>1, SaveFacts
<1>3. Types'
  <2>1. begun' \in 0..MaxRuns /\ begun <= begun' /\ begun \in Nat /\ begun' \in Nat
    BY Bounds DEF IInv, Types
  <2>2. ASSUME NEW q \in Run, Live(q)' PROVE q <= begun'
    <3>1. CASE runner'[q] = runner[q]
      <4>1. q \in Nat /\ q <= begun
        BY <2>2, <3>1 DEF IInv, Types, Live, R, Run
      <4>. QED  BY <2>1, <4>1
    <3>. QED  BY <2>2, <3>1 DEF Fits
  <2>3. verb' \in VerbState
    BY DEF IInv, Types, VerbState
  <2>. QED  BY <1>1, <1>2, <2>1, <2>2, <2>3 DEF IInv, Types
<1>4. Stamped'
  <2>1. \A q \in Run : R(q)'.created <= clock'
    <3>1. \A q \in Run : runner[q].created \in Nat /\ runner[q].created <= clock
      BY DEF IInv, Types, Stamped, R, RunnerState
    <3>2. clock \in Nat
      BY DEF IInv, Types
    <3>. QED  BY <1>2, <3>1, <3>2 DEF R, Fits
  <2>2. verb'.kind \in {"stop", "stopped"} => verb'.created <= clock'
    <3>1. clock \in Nat /\ None.kind = "none"
      BY DEF IInv, Types, None
    <3>2. verb.kind \in {"stop", "stopped"} => verb.created \in Nat /\ verb.created <= clock
      BY <3>1 DEF IInv, Types, Stamped, VerbState
    <3>. QED  BY <1>2, <3>1, <3>2
  <2>. QED  BY <1>2, <2>1, <2>2 DEF Stamped
<1>5. RunsSound'
  <2> SUFFICES ASSUME NEW q \in Run, runner'[q] = runner[q] PROVE Sound(runner[q])'
    BY DEF RunsSound, Fits
  <2>1. PICK u \in RunnerState : u = runner[q]
    BY DEF IInv, Types
  <2>2. Sound(u)'
    BY <1>1, <2>1, SoundStays DEF IInv, RunsSound
  <2>. QED  BY <2>1, <2>2 DEF Sound, Heard, Ahead
<1>. QED  BY <1>2, <1>3, <1>4, <1>5 DEF IInv

(* A process writes its handle and goes on as w.                           *)
Saves(r, w, status, created) ==
  runner' = [runner EXCEPT ![r] = w] /\ Save(Handle(status, created))

(* A process that saves a handle and goes on, or ends, keeps it.           *)
LEMMA SaverKeeps ==
  ASSUME IInv, NEW r \in Run, NEW w \in RunnerState,
         Sound(w)', NEW status \in Status, NEW created \in Nat, created <= clock + 1,
         w.created <= clock + 1,
         status \in Terminal => created <= clock, status = "DONE" => AllComplete,
         Saves(r, w, status, created), UNCHANGED <<plan, art, answers, open>>,
         begun' \in begun..MaxRuns, w.at # "off" => r <= begun',
         verb' \in {verb, None}, verbs' = verbs
  PROVE  IInv'
<1>1. /\ runner' \in [Run -> RunnerState] /\ runner'[r] = w
      /\ \A q \in Run \ {r} : runner'[q] = runner[q]
  BY DEF IInv, Types, Saves
<1>2. Fits(r)
  <2>1. Sound(runner[r])'
    BY <1>1 DEF Sound, Heard, Ahead
  <2>. QED  BY <1>1, <2>1 DEF Fits, R, Live
<1>3. \A q \in Run : runner'[q] = runner[q] \/ Fits(q)
  BY <1>1, <1>2
<1>4. Save(Handle(status, created))
  BY DEF Saves
<1>. QED  BY <1>1, <1>3, <1>4, SaveKeeps

(* The save of RUNNING keeps it.                                           *)
LEMMA SetRunningKeeps ==
  ASSUME IInv, NEW r \in Run, SetRunning(r)
  PROVE  IInv'
<1>1. PICK u \in RunnerState : u = R(r)
  BY DEF IInv, Types, R
<1>2. /\ u.at = "pending" /\ Sound(u) /\ u.created \in Nat /\ u.created <= clock /\ clock \in Nat
      /\ UNCHANGED <<plan, art, answers, open, begun, verb, verbs>>
      /\ r <= begun
  BY <1>1 DEF SetRunning, IInv, Types, RunsSound, Stamped, R, RunnerState, overseer, Live
<1>3. u.gates = {} /\ u.form = 1 /\ plan[1] \in Form /\ Len(plan) \in Nat \ {0}
  BY <1>2, PlanShape DEF Sound, IInv, Types
<1>4. PICK a \in Seq(Answer) : a = answers
  BY DEF IInv, Types
<1>5. PICK out \in Outs : out = NoOutcome(plan[1])
  BY <1>3, NoOutcomeFits
<1> DEFINE v == [u EXCEPT !.at = "forms", !.seen = a, !.out = out]
<1>v. /\ v \in RunnerState /\ v.at = "forms" /\ v.form = 1 /\ v.gates = {}
      /\ v.created = u.created /\ v.seen = answers /\ v.out = NoOutcome(plan[1])
  BY <1>3, <1>4, <1>5 DEF RunnerState, Stage
<1>6. runner' = [runner EXCEPT ![r] = v]
  BY <1>1, <1>4, <1>5 DEF SetRunning, Update
<1> HIDE DEF v
<1>7. Grows /\ answers' \in Seq(Answer)
  BY <1>2, Unmoved DEF IInv
<1>8. Sound(v)
  <2>1. Ahead(v)
    BY <1>3, <1>v, NoOutcomeFits DEF Ahead, Good
  <2>2. Len(answers) \in Nat
    BY DEF IInv, Types
  <2>. QED  BY <1>3, <1>v, <2>1, <2>2 DEF Sound, Heard
<1>9. Sound(v)'
  BY <1>7, <1>8, <1>v, SoundStays DEF IInv
<1>10. Saves(r, v, "RUNNING", u.created)
  BY <1>1, <1>6 DEF SetRunning, Saves
<1>11. begun' \in begun..MaxRuns /\ r <= begun'
  BY <1>2, Bounds DEF IInv, Types
<1>12. "RUNNING" \in Status /\ "RUNNING" \notin Terminal /\ u.created <= clock + 1
  BY <1>2 DEF Status, Terminal
<1>. QED  BY <1>2, <1>v, <1>9, <1>10, <1>11, <1>12, SaverKeeps

(* The save of the last status keeps it: DONE is written by a run that is  *)
(* past all its forms.                                                     *)
LEMMA FinishKeeps ==
  ASSUME IInv, NEW r \in Run, Finish(r)
  PROVE  IInv'
<1>1. PICK u \in RunnerState : u = R(r)
  BY DEF IInv, Types, R
<1>2. /\ u.at \in {"finish", "block", "fail"} /\ Sound(u) /\ u.created \in Nat /\ u.created <= clock
      /\ clock \in Nat /\ UNCHANGED <<plan, art, answers, open, begun, verb, verbs>>
      /\ runner' = [runner EXCEPT ![r] = Off]
  BY <1>1 DEF Finish, IInv, Types, RunsSound, Stamped, R, RunnerState, overseer, Update
<1>3. /\ FinalStatus(r) \in Status /\ (FinalStatus(r) = "DONE" => u.at = "finish")
  <2>1. CASE u.at = "finish"
    BY <1>1, <2>1 DEF FinalStatus, Status, Terminal
  <2>2. CASE u.at = "block"
    BY <1>1, <2>2 DEF FinalStatus, Status, Terminal
  <2>3. CASE u.at = "fail"
    BY <1>1, <2>3 DEF FinalStatus, Status, Terminal
  <2>. QED  BY <1>2, <2>1, <2>2, <2>3
<1>4. FinalStatus(r) = "DONE" => AllComplete
  BY <1>2, <1>3 DEF Sound
<1>5. Sound(Off)'
  <2>1. Grows /\ answers' \in Seq(Answer)
    BY <1>2, Unmoved DEF IInv
  <2>. QED  BY <2>1, SoundStays, OffFits, OffSound DEF IInv
<1>6. PICK status \in Status : status = FinalStatus(r)
  BY <1>3
<1>7. Saves(r, Off, status, u.created) /\ begun' \in begun..MaxRuns
  BY <1>1, <1>2, <1>6, Bounds DEF Finish, IInv, Types, Saves
<1>. QED  BY <1>2, <1>4, <1>5, <1>6, <1>7, OffFits, SaverKeeps

(* A new process: nothing is later than the clock, so its handle is saved. *)
LEMMA BeginKeeps ==
  ASSUME IInv, Begin, UNCHANGED <<plan, art, answers, open, verbs>>, verb' \in {verb, None}
  PROVE  IInv'
<1> DEFINE r == begun + 1
           w == [Off EXCEPT !.at = "pending", !.created = clock + 1]
<1>1. /\ begun \in Nat /\ r \in Run /\ begun' = r /\ begun' \in begun..MaxRuns /\ clock \in Nat
      /\ runner' = [runner EXCEPT ![r] = w] /\ Save(Handle("PENDING", clock + 1))
  BY Bounds DEF Begin, IInv, Types, Run
<1>2. PICK c \in Nat : c = clock + 1
  BY <1>1
<1> DEFINE v == [Off EXCEPT !.at = "pending", !.created = c]
<1>3. /\ v \in RunnerState /\ v = w /\ v.at = "pending" /\ v.gates = {} /\ v.form = 1
      /\ v.seen = <<>> /\ v.created = c
  BY <1>2, OffFits DEF RunnerState, Stage
<1> HIDE DEF v
<1>4. Sound(v)
  <2>1. Len(plan) \in Nat \ {0} /\ Len(answers) \in Nat
    BY PlanShape DEF IInv, Types
  <2>. QED  BY <1>3, <2>1 DEF Sound, Heard
<1>5. Sound(v)'
  <2>1. Grows /\ answers' \in Seq(Answer)
    BY Unmoved DEF IInv
  <2>. QED  BY <1>3, <1>4, <2>1, SoundStays DEF IInv
<1>6. Saves(r, v, "PENDING", c) /\ r <= begun' /\ c <= clock + 1 /\ v.created <= clock + 1
  BY <1>1, <1>2, <1>3 DEF Saves
<1> HIDE DEF w, r
<1>7. "PENDING" \in Status /\ "PENDING" \notin Terminal /\ "PENDING" # "DONE"
  BY DEF Status, Terminal
<1>. QED  BY <1>1, <1>2, <1>3, <1>5, <1>6, <1>7, SaverKeeps

-----------------------------------------------------------------------------
(* The overseer's verbs.                                                   *)
LEMMA VerbKeeps ==
  ASSUME IInv, UNCHANGED <<plan, art, answers, meta, clock, runner, begun>>,
         open' \subseteq GateSet, verb' \in VerbState, verbs' \in 0..MaxVerbs[plan],
         verb'.kind \in {"stop", "stopped"} => verb'.created <= clock
  PROVE  IInv'
<1>1. Types'
  BY DEF IInv, Types, Live, R
<1>2. Stamped'
  BY DEF IInv, Stamped, R
<1>3. RunsSound'
  <2> SUFFICES ASSUME NEW q \in Run PROVE Sound(runner[q])'
    BY DEF RunsSound
  <2>1. PICK u \in RunnerState : u = runner[q]
    BY DEF IInv, Types
  <2>2. Sound(u)'
    BY <2>1, Unmoved, SoundStays DEF IInv, RunsSound
  <2>. QED  BY <2>1, <2>2 DEF Sound, Heard, Ahead
<1>4. Done'
  BY Unmoved, CompleteStays DEF IInv, Done, AllComplete
<1>. QED  BY <1>1, <1>2, <1>3, <1>4 DEF IInv

(* An answer that is journaled keeps what the runs have read a prefix.     *)
LEMMA RecordKeeps ==
  ASSUME IInv, NEW g \in open, NEW o \in Options(g), RecordAnswer(g, o)
  PROVE  IInv'
<1>1. /\ g \in GateSet /\ open \subseteq GateSet
      /\ UNCHANGED <<plan, art, open, meta, clock, runner, begun>>
      /\ answers' = Append(answers, [gate |-> g, option |-> o])
      /\ verb' = [kind |-> "answer", gate |-> g, option |-> o, rest |-> open \ {g}]
      /\ verbs' = verbs + 1 /\ verbs < MaxVerbs[plan]
  BY DEF IInv, Types, RecordAnswer, Verb
<1>2. o \in Option
  <2>1. g[1] \in GateKind
    BY <1>1 DEF GateSet
  <2>. QED  BY <2>1 DEF Options, Option
<1>3. [gate |-> g, option |-> o] \in Answer
  BY <1>1, <1>2 DEF Answer
<1>4. PICK a \in Answer : a = [gate |-> g, option |-> o]
  BY <1>3
<1>5. Grows /\ answers' \in Seq(Answer)
  <2>1. answers \in Seq(Answer) /\ answers' = Append(answers, a)
    BY <1>1, <1>4 DEF IInv, Types
  <2>2. /\ answers' \in Seq(Answer) /\ Len(answers) \in Nat /\ Len(answers') = Len(answers) + 1
        /\ \A i \in 1..Len(answers) : answers'[i] = answers[i]
    BY <2>1
  <2>. QED  BY <1>1, <2>2 DEF Grows
<1>6. verb' \in VerbState /\ verb'.kind = "answer"
  BY <1>1, <1>2 DEF VerbState
<1>7. verbs' \in 0..MaxVerbs[plan]
  <2>1. verbs \in 0..MaxVerbs[plan] /\ MaxVerbs[plan] \in Nat
    BY Bounds DEF IInv, Types
  <2>. QED  BY <1>1, <2>1
<1>8. Types'
  BY <1>1, <1>5, <1>6, <1>7 DEF IInv, Types, Live, R
<1>9. Stamped'
  BY <1>1, <1>6 DEF IInv, Stamped, R
<1>10. RunsSound'
  <2> SUFFICES ASSUME NEW q \in Run PROVE Sound(runner[q])'
    BY DEF RunsSound
  <2>1. PICK u \in RunnerState : u = runner[q]
    BY DEF IInv, Types
  <2>2. Sound(u)'
    BY <1>5, <2>1, SoundStays DEF IInv, RunsSound
  <2>. QED  BY <1>1, <2>1, <2>2 DEF Sound, Heard, Ahead
<1>11. Done'
  BY <1>1, <1>5, CompleteStays DEF IInv, Done, AllComplete
<1>. QED  BY <1>8, <1>9, <1>10, <1>11 DEF IInv

(* A stop keeps the handle it read, which is not of the future.            *)
LEMMA StopKeeps ==
  ASSUME IInv, Stop
  PROVE  IInv'
<1>1. /\ UNCHANGED <<plan, art, answers, open, meta, clock, runner, begun>>
      /\ verb' = [kind |-> "stop", created |-> meta.created]
      /\ verbs' = verbs + 1 /\ verbs < MaxVerbs[plan]
  BY DEF Stop, Verb
<1>2. /\ meta.created \in Nat /\ meta.updated \in Nat /\ clock \in Nat
      /\ meta.created <= meta.updated /\ meta.updated <= clock
  BY DEF IInv, Types, Stamped
<1>3. verb' \in VerbState /\ verb'.created <= clock
  BY <1>1, <1>2 DEF VerbState
<1>4. verbs' \in 0..MaxVerbs[plan] /\ open' \subseteq GateSet
  <2>1. verbs \in 0..MaxVerbs[plan] /\ MaxVerbs[plan] \in Nat
    BY Bounds DEF IInv, Types
  <2>. QED  BY <1>1, <2>1 DEF IInv, Types
<1>. QED  BY <1>1, <1>3, <1>4, VerbKeeps

(* The verbs that only touch the queue of gates, or end.                   *)
LEMMA QueueKeeps ==
  ASSUME IInv, CloseGate \/ ClearOpenGates \/ ApplyRefused \/ KillVerb
  PROVE  IInv'
<1>1. /\ verb \in VerbState /\ open \subseteq GateSet /\ verbs \in 0..MaxVerbs[plan]
      /\ verb.kind \in {"stop", "stopped"} => verb.created <= clock
  BY DEF IInv, Types, Stamped
<1>2. CASE CloseGate
  <2>1. /\ verb.rest \subseteq GateSet /\ verb.gate \in GateSet /\ verb.option \in Option
    BY <1>1, <1>2 DEF CloseGate, VerbState, None
  <2>2. verb' \in VerbState /\ verb'.kind = "apply"
    BY <1>2, <2>1 DEF CloseGate, VerbState
  <2>. QED  BY <1>1, <1>2, <2>1, <2>2, VerbKeeps DEF CloseGate
<1>3. CASE ClearOpenGates
  <2>1. PICK c \in Nat : verb = [kind |-> "stop", created |-> c] /\ c <= clock
    BY <1>1, <1>3 DEF ClearOpenGates, VerbState, None
  <2>2. verb' = [kind |-> "stopped", created |-> c]
    BY <1>3, <2>1 DEF ClearOpenGates
  <2>3. verb' \in VerbState /\ verb'.created <= clock
    BY <2>1, <2>2 DEF VerbState
  <2>. QED  BY <1>1, <1>3, <2>3, VerbKeeps DEF ClearOpenGates
<1>4. CASE ApplyRefused \/ KillVerb
  <2>1. None \in VerbState /\ None.kind = "none"
    BY DEF VerbState, None
  <2>. QED  BY <1>1, <1>4, <2>1, VerbKeeps DEF ApplyRefused, KillVerb
<1>. QED  BY <1>2, <1>3, <1>4

(* The verbs that write the handle.                                        *)
LEMMA OverseerSaves ==
  ASSUME IInv, NEW status \in Status \ {"DONE"}, NEW created \in Nat, created <= clock,
         Save(Handle(status, created)), UNCHANGED <<plan, art, answers, open, runner, begun, verbs>>,
         verb' = None
  PROVE  IInv'
<1>1. /\ clock \in Nat /\ runner' \in [Run -> RunnerState] /\ begun \in 0..MaxRuns /\ MaxRuns \in Nat
      /\ \A q \in Run : runner'[q] = runner[q]
  BY Bounds DEF IInv, Types
<1>2. created <= clock + 1 /\ begun' \in begun..MaxRuns
  BY <1>1
<1>. QED  BY <1>1, <1>2, SaveKeeps

(* The saves of the overseer keep it: none of them writes DONE.            *)
LEMMA StatusKeeps ==
  ASSUME IInv, SaveStopped \/ ApplyStatus("abort", "ABORTED") \/ ApplyStatus("redirect", "BLOCKED")
  PROVE  IInv'
<1>1. /\ meta.created \in Nat /\ meta.updated \in Nat /\ clock \in Nat /\ meta.created <= clock
      /\ verb.kind = "stopped" => verb.created \in Nat /\ verb.created <= clock
  BY DEF IInv, Types, Stamped, VerbState, None
<1>2. {"ABORTED", "BLOCKED"} \subseteq Status \ {"DONE"}
  BY DEF Status, Terminal
<1>3. CASE SaveStopped
  BY <1>1, <1>2, <1>3, OverseerSaves DEF SaveStopped
<1>4. CASE ApplyStatus("abort", "ABORTED")
  BY <1>1, <1>2, <1>4, OverseerSaves DEF ApplyStatus
<1>5. CASE ApplyStatus("redirect", "BLOCKED")
  BY <1>1, <1>2, <1>5, OverseerSaves DEF ApplyStatus
<1>. QED  BY <1>3, <1>4, <1>5

-----------------------------------------------------------------------------
(* The initial states satisfy the invariant.                               *)
LEMMA InitIInv == Init => IInv
<1> SUFFICES ASSUME Init PROVE IInv
  OBVIOUS
<1>1. /\ plan \in Plans /\ MaxVerbs[plan] \in Nat /\ MaxRuns \in Nat
      /\ verb = None /\ None \in VerbState /\ None.kind = "none" /\ meta.status = "NONE"
      /\ "NONE" \in Status /\ "NONE" \notin Terminal
  BY Bounds DEF Init, VerbState, None, Status, Terminal
<1>2. \A r \in Run : runner[r] = Off
  BY DEF Init
<1>3. Types
  <2>1. runner \in [Run -> RunnerState] /\ \A r \in Run : ~Live(r)
    BY <1>2, OffFits DEF Init, Live, R
  <2>2. answers \in Seq(Answer)
    BY DEF Init
  <2>. QED  BY <1>1, <2>1, <2>2 DEF Init, Types
<1>4. Stamped
  BY <1>1, <1>2, OffFits DEF Init, Stamped, R
<1>5. RunsSound
  BY <1>2, <1>3, OffSound DEF RunsSound
<1>6. Done
  BY <1>1 DEF Done
<1>. QED  BY <1>3, <1>4, <1>5, <1>6 DEF IInv

(* Every step keeps the invariant, one lemma per action.                   *)
LEMMA NextKeeps == IInv /\ [Next]_vars => IInv'
<1> SUFFICES ASSUME IInv, [Next]_vars PROVE IInv'
  OBVIOUS
<1>1. CASE Resume
  BY <1>1, BeginKeeps DEF Resume, overseer
<1>2. CASE ApplyResume
  BY <1>2, BeginKeeps DEF ApplyResume
<1>3. CASE Stop
  BY <1>3, StopKeeps
<1>4. CASE \E g \in open : \E o \in Options(g) : RecordAnswer(g, o)
  BY <1>4, RecordKeeps
<1>5. CASE CloseGate \/ ClearOpenGates \/ ApplyRefused \/ KillVerb
  BY <1>5, QueueKeeps
<1>6. CASE SaveStopped \/ ApplyStatus("abort", "ABORTED") \/ ApplyStatus("redirect", "BLOCKED")
  BY <1>6, StatusKeeps
<1>7. CASE \E r \in Run : Works(r) \/ Kill(r)
  BY <1>7, SetRunningKeeps, AgentKeeps, FormsKeep, CheckKeeps, FinishKeeps, KillKeeps DEF Works
<1>8. CASE UNCHANGED vars
  <2>1. /\ UNCHANGED <<plan, art, answers, meta, clock, runner, begun>>
        /\ open' \subseteq GateSet /\ verb' \in VerbState /\ verbs' \in 0..MaxVerbs[plan]
        /\ verb'.kind \in {"stop", "stopped"} => verb'.created <= clock
    BY <1>8 DEF vars, IInv, Types, Stamped
  <2>. QED  BY <2>1, VerbKeeps
<1>. QED  BY <1>1, <1>2, <1>3, <1>4, <1>5, <1>6, <1>7, <1>8 DEF Next, Carries

(* The invariant gives DecisionsHold.                                      *)
LEMMA IInvDecides == IInv => DecisionsHold
<1> SUFFICES ASSUME IInv PROVE DecisionsHold
  OBVIOUS
<1>1. TypeOK
  <2>1. \A r \in Run : /\ R(r).at \in Stage /\ R(r).form \in 1..Len(plan)
                       /\ Live(r) => r <= begun
    BY DEF IInv, Types, RunsSound, Sound, R, RunnerState
  <2>2. verb.kind \in {"none", "answer", "apply", "stop", "stopped"}
    BY DEF IInv, Types, VerbState, None
  <2>3. \A g \in open : Options(g) # {}
    BY DEF Options
  <2>. QED  BY <2>1, <2>2, <2>3 DEF TypeOK, IInv, Types, Stamped, Status, Stage
<1>2. DoneMeansComplete
  <2>1. DOMAIN plan = 1..Len(plan)
    BY PlansWellFormed DEF IInv, Types
  <2>. QED  BY <2>1 DEF DoneMeansComplete, IInv, Done, AllComplete
<1>3. DecisionReplayed
  BY DEF DecisionReplayed, IInv, RunsSound, Sound, R
<1>. QED  BY <1>1, <1>2, <1>3 DEF DecisionsHold

(* The gates decide: a run is DONE (_save_workflow) only when every form   *)
(* has the results it asks for or the overseer has accepted to go on       *)
(* without, and a run that has read "proceed" does not open that gate      *)
(* again.  Runs may overlap, and be killed anywhere.                       *)
THEOREM GatesDecide == Spec => []DecisionsHold
BY InitIInv, NextKeeps, IInvDecides, PTL DEF Spec

-----------------------------------------------------------------------------
(* One process at a time.                                                  *)

\* What every step but Begin leaves so.
Steady ==
  /\ \A r \in Run : Live(r)' => Live(r) /\ R(r)'.created = R(r).created
  /\ meta'.created = meta.created
  /\ meta.status \in Terminal => meta' = meta

(* A save of the present run's handle does not replace a terminal status   *)
(* (Kept).                                                                 *)
LEMMA SteadySave ==
  ASSUME IInv, NEW status \in Status, Save(Handle(status, meta.created))
  PROVE  meta'.created = meta.created /\ (meta.status \in Terminal => meta' = meta)
<1>1. /\ meta \in [status : Status, created : Nat, updated : Nat]
      /\ meta.status \in Terminal => meta.created < meta.updated
  BY DEF IInv, Types, Stamped
<1>. QED  BY <1>1 DEF Save, Kept, Handle

(* The only process at work saves its own handle and adds gates only.      *)
LEMMA RunSteady ==
  ASSUME IInv, OneRun, NEW r \in Run, Works(r) \/ Kill(r)
  PROVE  Steady /\ Live(r) /\ verb' = verb /\ open \subseteq open'
<1>1. R(r) \in RunnerState /\ runner \in [Run -> RunnerState] /\ Off.at = "off"
  BY OffFits DEF IInv, Types, R
<1>2. Live(r) /\ verb' = verb /\ open \subseteq open'
  BY DEF Works, Kill, SetRunning, AgentEnds, ParallelEnds, LoopEnds, MergeEnds,
         CheckSuperseded, RecordOpenGates, Finish, overseer, Live
<1>3. ASSUME NEW w, Update(r, w), w.at = "off" \/ w.created = R(r).created
      PROVE  \A q \in Run : Live(q)' => Live(q) /\ R(q)'.created = R(q).created
  BY <1>1, <1>2, <1>3 DEF Update, Live, R
<1>4. CASE SetRunning(r) \/ Finish(r)
  <2>1. R(r).created = meta.created
    BY <1>2 DEF OneRun
  <2>2. PICK status \in Status : Save(Handle(status, meta.created))
    <3>1. CASE SetRunning(r)
      BY <2>1, <3>1 DEF SetRunning, Status
    <3>2. CASE Finish(r)
      <4>1. FinalStatus(r) \in Status
        <5>1. CASE R(r).at = "finish"
          BY <5>1 DEF FinalStatus, Status, Terminal
        <5>2. CASE R(r).at = "block"
          BY <5>2 DEF FinalStatus, Status, Terminal
        <5>3. CASE R(r).at = "fail"
          BY <5>3 DEF FinalStatus, Status, Terminal
        <5>. QED  BY <3>2, <5>1, <5>2, <5>3 DEF Finish
      <4>. QED  BY <2>1, <3>2, <4>1 DEF Finish
    <3>. QED  BY <1>4, <3>1, <3>2
  <2>3. PICK w : Update(r, w) /\ (w.at = "off" \/ w.created = R(r).created)
    <3>1. CASE SetRunning(r)
      <4> DEFINE w == [R(r) EXCEPT !.at = "forms", !.seen = answers, !.out = NoOutcome(plan[1])]
      <4>1. w.created = R(r).created
        BY <1>1 DEF RunnerState
      <4>2. Update(r, w)
        BY <3>1 DEF SetRunning
      <4>. QED  BY <4>1, <4>2
    <3>2. CASE Finish(r)
      BY <1>1, <3>2 DEF Finish
    <3>. QED  BY <1>4, <3>1, <3>2
  <2>. QED  BY <1>2, <1>3, <2>2, <2>3, SteadySave DEF Steady
<1>5. ASSUME meta' = meta, NEW w, Update(r, w), w.at = "off" \/ w.created = R(r).created PROVE Steady
  BY <1>3, <1>5 DEF Steady
<1>6. ASSUME meta' = meta, NEW where, NEW gates, Leave(r, where, gates) PROVE Steady
  <2> DEFINE w == [R(r) EXCEPT !.at = where, !.gates = @ \cup gates]
  <2>1. Update(r, w) /\ w.created = R(r).created
    BY <1>1, <1>6 DEF Leave, RunnerState
  <2>. QED  BY <1>5, <1>6, <2>1
<1>7. ASSUME meta' = meta, NEW gate,
             NEW result \in {"value", "parked", "short", "error"}, FormEnds(r, result, gate)
      PROVE  Steady
  <2>1. CASE result = "parked"
    BY <1>6, <1>7, <2>1 DEF FormEnds
  <2>2. CASE result = "short"
    BY <1>6, <1>7, <2>2 DEF FormEnds
  <2>3. CASE result = "error"
    BY <1>6, <1>7, <2>3 DEF FormEnds
  <2>4. CASE result = "value"
    <3> DEFINE w == [R(r) EXCEPT !.form = @ + 1, !.out = NoOutcome(plan[R(r).form + 1])]
    <3>1. Advance(r)
      BY <1>7, <2>4 DEF FormEnds
    <3>2. w.created = R(r).created
      BY <1>1 DEF RunnerState
    <3>3. CASE Update(r, w)
      BY <1>5, <1>7, <3>2, <3>3
    <3>. QED  BY <1>6, <1>7, <3>1, <3>3 DEF Advance
  <2>. QED  BY <2>1, <2>2, <2>3, <2>4
<1>8. CASE ParallelEnds(r) \/ LoopEnds(r) \/ MergeEnds(r)
  <2>1. CASE ParallelEnds(r)
    BY <1>2, <1>7, <2>1, ParallelFacts DEF ParallelEnds
  <2>2. CASE LoopEnds(r)
    BY <1>2, <1>7, <2>2, LoopFacts DEF LoopEnds
  <2>3. CASE MergeEnds(r)
    BY <1>2, <1>7, <2>3 DEF MergeEnds
  <2>. QED  BY <1>8, <2>1, <2>2, <2>3
<1>9. CASE \E n \in Agent : AgentEnds(r, n)
  <2>1. PICK n \in Agent : AgentEnds(r, n)
    BY <1>9
  <2>2. PICK o :
          Update(r, [R(r) EXCEPT !.out[n] = o, !.gates = @ \cup GatesOf(n, o)]) /\ meta' = meta
    BY <2>1 DEF AgentEnds
  <2> DEFINE w == [R(r) EXCEPT !.out[n] = o, !.gates = @ \cup GatesOf(n, o)]
  <2>3. w.created = R(r).created
    BY <1>1 DEF RunnerState
  <2>. QED  BY <1>2, <1>5, <2>2, <2>3
<1>10. CASE CheckSuperseded(r)
  BY <1>2, <1>1, <1>5, <1>6, <1>10 DEF CheckSuperseded
<1>11. CASE RecordOpenGates(r)
  BY <1>2, <1>6, <1>11 DEF RecordOpenGates
<1>12. CASE Kill(r)
  BY <1>2, <1>1, <1>5, <1>12 DEF Kill
<1>. QED  BY <1>2, <1>4, <1>8, <1>9, <1>10, <1>11, <1>12 DEF Works

(* The handle of a new process is the latest.                              *)
LEMMA BeginAlone ==
  ASSUME IInv, Idle, Begin
  PROVE  /\ \A q, r \in Run : Live(q)' /\ Live(r)' => q = r
         /\ \A r \in Run : Live(r)' => R(r)'.created = meta'.created
         /\ meta'.created > meta.updated
<1> DEFINE h == Handle("PENDING", clock + 1)
<1>1. /\ clock \in Nat /\ meta \in [status : Status, created : Nat, updated : Nat]
      /\ meta.updated <= clock /\ runner \in [Run -> RunnerState]
  BY DEF IInv, Types, Stamped
<1>2. meta'.created = clock + 1
  BY <1>1 DEF Begin, Save, Kept, Handle
<1>3. PICK w : w.created = clock + 1 /\ runner' = [runner EXCEPT ![begun + 1] = w]
  <2> DEFINE w == [Off EXCEPT !.at = "pending", !.created = clock + 1]
  <2>1. w.created = clock + 1
    BY OffFits DEF RunnerState
  <2>. QED  BY <2>1 DEF Begin
<1>4. \A q \in Run : Live(q)' => q = begun + 1 /\ R(q)'.created = clock + 1
  BY <1>1, <1>3 DEF Idle, Live, R
<1>. QED  BY <1>1, <1>2, <1>4

(* While the handle stays that of the present run, one process is at work. *)
LEMMA OneRunSteady ==
  ASSUME OneRun, Steady,
         verb'.kind \in {"stop", "stopped"} =>
           verb'.created = meta.created \/ (verb.kind \in {"stop", "stopped"} /\ verb'.created = verb.created),
         verb'.kind = "answer" => Idle /\ verb'.rest = open' \ {verb'.gate}
  PROVE  OneRun'
BY DEF OneRun, Steady, Idle

(* Every step keeps one process at work, and replaces a terminal status by *)
(* a later run only.                                                       *)
LEMMA NextOneRun ==
  ASSUME ~Overlapping, IInv, OneRun, Next
  PROVE  OneRun' /\ (Steady \/ meta'.created > meta.updated)
<1>1. None.kind = "none" /\ verb \in VerbState
  BY DEF None, IInv, Types
<1>2. CASE Resume \/ ApplyResume
  <2>1. Begin /\ verb' = None
    BY <1>2 DEF Resume, ApplyResume, overseer
  <2>2. Idle
    BY <2>1 DEF Begin
  <2>. QED  BY <1>1, <2>1, <2>2, BeginAlone DEF OneRun
<1>3. ASSUME runner' = runner, meta' = meta PROVE Steady
  BY <1>3 DEF Steady, R, Live
<1>4. CASE Stop
  <2>1. Steady /\ verb' = [kind |-> "stop", created |-> meta.created]
    BY <1>3, <1>4 DEF Stop, Verb
  <2>. QED  BY <2>1, OneRunSteady
<1>5. CASE \E g \in open : \E o \in Options(g) : RecordAnswer(g, o)
  <2>1. PICK g, o : /\ verb' = [kind |-> "answer", gate |-> g, option |-> o, rest |-> open \ {g}]
                    /\ Idle /\ runner' = runner /\ meta' = meta /\ open' = open
    BY <1>5 DEF RecordAnswer, Verb
  <2>. QED  BY <1>3, <2>1, OneRunSteady
<1>6. CASE CloseGate \/ ClearOpenGates \/ ApplyRefused \/ KillVerb
  <2>1. Steady
    BY <1>3, <1>6 DEF CloseGate, ClearOpenGates, ApplyRefused, KillVerb
  <2>2. verb'.kind \in {"none", "apply"}
        \/ (verb.kind = "stop" /\ verb'.kind = "stopped" /\ verb'.created = verb.created)
    <3>1. CASE ClearOpenGates
      <4>1. PICK c \in Nat : verb = [kind |-> "stop", created |-> c]
        BY <1>1, <3>1 DEF ClearOpenGates, VerbState, None
      <4>2. verb' = [kind |-> "stopped", created |-> c]
        BY <3>1, <4>1 DEF ClearOpenGates
      <4>. QED  BY <4>1, <4>2
    <3>. QED  BY <1>1, <1>6, <3>1 DEF CloseGate, ApplyRefused, KillVerb
  <2>. QED  BY <2>1, <2>2, OneRunSteady
<1>7. CASE SaveStopped \/ ApplyStatus("abort", "ABORTED") \/ ApplyStatus("redirect", "BLOCKED")
  <2>1. verb' = None /\ runner' = runner
    BY <1>7 DEF SaveStopped, ApplyStatus
  <2>2. PICK status \in Status : Save(Handle(status, meta.created))
    <3>1. CASE SaveStopped
      BY <3>1 DEF SaveStopped, OneRun, Status, Terminal
    <3>. QED  BY <1>7, <3>1 DEF ApplyStatus, Status, Terminal
  <2>3. Steady
    BY <2>1, <2>2, SteadySave DEF Steady, Live, R
  <2>. QED  BY <1>1, <2>1, <2>3, OneRunSteady
<1>8. CASE \E r \in Run : Works(r) \/ Kill(r)
  <2>1. PICK r \in Run : Works(r) \/ Kill(r)
    BY <1>8
  <2>2. Steady /\ Live(r) /\ verb' = verb
    BY <2>1, RunSteady
  <2>3. verb.kind # "answer"
    BY <2>2 DEF OneRun, Idle
  <2>. QED  BY <2>2, <2>3, OneRunSteady
<1>. QED  BY <1>2, <1>4, <1>5, <1>6, <1>7, <1>8 DEF Next, Carries

(* In the beginning no process is at work.                                 *)
LEMMA InitOneRun == Init => OneRun
BY OffFits DEF Init, OneRun, Live, R, None

(* Without overlapping runs both invariants hold throughout.               *)
LEMMA OneRunInvariant ==
  ASSUME ~Overlapping
  PROVE  Spec => [](IInv /\ OneRun)
<1>1. IInv /\ OneRun /\ [Next]_vars => IInv' /\ OneRun'
  <2> SUFFICES ASSUME IInv, OneRun, [Next]_vars PROVE OneRun'
    BY NextKeeps
  <2>1. CASE UNCHANGED vars
    BY <2>1 DEF vars, OneRun, Idle, Live, R
  <2>. QED  BY <2>1, NextOneRun
<1>. QED  BY <1>1, InitIInv, InitOneRun, PTL DEF Spec

(* A terminal status is only replaced by a run begun after it was written: *)
(* a run that unwinds, blocks or completes late (_save_workflow) does not  *)
(* undo a stop, an abort or a DONE, where runs do not overlap.             *)
THEOREM TerminalStays ==
  ASSUME ~Overlapping
  PROVE  Spec => TerminalSticks
<1>1. IInv /\ OneRun /\ [Next]_vars
        => [meta.status \in Terminal /\ meta'.status # meta.status
              => meta'.created > meta.updated]_vars
  BY NextOneRun DEF Steady
<1>. QED  BY <1>1, OneRunInvariant, PTL DEF Spec, TerminalSticks

(* A gate leaves the overseer's queue only by being answered or because    *)
(* the run is stopped: record_gate_answer writes back a queue it read      *)
(* before, and no run has added to it meanwhile.                           *)
THEOREM GatesStay ==
  ASSUME ~Overlapping
  PROVE  Spec => NoGateLost
<1>1. ASSUME IInv, OneRun, [Next]_vars
      PROVE  \A g \in open \ open' :
               \/ verb.kind = "stop"
               \/ verb.kind = "answer" /\ verb.gate = g
  <2>1. CASE CloseGate \/ ClearOpenGates
    <3>1. CASE CloseGate
      <4>1. verb.kind = "answer" /\ open' = open \ {verb.gate}
        BY <1>1, <3>1 DEF CloseGate, OneRun
      <4>. QED  BY <4>1
    <3>. QED  BY <2>1, <3>1 DEF ClearOpenGates
  <2>2. CASE \E r \in Run : Works(r) \/ Kill(r)
    BY <1>1, <2>2, RunSteady
  <2>. QED  BY <1>1, <2>1, <2>2
            DEF Next, Carries, Resume, Stop, KillVerb, RecordAnswer, ApplyResume, ApplyRefused,
                ApplyStatus, SaveStopped, vars
<1>2. IInv /\ OneRun /\ [Next]_vars
        => [\A g \in open \ open' :
             \/ verb.kind = "stop"
             \/ verb.kind = "answer" /\ verb.gate = g]_vars
  BY <1>1
<1>. QED  BY <1>2, OneRunInvariant, PTL DEF Spec, NoGateLost

===============================================================================
