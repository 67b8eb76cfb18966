------------------------------ MODULE Conductor ------------------------------
(***************************************************************************)
(* A conductor run and its overseer: doeff_conductor/workflow_runtime.py   *)
(* (the forms, their gates and parks), api.py (run_workflow,               *)
(* resume_workflow, answer_gate, stop_workflow) and overseer.py (the gate  *)
(* queue).  They share the files of the run's directory: meta.json with    *)
(* the status, run-state.json with the open gates, the journal of gate     *)
(* answers and the journaled artifacts.                                    *)
(*                                                                         *)
(* Runs and overseer verbs are processes of their own; an action is what   *)
(* one of them does between two accesses of those files, and each may be   *)
(* killed in between.  How artifacts are journaled and replayed is the     *)
(* matter of AgentReplay: here a journaled artifact is simply served.      *)
(***************************************************************************)
EXTENDS Naturals, Sequences, FiniteSets, Functions

CONSTANTS Agent,        \* the agent nodes
          Plans,        \* the workflows a run may have: sequences of forms
          Supervised,   \* those of them that run under the phase-checkpoints policy
          MaxRuns,      \* bound on the processes that run or resume
          MaxVerbs,     \* bound on the overseer's verbs, by plan
          Overlapping   \* TRUE when a run may be resumed while one is at work

(* A form is one phase of the workflow: a parallel form (an agent! is one  *)
(* of a single branch) [kind, agents, quorum], a loop whose bodies are its *)
(* agents in turn [kind, agents], or a merge! [kind].  The quorum of a     *)
(* form without one is the number of its branches.                         *)
Run == 1..MaxRuns
Terminal == {"DONE", "ERROR", "ABORTED"}
None == [kind |-> "none"]

(* The DSL refuses a quorum outside 1 .. the number of branches.           *)
Form ==
  {f \in [kind : {"parallel"}, agents : SUBSET Agent, quorum : Nat] :
     f.quorum \in 1..Cardinality(f.agents)}
  \cup [kind : {"loop"}, agents : Seq(Agent)] \cup [kind : {"merge"}]

ASSUME AgentsFinite == IsFiniteSet(Agent)
ASSUME PlansWellFormed ==
  /\ \A p \in Plans : Len(p) \in Nat \ {0} /\ p \in [1..Len(p) -> Form]
  /\ Supervised \subseteq Plans
ASSUME Bounds ==
  MaxRuns \in Nat /\ MaxVerbs \in [Plans -> Nat] /\ Overlapping \in BOOLEAN

VARIABLES
  plan,      \* the forms of this workflow
  art,       \* the journaled artifact of each agent: none, plain, or passing its loop
  answers,   \* gate-answer-journal.jsonl
  open,      \* run-state.json: the open gates
  meta,      \* meta.json: status, created_at, updated_at
  clock,     \* wall clock: the number of timestamps taken
  runner,    \* the processes of run_workflow, in the order they were started
  begun,     \* how many were
  verb,      \* the overseer's verb under way
  verbs      \* how many there have been

vars == <<plan, art, answers, open, meta, clock, runner, begun, verb, verbs>>
overseer == <<verb, verbs>>

-----------------------------------------------------------------------------
(* Gates: the node, the kind of exhaustion, and the options it offers.     *)

Gate(kind, node) == <<kind, node>>
Options(g) ==
  CASE g[1] = "validation" -> {"retry-agent", "redirect", "abort"}
    [] g[1] = "deadline"   -> {"extend", "redirect", "abort"}
    [] g[1] = "merge"      -> {"retry-merge", "abort"}
    [] g[1] = "checkpoint" -> {"proceed", "redirect", "abort"}
    [] OTHER               -> {"proceed", "abort"}    \* loop, quorum

(* latest_answers: the last answer of a gate is the one that counts.       *)
LatestAnswer(g, seen, i) ==
  seen[i].gate = g /\ \A j \in (i + 1)..Len(seen) : seen[j].gate # g
Answered(g, seen, options) ==
  \E i \in 1..Len(seen) : LatestAnswer(g, seen, i) /\ seen[i].option \in options

(* _save_workflow: a terminal handle written after the handle's incarnation *)
(* began is kept.                                                          *)
Kept_Bug(h) ==   \* mutant: no guard
  FALSE
Kept(h) ==
  meta.status \in Terminal /\ meta.created <= h.created /\ meta.updated > h.created
Handle(status, created) == [status |-> status, created |-> created, updated |-> clock + 1]
Save(h) == /\ meta' = IF Kept(h) THEN meta ELSE h
           /\ clock' = clock + 1

-----------------------------------------------------------------------------
(* The forms of a run *)

Off == [at |-> "off", created |-> 0, seen |-> <<>>, form |-> 1,
        out |-> [n \in {} |-> "none"], gates |-> {}]
R(r) == runner[r]
TheForm(r) == plan[R(r).form]
Update(r, new) == runner' = [runner EXCEPT ![r] = new]

Branches(f) == CASE f.kind = "parallel" -> f.agents
                 [] f.kind = "loop"     -> Range(f.agents)
                 [] OTHER               -> {}
NoOutcome(f) == [n \in Branches(f) |-> "none"]

(* The outcome of an agent! node: what Agent(task) yields or raises.       *)
Outcome == {"plain", "passing", "exhausted", "overdue", "raised"}
Good == {"plain", "passing"}

GatesOf(n, o) == CASE o = "exhausted" -> {Gate("validation", n)}
                   [] o = "overdue"   -> {Gate("deadline", n)}
                   [] OTHER           -> {}

(* The branches of a parallel form run side by side, the body of a loop    *)
(* goes round until its predicate is met.                                  *)
Turn(r, n) ==
  LET f == TheForm(r)
      out == R(r).out
  IN /\ out[n] = "none"
     /\ f.kind = "loop" =>
          \A i \in DOMAIN f.agents : f.agents[i] = n =>
            \A j \in 1..(i - 1) : out[f.agents[j]] = "plain"

Outcomes(r) == {R(r).out[n] : n \in Branches(TheForm(r))}
Count(r, set) == Cardinality({n \in Branches(TheForm(r)) : R(r).out[n] \in set})

IsQuorum(f) == f.kind = "parallel" /\ f.quorum < Cardinality(f.agents)

(* What the form evaluates to: nothing yet, a value, a park, or an error.  *)
(* A quorum form takes exceptions and parks for losses.                    *)
Gathered(r) == "none" \notin Outcomes(r)
QuorumGate(r) == Gate("quorum", R(r).form)
LoopGate(r) == Gate("loop", R(r).form)
CheckpointGate(r) == Gate("checkpoint", R(r).form)

ParallelResult(r) ==
  IF IsQuorum(TheForm(r))
  THEN IF ~Gathered(r) THEN "none"
       ELSE IF Count(r, Good) >= TheForm(r).quorum
               \/ Answered(QuorumGate(r), R(r).seen, {"proceed"}) THEN "value"
       ELSE "short"
  ELSE IF "raised" \in Outcomes(r) THEN "error"
       ELSE IF ~Gathered(r) THEN "none"
       ELSE IF Outcomes(r) \subseteq Good THEN "value"
       ELSE "parked"

LoopResult(r) ==
  IF "passing" \in Outcomes(r) THEN "value"
  ELSE IF "raised" \in Outcomes(r) THEN "error"
  ELSE IF Outcomes(r) \cap {"exhausted", "overdue"} # {} THEN "parked"
  ELSE IF ~Gathered(r) THEN "none"
  ELSE IF Answered(LoopGate(r), R(r).seen, {"proceed"}) THEN "value"
  ELSE "short"

-----------------------------------------------------------------------------
(* run_workflow *)

Live(r) == R(r).at # "off"
Idle == \A r \in Run : ~Live(r)

Init ==
  /\ plan \in Plans
  /\ art = [n \in Agent |-> "none"]
  /\ answers = <<>>
  /\ open = {}
  /\ meta = [status |-> "NONE", created |-> 0, updated |-> 0]
  /\ clock = 0
  /\ runner = [r \in Run |-> Off]
  /\ begun = 0
  /\ verb = None
  /\ verbs = 0

(* A process takes up the run: the handle it saves is created now.         *)
Begin ==
  /\ begun < MaxRuns
  /\ Overlapping \/ Idle
  /\ begun' = begun + 1
  /\ runner' = [runner EXCEPT ![begun + 1] = [Off EXCEPT !.at = "pending", !.created = clock + 1]]
  /\ Save(Handle("PENDING", clock + 1))

(* conductor run, and conductor resume later on.                           *)
Resume ==
  /\ verb = None
  /\ Begin
  /\ UNCHANGED <<plan, art, answers, open, overseer>>

(* The second save, and the answers the program is built with.             *)
SetRunning(r) ==
  /\ R(r).at = "pending"
  /\ Save(Handle("RUNNING", R(r).created))
  /\ Update(r, [R(r) EXCEPT !.at = "forms", !.seen = answers, !.out = NoOutcome(plan[1])])
  /\ UNCHANGED <<plan, art, answers, open, begun, overseer>>

(* An agent! node ends: a journaled artifact is served, otherwise a worker *)
(* answers, exhausts its attempts or its deadline, or raises.              *)
AgentEnds(r, n) ==
  /\ R(r).at = "forms"
  /\ n \in Branches(TheForm(r))
  /\ Turn(r, n)
  /\ \E o \in IF art[n] # "none" THEN {art[n]} ELSE Outcome :
       /\ o = "passing" => TheForm(r).kind = "loop"
       /\ art' = [art EXCEPT ![n] = IF o \in Good THEN o ELSE @]
       /\ Update(r, [R(r) EXCEPT !.out[n] = o, !.gates = @ \cup GatesOf(n, o)])
  /\ UNCHANGED <<plan, answers, open, meta, clock, begun, overseer>>

Leave(r, where, gates) == Update(r, [R(r) EXCEPT !.at = where, !.gates = @ \cup gates])

(* The form has its value: the next one runs, unless the phase is held at  *)
(* a checkpoint.                                                           *)
AtCheckpoint_Bug(r) ==   \* mutant: proceed is not looked up
  plan \in Supervised /\ ~Answered(CheckpointGate(r), R(r).seen, {"redirect"})
AtCheckpoint(r) ==
  plan \in Supervised /\ ~Answered(CheckpointGate(r), R(r).seen, {"proceed", "redirect"})
Advance(r) ==
  IF AtCheckpoint(r) THEN Leave(r, "ended", {CheckpointGate(r)})
  ELSE IF R(r).form = Len(plan) THEN Leave(r, "ended", {})
  ELSE Update(r, [R(r) EXCEPT !.form = @ + 1, !.out = NoOutcome(plan[R(r).form + 1])])

(* A value, a park, a park behind a gate of the form itself, or an error.  *)
FormEnds(r, result, gate) ==
  CASE result = "value"  -> Advance(r)
    [] result = "parked" -> Leave(r, "ended", {})
    [] result = "short"  -> Leave(r, "ended", {gate})
    [] result = "error"  -> Leave(r, "failing", {})

ParallelEnds(r) ==
  /\ R(r).at = "forms" /\ TheForm(r).kind = "parallel"
  /\ ParallelResult(r) # "none"
  /\ FormEnds(r, ParallelResult(r), QuorumGate(r))
  /\ UNCHANGED <<plan, art, answers, open, meta, clock, begun, overseer>>

LoopEnds(r) ==
  /\ R(r).at = "forms" /\ TheForm(r).kind = "loop"
  /\ LoopResult(r) # "none"
  /\ FormEnds(r, LoopResult(r), LoopGate(r))
  /\ UNCHANGED <<plan, art, answers, open, meta, clock, begun, overseer>>

MergeEnds(r) ==
  /\ R(r).at = "forms" /\ TheForm(r).kind = "merge"
  /\ \E result \in {"value", "short", "error"} :
       FormEnds(r, result, Gate("merge", R(r).form))
  /\ UNCHANGED <<plan, art, answers, open, meta, clock, begun, overseer>>

(* The program has ended: a terminal handle written meanwhile wins.        *)
Superseded(r) ==
  meta.status \in Terminal /\ meta.created <= R(r).created /\ meta.updated > R(r).created
CheckSuperseded(r) ==
  /\ R(r).at \in {"ended", "failing"}
  /\ IF Superseded(r) THEN Update(r, Off)
     ELSE IF R(r).at = "failing" THEN Leave(r, "fail", {})
     ELSE IF R(r).gates # {} THEN Leave(r, "record", {})
     ELSE Leave(r, "finish", {})
  /\ UNCHANGED <<plan, art, answers, open, meta, clock, begun, overseer>>

(* record_open_gates adds the gates of the run to those that are open.     *)
RecordOpenGates(r) ==
  /\ R(r).at = "record"
  /\ open' = open \cup R(r).gates
  /\ Leave(r, "block", {})
  /\ UNCHANGED <<plan, art, answers, meta, clock, begun, overseer>>

(* The last save of the run.                                               *)
FinalStatus(r) == CASE R(r).at = "finish" -> "DONE"
                    [] R(r).at = "block"  -> "BLOCKED"
                    [] R(r).at = "fail"   -> "ERROR"
Finish(r) ==
  /\ R(r).at \in {"finish", "block", "fail"}
  /\ Save(Handle(FinalStatus(r), R(r).created))
  /\ Update(r, Off)
  /\ UNCHANGED <<plan, art, answers, open, begun, overseer>>

(* The process is killed: its files stay as they are.                      *)
Kill(r) ==
  /\ Live(r)
  /\ Update(r, Off)
  /\ UNCHANGED <<plan, art, answers, open, meta, clock, begun, overseer>>

-----------------------------------------------------------------------------
(* The overseer's verbs *)

Verb(v) == verb = None /\ verbs < MaxVerbs[plan] /\ verbs' = verbs + 1 /\ verb' = v

(* record_gate_answer: the answer is journaled first; the queue read       *)
(* before is written back without the gate.                                *)
RecordAnswer(g, o) ==
  /\ Overlapping \/ Idle
  /\ g \in open /\ o \in Options(g)
  /\ Verb([kind |-> "answer", gate |-> g, option |-> o, rest |-> open \ {g}])
  /\ answers' = Append(answers, [gate |-> g, option |-> o])
  /\ UNCHANGED <<plan, art, open, meta, clock, runner, begun>>

CloseGate_Bug ==   \* mutant: the queue is emptied
  /\ verb.kind = "answer"
  /\ open' = {}
  /\ verb' = [kind |-> "apply", gate |-> verb.gate, option |-> verb.option]
  /\ UNCHANGED <<plan, art, answers, meta, clock, runner, begun, verbs>>
CloseGate ==
  /\ verb.kind = "answer"
  /\ open' = verb.rest
  /\ verb' = [kind |-> "apply", gate |-> verb.gate, option |-> verb.option]
  /\ UNCHANGED <<plan, art, answers, meta, clock, runner, begun, verbs>>

Applies(options) == verb.kind = "apply" /\ verb.option \in options

ApplyResume ==
  /\ Applies({"proceed", "extend", "retry-agent"})
  /\ Begin
  /\ verb' = None
  /\ UNCHANGED <<plan, art, answers, open, verbs>>

(* abort ends the run; redirect leaves it blocked until the snapshot has   *)
(* been edited and the run is resumed.                                     *)
ApplyStatus(option, status) ==
  /\ Applies({option})
  /\ Save(Handle(status, meta.created))
  /\ verb' = None
  /\ UNCHANGED <<plan, art, answers, open, runner, begun, verbs>>

(* Any other option is refused, after its answer has been journaled.       *)
ApplyRefused ==
  /\ Applies({"retry-merge"})
  /\ verb' = None
  /\ UNCHANGED <<plan, art, answers, open, meta, clock, runner, begun, verbs>>

(* stop_workflow reads the handle, cancels the sessions, empties the queue *)
(* and saves ABORTED.                                                      *)
Stop ==
  /\ meta.status # "NONE"
  /\ Verb([kind |-> "stop", created |-> meta.created])
  /\ UNCHANGED <<plan, art, answers, open, meta, clock, runner, begun>>

ClearOpenGates ==
  /\ verb.kind = "stop"
  /\ open' = {}
  /\ verb' = [verb EXCEPT !.kind = "stopped"]
  /\ UNCHANGED <<plan, art, answers, meta, clock, runner, begun, verbs>>

SaveStopped ==
  /\ verb.kind = "stopped"
  /\ Save(Handle("ABORTED", verb.created))
  /\ verb' = None
  /\ UNCHANGED <<plan, art, answers, open, runner, begun, verbs>>

KillVerb ==
  /\ verb # None
  /\ verb' = None
  /\ UNCHANGED <<plan, art, answers, open, meta, clock, runner, begun, verbs>>

Works(r) ==
  \/ SetRunning(r) \/ \E n \in Agent : AgentEnds(r, n)
  \/ ParallelEnds(r) \/ LoopEnds(r) \/ MergeEnds(r)
  \/ CheckSuperseded(r) \/ RecordOpenGates(r) \/ Finish(r)

Carries ==
  \/ CloseGate \/ ApplyResume \/ ApplyRefused
  \/ ApplyStatus("abort", "ABORTED") \/ ApplyStatus("redirect", "BLOCKED")
  \/ ClearOpenGates \/ SaveStopped

Next ==
  \/ Resume \/ Stop \/ Carries \/ KillVerb
  \/ \E g \in open : \E o \in Options(g) : RecordAnswer(g, o)
  \/ \E r \in Run : Works(r) \/ Kill(r)

Spec == Init /\ [][Next]_vars

-----------------------------------------------------------------------------
(* Properties *)

TypeOK ==
  /\ plan \in Plans
  /\ art \in [Agent -> {"none"} \cup Good]
  /\ meta.status \in {"NONE", "PENDING", "RUNNING", "BLOCKED"} \cup Terminal
  /\ meta.created <= meta.updated /\ meta.updated <= clock
  /\ begun \in 0..MaxRuns /\ verbs \in 0..MaxVerbs[plan]
  /\ \A r \in Run :
       /\ R(r).at \in {"off", "pending", "forms", "ended", "failing", "record",
                       "block", "finish", "fail"}
       /\ R(r).form \in 1..Len(plan)
       /\ Live(r) => r <= begun
  /\ verb.kind \in {"none", "answer", "apply", "stop", "stopped"}
  /\ \A g \in open : Options(g) # {}

(* A run is DONE only when each of its forms has what it asked for: a      *)
(* quorum of artifacts or the overseer's word that the shortfall is        *)
(* accepted, a loop that met its predicate or whose last state was         *)
(* accepted, a checkpoint that was answered.                               *)
Accepted(kind, i) ==
  \E a \in Range(answers) :
    a.gate = Gate(kind, i)
      /\ a.option \in {"proceed"} \cup (IF kind = "checkpoint" THEN {"redirect"} ELSE {})
Complete(i) ==
  LET f == plan[i] IN
  /\ f.kind = "parallel" =>
       \/ Cardinality({n \in f.agents : art[n] # "none"}) >= f.quorum
       \/ Accepted("quorum", i)
  /\ f.kind = "loop" =>
       (\E n \in Range(f.agents) : art[n] = "passing") \/ Accepted("loop", i)
  /\ plan \in Supervised => Accepted("checkpoint", i)
DoneMeansComplete == meta.status = "DONE" => \A i \in DOMAIN plan : Complete(i)

DecisionReplayed ==
  \A r \in Run : \A g \in R(r).gates : ~Answered(g, R(r).seen, {"proceed"})

(* The gates decide. A run is DONE only when every form has the results it *)
(* asks for or the overseer accepted to go on without, at every checkpoint *)
(* too; and an answer is part of the replay: a run that has read "proceed" *)
(* for a gate does not open that gate again.                               *)
DecisionsHold == TypeOK /\ DoneMeansComplete /\ DecisionReplayed

(* A terminal status is only replaced by a run that was begun after it     *)
(* was written: a run that unwinds, blocks or completes late does not undo *)
(* a stop, an abort or a DONE.                                             *)
TerminalSticks ==
  [][meta.status \in Terminal /\ meta'.status # meta.status
       => meta'.created > meta.updated]_vars

(* A gate leaves the overseer's queue only by being answered or because    *)
(* the run is stopped.                                                     *)
NoGateLost ==
  [][\A g \in open \ open' : \/ verb.kind = "stop"
                             \/ verb.kind = "answer" /\ verb.gate = g]_vars

=============================================================================
