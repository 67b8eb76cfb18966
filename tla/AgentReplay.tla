----------------------------- MODULE AgentReplay -----------------------------
(***************************************************************************)
(* The agent journal of a conductor run and the replay session that reads  *)
(* and extends it: doeff_conductor/journal.py (AgentJournal,               *)
(* AgentReplaySession) behind JournaledAgentHandler, called from one       *)
(* daemon thread per agent of a parallel form (handlers/utils.py).         *)
(*                                                                         *)
(* A run executes the stages of its workflow one after the other and the   *)
(* agents of a stage side by side.  The process may die at any moment and  *)
(* the run is then resumed from the file; between two processes the        *)
(* overseer may edit an agent's prompt.  An action is one step of a thread *)
(* between two points where another thread can run.                        *)
(***************************************************************************)
EXTENDS Naturals, Sequences, FiniteSets, SequencesExt

CONSTANTS Node,      \* the agents of the workflow
          Shapes,    \* the stage lists a workflow may have: sequences of sets of nodes
          MaxRuns,   \* bound on the processes started for the run, by shape
          MaxEdits   \* bound on the edits of each prompt, by shape

ASSUME NodesFinite == IsFiniteSet(Node)
ASSUME ShapesPartition ==
  \A s \in Shapes : /\ s \in Seq(SUBSET Node)
                    /\ \A i, k \in DOMAIN s : i # k => s[i] \cap s[k] = {}
ASSUME BoundsNatural == MaxRuns \in [Shapes -> Nat] /\ MaxEdits \in [Shapes -> Nat]

VARIABLES
  shape,    \* the stages of this workflow
  ver,      \* how often each agent's prompt has been edited
  journal,  \* agent-journal.jsonl: the entries, oldest first
  runs,     \* processes started so far
  run,      \* what has become of the current process
  sess,     \* the AgentReplaySession objects of the process, by number
  shared,   \* JournaledAgentHandler._sessions[run_id], 0 while absent
  pc,       \* where the thread of each agent is
  my,       \* the session object the thread holds
  idx,      \* its entry_index (counted from 1)
  cursor,   \* its position in the loop of _start_new_generation
  res,      \* the artifact its agent! form evaluated to, 0 while it has none
  made      \* history: the artifacts workers produced, each with what was asked

vars == <<shape, ver, journal, runs, run, sess, shared, pc, my, idx, cursor, res, made>>
thread == <<my, idx, cursor>>
disk == <<shape, ver, journal>>

Succeeded == "succeeded"
OpenGate == "open-gate"

Stages == 1..Len(shape)
StageOf(n) == CHOOSE i \in Stages : n \in shape[i]
Used == UNION Range(shape)
Done(i) == \A n \in shape[i] : res[n] # 0

(* The inputs a prompt interpolates: the artifacts of the stage before.    *)
Inputs(n) == IF StageOf(n) = 1 THEN {} ELSE {<<m, res[m]>> : m \in shape[StageOf(n) - 1]}

(* What a worker is asked to do, and agent_cache_key, the digest of it.    *)
Ask(n) == [node |-> n, ver |-> ver[n], inputs |-> Inputs(n)]
Key_Bug(n) == [Ask(n) EXCEPT !.ver = 0]   \* mutant: an edited prompt has the old key
Key(n) == Ask(n)

-----------------------------------------------------------------------------
(* AgentJournal *)

Generation(j) == IF j = <<>> THEN 0 ELSE Max({j[i].gen : i \in DOMAIN j})

(* latest_generation_entries: the entries of the last generation by index. *)
LastEntries(j) == {i \in DOMAIN j : j[i].gen = Generation(j)}
Latest(j) == [k \in 1..Cardinality(LastEntries(j)) |->
                j[CHOOSE i \in LastEntries(j) : j[i].idx = k]]

(* _validate_entry_sequence and _validate_contiguous_generation.           *)
NoDuplicates(j) ==
  \A i, k \in DOMAIN j : j[i].gen = j[k].gen /\ j[i].idx = j[k].idx => i = k
Contiguous(j) == {j[i].idx : i \in LastEntries(j)} = 1..Cardinality(LastEntries(j))
Loadable(j) == NoDuplicates(j) /\ Contiguous(j)

Entry(gen, i, key, kind, art) ==
  [gen |-> gen, idx |-> i, key |-> key, kind |-> kind, art |-> art]

-----------------------------------------------------------------------------
(* The process *)

Init ==
  /\ shape \in Shapes
  /\ ver = [n \in Node |-> 0]
  /\ journal = <<>>
  /\ runs = 0
  /\ run = "off"
  /\ sess = <<>>
  /\ shared = 0
  /\ pc = [n \in Node |-> "idle"]
  /\ my = [n \in Node |-> 0]
  /\ idx = [n \in Node |-> 0]
  /\ cursor = [n \in Node |-> 0]
  /\ res = [n \in Node |-> 0]
  /\ made = {}

(* A fresh process runs or resumes the workflow.                           *)
Start ==
  /\ run = "off"
  /\ runs < MaxRuns[shape]
  /\ runs' = runs + 1
  /\ run' = "running"
  /\ UNCHANGED <<disk, sess, shared, pc, thread, res, made>>

(* The process exits at the end of its run, or is killed before: nothing   *)
(* but the file survives, daemon threads die with the process.             *)
Exit ==
  /\ run # "off"
  /\ run' = "off"
  /\ sess' = <<>>
  /\ shared' = 0
  /\ pc' = [n \in Node |-> "idle"]
  /\ my' = [n \in Node |-> 0]
  /\ idx' = [n \in Node |-> 0]
  /\ cursor' = [n \in Node |-> 0]
  /\ res' = [n \in Node |-> 0]
  /\ UNCHANGED <<disk, runs, made>>

(* The overseer edits the prompt of an agent in the run's snapshot.        *)
Redirect(n) ==
  /\ run = "off"
  /\ ver[n] < MaxEdits[shape]
  /\ ver' = [ver EXCEPT ![n] = @ + 1]
  /\ UNCHANGED <<shape, journal, runs, run, sess, shared, pc, thread, res, made>>

(* The agent! form of a stage that has been reached is offloaded to a      *)
(* thread of its own.                                                      *)
Offload(n) ==
  /\ run = "running"
  /\ pc[n] = "idle"
  /\ n \in Used
  /\ \A i \in 1..(StageOf(n) - 1) : Done(i)
  /\ pc' = [pc EXCEPT ![n] = "enter"]
  /\ UNCHANGED <<disk, runs, run, sess, shared, thread, res, made>>

(* A thread takes a step: its process lives and it is at the given place.  *)
At(n, where) == run # "off" /\ pc[n] = where
Go(n, where) == pc' = [pc EXCEPT ![n] = where]

(* The exception of a thread fails its promise; Gather fails fast and the  *)
(* run is an error, while the threads of its siblings go on.               *)
Raise(n) == Go(n, "failed") /\ run' = "error"

(* The form of the last agent of the workflow returns.                     *)
Serve(n, art) ==
  /\ res' = [res EXCEPT ![n] = art]
  /\ Go(n, "done")
  /\ run' = IF run = "running" /\ \A m \in Used : res'[m] # 0 THEN "done" ELSE run

-----------------------------------------------------------------------------
(* JournaledAgentHandler.handle_agent *)

EnterHandler(n) ==
  /\ At(n, "enter")
  /\ IF shared = 0 THEN Go(n, "load") /\ UNCHANGED my
                   ELSE Go(n, "arrive") /\ my' = [my EXCEPT ![n] = shared]
  /\ UNCHANGED <<disk, runs, run, sess, shared, idx, cursor, res, made>>

(* AgentReplaySession(journal): a journal that does not load raises.       *)
LoadSession(n) ==
  /\ At(n, "load")
  /\ ~Loadable(journal)
  /\ Raise(n)
  /\ UNCHANGED <<disk, runs, sess, shared, thread, res, made>>

NewSession(n) ==
  /\ At(n, "load")
  /\ Loadable(journal)
  /\ sess' = Append(sess, [prev |-> Latest(journal), gen |-> Generation(journal),
                           keys |-> <<>>, replayed |-> <<>>, started |-> FALSE])
  /\ shared' = Len(sess')
  /\ my' = [my EXCEPT ![n] = Len(sess')]
  /\ Go(n, "arrive")
  /\ UNCHANGED <<disk, runs, run, idx, cursor, res, made>>

-----------------------------------------------------------------------------
(* AgentReplaySession.run_or_replay *)

S(n) == sess[my[n]]

(* self.current_keys.append(decision.cache_key)                            *)
ArriveKey(n) ==
  /\ At(n, "arrive")
  /\ sess' = [sess EXCEPT ![my[n]].keys = Append(@, Key(n))]
  /\ Go(n, "count")
  /\ UNCHANGED <<disk, runs, run, shared, thread, res, made>>

(* longest_valid_prefix of the previous and the current keys.              *)
ValidPrefix_Bug(s) ==   \* mutant: off by one
  Max({0} \cup {k \in 1..Len(s.prev) :
                  k < Len(s.keys) /\ \A i \in 1..k : s.prev[i].key = s.keys[i]})
ValidPrefix(s) ==
  Max({0} \cup {k \in 1..Len(s.prev) :
                  k <= Len(s.keys) /\ \A i \in 1..k : s.prev[i].key = s.keys[i]})

(* entry_index = len(self.current_keys) - 1, and what the position means:  *)
(* replay, a new generation, or a plain run.                               *)
CountKeys(n) ==
  LET i == Len(S(n).keys)
      valid == i <= ValidPrefix(S(n))
  IN
  /\ At(n, "count")
  /\ idx' = [idx EXCEPT ![n] = i]
  /\ cursor' = [cursor EXCEPT ![n] = 1]
  /\ Go(n, CASE valid /\ S(n).prev[i].kind = Succeeded -> "replay"
             [] valid /\ S(n).prev[i].kind # Succeeded -> "regenerate"
             [] ~valid /\ i <= Len(S(n).prev)          -> "regenerate"
             [] OTHER                                  -> "delegate")
  /\ UNCHANGED <<disk, runs, run, sess, shared, my, res, made>>

(* _validate_replay_entry refuses an entry of another key.                 *)
RefuseEntry(n) ==
  /\ At(n, "replay")
  /\ S(n).prev[idx[n]].key # Key(n)
  /\ Raise(n)
  /\ UNCHANGED <<disk, runs, sess, shared, thread, res, made>>

ReplayEntry(n) ==
  LET e == S(n).prev[idx[n]] IN
  /\ At(n, "replay")
  /\ e.key = Key(n)
  /\ sess' = [sess EXCEPT ![my[n]].replayed = Append(@, e)]
  /\ journal' = IF S(n).started
                THEN Append(journal, Entry(S(n).gen, e.idx, e.key, e.kind, e.art))
                ELSE journal
  /\ Serve(n, e.art)
  /\ UNCHANGED <<shape, ver, runs, shared, thread, made>>

(* _start_new_generation: the entries replayed so far are copied one by    *)
(* one; a second call returns at once.                                     *)
PrevGeneration(s) == IF s.prev = <<>> THEN 0 ELSE s.prev[1].gen

EnterGeneration_Bug(n) ==   \* mutant: the generation is not raised
  /\ At(n, "regenerate")
  /\ IF S(n).started
     THEN Go(n, "delegate") /\ UNCHANGED sess
     ELSE Go(n, "copy") /\ sess' = [sess EXCEPT ![my[n]].gen = PrevGeneration(S(n))]
  /\ UNCHANGED <<disk, runs, run, shared, thread, res, made>>
EnterGeneration(n) ==
  /\ At(n, "regenerate")
  /\ IF S(n).started
     THEN Go(n, "delegate") /\ UNCHANGED sess
     ELSE Go(n, "copy") /\ sess' = [sess EXCEPT ![my[n]].gen = PrevGeneration(S(n)) + 1]
  /\ UNCHANGED <<disk, runs, run, shared, thread, res, made>>

CopyEntry(n) ==
  LET e == S(n).replayed[cursor[n]] IN
  /\ At(n, "copy")
  /\ cursor[n] <= Len(S(n).replayed)
  /\ journal' = Append(journal, Entry(S(n).gen, cursor[n], e.key, e.kind, e.art))
  /\ cursor' = [cursor EXCEPT ![n] = @ + 1]
  /\ UNCHANGED <<shape, ver, runs, run, sess, shared, pc, my, idx, res, made>>

LeaveGeneration(n) ==
  /\ At(n, "copy")
  /\ cursor[n] > Len(S(n).replayed)
  /\ sess' = [sess EXCEPT ![my[n]].started = TRUE]
  /\ Go(n, "delegate")
  /\ UNCHANGED <<disk, runs, run, shared, thread, res, made>>

(* _run_delegate_and_append.  The worker answers with an artifact ...      *)
Artifact == Cardinality(made) + 1
MadeBy(n) == CHOOSE m \in made : m.ask = Ask(n) /\ \A o \in made : o.ask = Ask(n) => o.art <= m.art

DelegateAnswers(n) ==
  /\ At(n, "delegate")
  /\ made' = made \cup {[ask |-> Ask(n), art |-> Artifact]}
  /\ Go(n, "record")
  /\ UNCHANGED <<disk, runs, run, sess, shared, thread, res>>

RecordSuccess(n) ==
  /\ At(n, "record")
  /\ journal' = Append(journal, Entry(S(n).gen, idx[n], Key(n), Succeeded, MadeBy(n).art))
  /\ Serve(n, MadeBy(n).art)
  /\ UNCHANGED <<shape, ver, runs, sess, shared, thread, made>>

(* ... or exhausts its attempts or its deadline: the gate is journaled and *)
(* the run is blocked once every sibling is done ...                       *)
RecordOpenGate(n) ==
  /\ At(n, "delegate")
  /\ journal' = Append(journal, Entry(S(n).gen, idx[n], Key(n), OpenGate, 0))
  /\ Go(n, "parked")
  /\ UNCHANGED <<shape, ver, runs, run, sess, shared, thread, res, made>>

(* ... or raises: nothing is journaled.                                    *)
DelegateRaises(n) ==
  /\ At(n, "delegate")
  /\ Raise(n)
  /\ UNCHANGED <<disk, runs, sess, shared, thread, res, made>>

(* The runtime stops behind an open gate when the stage has been gathered. *)
Block ==
  /\ run = "running"
  /\ \E n \in Used :
       /\ pc[n] = "parked"
       /\ \A m \in shape[StageOf(n)] : pc[m] \in {"parked", "done"}
  /\ run' = "blocked"
  /\ UNCHANGED <<disk, runs, sess, shared, pc, thread, res, made>>

Call(n) ==
  \/ EnterHandler(n) \/ LoadSession(n) \/ NewSession(n)
  \/ ArriveKey(n) \/ CountKeys(n) \/ RefuseEntry(n) \/ ReplayEntry(n)
  \/ EnterGeneration(n) \/ CopyEntry(n) \/ LeaveGeneration(n)
  \/ DelegateAnswers(n) \/ RecordSuccess(n) \/ RecordOpenGate(n) \/ DelegateRaises(n)

Next ==
  \/ Start \/ Exit \/ Block
  \/ \E n \in Node : Redirect(n) \/ Offload(n) \/ Call(n)

Spec == Init /\ [][Next]_vars

-----------------------------------------------------------------------------
(* Properties *)

TypeOK ==
  /\ shape \in Shapes
  /\ ver \in [Node -> 0..MaxEdits[shape]]
  /\ runs \in 0..MaxRuns[shape]
  /\ run \in {"off", "running", "done", "blocked", "error"}
  /\ shared \in 0..Len(sess)
  /\ \A n \in Node :
       /\ my[n] \in 0..Len(sess)
       /\ idx[n] \in 0..Cardinality(Used)
       /\ pc[n] \in {"idle", "enter", "load", "arrive", "count", "replay", "regenerate",
                     "copy", "delegate", "record", "parked", "done", "failed"}
  /\ \A i \in DOMAIN journal : journal[i].kind \in {Succeeded, OpenGate}

Sequential == \A i \in Stages : Cardinality(shape[i]) = 1

(* The journal a process leaves behind loads, so that the run can be       *)
(* resumed: a kill in the middle of a call or of the copying of a          *)
(* generation leaves a shorter journal, never one with a gap or a position *)
(* written twice.  (Of workflows that never run two agents side by side:   *)
(* two siblings take their positions when they arrive and append when they *)
(* are done, so that a kill between the two leaves a gap.)                 *)
SequentialLoads == TypeOK /\ (Sequential => Loadable(journal))

(* An agent! form only ever evaluates to an artifact some worker produced  *)
(* for this agent, this edit of its prompt and these inputs, however many  *)
(* runs, edits and copied generations lie between.                         *)
ReplaySound ==
  \A n \in Used : res[n] # 0 =>
    \E m \in made : m.art = res[n] /\ m.ask = Ask(n)

(* A worker is not asked again for what the journal holds: when every      *)
(* earlier agent was served the journaled artifact and the journal has a   *)
(* success of this very call, it is replayed.  (Of siblings this is false: *)
(* they arrive in another order and the prefix no longer matches.)         *)
ResumeReuses ==
  Sequential => \A n \in Used : pc[n] \in {"delegate", "record"} =>
    LET prev == S(n).prev
        i == StageOf(n)
    IN  ~ /\ i <= Len(prev)
          /\ prev[i].key = Key(n)
          /\ \A k \in 1..i : prev[k].kind = Succeeded
          /\ \A k \in 1..(i - 1) : \E m \in shape[k] : prev[k].art = res[m]
=============================================================================
