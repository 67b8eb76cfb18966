------------------------------ MODULE SessionHost ------------------------------
(* The agent session host (doeff-agents, sessionhost/): rows of the store, the *)
(* tmux seats they stand for, and the threads that write both: the monitor, a  *)
(* launch pipeline per session, one operator RPC, reports and the clean-up     *)
(* after a late one. Each step is one operation of the store actor or of tmux: *)
(* a thread reads a row in one step and writes its copy back in a later one.   *)
(* Time, screens and the judge are choices of the monitor; blocked rows are    *)
(* running here; causes, identities, turn stamps and the journal are left out. *)
EXTENDS Naturals, FiniteSets

CONSTANTS
  Session,            \* naturals: the monitor visits them in order
  NameOf,             \* the tmux name of a session; names may be used again
  Adopted,            \* seats a user made and registered; the others are launched
  Contract,           \* launched sessions that owe a result
  SolicitationLimit,  \* how often the monitor asks for an owed result
  MaxRunning,         \* admission limit
  Ops,                \* the operator's RPCs of the instance, <<kind, session>>
  MaxOps, MaxCrashes  \* bounds of the instance

ASSUME Parameters ==
  /\ Session \subseteq Nat /\ IsFiniteSet(Session)
  /\ Adopted \subseteq Session /\ Contract \subseteq Session \ Adopted
  /\ Ops \subseteq {"capture", "cancel", "cleanup"} \X Session
  /\ {SolicitationLimit, MaxRunning, MaxOps, MaxCrashes} \subseteq Nat

VARIABLES
  rows,     \* the store, a row per session
  seat,     \* the tmux session a launch made
  launch,   \* how far the launch pipeline is
  mon,      \* the monitor thread and its copies of rows
  op,       \* the operator's RPC in progress
  late,     \* clean-up after a late result
  asked,    \* history: how often the agent was asked for its result
  ops, crashes

vars == <<rows, seat, launch, mon, op, late, asked, ops, crashes>>

Supervised == Session \ Adopted   \* run_to_completion; adopted rows are not reaped
Active == {"booting", "running"}
Terminal == {"done", "failed", "exited", "stopped"}
Row == [status : Active \cup Terminal \cup {"absent"},
        reported : BOOLEAN, cleaned : BOOLEAN, awaiting : BOOLEAN,
        used : 0..SolicitationLimit]
NoRow == [status |-> "absent", reported |-> FALSE, cleaned |-> FALSE,
          awaiting |-> FALSE, used |-> 0]

OpKind == {"capture", "cancel", "cleanup"}
IdleMonitor == [at |-> "idle", todo |-> {}, names |-> {}, verdict |-> "none",
                copy |-> [s \in Session |-> NoRow]]
NoOp == [kind |-> "none", s |-> 0, at |-> "none", row |-> NoRow]

Init ==
  /\ rows = [s \in Session |-> NoRow]
  /\ seat = [s \in Session |-> "none"]
  /\ launch = [s \in Session |-> "no"]
  /\ mon = IdleMonitor /\ op = NoOp
  /\ late = [s \in Session |-> "no"]
  /\ asked = [s \in Session |-> 0]
  /\ ops = 0 /\ crashes = 0

-------------------------------------------------------------------------------
(* tmux                                                                        *)
Up(s) == seat[s] \in {"shell", "agent"}
HasSession(s) == \E t \in Session : NameOf[t] = NameOf[s] /\ Up(t)
KilledAs(s) ==
  [t \in Session |-> IF NameOf[t] = NameOf[s] /\ Up(t) THEN "gone" ELSE seat[t]]

(* The store: an upsert replaces the row by the writer's copy, but keeps a     *)
(* result it has, and refuses to bring an ended session back.                  *)
Refused(s, row) == rows[s].status \in Terminal /\ row.status \in Active
Merged_Bug(s, row) == row      \* mutant: the last writer wins
Merged(s, row) == [row EXCEPT !.reported = @ \/ rows[s].reported]
Upsert(s, row) == rows' = [rows EXCEPT ![s] = Merged(s, row)]
UpsertOrRaise(s, row) == IF Refused(s, row) THEN UNCHANGED rows ELSE Upsert(s, row)

OwnedActive == {s \in Supervised : rows[s].status \in Active}
ActiveRows == {s \in Session : rows[s].status \in Active}
CleanupPending_Bug ==          \* mutant: the dead are forgotten
  {s \in Supervised : rows[s].status \in Terminal \ {"exited"} /\ ~rows[s].cleaned}
CleanupPending ==
  {s \in Supervised : rows[s].status \in Terminal /\ ~rows[s].cleaned}

-------------------------------------------------------------------------------
(* Launch: a thread per session. Admission and the creation of the seat are    *)
(* separate; so are the seat, its row, the delivery and the hand-over.         *)
BootingRow == [NoRow EXCEPT !.status = "booting", !.awaiting = TRUE]

Admit(s) ==
  /\ s \in Supervised /\ launch[s] = "no"
  /\ Cardinality(OwnedActive) < MaxRunning
  /\ ~HasSession(s)
  /\ launch' = [launch EXCEPT ![s] = "admitted"]
  /\ UNCHANGED <<rows, seat, mon, op, late, asked, ops, crashes>>

CreateSeat(s) ==
  /\ launch[s] = "admitted"
  /\ IF HasSession(s)
     THEN launch' = [launch EXCEPT ![s] = "over"] /\ UNCHANGED seat
     ELSE /\ launch' = [launch EXCEPT ![s] = "created"]
          /\ seat' = [seat EXCEPT ![s] = "shell"]
  /\ UNCHANGED <<rows, mon, op, late, asked, ops, crashes>>

Register(s) ==
  /\ launch[s] = "created"
  /\ launch' = [launch EXCEPT ![s] = "registered"]
  /\ Upsert(s, BootingRow)
  /\ UNCHANGED <<seat, mon, op, late, asked, ops, crashes>>

(* The agent is started and gets its prompt; a seat that is gone raises.       *)
Deliver(s) ==
  /\ launch[s] = "registered"
  /\ IF Up(s)
     THEN /\ launch' = [launch EXCEPT ![s] = "delivered"]
          /\ seat' = [seat EXCEPT ![s] = "agent"]
     ELSE launch' = [launch EXCEPT ![s] = "over"] /\ UNCHANGED seat
  /\ UNCHANGED <<rows, mon, op, late, asked, ops, crashes>>

HandOver(s) ==
  /\ launch[s] = "delivered"
  /\ launch' = [launch EXCEPT ![s] = "over"]
  /\ UpsertOrRaise(s, [BootingRow EXCEPT !.status = "running"])
  /\ UNCHANGED <<seat, mon, op, late, asked, ops, crashes>>

(* The ready gate gives up: the failed row first, then the seat, then the mark. *)
FailedLaunch_Bug ==            \* mutant: marked as cleaned before the kill
  [BootingRow EXCEPT !.status = "failed", !.cleaned = TRUE]
FailedLaunch == [BootingRow EXCEPT !.status = "failed"]

NotReady(s) ==
  /\ launch[s] = "registered"
  /\ launch' = [launch EXCEPT ![s] = "failed"]
  /\ Upsert(s, FailedLaunch)
  /\ UNCHANGED <<seat, mon, op, late, asked, ops, crashes>>

KillFailed(s) ==
  /\ launch[s] = "failed"
  /\ launch' = [launch EXCEPT ![s] = "killed"]
  /\ seat' = KilledAs(s)
  /\ UNCHANGED <<rows, mon, op, late, asked, ops, crashes>>

StampFailed(s) ==
  /\ launch[s] = "killed"
  /\ launch' = [launch EXCEPT ![s] = "over"]
  /\ Upsert(s, [FailedLaunch EXCEPT !.cleaned = TRUE])
  /\ UNCHANGED <<seat, mon, op, late, asked, ops, crashes>>

Pipeline(s) ==
  \/ CreateSeat(s) \/ Register(s) \/ Deliver(s) \/ HandOver(s)
  \/ NotReady(s) \/ KillFailed(s) \/ StampFailed(s)

(* A user makes a seat; session.adopt checks that it lives and registers it.   *)
UserSeat(s) ==
  /\ s \in Adopted /\ seat[s] = "none" /\ ~HasSession(s)
  /\ seat' = [seat EXCEPT ![s] = "agent"]
  /\ UNCHANGED <<rows, launch, mon, op, late, asked, ops, crashes>>

Adopt(s) ==
  /\ s \in Adopted /\ Up(s) /\ rows[s] = NoRow
  /\ Upsert(s, [NoRow EXCEPT !.status = "running"])
  /\ UNCHANGED <<seat, launch, mon, op, late, asked, ops, crashes>>

-------------------------------------------------------------------------------
(* The monitor: one cycle visits copies of the active rows, then sweeps copies *)
(* of the ended ones. A write of a visit that is refused raises and ends it.   *)
Visited(s) == s \in mon.todo /\ \A t \in mon.todo : s <= t
Copy(s) == mon.copy[s]
CopiesOf(S) == [s \in Session |-> IF s \in S THEN rows[s] ELSE NoRow]

ListActive ==
  /\ mon.at = "idle"
  /\ mon' = [mon EXCEPT !.at = "visit", !.todo = ActiveRows,
                         !.copy = CopiesOf(ActiveRows)]
  /\ UNCHANGED <<rows, seat, launch, op, late, asked, ops, crashes>>

(* What the visit will write, and where a verdict waits for the result.        *)
Plan(s, row) == [mon EXCEPT !.at = "write", !.verdict = "none", !.copy[s] = row]
Ends(s, status) == Plan(s, [Copy(s) EXCEPT !.status = status])
Leave(s) == [mon EXCEPT !.at = "visit", !.todo = @ \ {s}, !.verdict = "none",
                        !.copy[s] = NoRow]
Judge(s, verdict, row) ==
  IF s \in Contract
  THEN [mon EXCEPT !.at = "read", !.verdict = verdict, !.copy[s] = row]
  ELSE CASE verdict = "gone" -> Ends(s, "exited")
         [] verdict = "turn_end" -> Ends(s, "done")
         [] verdict = "failing" -> Ends(s, "failed")
         [] OTHER -> Plan(s, row)

Visiting(s) == mon.at = "visit" /\ Visited(s)
Watching_Bug(s) == Visiting(s) /\ Copy(s).status = "running"   \* mutant: reaps all
Watching(s) == Visiting(s) /\ s \in Supervised /\ Copy(s).status = "running"
Silent == UNCHANGED <<rows, seat, launch, op, late, asked, ops, crashes>>

(* An exempt row only gets a new time stamp: its copy is written back.         *)
VisitExempt(s) == Visiting(s) /\ s \notin Supervised /\ mon' = Plan(s, Copy(s)) /\ Silent

VisitBooting(s) ==
  /\ Visiting(s) /\ s \in Supervised /\ Copy(s).status = "booting"
  /\ mon' = Leave(s) /\ Silent

BootOverdue_Bug(s) == FALSE    \* mutant: no boot watchdog
BootOverdue(s) ==
  /\ Visiting(s) /\ s \in Supervised /\ Copy(s).status = "booting"
  /\ mon' = Ends(s, "failed") /\ Silent

(* Launch timeout, exhausted resubmissions and an unanswered prompt end the    *)
(* session without a look at its result.                                       *)
GiveUp(s) ==
  /\ Watching(s)
  /\ mon' = Ends(s, "failed") /\ Silent

SeatGone(s) ==
  /\ Watching(s) /\ ~HasSession(s)
  /\ mon' = Judge(s, "gone", Copy(s)) /\ Silent

(* Its pane belongs to another seat of the name, or fell back to the shell.    *)
PaneLost(s) ==
  /\ Watching(s) /\ HasSession(s) /\ seat[s] # "agent"
  /\ mon' = Ends(s, "exited") /\ Silent

Observe(s) ==
  /\ Watching(s) /\ seat[s] = "agent"
  /\ \E evidence \in BOOLEAN, verdict \in {"working", "turn_end", "failing"} :
       LET row == [Copy(s) EXCEPT !.awaiting = @ /\ ~evidence]
       IN /\ verdict = "turn_end" => ~row.awaiting
          /\ mon' = Judge(s, verdict, row)
  /\ Silent

(* The agent is asked before the counter is written.                           *)
MaySolicit(row) == row.used < SolicitationLimit
Solicited(row) == [row EXCEPT !.used = @ + 1, !.awaiting = TRUE]
Solicit(s) ==
  /\ mon.at = "read" /\ Visited(s) /\ mon.verdict = "turn_end"
  /\ ~rows[s].reported /\ MaySolicit(Copy(s))
  /\ IF Up(s)
     THEN /\ mon' = Plan(s, Solicited(Copy(s)))
          /\ asked' = [asked EXCEPT ![s] = @ + 1]
     ELSE mon' = Leave(s) /\ UNCHANGED asked
  /\ UNCHANGED <<rows, seat, launch, op, late, ops, crashes>>

(* The result is read again, whatever the copy says; the verdict counts only   *)
(* if there is none.                                                           *)
ReadResult(s) ==
  /\ mon.at = "read" /\ Visited(s)
  /\ \/ /\ rows[s].reported
        /\ mon' = Plan(s, [Copy(s) EXCEPT !.status = "done", !.reported = TRUE])
     \/ /\ ~rows[s].reported
        /\ \/ mon.verdict = "gone" /\ mon' = Ends(s, "exited")
           \/ mon.verdict = "failing" /\ mon' = Ends(s, "failed")
           \/ mon.verdict \in {"working", "turn_end"} /\ mon' = Plan(s, Copy(s))
           \/ /\ mon.verdict = "turn_end" /\ ~MaySolicit(Copy(s))
              /\ mon' = Ends(s, "failed")
  /\ Silent

WriteBack(s) ==
  /\ mon.at = "write" /\ Visited(s)
  /\ UpsertOrRaise(s, Copy(s))
  /\ mon' = Leave(s)
  /\ UNCHANGED <<seat, launch, op, late, asked, ops, crashes>>

ListPending ==
  /\ mon.at = "visit" /\ mon.todo = {}
  /\ mon' = IF CleanupPending = {} THEN IdleMonitor
            ELSE [mon EXCEPT !.at = "names", !.todo = CleanupPending,
                             !.copy = CopiesOf(CleanupPending)]
  /\ Silent

ListNames ==
  /\ mon.at = "names"
  /\ mon' = [mon EXCEPT !.at = "sweep", !.names = {NameOf[s] : s \in ActiveRows}]
  /\ Silent

(* A name that an active row claims is not killed, only the mark is set.       *)
SweepKill(s) ==
  /\ mon.at = "sweep" /\ Visited(s)
  /\ seat' = IF NameOf[s] \in mon.names THEN seat ELSE KilledAs(s)
  /\ mon' = [mon EXCEPT !.at = "stamp"]
  /\ UNCHANGED <<rows, launch, op, late, asked, ops, crashes>>

SweepStamp(s) ==
  /\ mon.at = "stamp" /\ Visited(s)
  /\ UpsertOrRaise(s, [Copy(s) EXCEPT !.cleaned = TRUE])
  /\ mon' = IF mon.todo = {s} THEN IdleMonitor
            ELSE [mon EXCEPT !.at = "sweep", !.todo = @ \ {s}, !.copy[s] = NoRow]
  /\ UNCHANGED <<seat, launch, op, late, asked, ops, crashes>>

Visit(s) ==
  \/ VisitExempt(s) \/ VisitBooting(s) \/ BootOverdue(s) \/ GiveUp(s)
  \/ SeatGone(s) \/ PaneLost(s) \/ Observe(s) \/ ReadResult(s) \/ Solicit(s)
  \/ WriteBack(s) \/ SweepKill(s) \/ SweepStamp(s)
Monitor == ListActive \/ ListPending \/ ListNames \/ \E s \in Session : Visit(s)

-------------------------------------------------------------------------------
(* Operator RPCs, each in a connection thread of its own (one at a time here). *)
BeginOp(kind, s) ==
  /\ op = NoOp /\ ops < MaxOps /\ rows[s] # NoRow /\ <<kind, s>> \in Ops
  /\ op' = [kind |-> kind, s |-> s, row |-> rows[s],
            at |-> IF kind = "capture" THEN "write" ELSE "kill"]
  /\ ops' = ops + 1
  /\ UNCHANGED <<rows, seat, launch, mon, late, asked, crashes>>

OpKills ==
  /\ op.at = "kill"
  /\ seat' = KilledAs(op.s)
  /\ op' = [op EXCEPT !.at = "write"]
  /\ UNCHANGED <<rows, launch, mon, late, asked, ops, crashes>>

OpRow ==
  CASE op.kind = "capture" -> op.row
    [] op.kind = "cancel" -> [op.row EXCEPT !.status = "stopped"]
    [] op.kind = "cleanup" ->
         [op.row EXCEPT !.status = IF @ \in Terminal THEN @ ELSE "stopped",
                        !.cleaned = TRUE]

OpWrites ==
  /\ op.at = "write"
  /\ UpsertOrRaise(op.s, OpRow)
  /\ op' = NoOp
  /\ UNCHANGED <<seat, launch, mon, late, asked, ops, crashes>>

(* report_result is one operation of the store actor. It may arrive at any     *)
(* time after the agent was started. A result of a session that was declared   *)
(* dead is accepted late; of other ended sessions it is refused.               *)
Accepted(s) == ~rows[s].reported /\ rows[s].status \in Active
AcceptedLate(s) == ~rows[s].reported /\ rows[s].status = "exited"

Report(s) ==
  /\ s \in Contract /\ launch[s] \in {"delivered", "over"} /\ seat[s] # "none"
  /\ \/ /\ Accepted(s)
        /\ rows' = [rows EXCEPT ![s].reported = TRUE]
        /\ UNCHANGED late
     \/ /\ AcceptedLate(s)
        /\ rows' = [rows EXCEPT ![s].reported = TRUE, ![s].status = "done"]
        /\ late' = [late EXCEPT ![s] = "kill"]
  /\ UNCHANGED <<seat, launch, mon, op, asked, ops, crashes>>

LateKill(s) ==
  /\ late[s] = "kill"
  /\ seat' = KilledAs(s)
  /\ late' = [late EXCEPT ![s] = IF HasSession(s) THEN "mark" ELSE "no"]
  /\ UNCHANGED <<rows, launch, mon, op, asked, ops, crashes>>

LateMark(s) ==
  /\ late[s] = "mark"
  /\ rows' = [rows EXCEPT ![s].cleaned = TRUE]
  /\ late' = [late EXCEPT ![s] = "no"]
  /\ UNCHANGED <<seat, launch, mon, op, asked, ops, crashes>>

LateCleanup(s) == LateKill(s) \/ LateMark(s)

-------------------------------------------------------------------------------
(* Seats end by themselves: the agent exits to the shell, tmux loses it. Of a  *)
(* user's seat only the latter matters to the host.                            *)
AgentExits(s) ==
  /\ s \in Supervised /\ seat[s] = "agent" /\ seat' = [seat EXCEPT ![s] = "shell"]
  /\ UNCHANGED <<rows, launch, mon, op, late, asked, ops, crashes>>
SeatDies(s) ==
  /\ Up(s) /\ seat' = [seat EXCEPT ![s] = "gone"]
  /\ UNCHANGED <<rows, launch, mon, op, late, asked, ops, crashes>>

(* The host dies and is started again: rows and seats survive, threads do not; *)
(* the latches of the dead process are cleared.                                *)
Latched(row) == row.status \in Active /\ row.awaiting
Restart ==
  /\ crashes < MaxCrashes /\ crashes' = crashes + 1
  /\ rows' = [s \in Session |-> IF Latched(rows[s])
                                THEN [rows[s] EXCEPT !.awaiting = FALSE] ELSE rows[s]]
  /\ launch' = [s \in Session |-> IF launch[s] = "no" THEN "no" ELSE "over"]
  /\ mon' = IdleMonitor /\ op' = NoOp /\ late' = [s \in Session |-> "no"]
  /\ UNCHANGED <<seat, asked, ops>>

Next ==
  \/ Monitor \/ OpKills \/ OpWrites \/ Restart
  \/ \E s \in Session :
       \/ Admit(s) \/ Pipeline(s) \/ UserSeat(s) \/ Adopt(s) \/ Report(s) \/ LateCleanup(s)
       \/ AgentExits(s) \/ SeatDies(s)
       \/ \E kind \in OpKind : BeginOp(kind, s)

Spec == Init /\ [][Next]_vars

(* The monitor loop, the pipelines and the RPC threads run on; the boot budget *)
(* of a row that stays booting runs out at some visit.                         *)
FairSpec ==
  /\ Spec
  /\ WF_vars(Monitor) /\ WF_vars(OpKills \/ OpWrites)
  /\ \A s \in Session : /\ WF_vars(Pipeline(s)) /\ WF_vars(LateCleanup(s))
                        /\ SF_vars(BootOverdue(s))

-------------------------------------------------------------------------------
MonitorState ==
  [at : {"idle", "visit", "read", "write", "names", "sweep", "stamp"},
   todo : SUBSET Session, names : SUBSET {NameOf[s] : s \in Session},
   verdict : {"none", "gone", "working", "turn_end", "failing"},
   copy : [Session -> Row]]

TypeOK ==
  /\ rows \in [Session -> Row]
  /\ seat \in [Session -> {"none", "shell", "agent", "gone"}]
  /\ launch \in [Session -> {"no", "admitted", "created", "registered",
                             "delivered", "failed", "killed", "over"}]
  /\ mon \in MonitorState
  /\ op \in [kind : OpKind, s : Session,
             at : {"kill", "write"}, row : Row] \cup {NoOp}
  /\ late \in [Session -> {"no", "kill", "mark"}]
  /\ asked \in [Session -> Nat] /\ ops \in 0..MaxOps /\ crashes \in 0..MaxCrashes

(* Whoever writes a stale copy of a row, and in whatever order: a session that *)
(* ended stays ended (the guard of db-upsert-snapshot), and an accepted result *)
(* is not lost (its COALESCE).                                                 *)
RowsOnlyAdvance ==
  [][\A s \in Session :
       /\ rows[s].status \in Terminal => rows'[s].status \in Terminal
       /\ rows[s].reported => rows'[s].reported]_vars

DoneMeansReported ==
  \A s \in Contract : rows[s].status = "done" => rows[s].reported
CleanedMeansGone ==
  \A s \in Session : rows[s].cleaned /\ Up(s) =>
    \E t \in Session \ {s} : NameOf[t] = NameOf[s] /\ rows[t] # NoRow
SolicitationsBounded ==
  \A s \in Session : asked[s] <= SolicitationLimit * (1 + ops) + crashes

(* What a row says is so. A session that owes a result is done only with one:  *)
(* nobody is told "done" and finds nothing (build-await-response). When a row  *)
(* is marked as cleaned, the seat it made is gone: no agent runs on behind a   *)
(* row that nobody sweeps again, unless the tmux name was taken by another row *)
(* too (the sweep spares a name that an active row claims). The agent is not   *)
(* asked more often than the count allows, but for one more per restart (asked,*)
(* then crashed before the counter was written) and, per RPC that wrote back   *)
(* an older copy of the counter, as often again.                               *)
RowsTruthful ==
  TypeOK /\ DoneMeansReported /\ CleanedMeansGone /\ SolicitationsBounded

(* The monitor never ends an adopted session.                                  *)
ExemptSpared ==
  [][Monitor => \A s \in Adopted :
        rows[s].status \in Active => rows'[s].status \in Active]_vars

(* A supervised session whose seat is gone, or that reported, ends: also when  *)
(* the host was restarted in the middle of its launch.                         *)
SeatsEnd ==
  \A s \in Supervised :
    (rows[s].status \in Active /\ (seat[s] = "gone" \/ rows[s].reported))
      ~> rows[s].status \in Terminal

(* Every supervised session that ended is swept, whichever path ended it.      *)
TerminalSwept == \A s \in Supervised : rows[s].status \in Terminal ~> rows[s].cleaned

===============================================================================
