--------------------------- MODULE SessionHostProofs ---------------------------
(***************************************************************************)
(* Theorems about SessionHost for every set of sessions and tmux names,    *)
(* any solicitation limit, and any number of RPCs and restarts; at the end *)
(* those about HostLease, for every set of processes and clients.          *)
(***************************************************************************)
EXTENDS SessionHost, HostLease, TLAPS

Known(s) == rows[s].status # "absent"
VisitPhase == mon.at \in {"visit", "read", "write"}
SweepPhase == mon.at \in {"names", "sweep", "stamp"}
InOp(s) == op # NoOp /\ op.s = s

\* The seat that the row made is gone, or another row uses its name.
Taken(s) == \E t \in Session \ {s} : NameOf[t] = NameOf[s] /\ rows[t] # NoRow
Gone(s) == ~Up(s) \/ Taken(s)

\* What must be so of every row that anybody has written or may still write.
Honest(s, r) ==
  /\ r.status # "absent"
  /\ s \in Contract /\ r.status = "done" => r.reported
  /\ r.cleaned => Gone(s)

RowsHonest ==
  \A s \in Session : IF Known(s) THEN Honest(s, rows[s]) ELSE rows[s] = NoRow

\* A launch that is under way: nobody has seen its session run.
Unstarted(r) == r.status # "running" /\ r.used = 0
LaunchAlone ==
  \A s \in Session :
    /\ launch[s] # "no" => s \in Supervised
    /\ s \in Supervised /\ launch[s] \in {"no", "admitted", "created"} => ~Known(s)
    /\ launch[s] \in {"registered", "delivered", "failed", "killed"} =>
         /\ Known(s) /\ Unstarted(rows[s])
         /\ s \in mon.todo => Unstarted(mon.copy[s])
         /\ InOp(s) => Unstarted(op.row)
    /\ launch[s] = "killed" => Gone(s)

AdoptedSeated == \A s \in Adopted : Known(s) => seat[s] # "none"

\* The copies of the monitor, in the two halves of its cycle.
CopiesHonest ==
  /\ mon.at = "idle" => mon.todo = {}
  /\ \A s \in mon.todo : Known(s) /\ Honest(s, mon.copy[s])
  /\ VisitPhase => \A s \in mon.todo \cap Adopted : mon.copy[s].status \in Active
  /\ mon.at = "read" =>
       \A s \in mon.todo : Visited(s) => s \in Contract /\ mon.copy[s].status = "running"
SweepSafe ==
  /\ SweepPhase => \A s \in mon.todo :
       s \in Supervised /\ {rows[s].status, mon.copy[s].status} \subseteq Terminal
  /\ mon.at \in {"sweep", "stamp"} =>
       \A s \in mon.todo : NameOf[s] \in mon.names => Taken(s)
  /\ mon.at = "stamp" => \A s \in mon.todo : Visited(s) => Gone(s)

\* The copy of an RPC, and the seats it or a late result killed.
OpHonest ==
  op # NoOp =>
    /\ Known(op.s) /\ Honest(op.s, op.row)
    /\ op.at = "write" /\ op.kind # "capture" => Gone(op.s)
LateSafe ==
  \A s \in Session : /\ late[s] # "no" => Known(s)
                     /\ late[s] = "mark" => Gone(s)

\* How far the count may lag behind: once per restart, and once per RPC that
\* ended by all that a copy of the row can miss.
Ended == IF op = NoOp THEN ops ELSE ops - 1
Slack == SolicitationLimit * Ended + crashes
Writing(s) == mon.at = "write" /\ Visited(s)
Counted ==
  /\ op # NoOp => ops > 0 /\ op.row.used <= rows[op.s].used
  /\ \A s \in mon.todo : rows[s].used <= mon.copy[s].used
  /\ \A s \in Session :
       /\ asked[s] <= SolicitationLimit + Slack
       /\ rows[s].status \notin Terminal \/ (VisitPhase /\ s \in mon.todo) =>
            asked[s] <= rows[s].used + Slack + (IF Writing(s) THEN 1 ELSE 0)
       /\ Writing(s) => asked[s] <= mon.copy[s].used + Slack

IInv ==
  /\ TypeOK /\ RowsHonest /\ LaunchAlone /\ AdoptedSeated /\ CopiesHonest
  /\ SweepSafe /\ OpHonest /\ LateSafe /\ Counted

-------------------------------------------------------------------------------
(* Arithmetic of the slack.                                                    *)
LEMMA SlackIsNatural ==
  ASSUME TypeOK, op # NoOp => ops > 0
  PROVE  Ended \in Nat /\ Slack \in Nat
<1>1. SolicitationLimit \in Nat
  BY Parameters
<1>2. ops \in Nat /\ crashes \in Nat /\ Ended \in Nat
  BY Parameters DEF TypeOK, MonitorState, Ended
<1>3. \A m, n \in Nat : m * n \in Nat
  OBVIOUS
<1>4. SolicitationLimit * Ended \in Nat
  BY <1>1, <1>2, <1>3
<1>5. QED  BY <1>2, <1>4 DEF Slack

(* The row that stands for none.                                           *)
LEMMA NoRowIsRow ==
  NoRow \in Row /\ NoRow.status = "absent" /\ NoRow.used = 0 /\ ~NoRow.cleaned /\ ~NoRow.reported
BY Parameters DEF NoRow, Row

(* What holds of a seat goes on to hold while no row disappears and the seat   *)
(* does not come up.                                                           *)
LEMMA GoneStays ==
  ASSUME NEW s \in Session, Up(s)' => Up(s),
         \A t \in Session : rows[t] # NoRow => rows'[t] # NoRow, Gone(s)
  PROVE  Gone(s)'
BY DEF Gone, Taken, Up

(* A name that another row uses stays in use.                              *)
LEMMA TakenStays ==
  ASSUME NEW s \in Session, Taken(s),
         \A t \in Session : rows[t] # NoRow => rows'[t] # NoRow
  PROVE  Taken(s)'
BY DEF Taken

(* A cycle of the monitor visits one session at a time.                    *)
LEMMA OneVisited ==
  ASSUME NEW s \in Session, NEW t \in Session, Visited(s), Visited(t)
  PROVE  s = t
BY Parameters DEF Visited

(* A step of the monitor from one row to what it will write of it.             *)
Decides(s, at, verdict, row) ==
  /\ Silent
  /\ mon' = [mon EXCEPT !.at = at, !.verdict = verdict, !.copy[s] = row]

(* A visit that leaves a row to write keeps the invariant when the row is  *)
(* honest and its count is that of the copy.                               *)
LEMMA PlanKeeps ==
  ASSUME IInv, NEW s \in Session, mon.at \in {"visit", "read"}, Visited(s),
         NEW row \in Row, Honest(s, row), row.used = Copy(s).used,
         Unstarted(Copy(s)) => Unstarted(row),
         s \in Adopted => row.status \in Active,
         NEW at \in {"read", "write"}, NEW verdict \in {"none", "gone", "working", "turn_end", "failing"},
         at = "read" => s \in Contract /\ row.status = "running",
         Decides(s, at, verdict, row)
  PROVE  IInv'
<1> USE DEF Silent, Decides
<1>0. /\ mon' \in MonitorState
      /\ mon'.at = at /\ mon'.todo = mon.todo /\ mon'.copy[s] = row
      /\ \A t \in Session \ {s} : mon'.copy[t] = mon.copy[t]
  BY DEF IInv, TypeOK, MonitorState
<1>g. \A t \in Session : (Gone(t) <=> Gone(t)') /\ (Taken(t) <=> Taken(t)') /\ (Known(t) <=> Known(t)')
  BY DEF Gone, Taken, Up, Known
<1>1. TypeOK'
  BY <1>0 DEF IInv, TypeOK, MonitorState
<1>2. RowsHonest'
  BY <1>g DEF IInv, RowsHonest, Honest
<1>3. LaunchAlone'
  BY <1>0, <1>g DEF IInv, LaunchAlone, InOp, Copy, Unstarted
<1>4. AdoptedSeated'
  BY <1>g, Parameters DEF IInv, AdoptedSeated
<1>5. CopiesHonest'
  <2>1. \A t \in mon.todo : Known(t)' /\ Honest(t, mon.copy[t])'
    BY <1>0, <1>g DEF IInv, TypeOK, MonitorState, CopiesHonest, Honest
  <2>2. \A t \in mon.todo \cap Adopted : mon'.copy[t].status \in Active
    BY <1>0 DEF IInv, TypeOK, MonitorState, CopiesHonest, VisitPhase
  <2>3. ASSUME NEW t \in mon.todo, Visited(t)' PROVE t = s
    BY <1>0, <2>3, Parameters DEF IInv, TypeOK, MonitorState, Visited
  <2>4. QED  BY <1>0, <2>1, <2>2, <2>3 DEF CopiesHonest
<1>6. SweepSafe'
  BY <1>0 DEF SweepSafe, SweepPhase
<1>7. OpHonest' /\ LateSafe'
  BY <1>g DEF IInv, OpHonest, LateSafe, Honest, TypeOK, MonitorState
<1>8. Counted'
  <2>1. Slack' = Slack /\ Slack \in Nat
    BY SlackIsNatural DEF IInv, Counted, Slack, Ended
  <2>. QED  BY <1>0, <2>1 DEF IInv, Counted, VisitPhase, Writing, Visited, Copy, TypeOK, MonitorState, Row
<1>9. QED  BY <1>1, <1>2, <1>3, <1>4, <1>5, <1>6, <1>7, <1>8 DEF IInv

(* A verdict on the screen is such a visit.                                *)
LEMMA JudgeKeeps ==
  ASSUME IInv, NEW s \in Session, Visiting(s), s \in Supervised, Copy(s).status = "running",
         NEW row \in Row, row.status = "running", row.used = Copy(s).used,
         row.reported = Copy(s).reported, row.cleaned = Copy(s).cleaned,
         NEW verdict \in {"gone", "working", "turn_end", "failing"},
         mon' = Judge(s, verdict, row), Silent,
         verdict = "gone" => row = Copy(s)
  PROVE  IInv'
<1>1. Copy(s) \in Row /\ Honest(s, Copy(s))
  BY DEF IInv, TypeOK, MonitorState, Copy, CopiesHonest, Visiting, Visited
<1>2. s \notin Adopted
  BY DEF Supervised
<1>3. CASE s \in Contract
  <2>1. Decides(s, "read", verdict, row)
    BY <1>3 DEF Judge, Decides
  <2>2. Honest(s, row)
    BY <1>1 DEF Honest
  <2>. QED  BY <1>2, <1>3, <2>1, <2>2, PlanKeeps DEF Visiting, Unstarted
<1>4. CASE s \notin Contract
  <2>1. PICK r \in Row : /\ Decides(s, "write", "none", r)
                         /\ r.used = row.used /\ r.cleaned = row.cleaned
                         /\ r.status # "absent"
    <3>1. ASSUME NEW status \in Terminal
          PROVE  LET r == [Copy(s) EXCEPT !.status = status] IN
                   r \in Row /\ r.used = row.used /\ r.cleaned = row.cleaned /\ r.status = status
      BY <1>1 DEF Row
    <3>. QED  BY <1>4, <3>1 DEF Judge, Ends, Plan, Terminal, Decides
  <2>2. Honest(s, r)
    BY <1>1, <1>4, <2>1 DEF Honest
  <2>. QED  BY <1>2, <2>1, <2>2, PlanKeeps DEF Visiting, Unstarted
<1>5. QED  BY <1>3, <1>4

(* The steps of a visit that only decide what to write.                        *)
LEMMA VisitKeeps ==
  ASSUME IInv, NEW s \in Session,
         VisitExempt(s) \/ BootOverdue(s) \/ GiveUp(s) \/ SeatGone(s) \/ PaneLost(s)
           \/ Observe(s) \/ ReadResult(s)
  PROVE  IInv'
<1>1. s \in mon.todo => Copy(s) \in Row /\ Honest(s, Copy(s))
  BY DEF IInv, TypeOK, MonitorState, Copy, CopiesHonest
<1>2. ASSUME NEW status \in Terminal, status # "done", mon.at \in {"visit", "read"}, Visited(s),
             s \in Supervised, mon' = Ends(s, status), Silent
      PROVE  IInv'
  <2> DEFINE r == [Copy(s) EXCEPT !.status = status]
  <2>1. /\ r \in Row /\ Decides(s, "write", "none", r)
        /\ r.used = Copy(s).used /\ r.cleaned = Copy(s).cleaned /\ r.status = status
    BY <1>1, <1>2 DEF Ends, Plan, Row, Visited, Decides
  <2> HIDE DEF r
  <2>2. Honest(s, r)
    BY <1>1, <1>2, <2>1 DEF Honest, Terminal, Visited
  <2>. QED  BY <1>2, <2>1, <2>2, PlanKeeps DEF Supervised, Unstarted, Terminal
<1>3. ASSUME mon.at \in {"visit", "read"}, Visited(s), mon' = Plan(s, Copy(s)), Silent
      PROVE  IInv'
  <2>1. s \in Adopted => Copy(s).status \in Active
    BY <1>3 DEF IInv, CopiesHonest, VisitPhase, Visited, Copy
  <2>. QED  BY <1>1, <1>3, <2>1, PlanKeeps DEF Plan, Visited, Decides
<1>4. CASE VisitExempt(s)
  BY <1>3, <1>4 DEF VisitExempt, Visiting
<1>5. CASE BootOverdue(s) \/ GiveUp(s) \/ PaneLost(s)
  BY <1>2, <1>5 DEF BootOverdue, GiveUp, PaneLost, Watching, Visiting, Terminal
<1>6. CASE SeatGone(s)
  BY <1>1, <1>6, JudgeKeeps DEF SeatGone, Watching, Visiting, Visited
<1>7. CASE Observe(s)
  <2>1. PICK evidence \in BOOLEAN, verdict \in {"working", "turn_end", "failing"} :
          mon' = Judge(s, verdict, [Copy(s) EXCEPT !.awaiting = @ /\ ~evidence])
    BY <1>7 DEF Observe
  <2>2. s \in mon.todo
    BY <1>7 DEF Observe, Watching, Visiting, Visited
  <2> DEFINE row == [Copy(s) EXCEPT !.awaiting = @ /\ ~evidence]
  <2>3. /\ row \in Row /\ row.status = Copy(s).status /\ row.used = Copy(s).used
        /\ row.reported = Copy(s).reported /\ row.cleaned = Copy(s).cleaned
    BY <1>1, <2>2 DEF Row
  <2>. QED  BY <1>7, <2>1, <2>3, JudgeKeeps DEF Observe, Watching
<1>8. CASE ReadResult(s)
  <2>1. s \in Contract /\ s \in mon.todo /\ Copy(s).status = "running"
    BY <1>8 DEF ReadResult, IInv, CopiesHonest, Visited, Copy
  <2>2. s \in Supervised
    BY <2>1, Parameters DEF Supervised
  <2>3. CASE mon' = Plan(s, [Copy(s) EXCEPT !.status = "done", !.reported = TRUE])
    <3> DEFINE r == [Copy(s) EXCEPT !.status = "done", !.reported = TRUE]
    <3>1. /\ r \in Row /\ Decides(s, "write", "none", r)
          /\ r.used = Copy(s).used /\ r.cleaned = Copy(s).cleaned
          /\ r.status = "done" /\ r.reported
      BY <1>1, <1>8, <2>1, <2>3 DEF Plan, Row, Terminal, Decides, ReadResult
    <3> HIDE DEF r
    <3>2. Honest(s, r)
      BY <1>1, <2>1, <3>1 DEF Honest
    <3>. QED  BY <1>8, <2>1, <2>2, <3>1, <3>2, PlanKeeps DEF Supervised, Unstarted, ReadResult
  <2>. QED  BY <1>2, <1>3, <1>8, <2>2, <2>3 DEF ReadResult, Terminal
<1>9. QED  BY <1>4, <1>5, <1>6, <1>7, <1>8

-------------------------------------------------------------------------------
(* What a written row is afterwards, and that nothing that was so is lost.     *)
Persists ==
  \A t \in Session : /\ Known(t) => Known(t)'
                     /\ Taken(t) => Taken(t)'
                     /\ Known(t) /\ Gone(t) => Gone(t)'

(* What an upsert writes: the status and the count given, no result taken  *)
(* away, no other row.                                                     *)
LEMMA WriteRow ==
  ASSUME IInv, NEW s \in Session, NEW row \in Row, Honest(s, row), Upsert(s, row),
         UNCHANGED seat
  PROVE  /\ rows' \in [Session -> Row]
         /\ rows'[s].status = row.status /\ rows'[s].used = row.used
         /\ rows[s].reported => rows'[s].reported
         /\ \A t \in Session \ {s} : rows'[t] = rows[t]
         /\ Persists /\ Known(s)' /\ RowsHonest'
<1>1. /\ rows' = [rows EXCEPT ![s] = Merged(s, row)] /\ rows \in [Session -> Row]
      /\ Merged(s, row) \in Row /\ Merged(s, row).status = row.status
      /\ Merged(s, row).used = row.used /\ Merged(s, row).cleaned = row.cleaned
      /\ Merged(s, row).reported = (row.reported \/ rows[s].reported)
  BY DEF Upsert, Merged, IInv, TypeOK, MonitorState, Row
<1> HIDE DEF Merged
<1>2. /\ rows' \in [Session -> Row] /\ rows'[s] = Merged(s, row)
      /\ \A t \in Session \ {s} : rows'[t] = rows[t]
  BY <1>1
<1>3. row.status # "absent"
  BY DEF Honest
<1>4. \A t \in Session : rows[t] # NoRow => rows'[t] # NoRow
  BY <1>1, <1>2, <1>3 DEF NoRow
<1>g. ASSUME NEW t \in Session PROVE (Taken(t) => Taken(t)') /\ (Gone(t) => Gone(t)')
  BY <1>4 DEF Taken, Gone, Up
<1>5. Persists
  <2>1. ASSUME NEW t \in Session PROVE Known(t) => Known(t)'
    BY <1>1, <1>2, <1>3 DEF Known
  <2>. QED  BY <1>g, <2>1 DEF Persists
<1>6. RowsHonest'
  <2>1. Honest(s, rows[s])' /\ Known(s)'
    BY <1>1, <1>2, <1>3, <1>5, <1>g DEF Honest, Persists, Known
  <2>2. ASSUME NEW t \in Session \ {s}
        PROVE  IF Known(t)' THEN Honest(t, rows[t])' ELSE rows'[t] = NoRow
    BY <1>2, <1>5 DEF IInv, RowsHonest, Honest, Persists, Known
  <2>. QED  BY <2>1, <2>2 DEF RowsHonest
<1>7. QED  BY <1>1, <1>2, <1>3, <1>5, <1>6 DEF Known

(* The monitor turns to the next row.                                          *)
LEMMA LeaveMonitor ==
  ASSUME TypeOK, NEW s \in Session, mon' = Leave(s)
  PROVE  /\ mon' \in MonitorState
         /\ mon'.at = "visit" /\ mon'.todo = mon.todo \ {s}
         /\ \A t \in mon'.todo : mon'.copy[t] = mon.copy[t]
<1>1. NoRow \in Row
  BY Parameters DEF NoRow, Row
<1>2. QED  BY <1>1 DEF TypeOK, MonitorState, Leave

(* The monitor writes back its copy, maybe after the row has changed.      *)
LEMMA WriteBackKeeps ==
  ASSUME IInv, NEW s \in Session, WriteBack(s)
  PROVE  IInv'
<1> USE DEF WriteBack
<1>1. s \in mon.todo /\ Copy(s) \in Row /\ Honest(s, Copy(s)) /\ Known(s)
  BY DEF IInv, TypeOK, MonitorState, Copy, CopiesHonest, Visited
<1>2. /\ rows' \in [Session -> Row] /\ Persists /\ Known(s)' /\ RowsHonest'
      /\ \A t \in Session \ {s} : rows'[t] = rows[t]
      /\ \/ rows' = rows /\ rows[s].status \in Terminal
         \/ rows'[s].status = Copy(s).status /\ rows'[s].used = Copy(s).used
  <2>1. CASE Refused(s, Copy(s))
    BY <1>1, <2>1 DEF UpsertOrRaise, Refused, IInv, TypeOK, MonitorState, Persists, Known, Gone, Taken, Up,
                      RowsHonest, Honest
  <2>2. CASE ~Refused(s, Copy(s))
    BY <1>1, <2>2, WriteRow DEF UpsertOrRaise
  <2>. QED  BY <2>1, <2>2
<1>3. /\ mon' \in MonitorState
      /\ mon'.at = "visit" /\ mon'.todo = mon.todo \ {s}
      /\ \A t \in mon'.todo : mon'.copy[t] = mon.copy[t]
  BY LeaveMonitor DEF IInv
<1>4. TypeOK'
  BY <1>2, <1>3 DEF IInv, TypeOK, MonitorState
<1>5. LaunchAlone'
  BY <1>1, <1>2, <1>3 DEF IInv, LaunchAlone, InOp, Copy, Unstarted, Persists, Known
<1>6. AdoptedSeated'
  BY <1>1, <1>2, Parameters DEF IInv, AdoptedSeated, Known
<1>7. CopiesHonest' /\ SweepSafe'
  BY <1>2, <1>3 DEF IInv, TypeOK, MonitorState, CopiesHonest, SweepSafe, SweepPhase, VisitPhase, Honest, Persists
<1>8. OpHonest' /\ LateSafe'
  BY <1>2 DEF IInv, OpHonest, LateSafe, Honest, Persists, TypeOK, MonitorState
<1>9. Counted'
  <2>1. Slack' = Slack /\ Slack \in Nat
    BY SlackIsNatural DEF IInv, Counted, Slack, Ended
  <2>2. \A t \in mon.todo : Writing(t) <=> t = s
    BY OneVisited DEF Writing, IInv, TypeOK, MonitorState
  <2>6. \A t \in Session : ~Writing(t)'
    BY <1>3 DEF Writing
  <2>3. op # NoOp => ops' > 0 /\ op.row.used <= rows'[op.s].used
    BY <1>1, <1>2 DEF IInv, Counted, TypeOK, MonitorState, Copy, Row
  <2>4. ASSUME NEW t \in Session
        PROVE  /\ asked[t] <= SolicitationLimit + Slack
               /\ rows'[t].status \notin Terminal \/ t \in mon'.todo =>
                    asked[t] <= rows'[t].used + Slack + (IF Writing(t)' THEN 1 ELSE 0)
    BY <1>1, <1>2, <1>3, <2>1, <2>2, <2>6 DEF IInv, Counted, TypeOK, MonitorState, Copy, Row, Writing, VisitPhase, Visited
  <2>5. \A t \in mon'.todo : rows'[t].used <= mon'.copy[t].used
    BY <1>2, <1>3 DEF IInv, Counted, TypeOK, MonitorState
  <2>. QED  BY <2>1, <2>3, <2>4, <2>5, <2>6 DEF Counted
<1>. QED  BY <1>2, <1>4, <1>5, <1>6, <1>7, <1>8, <1>9 DEF IInv

(* The monitor goes on to the next session.                                *)
LEMMA LeaveKeeps ==
  ASSUME IInv, NEW s \in Session, mon.at \in {"visit", "read"}, mon' = Leave(s), Silent
  PROVE  IInv'
<1> USE DEF Silent
<1>1. /\ mon' \in MonitorState
      /\ mon'.at = "visit" /\ mon'.todo = mon.todo \ {s}
      /\ \A t \in mon'.todo : mon'.copy[t] = mon.copy[t]
  BY LeaveMonitor DEF IInv
<1>2. \A t \in Session : (Gone(t) <=> Gone(t)') /\ (Taken(t) <=> Taken(t)') /\ (Known(t) <=> Known(t)')
  BY DEF Gone, Taken, Up, Known
<1>3. TypeOK'
  BY <1>1 DEF IInv, TypeOK, MonitorState
<1>4. RowsHonest'
  BY <1>2 DEF IInv, RowsHonest, Honest
<1>5. LaunchAlone'
  BY <1>1, <1>2 DEF IInv, LaunchAlone, InOp, Unstarted
<1>6. AdoptedSeated'
  BY <1>2, Parameters DEF IInv, AdoptedSeated
<1>7. CopiesHonest' /\ SweepSafe'
  BY <1>1, <1>2 DEF IInv, TypeOK, MonitorState, CopiesHonest, SweepSafe, SweepPhase, VisitPhase, Honest
<1>8. OpHonest' /\ LateSafe'
  BY <1>2 DEF IInv, OpHonest, LateSafe, Honest, TypeOK, MonitorState
<1>9. Counted'
  <2>1. Slack' = Slack /\ Slack \in Nat
    BY SlackIsNatural DEF IInv, Counted, Slack, Ended
  <2>. QED  BY <1>1, <2>1 DEF IInv, Counted, TypeOK, MonitorState, VisitPhase, Writing
<1>. QED  BY <1>3, <1>4, <1>5, <1>6, <1>7, <1>8, <1>9 DEF IInv

(* Asking comes before counting: the copy to be written counts the question.   *)
LEMMA SolicitKeeps ==
  ASSUME IInv, NEW s \in Session, Solicit(s)
  PROVE  IInv'
<1>1. CASE ~Up(s)
  BY <1>1, LeaveKeeps DEF Solicit, Silent
<1>2. CASE Up(s)
  <2> USE <1>2 DEF Solicit
  <2> DEFINE row == Solicited(Copy(s))
  <2>1. /\ s \in mon.todo /\ s \in Contract /\ Copy(s).status = "running"
        /\ Copy(s) \in Row /\ Honest(s, Copy(s)) /\ s \notin Adopted
    BY Parameters DEF IInv, TypeOK, MonitorState, Copy, CopiesHonest, Visited
  <2>2. /\ row \in Row /\ row.status = "running" /\ row.cleaned = Copy(s).cleaned
        /\ row.used = Copy(s).used + 1
    <3>1. SolicitationLimit \in Nat /\ Copy(s).used \in 0..SolicitationLimit
          /\ Copy(s).used < SolicitationLimit
      BY <2>1, Parameters DEF Row, MaySolicit
    <3>2. Copy(s).used + 1 \in 0..SolicitationLimit
      BY <3>1
    <3>. QED  BY <2>1, <3>2 DEF Row, Solicited
  <2>m. mon' = Plan(s, row)
    OBVIOUS
  <2>3. /\ mon' \in MonitorState
        /\ mon'.at = "write" /\ mon'.todo = mon.todo /\ mon'.copy[s] = row
        /\ \A t \in Session \ {s} : mon'.copy[t] = mon.copy[t]
    <3> HIDE DEF row
    <3>. QED  BY <2>2, <2>m DEF IInv, TypeOK, MonitorState, Plan
  <2>4. asked' \in [Session -> Nat] /\ asked'[s] = asked[s] + 1
        /\ \A t \in Session \ {s} : asked'[t] = asked[t]
    BY DEF IInv, TypeOK, MonitorState
  <2> HIDE DEF row
  <2>5. \A t \in Session : (Gone(t) <=> Gone(t)') /\ (Taken(t) <=> Taken(t)') /\ (Known(t) <=> Known(t)')
    BY DEF Gone, Taken, Up, Known
  <2>6. TypeOK'
    BY <2>3, <2>4 DEF IInv, TypeOK, MonitorState
  <2>7. RowsHonest' /\ AdoptedSeated'
    BY <2>5, Parameters DEF IInv, RowsHonest, AdoptedSeated, Honest
  <2>8. LaunchAlone'
    BY <2>1, <2>3, <2>5 DEF IInv, LaunchAlone, InOp, Unstarted, Copy
  <2>9. CopiesHonest' /\ SweepSafe'
    BY <2>1, <2>2, <2>3, <2>5 DEF IInv, TypeOK, MonitorState, CopiesHonest, SweepSafe, SweepPhase, VisitPhase,
                                  Honest, Copy
  <2>10. OpHonest' /\ LateSafe'
    BY <2>5 DEF IInv, OpHonest, LateSafe, Honest, TypeOK, MonitorState
  <2>11. Counted'
    <3>1. Slack' = Slack /\ Slack \in Nat
      BY SlackIsNatural DEF IInv, Counted, Slack, Ended
    <3>2. \A t \in Session : Writing(t)' <=> t = s
      BY <2>3, Parameters DEF Writing, Visited, IInv, TypeOK, MonitorState
    <3>3. Copy(s).used < SolicitationLimit
      BY DEF MaySolicit
    <3>4. /\ asked[s] <= rows[s].used + Slack /\ rows[s].used <= Copy(s).used
          /\ rows[s].used \in Nat /\ Copy(s).used \in Nat /\ asked[s] \in Nat
          /\ SolicitationLimit \in Nat
      BY <2>1, <3>1, Parameters DEF IInv, Counted, TypeOK, MonitorState, Row, VisitPhase, Writing, Copy
    <3>5. /\ asked'[s] <= SolicitationLimit + Slack
          /\ asked'[s] <= rows[s].used + Slack + (IF Writing(s)' THEN 1 ELSE 0)
          /\ asked'[s] <= mon'.copy[s].used + Slack
          /\ rows[s].used <= mon'.copy[s].used
      BY <2>2, <2>3, <2>4, <3>1, <3>2, <3>3, <3>4
    <3>. QED  BY <2>3, <2>4, <3>1, <3>2, <3>5 DEF IInv, Counted, TypeOK, MonitorState, VisitPhase, Writing, Row
  <2>. QED  BY <2>6, <2>7, <2>8, <2>9, <2>10, <2>11 DEF IInv
<1>3. QED  BY <1>1, <1>2

(* The lists of a cycle: copies that are what they were taken from.            *)
LEMMA ListKeeps ==
  ASSUME IInv, ListActive \/ ListPending \/ ListNames
  PROVE  IInv'
<1> USE DEF Silent
<1>1. UNCHANGED <<rows, seat, launch, op, late, asked, ops, crashes>>
  BY DEF ListActive, ListPending, ListNames
<1>2. PICK S \in SUBSET Session :
        /\ mon' \in MonitorState
        /\ mon'.todo = S
        /\ \/ /\ mon.at = "names" /\ S = mon.todo /\ mon'.copy = mon.copy
              /\ mon'.at = "sweep" /\ mon'.names = {NameOf[s] : s \in ActiveRows}
           \/ /\ \A s \in S : mon'.copy[s] = rows[s]
              /\ \/ mon'.at = "visit" /\ S = ActiveRows
                 \/ mon'.at = "names" /\ S = CleanupPending
                 \/ mon'.at = "idle" /\ S = {}
  <2>1. \A s \in Session : rows[s] \in Row
    BY DEF IInv, TypeOK, MonitorState
  <2>2. NoRow \in Row
    BY Parameters DEF NoRow, Row
  <2>3. \A S \in SUBSET Session : CopiesOf(S) \in [Session -> Row]
                                  /\ \A s \in S : CopiesOf(S)[s] = rows[s]
    BY <2>1, <2>2 DEF CopiesOf
  <2>4. ActiveRows \subseteq Session /\ CleanupPending \subseteq Session
    BY DEF ActiveRows, CleanupPending, Supervised
  <2>5. CASE ListActive
    BY <2>3, <2>4, <2>5 DEF ListActive, IInv, TypeOK, MonitorState
  <2>6. CASE ListPending /\ CleanupPending # {}
    <3>1. mon' = [mon EXCEPT !.at = "names", !.todo = CleanupPending,
                             !.copy = CopiesOf(CleanupPending)]
      BY <2>6 DEF ListPending
    <3>2. /\ mon'.at = "names" /\ mon'.todo = CleanupPending
          /\ mon'.copy = CopiesOf(CleanupPending)
      BY <3>1 DEF IInv, TypeOK, MonitorState
    <3>3. mon' \in MonitorState
      BY <2>3, <2>4, <3>1 DEF IInv, TypeOK, MonitorState
    <3>. QED  BY <2>3, <2>4, <3>2, <3>3
  <2>7. CASE ListPending /\ CleanupPending = {}
    <3>1. \A s \in Session : IdleMonitor.copy[s] = NoRow
      BY DEF IdleMonitor
    <3>. QED  BY <2>2, <2>7, <3>1 DEF ListPending, IdleMonitor, MonitorState
  <2>8. CASE ListNames
    BY <2>4, <2>8 DEF ListNames, IInv, TypeOK, MonitorState
  <2>. QED  BY <2>5, <2>6, <2>7, <2>8
<1>3. \A t \in Session : (Gone(t) <=> Gone(t)') /\ (Taken(t) <=> Taken(t)') /\ (Known(t) <=> Known(t)')
  BY <1>1 DEF Gone, Taken, Up, Known
<1>4. \A s \in ActiveRows : Known(s) /\ Honest(s, rows[s]) /\ rows[s].status \in Active
  BY DEF ActiveRows, Active, Known, IInv, RowsHonest
<1>5. \A s \in CleanupPending : /\ Known(s) /\ Honest(s, rows[s]) /\ rows[s].status \in Terminal
                                /\ s \in Supervised
  BY DEF CleanupPending, Terminal, Known, IInv, RowsHonest, Supervised
<1>6. TypeOK' /\ RowsHonest' /\ AdoptedSeated'
  BY <1>1, <1>2, <1>3, Parameters DEF IInv, TypeOK, MonitorState, RowsHonest, AdoptedSeated, Honest
<1>7. LaunchAlone'
  BY <1>1, <1>2, <1>3, <1>4, <1>5 DEF IInv, LaunchAlone, InOp, Unstarted
<1>8. CopiesHonest'
  BY <1>1, <1>2, <1>3, <1>4, <1>5 DEF IInv, CopiesHonest, VisitPhase, Honest
<1>9. SweepSafe'
  <2>1. ASSUME NEW s \in mon'.todo, mon'.at = "sweep", NameOf[s] \in mon'.names PROVE Taken(s)'
    <3>1. s \in Session /\ rows[s].status \in Terminal
      BY <1>1, <1>2, <2>1 DEF IInv, SweepSafe, SweepPhase
    <3>2. PICK t \in ActiveRows : NameOf[t] = NameOf[s]
      BY <1>2, <2>1
    <3>3. t \in Session /\ t # s /\ rows[t] # NoRow
      BY <1>4, <3>1, <3>2 DEF ActiveRows, Active, Terminal, Known, NoRow
    <3>. QED  BY <1>1, <3>1, <3>2, <3>3 DEF Taken
  <2>. QED  BY <1>1, <1>2, <1>5, <2>1 DEF SweepSafe, SweepPhase, IInv
<1>10. OpHonest' /\ LateSafe'
  BY <1>1, <1>3 DEF IInv, OpHonest, LateSafe, Honest, TypeOK, MonitorState
<1>11. Counted'
  <2>1. Slack' = Slack /\ Slack \in Nat
    BY <1>1, SlackIsNatural DEF IInv, Counted, Slack, Ended
  <2>2. \A t \in Session : ~Writing(t)' /\ ~Writing(t)
    BY <1>2 DEF Writing, ListActive, ListPending, ListNames
  <2>3. \A t \in mon'.todo : rows'[t].used <= mon'.copy[t].used
    BY <1>1, <1>2 DEF IInv, Counted, TypeOK, MonitorState, Row
  <2>4. \A t \in Session : VisitPhase' /\ t \in mon'.todo => rows[t].status \notin Terminal
    BY <1>2, <1>4 DEF VisitPhase, Active, Terminal
  <2>. QED  BY <1>1, <2>1, <2>2, <2>3, <2>4 DEF IInv, Counted
<1>. QED  BY <1>6, <1>7, <1>8, <1>9, <1>10, <1>11 DEF IInv

-------------------------------------------------------------------------------
(* Seats only go down.                                                         *)
SeatsDrop ==
  /\ seat' \in [Session -> {"none", "shell", "agent", "gone"}]
  /\ \A t \in Session : /\ Up(t)' => Up(t)
                        /\ seat[t] # "none" => seat'[t] # "none"

(* A kill by name takes down the seat of the session, and brings none up.  *)
LEMMA KillDrops ==
  ASSUME TypeOK, NEW s \in Session, seat' = KilledAs(s)
  PROVE  SeatsDrop /\ ~Up(s)'
BY DEF TypeOK, MonitorState, KilledAs, SeatsDrop, Up

(* Rows are honest about seats that go.                                    *)
LEMMA DropPersists ==
  ASSUME IInv, SeatsDrop, UNCHANGED rows
  PROVE  Persists /\ RowsHonest' /\ AdoptedSeated'
<1>1. Persists
  BY DEF SeatsDrop, Persists, Known, Gone, Taken
<1>2. RowsHonest'
  BY <1>1 DEF IInv, RowsHonest, Honest, Persists, Known
<1>3. AdoptedSeated'
  BY Parameters DEF IInv, AdoptedSeated, SeatsDrop, Known
<1>4. QED  BY <1>1, <1>2, <1>3

(* The count of solicitations depends on the rows, the copies and the RPC. *)
LEMMA CountStays ==
  ASSUME Counted, UNCHANGED <<rows, mon, op, asked, ops, crashes>>
  PROVE  Counted'
BY DEF Counted, Slack, Ended, Writing, Visited, VisitPhase

(* A step that keeps what was so, and leaves the monitor and the RPC alone.    *)
LEMMA ThreadsStand ==
  ASSUME IInv, Persists, UNCHANGED <<mon, op>>,
         \A s \in Session : rows[s].status \in Terminal => rows'[s].status \in Terminal
  PROVE  CopiesHonest' /\ SweepSafe' /\ OpHonest'
<1>1. CopiesHonest'
  BY DEF IInv, TypeOK, MonitorState, CopiesHonest, VisitPhase, Visited, Honest, Persists
<1>2. SweepSafe'
  BY DEF IInv, TypeOK, MonitorState, CopiesHonest, SweepSafe, SweepPhase, Visited, Persists
<1>3. OpHonest'
  BY DEF IInv, TypeOK, MonitorState, OpHonest, Honest, Persists
<1>4. QED  BY <1>1, <1>2, <1>3

(* A seat goes down and nothing else changes.                                  *)
LEMMA DownKeeps ==
  ASSUME IInv, NEW s \in Session, AgentExits(s) \/ SeatDies(s)
  PROVE  IInv'
<1> USE DEF AgentExits, SeatDies
<1>1. SeatsDrop
  BY DEF IInv, TypeOK, MonitorState, SeatsDrop, Up
<1>2. Persists /\ RowsHonest' /\ AdoptedSeated'
  BY <1>1, DropPersists
<1>3. CopiesHonest' /\ SweepSafe' /\ OpHonest'
  BY <1>2, ThreadsStand
<1>4. Counted'
  BY CountStays DEF IInv
<1>5. TypeOK'
  BY <1>1 DEF IInv, TypeOK, MonitorState, SeatsDrop
<1>6. LaunchAlone' /\ LateSafe'
  BY <1>2 DEF IInv, TypeOK, MonitorState, LaunchAlone, LateSafe, InOp, Persists, Known
<1>. QED  BY <1>2, <1>3, <1>4, <1>5, <1>6 DEF IInv

(* The sweep kills by name unless an active row claims the name.           *)
LEMMA SweepKillKeeps ==
  ASSUME IInv, NEW s \in Session, SweepKill(s)
  PROVE  IInv'
<1> USE DEF SweepKill
<1>1. SeatsDrop /\ Gone(s)'
  <2>1. CASE NameOf[s] \in mon.names
    BY <2>1 DEF IInv, TypeOK, MonitorState, SeatsDrop, Gone, Taken, Up, SweepSafe, Visited
  <2>2. CASE NameOf[s] \notin mon.names
    BY <2>2, KillDrops DEF IInv, Gone
  <2>. QED  BY <2>1, <2>2
<1>2. Persists /\ RowsHonest' /\ AdoptedSeated'
  BY <1>1, DropPersists
<1>3. /\ mon' \in MonitorState
      /\ mon'.at = "stamp" /\ mon'.todo = mon.todo /\ mon'.copy = mon.copy
      /\ mon'.names = mon.names
  BY DEF IInv, TypeOK, MonitorState
<1>4. TypeOK'
  BY <1>1, <1>3 DEF IInv, TypeOK, MonitorState, SeatsDrop
<1>5. CopiesHonest'
  BY <1>2, <1>3 DEF IInv, TypeOK, MonitorState, CopiesHonest, VisitPhase, Honest, Persists
<1>6. SweepSafe'
  <2>1. \A t \in mon.todo : Visited(t)' => t = s
    BY <1>3, Parameters DEF Visited, IInv, TypeOK, MonitorState
  <2>. QED  BY <1>1, <1>2, <1>3, <2>1 DEF IInv, TypeOK, MonitorState, SweepSafe, SweepPhase, Persists
<1>7. OpHonest' /\ LateSafe' /\ LaunchAlone'
  BY <1>2, <1>3 DEF IInv, TypeOK, MonitorState, OpHonest, LateSafe, LaunchAlone, InOp, Honest, Persists, Known
<1>8. Counted'
  BY <1>3 DEF IInv, Counted, Slack, Ended, Writing, VisitPhase
<1>. QED  BY <1>2, <1>4, <1>5, <1>6, <1>7, <1>8 DEF IInv

(* The sweep marks a row whose seat it has killed, or found gone.          *)
LEMMA SweepStampKeeps ==
  ASSUME IInv, NEW s \in Session, SweepStamp(s)
  PROVE  IInv'
<1> USE DEF SweepStamp
<1> DEFINE row == [Copy(s) EXCEPT !.cleaned = TRUE]
<1>1. /\ s \in mon.todo /\ Copy(s) \in Row /\ Honest(s, Copy(s)) /\ Known(s) /\ Gone(s)
      /\ {rows[s].status, Copy(s).status} \subseteq Terminal /\ s \notin Adopted
  BY DEF IInv, TypeOK, MonitorState, Copy, CopiesHonest, SweepSafe, SweepPhase, Visited, Supervised
<1>2. row \in Row /\ row.status = Copy(s).status /\ row.used = Copy(s).used /\ Honest(s, row)
  <2>1. /\ row \in Row /\ row.status = Copy(s).status /\ row.used = Copy(s).used
        /\ row.reported = Copy(s).reported
    BY <1>1 DEF Row
  <2>. QED  BY <1>1, <2>1 DEF Honest
<1>3. Upsert(s, row)
  BY <1>1, <1>2 DEF UpsertOrRaise, Refused, Active, Terminal
<1> HIDE DEF row
<1>4. /\ rows' \in [Session -> Row] /\ Persists /\ Known(s)' /\ RowsHonest'
      /\ \A t \in Session \ {s} : rows'[t] = rows[t]
      /\ rows'[s].status = Copy(s).status /\ rows'[s].used = Copy(s).used
  BY <1>2, <1>3, WriteRow
<1>5. /\ mon' \in MonitorState
      /\ mon'.todo = mon.todo \ {s} /\ mon'.at \in {"idle", "sweep"}
      /\ mon'.at = "idle" => mon'.todo = {}
      /\ mon'.at = "sweep" => mon'.names = mon.names
      /\ \A t \in mon'.todo : mon'.copy[t] = mon.copy[t]
  <2>1. NoRow \in Row
    BY Parameters DEF NoRow, Row
  <2>2. CASE mon.todo = {s}
    <3>1. IdleMonitor.copy \in [Session -> Row]
      BY <2>1 DEF IdleMonitor
    <3>. QED  BY <2>2, <3>1 DEF IdleMonitor, MonitorState
  <2>3. CASE mon.todo # {s}
    BY <2>1, <2>3 DEF IInv, TypeOK, MonitorState
  <2>. QED  BY <2>2, <2>3
<1>6. TypeOK'
  BY <1>4, <1>5 DEF IInv, TypeOK, MonitorState
<1>7. LaunchAlone'
  BY <1>1, <1>4, <1>5 DEF IInv, LaunchAlone, InOp, Copy, Unstarted, Persists, Known
<1>8. AdoptedSeated'
  BY <1>1, <1>4, Parameters DEF IInv, AdoptedSeated, Known
<1>9. CopiesHonest' /\ SweepSafe'
  BY <1>4, <1>5 DEF IInv, TypeOK, MonitorState, CopiesHonest, SweepSafe, SweepPhase, VisitPhase, Honest, Persists
<1>10. OpHonest' /\ LateSafe'
  BY <1>4 DEF IInv, OpHonest, LateSafe, Honest, Persists, TypeOK, MonitorState
<1>11. Counted'
  <2>1. Slack' = Slack /\ Slack \in Nat
    BY SlackIsNatural DEF IInv, Counted, Slack, Ended
  <2>2. \A t \in Session : ~Writing(t)' /\ ~Writing(t)
    BY <1>5 DEF Writing
  <2>3. op # NoOp => ops' > 0 /\ op.row.used <= rows'[op.s].used
    BY <1>1, <1>4 DEF IInv, Counted, TypeOK, MonitorState, Copy, Row
  <2>4. \A t \in mon'.todo : rows'[t].used <= mon'.copy[t].used
    BY <1>4, <1>5 DEF IInv, Counted, TypeOK, MonitorState
  <2>5. ASSUME NEW t \in Session
        PROVE  /\ asked[t] <= SolicitationLimit + Slack
               /\ rows'[t].status \notin Terminal \/ (VisitPhase' /\ t \in mon'.todo) =>
                    asked[t] <= rows'[t].used + Slack + (IF Writing(t)' THEN 1 ELSE 0)
    BY <1>1, <1>4, <1>5, <2>1, <2>2 DEF IInv, Counted, TypeOK, MonitorState, VisitPhase
  <2>. QED  BY <2>1, <2>2, <2>3, <2>4, <2>5 DEF Counted
<1>. QED  BY <1>4, <1>6, <1>7, <1>8, <1>9, <1>10, <1>11 DEF IInv

-------------------------------------------------------------------------------
(* Launch, adoption.                                                           *)
LEMMA AdmitKeeps ==
  ASSUME IInv, NEW s \in Session, Admit(s)
  PROVE  IInv'
<1> USE DEF Admit
<1>1. launch' \in [Session -> {"no", "admitted", "created", "registered",
                               "delivered", "failed", "killed", "over"}]
      /\ launch'[s] = "admitted" /\ \A t \in Session \ {s} : launch'[t] = launch[t]
  BY DEF IInv, TypeOK
<1>2. Persists /\ RowsHonest' /\ AdoptedSeated'
  BY DropPersists DEF SeatsDrop, IInv, TypeOK, Up
<1>3. CopiesHonest' /\ SweepSafe' /\ OpHonest' /\ Counted'
  BY <1>2, ThreadsStand, CountStays DEF IInv
<1>4. TypeOK'
  BY <1>1 DEF IInv, TypeOK
<1>5. LaunchAlone' /\ LateSafe'
  BY <1>1, <1>2 DEF IInv, LaunchAlone, LateSafe, InOp, Persists, Known
<1>. QED  BY <1>2, <1>3, <1>4, <1>5 DEF IInv

(* A seat comes up: nothing was said of it, for it had no row.                 *)
LEMMA SeatKeeps ==
  ASSUME IInv, NEW s \in Session, CreateSeat(s) \/ Deliver(s) \/ UserSeat(s)
  PROVE  IInv'
<1> USE DEF CreateSeat, Deliver, UserSeat
<1>1. /\ launch' \in [Session -> {"no", "admitted", "created", "registered",
                                  "delivered", "failed", "killed", "over"}]
      /\ \A t \in Session \ {s} : launch'[t] = launch[t]
      /\ \/ launch'[s] = launch[s]
         \/ launch[s] = "admitted" /\ launch'[s] \in {"created", "over"}
         \/ launch[s] = "registered" /\ launch'[s] \in {"delivered", "over"}
  BY DEF IInv, TypeOK
<1>2. /\ seat' \in [Session -> {"none", "shell", "agent", "gone"}]
      /\ \A t \in Session : seat[t] # "none" => seat'[t] # "none"
      /\ \A t \in Session : Up(t)' => Up(t) \/ t = s
  BY DEF IInv, TypeOK, Up
<1>3. Known(s) /\ Up(s)' => Up(s)
  <2>1. CASE CreateSeat(s)
    BY <2>1 DEF IInv, LaunchAlone
  <2>2. CASE Deliver(s)
    BY <2>2 DEF Up
  <2>3. CASE UserSeat(s)
    BY <2>3 DEF IInv, AdoptedSeated
  <2>. QED  BY <2>1, <2>2, <2>3
<1>4. Persists
  BY <1>2, <1>3 DEF Persists, Known, Gone, Taken
<1>5. RowsHonest' /\ AdoptedSeated'
  BY <1>2, <1>4, Parameters DEF IInv, RowsHonest, AdoptedSeated, Honest, Persists, Known
<1>6. CopiesHonest' /\ SweepSafe' /\ OpHonest' /\ Counted'
  BY <1>4, ThreadsStand, CountStays DEF IInv
<1>7. TypeOK'
  BY <1>1, <1>2 DEF IInv, TypeOK
<1>8. LaunchAlone' /\ LateSafe'
  BY <1>1, <1>4 DEF IInv, LaunchAlone, LateSafe, InOp, Persists, Known
<1>. QED  BY <1>4, <1>5, <1>6, <1>7, <1>8 DEF IInv

(* A launch that failed kills its seat first.                              *)
LEMMA KillFailedKeeps ==
  ASSUME IInv, NEW s \in Session, KillFailed(s)
  PROVE  IInv'
<1> USE DEF KillFailed
<1>1. launch' \in [Session -> {"no", "admitted", "created", "registered",
                               "delivered", "failed", "killed", "over"}]
      /\ launch'[s] = "killed" /\ \A t \in Session \ {s} : launch'[t] = launch[t]
  BY DEF IInv, TypeOK
<1>2. SeatsDrop /\ Gone(s)'
  BY KillDrops DEF IInv, Gone
<1>3. Persists /\ RowsHonest' /\ AdoptedSeated'
  BY <1>2, DropPersists
<1>4. CopiesHonest' /\ SweepSafe' /\ OpHonest' /\ Counted'
  BY <1>3, ThreadsStand, CountStays DEF IInv
<1>5. TypeOK'
  BY <1>1, <1>2 DEF IInv, TypeOK, SeatsDrop
<1>6. LaunchAlone' /\ LateSafe'
  BY <1>1, <1>2, <1>3 DEF IInv, LaunchAlone, LateSafe, InOp, Persists, Known
<1>. QED  BY <1>3, <1>4, <1>5, <1>6 DEF IInv

(* A pipeline writes what it holds of its own session, unseen by anybody else. *)
LEMMA LaunchWrites ==
  ASSUME IInv, NEW s \in Session, NEW row \in Row, Honest(s, row), row.used = 0,
         launch[s] \in {"created", "registered", "delivered", "killed"},
         NEW stage \in {"registered", "failed", "over"},
         stage # "over" => row.status # "running",
         rows[s].status \in Terminal => row.status \in Terminal,
         launch' = [launch EXCEPT ![s] = stage], Upsert(s, row),
         UNCHANGED <<seat, mon, op, late, asked, ops, crashes>>
  PROVE  IInv'
<1>1. /\ rows' \in [Session -> Row] /\ Persists /\ Known(s)' /\ RowsHonest'
      /\ \A t \in Session \ {s} : rows'[t] = rows[t]
      /\ rows'[s].status = row.status /\ rows'[s].used = 0
  BY WriteRow
<1>2. launch' \in [Session -> {"no", "admitted", "created", "registered",
                               "delivered", "failed", "killed", "over"}]
      /\ launch'[s] = stage /\ \A t \in Session \ {s} : launch'[t] = launch[t]
  BY DEF IInv, TypeOK
<1>3. /\ s \in Supervised /\ rows[s].used = 0
      /\ s \in mon.todo => Unstarted(mon.copy[s])
      /\ InOp(s) => Unstarted(op.row)
  <2>1. CASE launch[s] = "created"
    BY <2>1 DEF IInv, LaunchAlone, RowsHonest, Known, NoRow, CopiesHonest, OpHonest, InOp
  <2>2. CASE launch[s] # "created"
    BY <2>2 DEF IInv, LaunchAlone, Unstarted
  <2>. QED  BY <2>1, <2>2
<1>4. TypeOK'
  BY <1>1, <1>2 DEF IInv, TypeOK
<1>5. LaunchAlone'
  BY <1>1, <1>2, <1>3 DEF IInv, LaunchAlone, InOp, Unstarted, Persists, Known
<1>6. AdoptedSeated'
  BY <1>1, <1>3, Parameters DEF IInv, AdoptedSeated, Known, Supervised
<1>7. CopiesHonest' /\ SweepSafe' /\ OpHonest'
  BY <1>1, ThreadsStand
<1>8. LateSafe'
  BY <1>1 DEF IInv, LateSafe, Persists
<1>9. Counted'
  <2>1. Slack' = Slack /\ Slack \in Nat
    BY SlackIsNatural DEF IInv, Counted, Slack, Ended
  <2>2. \A t \in Session : rows'[t].used = rows[t].used
    BY <1>1, <1>3
  <2>3. \A t \in Session : rows'[t].status \notin Terminal => rows[t].status \notin Terminal
    BY <1>1
  <2>4. op # NoOp => op.s \in Session
    BY DEF IInv, TypeOK
  <2>5. \A t \in Session : Writing(t)' <=> Writing(t)
    BY DEF Writing, Visited
  <2>. QED  BY <2>1, <2>2, <2>3, <2>4, <2>5 DEF IInv, TypeOK, MonitorState, Counted, VisitPhase
<1>. QED  BY <1>1, <1>4, <1>5, <1>6, <1>7, <1>8, <1>9 DEF IInv

(* The other steps of a launch write a row nobody has seen run.            *)
LEMMA LaunchKeeps ==
  ASSUME IInv, NEW s \in Session, Register(s) \/ HandOver(s) \/ NotReady(s) \/ StampFailed(s)
  PROVE  IInv'
<1>2. BootingRow \in Row /\ BootingRow.status = "booting" /\ BootingRow.used = 0 /\ ~BootingRow.cleaned
  BY NoRowIsRow DEF BootingRow, Row, Active
<1>1. ASSUME NEW status \in Active \cup Terminal
      PROVE  LET row == [BootingRow EXCEPT !.status = status]
             IN row \in Row /\ row.status = status /\ row.used = 0 /\ ~row.cleaned
  BY <1>2 DEF Row
<1>3. CASE Register(s)
  <2>1. Honest(s, BootingRow) /\ rows[s].status \notin Terminal
    BY <1>2, <1>3 DEF Register, Honest, IInv, LaunchAlone, Known, Terminal
  <2>. QED  BY <1>2, <1>3, <2>1, LaunchWrites DEF Register
<1>4. CASE HandOver(s)
  <2> DEFINE row == [BootingRow EXCEPT !.status = "running"]
  <2>1. row \in Row /\ row.status = "running" /\ row.used = 0 /\ ~row.cleaned
    BY <1>1 DEF Active
  <2>2. Honest(s, row)
    BY <2>1 DEF Honest
  <2>3. CASE Refused(s, row)
    <3>1. UNCHANGED rows
      BY <1>4, <2>3 DEF HandOver, UpsertOrRaise
    <3>2. launch' \in [Session -> {"no", "admitted", "created", "registered",
                                   "delivered", "failed", "killed", "over"}]
          /\ launch'[s] = "over" /\ \A t \in Session \ {s} : launch'[t] = launch[t]
      BY <1>4 DEF IInv, TypeOK, HandOver
    <3>3. SeatsDrop
      BY <1>4 DEF SeatsDrop, IInv, TypeOK, Up, HandOver
    <3>4. Persists /\ RowsHonest' /\ AdoptedSeated'
      BY <3>1, <3>3, DropPersists
    <3>5. CopiesHonest' /\ SweepSafe' /\ OpHonest' /\ Counted'
      BY <1>4, <3>1, <3>4, ThreadsStand, CountStays DEF IInv, HandOver
    <3>6. TypeOK' /\ LaunchAlone' /\ LateSafe'
      BY <1>4, <3>1, <3>2, <3>4 DEF IInv, TypeOK, LaunchAlone, LateSafe, InOp, Persists, Known, HandOver
    <3>. QED  BY <3>4, <3>5, <3>6 DEF IInv
  <2>4. CASE ~Refused(s, row)
    <3>1. rows[s].status \notin Terminal /\ Upsert(s, row)
      BY <1>4, <2>1, <2>4 DEF HandOver, UpsertOrRaise, Refused, Active
    <3> HIDE DEF row
    <3>. QED  BY <1>4, <2>1, <2>2, <3>1, LaunchWrites DEF HandOver
  <2>. QED  BY <2>3, <2>4
<1>5. CASE NotReady(s)
  <2>1. FailedLaunch \in Row /\ FailedLaunch.status = "failed" /\ FailedLaunch.used = 0
        /\ ~FailedLaunch.cleaned
    BY <1>1 DEF FailedLaunch, Terminal
  <2>2. Honest(s, FailedLaunch)
    BY <2>1 DEF Honest
  <2>. QED  BY <1>5, <2>1, <2>2, LaunchWrites DEF NotReady, Terminal
<1>6. CASE StampFailed(s)
  <2> DEFINE row == [FailedLaunch EXCEPT !.cleaned = TRUE]
  <2>1. row \in Row /\ row.status = "failed" /\ row.used = 0
    BY <1>1 DEF FailedLaunch, Terminal, Row
  <2>2. Honest(s, row)
    BY <1>6, <2>1 DEF Honest, StampFailed, IInv, LaunchAlone
  <2>3. Upsert(s, row)
    BY <1>6 DEF StampFailed
  <2> HIDE DEF row
  <2>. QED  BY <1>6, <2>1, <2>2, <2>3, LaunchWrites DEF StampFailed, Terminal
<1>. QED  BY <1>3, <1>4, <1>5, <1>6

(* An adopted session has a seat when its row is made.                     *)
LEMMA AdoptKeeps ==
  ASSUME IInv, NEW s \in Session, Adopt(s)
  PROVE  IInv'
<1> USE DEF Adopt
<1> DEFINE row == [NoRow EXCEPT !.status = "running"]
<1>1. /\ row \in Row /\ row.status = "running" /\ row.used = 0 /\ Honest(s, row) /\ Upsert(s, row)
  BY NoRowIsRow DEF Row, Active, Honest
<1> HIDE DEF row
<1>2. /\ rows' \in [Session -> Row] /\ Persists /\ Known(s)' /\ RowsHonest'
      /\ \A t \in Session \ {s} : rows'[t] = rows[t]
      /\ rows'[s].status = "running" /\ rows'[s].used = 0
  BY <1>1, WriteRow
<1>3. ~Known(s) /\ launch[s] = "no" /\ rows[s].used = 0 /\ rows[s].status \notin Terminal
  BY Parameters DEF Known, NoRow, IInv, LaunchAlone, Supervised, TypeOK, Terminal
<1>4. TypeOK'
  BY <1>2 DEF IInv, TypeOK
<1>5. LaunchAlone'
  BY <1>2, <1>3 DEF IInv, LaunchAlone, InOp, Unstarted, Persists, Known, Supervised
<1>6. AdoptedSeated'
  BY <1>2, Parameters DEF IInv, AdoptedSeated, Known, Up
<1>7. CopiesHonest' /\ SweepSafe' /\ OpHonest'
  BY <1>2, <1>3, ThreadsStand
<1>8. LateSafe'
  BY <1>2 DEF IInv, LateSafe, Persists
<1>9. Counted'
  <2>1. Slack' = Slack /\ Slack \in Nat
    BY SlackIsNatural DEF IInv, Counted, Slack, Ended
  <2>2. \A t \in Session : rows'[t].used = rows[t].used
    BY <1>2, <1>3
  <2>3. \A t \in Session : rows'[t].status \notin Terminal => rows[t].status \notin Terminal
    BY <1>2, <1>3
  <2>4. op # NoOp => op.s \in Session
    BY DEF IInv, TypeOK
  <2>5. \A t \in Session : Writing(t)' <=> Writing(t)
    BY DEF Writing, Visited
  <2>. QED  BY <2>1, <2>2, <2>3, <2>4, <2>5 DEF IInv, TypeOK, MonitorState, Counted, VisitPhase
<1>. QED  BY <1>2, <1>4, <1>5, <1>6, <1>7, <1>8, <1>9 DEF IInv

-------------------------------------------------------------------------------
(* The operator's RPC.                                                         *)
LEMMA BeginOpKeeps ==
  ASSUME IInv, NEW s \in Session, NEW kind \in OpKind, BeginOp(kind, s)
  PROVE  IInv'
<1> USE DEF BeginOp
<1>1. Known(s) /\ Honest(s, rows[s]) /\ rows[s] \in Row
  BY DEF IInv, TypeOK, RowsHonest
<1>2. /\ op' \in [kind : OpKind, s : Session, at : {"kill", "write"}, row : Row]
      /\ op' # NoOp /\ op'.s = s /\ op'.row = rows[s]
      /\ op'.at = "write" => op'.kind = "capture"
  BY <1>1 DEF NoOp, OpKind
<1>3. /\ ops \in Nat /\ ops' = ops + 1 /\ ops' \in 0..MaxOps
  BY Parameters DEF IInv, TypeOK
<1>4. Persists /\ RowsHonest' /\ AdoptedSeated'
  BY DropPersists DEF SeatsDrop, IInv, TypeOK, Up
<1>5. TypeOK'
  BY <1>2, <1>3 DEF IInv, TypeOK
<1>6. LaunchAlone' /\ LateSafe'
  BY <1>2, <1>4 DEF IInv, LaunchAlone, LateSafe, InOp, Persists, Known
<1>7. CopiesHonest'
  BY <1>4 DEF IInv, TypeOK, MonitorState, CopiesHonest, VisitPhase, Visited, Honest, Persists
<1>8. SweepSafe'
  BY <1>4 DEF IInv, TypeOK, MonitorState, CopiesHonest, SweepSafe, SweepPhase, Visited, Persists
<1>9. OpHonest'
  BY <1>1, <1>2, <1>4 DEF OpHonest, Honest, Persists
<1>10. Counted'
  <2>1. Ended' = Ended
    BY <1>2, <1>3 DEF Ended
  <2>2. Slack' = Slack
    BY <2>1 DEF Slack
  <2>3. ops' > 0 /\ rows[s].used <= rows[s].used
    BY <1>1, <1>3, Parameters DEF Row
  <2>. QED  BY <1>2, <2>2, <2>3 DEF IInv, Counted, Writing, Visited, VisitPhase
<1>. QED  BY <1>4, <1>5, <1>6, <1>7, <1>8, <1>9, <1>10 DEF IInv

(* An RPC kills the seat before it writes its copy of the row.             *)
LEMMA OpKillsKeeps ==
  ASSUME IInv, OpKills
  PROVE  IInv'
<1> USE DEF OpKills
<1>1. /\ op # NoOp /\ op.s \in Session
      /\ op' \in [kind : OpKind, s : Session, at : {"kill", "write"}, row : Row]
      /\ op' # NoOp /\ op'.s = op.s /\ op'.row = op.row
  BY DEF NoOp, OpKind, IInv, TypeOK
<1>2. SeatsDrop /\ Gone(op.s)'
  BY <1>1, KillDrops DEF IInv, Gone
<1>3. Persists /\ RowsHonest' /\ AdoptedSeated'
  BY <1>2, DropPersists
<1>4. TypeOK'
  BY <1>1, <1>2 DEF IInv, TypeOK, SeatsDrop
<1>5. LaunchAlone' /\ LateSafe'
  BY <1>1, <1>3 DEF IInv, LaunchAlone, LateSafe, InOp, Persists, Known
<1>6. CopiesHonest'
  BY <1>3 DEF IInv, TypeOK, MonitorState, CopiesHonest, VisitPhase, Visited, Honest, Persists
<1>7. SweepSafe'
  BY <1>3 DEF IInv, TypeOK, MonitorState, CopiesHonest, SweepSafe, SweepPhase, Visited, Persists
<1>8. OpHonest'
  BY <1>1, <1>2, <1>3 DEF IInv, OpHonest, Honest, Persists
<1>9. Counted'
  BY <1>1 DEF IInv, Counted, Slack, Ended, Writing, Visited, VisitPhase
<1>. QED  BY <1>3, <1>4, <1>5, <1>6, <1>7, <1>8, <1>9 DEF IInv

(* The copy may be old: what it misses of the count it takes back, once.       *)
LEMMA OpWritesKeeps ==
  ASSUME IInv, OpWrites
  PROVE  IInv'
<1> USE DEF OpWrites
<1>1. /\ op # NoOp /\ op.s \in Session /\ op.row \in Row /\ op.kind \in OpKind
      /\ Known(op.s) /\ Honest(op.s, op.row)
      /\ op.kind # "capture" => Gone(op.s)
  BY DEF NoOp, IInv, TypeOK, OpHonest
<1>2. /\ OpRow \in Row /\ OpRow.used = op.row.used /\ OpRow.reported = op.row.reported
      /\ OpRow.cleaned => op.row.cleaned \/ op.kind = "cleanup"
      /\ OpRow.status = op.row.status \/ OpRow.status = "stopped"
  <2>1. CASE op.kind = "capture"
    BY <1>1, <2>1 DEF OpRow
  <2>2. CASE op.kind = "cancel"
    BY <1>1, <2>2 DEF OpRow, Row, Terminal
  <2>3. CASE op.kind = "cleanup"
    BY <1>1, <2>3 DEF OpRow, Row, Terminal
  <2>. QED  BY <1>1, <2>1, <2>2, <2>3 DEF OpKind
<1>3. Honest(op.s, OpRow)
  BY <1>1, <1>2 DEF Honest
<1>4. /\ rows' \in [Session -> Row] /\ Persists /\ RowsHonest'
      /\ \A t \in Session \ {op.s} : rows'[t] = rows[t]
      /\ \/ rows' = rows
         \/ /\ rows[op.s].status \in Terminal => OpRow.status \in Terminal
            /\ rows'[op.s].status = OpRow.status /\ rows'[op.s].used = op.row.used
  <2>1. CASE Refused(op.s, OpRow)
    BY <2>1 DEF UpsertOrRaise, IInv, TypeOK, Persists, Known, Gone, Taken, Up, RowsHonest, Honest
  <2>2. CASE ~Refused(op.s, OpRow)
    <3>1. Upsert(op.s, OpRow)
      BY <2>2 DEF UpsertOrRaise
    <3>2. rows[op.s].status \in Terminal => OpRow.status \in Terminal
      BY <1>2, <1>3, <2>2 DEF Refused, Row, Honest
    <3>. QED  BY <1>1, <1>2, <1>3, <3>1, <3>2, WriteRow
  <2>. QED  BY <2>1, <2>2
<1> HIDE DEF OpRow
<1>5. \A t \in Session : rows[t].status \in Terminal => rows'[t].status \in Terminal
  BY <1>4
<1>6. TypeOK'
  BY <1>4 DEF IInv, TypeOK
<1>7. LaunchAlone'
  BY <1>1, <1>2, <1>4 DEF IInv, LaunchAlone, InOp, Unstarted, Persists, Known
<1>8. AdoptedSeated'
  BY <1>1, <1>4, Parameters DEF IInv, AdoptedSeated, Known
<1>9. CopiesHonest'
  BY <1>4 DEF IInv, TypeOK, MonitorState, CopiesHonest, VisitPhase, Visited, Honest, Persists
<1>10. SweepSafe'
  BY <1>4, <1>5 DEF IInv, TypeOK, MonitorState, CopiesHonest, SweepSafe, SweepPhase, Visited, Persists
<1>11. OpHonest' /\ LateSafe'
  BY <1>4 DEF IInv, OpHonest, LateSafe, Persists
<1>12. Counted'
  <2>1. /\ Slack \in Nat /\ SolicitationLimit \in Nat /\ ops \in Nat /\ ops > 0
        /\ Ended \in Nat /\ crashes \in Nat
    BY <1>1, SlackIsNatural, Parameters DEF IInv, Counted, TypeOK
  <2>2. Ended' = Ended + 1
    BY <1>1, <2>1 DEF Ended
  <2>3. SolicitationLimit * (Ended + 1) = SolicitationLimit * Ended + SolicitationLimit
    BY <2>1
  <2>4. SolicitationLimit * Ended \in Nat
    BY <2>1
  <2>5. Slack' = Slack + SolicitationLimit
    BY <2>1, <2>2, <2>3, <2>4 DEF Slack
  <2>6. \A t \in Session : Writing(t)' <=> Writing(t)
    BY DEF Writing, Visited
  <2>7. ASSUME NEW t \in Session
        PROVE  /\ rows'[t].used <= rows[t].used
               /\ rows[t].used \in 0..SolicitationLimit /\ rows'[t].used \in 0..SolicitationLimit
    BY <1>1, <1>4 DEF IInv, Counted, TypeOK, Row
  <2>8. ASSUME NEW t \in mon.todo PROVE rows'[t].used <= mon.copy[t].used
    BY <2>7, <2>8 DEF IInv, Counted, TypeOK, MonitorState, Row
  <2>9. ASSUME NEW t \in Session, rows'[t].status \notin Terminal \/ (VisitPhase /\ t \in mon.todo)
        PROVE  asked[t] <= rows'[t].used + (Slack + SolicitationLimit) + (IF Writing(t) THEN 1 ELSE 0)
    <3>1. asked[t] <= rows[t].used + Slack + (IF Writing(t) THEN 1 ELSE 0) /\ asked[t] \in Nat
      BY <1>5, <2>9 DEF IInv, Counted, TypeOK
    <3>. QED  BY <2>1, <2>7, <3>1
  <2>10. ASSUME NEW t \in Session
         PROVE  /\ asked[t] <= SolicitationLimit + (Slack + SolicitationLimit)
                /\ Writing(t) => asked[t] <= mon.copy[t].used + (Slack + SolicitationLimit)
    <3>1. asked[t] \in Nat /\ mon.copy[t].used \in Nat
      BY Parameters DEF IInv, TypeOK, MonitorState, Row
    <3>. QED  BY <2>1, <3>1 DEF IInv, Counted
  <2>. QED  BY <2>5, <2>6, <2>8, <2>9, <2>10 DEF Counted, VisitPhase
<1>. QED  BY <1>4, <1>6, <1>7, <1>8, <1>9, <1>10, <1>11, <1>12 DEF IInv

-------------------------------------------------------------------------------
(* Reports, the clean-up after a late one, and the restart.                    *)
LEMMA ReportKeeps ==
  ASSUME IInv, NEW s \in Session, Report(s)
  PROVE  IInv'
<1> USE DEF Report
<1>1. /\ rows' \in [Session -> Row] /\ \A t \in Session \ {s} : rows'[t] = rows[t]
      /\ rows'[s].reported /\ rows'[s].used = rows[s].used /\ rows'[s].cleaned = rows[s].cleaned
      /\ \/ rows'[s].status = rows[s].status
         \/ rows[s].status = "exited" /\ rows'[s].status = "done"
  <2>1. rows \in [Session -> Row] /\ rows[s] \in Row
    BY DEF IInv, TypeOK
  <2>2. CASE rows' = [rows EXCEPT ![s].reported = TRUE]
    BY <2>1, <2>2 DEF Row
  <2>3. CASE AcceptedLate(s) /\ rows' = [rows EXCEPT ![s].reported = TRUE, ![s].status = "done"]
    <3>1. rows[s].status = "exited"
      BY <2>3 DEF AcceptedLate
    <3>2. [rows[s] EXCEPT !.reported = TRUE, !.status = "done"] \in Row
      BY <2>1 DEF Row, Terminal
    <3>3. rows' = [rows EXCEPT ![s] = [rows[s] EXCEPT !.reported = TRUE, !.status = "done"]]
      BY <2>3
    <3>4. rows'[s] = [rows[s] EXCEPT !.reported = TRUE, !.status = "done"]
      BY <2>1, <3>3
    <3>5. /\ rows'[s].reported /\ rows'[s].status = "done"
          /\ rows'[s].used = rows[s].used /\ rows'[s].cleaned = rows[s].cleaned
      BY <2>1, <3>4 DEF Row
    <3>. QED  BY <2>1, <3>1, <3>2, <3>3, <3>5
  <2>. QED  BY <2>2, <2>3
<1>2. /\ late' \in [Session -> {"no", "kill", "mark"}]
      /\ \A t \in Session : late'[t] = late[t] \/ (late'[t] = "kill" /\ Known(t))
  <2>1. late' = late \/ (Known(s) /\ late' = [late EXCEPT ![s] = "kill"])
    BY DEF AcceptedLate, Known
  <2> HIDE DEF Report
  <2>. QED  BY <2>1 DEF IInv, TypeOK
<1>3. Known(s)
  BY DEF Accepted, AcceptedLate, Active, Known
<1>4. \A t \in Session : rows[t] # NoRow => rows'[t] # NoRow
  <2> HIDE DEF Report
  <2>. QED  BY <1>1, <1>3, NoRowIsRow DEF Known, Terminal
<1>5. Persists
  BY <1>1, <1>3, <1>4 DEF Persists, Known, Gone, Taken, Up
<1>6. RowsHonest'
  BY <1>1, <1>3, <1>5 DEF IInv, RowsHonest, Honest, Persists, Known
<1>7. \A t \in Session : rows[t].status \in Terminal <=> rows'[t].status \in Terminal
  BY <1>1 DEF Terminal
<1>8. TypeOK'
  BY <1>1, <1>2 DEF IInv, TypeOK
<1>9. LaunchAlone' /\ LateSafe'
  BY <1>1, <1>2, <1>3, <1>5 DEF IInv, LaunchAlone, LateSafe, InOp, Unstarted, Persists, Known
<1>10. AdoptedSeated'
  BY <1>1, <1>3, Parameters DEF IInv, AdoptedSeated, Known
<1>11. CopiesHonest' /\ SweepSafe' /\ OpHonest'
  BY <1>5, <1>7, ThreadsStand
<1>12. Counted'
  <2>1. Slack' = Slack
    BY DEF Slack, Ended
  <2>2. \A t \in Session : rows'[t].used = rows[t].used
    BY <1>1
  <2>3. op # NoOp => op.s \in Session
    BY DEF IInv, TypeOK
  <2>4. \A t \in Session : Writing(t)' <=> Writing(t)
    BY DEF Writing, Visited
  <2>. QED  BY <1>7, <2>1, <2>2, <2>3, <2>4 DEF IInv, TypeOK, MonitorState, Counted, VisitPhase
<1>. QED  BY <1>6, <1>8, <1>9, <1>10, <1>11, <1>12 DEF IInv

(* So does the clean-up after a late result.                               *)
LEMMA LateKeeps ==
  ASSUME IInv, NEW s \in Session, LateKill(s) \/ LateMark(s)
  PROVE  IInv'
<1>1. CASE LateKill(s)
  <2> USE <1>1 DEF LateKill
  <2>1. SeatsDrop /\ Gone(s)'
    BY KillDrops DEF IInv, Gone
  <2>2. Persists /\ RowsHonest' /\ AdoptedSeated'
    BY <2>1, DropPersists
  <2>3. CopiesHonest' /\ SweepSafe' /\ OpHonest' /\ Counted'
    BY <2>2, ThreadsStand, CountStays DEF IInv
  <2>4. /\ late' \in [Session -> {"no", "kill", "mark"}]
        /\ \A t \in Session \ {s} : late'[t] = late[t]
    BY DEF IInv, TypeOK
  <2>5. TypeOK'
    BY <2>1, <2>4 DEF IInv, TypeOK, SeatsDrop
  <2>6. LaunchAlone' /\ LateSafe'
    BY <2>1, <2>2, <2>4 DEF IInv, LaunchAlone, LateSafe, InOp, Persists, Known
  <2>. QED  BY <2>2, <2>3, <2>5, <2>6 DEF IInv
<1>2. CASE LateMark(s)
  <2> USE <1>2 DEF LateMark
  <2>1. /\ rows' \in [Session -> Row] /\ \A t \in Session \ {s} : rows'[t] = rows[t]
        /\ rows'[s].reported = rows[s].reported /\ rows'[s].used = rows[s].used
        /\ rows'[s].status = rows[s].status
    BY DEF IInv, TypeOK, Row
  <2>2. Known(s) /\ Gone(s)
    BY DEF IInv, LateSafe
  <2>3. \A t \in Session : rows[t] # NoRow => rows'[t] # NoRow
    BY <2>1, <2>2 DEF Known, NoRow
  <2>4. Persists
    BY <2>1, <2>2, <2>3 DEF Persists, Known, Gone, Taken, Up
  <2>5. RowsHonest'
    BY <2>1, <2>2, <2>4 DEF IInv, RowsHonest, Honest, Persists, Known
  <2>6. /\ late' \in [Session -> {"no", "kill", "mark"}]
        /\ \A t \in Session : late'[t] \in {late[t], "no"}
    BY DEF IInv, TypeOK
  <2>7. TypeOK'
    BY <2>1, <2>6 DEF IInv, TypeOK
  <2>8. LaunchAlone' /\ LateSafe'
    BY <2>1, <2>2, <2>4, <2>6 DEF IInv, LaunchAlone, LateSafe, InOp, Unstarted, Persists, Known
  <2>9. AdoptedSeated'
    BY <2>1, Parameters DEF IInv, AdoptedSeated, Known
  <2>10. CopiesHonest' /\ SweepSafe' /\ OpHonest'
    BY <2>1, <2>4, ThreadsStand
  <2>11. Counted'
    <3>1. Slack' = Slack
      BY DEF Slack, Ended
    <3>2. \A t \in Session : rows'[t].used = rows[t].used /\ rows'[t].status = rows[t].status
      BY <2>1
    <3>3. op # NoOp => op.s \in Session
      BY DEF IInv, TypeOK
    <3>4. \A t \in Session : Writing(t)' <=> Writing(t)
      BY DEF Writing, Visited
    <3>. QED  BY <3>1, <3>2, <3>3, <3>4 DEF IInv, TypeOK, MonitorState, Counted, VisitPhase
  <2>. QED  BY <2>5, <2>7, <2>8, <2>9, <2>10, <2>11 DEF IInv
<1>. QED  BY <1>1, <1>2

(* Rows and seats outlive the host; its threads and their copies do not.       *)
LEMMA RestartKeeps ==
  ASSUME IInv, Restart
  PROVE  IInv'
<1> USE DEF Restart
<1>1. /\ rows' \in [Session -> Row]
      /\ \A s \in Session : /\ rows'[s].status = rows[s].status
                            /\ rows'[s].reported = rows[s].reported
                            /\ rows'[s].cleaned = rows[s].cleaned
                            /\ rows'[s].used = rows[s].used
                            /\ ~Known(s) => rows'[s] = rows[s]
  BY DEF IInv, TypeOK, Row, Latched, Known, Active
<1>2. /\ mon' \in MonitorState /\ mon'.at = "idle" /\ mon'.todo = {}
  BY NoRowIsRow DEF MonitorState, IdleMonitor
<1>3. \A t \in Session : rows[t] # NoRow => rows'[t] # NoRow
  <2> HIDE DEF Restart
  <2>. QED  BY <1>1, NoRowIsRow DEF IInv, RowsHonest, Known
<1>4. Persists
  BY <1>1, <1>3 DEF Persists, Known, Gone, Taken, Up
<1>5. RowsHonest' /\ AdoptedSeated'
  BY <1>1, <1>4, Parameters DEF IInv, RowsHonest, AdoptedSeated, Honest, Persists, Known
<1>6. TypeOK'
  <2>1. crashes' \in 0..MaxCrashes
    BY Parameters DEF IInv, TypeOK
  <2>. QED  BY <1>1, <1>2, <2>1 DEF IInv, TypeOK
<1>7. LaunchAlone' /\ LateSafe'
  BY <1>1 DEF IInv, TypeOK, LaunchAlone, LateSafe, InOp, Known
<1>8. CopiesHonest' /\ SweepSafe' /\ OpHonest'
  BY <1>2 DEF CopiesHonest, SweepSafe, SweepPhase, VisitPhase, OpHonest
<1>9. Counted'
  <2>1. /\ Slack \in Nat /\ SolicitationLimit \in Nat /\ ops \in Nat /\ (op # NoOp => ops > 0)
        /\ Ended \in Nat /\ crashes \in Nat /\ Ended' \in Nat /\ Ended' \in {Ended, Ended + 1}
    BY SlackIsNatural, Parameters DEF IInv, Counted, TypeOK, Ended
  <2>2. SolicitationLimit * (Ended + 1) = SolicitationLimit * Ended + SolicitationLimit
    BY <2>1
  <2>3. SolicitationLimit * Ended \in Nat
    BY <2>1
  <2>4. Slack' \in Nat /\ Slack' >= Slack + 1
    BY <2>1, <2>2, <2>3 DEF Slack
  <2>5. \A t \in Session : ~Writing(t)'
    BY <1>2 DEF Writing
  <2>6. ASSUME NEW t \in Session
        PROVE  /\ asked[t] <= SolicitationLimit + Slack'
               /\ rows'[t].status \notin Terminal =>
                    asked[t] <= rows'[t].used + Slack' + (IF Writing(t)' THEN 1 ELSE 0)
    <3>1. asked[t] \in Nat /\ rows[t].used \in Nat
      BY Parameters DEF IInv, TypeOK, Row
    <3>. QED  BY <1>1, <2>1, <2>4, <2>5, <3>1 DEF IInv, Counted
  <2>. QED  BY <1>2, <2>5, <2>6 DEF Counted, VisitPhase
<1>. QED  BY <1>5, <1>6, <1>7, <1>8, <1>9 DEF IInv

-------------------------------------------------------------------------------
(* The initial states satisfy the invariant.                               *)
LEMMA InitIInv == Init => IInv
<1> SUFFICES ASSUME Init PROVE IInv
  OBVIOUS
<1> USE DEF Init
<1>1. IdleMonitor \in MonitorState /\ IdleMonitor.at = "idle" /\ IdleMonitor.todo = {}
  BY NoRowIsRow DEF MonitorState, IdleMonitor
<1>2. TypeOK
  BY <1>1, NoRowIsRow, Parameters DEF TypeOK
<1>3. RowsHonest /\ LaunchAlone /\ AdoptedSeated /\ LateSafe
  BY NoRowIsRow, Parameters DEF RowsHonest, LaunchAlone, AdoptedSeated, LateSafe, Known
<1>4. CopiesHonest /\ SweepSafe /\ OpHonest
  BY <1>1 DEF CopiesHonest, SweepSafe, SweepPhase, VisitPhase, OpHonest
<1>5. Counted
  <2>1. Slack \in Nat /\ SolicitationLimit \in Nat
    BY <1>2, SlackIsNatural, Parameters
  <2>. QED  BY <1>1, <2>1, NoRowIsRow DEF Counted, Writing, VisitPhase
<1>. QED  BY <1>2, <1>3, <1>4, <1>5 DEF IInv

(* Every step of the monitor keeps it.                                     *)
LEMMA MonitorKeeps == ASSUME IInv, Monitor PROVE IInv'
<1>1. ASSUME NEW s \in Session, VisitBooting(s) PROVE IInv'
  BY <1>1, LeaveKeeps DEF VisitBooting, Visiting
<1>2. ASSUME NEW s \in Session, Visit(s) PROVE IInv'
  BY <1>1, <1>2, VisitKeeps, SolicitKeeps, WriteBackKeeps, SweepKillKeeps, SweepStampKeeps
  DEF Visit
<1>. QED  BY <1>2, ListKeeps DEF Monitor

(* Every step keeps it, one lemma per action.                              *)
LEMMA NextKeeps == IInv /\ [Next]_vars => IInv'
<1> SUFFICES ASSUME IInv, [Next]_vars PROVE IInv'
  OBVIOUS
<1>1. CASE Monitor
  BY <1>1, MonitorKeeps
<1>2. CASE OpKills \/ OpWrites \/ Restart
  BY <1>2, OpKillsKeeps, OpWritesKeeps, RestartKeeps
<1>3. ASSUME NEW s \in Session, Admit(s) \/ Pipeline(s) \/ UserSeat(s) \/ Adopt(s)
      PROVE  IInv'
  BY <1>3, AdmitKeeps, SeatKeeps, LaunchKeeps, KillFailedKeeps, AdoptKeeps DEF Pipeline
<1>4. ASSUME NEW s \in Session, Report(s) \/ LateCleanup(s) \/ AgentExits(s) \/ SeatDies(s)
      PROVE  IInv'
  BY <1>4, ReportKeeps, LateKeeps, DownKeeps DEF LateCleanup
<1>5. ASSUME NEW s \in Session, NEW kind \in OpKind, BeginOp(kind, s) PROVE IInv'
  BY <1>5, BeginOpKeeps
<1>6. CASE UNCHANGED vars
  <2> USE <1>6 DEF vars
  <2>1. Persists /\ RowsHonest' /\ AdoptedSeated'
    BY DropPersists DEF SeatsDrop, IInv, TypeOK, Up
  <2>2. CopiesHonest' /\ SweepSafe' /\ OpHonest' /\ Counted'
    BY <2>1, ThreadsStand, CountStays DEF IInv
  <2>3. TypeOK' /\ LaunchAlone' /\ LateSafe'
    BY <2>1 DEF IInv, TypeOK, LaunchAlone, LateSafe, InOp, Persists, Known
  <2>. QED  BY <2>1, <2>2, <2>3 DEF IInv
<1>. QED  BY <1>1, <1>2, <1>3, <1>4, <1>5, <1>6 DEF Next

(* The invariant gives RowsTruthful.                                       *)
LEMMA IInvTruthful == IInv => RowsTruthful
<1> SUFFICES ASSUME IInv PROVE RowsTruthful
  OBVIOUS
<1>1. DoneMeansReported
  BY Parameters DEF IInv, RowsHonest, Honest, DoneMeansReported, Known
<1>2. CleanedMeansGone
  BY NoRowIsRow DEF IInv, RowsHonest, Honest, CleanedMeansGone, Gone, Taken, Known
<1>3. SolicitationsBounded
  <2>1. /\ Slack \in Nat /\ SolicitationLimit \in Nat /\ ops \in Nat /\ (op # NoOp => ops > 0)
        /\ Ended \in Nat /\ crashes \in Nat /\ ops \in {Ended, Ended + 1}
    BY SlackIsNatural, Parameters DEF IInv, Counted, TypeOK, Ended
  <2>2. /\ SolicitationLimit * (Ended + 1) = SolicitationLimit * Ended + SolicitationLimit
        /\ SolicitationLimit * (1 + ops) = SolicitationLimit * ops + SolicitationLimit
    BY <2>1
  <2>3. SolicitationLimit * Ended \in Nat /\ SolicitationLimit * ops \in Nat
    BY <2>1
  <2>4. SolicitationLimit + Slack <= SolicitationLimit * (1 + ops) + crashes
    BY <2>1, <2>2, <2>3 DEF Slack
  <2>5. ASSUME NEW s \in Session PROVE asked[s] <= SolicitationLimit * (1 + ops) + crashes
    <3>1. asked[s] \in Nat /\ asked[s] <= SolicitationLimit + Slack
      BY DEF IInv, TypeOK, Counted
    <3>2. SolicitationLimit * (1 + ops) + crashes \in Nat
      BY <2>1, <2>2, <2>3
    <3>. QED  BY <2>1, <2>4, <3>1, <3>2
  <2>. QED  BY <2>5 DEF SolicitationsBounded
<1>. QED  BY <1>1, <1>2, <1>3 DEF IInv, RowsTruthful

(* It holds throughout.                                                    *)
LEMMA Invariance == Spec => []IInv
BY InitIInv, NextKeeps, PTL DEF Spec

(* Session host: what the rows of the store say is so, in every state. A       *)
(* session that owes a result is done only with one, the seat of a cleaned row *)
(* is gone or its name is another row's, and the agent is not asked more often *)
(* than restarts and stale copies explain (RowsTruthful).                      *)
THEOREM RowsTellTheTruth == Spec => []RowsTruthful
BY Invariance, IInvTruthful, PTL

-------------------------------------------------------------------------------
(* Who writes, and what, in any order: an ended session stays ended.           *)
Forward ==
  \A s \in Session : /\ rows[s].status \in Terminal => rows'[s].status \in Terminal
                     /\ rows[s].reported => rows'[s].reported

(* The guard of the store: an upsert does not bring an ended session back. *)
LEMMA UpsertForward ==
  ASSUME IInv, NEW s \in Session, NEW row \in Row, UpsertOrRaise(s, row), row.status # "absent"
  PROVE  Forward
<1>1. CASE Refused(s, row)
  BY <1>1 DEF UpsertOrRaise, Forward
<1>2. CASE ~Refused(s, row)
  <2>1. /\ rows' = [rows EXCEPT ![s] = Merged(s, row)] /\ rows \in [Session -> Row]
        /\ Merged(s, row).status = row.status
        /\ Merged(s, row).reported = (row.reported \/ rows[s].reported)
    BY <1>2 DEF UpsertOrRaise, Upsert, Merged, IInv, TypeOK, Row
  <2>2. rows[s].status \in Terminal => row.status \in Terminal
    BY <1>2 DEF Refused, Row
  <2> HIDE DEF Merged
  <2>. QED  BY <2>1, <2>2 DEF Forward
<1>. QED  BY <1>1, <1>2

(* No step takes an end or a result back.                                  *)
LEMMA StepForward == IInv /\ [Next]_vars => Forward
<1> SUFFICES ASSUME IInv, [Next]_vars PROVE Forward
  OBVIOUS
<1>s. ASSUME UNCHANGED rows PROVE Forward
  BY <1>s DEF Forward
<1>u. ASSUME NEW s \in Session, NEW row \in Row, Upsert(s, row), row.status # "absent",
             rows[s].status \in Terminal => row.status \in Terminal
      PROVE  Forward
  BY <1>u, UpsertForward DEF UpsertOrRaise, Refused, Active, Terminal
<1>1. CASE Monitor
  <2>1. ASSUME NEW s \in Session, WriteBack(s) PROVE Forward
    BY <2>1, UpsertForward DEF WriteBack, IInv, TypeOK, MonitorState, Copy, CopiesHonest, Visited, Honest
  <2>2. ASSUME NEW s \in Session, SweepStamp(s) PROVE Forward
    <3> DEFINE row == [Copy(s) EXCEPT !.cleaned = TRUE]
    <3>1. Copy(s) \in Row /\ Copy(s).status # "absent"
      BY <2>2 DEF SweepStamp, IInv, TypeOK, MonitorState, Copy, CopiesHonest, Visited, Honest
    <3>2. row \in Row /\ row.status # "absent"
      BY <3>1 DEF Row
    <3>3. UpsertOrRaise(s, row)
      BY <2>2 DEF SweepStamp
    <3> HIDE DEF row
    <3>. QED  BY <3>2, <3>3, UpsertForward
  <2>. QED  BY <1>1, <1>s, <2>1, <2>2
       DEF Monitor, Visit, ListActive, ListPending, ListNames, VisitExempt, VisitBooting, BootOverdue,
           GiveUp, SeatGone, PaneLost, Observe, ReadResult, Solicit, SweepKill, Silent
<1>2. CASE OpKills \/ Restart \/ OpWrites
  <2>1. CASE Restart
    BY <2>1 DEF Restart, Forward, Latched, IInv, TypeOK, Row
  <2>2. CASE OpWrites
    <3>1. op # NoOp /\ op.s \in Session /\ op.row \in Row /\ op.kind \in OpKind /\ op.row.status # "absent"
      BY <2>2 DEF OpWrites, NoOp, IInv, TypeOK, OpHonest, Honest
    <3>2. OpRow \in Row /\ OpRow.status # "absent"
      <4>1. CASE op.kind = "capture"
        BY <3>1, <4>1 DEF OpRow
      <4>2. CASE op.kind = "cancel"
        BY <3>1, <4>2 DEF OpRow, Row, Terminal
      <4>3. CASE op.kind = "cleanup"
        BY <3>1, <4>3 DEF OpRow, Row, Terminal
      <4>. QED  BY <3>1, <4>1, <4>2, <4>3 DEF OpKind
    <3>. QED  BY <2>2, <3>1, <3>2, UpsertForward DEF OpWrites
  <2>. QED  BY <1>2, <1>s, <2>1, <2>2 DEF OpKills
<1>3. ASSUME NEW s \in Session, Admit(s) \/ UserSeat(s) \/ CreateSeat(s) \/ Deliver(s) \/ KillFailed(s)
             \/ LateKill(s) \/ AgentExits(s) \/ SeatDies(s)
             \/ \E kind \in OpKind : BeginOp(kind, s)
      PROVE  Forward
  BY <1>3, <1>s DEF Admit, UserSeat, CreateSeat, Deliver, KillFailed, LateKill, AgentExits, SeatDies, BeginOp
<1>4. ASSUME NEW s \in Session, Register(s) \/ HandOver(s) \/ NotReady(s) \/ StampFailed(s) \/ Adopt(s)
      PROVE  Forward
  <2>1. ASSUME NEW status \in Active \cup Terminal, NEW cleaned \in BOOLEAN, NEW awaiting \in BOOLEAN
        PROVE  LET row == [NoRow EXCEPT !.status = status, !.cleaned = cleaned, !.awaiting = awaiting]
               IN row \in Row /\ row.status = status
    BY NoRowIsRow DEF Row
  <2>2. BootingRow \in Row /\ BootingRow.status = "booting"
    BY NoRowIsRow DEF BootingRow, Row, Active
  <2>3. FailedLaunch \in Row /\ FailedLaunch.status = "failed"
    BY <2>2 DEF FailedLaunch, Row, Terminal
  <2>4. CASE Register(s)
    BY <1>u, <2>2, <2>4 DEF Register, IInv, LaunchAlone, Known, Terminal
  <2>5. CASE HandOver(s)
    <3> DEFINE row == [BootingRow EXCEPT !.status = "running"]
    <3>1. row \in Row /\ row.status = "running"
      BY <2>2 DEF Row, Active
    <3>2. UpsertOrRaise(s, row)
      BY <2>5 DEF HandOver
    <3> HIDE DEF row
    <3>. QED  BY <3>1, <3>2, UpsertForward
  <2>6. CASE NotReady(s)
    BY <1>u, <2>3, <2>6 DEF NotReady, Terminal
  <2>7. CASE StampFailed(s)
    <3> DEFINE row == [FailedLaunch EXCEPT !.cleaned = TRUE]
    <3>1. row \in Row /\ row.status = "failed"
      BY <2>3 DEF Row
    <3>2. Upsert(s, row)
      BY <2>7 DEF StampFailed
    <3> HIDE DEF row
    <3>. QED  BY <1>u, <3>1, <3>2 DEF Terminal
  <2>8. CASE Adopt(s)
    <3> DEFINE row == [NoRow EXCEPT !.status = "running"]
    <3>1. row \in Row /\ row.status = "running"
      BY NoRowIsRow DEF Row, Active
    <3>2. Upsert(s, row) /\ rows[s].status \notin Terminal
      BY <2>8, NoRowIsRow DEF Adopt, Terminal
    <3> HIDE DEF row
    <3>. QED  BY <1>u, <3>1, <3>2
  <2>. QED  BY <1>4, <2>4, <2>5, <2>6, <2>7, <2>8
<1>5. ASSUME NEW s \in Session, Report(s) PROVE Forward
  <2>1. rows \in [Session -> Row] /\ rows[s] \in Row
    BY DEF IInv, TypeOK
  <2>2. PICK row \in Row :
          /\ rows' = [rows EXCEPT ![s] = row] /\ row.reported
          /\ row.status = rows[s].status \/ row.status = "done"
    <3>1. CASE rows' = [rows EXCEPT ![s].reported = TRUE]
      <4>1. [rows[s] EXCEPT !.reported = TRUE] \in Row
        BY <2>1 DEF Row
      <4>. QED  BY <2>1, <3>1, <4>1 DEF Row
    <3>2. CASE rows' = [rows EXCEPT ![s].reported = TRUE, ![s].status = "done"]
      <4>1. [rows[s] EXCEPT !.reported = TRUE, !.status = "done"] \in Row
        BY <2>1 DEF Row, Terminal
      <4>. QED  BY <2>1, <3>2, <4>1 DEF Row
    <3>. QED  BY <1>5, <3>1, <3>2 DEF Report
  <2>. QED  BY <2>1, <2>2 DEF Forward, Terminal
<1>6. ASSUME NEW s \in Session, LateMark(s) PROVE Forward
  <2>1. rows \in [Session -> Row] /\ rows[s] \in Row
    BY DEF IInv, TypeOK
  <2>2. rows' = [rows EXCEPT ![s].cleaned = TRUE]
    BY <1>6 DEF LateMark
  <2>. QED  BY <2>1, <2>2 DEF Forward, Row
<1>7. CASE UNCHANGED vars
  BY <1>7, <1>s DEF vars
<1>. QED  BY <1>1, <1>2, <1>3, <1>4, <1>5, <1>6, <1>7 DEF Next, Pipeline, LateCleanup

(* Session host: whichever thread writes back whichever stale copy of a row, a *)
(* session that ended never comes back and an accepted result is never lost    *)
(* (RowsOnlyAdvance).                                                          *)
THEOREM RowsAdvance == Spec => RowsOnlyAdvance
<1>1. IInv /\ [Next]_vars =>
        [\A s \in Session :
           /\ rows[s].status \in Terminal => rows'[s].status \in Terminal
           /\ rows[s].reported => rows'[s].reported]_vars
  BY StepForward DEF Forward
<1>2. QED  BY Invariance, <1>1, PTL DEF Spec, RowsOnlyAdvance

(* A visit writes back only active copies of a user's row.                     *)
LEMMA MonitorSpares ==
  ASSUME IInv, Monitor, NEW s \in Adopted, rows[s].status \in Active
  PROVE  rows'[s].status \in Active
<1>1. s \in Session
  BY Parameters
<1>2. ASSUME NEW t \in Session, t # s, NEW row, UpsertOrRaise(t, row) PROVE rows'[s] = rows[s]
  BY <1>1, <1>2 DEF UpsertOrRaise, Upsert, IInv, TypeOK
<1>3. ASSUME WriteBack(s) PROVE rows'[s].status \in Active
  <2>1. Copy(s) \in Row /\ Copy(s).status \in Active
    BY <1>3, <1>1 DEF WriteBack, IInv, TypeOK, MonitorState, Copy, CopiesHonest, VisitPhase, Visited
  <2>2. ~Refused(s, Copy(s))
    BY DEF Refused, Active, Terminal
  <2>3. Upsert(s, Copy(s))
    BY <1>3, <2>2 DEF WriteBack, UpsertOrRaise
  <2>. QED  BY <1>1, <2>1, <2>3 DEF Upsert, Merged, IInv, TypeOK, Row
<1>4. ASSUME SweepStamp(s) PROVE FALSE
  BY <1>4 DEF SweepStamp, Visited, IInv, SweepSafe, SweepPhase, Supervised
<1>. QED  BY <1>1, <1>2, <1>3, <1>4
     DEF Monitor, Visit, ListActive, ListPending, ListNames, VisitExempt, VisitBooting, BootOverdue,
         GiveUp, SeatGone, PaneLost, Observe, ReadResult, Solicit, SweepKill, WriteBack, SweepStamp,
         Silent

(* Session host: no step of the monitor ends a session that a user adopted     *)
(* (ExemptSpared).                                                             *)
THEOREM AdoptedLiveOn == Spec => ExemptSpared
<1>1. IInv /\ [Next]_vars =>
        [Monitor => \A s \in Adopted :
           rows[s].status \in Active => rows'[s].status \in Active]_vars
  BY MonitorSpares
<1>2. QED  BY Invariance, <1>1, PTL DEF Spec, ExemptSpared

--------------------------------------------------------------------------------
(* Who runs the host, for every set of processes and clients, with and without  *)
(* a supervisor, and for any number of kills, SIGTERMs and expired leases.      *)


Working == {"owner", "serving", "stopping"}
Starting == {"probe", "unlink", "bind", "bound", "listening"}

\* Unless a lease expired under its host, who works on the store holds the lease.
LeaseHeld == stalls = 0 => \A h \in Host : host[h] \in Working => lease = TakenBy(h)

\* No lease is in the name of a process that has yet to take one.
NoEarlyLease == \A h \in Host : host[h] \in Starting => lease.owner # h

\* While only the supervisor starts hosts there is one process, and once it has
\* bound the path the socket file is its.
OneProcess ==
  supervised =>
    /\ \A g, h \in Host : host[g] # "down" /\ host[h] # "down" => g = h
    /\ \A h \in Host : host[h] \in {"bound", "listening"} \cup Working => path = h

LeaseIInv == LeaseTypeOK /\ LeaseHeld /\ NoEarlyLease /\ CleanExitReleases /\ OneProcess

LeaseRow == {r \in [owner : Host \cup {None}, fresh : BOOLEAN] : r.fresh => r.owner # None}

(* The lease is a row of the store, or none.                                   *)
LEMMA LeaseRows ==
  /\ LeaseIInv => lease \in LeaseRow
  /\ \A h \in Host : TakenBy(h) \in LeaseRow
  /\ NoLease \in LeaseRow
<1>1. LeaseIInv => lease \in LeaseRow
  BY DEF LeaseIInv, LeaseTypeOK, LeaseRow
<1>2. ASSUME NEW h \in Host PROVE TakenBy(h) \in LeaseRow
  BY NoneIsNoHost DEF TakenBy, LeaseRow
<1>3. NoLease \in LeaseRow
  BY DEF NoLease, LeaseRow
<1>4. QED  BY <1>1, <1>2, <1>3

(* The initial states satisfy the invariant.                                   *)
LEMMA InitLease == LeaseInit => LeaseIInv
  BY SupervisionIsBoolean
  DEF LeaseInit, LeaseIInv, LeaseTypeOK, LeaseHeld, NoEarlyLease, CleanExitReleases, OneProcess,
      NoLease, HostStage, ClientStage, Working, Starting

-------------------------------------------------------------------------------
(* A host process starts: nothing is in its name, and a supervised one is      *)
(* alone.                                                                      *)
LEMMA StartKeeps ==
  ASSUME LeaseIInv, NEW h \in Host, StartHost(h), client' \in [Client -> ClientStage],
         UNCHANGED <<supervised, path, lease, counters>>,
         supervised => \A g \in Host : host[g] = "down"
  PROVE  LeaseIInv'
<1> USE DEF StartHost, Spare, Moves, counters
<1>1. LeaseTypeOK'
  BY DEF LeaseIInv, LeaseTypeOK, HostStage
<1>2. LeaseHeld'
  BY DEF LeaseIInv, LeaseTypeOK, LeaseHeld, Working, TakenBy
<1>3. NoEarlyLease'
  BY DEF LeaseIInv, LeaseTypeOK, NoEarlyLease, Starting
<1>4. CleanExitReleases'
  BY NoneIsNoHost DEF LeaseIInv, LeaseTypeOK, CleanExitReleases
<1>5. OneProcess'
  BY DEF LeaseIInv, LeaseTypeOK, OneProcess, Working
<1>6. QED  BY <1>1, <1>2, <1>3, <1>4, <1>5 DEF LeaseIInv

(* On its way to the accept loop a process touches the socket file alone.      *)
LEMMA StartingKeeps ==
  ASSUME LeaseIInv, NEW h \in Host,
         ProbeSocket(h) \/ UnlinkSocket(h) \/ BindSocket(h) \/ Listen(h)
  PROVE  LeaseIInv'
<1> USE DEF ProbeSocket, UnlinkSocket, BindSocket, Listen, Moves, counters
<1>1. LeaseTypeOK'
  BY DEF LeaseIInv, LeaseTypeOK, HostStage
<1>2. LeaseHeld'
  BY DEF LeaseIInv, LeaseTypeOK, LeaseHeld, Working, TakenBy
<1>3. NoEarlyLease'
  BY DEF LeaseIInv, LeaseTypeOK, NoEarlyLease, Starting
<1>4. CleanExitReleases'
  BY NoneIsNoHost DEF LeaseIInv, LeaseTypeOK, CleanExitReleases, NoEarlyLease, Starting
<1>5. OneProcess'
  BY NoneIsNoHost DEF LeaseIInv, LeaseTypeOK, OneProcess, Working, Listening
<1>6. QED  BY <1>1, <1>2, <1>3, <1>4, <1>5 DEF LeaseIInv

(* A lease is taken only when none is fresh, so that nobody else works unless  *)
(* a lease has expired under its host.                                         *)
LEMMA AcquireKeeps ==
  ASSUME LeaseIInv, NEW h \in Host, AcquireLease(h)
  PROVE  LeaseIInv'
<1> USE DEF AcquireLease, Refuses, Moves, counters
<1>0. lease' \in LeaseRow
  <2>1. lease' = lease \/ lease' = TakenBy(h)
    OBVIOUS
  <2>2. QED  BY <2>1, LeaseRows
<1>1. LeaseTypeOK'
  <2>1. host' \in [Host -> HostStage]
    BY DEF LeaseIInv, LeaseTypeOK, HostStage
  <2>2. QED  BY <1>0, <2>1 DEF LeaseIInv, LeaseTypeOK, LeaseRow
<1>2. LeaseHeld'
  BY DEF LeaseIInv, LeaseTypeOK, LeaseHeld, Working, TakenBy
<1>3. NoEarlyLease'
  BY DEF LeaseIInv, LeaseTypeOK, NoEarlyLease, Starting, TakenBy
<1>4. CleanExitReleases'
  BY NoneIsNoHost DEF LeaseIInv, LeaseTypeOK, CleanExitReleases, NoEarlyLease, Starting, TakenBy
<1>5. OneProcess'
  BY DEF LeaseIInv, LeaseTypeOK, OneProcess, Working
<1>6. QED  BY <1>1, <1>2, <1>3, <1>4, <1>5 DEF LeaseIInv

(* A host that works goes on, renews its lease, or gives it back.              *)
LEMMA WorkingKeeps ==
  ASSUME LeaseIInv, NEW h \in Host, Serve(h) \/ Heartbeat(h) \/ ReleaseLease(h)
  PROVE  LeaseIInv'
<1> USE DEF Serve, Heartbeat, MayBeat, ReleaseLease, Released, Moves, counters
<1>0. lease' \in LeaseRow
  <2>1. lease' = lease \/ lease' = TakenBy(h) \/ lease' = NoLease
    OBVIOUS
  <2>2. QED  BY <2>1, LeaseRows
<1>1. LeaseTypeOK'
  <2>1. host' \in [Host -> HostStage]
    BY DEF LeaseIInv, LeaseTypeOK, HostStage
  <2>2. QED  BY <1>0, <2>1 DEF LeaseIInv, LeaseTypeOK, LeaseRow
<1>2. LeaseHeld'
  BY DEF LeaseIInv, LeaseTypeOK, LeaseHeld, Working, TakenBy, NoLease
<1>3. NoEarlyLease'
  BY NoneIsNoHost DEF LeaseIInv, LeaseTypeOK, NoEarlyLease, Starting, TakenBy, NoLease
<1>4. CleanExitReleases'
  BY NoneIsNoHost DEF LeaseIInv, LeaseTypeOK, CleanExitReleases, TakenBy, NoLease
<1>5. OneProcess'
  BY DEF LeaseIInv, LeaseTypeOK, OneProcess, Working
<1>6. QED  BY <1>1, <1>2, <1>3, <1>4, <1>5 DEF LeaseIInv

(* A process is ended from outside, with or without the time to unwind.        *)
LEMMA EndKeeps ==
  ASSUME LeaseIInv, NEW h \in Host, Terminate(h) \/ Kill(h)
  PROVE  LeaseIInv'
<1> USE DEF Terminate, Kill, Moves
<1>1. LeaseTypeOK'
  BY DEF LeaseIInv, LeaseTypeOK, HostStage
<1>2. LeaseHeld'
  BY DEF LeaseIInv, LeaseTypeOK, LeaseHeld, Working, TakenBy
<1>3. NoEarlyLease'
  BY DEF LeaseIInv, LeaseTypeOK, NoEarlyLease, Starting
<1>4. CleanExitReleases'
  BY NoneIsNoHost DEF LeaseIInv, LeaseTypeOK, CleanExitReleases, NoEarlyLease, Starting, HostStage
<1>5. OneProcess'
  BY DEF LeaseIInv, LeaseTypeOK, OneProcess, Working
<1>6. QED  BY <1>1, <1>2, <1>3, <1>4, <1>5 DEF LeaseIInv

(* The TTL passes, under a dead owner or as a stall that is counted.           *)
LEMMA ExpiryKeeps ==
  ASSUME LeaseIInv, LeaseExpires
  PROVE  LeaseIInv'
<1> USE DEF LeaseExpires
<1>0. lease.owner \in Host
  BY DEF LeaseIInv, LeaseTypeOK
<1>1. LeaseTypeOK'
  <2>1. lease' \in LeaseRow
    BY DEF LeaseIInv, LeaseTypeOK, LeaseRow
  <2>2. stalls' \in Nat
    BY DEF LeaseIInv, LeaseTypeOK
  <2>3. QED  BY <2>1, <2>2 DEF LeaseIInv, LeaseTypeOK, LeaseRow
<1>2. LeaseHeld'
  BY <1>0 DEF LeaseIInv, LeaseTypeOK, LeaseHeld, Working, TakenBy
<1>3. NoEarlyLease'
  BY DEF LeaseIInv, LeaseTypeOK, NoEarlyLease
<1>4. CleanExitReleases'
  BY DEF LeaseIInv, LeaseTypeOK, CleanExitReleases
<1>5. OneProcess'
  BY DEF LeaseIInv, OneProcess
<1>6. QED  BY <1>1, <1>2, <1>3, <1>4, <1>5 DEF LeaseIInv

(* What a client asks and waits for changes nothing of the hosts.              *)
LEMMA AskingKeeps ==
  ASSUME LeaseIInv, client' \in [Client -> ClientStage],
         UNCHANGED <<supervised, host, path, lease, counters, unclean>>
  PROVE  LeaseIInv'
  BY DEF LeaseIInv, LeaseTypeOK, LeaseHeld, NoEarlyLease, CleanExitReleases, OneProcess, counters

(* The steps of ensure_agentd start processes and write no lease.              *)
LEMMA ClientKeeps ==
  ASSUME LeaseIInv, NEW c \in Client, ClientStep(c)
  PROVE  LeaseIInv'
<1>0. client' \in [Client -> ClientStage]
  BY DEF LeaseIInv, LeaseTypeOK, ClientStep, AskStatus, ProbeListener, AskBusyListener, SpawnHost,
         KickSupervisor, WaitForReady, Becomes, ClientStage
<1>1. CASE AskStatus(c) \/ ProbeListener(c) \/ AskBusyListener(c) \/ WaitForReady(c)
  BY <1>0, <1>1, AskingKeeps DEF AskStatus, ProbeListener, AskBusyListener, WaitForReady
<1>2. CASE SpawnHost(c)
  <2>1. PICK h \in Host : StartHost(h)
    BY <1>2 DEF SpawnHost
  <2>2. ~supervised
    BY <1>2 DEF SpawnHost, Delegates
  <2>3. QED  BY <1>0, <1>2, <2>1, <2>2, StartKeeps DEF SpawnHost
<1>3. CASE KickSupervisor(c)
  <2>1. CASE UNCHANGED <<host, unclean>>
    BY <1>0, <1>3, <2>1, AskingKeeps DEF KickSupervisor
  <2>2. CASE ~UNCHANGED <<host, unclean>>
    <3>1. /\ \A g \in Host : host[g] = "down"
          /\ \E h \in Host : StartHost(h)
      BY <1>3, <2>2 DEF KickSupervisor
    <3>2. PICK h \in Host : StartHost(h)
      BY <3>1
    <3>3. QED  BY <1>0, <1>3, <3>1, <3>2, StartKeeps DEF KickSupervisor
  <2>3. QED  BY <2>1, <2>2
<1>4. QED  BY <1>1, <1>2, <1>3 DEF ClientStep

(* Every step keeps the invariant.                                             *)
LEMMA LeaseNextKeeps == LeaseIInv /\ [LeaseNext]_leaseVars => LeaseIInv'
<1> SUFFICES ASSUME LeaseIInv, [LeaseNext]_leaseVars PROVE LeaseIInv'
  OBVIOUS
<1>1. ASSUME NEW h \in Host, HostStep(h) PROVE LeaseIInv'
  BY <1>1, StartingKeeps, AcquireKeeps, WorkingKeeps DEF HostStep
<1>2. ASSUME NEW h \in Host, SuperviseHost(h) PROVE LeaseIInv'
  <2>1. client' \in [Client -> ClientStage]
    BY <1>2 DEF SuperviseHost, LeaseIInv, LeaseTypeOK
  <2>2. QED  BY <1>2, <2>1, StartKeeps DEF SuperviseHost
<1>3. ASSUME NEW h \in Host, Terminate(h) \/ Kill(h) PROVE LeaseIInv'
  BY <1>3, EndKeeps
<1>4. CASE LeaseExpires
  BY <1>4, ExpiryKeeps
<1>5. ASSUME NEW c \in Client, ClientStep(c) PROVE LeaseIInv'
  BY <1>5, ClientKeeps
<1>6. CASE UNCHANGED leaseVars
  BY <1>6 DEF leaseVars, LeaseIInv, LeaseTypeOK, LeaseHeld, NoEarlyLease, CleanExitReleases, OneProcess
<1>7. QED  BY <1>1, <1>2, <1>3, <1>4, <1>5, <1>6 DEF LeaseNext

(* It holds throughout.                                                        *)
LEMMA LeaseInvariant == LeaseSpec => []LeaseIInv
  BY InitLease, LeaseNextKeeps, PTL DEF LeaseSpec

-------------------------------------------------------------------------------
(* Two hosts never work on the store together, however many are started at     *)
(* once, unless a lease expired under its host (db-acquire-lease).             *)
THEOREM OneServer == LeaseSpec => []SingleServer
<1>1. LeaseIInv => SingleServer
  <2> SUFFICES ASSUME LeaseIInv, stalls = 0, NEW g \in Host, NEW h \in Host,
                      {host[g], host[h]} \subseteq {"owner", "serving", "stopping"}
               PROVE  g = h
    BY DEF SingleServer
  <2>1. lease = TakenBy(g) /\ lease = TakenBy(h)
    BY DEF LeaseIInv, LeaseHeld, Working
  <2>2. QED  BY <2>1 DEF TakenBy
<1>2. QED  BY <1>1, LeaseInvariant, PTL

(* A host that unwinds leaves no lease that refuses its successor (main).      *)
THEOREM CleanExit == LeaseSpec => []CleanExitReleases
<1>1. LeaseIInv => CleanExitReleases
  BY DEF LeaseIInv
<1>2. QED  BY <1>1, LeaseInvariant, PTL

(* Behind the socket file of a supervised store is the host that serves it     *)
(* (ensure_agentd).                                                            *)
THEOREM SupervisedReachable == LeaseSpec => []ServerReachable
<1>1. LeaseIInv => ServerReachable
  BY DEF LeaseIInv, OneProcess, ServerReachable, Working
<1>2. QED  BY <1>1, LeaseInvariant, PTL

(* A fresh lease leaves its owner by the owner's release only                  *)
(* (db-heartbeat-once, db-release-lease).                                      *)
THEOREM LeaseNotStolen == LeaseSpec => NotStolen
<1> DEFINE Given == lease.fresh /\ lease'.owner # lease.owner
                      => host[lease.owner] = "stopping" /\ lease' = NoLease
<1>1. LeaseIInv /\ [LeaseNext]_leaseVars => [Given]_leaseVars
  <2> SUFFICES ASSUME LeaseIInv, LeaseNext, Given = FALSE PROVE FALSE
    OBVIOUS
  <2>1. ASSUME NEW h \in Host, HostStep(h) PROVE FALSE
    BY <2>1 DEF HostStep, ProbeSocket, UnlinkSocket, BindSocket, Listen, AcquireLease,
                Refuses, Serve, Heartbeat, MayBeat, ReleaseLease, Released, TakenBy, NoLease
  <2>2. ASSUME NEW h \in Host, SuperviseHost(h) \/ Terminate(h) \/ Kill(h) PROVE FALSE
    BY <2>2 DEF SuperviseHost, Terminate, Kill
  <2>3. CASE LeaseExpires
    BY <2>3 DEF LeaseExpires, LeaseIInv, LeaseTypeOK
  <2>4. ASSUME NEW c \in Client, ClientStep(c) PROVE FALSE
    BY <2>4 DEF ClientStep, AskStatus, ProbeListener, AskBusyListener, SpawnHost,
                KickSupervisor, WaitForReady
  <2>5. QED  BY <2>1, <2>2, <2>3, <2>4 DEF LeaseNext
<1>2. QED  BY <1>1, LeaseInvariant, PTL DEF LeaseSpec, NotStolen
===============================================================================
