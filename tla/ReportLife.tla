------------------------------ MODULE ReportLife ------------------------------
(***************************************************************************)
(* A client report from draft to sent.  The scheduler drafts the report of *)
(* the week on its weekday; people draft, regenerate, edit, approve and    *)
(* send.  A request reads its row without locking it, may spend minutes in *)
(* a model run, and then writes the columns it has changed.                *)
(***************************************************************************)
EXTENDS Naturals

CONSTANTS
  Requests,        \* requests of people, each sent once
  Scheduler,       \* the weekly job
  Periods, ThisWeek,
  Ops,             \* what people may ask for
  NoRow,
  MaxFaults        \* bound on runs that fail and on writers that die

Status == {"draft", "approved", "sent"}
Writers == Requests \union {Scheduler}

(* text: who wrote the content; stamped: sent_at is set.                   *)
Report == [status : Status, text : Writers, stamped : BOOLEAN]

(* force: force_regenerate.  edits: PATCH sets the content; status: the    *)
(* status PATCH asks for, "none" when it names none.                       *)
(* run: the task run from the catalog, which leaves an audit row only.     *)
Op == [kind : {"generate", "edit", "send", "run"}, period : Periods,
       force : BOOLEAN, edits : BOOLEAN, status : Status \union {"none"}]

ASSUME ReportConstants ==
  /\ Scheduler \notin Requests /\ ThisWeek \in Periods /\ Ops \subseteq Op
  /\ NoRow \notin Report /\ MaxFaults \in Nat

VARIABLES
  report,      \* [Periods -> Report \union {NoRow}]: table reports
  ranToday,    \* agent_runs has a success of the weekly task from today
  approved,    \* history: <<period, text>>, the texts that have been APPROVED
  crossed,     \* history: periods whose report was written by somebody who
               \* had not read it as it was by then
  pc,
  op,          \* what each writer was asked
  view,        \* the row it has read
  faults

vars == <<report, ranToday, approved, crossed, pc, op, view, faults>>

Ended == {"ok", "conflict", "error"}
Weekly == [kind |-> "generate", period |-> ThisWeek, force |-> FALSE,
           edits |-> FALSE, status |-> "none"]

Init ==
  /\ report = [p \in Periods |-> NoRow]
  /\ ranToday = FALSE /\ approved = {} /\ crossed = {}
  /\ pc = [w \in Writers |-> "idle"]
  /\ op \in [Writers -> Ops \union {Weekly}] /\ op[Scheduler] = Weekly
  /\ view = [w \in Writers |-> NoRow]
  /\ faults = 0

Period(w) == op[w].period
Row(w) == report[Period(w)]
GoTo(w, place) == pc' = [pc EXCEPT ![w] = place]

----------------------------------------------------------------------------
(* Reading.  A row that is not there is a 404 for all but generate.        *)

(* Mutant: whatever is not sent yet may be sent.                           *)
Sendable(row) == row.status # "sent"

MaySend(row) == row.status = "approved"

(* Mutant: nothing is ever closed to edits.                                *)
Editable(row) == TRUE

MayEdit(row) == row.status # "sent"

(* Where a writer goes once it has read its row.                           *)
AfterRead(w) ==
  LET row == Row(w)
  IN CASE op[w].kind = "generate" ->
            IF row = NoRow THEN "run"
            ELSE IF ~op[w].force THEN "ok"
            ELSE IF row.status = "sent" THEN "conflict" ELSE "run"
       [] op[w].kind = "edit" ->
            IF row = NoRow THEN "error" ELSE IF MayEdit(row) THEN "write" ELSE "conflict"
       [] op[w].kind = "send" ->
            IF row = NoRow THEN "error" ELSE IF MaySend(row) THEN "write" ELSE "conflict"
       [] op[w].kind = "run" -> "run"

Read(w) ==
  /\ view' = [view EXCEPT ![w] = Row(w)]
  /\ GoTo(w, AfterRead(w))
  /\ UNCHANGED <<report, ranToday, approved, crossed, op, faults>>

Arrive(r) == r \in Requests /\ pc[r] = "idle" /\ Read(r)

(* The job, at any of its ticks after the trigger time: once the audit has *)
(* a success from today, whatever period that run was for, it stays quiet. *)
Due == ~ranToday

JobTick ==
  /\ pc[Scheduler] \in {"idle"} \union Ended
  /\ Due
  /\ Read(Scheduler)

----------------------------------------------------------------------------
(* The run, which holds no lock.                                           *)

Run(w) ==
  /\ pc[w] = "run" /\ GoTo(w, "write")
  /\ UNCHANGED <<report, ranToday, approved, crossed, op, view, faults>>

(* Mutant: a failed run counts as one from today.                          *)
FailCounted(w) ==
  /\ pc[w] \in {"run", "write"}
  /\ faults < MaxFaults /\ faults' = faults + 1
  /\ GoTo(w, "error")
  /\ ranToday' = TRUE
  /\ UNCHANGED <<report, approved, crossed, op, view>>

(* The run is refused or raises, or the writer dies: all is rolled back.   *)
Fail(w) ==
  /\ pc[w] \in {"run", "write"}
  /\ faults < MaxFaults /\ faults' = faults + 1
  /\ GoTo(w, "error")
  /\ UNCHANGED <<report, ranToday, approved, crossed, op, view>>

----------------------------------------------------------------------------
(* Writing.  UPDATE sets the columns whose value is not the one that was   *)
(* read, and whatever others have committed since stays in the rest.       *)

Put(w, row) ==
  /\ report' = [report EXCEPT ![Period(w)] = row]
  /\ approved' = approved \union
       (IF row.status = "approved" THEN {<<Period(w), row.text>>} ELSE {})
  /\ crossed' = crossed \union (IF view[w] = Row(w) THEN {} ELSE {Period(w)})
  /\ GoTo(w, "ok")
  /\ UNCHANGED <<op, view, faults>>

Column(read, new, now) == IF new = read THEN now ELSE new

Drafted(w) == [status |-> "draft", text |-> w, stamped |-> FALSE]

Insert(w) ==
  /\ pc[w] = "write" /\ op[w].kind = "generate" /\ view[w] = NoRow
  /\ Row(w) = NoRow
  /\ Put(w, Drafted(w))
  /\ ranToday' = TRUE

(* Mutant: no unique constraint, the later insert wins.                    *)
Upsert(w) ==
  /\ pc[w] = "write" /\ op[w].kind = "generate" /\ view[w] = NoRow
  /\ Row(w) # NoRow
  /\ Put(w, Drafted(w))
  /\ ranToday' = TRUE

(* Somebody else's report of the period came first: the unique constraint  *)
(* refuses this one, and its run is rolled back with it.                   *)
InsertConflict(w) ==
  /\ pc[w] = "write" /\ op[w].kind = "generate" /\ view[w] = NoRow
  /\ Row(w) # NoRow
  /\ GoTo(w, "error")
  /\ UNCHANGED <<report, ranToday, approved, crossed, op, view, faults>>

Regenerate(w) ==
  /\ pc[w] = "write" /\ op[w].kind = "generate" /\ view[w] # NoRow
  /\ Put(w, [Row(w) EXCEPT !.text = w,
                           !.status = Column(view[w].status, "draft", @)])
  /\ ranToday' = TRUE

Edit(w) ==
  /\ pc[w] = "write" /\ op[w].kind = "edit"
  /\ Put(w, [Row(w) EXCEPT !.text = IF op[w].edits THEN w ELSE @,
       !.status = IF op[w].status = "none" THEN @
                  ELSE Column(view[w].status, op[w].status, @)])
  /\ UNCHANGED ranToday

MarkSent(w) ==
  /\ pc[w] = "write" /\ op[w].kind = "send"
  /\ Put(w, [Row(w) EXCEPT !.status = "sent", !.stamped = TRUE])
  /\ UNCHANGED ranToday

RunOnly(w) ==
  /\ pc[w] = "write" /\ op[w].kind = "run" /\ GoTo(w, "ok")
  /\ ranToday' = TRUE
  /\ UNCHANGED <<report, approved, crossed, op, view, faults>>

Write(w) ==
  \/ Insert(w) \/ InsertConflict(w) \/ Regenerate(w) \/ Edit(w) \/ MarkSent(w)
  \/ RunOnly(w)

Next ==
  \/ JobTick
  \/ \E r \in Requests : Arrive(r)
  \/ \E w \in Writers : Run(w) \/ Write(w) \/ Fail(w)

(* The job ticks while its weekday lasts, and what was begun goes on.      *)
Spec ==
  /\ Init /\ [][Next]_vars
  /\ WF_vars(JobTick)
  /\ \A w \in Writers : WF_vars(Run(w) \/ Write(w))

----------------------------------------------------------------------------
(* Properties.                                                             *)

TypeOK ==
  /\ report \in [Periods -> Report \union {NoRow}]
  /\ ranToday \in BOOLEAN
  /\ approved \subseteq Periods \X Writers /\ crossed \subseteq Periods
  /\ pc \in [Writers -> {"idle", "run", "write"} \union Ended]
  /\ op \in [Writers -> Op]
  /\ view \in [Writers -> Report \union {NoRow}]
  /\ faults \in 0..MaxFaults
  /\ \A w \in Writers : pc[w] = "write" /\ op[w].kind \in {"edit", "send"} => view[w] # NoRow

(* A report that is stamped as sent was approved at some time, whatever    *)
(* raced with its approval and its sending.  It is still as it was sent,   *)
(* and the text it was sent with is one that was approved, unless somebody *)
(* has written to it who had read an earlier state of it: then the text may*)
(* be one nobody approved.                                                 *)
StampedWasApproved ==
  \A p \in Periods : report[p] # NoRow /\ report[p].stamped =>
    /\ \E text \in Writers : <<p, text>> \in approved
    /\ p \notin crossed =>
         report[p].status = "sent" /\ <<p, report[p].text>> \in approved

(* The job never touches a report that somebody else has drafted, though   *)
(* it looked before they did and was minutes in its run: text that people  *)
(* put there changes by their own hand only.                               *)
JobNeverOverwrites ==
  [][\A p \in Periods : report[p] # NoRow /\ report'[p] # report[p] =>
       report'[p].text # Scheduler \/ report[p].text = Scheduler]_vars

(* "A sent report cannot be edited", "cannot be regenerated": as far as it *)
(* holds, whoever changes a sent report had read it when it was not sent.  *)
(* (One such change reopens it, with sent_at set, to others.)              *)
LateChangesBeganEarlier ==
  [][\A p \in Periods :
       /\ report[p] # NoRow /\ report[p].status = "sent" /\ report'[p] # report[p]
       => \E w \in Writers : /\ pc[w] = "write" /\ pc'[w] = "ok" /\ Period(w) = p
                             /\ view[w].status # "sent"]_vars

(* On its weekday the report of the week is drafted, by the job or by      *)
(* somebody else, unless a run for another period, or one that was started *)
(* from the catalog, has quietened the job.                                *)
DraftedOnItsDay ==
  <>(report[ThisWeek] # NoRow
       \/ \E p \in Periods \ {ThisWeek} : report[p] # NoRow
       \/ \E w \in Writers : op[w].kind = "run" /\ pc[w] = "ok")

----------------------------------------------------------------------------
(* What the repository's comments say, and the code does not keep.         *)

(* report_service.py: "A sent report cannot be edited", "This report has   *)
(* already been sent and cannot be regenerated".                           *)
SentIsFrozen ==
  [][\A p \in Periods : report[p] # NoRow /\ report[p].stamped =>
       report'[p].text = report[p].text /\ report'[p].status = "sent"]_vars

(* jobs.py: "Draft the client status on the engagement's configured        *)
(* weekday."                                                               *)
WeeklyIsDrafted == <>(report[ThisWeek] # NoRow)
============================================================================
