--------------------------- MODULE ReportLifeProofs ---------------------------
(***************************************************************************)
(* Proofs about ReportLife, for any number of requests and periods: what   *)
(* is sent was approved, its text too unless a stale read was written back,*)
(* the weekly job overwrites nobody's text, and what changes a sent report *)
(* had read it before it was sent.                                         *)
(***************************************************************************)
EXTENDS ReportLife, TLAPS

OnceApproved == {p \in Periods : \E text \in Writers : <<p, text>> \in approved}

(* What a writer has read allows what it is about to write, and the row it *)
(* read is still there: no operation deletes a report.                     *)
ViewInv ==
  \A w \in Writers :
    /\ pc[w] \in {"run", "write"} /\ view[w] # NoRow => Row(w) # NoRow
    /\ pc[w] = "run" => op[w].kind \in {"generate", "run"}
    /\ pc[w] \in {"run", "write"} /\ op[w].kind = "generate" /\ view[w] # NoRow =>
         op[w].force /\ view[w].status # "sent"
    /\ pc[w] = "write" /\ op[w].kind = "edit" =>
         view[w] # NoRow /\ view[w].status # "sent"
    /\ pc[w] = "write" /\ op[w].kind = "send" =>
         view[w] # NoRow /\ view[w].status = "approved" /\ Period(w) \in OnceApproved

(* Whatever is approved is on record as having been approved.              *)
ApprovedInv ==
  \A p \in Periods : report[p] # NoRow /\ report[p].status = "approved" =>
    <<p, report[p].text>> \in approved

ReportInv ==
  /\ TypeOK /\ op[Scheduler] = Weekly
  /\ ViewInv /\ ApprovedInv /\ StampedWasApproved

LEMMA WeeklyIsOp == Weekly \in Op
BY ReportConstants DEF Weekly, Op, Status

LEMMA ReportInit == Init => ReportInv
<1> SUFFICES ASSUME Init PROVE ReportInv
  OBVIOUS
<1>1. op \in [Writers -> Op]
  BY WeeklyIsOp, ReportConstants DEF Init
<1>2. TypeOK
  <2>1. /\ report \in [Periods -> Report \union {NoRow}]
        /\ view \in [Writers -> Report \union {NoRow}]
        /\ pc \in [Writers -> {"idle", "run", "write"} \union Ended]
    BY DEF Init
  <2>2. /\ ranToday \in BOOLEAN /\ approved \subseteq Periods \X Writers
        /\ crossed \subseteq Periods
    BY Zenon DEF Init
  <2>3. faults \in 0..MaxFaults
    BY ReportConstants DEF Init
  <2>4. \A w \in Writers : pc[w] # "write"
    BY DEF Init
  <2> QED
    BY <1>1, <2>1, <2>2, <2>3, <2>4 DEF TypeOK
<1>3. ViewInv
  BY DEF Init, ViewInv
<1>4. ApprovedInv /\ StampedWasApproved
  BY DEF Init, ApprovedInv, StampedWasApproved
<1> QED
  BY <1>2, <1>3, <1>4 DEF Init, ReportInv

(* Where a reader may go, by what it reads.                                *)
LEMMA ReadStep ==
  ASSUME ReportInv, NEW w \in Writers, Read(w)
  PROVE  ReportInv'
<1>1. Row(w) \in Report \union {NoRow} /\ Period(w) \in Periods /\ op[w] \in Op
  BY DEF ReportInv, TypeOK, Row, Period, Op
<1>2. /\ AfterRead(w) \in {"run", "write", "ok", "conflict", "error"}
      /\ AfterRead(w) = "run" => op[w].kind \in {"generate", "run"}
      /\ AfterRead(w) \in {"run", "write"} /\ op[w].kind = "generate" /\ Row(w) # NoRow =>
           op[w].force /\ Row(w).status # "sent"
      /\ AfterRead(w) = "write" /\ op[w].kind = "edit" =>
           Row(w) # NoRow /\ Row(w).status # "sent"
      /\ AfterRead(w) = "write" /\ op[w].kind = "send" =>
           Row(w) # NoRow /\ Row(w).status = "approved"
      /\ AfterRead(w) = "write" => op[w].kind \in {"edit", "send"}
  BY <1>1 DEF AfterRead, MayEdit, MaySend, Op
<1>3. TypeOK'
  BY <1>1, <1>2 DEF Read, GoTo, ReportInv, TypeOK, Ended
<1>4. ViewInv'
  <2> SUFFICES ASSUME NEW v \in Writers
               PROVE  ViewInv!(v)'
    BY DEF ViewInv
  <2>1. CASE v = w
    BY <1>1, <1>2, <2>1
    DEF Read, GoTo, ReportInv, TypeOK, ViewInv, ApprovedInv, OnceApproved, Row, Period
  <2>2. CASE v # w
    BY <2>2 DEF Read, GoTo, ReportInv, TypeOK, ViewInv, OnceApproved, Row, Period
  <2> QED
    BY <2>1, <2>2
<1> QED
  BY <1>3, <1>4 DEF Read, ReportInv, ApprovedInv, StampedWasApproved

(* A writer that puts a row in its place: the others' views still hold.    *)
LEMMA PutStep ==
  ASSUME ReportInv, NEW w \in Writers, pc[w] = "write", NEW row \in Report, Put(w, row),
         ranToday' \in BOOLEAN,
         row.stamped =>
           /\ Period(w) \in OnceApproved
           /\ view[w] = Row(w) /\ Period(w) \notin crossed =>
                row.status = "sent" /\ <<Period(w), row.text>> \in approved
  PROVE  ReportInv'
<1>1. Period(w) \in Periods
  BY DEF ReportInv, TypeOK, Period, Op
<1>2. /\ row # NoRow /\ row.text \in Writers
      /\ approved \subseteq approved' /\ approved' \subseteq Periods \X Writers
      /\ row.status = "approved" => <<Period(w), row.text>> \in approved'
      /\ crossed \subseteq crossed' /\ crossed' \subseteq Periods
      /\ view[w] # Row(w) => Period(w) \in crossed'
  BY <1>1, ReportConstants DEF Put, ReportInv, TypeOK, Report
<1>3. report' = [report EXCEPT ![Period(w)] = row]
  BY DEF Put
<1>4. TypeOK'
  BY <1>1, <1>2, <1>3 DEF Put, GoTo, ReportInv, TypeOK, Ended
<1>5. ViewInv'
  <2> SUFFICES ASSUME NEW v \in Writers
               PROVE  ViewInv!(v)'
    BY DEF ViewInv
  <2>1. CASE v = w
    BY <2>1 DEF Put, GoTo, ReportInv, TypeOK
  <2>2. CASE v # w
    <3>1. Row(v)' = IF Period(v) = Period(w) THEN row ELSE Row(v)
      BY <1>1, <1>3 DEF Put, Row, Period, ReportInv, TypeOK, Op
    <3>2. pc'[v] = pc[v] /\ view' = view /\ op' = op /\ Period(v)' = Period(v)
      BY <2>2 DEF Put, GoTo, ReportInv, TypeOK, Period
    <3> QED
      BY <1>2, <3>1, <3>2 DEF ReportInv, ViewInv, OnceApproved
  <2> QED
    BY <2>1, <2>2
<1>6. report'[Period(w)] = row /\ \A p \in Periods \ {Period(w)} : report'[p] = report[p]
  BY <1>1, <1>3 DEF ReportInv, TypeOK
<1>7. ApprovedInv'
  BY <1>2, <1>6 DEF ReportInv, ApprovedInv
<1>8. StampedWasApproved'
  <2>1. row.stamped =>
          /\ \E text \in Writers : <<Period(w), text>> \in approved'
          /\ Period(w) \notin crossed' =>
               row.status = "sent" /\ <<Period(w), row.text>> \in approved'
    BY <1>2 DEF OnceApproved, ReportInv, TypeOK
  <2> QED
    BY <1>2, <1>6, <2>1 DEF ReportInv, StampedWasApproved
<1> QED
  BY <1>4, <1>5, <1>7, <1>8 DEF Put, ReportInv

(* A step that touches no report.                                          *)
LEMMA QuietStep ==
  ASSUME ReportInv, NEW w \in Writers, pc[w] \in {"run", "write"},
         NEW place \in {"write"} \union Ended, GoTo(w, place),
         place = "write" => pc[w] = "run",
         UNCHANGED <<report, approved, crossed, op, view>>,
         ranToday' \in BOOLEAN, faults' \in 0..MaxFaults
  PROVE  ReportInv'
<1>1. TypeOK'
  BY DEF GoTo, ReportInv, TypeOK, ViewInv, Ended
<1>2. ViewInv'
  BY DEF GoTo, ReportInv, TypeOK, ViewInv, OnceApproved, Ended, Row, Period
<1> QED
  BY <1>1, <1>2 DEF ReportInv, ApprovedInv, StampedWasApproved

LEMMA ReportStep == ReportInv /\ [Next]_vars => ReportInv'
<1> SUFFICES ASSUME ReportInv, [Next]_vars PROVE ReportInv'
  OBVIOUS
<1>1. CASE JobTick
  BY <1>1, ReadStep DEF JobTick, Writers
<1>2. ASSUME NEW r \in Requests, Arrive(r) PROVE ReportInv'
  BY <1>2, ReadStep DEF Arrive, Writers
<1>3. ASSUME NEW w \in Writers, Run(w) PROVE ReportInv'
  <2>1. faults' \in 0..MaxFaults /\ ranToday' \in BOOLEAN
    BY <1>3 DEF Run, ReportInv, TypeOK
  <2> QED
    BY <1>3, <2>1, QuietStep DEF Run
<1>4. ASSUME NEW w \in Writers, Fail(w) PROVE ReportInv'
  <2>1. faults' \in 0..MaxFaults /\ ranToday' \in BOOLEAN
    BY <1>4, ReportConstants DEF Fail, ReportInv, TypeOK
  <2>2. "error" \in {"write"} \union Ended
    BY DEF Ended
  <2> QED
    BY <1>4, <2>1, <2>2, QuietStep DEF Fail
<1>5. ASSUME NEW w \in Writers, Insert(w) PROVE ReportInv'
  <2>1. Drafted(w) \in Report /\ ~Drafted(w).stamped
    BY DEF Drafted, Report, Status
  <2> QED
    BY <1>5, <2>1, PutStep DEF Insert
<1>6. ASSUME NEW w \in Writers, InsertConflict(w) PROVE ReportInv'
  <2>1. faults' \in 0..MaxFaults /\ ranToday' \in BOOLEAN /\ "error" \in {"write"} \union Ended
    BY <1>6 DEF InsertConflict, ReportInv, TypeOK, Ended
  <2> QED
    BY <1>6, <2>1, QuietStep DEF InsertConflict
<1>7. ASSUME NEW w \in Writers, Regenerate(w) PROVE ReportInv'
  <2> DEFINE row == [Row(w) EXCEPT !.text = w,
                                   !.status = Column(view[w].status, "draft", @)]
  <2>1. Row(w) \in Report /\ Period(w) \in Periods
    BY <1>7 DEF Regenerate, ReportInv, TypeOK, ViewInv, Row, Period, Op
  <2>2. row \in Report /\ row.stamped = Row(w).stamped
    BY <2>1 DEF Report, Column, Status
  <2>3. row.stamped => Period(w) \in OnceApproved
    BY <2>1, <2>2, ReportConstants DEF ReportInv, StampedWasApproved, OnceApproved, Row
  <2>4. row.stamped => Period(w) \in crossed \/ view[w] # Row(w)
    BY <1>7, <2>1, <2>2, ReportConstants
    DEF Regenerate, ReportInv, ViewInv, StampedWasApproved, Row
  <2>5. pc[w] = "write" /\ Put(w, row) /\ ranToday' \in BOOLEAN
    BY <1>7 DEF Regenerate
  <2> HIDE DEF row
  <2> QED
    BY <2>2, <2>3, <2>4, <2>5, PutStep
<1>8. ASSUME NEW w \in Writers, Edit(w) PROVE ReportInv'
  <2> DEFINE row == [Row(w) EXCEPT !.text = IF op[w].edits THEN w ELSE @,
                       !.status = IF op[w].status = "none" THEN @
                                  ELSE Column(view[w].status, op[w].status, @)]
  <2>1. Row(w) \in Report /\ Period(w) \in Periods /\ op[w].status \in Status \union {"none"}
    BY <1>8 DEF Edit, ReportInv, TypeOK, ViewInv, Row, Period, Op
  <2>2. row \in Report /\ row.stamped = Row(w).stamped
    BY <2>1 DEF Report, Column
  <2>3. row.stamped => Period(w) \in OnceApproved
    BY <2>1, <2>2, ReportConstants DEF ReportInv, StampedWasApproved, OnceApproved, Row
  <2>4. row.stamped => Period(w) \in crossed \/ view[w] # Row(w)
    BY <1>8, <2>1, <2>2, ReportConstants
    DEF Edit, ReportInv, ViewInv, StampedWasApproved, Row
  <2>5. pc[w] = "write" /\ Put(w, row) /\ ranToday' \in BOOLEAN
    BY <1>8 DEF Edit, ReportInv, TypeOK
  <2> HIDE DEF row
  <2> QED
    BY <2>2, <2>3, <2>4, <2>5, PutStep
<1>9. ASSUME NEW w \in Writers, MarkSent(w) PROVE ReportInv'
  <2> DEFINE row == [Row(w) EXCEPT !.status = "sent", !.stamped = TRUE]
  <2>1. Row(w) \in Report /\ Period(w) \in OnceApproved
    BY <1>9 DEF MarkSent, ReportInv, TypeOK, ViewInv, Row, Period, Op
  <2>2. row \in Report /\ row.status = "sent" /\ row.text = Row(w).text
    BY <2>1 DEF Report, Status
  <2>3. view[w] = Row(w) => <<Period(w), row.text>> \in approved
    BY <1>9, <2>2 DEF MarkSent, ReportInv, TypeOK, ViewInv, ApprovedInv, Row, Period, Op
  <2>4. pc[w] = "write" /\ Put(w, row) /\ ranToday' \in BOOLEAN
    BY <1>9 DEF MarkSent, ReportInv, TypeOK
  <2> HIDE DEF row
  <2> QED
    BY <2>1, <2>2, <2>3, <2>4, PutStep
<1>10. ASSUME NEW w \in Writers, RunOnly(w) PROVE ReportInv'
  <2>1. faults' \in 0..MaxFaults /\ ranToday' \in BOOLEAN /\ "ok" \in {"write"} \union Ended
    BY <1>10 DEF RunOnly, ReportInv, TypeOK, Ended
  <2> QED
    BY <1>10, <2>1, QuietStep DEF RunOnly
<1>11. CASE UNCHANGED vars
  BY <1>11 DEF vars, ReportInv, TypeOK, ViewInv, ApprovedInv, StampedWasApproved,
     OnceApproved, Row, Period
<1> QED
  BY <1>1, <1>2, <1>3, <1>4, <1>5, <1>6, <1>7, <1>8, <1>9, <1>10, <1>11
  DEF Next, Write

LEMMA Inductive == Spec => []ReportInv
BY ReportInit, ReportStep, PTL DEF Spec

(* Every variable keeps its type, and who edits or sends has read a row.   *)
THEOREM TypeCorrect == Spec => []TypeOK
<1>1. ReportInv => TypeOK
  BY DEF ReportInv
<1> QED
  BY <1>1, Inductive, PTL

(* mark_sent: what carries a date of sending was approved at some time, and*)
(* as it is now, unless somebody wrote to it from an earlier state of it.  *)
THEOREM SentWasApproved == Spec => []StampedWasApproved
<1>1. ReportInv => StampedWasApproved
  BY DEF ReportInv
<1> QED
  BY <1>1, Inductive, PTL

----------------------------------------------------------------------------
(* Who may change a report that is there already.                          *)

(* A change is one writer's, at the place of its own report.               *)
LEMMA ChangeIsWrite ==
  ASSUME ReportInv, Next, NEW p \in Periods, report[p] # NoRow, report'[p] # report[p]
  PROVE  \E w \in Writers : /\ Regenerate(w) \/ Edit(w) \/ MarkSent(w)
                            /\ Period(w) = p
<1>1. PICK w \in Writers :
        Insert(w) \/ Regenerate(w) \/ Edit(w) \/ MarkSent(w)
  BY DEF Next, JobTick, Arrive, Read, Run, Write, Fail, InsertConflict, RunOnly
<1>2. PICK row : report' = [report EXCEPT ![Period(w)] = row]
  BY <1>1 DEF Insert, Regenerate, Edit, MarkSent, Put
<1>3. Period(w) = p
  BY <1>2 DEF ReportInv, TypeOK
<1>4. ~Insert(w)
  BY <1>3 DEF Insert, Row
<1> QED
  BY <1>1, <1>3, <1>4

(* The job asks for a report without forcing it, and so runs only for one  *)
(* that was not there: what it may still write is an INSERT.               *)
THEOREM JobIsHarmless == Spec => JobNeverOverwrites
<1>1. ReportInv /\ [Next]_vars
        => [\A p \in Periods : report[p] # NoRow /\ report'[p] # report[p] =>
              report'[p].text # Scheduler \/ report[p].text = Scheduler]_vars
  <2> SUFFICES ASSUME ReportInv, Next, NEW p \in Periods,
                      report[p] # NoRow, report'[p] # report[p]
               PROVE  report'[p].text # Scheduler \/ report[p].text = Scheduler
    BY DEF vars
  <2>1. PICK w \in Writers : /\ Regenerate(w) \/ Edit(w) \/ MarkSent(w)
                             /\ Period(w) = p
    BY ChangeIsWrite
  <2>2. report[p] \in Report /\ Row(w) = report[p]
    BY <2>1 DEF ReportInv, TypeOK, Row
  <2>3. CASE Regenerate(w)
    <3>1. w # Scheduler
      BY <2>3 DEF Regenerate, ReportInv, ViewInv, Weekly
    <3>2. report'[p].text = w
      BY <2>1, <2>2, <2>3 DEF Regenerate, Put, ReportInv, TypeOK, Report
    <3> QED
      BY <3>1, <3>2
  <2>4. CASE Edit(w)
    <3>1. w # Scheduler
      BY <2>4 DEF Edit, ReportInv, Weekly
    <3>2. report'[p].text \in {w, report[p].text}
      BY <2>1, <2>2, <2>4 DEF Edit, Put, ReportInv, TypeOK, Report
    <3> QED
      BY <3>1, <3>2
  <2>5. CASE MarkSent(w)
    BY <2>1, <2>2, <2>5 DEF MarkSent, Put, ReportInv, TypeOK, Report
  <2> QED
    BY <2>1, <2>3, <2>4, <2>5
<1> QED
  BY <1>1, Inductive, PTL DEF Spec, JobNeverOverwrites

(* update and generate refuse what they read as sent, mark_sent whatever is*)
(* not approved: only a stale read lets a sent report change.              *)
THEOREM OnlyStaleReadsChange == Spec => LateChangesBeganEarlier
<1>1. ReportInv /\ [Next]_vars
        => [\A p \in Periods :
              /\ report[p] # NoRow /\ report[p].status = "sent" /\ report'[p] # report[p]
              => \E w \in Writers : /\ pc[w] = "write" /\ pc'[w] = "ok" /\ Period(w) = p
                                    /\ view[w].status # "sent"]_vars
  <2> SUFFICES ASSUME ReportInv, Next, NEW p \in Periods, report[p] # NoRow,
                      report[p].status = "sent", report'[p] # report[p]
               PROVE  \E w \in Writers : /\ pc[w] = "write" /\ pc'[w] = "ok"
                                         /\ Period(w) = p /\ view[w].status # "sent"
    BY DEF vars
  <2>1. PICK w \in Writers : /\ Regenerate(w) \/ Edit(w) \/ MarkSent(w)
                             /\ Period(w) = p
    BY ChangeIsWrite
  <2>2. pc[w] = "write" /\ pc'[w] = "ok"
    BY <2>1 DEF Regenerate, Edit, MarkSent, Put, GoTo, ReportInv, TypeOK
  <2>3. view[w].status # "sent"
    BY <2>1 DEF Regenerate, Edit, MarkSent, ReportInv, ViewInv
  <2> QED
    BY <2>1, <2>2, <2>3
<1> QED
  BY <1>1, Inductive, PTL DEF Spec, LateChangesBeganEarlier
============================================================================
