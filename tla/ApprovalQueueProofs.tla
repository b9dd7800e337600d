------------------------ MODULE ApprovalQueueProofs ------------------------
(***************************************************************************)
(* Proofs about ApprovalQueue.  The inductive invariant is the conjunction *)
(* TypeOK /\ SweepInv /\ Arrived /\ LockInv /\ RaidInv /\ GrantInv /\       *)
(* BackedInv; each part is proved relative to the parts before it.  The    *)
(* refinement of ApprovalGate rests on GrantInv.                           *)
(***************************************************************************)
EXTENDS ApprovalQueue, TLAPS

Typed == TypeOK /\ SweepInv /\ Arrived

LEMMA InitTyped == Init => Typed
  BY ApprovalConstants
     DEF Init, Typed, TypeOK, SweepInv, Arrived, Txns, Statuses, Places, Ended

LEMMA DecisionFacts ==
  ASSUME NEW d \in Decision
  PROVE  /\ d.ids \in Seq(Approvals) /\ d.ids # <<>>
         /\ d.edit \in Payloads \union {NoEdit, EmptyEdit}
<1>1. d.ids \in Batches \union {<<a>> : a \in Singles} /\ d.edit \in Edits
  BY DEF Decision
<1>2. \A a \in Approvals : <<a>> \in Seq(Approvals) /\ <<a>> # <<>>
  OBVIOUS
<1>3. /\ Batches \subseteq Seq(Approvals) \ {<<>>} /\ Singles \subseteq Approvals
      /\ Edits \subseteq Payloads \union {NoEdit, EmptyEdit}
  BY ApprovalConstants
<1>4. QED
  BY <1>1, <1>2, <1>3

(* What a request executes is a payload, and names a reference or none.    *)
LEMMA PayloadTyped ==
  ASSUME NEW r \in Requests, NEW a \in Approvals
  PROVE  EffectivePayload(r, a) \in Payloads /\ RefOf(r, a) \in Refs \union {NoRef}
<1>1. EffectivePayload(r, a) \in Payloads
  BY ApprovalConstants DEF EffectivePayload
<1>2. QED
  BY <1>1, ApprovalConstants DEF RefOf

(* ROLLBACK and COMMIT keep every variable in its type.                    *)
LEMMA RollbackTyped ==
  ASSUME Typed, NEW t \in Txns, NEW place \in Ended \union {"idle"},
         Rollback(t, place),
         writes' \subseteq Write,
         pc[t] # "idle", t = Sweep => place = "idle", t # Sweep => place # "idle"
  PROVE  Typed'
<1>1. TypeOK'
  <2>1. UNCHANGED <<status, decidedBy, edited, raidItems, byHand, due, decision>>
    BY DEF Rollback, dbVars
  <2>2. /\ owner' \in [Approvals -> Txns \union {Nobody}]
        /\ reportOwner' \in [Refs -> Requests \union {Nobody}]
    BY DEF Typed, TypeOK, Rollback, Unlocked, UnlockReports
  <2>3. pc' \in [Txns -> Places] /\ todo' \in [Txns -> Seq(Approvals)]
    BY DEF Typed, TypeOK, Rollback, GoTo, Places
  <2>4. local' \in [Txns -> [Approvals -> Statuses]]
    BY DEF Typed, TypeOK, Rollback, Statuses
  <2>5. inserted' \in [Txns -> SUBSET RaidRow]
    BY DEF Typed, TypeOK, Rollback
  <2>6. QED
    BY <2>1, <2>2, <2>3, <2>4, <2>5 DEF Typed, TypeOK
<1>2. SweepInv'
  BY ApprovalConstants
     DEF Typed, TypeOK, SweepInv, Rollback, Unlocked, GoTo, Txns
<1>3. Arrived'
  BY DEF Typed, TypeOK, Arrived, Rollback, GoTo, Txns, Ended
<1>4. QED
  BY <1>1, <1>2, <1>3 DEF Typed

LEMMA CommitTyped ==
  ASSUME Typed, NEW t \in Txns, pc[t] = "next", CommitRows(t),
         NEW place \in Places, GoTo(t, place), UNCHANGED writes,
         place = IF t = Sweep THEN "idle" ELSE "done"
  PROVE  Typed'
<1> USE ApprovalConstants
<1>1. \A a \in Locked(t) : local[t][a] # "expired" => t \in Requests
  BY DEF Typed, SweepInv, Locked, Txns, TypeOK
<1>2. t \in Requests => decision[t].edit \in Payloads \union {NoEdit, EmptyEdit}
  BY DecisionFacts DEF Typed, Arrived
<1>3. TypeOK'
  <2>1. status' \in [Approvals -> Statuses]
    BY DEF CommitRows, Typed, TypeOK
  <2>2. decidedBy' \in [Approvals -> Requests \union {Nobody}]
    BY <1>1 DEF CommitRows, Typed, TypeOK
  <2>3. edited' \in [Approvals -> Payloads \union {NoEdit, EmptyEdit}]
    BY <1>1, <1>2 DEF CommitRows, Typed, TypeOK
  <2>4. raidItems' \subseteq RaidRow /\ inserted' \in [Txns -> SUBSET RaidRow]
    BY DEF CommitRows, Typed, TypeOK
  <2>5. local' \in [Txns -> [Approvals -> Statuses]]
    BY DEF CommitRows, Typed, TypeOK, Statuses
  <2>6. /\ owner' \in [Approvals -> Txns \union {Nobody}]
        /\ reportOwner' \in [Refs -> Requests \union {Nobody}]
    BY DEF CommitRows, Unlocked, UnlockReports, Typed, TypeOK
  <2>7. pc' \in [Txns -> Places] /\ UNCHANGED <<byHand, due, decision, todo>>
    BY DEF CommitRows, GoTo, Typed, TypeOK
  <2>8. QED
    BY <2>1, <2>2, <2>3, <2>4, <2>5, <2>6, <2>7 DEF Typed, TypeOK
<1>4. SweepInv'
  BY DEF CommitRows, Unlocked, GoTo, Typed, TypeOK, SweepInv, Txns
<1>5. Arrived'
  BY DEF CommitRows, GoTo, Typed, TypeOK, Arrived, Txns
<1>6. QED
  BY <1>3, <1>4, <1>5 DEF Typed

(* A step of request r that commits nothing: what is left to show of it.   *)
OwnStep(r) ==
  /\ UNCHANGED <<dbVars, decision>>
  /\ writes' \subseteq Write
  /\ owner' \in [Approvals -> Txns \union {Nobody}]
  /\ reportOwner' \in [Refs -> Requests \union {Nobody}]
  /\ \A a \in Approvals : owner'[a] = Sweep <=> owner[a] = Sweep
  /\ todo' \in [Txns -> Seq(Approvals)]
  /\ local' \in [Txns -> [Approvals -> Statuses]]
  /\ inserted' \in [Txns -> SUBSET RaidRow]
  /\ \A t \in Txns \ {r} : /\ todo'[t] = todo[t]
                           /\ local'[t] = local[t]
                           /\ inserted'[t] = inserted[t]

LEMMA OwnStepTyped ==
  ASSUME Typed, NEW r \in Requests, pc[r] # "idle",
         NEW place \in {"next", "flush", "execute", "append"}, GoTo(r, place),
         OwnStep(r), place # "next" => todo'[r] # <<>>
  PROVE  Typed'
<1> USE ApprovalConstants
<1>1. r \in Txns /\ r # Sweep /\ Sweep \in Txns /\ place \in Places
  BY DEF Txns, Places
<1>2. TypeOK'
  BY <1>1 DEF Typed, TypeOK, GoTo, OwnStep, dbVars
<1>3. SweepInv'
  BY <1>1 DEF Typed, TypeOK, SweepInv, GoTo, OwnStep
<1>4. Arrived'
  BY <1>1 DEF Typed, TypeOK, Arrived, GoTo, OwnStep, Txns
<1>5. QED
  BY <1>2, <1>3, <1>4 DEF Typed

(* What a request that is at an approval can rely on.                      *)
LEMMA AtApproval ==
  ASSUME Typed, NEW r \in Requests,
         \/ pc[r] \in {"flush", "execute", "append"}
         \/ pc[r] = "next" /\ todo[r] # <<>>
  PROVE  /\ r \in Txns /\ Current(r) \in Approvals
         /\ todo[r] \in Seq(Approvals) /\ todo[r] # <<>>
         /\ Tail(todo[r]) \in Seq(Approvals)
         /\ decision[r] \in Decision
         /\ local[r] \in [Approvals -> Statuses]
         /\ inserted[r] \in SUBSET RaidRow
  BY DEF Typed, TypeOK, Arrived, Txns, Current

LEMMA ExternalWriteTyped ==
  ASSUME Typed, NEW r \in Requests, pc[r] \in {"execute", "append"},
         ExternalWrite(r, Current(r)) \/ UNCHANGED writes
  PROVE  writes' \subseteq Write
<1>1. [approval |-> Current(r), by |-> r, payload |-> EffectivePayload(r, Current(r))]
        \in Write
  BY AtApproval, PayloadTyped DEF Write
<1>2. QED
  BY <1>1 DEF ExternalWrite, Typed, TypeOK

LEMMA TypedStep == Typed /\ [Next]_vars => Typed'
<1> SUFFICES ASSUME Typed, [Next]_vars PROVE Typed'
  OBVIOUS
<1> USE ApprovalConstants
<1>1. ASSUME NEW r \in Requests, Receive(r) PROVE Typed'
  <2>1. TypeOK'
    BY <1>1, DecisionFacts DEF Receive, Typed, TypeOK, GoTo, dbVars, Txns, Places
  <2>2. SweepInv'
    BY <1>1 DEF Receive, Typed, TypeOK, SweepInv, GoTo, Txns
  <2>3. Arrived'
    BY <1>1 DEF Receive, Typed, TypeOK, Arrived, GoTo, Txns
  <2>4. QED BY <2>1, <2>2, <2>3 DEF Typed
<1>2. ASSUME NEW r \in Requests, Refuse(r) PROVE Typed'
  <2>1. CASE decision[r].bulk
    <3>1. /\ Advance(r)
          /\ UNCHANGED <<dbVars, owner, reportOwner, decision, local, inserted, writes>>
      BY <1>2, <2>1 DEF Refuse, RaiseError
    <3>2. OwnStep(r) /\ GoTo(r, "next")
      BY <1>2, <3>1, AtApproval DEF Refuse, Advance, OwnStep, Typed, TypeOK
    <3>3. QED BY <1>2, <3>2, OwnStepTyped DEF Refuse
  <2>2. CASE ~decision[r].bulk
    <3>1. Rollback(r, "refused") /\ UNCHANGED writes
      BY <1>2, <2>2 DEF Refuse, RaiseError
    <3>2. QED
      BY <1>2, <3>1, RollbackTyped DEF Refuse, Typed, TypeOK, Txns, Ended
  <2>3. QED BY <2>1, <2>2
<1>3. ASSUME NEW r \in Requests, Decide(r) PROVE Typed'
  <2>1. OwnStep(r) /\ GoTo(r, "flush")
    BY <1>3, AtApproval DEF Decide, OwnStep, Typed, TypeOK, Statuses, dbVars
  <2>2. QED BY <1>3, <2>1, OwnStepTyped DEF Decide
<1>4. ASSUME NEW r \in Requests, FlushExpired(r) PROVE Typed'
  <2>1. CASE decision[r].bulk
    <3>1. /\ pc[r] = "flush" /\ owner[Current(r)] = Nobody /\ Advance(r)
          /\ owner' = [owner EXCEPT ![Current(r)] = r]
          /\ UNCHANGED <<dbVars, reportOwner, decision, local, inserted, writes>>
      BY <1>4, <2>1 DEF FlushExpired
    <3>2. OwnStep(r) /\ GoTo(r, "next")
      BY <3>1, AtApproval DEF Advance, OwnStep, Typed, TypeOK, Txns
    <3>3. QED BY <3>1, <3>2, OwnStepTyped
  <2>2. CASE ~decision[r].bulk
    <3>1. Rollback(r, "refused") /\ UNCHANGED writes
      BY <1>4, <2>2 DEF FlushExpired
    <3>2. QED
      BY <1>4, <3>1, RollbackTyped DEF FlushExpired, Typed, TypeOK, Txns, Ended
  <2>3. QED BY <2>1, <2>2
<1>5. ASSUME NEW r \in Requests, FlushRejected(r) PROVE Typed'
  <2>1. OwnStep(r) /\ GoTo(r, "next")
    BY <1>5, AtApproval
       DEF FlushRejected, Advance, OwnStep, Typed, TypeOK, dbVars, Txns
  <2>2. QED BY <1>5, <2>1, OwnStepTyped DEF FlushRejected
<1>6. ASSUME NEW r \in Requests, FlushApproved(r) PROVE Typed'
  <2>1. OwnStep(r) /\ GoTo(r, "execute") /\ todo'[r] # <<>>
    BY <1>6, AtApproval DEF FlushApproved, OwnStep, Typed, TypeOK, dbVars, Txns
  <2>2. QED BY <1>6, <2>1, OwnStepTyped DEF FlushApproved
<1>7. ASSUME NEW r \in Requests, Commit(r) PROVE Typed'
  BY <1>7, CommitTyped DEF Commit, Txns, Places, Ended
<1>8. ASSUME NEW r \in Requests, ParseError(r) PROVE Typed'
  BY <1>8, RollbackTyped DEF ParseError, Typed, TypeOK, Txns, Ended
<1>9. ASSUME NEW r \in Requests, SkipDuplicateRaid(r) PROVE Typed'
  <2>1. OwnStep(r) /\ GoTo(r, "next")
    BY <1>9, AtApproval
       DEF SkipDuplicateRaid, Settle, Advance, OwnStep, Typed, TypeOK, Statuses
  <2>2. QED BY <1>9, <2>1, OwnStepTyped DEF SkipDuplicateRaid
<1>10. ASSUME NEW r \in Requests, ExecuteRaid(r) PROVE Typed'
  <2>1. CASE Workbook
    <3>1. OwnStep(r) /\ GoTo(r, "append") /\ todo'[r] # <<>>
      BY <1>10, <2>1, AtApproval DEF ExecuteRaid, OwnStep, Typed, TypeOK
    <3>2. QED BY <1>10, <3>1, OwnStepTyped DEF ExecuteRaid
  <2>2. CASE ~Workbook
    <3>1. /\ AddRaidItem(r, Current(r), FALSE) /\ Settle(r, Current(r), "executed")
          /\ UNCHANGED <<dbVars, owner, reportOwner, decision, writes>>
      BY <1>10, <2>2 DEF ExecuteRaid
    <3>2. [approval |-> Current(r), by |-> r, ref |-> RefOf(r, Current(r)),
           synced |-> FALSE] \in RaidRow
      BY <1>10, AtApproval, PayloadTyped DEF ExecuteRaid, RaidRow
    <3>3. OwnStep(r) /\ GoTo(r, "next")
      BY <1>10, <3>1, <3>2, AtApproval
         DEF ExecuteRaid, AddRaidItem, Settle, Advance, OwnStep, Typed, TypeOK,
             Statuses
    <3>4. QED BY <1>10, <3>3, OwnStepTyped DEF ExecuteRaid
  <2>3. QED BY <2>1, <2>2
<1>11. ASSUME NEW r \in Requests, AppendToWorkbook(r) PROVE Typed'
  <2>1. writes' \subseteq Write
    BY <1>11, ExternalWriteTyped DEF AppendToWorkbook, Typed, TypeOK
  <2>2. PICK synced \in BOOLEAN, outcome \in Statuses :
             AddRaidItem(r, Current(r), synced) /\ Settle(r, Current(r), outcome)
    <3>1. \/ AddRaidItem(r, Current(r), TRUE) /\ Settle(r, Current(r), "executed")
          \/ /\ AddRaidItem(r, Current(r), FALSE)
             /\ Settle(r, Current(r), "execution_failed")
      BY <1>11 DEF AppendToWorkbook
    <3>2. QED BY <3>1 DEF Statuses
  <2>3. [approval |-> Current(r), by |-> r, ref |-> RefOf(r, Current(r)),
         synced |-> synced] \in RaidRow
    BY <1>11, AtApproval, PayloadTyped DEF AppendToWorkbook, RaidRow
  <2>4. OwnStep(r) /\ GoTo(r, "next")
    BY <1>11, <2>1, <2>2, <2>3, AtApproval
       DEF AppendToWorkbook, AddRaidItem, Settle, Advance, OwnStep, Typed, TypeOK
  <2>5. QED BY <1>11, <2>4, OwnStepTyped DEF AppendToWorkbook
<1>12. ASSUME NEW r \in Requests, ExecuteJira(r) PROVE Typed'
  <2>1. writes' \subseteq Write
    BY <1>12, ExternalWriteTyped DEF ExecuteJira, Typed, TypeOK
  <2>2. PICK outcome \in Statuses : Settle(r, Current(r), outcome)
    <3>1. \/ Settle(r, Current(r), "executed")
          \/ Settle(r, Current(r), "execution_failed")
      BY <1>12 DEF ExecuteJira
    <3>2. QED BY <3>1 DEF Statuses
  <2>3. OwnStep(r) /\ GoTo(r, "next")
    BY <1>12, <2>1, <2>2, AtApproval
       DEF ExecuteJira, Settle, Advance, OwnStep, Typed, TypeOK
  <2>4. QED BY <1>12, <2>3, OwnStepTyped DEF ExecuteJira
<1>13. ASSUME NEW r \in Requests, ExecuteReport(r) PROVE Typed'
  <2>1. PICK outcome \in Statuses : Settle(r, Current(r), outcome)
    <3>1. \/ Settle(r, Current(r), "executed")
          \/ Settle(r, Current(r), "execution_failed")
      BY <1>13 DEF ExecuteReport
    <3>2. QED BY <3>1 DEF Statuses
  <2>2. reportOwner' \in [Refs -> Requests \union {Nobody}]
    <3>1. RefOf(r, Current(r)) \in Refs \union {NoRef}
      BY <1>13, AtApproval, PayloadTyped DEF ExecuteReport
    <3>2. QED BY <1>13, <3>1 DEF ExecuteReport, Typed, TypeOK
  <2>3. OwnStep(r) /\ GoTo(r, "next")
    BY <1>13, <2>1, <2>2, AtApproval
       DEF ExecuteReport, Settle, Advance, OwnStep, Typed, TypeOK
  <2>4. QED BY <1>13, <2>3, OwnStepTyped DEF ExecuteReport
<1>14. ASSUME SweepStart PROVE Typed'
  <2>1. PICK n \in 1..SweepLimit : \E rows \in [1..n -> Stale] :
               todo' = [todo EXCEPT ![Sweep] = rows]
    BY <1>14 DEF SweepStart
  <2>2. PICK rows \in [1..n -> Stale] : todo' = [todo EXCEPT ![Sweep] = rows]
    BY <2>1
  <2>3. rows \in Seq(Approvals) /\ rows # <<>>
    BY <2>1 DEF Stale
  <2>4. TypeOK'
    BY <1>14, <2>2, <2>3
       DEF SweepStart, GoTo, dbVars, Typed, TypeOK, Txns, Places, Statuses
  <2>5. SweepInv'
    BY <1>14, <2>2, <2>3 DEF SweepStart, GoTo, Typed, TypeOK, SweepInv, Txns
  <2>6. Arrived'
    BY <1>14, <2>2 DEF SweepStart, GoTo, Typed, TypeOK, Arrived, Txns
  <2>7. QED BY <2>4, <2>5, <2>6 DEF Typed
<1>15. ASSUME SweepFlush PROVE Typed'
  <2>1. /\ todo[Sweep] \in Seq(Approvals) /\ Tail(todo[Sweep]) \in Seq(Approvals)
        /\ Current(Sweep) \in Approvals
    BY <1>15 DEF SweepFlush, Current, Typed, TypeOK, SweepInv, Txns
  <2>2. TypeOK'
    BY <1>15, <2>1 DEF SweepFlush, GoTo, dbVars, Typed, TypeOK, Txns, Places
  <2>3. SweepInv'
    BY <1>15, <2>1 DEF SweepFlush, GoTo, Typed, TypeOK, SweepInv, Txns
  <2>4. Arrived'
    BY <1>15 DEF SweepFlush, GoTo, Typed, TypeOK, Arrived, Txns
  <2>5. QED BY <2>2, <2>3, <2>4 DEF Typed
<1>16. ASSUME SweepCommit PROVE Typed'
  BY <1>16, CommitTyped DEF SweepCommit, Txns, Places
<1>17. ASSUME NEW t \in Txns, Crash(t) PROVE Typed'
  <2>1. AfterAbort(t) \in Ended \union {"idle"} /\ (t = Sweep <=> AfterAbort(t) = "idle")
    BY DEF AfterAbort, Ended
  <2>2. QED BY <1>17, <2>1, RollbackTyped DEF Crash, Typed, TypeOK
<1>18. ASSUME NEW t \in Txns, DeadlockAbort(t) PROVE Typed'
  <2>1. pc[t] # "idle" /\ Rollback(t, AfterAbort(t)) /\ UNCHANGED writes
    BY <1>18 DEF DeadlockAbort, Deadlocked, Blocked, Holder, AtReport
  <2>2. QED BY <2>1, RollbackTyped DEF AfterAbort, Typed, TypeOK, Ended
<1>19. ASSUME (\E a \in Approvals : Deadline(a)) \/ \E x \in HandRefs : AddByHand(x) PROVE Typed'
  BY <1>19 DEF Deadline, AddByHand, txnVars, Typed, TypeOK, SweepInv, Arrived
<1>20. CASE UNCHANGED vars
  BY <1>20 DEF vars, dbVars, txnVars, Typed, TypeOK, SweepInv, Arrived
<1>21. QED
  BY <1>1, <1>2, <1>3, <1>4, <1>5, <1>6, <1>7, <1>8, <1>9, <1>10, <1>11, <1>12,
     <1>13, <1>14, <1>15, <1>16, <1>17, <1>18, <1>19, <1>20
     DEF Next, Handle, Flush, Execute, RunSweep, Quiescent

(* Type correctness, for any approvals, requests and bounds.               *)
THEOREM TypeCorrect == Spec => []TypeOK
<1>1. Spec => []Typed
  BY InitTyped, TypedStep, PTL DEF Spec
<1>2. Typed => TypeOK
  BY DEF Typed
<1>3. QED
  BY <1>1, <1>2, PTL

----------------------------------------------------------------------------
(* The row locks cover what a request has done.                            *)

SameFor(q) ==
  /\ pc'[q] = pc[q] /\ todo'[q] = todo[q]
  /\ local'[q] = local[q] /\ inserted'[q] = inserted[q]
  /\ decision'[q] = decision[q]
  /\ \A a \in Approvals : owner'[a] = q <=> owner[a] = q

LEMMA InitLock == Init => LockInv
  BY ApprovalConstants DEF Init, LockInv, CoveredByLocks, Ended, Txns

LEMMA SameForKeepsLocks ==
  ASSUME Typed, NEW q \in Requests, CoveredByLocks(q), SameFor(q)
  PROVE  CoveredByLocks(q)'
<1>1. inserted[q] \subseteq RaidRow
  BY DEF Typed, TypeOK, Txns
<1>2. \A i \in inserted[q] : i.approval \in Approvals
  BY <1>1 DEF RaidRow
<1>3. pc[q] \in {"execute", "append"} => Current(q) \in Approvals
  BY AtApproval
<1>4. Current(q)' = Current(q)
  BY DEF SameFor, Current
<1>5. QED
  BY <1>2, <1>3, <1>4 DEF SameFor, CoveredByLocks

(* Ending a transaction, either way, touches nobody else's locks.          *)
LEMMA RollbackLocks ==
  ASSUME Typed, NEW t \in Txns, NEW place \in Ended \union {"idle"},
         Rollback(t, place)
  PROVE  /\ \A q \in Requests \ {t} : SameFor(q)
         /\ t \in Requests => CoveredByLocks(t)'
<1> USE ApprovalConstants
<1>1. \A q \in Requests \ {t} : SameFor(q)
  BY DEF Typed, TypeOK, Rollback, Unlocked, GoTo, SameFor, Txns
<1>2. /\ pc'[t] = place /\ inserted'[t] = {}
      /\ \A a \in Approvals : owner'[a] # t /\ local'[t][a] = "pending"
  BY DEF Typed, TypeOK, Rollback, Unlocked, GoTo, Txns
<1>3. QED
  BY <1>1, <1>2 DEF CoveredByLocks, Ended

LEMMA CommitLocks ==
  ASSUME Typed, NEW t \in Txns, CommitRows(t), NEW place \in {"done", "idle"},
         GoTo(t, place)
  PROVE  /\ \A q \in Requests \ {t} : SameFor(q)
         /\ t \in Requests => CoveredByLocks(t)'
<1> USE ApprovalConstants
<1>1. \A q \in Requests \ {t} : SameFor(q)
  BY DEF Typed, TypeOK, CommitRows, Unlocked, GoTo, SameFor, Txns
<1>2. /\ pc'[t] = place /\ inserted'[t] = {}
      /\ \A a \in Approvals : owner'[a] # t /\ local'[t][a] = "pending"
  BY DEF Typed, TypeOK, CommitRows, Unlocked, GoTo, Txns
<1>3. QED
  BY <1>1, <1>2 DEF CoveredByLocks, Ended

(* Execution: Settle moves on with the outcome of an approval it has locked. *)
LEMMA SettleLocks ==
  ASSUME Typed, NEW r \in Requests, CoveredByLocks(r),
         pc[r] \in {"execute", "append"},
         NEW outcome \in {"executed", "execution_failed"},
         Settle(r, Current(r), outcome), UNCHANGED <<owner, decision>>,
         NEW synced \in BOOLEAN,
         UNCHANGED inserted \/ AddRaidItem(r, Current(r), synced)
  PROVE  /\ \A q \in Requests \ {r} : SameFor(q)
         /\ CoveredByLocks(r)'
<1> USE ApprovalConstants
<1>1. r \in Txns /\ Current(r) \in Approvals
  BY AtApproval
<1>2. \A q \in Requests \ {r} : SameFor(q)
  BY <1>1 DEF Typed, TypeOK, Settle, Advance, GoTo, AddRaidItem, SameFor, Txns
<1>3. pc'[r] = "next"
  BY <1>1 DEF Typed, TypeOK, Settle, Advance, GoTo
<1>4. local'[r] = [local[r] EXCEPT ![Current(r)] = outcome]
  BY <1>1 DEF Typed, TypeOK, Settle
<1>5. \A i \in inserted'[r] : i.by = r /\ owner'[i.approval] = r
  BY <1>1 DEF Typed, TypeOK, CoveredByLocks, AddRaidItem
<1>6. \A a \in Approvals : local'[r][a] # "approved"
  BY <1>1, <1>4 DEF Typed, TypeOK, CoveredByLocks
<1>7. \A a \in Approvals :
        local'[r][a] \in {"executed", "execution_failed"} => owner'[a] = r
  BY <1>1, <1>4 DEF Typed, TypeOK, CoveredByLocks
<1>8. QED
  BY <1>2, <1>3, <1>5, <1>6, <1>7 DEF CoveredByLocks, Ended

(* One step keeps one request's work covered; t is the transaction that    *)
(* takes it.                                                               *)
LEMMA OthersKeepLocks ==
  ASSUME Typed, LockInv, NEW t, \A q \in Requests \ {t} : SameFor(q),
         t \in Requests => CoveredByLocks(t)'
  PROVE  LockInv'
<1> SUFFICES ASSUME NEW q \in Requests PROVE CoveredByLocks(q)'
  BY DEF LockInv
<1>1. CASE q = t
  BY <1>1
<1>2. CASE q # t
  BY <1>2, SameForKeepsLocks DEF LockInv
<1>3. QED
  BY <1>1, <1>2

LEMMA LockStep == Typed /\ LockInv /\ [Next]_vars => LockInv'
<1> SUFFICES ASSUME Typed, LockInv, [Next]_vars PROVE LockInv'
  OBVIOUS
<1> USE ApprovalConstants
<1>a. \A r \in Requests : r \in Txns /\ r # Sweep /\ r # Nobody /\ CoveredByLocks(r)
  BY DEF Txns, LockInv
<1>1. ASSUME NEW r \in Requests, Receive(r) PROVE LockInv'
  <2>1. \A q \in Requests \ {r} : SameFor(q)
    BY <1>1 DEF Receive, GoTo, SameFor, Typed, TypeOK, Txns
  <2>2. CoveredByLocks(r)'
    BY <1>1, <1>a DEF Receive, GoTo, CoveredByLocks, Typed, TypeOK, Ended
  <2>3. QED BY <2>1, <2>2, OthersKeepLocks
<1>2. ASSUME NEW r \in Requests, Refuse(r) PROVE LockInv'
  <2>1. CASE decision[r].bulk
    <3>1. /\ Advance(r)
          /\ UNCHANGED <<dbVars, owner, reportOwner, decision, local, inserted, writes>>
      BY <1>2, <2>1 DEF Refuse, RaiseError
    <3>2. \A q \in Requests \ {r} : SameFor(q)
      BY <3>1 DEF Advance, GoTo, SameFor, Typed, TypeOK, Txns
    <3>3. pc[r] = "next" /\ pc'[r] = "next" /\ UNCHANGED <<owner, local, inserted>>
      BY <1>2, <3>1, <1>a DEF Refuse, Advance, GoTo, Typed, TypeOK
    <3>4. CoveredByLocks(r)'
      BY <3>3, <1>a DEF CoveredByLocks, Ended
    <3>5. QED BY <3>2, <3>4, OthersKeepLocks
  <2>2. CASE ~decision[r].bulk
    <3>1. Rollback(r, "refused")
      BY <1>2, <2>2 DEF Refuse, RaiseError
    <3>2. QED BY <3>1, <1>a, RollbackLocks, OthersKeepLocks DEF Ended
  <2>3. QED BY <2>1, <2>2
<1>3. ASSUME NEW r \in Requests, Decide(r) PROVE LockInv'
  <2>1. r \in Txns /\ Current(r) \in Approvals
    BY <1>3, AtApproval DEF Decide
  <2>2. \A q \in Requests \ {r} : SameFor(q)
    BY <1>3, <2>1 DEF Decide, GoTo, SameFor, Typed, TypeOK, Txns
  <2>3. PICK outcome \in {"expired", "approved", "rejected"} :
               local' = [local EXCEPT ![r][Current(r)] = outcome]
    BY <1>3 DEF Decide
  <2>4. /\ pc[r] = "next" /\ pc'[r] = "flush" /\ Current(r)' = Current(r)
        /\ UNCHANGED <<owner, inserted>>
        /\ local'[r] = [local[r] EXCEPT ![Current(r)] = outcome]
    BY <1>3, <2>1, <2>3 DEF Decide, GoTo, Current, Typed, TypeOK
  <2>5. CoveredByLocks(r)'
    BY <2>1, <2>4, <1>a DEF CoveredByLocks, Typed, TypeOK, Ended
  <2>6. QED BY <2>2, <2>5, OthersKeepLocks
<1>4. ASSUME NEW r \in Requests, FlushExpired(r) PROVE LockInv'
  <2>1. CASE decision[r].bulk
    <3>1. /\ pc[r] = "flush" /\ owner[Current(r)] = Nobody /\ Advance(r)
          /\ local[r][Current(r)] = "expired"
          /\ owner' = [owner EXCEPT ![Current(r)] = r]
          /\ UNCHANGED <<decision, local, inserted>>
      BY <1>4, <2>1 DEF FlushExpired
    <3>2. \A q \in Requests \ {r} : SameFor(q)
      BY <3>1, <1>a DEF Advance, GoTo, SameFor, Typed, TypeOK, Txns
    <3>3. pc'[r] = "next" /\ \A a \in Approvals : owner[a] = r => owner'[a] = r
      BY <3>1, <1>a DEF Advance, GoTo, Typed, TypeOK
    <3>4. \A i \in inserted[r] : i.approval \in Approvals
      BY <1>a DEF Typed, TypeOK, RaidRow
    <3>5. CoveredByLocks(r)'
      BY <3>1, <3>3, <3>4, <1>a DEF CoveredByLocks, Ended
    <3>6. QED BY <3>2, <3>5, OthersKeepLocks
  <2>2. CASE ~decision[r].bulk
    <3>1. Rollback(r, "refused")
      BY <1>4, <2>2 DEF FlushExpired
    <3>2. QED BY <3>1, <1>a, RollbackLocks, OthersKeepLocks DEF Ended
  <2>3. QED BY <2>1, <2>2
<1>5. ASSUME NEW r \in Requests, FlushRejected(r) PROVE LockInv'
  <2>1. \A q \in Requests \ {r} : SameFor(q)
    BY <1>5, <1>a DEF FlushRejected, Advance, GoTo, SameFor, Typed, TypeOK, Txns
  <2>2. pc'[r] = "next" /\ \A a \in Approvals : owner[a] = r => owner'[a] = r
    BY <1>5, <1>a DEF FlushRejected, Advance, GoTo, Typed, TypeOK
  <2>3. \A i \in inserted[r] : i.approval \in Approvals
    BY <1>a DEF Typed, TypeOK, RaidRow
  <2>4. CoveredByLocks(r)'
    BY <1>5, <2>2, <2>3, <1>a DEF FlushRejected, CoveredByLocks, Ended
  <2>5. QED BY <2>1, <2>4, OthersKeepLocks
<1>6. ASSUME NEW r \in Requests, FlushApproved(r) PROVE LockInv'
  <2>1. \A q \in Requests \ {r} : SameFor(q)
    BY <1>6, <1>a DEF FlushApproved, GoTo, SameFor, Typed, TypeOK, Txns
  <2>2. Current(r) \in Approvals /\ Current(r)' = Current(r)
    BY <1>6, AtApproval DEF FlushApproved, Current
  <2>3. /\ pc'[r] = "execute" /\ owner'[Current(r)] = r
        /\ \A a \in Approvals : owner[a] = r => owner'[a] = r
    BY <1>6, <1>a, <2>2 DEF FlushApproved, GoTo, Typed, TypeOK
  <2>4. \A i \in inserted[r] : i.approval \in Approvals
    BY <1>a DEF Typed, TypeOK, RaidRow
  <2>5. CoveredByLocks(r)'
    BY <1>6, <2>2, <2>3, <2>4, <1>a DEF FlushApproved, CoveredByLocks, Ended
  <2>6. QED BY <2>1, <2>5, OthersKeepLocks
<1>7. ASSUME NEW r \in Requests, Commit(r) PROVE LockInv'
  BY <1>7, <1>a, CommitLocks, OthersKeepLocks DEF Commit
<1>8. ASSUME NEW r \in Requests, ParseError(r) PROVE LockInv'
  BY <1>8, <1>a, RollbackLocks, OthersKeepLocks DEF ParseError, Ended
<1>9. ASSUME NEW r \in Requests, SkipDuplicateRaid(r) PROVE LockInv'
  BY <1>9, <1>a, SettleLocks, OthersKeepLocks DEF SkipDuplicateRaid
<1>10. ASSUME NEW r \in Requests, ExecuteRaid(r) PROVE LockInv'
  <2>1. CASE Workbook
    <3>1. \A q \in Requests \ {r} : SameFor(q)
      BY <1>10, <2>1 DEF ExecuteRaid, GoTo, SameFor, Typed, TypeOK, Txns
    <3>2. pc'[r] = "append" /\ Current(r)' = Current(r)
      BY <1>10, <2>1, <1>a DEF ExecuteRaid, GoTo, Current, Typed, TypeOK
    <3>3. CoveredByLocks(r)'
      BY <1>10, <2>1, <3>2, <1>a DEF ExecuteRaid, CoveredByLocks, Ended
    <3>4. QED BY <3>1, <3>3, OthersKeepLocks
  <2>2. CASE ~Workbook
    BY <1>10, <2>2, <1>a, SettleLocks, OthersKeepLocks DEF ExecuteRaid
  <2>3. QED BY <2>1, <2>2
<1>11. ASSUME NEW r \in Requests, AppendToWorkbook(r) PROVE LockInv'
  <2>1. PICK synced \in BOOLEAN, outcome \in {"executed", "execution_failed"} :
          AddRaidItem(r, Current(r), synced) /\ Settle(r, Current(r), outcome)
    <3>1. \/ AddRaidItem(r, Current(r), TRUE) /\ Settle(r, Current(r), "executed")
          \/ /\ AddRaidItem(r, Current(r), FALSE)
             /\ Settle(r, Current(r), "execution_failed")
      BY <1>11 DEF AppendToWorkbook
    <3>2. QED BY <3>1
  <2>2. QED
    BY <1>11, <2>1, <1>a, SettleLocks, OthersKeepLocks DEF AppendToWorkbook
<1>12. ASSUME NEW r \in Requests, ExecuteJira(r) PROVE LockInv'
  <2>1. PICK outcome \in {"executed", "execution_failed"} :
          Settle(r, Current(r), outcome)
    BY <1>12 DEF ExecuteJira
  <2>2. QED BY <1>12, <2>1, <1>a, SettleLocks, OthersKeepLocks DEF ExecuteJira
<1>13. ASSUME NEW r \in Requests, ExecuteReport(r) PROVE LockInv'
  BY <1>13, <1>a, SettleLocks, OthersKeepLocks DEF ExecuteReport
<1>14. ASSUME SweepStart PROVE LockInv'
  BY <1>14, <1>a, OthersKeepLocks
     DEF SweepStart, GoTo, SameFor, Typed, TypeOK, Txns
<1>15. ASSUME SweepFlush PROVE LockInv'
  BY <1>15, <1>a, OthersKeepLocks
     DEF SweepFlush, GoTo, SameFor, Typed, TypeOK, Txns
<1>16. ASSUME SweepCommit PROVE LockInv'
  BY <1>16, CommitLocks, OthersKeepLocks DEF SweepCommit, Txns
<1>17. ASSUME NEW t \in Txns, Crash(t) PROVE LockInv'
  BY <1>17, RollbackLocks, OthersKeepLocks DEF Crash, AfterAbort, Ended
<1>18. ASSUME NEW t \in Txns, DeadlockAbort(t) PROVE LockInv'
  BY <1>18, RollbackLocks, OthersKeepLocks DEF DeadlockAbort, AfterAbort, Ended
<1>19. ASSUME (\E a \in Approvals : Deadline(a)) \/ \E x \in HandRefs : AddByHand(x) PROVE LockInv'
  BY <1>19 DEF Deadline, AddByHand, txnVars, LockInv, CoveredByLocks, Current
<1>20. CASE UNCHANGED vars
  BY <1>20 DEF vars, txnVars, LockInv, CoveredByLocks, Current
<1>21. QED
  BY <1>1, <1>2, <1>3, <1>4, <1>5, <1>6, <1>7, <1>8, <1>9, <1>10, <1>11, <1>12,
     <1>13, <1>14, <1>15, <1>16, <1>17, <1>18, <1>19, <1>20
     DEF Next, Handle, Flush, Execute, RunSweep, Quiescent

----------------------------------------------------------------------------
(* One RAID row per approval.                                              *)

RaidOf(r) == raidItems \union inserted[r]

(* No row of approval a with the reference x that it is executed under.    *)
Free(r, a) == \A i \in RaidOf(r) : ~(i.approval = a /\ i.ref = RefOf(r, a))

OneEach(r) ==
  \A i \in inserted[r] : \A j \in RaidOf(r) :
    i.approval = j.approval /\ i.ref = j.ref /\ i.ref # NoRef => i = j

RaidFor(r) ==
  /\ pc[r] = "append" /\ RefOf(r, Current(r)) # NoRef => Free(r, Current(r))
  /\ OneEach(r)

AllRaid == (\A r \in Requests : RaidFor(r)) /\ OneRaidRowPerApproval

LEMMA AllRaidIsRaidInv == AllRaid => RaidInv
  BY DEF AllRaid, RaidFor, Free, OneEach, RaidOf, RaidInv

LEMMA InitRaid == Init => AllRaid
  BY DEF Init, AllRaid, RaidFor, OneEach, RaidOf, OneRaidRowPerApproval, Txns

(* No RAID row committed or inserted: a step of t that leaves raidItems    *)
(* alone cannot disturb another request.                                   *)
LEMMA OthersKeepRaid ==
  ASSUME Typed, AllRaid, NEW t, \A q \in Requests \ {t} : SameFor(q),
         UNCHANGED raidItems, t \in Requests => RaidFor(t)'
  PROVE  AllRaid'
<1>1. ASSUME NEW q \in Requests, q # t PROVE RaidFor(q)'
  <2>1. /\ Current(q)' = Current(q) /\ pc'[q] = pc[q] /\ inserted'[q] = inserted[q]
        /\ \A a : RefOf(q, a)' = RefOf(q, a)
    BY <1>1 DEF SameFor, Current, RefOf, EffectivePayload
  <2>2. QED
    BY <2>1, <1>1 DEF AllRaid, RaidFor, Free, OneEach, RaidOf
<1>2. OneRaidRowPerApproval'
  BY DEF AllRaid, OneRaidRowPerApproval
<1>3. QED
  BY <1>1, <1>2 DEF AllRaid

LEMMA RollbackRaid ==
  ASSUME Typed, AllRaid, NEW t \in Txns, NEW place \in Ended \union {"idle"},
         Rollback(t, place)
  PROVE  AllRaid'
<1>1. \A q \in Requests \ {t} : SameFor(q)
  BY RollbackLocks
<1>2. inserted'[t] = {} /\ pc'[t] = place /\ UNCHANGED raidItems
  BY DEF Rollback, GoTo, Typed, TypeOK, dbVars
<1>3. t \in Requests => RaidFor(t)'
  BY <1>2 DEF RaidFor, OneEach, Ended
<1>4. QED
  BY <1>1, <1>2, <1>3, OthersKeepRaid

(* Committed rows cannot collide with rows of another open transaction: a  *)
(* row's approval is locked by the transaction that inserted it.           *)
LEMMA CommitRaid ==
  ASSUME Typed, LockInv, AllRaid, NEW t \in Txns, CommitRows(t),
         NEW place \in {"done", "idle"}, GoTo(t, place)
  PROVE  AllRaid'
<1> USE ApprovalConstants
<1>1. /\ \A q \in Requests \ {t} : SameFor(q)
      /\ inserted'[t] = {} /\ pc'[t] = place
      /\ raidItems' = raidItems \union inserted[t]
  BY CommitLocks DEF CommitRows, GoTo, Typed, TypeOK
<1>2. t \notin Requests => inserted[t] = {}
  BY DEF Typed, SweepInv, Txns
<1>3. \A i \in inserted[t] : owner[i.approval] = t
  BY <1>2 DEF LockInv, CoveredByLocks
<1>4. ASSUME NEW q \in Requests, q # t PROVE RaidFor(q)'
  <2>1. /\ Current(q)' = Current(q) /\ pc'[q] = pc[q] /\ inserted'[q] = inserted[q]
        /\ \A a : RefOf(q, a)' = RefOf(q, a)
    BY <1>1, <1>4 DEF SameFor, Current, RefOf, EffectivePayload
  <2>2. RaidFor(q) /\ CoveredByLocks(q)
    BY DEF AllRaid, LockInv
  <2>3. RaidOf(q)' = RaidOf(q) \union inserted[t]
    BY <1>1, <2>1 DEF RaidOf
  <2>4. pc[q] = "append" => \A i \in inserted[t] : i.approval # Current(q)
    BY <2>2, <1>3, <1>4 DEF CoveredByLocks
  <2>5. \A i \in inserted[q], j \in inserted[t] : i.approval # j.approval
    BY <2>2, <1>3, <1>4 DEF CoveredByLocks
  <2>6. pc'[q] = "append" /\ RefOf(q, Current(q))' # NoRef => Free(q, Current(q))'
    BY <2>1, <2>2, <2>3, <2>4 DEF RaidFor, Free
  <2>7. OneEach(q)'
    BY <2>1, <2>2, <2>3, <2>5 DEF RaidFor, OneEach
  <2>8. QED
    BY <2>6, <2>7 DEF RaidFor, Current
<1>5. t \in Requests => RaidFor(t)'
  BY <1>1 DEF RaidFor, OneEach
<1>6. OneRaidRowPerApproval'
  BY <1>1, <1>2 DEF AllRaid, RaidFor, OneEach, RaidOf, OneRaidRowPerApproval
<1>7. QED
  BY <1>4, <1>5, <1>6 DEF AllRaid

(* A step that inserts nothing and does not arrive at the workbook.        *)
LEMMA PlainRaid ==
  ASSUME Typed, AllRaid, NEW r \in Requests,
         \A q \in Requests \ {r} : SameFor(q),
         UNCHANGED <<raidItems, inserted>>, pc'[r] # "append"
  PROVE  AllRaid'
<1>1. RaidFor(r)'
  BY DEF AllRaid, RaidFor, OneEach, RaidOf
<1>2. QED
  BY <1>1, OthersKeepRaid

(* Inserting the row of an approval that has none.                         *)
LEMMA InsertRaid ==
  ASSUME Typed, LockInv, AllRaid, NEW r \in Requests,
         NEW outcome \in {"executed", "execution_failed"}, NEW synced \in BOOLEAN,
         pc[r] \in {"execute", "append"},
         AddRaidItem(r, Current(r), synced), Settle(r, Current(r), outcome),
         UNCHANGED <<owner, decision, raidItems>>,
         RefOf(r, Current(r)) # NoRef => Free(r, Current(r))
  PROVE  AllRaid'
<1> DEFINE new == [approval |-> Current(r), by |-> r, ref |-> RefOf(r, Current(r)),
                   synced |-> synced]
<1>1. \A q \in Requests \ {r} : SameFor(q)
  BY SettleLocks DEF LockInv
<1>2. r \in Txns /\ pc'[r] = "next" /\ inserted'[r] = inserted[r] \union {new}
  BY DEF Settle, Advance, GoTo, AddRaidItem, Typed, TypeOK, Txns
<1>3. RaidOf(r)' = RaidOf(r) \union {new}
  BY <1>2 DEF RaidOf
<1>4. new.approval = Current(r) /\ new.ref = RefOf(r, Current(r))
  OBVIOUS
<1>5. OneEach(r)
  BY DEF AllRaid, RaidFor
<1>6. inserted[r] \subseteq RaidOf(r)
  BY DEF RaidOf
<1>7. OneEach(r)'
  BY <1>2, <1>3, <1>4, <1>5, <1>6 DEF OneEach, Free
<1>8. RaidFor(r)'
  BY <1>2, <1>7 DEF RaidFor
<1>9. QED
  BY <1>1, <1>8, OthersKeepRaid

(* The check ExecuteRaid makes: nobody has a row for this source_ref.      *)
LEMMA UnknownIsFree ==
  ASSUME NEW r \in Requests, NEW a \in Approvals,
         RefOf(r, a) # NoRef, ~Known(r, a)
  PROVE  Free(r, a)
  BY DEF Known, KnownRefs, Free, RaidOf

LEMMA RaidStep == Typed /\ LockInv /\ AllRaid /\ [Next]_vars => AllRaid'
<1> SUFFICES ASSUME Typed, LockInv, AllRaid, [Next]_vars PROVE AllRaid'
  OBVIOUS
<1>a. \A r \in Requests : r \in Txns
  BY DEF Txns
<1>1. ASSUME NEW r \in Requests, Receive(r) PROVE AllRaid'
  <2>1. \A q \in Requests \ {r} : SameFor(q)
    BY <1>1 DEF Receive, GoTo, SameFor, Typed, TypeOK, Txns
  <2>2. pc'[r] = "next"
    BY <1>1, <1>a DEF Receive, GoTo, Typed, TypeOK
  <2>3. QED BY <1>1, <2>1, <2>2, PlainRaid DEF Receive, dbVars
<1>2. ASSUME NEW r \in Requests, Refuse(r) PROVE AllRaid'
  <2>1. CASE decision[r].bulk
    <3>1. Advance(r) /\ UNCHANGED <<raidItems, owner, decision, local, inserted>>
      BY <1>2, <2>1 DEF Refuse, RaiseError, dbVars
    <3>2. \A q \in Requests \ {r} : SameFor(q)
      BY <3>1 DEF Advance, GoTo, SameFor, Typed, TypeOK, Txns
    <3>3. pc'[r] = "next"
      BY <3>1, <1>a DEF Advance, GoTo, Typed, TypeOK
    <3>4. QED BY <3>1, <3>2, <3>3, PlainRaid
  <2>2. CASE ~decision[r].bulk
    BY <1>2, <2>2, <1>a, RollbackRaid DEF Refuse, RaiseError, Ended
  <2>3. QED BY <2>1, <2>2
<1>3. ASSUME NEW r \in Requests, Decide(r) PROVE AllRaid'
  <2>1. \A q \in Requests \ {r} : SameFor(q)
    BY <1>3, <1>a DEF Decide, GoTo, SameFor, Typed, TypeOK, Txns
  <2>2. pc'[r] = "flush"
    BY <1>3, <1>a DEF Decide, GoTo, Typed, TypeOK
  <2>3. QED BY <1>3, <2>1, <2>2, PlainRaid DEF Decide, dbVars
<1>4. ASSUME NEW r \in Requests, FlushExpired(r) PROVE AllRaid'
  <2>1. CASE decision[r].bulk
    <3>1. /\ owner[Current(r)] = Nobody /\ Advance(r)
          /\ owner' = [owner EXCEPT ![Current(r)] = r]
          /\ UNCHANGED <<raidItems, decision, local, inserted>>
      BY <1>4, <2>1 DEF FlushExpired, dbVars
    <3>2. \A q \in Requests \ {r} : SameFor(q)
      BY <3>1, <1>a, ApprovalConstants
         DEF Advance, GoTo, SameFor, Typed, TypeOK, Txns
    <3>3. pc'[r] = "next"
      BY <3>1, <1>a DEF Advance, GoTo, Typed, TypeOK
    <3>4. QED BY <3>1, <3>2, <3>3, PlainRaid
  <2>2. CASE ~decision[r].bulk
    BY <1>4, <2>2, <1>a, RollbackRaid DEF FlushExpired, Ended
  <2>3. QED BY <2>1, <2>2
<1>5. ASSUME NEW r \in Requests, FlushRejected(r) PROVE AllRaid'
  <2>1. \A q \in Requests \ {r} : SameFor(q)
    BY <1>5, <1>a, ApprovalConstants
       DEF FlushRejected, Advance, GoTo, SameFor, Typed, TypeOK, Txns
  <2>2. pc'[r] = "next"
    BY <1>5, <1>a DEF FlushRejected, Advance, GoTo, Typed, TypeOK
  <2>3. QED BY <1>5, <2>1, <2>2, PlainRaid DEF FlushRejected, dbVars
<1>6. ASSUME NEW r \in Requests, FlushApproved(r) PROVE AllRaid'
  <2>1. \A q \in Requests \ {r} : SameFor(q)
    BY <1>6, <1>a, ApprovalConstants
       DEF FlushApproved, GoTo, SameFor, Typed, TypeOK, Txns
  <2>2. pc'[r] = "execute"
    BY <1>6, <1>a DEF FlushApproved, GoTo, Typed, TypeOK
  <2>3. QED BY <1>6, <2>1, <2>2, PlainRaid DEF FlushApproved, dbVars
<1>7. ASSUME NEW r \in Requests, Commit(r) PROVE AllRaid'
  BY <1>7, <1>a, CommitRaid DEF Commit
<1>8. ASSUME NEW r \in Requests, ParseError(r) PROVE AllRaid'
  BY <1>8, <1>a, RollbackRaid DEF ParseError, Ended
<1>9. ASSUME NEW r \in Requests, SkipDuplicateRaid(r) PROVE AllRaid'
  <2>1. Settle(r, Current(r), "executed") /\ UNCHANGED <<raidItems, owner, decision, inserted>>
    BY <1>9 DEF SkipDuplicateRaid, dbVars
  <2>2. \A q \in Requests \ {r} : SameFor(q)
    BY <1>9, <2>1, SettleLocks DEF LockInv, SkipDuplicateRaid
  <2>3. pc'[r] = "next"
    BY <2>1, <1>a DEF Settle, Advance, GoTo, Typed, TypeOK
  <2>4. QED BY <2>1, <2>2, <2>3, PlainRaid
<1>10. ASSUME NEW r \in Requests, ExecuteRaid(r) PROVE AllRaid'
  <2>1. Current(r) \in Approvals /\ pc[r] = "execute"
    BY <1>10, AtApproval DEF ExecuteRaid
  <2>2. RefOf(r, Current(r)) # NoRef => Free(r, Current(r))
    BY <1>10, <2>1, UnknownIsFree DEF ExecuteRaid
  <2>3. CASE Workbook
    <3>1. GoTo(r, "append") /\ UNCHANGED <<raidItems, owner, decision, todo, local, inserted>>
      BY <1>10, <2>3 DEF ExecuteRaid, dbVars
    <3>2. \A q \in Requests \ {r} : SameFor(q)
      BY <3>1 DEF GoTo, SameFor, Typed, TypeOK, Txns
    <3>3. Current(r)' = Current(r) /\ \A a : RefOf(r, a)' = RefOf(r, a)
      BY <3>1 DEF Current, RefOf, EffectivePayload
    <3>4. RaidFor(r)'
      BY <2>2, <3>1, <3>3 DEF AllRaid, RaidFor, Free, OneEach, RaidOf
    <3>5. QED BY <3>1, <3>2, <3>4, OthersKeepRaid
  <2>4. CASE ~Workbook
    <3>1. /\ AddRaidItem(r, Current(r), FALSE)
          /\ Settle(r, Current(r), "executed")
          /\ UNCHANGED <<owner, decision, raidItems>>
      BY <1>10, <2>4 DEF ExecuteRaid, dbVars
    <3>2. QED BY <2>1, <2>2, <3>1, InsertRaid
  <2>5. QED BY <2>3, <2>4
<1>11. ASSUME NEW r \in Requests, AppendToWorkbook(r) PROVE AllRaid'
  <2>1. PICK synced \in BOOLEAN, outcome \in {"executed", "execution_failed"} :
          AddRaidItem(r, Current(r), synced) /\ Settle(r, Current(r), outcome)
    <3>1. \/ AddRaidItem(r, Current(r), TRUE) /\ Settle(r, Current(r), "executed")
          \/ /\ AddRaidItem(r, Current(r), FALSE)
             /\ Settle(r, Current(r), "execution_failed")
      BY <1>11 DEF AppendToWorkbook
    <3>2. QED BY <3>1
  <2>2. pc[r] = "append" /\ UNCHANGED <<owner, decision, raidItems>>
    BY <1>11 DEF AppendToWorkbook, dbVars
  <2>3. RefOf(r, Current(r)) # NoRef => Free(r, Current(r))
    BY <2>2 DEF AllRaid, RaidFor
  <2>4. QED BY <2>1, <2>2, <2>3, InsertRaid
<1>12. ASSUME NEW r \in Requests, NEW outcome \in {"executed", "execution_failed"},
              pc[r] = "execute", Settle(r, Current(r), outcome),
              UNCHANGED <<raidItems, owner, decision, inserted>>
       PROVE AllRaid'
  <2>1. \A q \in Requests \ {r} : SameFor(q)
    BY <1>12, SettleLocks DEF LockInv
  <2>2. pc'[r] = "next"
    BY <1>12, <1>a DEF Settle, Advance, GoTo, Typed, TypeOK
  <2>3. QED BY <1>12, <2>1, <2>2, PlainRaid
<1>13. ASSUME NEW r \in Requests, ExecuteJira(r) \/ ExecuteReport(r) PROVE AllRaid'
  <2>1. PICK outcome \in {"executed", "execution_failed"} :
          Settle(r, Current(r), outcome)
    BY <1>13 DEF ExecuteJira, ExecuteReport
  <2>2. pc[r] = "execute" /\ UNCHANGED <<raidItems, owner, decision, inserted>>
    BY <1>13 DEF ExecuteJira, ExecuteReport, dbVars
  <2>3. QED BY <1>12, <2>1, <2>2
<1>14. ASSUME SweepStart \/ SweepFlush PROVE AllRaid'
  <2>1. \A q \in Requests : q # Sweep
    BY ApprovalConstants
  <2>2. SweepFlush => owner[Current(Sweep)] = Nobody
    BY DEF SweepFlush
  <2>3. \A q \in Requests \ {Sweep} : SameFor(q)
    BY <1>14, <2>1, <2>2, ApprovalConstants
       DEF SweepStart, SweepFlush, GoTo, SameFor, Typed, TypeOK, Txns
  <2>4. UNCHANGED raidItems
    BY <1>14 DEF SweepStart, SweepFlush, dbVars
  <2>5. QED BY <2>1, <2>3, <2>4, OthersKeepRaid
<1>15. ASSUME SweepCommit PROVE AllRaid'
  BY <1>15, CommitRaid DEF SweepCommit, Txns
<1>16. ASSUME NEW t \in Txns, Crash(t) \/ DeadlockAbort(t) PROVE AllRaid'
  BY <1>16, RollbackRaid DEF Crash, DeadlockAbort, AfterAbort, Ended
<1>17. CASE \/ \E a \in Approvals : Deadline(a)
            \/ \E x \in HandRefs : AddByHand(x)
            \/ UNCHANGED vars
  <2>1. UNCHANGED <<raidItems, txnVars>>
    BY <1>17 DEF Deadline, AddByHand, vars, dbVars
  <2>2. \A q \in Requests \ {Nobody} : SameFor(q)
    BY <2>1 DEF txnVars, SameFor
  <2>3. Nobody \notin Requests
    BY ApprovalConstants DEF Txns
  <2>4. QED BY <2>1, <2>2, <2>3, OthersKeepRaid
<1>18. QED
  BY <1>1, <1>2, <1>3, <1>4, <1>5, <1>6, <1>7, <1>8, <1>9, <1>10, <1>11, <1>13,
     <1>14, <1>15, <1>16, <1>17
     DEF Next, Handle, Flush, Execute, RunSweep, Quiescent

----------------------------------------------------------------------------
(* The safety properties.                                                  *)

LEMMA Invariants == Spec => [](Typed /\ LockInv /\ AllRaid)
<1>1. Init => Typed /\ LockInv /\ AllRaid
  BY InitTyped, InitLock, InitRaid
<1>2. Typed /\ LockInv /\ AllRaid /\ [Next]_vars
        => (Typed /\ LockInv /\ AllRaid)'
  BY TypedStep, LockStep, RaidStep
<1>3. QED
  BY <1>1, <1>2, PTL DEF Spec

(* No two requests are ever executing the same approval, or have executed  *)
(* it and not committed, however many requests and approvals there are.    *)
THEOREM ExclusiveExecution == Spec => []ExecutionExclusive
<1>1. LockInv => ExecutionExclusive
  BY DEF LockInv, CoveredByLocks, ExecutionExclusive, Executing, HasExecuted
<1>2. QED
  BY <1>1, Invariants, PTL

(* However many requests execute an approval with a source_ref, the RAID   *)
(* log has at most one row for it.                                         *)
THEOREM OneRow == Spec => []OneRaidRowPerApproval
<1>1. AllRaid => OneRaidRowPerApproval
  BY DEF AllRaid
<1>2. QED
  BY <1>1, Invariants, PTL

(* Only a COMMIT changes what the database says of an approval, and no     *)
(* step takes a request that is done anywhere else.                        *)
Recorded == <<status, decidedBy, raidItems>>

DoneStays == \A r \in Requests : pc[r] = "done" => pc'[r] = "done"

LEMMA OnlyCommitsRecord ==
  Typed /\ [Next]_vars =>
    /\ DoneStays
    /\ UNCHANGED Recorded \/ SweepCommit \/ \E r \in Requests : Commit(r)
<1> SUFFICES ASSUME Typed, [Next]_vars
             PROVE  /\ DoneStays
                    /\ UNCHANGED Recorded \/ SweepCommit \/ \E r \in Requests : Commit(r)
  OBVIOUS
<1> USE ApprovalConstants DEF Recorded, dbVars
<1>a. pc \in [Txns -> Places] /\ Requests \subseteq Txns
  BY DEF Typed, TypeOK, Txns
<1>b. ASSUME NEW t \in Txns, pc[t] # "done" \/ t = Sweep, NEW place,
             GoTo(t, place)
      PROVE  DoneStays
  BY <1>a, <1>b DEF GoTo, DoneStays
<1>1. ASSUME NEW r \in Requests, Receive(r) PROVE DoneStays /\ UNCHANGED Recorded
  BY <1>1, <1>a, <1>b DEF Receive
<1>2. ASSUME NEW r \in Requests, Refuse(r) PROVE DoneStays /\ UNCHANGED Recorded
  BY <1>2, <1>a, <1>b DEF Refuse, RaiseError, Advance, Rollback
<1>3. ASSUME NEW r \in Requests, Decide(r) PROVE DoneStays /\ UNCHANGED Recorded
  BY <1>3, <1>a, <1>b DEF Decide
<1>4. ASSUME NEW r \in Requests, Flush(r) PROVE DoneStays /\ UNCHANGED Recorded
  BY <1>4, <1>a, <1>b
     DEF Flush, FlushExpired, FlushRejected, FlushApproved, Advance, Rollback
<1>5. ASSUME NEW r \in Requests, Commit(r) PROVE DoneStays
  BY <1>5, <1>a, <1>b DEF Commit
<1>6. ASSUME NEW r \in Requests, ParseError(r) \/ SkipDuplicateRaid(r)
      PROVE  DoneStays /\ UNCHANGED Recorded
  BY <1>6, <1>a, <1>b DEF ParseError, SkipDuplicateRaid, Settle, Advance, Rollback
<1>7. ASSUME NEW r \in Requests, ExecuteRaid(r)
      PROVE  DoneStays /\ UNCHANGED Recorded
  BY <1>7, <1>a, <1>b DEF ExecuteRaid, Settle, Advance
<1>8. ASSUME NEW r \in Requests,
             AppendToWorkbook(r) \/ ExecuteJira(r) \/ ExecuteReport(r)
      PROVE  DoneStays /\ UNCHANGED Recorded
  <2>1. Advance(r) /\ pc[r] # "done" /\ UNCHANGED Recorded
    BY <1>8 DEF AppendToWorkbook, ExecuteJira, ExecuteReport, Settle
  <2>2. QED BY <2>1, <1>a, <1>b DEF Advance
<1>9. ASSUME SweepStart \/ SweepFlush PROVE DoneStays /\ UNCHANGED Recorded
  BY <1>9, <1>a, <1>b DEF SweepStart, SweepFlush, Txns
<1>10. ASSUME SweepCommit PROVE DoneStays
  BY <1>10, <1>a, <1>b DEF SweepCommit, Txns
<1>11. ASSUME NEW t \in Txns, Crash(t) \/ DeadlockAbort(t)
       PROVE  DoneStays /\ UNCHANGED Recorded
  <2>1. pc[t] # "done" /\ Rollback(t, AfterAbort(t))
    BY <1>11 DEF Crash, DeadlockAbort, Deadlocked, Blocked, Holder, AtReport
  <2>2. QED BY <2>1, <1>a, <1>b DEF Rollback
<1>12. ASSUME (\E a \in Approvals : Deadline(a)) \/ \E x \in HandRefs : AddByHand(x) PROVE DoneStays /\ UNCHANGED Recorded
  BY <1>12 DEF Deadline, AddByHand, txnVars, DoneStays
<1>13. CASE UNCHANGED vars
  BY <1>13 DEF vars, txnVars, DoneStays
<1>14. QED
  BY <1>1, <1>2, <1>3, <1>4, <1>5, <1>6, <1>7, <1>8, <1>9, <1>10, <1>11, <1>12,
     <1>13 DEF Next, Handle, Execute, RunSweep, Quiescent

(* What COMMIT records: outcomes of approvals the transaction has locked,  *)
(* by a request that is done now.                                          *)
LEMMA CommitRecords ==
  ASSUME Typed, LockInv, SweepCommit \/ \E r \in Requests : Commit(r)
  PROVE  /\ \A a \in Approvals : status'[a] = "approved" => status[a] = "approved"
         /\ \A a \in Approvals :
              \/ decidedBy'[a] = decidedBy[a]
              \/ decidedBy'[a] \in Requests /\ pc'[decidedBy'[a]] = "done"
         /\ \A i \in raidItems' : i \in raidItems \/ pc'[i.by] = "done"
<1> USE ApprovalConstants
<1>1. CASE SweepCommit
  <2>1. \A a \in Approvals : local[Sweep][a] = "expired"
    BY <1>1 DEF SweepCommit, Typed, SweepInv
  <2>2. inserted[Sweep] = {}
    BY DEF Typed, SweepInv
  <2>3. QED BY <1>1, <2>1, <2>2 DEF SweepCommit, CommitRows, Typed, TypeOK
<1>2. ASSUME NEW r \in Requests, Commit(r)
      PROVE  /\ \A a \in Approvals : status'[a] = "approved" => status[a] = "approved"
             /\ \A a \in Approvals :
                  \/ decidedBy'[a] = decidedBy[a]
                  \/ decidedBy'[a] \in Requests /\ pc'[decidedBy'[a]] = "done"
             /\ \A i \in raidItems' : i \in raidItems \/ pc'[i.by] = "done"
  <2>1. r \in Txns /\ pc'[r] = "done" /\ CommitRows(r)
    BY <1>2 DEF Commit, GoTo, Typed, TypeOK, Txns
  <2>2. CoveredByLocks(r) /\ pc[r] = "next"
    BY <1>2 DEF LockInv, Commit
  <2>3. \A a \in Approvals : local[r][a] # "approved"
    BY <2>2 DEF CoveredByLocks
  <2>4. \A i \in inserted[r] : i.by = r
    BY <2>2 DEF CoveredByLocks
  <2>5. \A a \in Approvals : status'[a] = "approved" => status[a] = "approved"
    BY <2>1, <2>3 DEF CommitRows, Typed, TypeOK
  <2>6. \A a \in Approvals : decidedBy'[a] \in {r, decidedBy[a]}
    BY <2>1 DEF CommitRows, Typed, TypeOK
  <2>7. raidItems' = raidItems \union inserted[r]
    BY <2>1 DEF CommitRows
  <2>8. QED BY <2>1, <2>4, <2>5, <2>6, <2>7
<1>3. QED
  BY <1>1, <1>2

(* APPROVED is never in the database: a decision and its execution are     *)
(* committed together or not at all.                                       *)
THEOREM NoHalf == Spec => []NoHalfDecision
<1>1. Init => NoHalfDecision
  BY DEF Init, NoHalfDecision
<1>2. Typed /\ LockInv /\ NoHalfDecision /\ [Next]_vars => NoHalfDecision'
  BY OnlyCommitsRecord, CommitRecords DEF NoHalfDecision, Recorded
<1>3. Spec => [](Typed /\ LockInv)
  BY Invariants, PTL
<1>4. QED
  BY <1>1, <1>2, <1>3, PTL DEF Spec

(* A request leaves a decision or a RAID row behind only if it committed.  *)
THEOREM OnlyDone == Spec => []OnlyDoneDecides
<1>1. Init => OnlyDoneDecides
  BY DEF Init, OnlyDoneDecides
<1>2. Typed /\ LockInv /\ OnlyDoneDecides /\ [Next]_vars => OnlyDoneDecides'
  <2> SUFFICES ASSUME Typed, LockInv, OnlyDoneDecides, [Next]_vars
               PROVE  OnlyDoneDecides'
    OBVIOUS
  <2>1. /\ \A a \in Approvals : decidedBy[a] \in Requests \union {Nobody}
        /\ \A i \in raidItems : i.by \in Requests
    BY DEF Typed, TypeOK, RaidRow
  <2>2. DoneStays
    BY OnlyCommitsRecord
  <2>3. CASE UNCHANGED Recorded
    BY <2>1, <2>2, <2>3 DEF OnlyDoneDecides, DoneStays, Recorded
  <2>4. CASE SweepCommit \/ \E r \in Requests : Commit(r)
    BY <2>1, <2>2, <2>4, CommitRecords DEF OnlyDoneDecides, DoneStays
  <2>5. QED BY <2>3, <2>4, OnlyCommitsRecord
<1>3. Spec => [](Typed /\ LockInv)
  BY Invariants, PTL
<1>4. QED
  BY <1>1, <1>2, <1>3, PTL DEF Spec

----------------------------------------------------------------------------
(* The queue implements the gate: whatever is sent was granted, and what   *)
(* is recorded follows from a grant.                                       *)

Asked(r) == IF decision[r] = Nobody THEN {} ELSE Range(decision[r].ids)

Written(r, a) ==
  [approval |-> a, by |-> r, payload |-> EffectivePayload(r, a)] \in writes

(* The payload asks Jira for something.                                    *)
NeedsWrite(r, a) == Kind[a] = "jira" /\ EffectivePayload(r, a) \notin NoOps

(* What a request handles is what it was asked to handle, and what it has  *)
(* executed was granted.                                                   *)
GrantFor(r) ==
  /\ pc[r] = "idle" => decision[r] = Nobody
  /\ Range(todo[r]) \subseteq Asked(r)
  /\ \A a \in Approvals :
       local[r][a] \in {"approved", "executed", "execution_failed"}
         => Granting(r) /\ a \in Range(decision[r].ids)
  /\ \A a \in Approvals : owner[a] = r => local[r][a] # "pending"
  /\ \A a \in Approvals :
       local[r][a] = "executed" /\ NeedsWrite(r, a) => Written(r, a)

GrantInv == writes \subseteq Granted /\ \A r \in Requests : GrantFor(r)

LEMMA SequenceRange ==
  ASSUME NEW S, NEW s \in Seq(S), s # <<>>
  PROVE  Head(s) \in Range(s) /\ Range(Tail(s)) \subseteq Range(s)
  BY DEF Range

LEMMA InitGrant == Init => GrantInv
  BY ApprovalConstants
     DEF Init, GrantInv, GrantFor, Asked, Granted, GrantedBy, Granting, Range, Txns

(* Another transaction's step cannot take a grant away.                    *)
LEMMA OthersKeepGrants ==
  ASSUME NEW q \in Requests, GrantFor(q), SameFor(q),
         decision'[q] = decision[q], writes \subseteq writes'
  PROVE  GrantFor(q)'
<1>1. Asked(q)' = Asked(q) /\ Granting(q)' = Granting(q)
  BY DEF Asked, Granting
<1>2. \A a \in Approvals : /\ Written(q, a) => Written(q, a)'
                           /\ NeedsWrite(q, a)' = NeedsWrite(q, a)
  BY DEF Written, NeedsWrite, EffectivePayload
<1>3. QED
  BY <1>1, <1>2 DEF GrantFor, SameFor

(* Grants are decisions: they last as long as the decision does.           *)
LEMMA GrantsGrow ==
  ASSUME \A q \in Requests : Granting(q) => decision'[q] = decision[q]
  PROVE  Granted \subseteq Granted'
<1>1. \A q \in Requests : Granting(q) => Granting(q)' /\ GrantedBy(q)' = GrantedBy(q)
  BY DEF Granting, GrantedBy, EffectivePayload
<1>2. QED
  BY <1>1 DEF Granted

(* A step of t that writes nothing outside.                                *)
LEMMA QuietStep ==
  ASSUME GrantInv, NEW t, \A q \in Requests \ {t} : SameFor(q),
         UNCHANGED <<decision, writes>>, t \in Requests => GrantFor(t)'
  PROVE  GrantInv'
<1>1. \A q \in Requests : GrantFor(q)'
  BY OthersKeepGrants DEF GrantInv
<1>2. Granted \subseteq Granted'
  BY GrantsGrow
<1>3. QED
  BY <1>1, <1>2 DEF GrantInv

(* Forgetting what was done needs no grant.                                *)
LEMMA EmptyHanded ==
  ASSUME NEW r \in Requests, GrantFor(r), decision'[r] = decision[r],
         pc'[r] # "idle", todo'[r] = <<>> \/ todo'[r] = todo[r],
         \A a \in Approvals : owner'[a] # r /\ local'[r][a] = "pending"
  PROVE  GrantFor(r)'
<1>1. Asked(r)' = Asked(r)
  BY DEF Asked
<1>2. Range(<<>>) = {}
  BY DEF Range
<1>3. QED
  BY <1>1, <1>2 DEF GrantFor

LEMMA RollbackGrants ==
  ASSUME Typed, GrantInv, NEW t \in Txns, NEW place \in Ended \union {"idle"},
         t \in Requests => place # "idle", Rollback(t, place), UNCHANGED writes
  PROVE  GrantInv'
<1>1. \A q \in Requests \ {t} : SameFor(q)
  BY RollbackLocks
<1>2. /\ UNCHANGED decision /\ pc'[t] = place /\ todo'[t] = <<>>
      /\ \A a \in Approvals : owner'[a] # t /\ local'[t][a] = "pending"
  BY ApprovalConstants DEF Rollback, Unlocked, GoTo, Typed, TypeOK
<1>3. t \in Requests => GrantFor(t)'
  BY <1>2, EmptyHanded DEF GrantInv
<1>4. QED
  BY <1>1, <1>2, <1>3, QuietStep

LEMMA CommitGrants ==
  ASSUME Typed, GrantInv, NEW t \in Txns, NEW place \in {"done", "idle"},
         t \in Requests => place # "idle", CommitRows(t), GoTo(t, place),
         UNCHANGED writes
  PROVE  GrantInv'
<1>1. \A q \in Requests \ {t} : SameFor(q)
  BY CommitLocks
<1>2. /\ UNCHANGED decision /\ pc'[t] = place /\ todo'[t] = todo[t]
      /\ \A a \in Approvals : owner'[a] # t /\ local'[t][a] = "pending"
  BY ApprovalConstants DEF CommitRows, Unlocked, GoTo, Typed, TypeOK
<1>3. t \in Requests => GrantFor(t)'
  BY <1>2, EmptyHanded DEF GrantInv
<1>4. QED
  BY <1>1, <1>2, <1>3, QuietStep

(* Moving on to the next id.                                               *)
LEMMA AdvanceGrants ==
  ASSUME Typed, GrantInv, NEW r \in Requests, Advance(r), todo[r] # <<>>,
         UNCHANGED <<decision, local, inserted, writes>>,
         \A a \in Approvals :
           \/ owner'[a] = owner[a]
           \/ owner[a] = Nobody /\ owner'[a] = r /\ local[r][a] # "pending"
  PROVE  GrantInv'
<1>1. r \in Txns /\ \A q \in Requests : q # Nobody
  BY ApprovalConstants DEF Txns
<1>2. pc'[r] = "next" /\ todo'[r] = Tail(todo[r])
  BY <1>1 DEF Advance, GoTo, Typed, TypeOK
<1>3. \A q \in Requests \ {r} : SameFor(q)
  BY <1>1 DEF Advance, GoTo, SameFor, Typed, TypeOK
<1>4. todo[r] \in Seq(Approvals)
  BY <1>1 DEF Typed, TypeOK
<1>5. Range(todo'[r]) \subseteq Range(todo[r])
  BY <1>2, <1>4, SequenceRange
<1>6. Asked(r)' = Asked(r) /\ Granting(r)' = Granting(r)
  BY DEF Asked, Granting
<1>7. \A a \in Approvals : /\ Written(r, a)' = Written(r, a)
                           /\ NeedsWrite(r, a)' = NeedsWrite(r, a)
  BY DEF Written, NeedsWrite, EffectivePayload
<1>8. GrantFor(r)'
  BY <1>2, <1>5, <1>6, <1>7 DEF GrantInv, GrantFor
<1>9. QED
  BY <1>3, <1>8, QuietStep

(* Execution: the approval at hand was granted, and so is what is sent.    *)
LEMMA ExecutingIsGranted ==
  ASSUME Typed, LockInv, GrantInv, NEW r \in Requests,
         pc[r] \in {"execute", "append"}
  PROVE  /\ Granting(r) /\ Current(r) \in Range(decision[r].ids)
         /\ Current(r) \in Approvals
         /\ [approval |-> Current(r), by |-> r,
             payload |-> EffectivePayload(r, Current(r))] \in Granted
<1>1. Current(r) \in Approvals
  BY AtApproval
<1>2. local[r][Current(r)] = "approved"
  BY DEF LockInv, CoveredByLocks
<1>3. Granting(r) /\ Current(r) \in Range(decision[r].ids)
  BY <1>1, <1>2 DEF GrantInv, GrantFor
<1>4. QED
  BY <1>1, <1>3 DEF Granted, GrantedBy

LEMMA SettleGrants ==
  ASSUME Typed, LockInv, GrantInv, NEW r \in Requests,
         pc[r] \in {"execute", "append"},
         NEW outcome \in {"executed", "execution_failed"},
         Settle(r, Current(r), outcome), UNCHANGED <<decision, owner>>,
         NEW synced \in BOOLEAN,
         UNCHANGED inserted \/ AddRaidItem(r, Current(r), synced),
         UNCHANGED writes \/ ExternalWrite(r, Current(r)),
         outcome = "executed" /\ NeedsWrite(r, Current(r))
           => ExternalWrite(r, Current(r))
  PROVE  GrantInv'
<1> DEFINE w == [approval |-> Current(r), by |-> r,
                 payload |-> EffectivePayload(r, Current(r))]
<1>1. Current(r) \in Approvals /\ r \in Txns
  BY AtApproval
<1>2. Granting(r) /\ Current(r) \in Range(decision[r].ids) /\ w \in Granted
  BY ExecutingIsGranted
<1>3. \A q \in Requests \ {r} : SameFor(q)
  BY SettleLocks DEF LockInv
<1>4. writes \subseteq writes' /\ writes' \subseteq writes \union {w}
  BY DEF ExternalWrite
<1>5. Granted \subseteq Granted'
  BY GrantsGrow
<1>6. writes' \subseteq Granted'
  BY <1>2, <1>4, <1>5 DEF GrantInv
<1>7. ASSUME NEW q \in Requests, q # r PROVE GrantFor(q)'
  BY <1>3, <1>4, <1>7, OthersKeepGrants DEF GrantInv
<1>8. GrantFor(r)'
  <2>1. pc'[r] = "next" /\ todo'[r] = Tail(todo[r])
    BY <1>1 DEF Settle, Advance, GoTo, Typed, TypeOK
  <2>2. \A a \in Approvals :
          local'[r][a] = IF a = Current(r) THEN outcome ELSE local[r][a]
    BY <1>1 DEF Settle, Typed, TypeOK
  <2>3. Range(todo'[r]) \subseteq Range(todo[r])
    <3>1. todo[r] \in Seq(Approvals) /\ todo[r] # <<>>
      BY AtApproval
    <3>2. QED BY <2>1, <3>1, SequenceRange
  <2>4. Asked(r)' = Asked(r) /\ Granting(r)' = Granting(r)
    BY DEF Asked, Granting
  <2>5. \A a \in Approvals : /\ Written(r, a) => Written(r, a)'
                             /\ NeedsWrite(r, a)' = NeedsWrite(r, a)
    BY <1>4 DEF Written, NeedsWrite, EffectivePayload
  <2>6. \A a \in Approvals :
          a = Current(r) /\ outcome = "executed" /\ NeedsWrite(r, a) => Written(r, a)'
    <3>1. outcome = "executed" /\ NeedsWrite(r, Current(r)) => w \in writes'
      BY DEF ExternalWrite
    <3>2. \A a : EffectivePayload(r, a)' = EffectivePayload(r, a)
      BY DEF EffectivePayload
    <3>3. w \in writes' => \A a : a = Current(r) => Written(r, a)'
      BY <3>2 DEF Written
    <3>4. QED BY <3>1, <3>3
  <2>7. Range(todo'[r]) \subseteq Asked(r)'
    BY <2>3, <2>4 DEF GrantInv, GrantFor
  <2>8. \A a \in Approvals :
          local'[r][a] \in {"approved", "executed", "execution_failed"}
            => Granting(r)' /\ a \in Range(decision'[r].ids)
    BY <1>2, <2>2, <2>4 DEF GrantInv, GrantFor
  <2>9. \A a \in Approvals : owner'[a] = r => local'[r][a] # "pending"
    <3>1. \A a \in Approvals : owner[a] = r => local[r][a] # "pending"
      BY DEF GrantInv, GrantFor
    <3>2. UNCHANGED owner /\ outcome # "pending"
      OBVIOUS
    <3>3. QED BY <2>2, <3>1, <3>2
  <2>10. \A a \in Approvals :
           local'[r][a] = "executed" /\ NeedsWrite(r, a)' => Written(r, a)'
    BY <2>2, <2>5, <2>6 DEF GrantInv, GrantFor
  <2>11. QED
    BY <2>1, <2>7, <2>8, <2>9, <2>10 DEF GrantFor
<1>9. QED
  BY <1>6, <1>7, <1>8 DEF GrantInv

LEMMA GrantStep == Typed /\ LockInv /\ GrantInv /\ [Next]_vars => GrantInv'
<1> SUFFICES ASSUME Typed, LockInv, GrantInv, [Next]_vars PROVE GrantInv'
  OBVIOUS
<1>a. \A r \in Requests : r \in Txns /\ r # Sweep /\ r # Nobody /\ GrantFor(r)
  BY ApprovalConstants DEF Txns, GrantInv
<1>1. ASSUME NEW r \in Requests, Receive(r) PROVE GrantInv'
  <2>1. PICK d \in Decision :
          /\ decision' = [decision EXCEPT ![r] = d]
          /\ todo' = [todo EXCEPT ![r] = d.ids]
    BY <1>1 DEF Receive
  <2>2. /\ pc[r] = "idle" /\ pc' = [pc EXCEPT ![r] = "next"]
        /\ UNCHANGED <<owner, local, inserted, writes>>
    BY <1>1 DEF Receive, GoTo
  <2>3. decision[r] = Nobody /\ decision'[r] = d /\ d # Nobody
        /\ todo'[r] = d.ids /\ pc'[r] = "next"
    BY <2>1, <2>2, <1>a, NobodyDecides DEF GrantFor, Typed, TypeOK
  <2>4. \A a \in Approvals : owner[a] # r /\ local[r][a] = "pending"
    BY <2>2 DEF LockInv, CoveredByLocks
  <2>5. GrantFor(r)'
    BY <2>2, <2>3, <2>4 DEF GrantFor, Asked
  <2>6. \A q \in Requests \ {r} : SameFor(q) /\ decision'[q] = decision[q]
    BY <2>1, <2>2, <1>a DEF SameFor, Typed, TypeOK
  <2>7. Granted \subseteq Granted'
    BY <2>3, <2>6, GrantsGrow DEF Granting
  <2>8. \A q \in Requests \ {r} : GrantFor(q)'
    BY <2>2, <2>6, <1>a, OthersKeepGrants
  <2>9. QED BY <2>2, <2>5, <2>7, <2>8 DEF GrantInv
<1>2. ASSUME NEW r \in Requests, Refuse(r) PROVE GrantInv'
  <2>1. CASE decision[r].bulk
    BY <1>2, <2>1, AdvanceGrants DEF Refuse, RaiseError
  <2>2. CASE ~decision[r].bulk
    BY <1>2, <2>2, <1>a, RollbackGrants DEF Refuse, RaiseError, Ended
  <2>3. QED BY <2>1, <2>2
<1>3. ASSUME NEW r \in Requests, Decide(r) PROVE GrantInv'
  <2> DEFINE outcome == IF due[Current(r)] THEN "expired"
                        ELSE IF decision[r].approve THEN "approved" ELSE "rejected"
  <2>1. /\ r \in Txns /\ Current(r) \in Approvals /\ decision[r] \in Decision
        /\ todo[r] \in Seq(Approvals) /\ todo[r] # <<>>
    BY <1>3, AtApproval DEF Decide
  <2>2. /\ local' = [local EXCEPT ![r][Current(r)] = outcome]
        /\ decision[r].approver
        /\ pc' = [pc EXCEPT ![r] = "flush"]
        /\ UNCHANGED <<owner, todo, decision, inserted, writes>>
    BY <1>3 DEF Decide, GoTo, MayApprove
  <2>3. \A q \in Requests \ {r} : SameFor(q)
    BY <2>1, <2>2 DEF SameFor, Typed, TypeOK
  <2>4. /\ pc'[r] = "flush"
        /\ \A a \in Approvals :
             local'[r][a] = IF a = Current(r) THEN outcome ELSE local[r][a]
    BY <2>1, <2>2 DEF Typed, TypeOK
  <2>5. Current(r) \in Asked(r)
    BY <2>1, SequenceRange, <1>a DEF Current, GrantFor
  <2>6. decision[r] # Nobody
    BY <2>1, NobodyDecides
  <2>7. outcome = "approved" => Granting(r) /\ Current(r) \in Range(decision[r].ids)
    BY <2>2, <2>5, <2>6 DEF Granting, Asked
  <2>8. outcome \in {"expired", "approved", "rejected"}
    OBVIOUS
  <2>9. Asked(r)' = Asked(r) /\ Granting(r)' = Granting(r)
    BY <2>2 DEF Asked, Granting
  <2>10. \A a \in Approvals : /\ Written(r, a)' = Written(r, a)
                              /\ NeedsWrite(r, a)' = NeedsWrite(r, a)
    BY <2>2 DEF Written, NeedsWrite, EffectivePayload
  <2>11. GrantFor(r)'
    <3> HIDE DEF outcome
    <3>1. Range(todo'[r]) \subseteq Asked(r)'
      BY <2>2, <2>9, <1>a DEF GrantFor
    <3>2. \A a \in Approvals :
            local'[r][a] \in {"approved", "executed", "execution_failed"}
              => Granting(r)' /\ a \in Range(decision'[r].ids)
      BY <2>2, <2>4, <2>7, <2>8, <2>9, <1>a DEF GrantFor
    <3>3. \A a \in Approvals : owner'[a] = r => local'[r][a] # "pending"
      BY <2>2, <2>4, <2>8, <1>a DEF GrantFor
    <3>4. \A a \in Approvals :
            local'[r][a] = "executed" /\ NeedsWrite(r, a)' => Written(r, a)'
      BY <2>4, <2>8, <2>10, <1>a DEF GrantFor
    <3>5. QED BY <2>4, <3>1, <3>2, <3>3, <3>4 DEF GrantFor
  <2>12. QED BY <2>2, <2>3, <2>11, QuietStep
<1>4. ASSUME NEW r \in Requests, FlushExpired(r) PROVE GrantInv'
  <2>1. CASE decision[r].bulk
    <3>1. /\ owner[Current(r)] = Nobody /\ local[r][Current(r)] # "pending"
          /\ owner' = [owner EXCEPT ![Current(r)] = r] /\ Advance(r)
          /\ UNCHANGED <<decision, local, inserted, writes>>
      BY <1>4, <2>1 DEF FlushExpired
    <3>2. todo[r] # <<>>
      BY <1>4, AtApproval DEF FlushExpired
    <3>3. QED BY <3>1, <3>2, AdvanceGrants DEF Typed, TypeOK
  <2>2. CASE ~decision[r].bulk
    BY <1>4, <2>2, <1>a, RollbackGrants DEF FlushExpired, Ended
  <2>3. QED BY <2>1, <2>2
<1>5. ASSUME NEW r \in Requests, FlushRejected(r) PROVE GrantInv'
  <2>1. todo[r] # <<>>
    BY <1>5, AtApproval DEF FlushRejected
  <2>2. QED BY <1>5, <2>1, AdvanceGrants DEF FlushRejected, Typed, TypeOK
<1>6. ASSUME NEW r \in Requests, FlushApproved(r) PROVE GrantInv'
  <2>1. \A q \in Requests \ {r} : SameFor(q)
    BY <1>6, <1>a DEF FlushApproved, GoTo, SameFor, Typed, TypeOK
  <2>2. /\ pc'[r] = "execute"
        /\ \A a \in Approvals : owner'[a] = r => owner[a] = r \/ a = Current(r)
    BY <1>6, <1>a DEF FlushApproved, GoTo, Typed, TypeOK
  <2>3. Asked(r)' = Asked(r) /\ Granting(r)' = Granting(r)
    BY <1>6 DEF FlushApproved, Asked, Granting
  <2>4. \A a \in Approvals : /\ Written(r, a)' = Written(r, a)
                             /\ NeedsWrite(r, a)' = NeedsWrite(r, a)
    BY <1>6 DEF FlushApproved, Written, NeedsWrite, EffectivePayload
  <2>5. GrantFor(r)'
    BY <1>6, <2>2, <2>3, <2>4, <1>a DEF FlushApproved, GrantFor
  <2>6. QED BY <1>6, <2>1, <2>5, QuietStep DEF FlushApproved
<1>7. ASSUME NEW r \in Requests, Commit(r) PROVE GrantInv'
  BY <1>7, <1>a, CommitGrants DEF Commit
<1>8. ASSUME NEW r \in Requests, ParseError(r) PROVE GrantInv'
  BY <1>8, <1>a, RollbackGrants DEF ParseError, Ended
<1>9. ASSUME NEW r \in Requests, SkipDuplicateRaid(r) PROVE GrantInv'
  BY <1>9, SettleGrants DEF SkipDuplicateRaid, NeedsWrite
<1>10. ASSUME NEW r \in Requests, ExecuteRaid(r) PROVE GrantInv'
  <2>1. CASE Workbook
    <3>1. /\ pc[r] = "execute" /\ GoTo(r, "append")
          /\ UNCHANGED <<owner, decision, todo, local, inserted, writes>>
      BY <1>10, <2>1 DEF ExecuteRaid
    <3>2. \A q \in Requests \ {r} : SameFor(q)
      BY <3>1, <1>a DEF GoTo, SameFor, Typed, TypeOK
    <3>3. pc'[r] # "idle"
      BY <3>1, <1>a DEF GoTo, Typed, TypeOK
    <3>4. GrantFor(r)'
      BY <3>1, <3>3, <1>a
         DEF GrantFor, Asked, Granting, Written, NeedsWrite, EffectivePayload
    <3>5. QED BY <3>1, <3>2, <3>4, QuietStep
  <2>2. CASE ~Workbook
    BY <1>10, <2>2, SettleGrants DEF ExecuteRaid, NeedsWrite
  <2>3. QED BY <2>1, <2>2
<1>11. ASSUME NEW r \in Requests, AppendToWorkbook(r) PROVE GrantInv'
  <2>1. PICK synced \in BOOLEAN, outcome \in {"executed", "execution_failed"} :
          /\ AddRaidItem(r, Current(r), synced) /\ Settle(r, Current(r), outcome)
          /\ UNCHANGED writes \/ ExternalWrite(r, Current(r))
          /\ outcome = "executed" => ExternalWrite(r, Current(r))
    <3>1. \/ /\ ExternalWrite(r, Current(r)) /\ AddRaidItem(r, Current(r), TRUE)
             /\ Settle(r, Current(r), "executed")
          \/ /\ UNCHANGED writes \/ ExternalWrite(r, Current(r))
             /\ AddRaidItem(r, Current(r), FALSE)
             /\ Settle(r, Current(r), "execution_failed")
      BY <1>11 DEF AppendToWorkbook
    <3>2. QED BY <3>1
  <2>2. pc[r] = "append" /\ UNCHANGED <<decision, owner>>
    BY <1>11 DEF AppendToWorkbook
  <2>3. QED BY <2>1, <2>2, SettleGrants
<1>12. ASSUME NEW r \in Requests, ExecuteJira(r) PROVE GrantInv'
  <2>1. PICK outcome \in {"executed", "execution_failed"} :
          /\ Settle(r, Current(r), outcome)
          /\ UNCHANGED writes \/ ExternalWrite(r, Current(r))
          /\ outcome = "executed" /\ NeedsWrite(r, Current(r))
               => ExternalWrite(r, Current(r))
    BY <1>12 DEF ExecuteJira, NeedsWrite
  <2>2. pc[r] = "execute" /\ UNCHANGED <<decision, owner, inserted>>
    BY <1>12 DEF ExecuteJira
  <2>3. QED BY <2>1, <2>2, SettleGrants
<1>13. ASSUME NEW r \in Requests, ExecuteReport(r) PROVE GrantInv'
  BY <1>13, SettleGrants DEF ExecuteReport, NeedsWrite
<1>14. ASSUME SweepStart \/ SweepFlush PROVE GrantInv'
  <2>1. SweepFlush => owner[Current(Sweep)] = Nobody
    BY DEF SweepFlush
  <2>2. \A q \in Requests \ {Sweep} : SameFor(q)
    BY <1>14, <2>1, <1>a DEF SweepStart, SweepFlush, GoTo, SameFor, Typed, TypeOK
  <2>3. UNCHANGED <<decision, writes>>
    BY <1>14 DEF SweepStart, SweepFlush
  <2>4. QED BY <2>2, <2>3, <1>a, QuietStep
<1>15. ASSUME SweepCommit PROVE GrantInv'
  BY <1>15, <1>a, CommitGrants DEF SweepCommit, Txns
<1>16. ASSUME NEW t \in Txns, Crash(t) \/ DeadlockAbort(t) PROVE GrantInv'
  BY <1>16, <1>a, RollbackGrants DEF Crash, DeadlockAbort, AfterAbort, Ended
<1>17. CASE UNCHANGED <<txnVars, writes>>
  <2>1. \A q \in Requests \ {Nobody} : SameFor(q)
    BY <1>17 DEF txnVars, SameFor
  <2>2. QED BY <1>17, <2>1, <1>a, QuietStep DEF txnVars
<1>18. QED
  BY <1>1, <1>2, <1>3, <1>4, <1>5, <1>6, <1>7, <1>8, <1>9, <1>10, <1>11, <1>12,
     <1>13, <1>14, <1>15, <1>16, <1>17
     DEF Next, Handle, Flush, Execute, RunSweep, Quiescent, Deadline, AddByHand, vars

----------------------------------------------------------------------------
(* The refinement.                                                         *)

LEMMA GrantInvariant == Spec => [](Typed /\ LockInv /\ GrantInv)
<1>1. Spec => [](Typed /\ LockInv)
  BY Invariants, PTL
<1>2. Spec => []GrantInv
  BY <1>1, InitGrant, GrantStep, PTL DEF Spec
<1>3. QED
  BY <1>1, <1>2, PTL

LEMMA GrantedTyped ==
  ASSUME Typed
  PROVE  Granted \subseteq Gate!Grants
<1>1. ASSUME NEW r \in Requests, Granting(r) PROVE GrantedBy(r) \subseteq Gate!Grants
  <2>1. decision[r] \in Decision
    BY <1>1 DEF Typed, TypeOK, Granting
  <2>2. decision[r].ids \in Seq(Approvals)
    BY <2>1, DecisionFacts
  <2>3. Range(decision[r].ids) \subseteq Approvals
    BY <2>2 DEF Range
  <2>4. QED
    BY <2>3, PayloadTyped DEF GrantedBy, Gate!Grants
<1>2. QED
  BY <1>1 DEF Granted

(* The outcomes a commit records.                                          *)
LEMMA CommitRecordable ==
  ASSUME Typed, LockInv, GrantInv, NEW t \in Txns, pc[t] = "next",
         CommitRows(t), UNCHANGED writes
  PROVE  Gate!Record
<1> DEFINE out == [a \in Approvals |-> Outcome(status[a])]
<1>1. out' = [a \in Approvals |-> Outcome(status'[a])]
  OBVIOUS
<1>2. \A a \in Approvals : Outcome(status'[a]) \in Gate!Outcomes
  BY DEF Outcome, Gate!Outcomes
<1>3. UNCHANGED <<Granted, writes>>
  BY DEF CommitRows, Granted, GrantedBy, Granting, EffectivePayload
<1>4. ASSUME NEW a \in Approvals, owner[a] = t
      PROVE  Gate!Recordable(a, Outcome(local[t][a]))
  <2>1. CASE t = Sweep
    <3>1. local[t][a] = "expired"
      BY <2>1 DEF Typed, SweepInv
    <3>2. QED BY <3>1 DEF Outcome, Gate!Recordable
  <2>2. CASE t \in Requests
    <3>1. GrantFor(t) /\ CoveredByLocks(t)
      BY <2>2 DEF GrantInv, LockInv
    <3>2. local[t][a] \in Statuses \ {"pending", "approved"}
      BY <1>4, <3>1 DEF GrantFor, CoveredByLocks, Typed, TypeOK
    <3>3. CASE local[t][a] \in {"rejected", "expired"}
      BY <3>3 DEF Outcome, Gate!Recordable
    <3>4. CASE local[t][a] \in {"executed", "execution_failed"}
      <4>1. Granting(t) /\ a \in Range(decision[t].ids)
        BY <3>1, <3>4 DEF GrantFor
      <4> DEFINE g == [approval |-> a, by |-> t, payload |-> EffectivePayload(t, a)]
      <4>2. g \in Granted
        BY <2>2, <4>1 DEF Granted, GrantedBy
      <4>3. local[t][a] = "executed" /\ NeedsWrite(t, a) => g \in writes
        BY <3>1 DEF GrantFor, Written
      <4>4. CASE local[t][a] = "execution_failed"
        BY <4>2, <4>4 DEF Outcome, Gate!Recordable
      <4>5. CASE local[t][a] = "executed"
        <5>1. Outcome(local[t][a]) = "executed"
          BY <4>5 DEF Outcome
        <5>2. <<a, g.payload>>
                \in {b \in Approvals : Kind[b] = "jira"} \X (Payloads \ NoOps)
              => g \in writes
          BY <4>3, <4>5 DEF NeedsWrite
        <5>3. QED BY <4>2, <5>1, <5>2 DEF Gate!Recordable
      <4>6. QED BY <3>4, <4>4, <4>5
    <3>5. QED BY <3>2, <3>3, <3>4 DEF Statuses
  <2>3. QED BY <2>1, <2>2 DEF Txns
<1>5. ASSUME NEW a \in Approvals
      PROVE  out'[a] = out[a] \/ Gate!Recordable(a, out'[a])
  <2>1. status'[a] = IF owner[a] = t THEN local[t][a] ELSE status[a]
    BY DEF CommitRows, Locked, Typed, TypeOK
  <2>2. CASE owner[a] = t
    BY <1>1, <1>4, <2>1, <2>2
  <2>3. CASE owner[a] # t
    BY <1>1, <2>1, <2>3
  <2>4. QED BY <2>2, <2>3
<1>6. QED
  BY <1>1, <1>2, <1>3, <1>5 DEF Gate!Record

(* A step that leaves the database's outcomes alone is a grant, a send or  *)
(* nothing, as the gate sees it.                                           *)
LEMMA GateStep ==
  ASSUME Typed, Typed', LockInv, GrantInv, [Next]_vars
  PROVE  [Gate!Next]_Gate!vars
<1>a. \A r \in Requests : r \in Txns
  BY DEF Txns
<1>b. ASSUME UNCHANGED <<status, decision, writes>> PROVE UNCHANGED Gate!vars
  BY <1>b DEF Gate!vars, Granted, GrantedBy, Granting, EffectivePayload
<1>c. ASSUME NEW r \in Requests, pc[r] \in {"execute", "append"},
             ExternalWrite(r, Current(r)), UNCHANGED <<status, decision>>
      PROVE  Gate!Send
  <2>1. [approval |-> Current(r), by |-> r,
         payload |-> EffectivePayload(r, Current(r))] \in Granted
    BY <1>c, ExecutingIsGranted
  <2>2. UNCHANGED <<Granted, [a \in Approvals |-> Outcome(status[a])]>>
    BY <1>c DEF Granted, GrantedBy, Granting, EffectivePayload
  <2>3. QED BY <1>c, <2>1, <2>2 DEF ExternalWrite, Gate!Send
<1>1. ASSUME NEW r \in Requests, Receive(r) PROVE Gate!Grant
  <2>1. /\ pc[r] = "idle" /\ UNCHANGED <<status, writes>>
        /\ \A q \in Requests \ {r} : decision'[q] = decision[q]
    BY <1>1 DEF Receive, dbVars, Typed, TypeOK
  <2>2. ~Granting(r)
    BY <2>1 DEF GrantInv, GrantFor, Granting
  <2>3. Granted \subseteq Granted'
    BY <2>1, <2>2, GrantsGrow
  <2>4. Granted' \subseteq Gate!Grants
    <3>1. (Granted \subseteq Gate!Grants)'
      BY GrantedTyped, PTL
    <3>2. QED BY <3>1 DEF Gate!Grants
  <2>5. QED BY <2>1, <2>3, <2>4 DEF Gate!Grant
<1>2. ASSUME NEW r \in Requests,
             Refuse(r) \/ Decide(r) \/ Flush(r) \/ ParseError(r)
               \/ SkipDuplicateRaid(r) \/ ExecuteRaid(r) \/ ExecuteReport(r)
      PROVE  UNCHANGED <<status, decision, writes>>
  BY <1>2 DEF Refuse, RaiseError, Decide, Flush, FlushExpired, FlushRejected,
              FlushApproved, ParseError, SkipDuplicateRaid, ExecuteRaid,
              ExecuteReport, Rollback, dbVars
<1>3. ASSUME NEW r \in Requests, AppendToWorkbook(r) \/ ExecuteJira(r)
      PROVE  [Gate!Next]_Gate!vars
  <2>1. /\ pc[r] \in {"execute", "append"} /\ UNCHANGED <<status, decision>>
        /\ UNCHANGED writes \/ ExternalWrite(r, Current(r))
    BY <1>3 DEF AppendToWorkbook, ExecuteJira, dbVars
  <2>2. QED BY <2>1, <1>b, <1>c DEF Gate!Next
<1>4. ASSUME NEW r \in Requests, Commit(r) PROVE Gate!Record
  BY <1>4, <1>a, CommitRecordable DEF Commit
<1>5. ASSUME SweepCommit PROVE Gate!Record
  BY <1>5, CommitRecordable DEF SweepCommit, Txns
<1>6. ASSUME SweepStart \/ SweepFlush PROVE UNCHANGED <<status, decision, writes>>
  BY <1>6 DEF SweepStart, SweepFlush, dbVars
<1>7. ASSUME NEW t \in Txns, Crash(t) \/ DeadlockAbort(t)
      PROVE  UNCHANGED <<status, decision, writes>>
  BY <1>7 DEF Crash, DeadlockAbort, Rollback, dbVars
<1>8. ASSUME (\E a \in Approvals : Deadline(a)) \/ \E x \in HandRefs : AddByHand(x)
      PROVE  UNCHANGED <<status, decision, writes>>
  BY <1>8 DEF Deadline, AddByHand, txnVars
<1>9. CASE UNCHANGED vars
  BY <1>9, <1>b DEF vars, dbVars, txnVars
<1>10. QED
  BY <1>1, <1>2, <1>3, <1>4, <1>5, <1>6, <1>7, <1>8, <1>9, <1>b
     DEF Next, Handle, Execute, RunSweep, Quiescent, Gate!Next

(* The queue implements the gate: for any number of approvals, requests,   *)
(* crashes and edits, nothing is sent that was not granted, and nothing is *)
(* recorded as executed without a grant.                                   *)
THEOREM QueueImplementsGate == Spec => ImplementsGate
<1>1. Init => Gate!Init
  BY DEF Init, Gate!Init, Granted, Granting, Outcome
<1>2. [](Typed /\ LockInv /\ GrantInv) /\ [][Next]_vars => [][Gate!Next]_Gate!vars
  BY GateStep, PTL
<1>3. QED
  BY <1>1, <1>2, GrantInvariant, PTL DEF Spec, ImplementsGate, Gate!Spec

(* Nothing is written outside without a request by somebody who may        *)
(* approve, that approved this very approval, with this very payload.      *)
THEOREM Authorised == Spec => []WritesAuthorised
<1>1. GrantInv => WritesAuthorised
  BY DEF GrantInv, Granted, GrantedBy, Granting, WritesAuthorised, EffectivePayload
<1>2. QED
  BY <1>1, GrantInvariant, PTL

----------------------------------------------------------------------------
(* What EXECUTED stands on.                                                *)

(* Row i of the RAID log is there for approval a, executed by r.           *)
RowFor(i, a, r) ==
  IF RefOf(r, a) = NoRef THEN i.approval = a /\ i.by = r ELSE i.ref = RefOf(r, a)

(* Approval a, executed by r, has what it needs: a row of its own or with  *)
(* its source_ref, or a report.                                            *)
Backing(a, r, rows) ==
  /\ Kind[a] = "raid" => RefOf(r, a) \in byHand \/ \E i \in rows : RowFor(i, a, r)
  /\ Kind[a] = "report" => RefOf(r, a) # NoRef

Backed(r) ==
  \A a \in Approvals :
    local[r][a] = "executed" => Backing(a, r, raidItems \union inserted[r])

BackedInv == \A r \in Requests : Backed(r)

(* An approval that is executed now has what it needs now, or was executed *)
(* before by the same decision and lost nothing.                           *)
KeepsBacked(q) ==
  \A a \in Approvals : local'[q][a] = "executed" =>
    \/ /\ local[q][a] = "executed" /\ decision'[q] = decision[q]
       /\ raidItems \union inserted[q] \subseteq raidItems' \union inserted'[q]
       /\ byHand \subseteq byHand'
    \/ Backing(a, q, raidItems \union inserted[q])'

LEMMA BackedKept ==
  ASSUME NEW q \in Requests, Backed(q), KeepsBacked(q)
  PROVE  Backed(q)'
<1> SUFFICES ASSUME NEW a \in Approvals, local'[q][a] = "executed"
             PROVE  Backing(a, q, raidItems \union inserted[q])'
  BY DEF Backed
<1>1. CASE /\ local[q][a] = "executed" /\ decision'[q] = decision[q]
           /\ raidItems \union inserted[q] \subseteq raidItems' \union inserted'[q]
           /\ byHand \subseteq byHand'
  <2>1. Backing(a, q, raidItems \union inserted[q])
    BY <1>1 DEF Backed
  <2>2. RefOf(q, a)' = RefOf(q, a)
    BY <1>1 DEF RefOf, EffectivePayload
  <2>3. \A i : RowFor(i, a, q)' = RowFor(i, a, q)
    BY <2>2 DEF RowFor
  <2>4. QED BY <1>1, <2>1, <2>2, <2>3 DEF Backing
<1>2. QED
  BY <1>1 DEF KeepsBacked

(* Nothing written outside is taken back, and no row leaves the RAID log.  *)
HistoryKept ==
  writes \subseteq writes' /\ raidItems \subseteq raidItems' /\ byHand \subseteq byHand'

LEMMA HistoryGrows == [Next]_vars => HistoryKept
<1> SUFFICES ASSUME [Next]_vars
             PROVE  HistoryKept
  OBVIOUS
<1> USE DEF dbVars, HistoryKept
<1>1. ASSUME NEW r \in Requests,
             Receive(r) \/ Refuse(r) \/ Decide(r) \/ Flush(r) \/ Commit(r)
      PROVE  HistoryKept
  BY <1>1 DEF Receive, Refuse, RaiseError, Rollback, Decide, Flush, FlushExpired,
     FlushRejected, FlushApproved, Commit, CommitRows
<1>2. ASSUME NEW r \in Requests, Execute(r)
      PROVE  HistoryKept
  BY <1>2 DEF Execute, ParseError, SkipDuplicateRaid, ExecuteRaid, AppendToWorkbook,
     ExecuteJira, ExecuteReport, ExternalWrite, Rollback
<1>3. CASE RunSweep
  BY <1>3 DEF RunSweep, SweepStart, SweepFlush, SweepCommit, CommitRows
<1>4. ASSUME NEW t \in Txns, Crash(t) \/ DeadlockAbort(t)
      PROVE  HistoryKept
  BY <1>4 DEF Crash, DeadlockAbort, Rollback
<1>5. ASSUME NEW a \in Approvals, Deadline(a) PROVE HistoryKept
  BY <1>5 DEF Deadline
<1>6. ASSUME NEW x \in HandRefs, AddByHand(x) PROVE HistoryKept
  BY <1>6 DEF AddByHand
<1>7. CASE UNCHANGED vars
  BY <1>7 DEF vars
<1>8. QED
  BY <1>1, <1>2, <1>3, <1>4, <1>5, <1>6, <1>7 DEF Next, Handle, Quiescent

(* A transaction that ends forgets what it did, or has committed it.       *)
LEMMA EndKeepsBacked ==
  ASSUME Typed, NEW t \in Txns, NEW q \in Requests,
         local' = [local EXCEPT ![t] = [a \in Approvals |-> "pending"]],
         inserted' = [inserted EXCEPT ![t] = {}], HistoryKept, UNCHANGED decision
  PROVE  KeepsBacked(q)
<1>1. q \in Txns
  BY DEF Txns
<1>2. CASE q = t
  BY <1>1, <1>2 DEF KeepsBacked, HistoryKept, Typed, TypeOK
<1>3. CASE q # t
  BY <1>1, <1>3 DEF KeepsBacked, HistoryKept, Typed, TypeOK
<1>4. QED
  BY <1>2, <1>3

LEMMA SameKeepsBacked ==
  ASSUME NEW q \in Requests, HistoryKept, decision'[q] = decision[q],
         local'[q] = local[q], inserted'[q] = inserted[q]
  PROVE  KeepsBacked(q)
BY DEF KeepsBacked, HistoryKept

(* Execution settles an approval with its row, or one that needs none.     *)
LEMMA SettleKeepsBacked ==
  ASSUME Typed, NEW r \in Requests, NEW q \in Requests,
         pc[r] \in {"execute", "append"}, HistoryKept, UNCHANGED decision,
         NEW outcome \in {"executed", "execution_failed"},
         Settle(r, Current(r), outcome), NEW synced \in BOOLEAN,
         UNCHANGED inserted \/ AddRaidItem(r, Current(r), synced),
         \A a : a = Current(r) /\ outcome = "executed"
                 => Backing(a, r, raidItems \union inserted[r])'
  PROVE  KeepsBacked(q)
<1>1. r \in Txns /\ q \in Txns /\ Current(r) \in Approvals
  BY AtApproval DEF Txns
<1>2. CASE q = r
  <2>1. /\ inserted[r] \subseteq inserted'[r]
        /\ \A a \in Approvals :
             local'[r][a] = IF a = Current(r) THEN outcome ELSE local[r][a]
    BY <1>1 DEF AddRaidItem, Settle, Typed, TypeOK
  <2>2. \A a \in Approvals : a = Current(r) /\ local'[r][a] = "executed"
          => Backing(a, r, raidItems \union inserted[r])'
    BY <1>1, <2>1
  <2>3. QED BY <1>1, <1>2, <2>1, <2>2 DEF KeepsBacked, HistoryKept
<1>3. CASE q # r
  <2>1. local'[q] = local[q] /\ inserted'[q] = inserted[q]
    BY <1>1, <1>3 DEF AddRaidItem, Settle, Typed, TypeOK
  <2>2. QED BY <2>1, SameKeepsBacked
<1>4. QED
  BY <1>2, <1>3

LEMMA AddedRow ==
  ASSUME Typed, NEW r \in Requests, NEW a \in Approvals, NEW synced \in BOOLEAN,
         AddRaidItem(r, a, synced), UNCHANGED decision, Kind[a] = "raid"
  PROVE  Backing(a, r, raidItems \union inserted[r])'
<1>1. [approval |-> a, by |-> r, ref |-> RefOf(r, a), synced |-> synced]
        \in inserted'[r]
  BY DEF AddRaidItem, Typed, TypeOK, Txns
<1>2. RefOf(r, a)' = RefOf(r, a)
  BY DEF RefOf, EffectivePayload
<1>3. PICK i \in inserted'[r] : i.approval = a /\ i.by = r /\ i.ref = RefOf(r, a)
  BY <1>1
<1>4. RowFor(i, a, r)'
  BY <1>2, <1>3 DEF RowFor
<1>5. QED
  BY <1>3, <1>4 DEF Backing

LEMMA BackedStep == Typed /\ LockInv /\ BackedInv /\ [Next]_vars => BackedInv'
<1> SUFFICES ASSUME Typed, LockInv, BackedInv, [Next]_vars, NEW q \in Requests
             PROVE  KeepsBacked(q)
  BY BackedKept DEF BackedInv
<1> USE HistoryGrows
<1>a. \A r \in Requests : r \in Txns /\ r # Sweep
  BY ApprovalConstants DEF Txns
<1>1. CASE UNCHANGED <<local, inserted, decision>>
  BY <1>1, SameKeepsBacked
<1>2. ASSUME NEW t \in Txns, (\E place : Rollback(t, place)) \/ CommitRows(t)
      PROVE  KeepsBacked(q)
  BY <1>2, EndKeepsBacked DEF Rollback, CommitRows
<1>3. ASSUME NEW r \in Requests, Decide(r) PROVE KeepsBacked(q)
  <2>1. Current(r) \in Approvals
    BY <1>3, AtApproval DEF Decide
  <2>2. inserted' = inserted /\ decision' = decision
        /\ \E o \in {"expired", "approved", "rejected"} :
             local' = [local EXCEPT ![r][Current(r)] = o]
    BY <1>3 DEF Decide
  <2>3. QED BY <1>a, <2>1, <2>2 DEF KeepsBacked, HistoryKept, Typed, TypeOK
<1>0. ASSUME NEW r \in Requests, Receive(r) PROVE KeepsBacked(q)
  <2>1. CASE q = r
    <3>1. \A a \in Approvals : local'[q][a] = "pending"
      BY <1>0, <2>1 DEF Receive, LockInv, CoveredByLocks
    <3>2. QED BY <3>1 DEF KeepsBacked
  <2>2. CASE q # r
    BY <1>0, <2>2, SameKeepsBacked DEF Receive, Typed, TypeOK
  <2>3. QED BY <2>1, <2>2
<1>4. ASSUME NEW r \in Requests,
             Refuse(r) \/ Flush(r) \/ Commit(r) \/ ParseError(r)
      PROVE  KeepsBacked(q)
  <2>1. \/ UNCHANGED <<local, inserted, decision>>
        \/ (\E place : Rollback(r, place)) \/ CommitRows(r)
    BY <1>4 DEF Refuse, RaiseError, Flush, FlushExpired, FlushRejected,
       FlushApproved, Commit, ParseError
  <2>2. QED BY <1>a, <1>1, <1>2, <2>1
<1>5. ASSUME NEW r \in Requests, SkipDuplicateRaid(r) PROVE KeepsBacked(q)
  <2>1. /\ pc[r] = "execute" /\ Kind[Current(r)] = "raid" /\ Known(r, Current(r))
        /\ Settle(r, Current(r), "executed")
        /\ UNCHANGED <<raidItems, byHand, decision, inserted>>
    BY <1>5 DEF SkipDuplicateRaid, dbVars
  <2>2. \A a : RefOf(r, a)' = RefOf(r, a)
    BY <2>1 DEF RefOf, EffectivePayload
  <2>3. \A a : a = Current(r) => Backing(a, r, raidItems \union inserted[r])'
    BY <2>1, <2>2 DEF Known, KnownRefs, RowFor, Backing
  <2>4. QED BY <2>1, <2>3, SettleKeepsBacked
<1>6. ASSUME NEW r \in Requests, ExecuteRaid(r) PROVE KeepsBacked(q)
  <2>1. CASE Workbook
    BY <1>1, <1>6, <2>1 DEF ExecuteRaid
  <2>2. CASE ~Workbook
    <3>1. /\ pc[r] = "execute" /\ AddRaidItem(r, Current(r), FALSE)
          /\ Settle(r, Current(r), "executed")
          /\ Kind[Current(r)] = "raid" /\ UNCHANGED decision
      BY <1>6, <2>2 DEF ExecuteRaid
    <3>2. \A a : a = Current(r) => Backing(a, r, raidItems \union inserted[r])'
      BY <3>1, AddedRow, AtApproval
    <3>3. QED BY <3>1, <3>2, SettleKeepsBacked
  <2>3. QED BY <2>1, <2>2
<1>7. ASSUME NEW r \in Requests, AppendToWorkbook(r) PROVE KeepsBacked(q)
  <2>1. PICK synced \in BOOLEAN, outcome \in {"executed", "execution_failed"} :
          AddRaidItem(r, Current(r), synced) /\ Settle(r, Current(r), outcome)
    <3>1. \/ AddRaidItem(r, Current(r), TRUE) /\ Settle(r, Current(r), "executed")
          \/ /\ AddRaidItem(r, Current(r), FALSE)
             /\ Settle(r, Current(r), "execution_failed")
      BY <1>7 DEF AppendToWorkbook
    <3>2. QED BY <3>1
  <2>2. pc[r] = "append" /\ Kind[Current(r)] = "raid" /\ UNCHANGED decision
    BY <1>7 DEF AppendToWorkbook
  <2>3. \A a : a = Current(r) => Backing(a, r, raidItems \union inserted[r])'
    BY <2>1, <2>2, AddedRow, AtApproval
  <2>4. QED BY <2>1, <2>2, <2>3, SettleKeepsBacked
<1>8. ASSUME NEW r \in Requests, ExecuteJira(r) \/ ExecuteReport(r)
      PROVE  KeepsBacked(q)
  <2>1. PICK outcome \in {"executed", "execution_failed"} :
          /\ Settle(r, Current(r), outcome)
          /\ outcome = "executed" /\ Kind[Current(r)] = "report"
               => RefOf(r, Current(r)) # NoRef
    BY <1>8 DEF ExecuteJira, ExecuteReport
  <2>2. /\ pc[r] = "execute" /\ Kind[Current(r)] # "raid"
        /\ UNCHANGED <<inserted, decision>>
    BY <1>8 DEF ExecuteJira, ExecuteReport
  <2>3. \A a : RefOf(r, a)' = RefOf(r, a)
    BY <2>2 DEF RefOf, EffectivePayload
  <2>4. \A a : a = Current(r) /\ outcome = "executed"
                => Backing(a, r, raidItems \union inserted[r])'
    BY <2>1, <2>2, <2>3 DEF Backing
  <2>5. QED BY <2>1, <2>2, <2>4, SettleKeepsBacked
<1>9. ASSUME SweepStart PROVE KeepsBacked(q)
  <2>1. local'[q] = local[q] /\ inserted' = inserted /\ decision' = decision
    BY <1>9, <1>a DEF SweepStart, Typed, TypeOK
  <2>2. QED BY <2>1, SameKeepsBacked
<1>10. ASSUME SweepFlush \/ SweepCommit PROVE KeepsBacked(q)
  BY <1>1, <1>2, <1>10 DEF SweepFlush, SweepCommit, Txns
<1>11. ASSUME NEW t \in Txns, Crash(t) \/ DeadlockAbort(t) PROVE KeepsBacked(q)
  BY <1>2, <1>11 DEF Crash, DeadlockAbort
<1>12. ASSUME NEW a \in Approvals, Deadline(a) PROVE KeepsBacked(q)
  BY <1>1, <1>12 DEF Deadline, txnVars
<1>13. ASSUME NEW x \in HandRefs, AddByHand(x) PROVE KeepsBacked(q)
  BY <1>1, <1>13 DEF AddByHand, txnVars
<1>14. CASE UNCHANGED vars
  BY <1>1, <1>14 DEF vars, txnVars
<1>15. QED
  BY <1>0, <1>3, <1>4, <1>5, <1>6, <1>7, <1>8, <1>9, <1>10, <1>11, <1>12,
     <1>13, <1>14
     DEF Next, Handle, Execute, RunSweep, Quiescent

(* What is EXECUTED was decided by a request.                              *)
ExecutedByRequest ==
  \A a \in Approvals : status[a] = "executed" => decidedBy[a] \in Requests

ExecutedInv == ExecutedByRequest /\ ExecutedIsBacked

(* ExecutedIsBacked in the words of this section.                          *)
BackedRow(a, r) ==
  (NeedsWrite(r, a) => Written(r, a)) /\ Backing(a, r, raidItems)

LEMMA ExecutedRows ==
  ExecutedIsBacked <=>
    \A a \in Approvals : status[a] = "executed" => BackedRow(a, decidedBy[a])
  BY DEF ExecutedIsBacked, BackedRow, NeedsWrite, Written, Backing, RowFor, RefOf

(* The decision of a request that is done stays, and with it what it is    *)
(* backed by.                                                              *)
LEMMA BackedRowKept ==
  ASSUME NEW r \in Requests, NEW a \in Approvals, BackedRow(a, r),
         decision'[r] = decision[r], HistoryKept
  PROVE  BackedRow(a, r)'
<1>1. EffectivePayload(r, a)' = EffectivePayload(r, a) /\ RefOf(r, a)' = RefOf(r, a)
  BY DEF RefOf, EffectivePayload
<1>2. \A i : RowFor(i, a, r)' = RowFor(i, a, r)
  BY <1>1 DEF RowFor
<1>3. (NeedsWrite(r, a) => Written(r, a))'
  BY <1>1 DEF BackedRow, NeedsWrite, Written, HistoryKept
<1>4. Backing(a, r, raidItems)'
  BY <1>1, <1>2 DEF BackedRow, Backing, HistoryKept
<1>5. QED
  BY <1>3, <1>4 DEF BackedRow

LEMMA DecisionKept ==
  ASSUME Typed, [Next]_vars, NEW r \in Requests, pc[r] = "done"
  PROVE  decision'[r] = decision[r]
<1>1. ASSUME NEW q \in Requests, Receive(q) PROVE decision'[r] = decision[r]
  BY <1>1 DEF Receive, Typed, TypeOK
<1>2. ASSUME NEW q \in Requests, Handle(q) PROVE UNCHANGED decision
  BY <1>2 DEF Handle, Refuse, RaiseError, Decide, Flush, FlushExpired, FlushRejected,
     FlushApproved, Execute, ParseError, SkipDuplicateRaid, ExecuteRaid,
     AppendToWorkbook, ExecuteJira, ExecuteReport, Commit, CommitRows, Rollback
<1>3. CASE RunSweep \/ \E t \in Txns : Crash(t) \/ DeadlockAbort(t)
  BY <1>3 DEF RunSweep, SweepStart, SweepFlush, SweepCommit, CommitRows, Crash,
     DeadlockAbort, Rollback
<1>4. CASE \/ \E a \in Approvals : Deadline(a)
           \/ \E x \in HandRefs : AddByHand(x)
           \/ UNCHANGED vars
  BY <1>4 DEF Deadline, AddByHand, vars, txnVars
<1>5. QED
  BY <1>1, <1>2, <1>3, <1>4 DEF Next, Quiescent

(* What a commit records as EXECUTED it can show.                          *)
LEMMA CommitBacked ==
  ASSUME Typed, LockInv, GrantInv, BackedInv, OnlyDoneDecides, ExecutedInv,
         [Next]_vars, SweepCommit \/ \E r \in Requests : Commit(r)
  PROVE  ExecutedInv'
<1>1. PICK t \in Txns : CommitRows(t) /\ (t = Sweep \/ t \in Requests) /\ UNCHANGED writes
  BY DEF SweepCommit, Commit, Txns
<1> SUFFICES ASSUME NEW a \in Approvals, status'[a] = "executed"
             PROVE  decidedBy'[a] \in Requests /\ BackedRow(a, decidedBy[a])'
  <2>1. (\A a \in Approvals : status[a] = "executed" => BackedRow(a, decidedBy[a]))'
          => ExecutedIsBacked'
    BY ExecutedRows, PTL
  <2>2. QED BY <2>1 DEF ExecutedInv, ExecutedByRequest
<1>2. raidItems' = raidItems \union inserted[t] /\ UNCHANGED <<writes, decision, byHand>>
  BY <1>1 DEF CommitRows
<1>3. CASE owner[a] = t
  <2>1. local[t][a] = "executed" /\ decidedBy'[a] = t
    BY <1>1, <1>3 DEF CommitRows, Locked, Typed, TypeOK
  <2>2. t \in Requests
    BY <1>1, <2>1, ApprovalConstants
    DEF Typed, SweepInv, SweepCommit, Commit, CommitRows, Txns, Locked, TypeOK
  <2>3. NeedsWrite(t, a) => Written(t, a)
    BY <2>1, <2>2 DEF GrantInv, GrantFor
  <2>4. Backing(a, t, raidItems \union inserted[t])
    BY <2>1, <2>2 DEF BackedInv, Backed
  <2>5. /\ EffectivePayload(t, a)' = EffectivePayload(t, a)
        /\ RefOf(t, a)' = RefOf(t, a)
        /\ \A i : RowFor(i, a, t)' = RowFor(i, a, t)
    BY <1>2 DEF RefOf, EffectivePayload, RowFor
  <2>6. (NeedsWrite(t, a) => Written(t, a))'
    BY <1>2, <2>3, <2>5 DEF NeedsWrite, Written
  <2>7. Backing(a, t, raidItems)'
    BY <1>2, <2>4, <2>5 DEF Backing
  <2>8. BackedRow(a, t)'
    BY <2>6, <2>7 DEF BackedRow
  <2>9. BackedRow(a, decidedBy[a])'
    BY <2>1, <2>8 DEF BackedRow, NeedsWrite, Written, Backing, RowFor, RefOf,
       EffectivePayload
  <2>10. QED BY <2>1, <2>2, <2>9
<1>4. CASE owner[a] # t
  <2>1. status'[a] = status[a] /\ decidedBy'[a] = decidedBy[a]
    BY <1>1, <1>4 DEF CommitRows, Locked, Typed, TypeOK
  <2>2. decidedBy[a] \in Requests /\ BackedRow(a, decidedBy[a])
    BY <2>1, ExecutedRows DEF ExecutedInv, ExecutedByRequest
  <2>3. BackedRow(a, decidedBy[a])'
    BY <1>2, <2>1, <2>2, BackedRowKept, HistoryGrows
    DEF BackedRow, NeedsWrite, Written, Backing, RowFor, RefOf, EffectivePayload
  <2>4. QED BY <2>1, <2>2, <2>3
<1>5. QED
  BY <1>3, <1>4

(* A committed EXECUTED is true, whatever was executed twice, overwritten  *)
(* or rolled back in between: by the payload that its decider gave it, the *)
(* Jira write it asks for was made by that request, the RAID log holds a   *)
(* row for it, the report exists.                                          *)
THEOREM ExecutedBacked == Spec => []ExecutedIsBacked
<1>1. Init => BackedInv /\ ExecutedInv
  BY DEF Init, BackedInv, Backed, ExecutedInv, ExecutedByRequest, ExecutedIsBacked, Txns
<1>2. /\ Typed /\ LockInv /\ GrantInv /\ BackedInv /\ OnlyDoneDecides /\ ExecutedInv
      /\ [Next]_vars
      => ExecutedInv'
  <2> SUFFICES ASSUME Typed, LockInv, GrantInv, BackedInv, OnlyDoneDecides, ExecutedInv,
                      [Next]_vars
               PROVE  ExecutedInv'
    OBVIOUS
  <2>1. CASE UNCHANGED Recorded
    <3>1. UNCHANGED <<status, decidedBy>> /\ HistoryKept
      BY <2>1, HistoryGrows DEF Recorded
    <3>2. ASSUME NEW a \in Approvals, status'[a] = "executed"
          PROVE  decidedBy'[a] \in Requests /\ BackedRow(a, decidedBy[a])'
      <4>1. decidedBy[a] \in Requests /\ BackedRow(a, decidedBy[a])
        BY <3>1, <3>2, ExecutedRows DEF ExecutedInv, ExecutedByRequest
      <4>2. pc[decidedBy[a]] = "done"
        BY <4>1, ApprovalConstants DEF OnlyDoneDecides, Txns
      <4>3. decision'[decidedBy[a]] = decision[decidedBy[a]]
        BY <4>1, <4>2, DecisionKept
      <4>4. \A r : r = decidedBy[a] => BackedRow(a, r)'
        BY <3>1, <4>1, <4>3, BackedRowKept
      <4>5. BackedRow(a, decidedBy[a])'
        BY <3>1, <4>4 DEF BackedRow, NeedsWrite, Written, Backing, RowFor, RefOf,
           EffectivePayload
      <4>6. QED BY <3>1, <4>1, <4>5
    <3>3. (\A a \in Approvals : status[a] = "executed" => BackedRow(a, decidedBy[a]))'
            => ExecutedIsBacked'
      BY ExecutedRows, PTL
    <3>4. QED BY <3>2, <3>3 DEF ExecutedInv, ExecutedByRequest
  <2>2. CASE SweepCommit \/ \E r \in Requests : Commit(r)
    BY <2>2, CommitBacked
  <2>3. QED BY <2>1, <2>2, OnlyCommitsRecord
<1>3. ExecutedInv => ExecutedIsBacked
  BY DEF ExecutedInv
<1>4. QED
  BY <1>1, <1>2, <1>3, BackedStep, OnlyDone, GrantInvariant, PTL DEF Spec
=============================================================================
