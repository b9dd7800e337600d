---------------------------- MODULE AgentRunProofs ----------------------------
(***************************************************************************)
(* Proofs about AgentRun, for any number of runs, answers, ceilings and    *)
(* changes of them: the card respects the ceiling its run began under, the *)
(* queue has the proposals of the runs that succeeded, no others, and the  *)
(* claims of a run that publishes or proposes went through the check.      *)
(***************************************************************************)
EXTENDS AgentRun, FiniteSetTheorems, TLAPS

LEMMA CatalogLevels ==
  ASSUME NEW t \in Offered
  PROVE  Catalog[t].level \in Levels
<1>1. /\ Draft.level = 2 /\ Standup.level = 3 /\ MorningSprintPlan.level = 3
      /\ EodSummary.level = 3
  BY DEF Draft, Standup, MorningSprintPlan, EodSummary
<1>2. /\ RaidGapScan.level = 3 /\ MeetingOutcomeIntake.level = 2
      /\ ActionItemTracking.level = 4 /\ BlockerRiskPromotion.level = 2
      /\ WeeklyClientStatus.level = 2 /\ SprintPlanningPrep.level = 2
  BY <1>1 DEF Draft, RaidGapScan, MeetingOutcomeIntake, ActionItemTracking,
     BlockerRiskPromotion, WeeklyClientStatus, SprintPlanningPrep
<1>3. t \in {"morning_sprint_plan", "eod_summary", "raid_gap_scan", "meeting_outcome_intake",
             "action_item_tracking", "blocker_risk_promotion", "weekly_client_status",
             "sprint_planning_prep"}
  BY OfferedConstants DEF Catalog
<1> QED
  BY <1>1, <1>2, <1>3 DEF Catalog, Levels

LEMMA SkippedIsResult ==
  Skipped \in Result /\ Skipped.skip = TRUE /\ Skipped.yield.writes = {}
BY DEF Skipped, Result, Bare, Yield

(* A run under way is of a task that is offered, at the lower of its level *)
(* and the ceiling of its epoch; before its end nothing is audited of it.  *)
RunInv ==
  \A r \in Runs :
    /\ pc[r] # "idle" =>
         /\ run[r] # Nobody /\ run[r].epoch \in 1..Len(ceilings)
         /\ run[r].level = EffectiveAutonomy(TaskOf(r).level, ceilings[run[r].epoch])
    /\ pc[r] \notin Ended => audit[r] = "none"
    /\ pc[r] = "idle" => r \notin posted
    /\ run[r] # Nobody /\ run[r].result.skip => run[r].result = Skipped

GateInv == TypeOK /\ RunInv /\ CardsRespectCeiling /\ ApprovalsHaveTheirRun

LEMMA GateInit == Init => GateInv
<1> SUFFICES ASSUME Init PROVE GateInv
  OBVIOUS
<1>1. PICK c \in Ceilings : ceilings = <<c>>
  BY DEF Init
<1>2. ceilings \in Seq(Ceilings) /\ Len(ceilings) = 1
  BY <1>1
<1>3. faults \in 0..MaxFaults /\ 1 \in 1..(MaxChanges + 1)
  BY RunnerConstants DEF Init
<1>4. TypeOK
  BY <1>2, <1>3 DEF Init, TypeOK, Places
<1>5. RunInv
  BY DEF Init, RunInv
<1>6. CardsRespectCeiling /\ ApprovalsHaveTheirRun
  BY DEF Init, CardsRespectCeiling, ApprovalsHaveTheirRun
<1> QED
  BY <1>4, <1>5, <1>6 DEF GateInv

(* A step of one run that is under way, and stays so or ends.  What it is  *)
(* about does not change; what the channel receives, it is allowed.        *)
LEMMA OwnStep ==
  ASSUME GateInv, NEW r \in Runs, pc[r] \notin {"idle"} \union Ended,
         NEW place \in Places \ {"idle"}, GoTo(r, place),
         UNCHANGED <<ceilings, down, run>>,
         NEW ended \in {"none", "skipped", "success", "failed"},
         audit' = [audit EXCEPT ![r] = ended],
         place \notin Ended => ended = "none",
         approvals' = approvals
           \union (IF ended = "success" THEN Proposed(r) ELSE {}),
         posted' \in {posted, posted \union {r}},
         r \in posted' => r \in posted \/ MayPost(r),
         told' \subseteq Runs, faults' \in 0..MaxFaults
  PROVE  GateInv'
<1>1. /\ run[r] \in Run /\ run[r].epoch \in 1..Len(ceilings)
      /\ run[r].level = EffectiveAutonomy(TaskOf(r).level, ceilings[run[r].epoch])
      /\ audit[r] = "none"
  BY DEF GateInv, TypeOK, RunInv
<1>2. Proposed(r) \subseteq Runs \X Refs
  BY <1>1 DEF Proposed, Run, Result
<1>3. TypeOK'
  BY <1>2 DEF GoTo, GateInv, TypeOK
<1>4. RunInv'
  BY DEF GoTo, GateInv, TypeOK, RunInv, TaskOf
<1>5. ASSUME MayPost(r)
      PROVE  TaskOf(r).level >= 3 /\ ceilings[run[r].epoch] >= 3 /\ ~run[r].muted
  <2>1. TaskOf(r).level \in Levels
    BY <1>1, CatalogLevels DEF TaskOf, Run
  <2>2. ceilings[run[r].epoch] \in Levels
    BY <1>1, RunnerConstants DEF GateInv, TypeOK
  <2>3. run[r].level >= 3 /\ ~run[r].muted
    BY <1>5 DEF MayPost, MayWriteExternally
  <2> QED
    BY <1>1, <2>1, <2>2, <2>3 DEF EffectiveAutonomy, Levels
<1>6. CardsRespectCeiling'
  <2> SUFFICES ASSUME NEW p \in posted'
               PROVE  TaskOf(p).level >= 3 /\ ceilings[run[p].epoch] >= 3 /\ ~run[p].muted
    BY DEF CardsRespectCeiling, TaskOf
  <2> QED
    BY <1>5 DEF GateInv, CardsRespectCeiling
<1>7. ApprovalsHaveTheirRun'
  <2> DEFINE over == {p \in Runs : audit[p] = "success"}
  <2>1. {p \in Runs : audit'[p] = "success"}
          = over \union (IF ended = "success" THEN {r} ELSE {})
    BY <1>1 DEF GateInv, TypeOK
  <2>2. \A p \in Runs : Proposed(p)' = Proposed(p)
    BY DEF Proposed
  <2>3. approvals = UNION {Proposed(p) : p \in over}
    BY DEF GateInv, ApprovalsHaveTheirRun
  <2> HIDE DEF over
  <2>4. approvals' = UNION {Proposed(p) : p \in {q \in Runs : audit'[q] = "success"}}
    BY <2>1, <2>3
  <2>5. over \union {r} \subseteq Runs
    BY DEF over
  <2> QED
    BY <2>1, <2>2, <2>4, <2>5 DEF ApprovalsHaveTheirRun
<1> QED
  BY <1>3, <1>4, <1>6, <1>7 DEF GateInv

(* A step of it that neither ends it nor does anything others can see.     *)
LEMMA QuietStep ==
  ASSUME GateInv, NEW r \in Runs, pc[r] \notin {"idle"} \union Ended,
         NEW place \in Places \ ({"idle"} \union Ended), GoTo(r, place),
         UNCHANGED <<ceilings, down, run, audit, approvals, posted, told, faults>>
  PROVE  GateInv'
<1>1. audit[r] = "none" /\ told' \subseteq Runs /\ faults' \in 0..MaxFaults
  BY DEF GateInv, TypeOK, RunInv
<1>2. audit' = [audit EXCEPT ![r] = "none"]
  BY <1>1 DEF GateInv, TypeOK
<1> QED
  BY <1>1, <1>2, OwnStep

LEMMA FailureStep ==
  ASSUME GateInv, NEW r \in Runs, pc[r] \notin {"idle"} \union Ended,
         audit' = [audit EXCEPT ![r] = "failed"], GoTo(r, "failed"),
         UNCHANGED <<ceilings, down, run, approvals, told>>,
         posted' \in {posted, posted \union {r}},
         r \in posted' => r \in posted \/ MayPost(r),
         faults' \in 0..MaxFaults
  PROVE  GateInv'
<1>1. told' \subseteq Runs /\ "failed" \in Places \ {"idle"} /\ "failed" \in Ended
  BY DEF GateInv, TypeOK, Places, Ended
<1> QED
  BY <1>1, OwnStep

(* Nothing of a run in the queue while its claims are not settled: giving  *)
(* it a task or a result leaves the queue as it is.                        *)
LEMMA SameProposals ==
  ASSUME ApprovalsHaveTheirRun, NEW r \in Runs, audit[r] = "none",
         UNCHANGED <<audit, approvals>>, \A p \in Runs \ {r} : run'[p] = run[p]
  PROVE  ApprovalsHaveTheirRun'
<1> DEFINE over == {p \in Runs : audit[p] = "success"}
<1>1. over \subseteq Runs \ {r} /\ over' = over
  OBVIOUS
<1> HIDE DEF over
<1>2. \A p \in over : Proposed(p)' = Proposed(p)
  BY <1>1 DEF Proposed
<1>3. approvals = UNION {Proposed(p) : p \in over}
  BY DEF ApprovalsHaveTheirRun, over
<1>4. approvals' = UNION {Proposed(p)' : p \in over'}
  BY <1>1, <1>2, <1>3
<1> QED
  BY <1>4 DEF ApprovalsHaveTheirRun, over

LEMMA BeginStep == ASSUME GateInv, NEW r \in Runs, Begin(r) PROVE GateInv'
<1>1. PICK t \in Offered, wired \in BOOLEAN, muted \in BOOLEAN :
        run' = [run EXCEPT ![r] =
          [task |-> t, wired |-> wired, muted |-> muted, epoch |-> Len(ceilings),
           level |-> EffectiveAutonomy(Catalog[t].level, Last(ceilings)),
           result |-> Skipped]]
  BY DEF Begin
<1> DEFINE level == EffectiveAutonomy(Catalog[t].level, Last(ceilings))
           new == [task |-> t, wired |-> wired, muted |-> muted, epoch |-> Len(ceilings),
                   level |-> level, result |-> Skipped]
<1>2. Len(ceilings) \in 1..(MaxChanges + 1) /\ Last(ceilings) = ceilings[Len(ceilings)]
  BY DEF GateInv, TypeOK, Last
<1>3. Last(ceilings) \in Levels
  BY <1>2, RunnerConstants DEF GateInv, TypeOK
<1>4. level \in Levels
  BY <1>3, CatalogLevels DEF EffectiveAutonomy
<1> HIDE DEF level
<1>5. new \in Run
  BY <1>2, <1>4, SkippedIsResult DEF Run
<1>6. run'[r] = new /\ \A p \in Runs \ {r} : run'[p] = run[p]
  BY <1>1 DEF GateInv, TypeOK, level
<1>7. /\ pc[r] = "idle" /\ pc' = [pc EXCEPT ![r] = "gather"]
      /\ UNCHANGED <<ceilings, down, audit, approvals, posted, told, faults>>
  BY DEF Begin, GoTo, world
<1>8. TypeOK'
  <2>1. run' \in [Runs -> Run \union {Nobody}]
    BY <1>1, <1>5 DEF GateInv, TypeOK, level
  <2> QED
    BY <1>7, <2>1 DEF GateInv, TypeOK, Places
<1>9. RunInv'
  <2>1. new # Nobody
    BY <1>5, NobodyRuns
  <2>2. /\ new.epoch \in 1..Len(ceilings) /\ new.level = level /\ new.result = Skipped
        /\ level = EffectiveAutonomy(Catalog[new.task].level, ceilings[new.epoch])
    BY <1>2 DEF level
  <2> HIDE DEF new
  <2>3. audit[r] = "none" /\ r \notin posted
    BY <1>7 DEF GateInv, RunInv, Ended
  <2> QED
    BY <1>6, <1>7, <2>1, <2>2, <2>3 DEF GateInv, TypeOK, RunInv, TaskOf
<1>10. r \notin posted
  BY <1>7 DEF GateInv, RunInv
<1>11. CardsRespectCeiling'
  BY <1>6, <1>7, <1>10 DEF GateInv, TypeOK, CardsRespectCeiling, TaskOf
<1>12. ApprovalsHaveTheirRun'
  <2>1. audit[r] = "none"
    BY <1>7 DEF GateInv, RunInv, Ended
  <2> QED
    BY <1>6, <1>7, <2>1, SameProposals DEF GateInv
<1> QED
  BY <1>8, <1>9, <1>11, <1>12 DEF GateInv

LEMMA ReasonStep == ASSUME GateInv, NEW r \in Runs, Reason(r) PROVE GateInv'
<1>1. PICK result \in Results(r) :
        /\ run' = [run EXCEPT ![r].result = result]
        /\ GoTo(r, IF result.skip THEN "commit" ELSE "validate")
  BY DEF Reason
<1>2. result \in Result /\ (result.skip => result = Skipped)
  BY SkippedIsResult DEF Results
<1>3. /\ pc[r] = "reason" /\ run[r] \in Run /\ audit[r] = "none"
      /\ UNCHANGED <<ceilings, down, audit, approvals, posted, told, faults>>
  BY DEF Reason, GateInv, TypeOK, RunInv, Ended, world
<1>4. /\ run'[r] \in Run /\ run'[r] = [run[r] EXCEPT !.result = result]
      /\ \A p \in Runs \ {r} : run'[p] = run[p]
  BY <1>1, <1>2, <1>3 DEF GateInv, TypeOK, Run
<1>5. /\ run'[r].task = run[r].task /\ run'[r].epoch = run[r].epoch
      /\ run'[r].level = run[r].level /\ run'[r].muted = run[r].muted
      /\ run'[r].result = result /\ run'[r] # Nobody
  BY <1>3, <1>4, NobodyRuns DEF Run
<1>6. TypeOK'
  <2>1. run' \in [Runs -> Run \union {Nobody}]
    BY <1>1, <1>4 DEF GateInv, TypeOK
  <2>2. pc' \in [Runs -> Places]
    BY <1>1 DEF GoTo, GateInv, TypeOK, Places
  <2> QED
    BY <1>3, <2>1, <2>2 DEF GateInv, TypeOK
<1>7. RunInv'
  <2>1. \A p \in Runs \ {r} : pc'[p] = pc[p]
    BY <1>1 DEF GoTo, GateInv, TypeOK
  <2>2. pc'[r] \in {"commit", "validate"}
    BY <1>1 DEF GoTo, GateInv, TypeOK
  <2>3. /\ run[r].epoch \in 1..Len(ceilings)
        /\ run[r].level = EffectiveAutonomy(TaskOf(r).level, ceilings[run[r].epoch])
    BY <1>3 DEF GateInv, RunInv
  <2>4. TaskOf(r)' = TaskOf(r)
    BY <1>5 DEF TaskOf
  <2>5. /\ run'[r] # Nobody /\ run'[r].epoch \in 1..Len(ceilings')
        /\ run'[r].level = EffectiveAutonomy(TaskOf(r)'.level, ceilings'[run'[r].epoch])
    BY <1>3, <1>5, <2>3, <2>4
  <2>6. pc'[r] # "idle" /\ audit'[r] = "none"
    BY <1>3, <2>2
  <2>7. run'[r].result.skip => run'[r].result = Skipped
    BY <1>2, <1>5
  <2>8. \A p \in Runs \ {r} : TaskOf(p)' = TaskOf(p)
    BY <1>4 DEF TaskOf
  <2> SUFFICES ASSUME NEW p \in Runs \ {r}
               PROVE  /\ pc'[p] # "idle" =>
                           /\ run'[p] # Nobody /\ run'[p].epoch \in 1..Len(ceilings')
                           /\ run'[p].level =
                                EffectiveAutonomy(TaskOf(p)'.level, ceilings'[run'[p].epoch])
                      /\ pc'[p] \notin Ended => audit'[p] = "none"
                      /\ pc'[p] = "idle" => p \notin posted'
                      /\ run'[p] # Nobody /\ run'[p].result.skip => run'[p].result = Skipped
    BY <1>3, <2>5, <2>6, <2>7 DEF RunInv
  <2> QED
    BY <1>3, <1>4, <2>1, <2>8 DEF GateInv, RunInv
<1>8. CardsRespectCeiling'
  BY <1>3, <1>4, <1>5 DEF GateInv, TypeOK, CardsRespectCeiling, TaskOf
<1>9. ApprovalsHaveTheirRun'
  BY <1>3, <1>4, SameProposals DEF GateInv
<1> QED
  BY <1>6, <1>7, <1>8, <1>9 DEF GateInv

LEMMA CommitStep == ASSUME GateInv, NEW r \in Runs, Commit(r) PROVE GateInv'
<1> DEFINE ended == IF run[r].result.skip THEN "skipped" ELSE "success"
<1>1. /\ pc[r] = "commit" /\ GoTo(r, "done") /\ audit' = [audit EXCEPT ![r] = ended]
      /\ approvals' = approvals \union Proposed(r)
      /\ UNCHANGED <<ceilings, down, run, posted, told, faults>>
  BY DEF Commit, world
<1>2. run[r] # Nobody /\ run[r] \in Run
  BY <1>1 DEF GateInv, TypeOK, RunInv
<1>3. run[r].result.skip => Proposed(r) = {}
  BY <1>2, SkippedIsResult DEF GateInv, RunInv, Proposed
<1>4. approvals' = approvals \union (IF ended = "success" THEN Proposed(r) ELSE {})
  BY <1>1, <1>3
<1>5. /\ "done" \in Places \ {"idle"} /\ "done" \in Ended
      /\ pc[r] \notin {"idle"} \union Ended
  BY <1>1 DEF Places, Ended
<1>6. told' \subseteq Runs /\ faults' \in 0..MaxFaults
  BY <1>1 DEF GateInv, TypeOK
<1>7. ended \in {"none", "skipped", "success", "failed"}
  OBVIOUS
<1> HIDE DEF ended
<1> QED
  BY <1>1, <1>4, <1>5, <1>6, <1>7, OwnStep

LEMMA GateStep == GateInv /\ [Next]_vars => GateInv'
<1> SUFFICES ASSUME GateInv, [Next]_vars PROVE GateInv'
  OBVIOUS
<1> USE DEF Places, Ended
<1>1. ASSUME NEW r \in Runs, Gather(r) PROVE GateInv'
  BY <1>1, QuietStep DEF Gather, world
<1>2. ASSUME NEW r \in Runs, GatherFails(r) PROVE GateInv'
  <2>1. faults' \in 0..MaxFaults
    BY <1>2 DEF GatherFails, GateInv, TypeOK
  <2> QED
    BY <1>2, <2>1, FailureStep DEF GatherFails, RecordFailure, world
<1>3. ASSUME NEW r \in Runs, ReasonFails(r) PROVE GateInv'
  <2>1. faults' \in 0..MaxFaults
    BY <1>3, RunnerConstants DEF ReasonFails, GateInv, TypeOK
  <2> QED
    BY <1>3, <2>1, FailureStep DEF ReasonFails, RecordFailure, world
<1>4. ASSUME NEW r \in Runs, Validate(r) PROVE GateInv'
  BY <1>4, QuietStep DEF Validate, world
<1>5. ASSUME NEW r \in Runs, Ungrounded(r) PROVE GateInv'
  <2>1. faults' \in 0..MaxFaults
    BY <1>5 DEF Ungrounded, GateInv, TypeOK
  <2> QED
    BY <1>5, <2>1, FailureStep DEF Ungrounded, RecordFailure, world
<1>6. ASSUME NEW r \in Runs, GateWrites(r) PROVE GateInv'
  BY <1>6, QuietStep DEF GateWrites, world
<1>7. ASSUME NEW r \in Runs, PostCard(r) \/ Deliver(r) \/ Lose(r) PROVE GateInv'
  <2>1. /\ audit' = [audit EXCEPT ![r] = "none"]
        /\ told' \subseteq Runs /\ approvals' = approvals
    BY <1>7 DEF PostCard, Deliver, Lose, GateInv, TypeOK, RunInv
  <2>2. faults' \in 0..MaxFaults
    BY <1>7, RunnerConstants DEF PostCard, Deliver, Lose, GateInv, TypeOK
  <2>3. /\ posted' \in {posted, posted \union {r}}
        /\ r \in posted' => r \in posted \/ MayPost(r)
    BY <1>7 DEF PostCard, Deliver, Lose
  <2>4. PICK place \in {"deliver", "commit", "lost"} : GoTo(r, place)
    BY <1>7 DEF PostCard, Deliver, Lose
  <2>5. pc[r] \notin {"idle"} \union Ended /\ UNCHANGED <<ceilings, down, run>>
    BY <1>7 DEF PostCard, Deliver, Lose, world
  <2> QED
    BY <2>1, <2>2, <2>3, <2>4, <2>5, OwnStep
<1>8. ASSUME NEW r \in Runs, PostCrashes(r) PROVE GateInv'
  <2>1. faults' \in 0..MaxFaults
    BY <1>8, RunnerConstants DEF PostCrashes, GateInv, TypeOK
  <2> QED
    BY <1>8, <2>1, FailureStep DEF PostCrashes, world
<1>9. ASSUME NEW c \in Ceilings, SetCeiling(c) PROVE GateInv'
  <2>1. /\ ceilings' = Append(ceilings, c) /\ Len(ceilings) <= MaxChanges
        /\ UNCHANGED <<down, pc, run, audit, approvals, posted, told, faults>>
    BY <1>9 DEF SetCeiling
  <2>2. /\ ceilings' \in Seq(Ceilings) /\ Len(ceilings') = Len(ceilings) + 1
        /\ \A i \in 1..Len(ceilings) : ceilings'[i] = ceilings[i]
    BY <2>1 DEF GateInv, TypeOK
  <2>3. TypeOK'
    BY <2>1, <2>2, RunnerConstants DEF GateInv, TypeOK
  <2>4. \A r \in Runs : pc[r] # "idle" => run[r].epoch \in 1..Len(ceilings')
    BY <2>2 DEF GateInv, TypeOK, RunInv
  <2>5. RunInv'
    BY <2>1, <2>2, <2>4 DEF GateInv, RunInv, TaskOf
  <2>6. CardsRespectCeiling'
    BY <2>1, <2>2 DEF GateInv, TypeOK, RunInv, CardsRespectCeiling, TaskOf
  <2>7. ApprovalsHaveTheirRun'
    BY <2>1 DEF GateInv, ApprovalsHaveTheirRun, Proposed
  <2> QED
    BY <2>3, <2>5, <2>6, <2>7 DEF GateInv
<1>10. CASE UNCHANGED vars
  <2>1. UNCHANGED <<ceilings, down, pc, run, audit, approvals, posted, told, faults>>
    BY <1>10 DEF vars
  <2> QED
    BY <2>1 DEF GateInv, TypeOK, RunInv, TaskOf, CardsRespectCeiling,
       ApprovalsHaveTheirRun, Proposed
<1> QED
  BY <1>1, <1>2, <1>3, <1>4, <1>5, <1>6, <1>7, <1>8, <1>9, <1>10,
     BeginStep, ReasonStep, CommitStep DEF Next

LEMMA Inductive == Spec => []GateInv
BY GateInit, GateStep, PTL DEF Spec

----------------------------------------------------------------------------
(* Theorems.                                                               *)

(* Every variable keeps its type.                                          *)
THEOREM TypeCorrect == Spec => []TypeOK
<1>1. GateInv => TypeOK
  BY DEF GateInv
<1> QED
  BY <1>1, Inductive, PTL

(* _post_card: no card is out of a run that its task's level, the ceiling  *)
(* it began under or its caller forbade, however the ceiling has moved.    *)
THEOREM CardsAllowed == Spec => []CardsRespectCeiling
<1>1. GateInv => CardsRespectCeiling
  BY DEF GateInv
<1> QED
  BY <1>1, Inductive, PTL

(* The approvals of a run and its SUCCESS are one.                         *)
THEOREM ProposalsOfSuccess == Spec => []ApprovalsHaveTheirRun
<1>1. GateInv => ApprovalsHaveTheirRun
  BY DEF GateInv
<1> QED
  BY <1>1, Inductive, PTL

----------------------------------------------------------------------------
(* Grounding.                                                              *)

Cleared == {"gate", "post", "deliver", "commit"}

(* Past the check a run is grounded, and only from there on can anything   *)
(* of it be seen.                                                          *)
GroundInv ==
  \A r \in Runs :
    /\ pc[r] \in Cleared => Grounded(r)
    /\ r \in posted \union Proposing => Grounded(r) /\ pc[r] \in Cleared \union Ended

(* A skipped run claims nothing, which is as good as cited.                *)
LEMMA NothingClaimed == Validated(ParseClaims(Skipped.claims))
<1> DEFINE none == ParseClaims(<<>>)
<1>1. DOMAIN none = {}
  BY DEF ParseClaims, Restrict
<1> HIDE DEF none
<1>2. Inspect(none).fabricated = {} /\ Inspect(none).grounded = {}
  BY <1>1 DEF Inspect
<1>3. Cardinality({}) = 0
  BY FS_EmptySet
<1>4. Cardinality(Inspect(none).grounded) = 0 /\ Cardinality(DOMAIN none) = 0
  BY ONLY <1>1, <1>2, <1>3, Zenon
<1>5. Validated(none)
  BY <1>2, <1>4, RunnerConstants DEF Validated
<1>6. Skipped.claims = <<>>
  BY DEF Skipped
<1> QED
  BY <1>5, <1>6 DEF none

LEMMA GroundInit == Init => GroundInv
BY DEF Init, GroundInv, Cleared, Proposing

(* A step of a run that is about the same claims afterwards, is cleared if *)
(* it was or is grounded, and shows nothing unless it was cleared.         *)
LEMMA GroundOwn ==
  ASSUME GateInv, GroundInv, NEW r \in Runs, NEW place \in Places, GoTo(r, place),
         run' = run,
         place \in Cleared => pc[r] \in Cleared \/ Grounded(r),
         pc[r] \in Cleared => place \in Cleared \union Ended,
         r \notin posted \union Proposing \/ place \in Cleared \union Ended,
         posted' \subseteq posted \union {r}, Proposing' \subseteq Proposing \union {r},
         r \in posted' \union Proposing' => r \in posted \union Proposing \/ pc[r] \in Cleared
  PROVE  GroundInv'
<1>1. pc'[r] = place /\ \A p \in Runs \ {r} : pc'[p] = pc[p]
  BY DEF GoTo, GateInv, TypeOK
<1>2. \A p \in Runs : Grounded(p)' <=> Grounded(p)
  BY DEF Grounded, TaskOf
<1>3. /\ pc'[r] \in Cleared => Grounded(r)
      /\ r \in posted' \union Proposing' => Grounded(r) /\ pc'[r] \in Cleared \union Ended
  BY <1>1 DEF GroundInv
<1>4. ASSUME NEW p \in Runs \ {r}
      PROVE  /\ pc'[p] \in Cleared => Grounded(p)
             /\ p \in posted' \union Proposing' =>
                  Grounded(p) /\ pc'[p] \in Cleared \union Ended
  BY <1>1 DEF GroundInv
<1> QED
  BY <1>2, <1>3, <1>4 DEF GroundInv

(* A run is given its task or its result before it is cleared.             *)
LEMMA GroundEarly ==
  ASSUME GateInv, GroundInv, NEW r \in Runs, pc[r] \in {"idle", "reason"},
         NEW place \in Places, GoTo(r, place), UNCHANGED <<posted, Proposing>>,
         \A p \in Runs \ {r} : run'[p] = run[p],
         place \in Cleared => Grounded(r)'
  PROVE  GroundInv'
<1>1. pc'[r] = place /\ \A p \in Runs \ {r} : pc'[p] = pc[p]
  BY DEF GoTo, GateInv, TypeOK
<1>2. \A p \in Runs \ {r} : Grounded(p)' <=> Grounded(p)
  BY DEF Grounded, TaskOf
<1>3. r \notin posted' \union Proposing'
  BY DEF GroundInv, Cleared, Ended
<1>4. ASSUME NEW p \in Runs \ {r}
      PROVE  /\ pc'[p] \in Cleared => Grounded(p)
             /\ p \in posted' \union Proposing' =>
                  Grounded(p) /\ pc'[p] \in Cleared \union Ended
  BY <1>1 DEF GroundInv
<1>5. pc'[r] \in Cleared => Grounded(r)'
  BY <1>1
<1> QED
  BY <1>2, <1>3, <1>4, <1>5 DEF GroundInv

LEMMA GroundStep == GateInv /\ GroundInv /\ [Next]_vars => GroundInv'
<1> SUFFICES ASSUME GateInv, GroundInv, [Next]_vars PROVE GroundInv'
  OBVIOUS
<1>1. ASSUME NEW r \in Runs, Begin(r) PROVE GroundInv'
  <2>1. \A p \in Runs \ {r} : run'[p] = run[p]
    BY <1>1 DEF Begin, GateInv, TypeOK
  <2>2. "gather" \in Places \ Cleared
    BY DEF Places, Cleared
  <2> QED
    BY <1>1, <2>1, <2>2, GroundEarly DEF Begin, Proposing
<1>2. ASSUME NEW r \in Runs, Reason(r) PROVE GroundInv'
  <2>1. PICK result \in Results(r) :
          /\ run' = [run EXCEPT ![r].result = result]
          /\ GoTo(r, IF result.skip THEN "commit" ELSE "validate")
    BY <1>2 DEF Reason
  <2>2. result \in Result /\ (result.skip => result = Skipped)
    BY SkippedIsResult DEF Results
  <2>3. pc[r] = "reason" /\ run[r] \in Run /\ UNCHANGED <<posted, Proposing>>
    BY <1>2 DEF Reason, GateInv, TypeOK, RunInv, Proposing
  <2>4. run'[r].result = result /\ \A p \in Runs \ {r} : run'[p] = run[p]
    BY <2>1, <2>2, <2>3 DEF GateInv, TypeOK, Run
  <2> DEFINE place == IF result.skip THEN "commit" ELSE "validate"
  <2>5. place \in Places /\ (place \in Cleared => result = Skipped)
    BY <2>2 DEF Places, Cleared
  <2>6. place \in Cleared => Grounded(r)'
    BY <2>4, <2>5, NothingClaimed DEF Grounded
  <2> HIDE DEF place
  <2>7. GoTo(r, place)
    BY <2>1 DEF place
  <2> QED
    BY <2>3, <2>4, <2>5, <2>6, <2>7, GroundEarly
<1>3. ASSUME NEW r \in Runs, Gather(r) PROVE GroundInv'
  <2>1. "reason" \in Places \ Cleared /\ pc[r] \notin Cleared \union Ended
    BY <1>3 DEF Gather, Places, Cleared, Ended
  <2>2. r \notin posted \union Proposing
    BY <2>1 DEF GroundInv
  <2> QED
    BY <1>3, <2>1, <2>2, GroundOwn DEF Gather, Proposing
<1>4. ASSUME NEW r \in Runs, Validate(r) PROVE GroundInv'
  <2>1. "gate" \in Places \intersect Cleared
    BY DEF Places, Cleared
  <2> QED
    BY <1>4, <2>1, GroundOwn DEF Validate, Proposing
<1>5. ASSUME NEW r \in Runs, GateWrites(r) \/ PostCard(r) \/ Deliver(r) PROVE GroundInv'
  <2>1. PICK place \in {"post", "deliver", "commit"} : GoTo(r, place)
    BY <1>5 DEF GateWrites, PostCard, Deliver
  <2>2. pc[r] \in Cleared /\ place \in Places \intersect Cleared
    BY <1>5 DEF GateWrites, PostCard, Deliver, Places, Cleared
  <2>3. run' = run /\ Proposing' = Proposing /\ posted' \subseteq posted \union {r}
    BY <1>5 DEF GateWrites, PostCard, Deliver, Proposing
  <2> QED
    BY <2>1, <2>2, <2>3, GroundOwn
<1>6. ASSUME NEW r \in Runs,
             GatherFails(r) \/ ReasonFails(r) \/ Ungrounded(r) \/ PostCrashes(r)
               \/ Commit(r) \/ Lose(r)
      PROVE  GroundInv'
  <2>1. PICK place \in Ended : GoTo(r, place)
    BY <1>6 DEF GatherFails, ReasonFails, Ungrounded, PostCrashes, Commit, Lose,
       RecordFailure, Ended
  <2>2. place \in Places \ Cleared
    BY DEF Places, Ended, Cleared
  <2>3. run' = run /\ posted' \subseteq posted \union {r}
        /\ approvals' \subseteq approvals \union Proposed(r)
    BY <1>6 DEF GatherFails, ReasonFails, Ungrounded, PostCrashes, Commit, Lose,
       RecordFailure
  <2>4. Proposing' \subseteq Proposing \union {r}
    BY <2>3 DEF Proposing, Proposed
  <2>5. r \in posted' \union Proposing' => r \in posted \union Proposing \/ pc[r] \in Cleared
    BY <1>6 DEF GatherFails, ReasonFails, Ungrounded, PostCrashes, Commit, Lose,
       RecordFailure, Cleared, Proposing
  <2> QED
    BY <2>1, <2>2, <2>3, <2>4, <2>5, GroundOwn
<1>7. CASE (\E c \in Ceilings : SetCeiling(c)) \/ UNCHANGED vars
  BY <1>7 DEF SetCeiling, vars, GroundInv, Grounded, TaskOf, Proposing
<1> QED
  BY <1>1, <1>2, <1>3, <1>4, <1>5, <1>6, <1>7 DEF Next

(* The entries of a list that are not b are of the rest.                   *)
LEMMA OneOrOther ==
  ASSUME NEW A, NEW b, NEW s \in Seq(A \union {b}), NEW i \in DOMAIN s, s[i] # b
  PROVE  s[i] \in A
OBVIOUS

(* What the check lets pass: every claim cites evidence of the run only,   *)
(* or nothing, and enough of them cite.                                    *)
LEMMA ValidatedMeans ==
  ASSUME NEW raw \in Seq((SUBSET Refs) \union {Malformed}), Validated(ParseClaims(raw))
  PROVE  LET claims == ParseClaims(raw)
             cited == {i \in DOMAIN claims : claims[i] # {}}
         IN /\ \A i \in DOMAIN claims : claims[i] \subseteq {"seen"}
            /\ Cardinality(cited) * Den >= Num * Cardinality(DOMAIN claims)
<1> DEFINE claims == ParseClaims(raw)
           cited == {i \in DOMAIN claims : claims[i] # {}}
<1>1. \A i \in DOMAIN claims : claims[i] \in SUBSET Refs
  <2>1. \A i \in DOMAIN claims :
          i \in DOMAIN raw /\ raw[i] # Malformed /\ claims[i] = raw[i]
    BY DEF ParseClaims, Restrict
  <2> QED
    BY <2>1, OneOrOther
<1> HIDE DEF claims
<1>2. \A i \in DOMAIN claims : "invented" \notin claims[i]
  BY DEF Validated, Inspect, claims
<1>3. \A i \in DOMAIN claims : claims[i] \subseteq {"seen"}
  BY <1>1, <1>2 DEF Refs
<1>4. cited = Inspect(claims).grounded
  BY <1>3 DEF Inspect
<1>5. Cardinality(Inspect(claims).grounded) * Den >= Num * Cardinality(DOMAIN claims)
  BY DEF Validated, claims
<1>6. Cardinality(cited) * Den >= Num * Cardinality(DOMAIN claims)
  BY ONLY <1>4, <1>5, Zenon
<1> QED
  BY <1>3, <1>6 DEF claims

(* _validate_grounding stands before the approvals and the card: whichever *)
(* step fails afterwards, the runs with either made no claim that cites    *)
(* something invented, and enough of theirs cite.                          *)
THEOREM OnlyGroundedPublished == Spec => []PublishedIsGrounded
<1>1. GateInv /\ GroundInv => PublishedIsGrounded
  <2> SUFFICES ASSUME GateInv, GroundInv, NEW r \in posted \union Proposing, TaskOf(r).cites
               PROVE  LET claims == ParseClaims(run[r].result.claims)
                          cited == {i \in DOMAIN claims : claims[i] # {}}
                      IN /\ \A i \in DOMAIN claims : claims[i] \subseteq {"seen"}
                         /\ Cardinality(cited) * Den >= Num * Cardinality(DOMAIN claims)
    BY DEF PublishedIsGrounded
  <2>1. r \in Runs /\ Grounded(r) /\ pc[r] # "idle"
    BY DEF GateInv, TypeOK, GroundInv, Cleared, Ended, Proposing
  <2>2. run[r] \in Run
    BY <2>1 DEF GateInv, TypeOK, RunInv
  <2>3. run[r].result.claims \in Answers \union {<<>>, <<{"seen"}>>}
    BY <2>2 DEF Run, Result
  <2>4. {"seen"} \in (SUBSET Refs) \union {Malformed}
    BY DEF Refs
  <2>5. <<>> \in Seq((SUBSET Refs) \union {Malformed})
        /\ <<{"seen"}>> \in Seq((SUBSET Refs) \union {Malformed})
    BY <2>4
  <2>6. run[r].result.claims \in Seq((SUBSET Refs) \union {Malformed})
    BY <2>3, <2>5, RunnerConstants
  <2>7. Validated(ParseClaims(run[r].result.claims))
    BY <2>1 DEF Grounded
  <2> QED
    BY <2>6, <2>7, ValidatedMeans
<1> QED
  BY <1>1, Inductive, GroundInit, GroundStep, PTL DEF Spec
==============================================================================
