------------------------------- MODULE AgentRun -------------------------------
(***************************************************************************)
(* The agent runner and the catalog of tasks it runs.  A run gathers       *)
(* evidence, asks the model, has its claims checked against the evidence,  *)
(* turns proposals into approvals and posts a card, all in the transaction *)
(* of its caller; the engagement's autonomy ceiling is read when it begins *)
(* and may be changed while it works.                                      *)
(***************************************************************************)
EXTENDS Integers, Sequences, FiniteSets, SequencesExt

CONSTANTS
  Runs,
  Offered,       \* names of the tasks that are run
  Bindings,      \* sources the engagement has configured besides Jira
  Outages,       \* the sets of sources that may be down
  Answers,       \* the claims a model may answer with, as sequences
  Num, Den,      \* grounding_min_citation_ratio
  Ceilings,      \* the ceilings people set
  MaxChanges, MaxFaults,    \* bounds
  Nobody

Sources == {"jira", "github", "workbook"}
Levels == 1..4

(* What a claim or a proposal cites: evidence the task was given, or what  *)
(* is not in it.  A malformed entry of the model's list is no object, or   *)
(* has no text.                                                            *)
Refs == {"seen", "invented"}
Malformed == {"malformed"}

ASSUME RunnerConstants ==
  /\ Bindings \subseteq Sources /\ Outages \subseteq SUBSET Sources
  /\ Answers \subseteq Seq((SUBSET Refs) \union {Malformed})
  /\ Num \in Nat /\ Den \in Nat \ {0} /\ Num <= Den
  /\ Ceilings \subseteq Levels /\ MaxChanges \in Nat /\ MaxFaults \in Nat

----------------------------------------------------------------------------
(* The catalog.  reads: sources without which it fails; ifBound: the same, *)
(* if the engagement has one; prior: what the service supplies, without    *)
(* which it skips; skips: it may find nothing to do; claims: whose words   *)
(* they are; posts: its card may go to the channel; yields: what a result  *)
(* may carry: a card, proposed writes, known by what they cite, messages.  *)

Yield(card, writes, nudges) == [card |-> card, writes |-> writes, nudges |-> nudges]
Bare == Yield(FALSE, {}, FALSE)

(* What AgentTask declares unless a task says otherwise.                   *)
Draft == [level |-> 2, reads |-> {"jira"}, ifBound |-> {}, prior |-> FALSE,
          skips |-> FALSE, claims |-> "model", cites |-> TRUE, posts |-> FALSE,
          yields |-> {Bare}]

Standup == [Draft EXCEPT !.level = 3, !.skips = TRUE, !.posts = TRUE,
                         !.yields = {Yield(TRUE, {}, FALSE)}]

MorningSprintPlan == [Standup EXCEPT !.ifBound = {"workbook"}]

EodSummary == [Standup EXCEPT !.ifBound = {"github"}]

RaidGapScan ==
  [Draft EXCEPT !.level = 3, !.ifBound = {"workbook"}, !.claims = "evidence",
                !.posts = TRUE, !.yields = {Yield(TRUE, {"seen"}, FALSE), Bare}]

BlockerRiskPromotion ==
  [Draft EXCEPT !.skips = TRUE, !.claims = "evidence",
                !.yields = {Yield(TRUE, writes, FALSE) : writes \in SUBSET {"seen"}}]

(* The claims are the envelope's own lines; a proposal cites what the model*)
(* says it does.                                                           *)
MeetingOutcomeIntake ==
  [Draft EXCEPT !.prior = TRUE, !.skips = TRUE, !.claims = "evidence",
                !.yields = {Yield(FALSE, writes, FALSE) : writes \in SUBSET Refs}]

ActionItemTracking ==
  [Draft EXCEPT !.level = 4, !.reads = {}, !.prior = TRUE, !.skips = TRUE,
                !.claims = "none", !.cites = FALSE, !.posts = TRUE,
                !.yields = {Yield(card, {}, nudges) : card, nudges \in BOOLEAN}]

WeeklyClientStatus == [Draft EXCEPT !.ifBound = {"github", "workbook"}]

SprintPlanningPrep == Draft

Catalog ==
  [morning_sprint_plan |-> MorningSprintPlan, eod_summary |-> EodSummary,
   raid_gap_scan |-> RaidGapScan, meeting_outcome_intake |-> MeetingOutcomeIntake,
   action_item_tracking |-> ActionItemTracking,
   blocker_risk_promotion |-> BlockerRiskPromotion,
   weekly_client_status |-> WeeklyClientStatus,
   sprint_planning_prep |-> SprintPlanningPrep]

ASSUME OfferedConstants == Offered \subseteq DOMAIN Catalog

Result == [skip : BOOLEAN, claims : Answers \union {<<>>, <<{"seen"}>>},
           yield : [card : BOOLEAN, writes : SUBSET Refs, nudges : BOOLEAN]]
Skipped == [skip |-> TRUE, claims |-> <<>>, yield |-> Bare]

(* level: the effective one, of the ceiling number epoch; wired: called by *)
(* the task's own service; muted: with post_to_channel false.              *)
Run == [task : Offered, level : Levels, epoch : 1..(MaxChanges + 1),
        wired : BOOLEAN, muted : BOOLEAN, result : Result]

ASSUME NobodyRuns == Nobody \notin Run

VARIABLES
  ceilings,    \* autonomy_ceiling: its values so far, the current one last
  down,        \* the sources that fail
  pc, run,
  audit,       \* agent_runs, committed: [Runs -> how it ended, or "none"]
  approvals,   \* in the queue: <<run, what it cites>>
  posted,      \* runs whose card the channel received
  told,        \* runs after which direct messages were sent
  faults

world == <<ceilings, down>>
vars == <<ceilings, down, pc, run, audit, approvals, posted, told, faults>>

Ended == {"done", "failed", "lost"}
Places == {"idle", "gather", "reason", "validate", "gate", "post", "deliver", "commit"}
            \union Ended

Init ==
  /\ \E c \in Ceilings : ceilings = <<c>>
  /\ down \in Outages
  /\ pc = [r \in Runs |-> "idle"] /\ run = [r \in Runs |-> Nobody]
  /\ audit = [r \in Runs |-> "none"]
  /\ approvals = {} /\ posted = {} /\ told = {} /\ faults = 0

TaskOf(r) == Catalog[run[r].task]
GoTo(r, place) == pc' = [pc EXCEPT ![r] = place]

----------------------------------------------------------------------------
(* Autonomy and grounding.                                                 *)

(* Mutant: the ceiling is not looked at.                                   *)
Declared(level, ceiling) == level

EffectiveAutonomy(level, ceiling) == IF ceiling < level THEN ceiling ELSE level

MayWriteExternally(level) == level >= 3

(* parse_claims: what is malformed is left out of the claims, each of which*)
(* goes by its position in the list.                                       *)
ParseClaims(raw) == Restrict(raw, {i \in DOMAIN raw : raw[i] # Malformed})

Inspect(claims) ==
  [unsupported |-> {i \in DOMAIN claims : claims[i] = {}},
   fabricated |-> {i \in DOMAIN claims : "invented" \in claims[i]},
   grounded |-> {i \in DOMAIN claims : claims[i] = {"seen"}}]

(* Mutant: an invented citation is one that lacks, no more.                *)
RatioOnly(claims) ==
  Cardinality(Inspect(claims).grounded) * Den >= Num * Cardinality(DOMAIN claims)

Validated(claims) ==
  /\ Inspect(claims).fabricated = {}
  /\ Cardinality(Inspect(claims).grounded) * Den >= Num * Cardinality(DOMAIN claims)

----------------------------------------------------------------------------
(* The steps of a run.                                                     *)

(* The level is that of the engagement row the caller has loaded: a run    *)
(* begins when it is, and what is set before the runner looks comes late.  *)
Begin(r) ==
  /\ pc[r] = "idle" /\ GoTo(r, "gather")
  /\ \E t \in Offered, wired \in BOOLEAN, muted \in BOOLEAN :
       /\ wired \/ Catalog[t].prior
       /\ muted => Catalog[t].posts
       /\ run' = [run EXCEPT ![r] =
            [task |-> t, wired |-> wired, muted |-> muted, epoch |-> Len(ceilings),
             level |-> EffectiveAutonomy(Catalog[t].level, Last(ceilings)),
             result |-> Skipped]]
  /\ UNCHANGED <<world, audit, approvals, posted, told, faults>>

(* _record_failure: whatever the caller's transaction had is rolled back,  *)
(* and a FAILED row committed by itself.                                   *)
RecordFailure(r) ==
  /\ audit' = [audit EXCEPT ![r] = "failed"]
  /\ GoTo(r, "failed")
  /\ UNCHANGED <<world, run, approvals, posted, told>>

Supplied(r) == run[r].wired \/ ~TaskOf(r).prior

Reads(r) ==
  IF TaskOf(r).prior /\ ~Supplied(r) THEN {}
  ELSE TaskOf(r).reads \union (TaskOf(r).ifBound \intersect Bindings)

Gather(r) ==
  /\ pc[r] = "gather" /\ Reads(r) \intersect down = {}
  /\ GoTo(r, "reason")
  /\ UNCHANGED <<world, run, audit, approvals, posted, told, faults>>

GatherFails(r) ==
  /\ pc[r] = "gather" /\ Reads(r) \intersect down # {}
  /\ RecordFailure(r) /\ UNCHANGED faults

ClaimsOf(task) ==
  CASE task.claims = "model" -> Answers
    [] task.claims = "evidence" -> {<<>>, <<{"seen"}>>}
    [] task.claims = "none" -> {<<>>}

Results(r) ==
  LET task == TaskOf(r)
  IN IF ~Supplied(r) THEN {Skipped}
     ELSE {result \in Result :
             \/ result = Skipped /\ task.skips
             \/ /\ ~result.skip /\ result.claims \in ClaimsOf(task)
                /\ result.yield \in task.yields}

(* A skipped run ends here, without approvals or a card.                   *)
Reason(r) ==
  /\ pc[r] = "reason"
  /\ \E result \in Results(r) :
       /\ run' = [run EXCEPT ![r].result = result]
       /\ GoTo(r, IF result.skip THEN "commit" ELSE "validate")
  /\ UNCHANGED <<world, audit, approvals, posted, told, faults>>

(* What the service supplied does not parse; the model does not answer, or *)
(* not with what the schema asks.                                          *)
ReasonFails(r) ==
  /\ pc[r] \in {"gather", "reason"} /\ faults < MaxFaults /\ faults' = faults + 1
  /\ RecordFailure(r)

Grounded(r) == TaskOf(r).cites => Validated(ParseClaims(run[r].result.claims))

Validate(r) ==
  /\ pc[r] = "validate" /\ Grounded(r) /\ GoTo(r, "gate")
  /\ UNCHANGED <<world, run, audit, approvals, posted, told, faults>>

Ungrounded(r) ==
  /\ pc[r] = "validate" /\ ~Grounded(r)
  /\ RecordFailure(r) /\ UNCHANGED faults

(* Proposals become approvals of the transaction, with what they cite; no  *)
(* task of the catalog that executes its writes itself proposes any.       *)
Proposed(r) == {r} \X run[r].result.yield.writes

GateWrites(r) ==
  /\ pc[r] = "gate" /\ GoTo(r, "post")
  /\ UNCHANGED <<world, run, audit, approvals, posted, told, faults>>

MayPost(r) ==
  /\ run[r].result.yield.card /\ TaskOf(r).posts
  /\ MayWriteExternally(run[r].level)
  /\ ~run[r].muted

(* Mutant: the approvals were committed before the card was posted.        *)
PostAfterCommit(r) ==
  /\ pc[r] = "post" /\ GoTo(r, "deliver")
  /\ \/ posted' = IF MayPost(r) THEN posted \union {r} ELSE posted
     \/ MayPost(r) /\ UNCHANGED posted
  /\ approvals' = approvals \union Proposed(r)
  /\ UNCHANGED <<world, run, audit, told, faults>>

(* The channel may refuse the card: the run succeeds all the same.         *)
PostCard(r) ==
  /\ pc[r] = "post" /\ GoTo(r, "deliver")
  /\ \/ posted' = IF MayPost(r) THEN posted \union {r} ELSE posted
     \/ MayPost(r) /\ UNCHANGED posted
  /\ UNCHANGED <<world, run, audit, approvals, told, faults>>

(* Any other exception than the channel's own, with the card out or not.   *)
PostCrashes(r) ==
  /\ pc[r] = "post" /\ MayPost(r) /\ faults < MaxFaults
  /\ posted' \in {posted, posted \union {r}}
  /\ faults' = faults + 1
  /\ audit' = [audit EXCEPT ![r] = "failed"]
  /\ GoTo(r, "failed")
  /\ UNCHANGED <<world, run, approvals, told>>

(* Back in the service: the nudge sweep sends its messages, as far as the  *)
(* owners can be reached.                                                  *)
Deliver(r) ==
  /\ pc[r] = "deliver" /\ GoTo(r, "commit")
  /\ \/ UNCHANGED told
     \/ run[r].result.yield.nudges /\ told' = told \union {r}
  /\ UNCHANGED <<world, run, audit, approvals, posted, faults>>

Commit(r) ==
  /\ pc[r] = "commit" /\ GoTo(r, "done")
  /\ audit' = [audit EXCEPT ![r] = IF run[r].result.skip THEN "skipped" ELSE "success"]
  /\ approvals' = approvals \union Proposed(r)
  /\ UNCHANGED <<world, run, posted, told, faults>>

(* The service raises after the run, the process dies, the connection is   *)
(* lost: all of the transaction is rolled back, the audit row included.    *)
Lose(r) ==
  /\ pc[r] \notin {"idle"} \union Ended
  /\ faults < MaxFaults /\ faults' = faults + 1
  /\ GoTo(r, "lost")
  /\ UNCHANGED <<world, run, audit, approvals, posted, told>>

(* An administrator edits the engagement.                                  *)
SetCeiling(c) ==
  /\ Len(ceilings) <= MaxChanges /\ c # Last(ceilings)
  /\ ceilings' = Append(ceilings, c)
  /\ UNCHANGED <<down, pc, run, audit, approvals, posted, told, faults>>

Next ==
  \/ \E r \in Runs :
       \/ Begin(r) \/ Gather(r) \/ GatherFails(r) \/ Reason(r) \/ ReasonFails(r)
       \/ Validate(r) \/ Ungrounded(r) \/ GateWrites(r) \/ PostCard(r)
       \/ PostCrashes(r) \/ Deliver(r) \/ Commit(r) \/ Lose(r)
  \/ \E c \in Ceilings : SetCeiling(c)

Spec == Init /\ [][Next]_vars

----------------------------------------------------------------------------
(* Properties.                                                             *)

TypeOK ==
  /\ ceilings \in Seq(Ceilings) /\ Len(ceilings) \in 1..(MaxChanges + 1)
  /\ down \in Outages
  /\ pc \in [Runs -> Places] /\ run \in [Runs -> Run \union {Nobody}]
  /\ audit \in [Runs -> {"none", "skipped", "success", "failed"}]
  /\ approvals \subseteq Runs \X Refs /\ posted \subseteq Runs /\ told \subseteq Runs
  /\ faults \in 0..MaxFaults

(* A card is in the channel only if the task and the ceiling that held when*)
(* the run began both allowed it: a ceiling that is lowered withholds every*)
(* card but those of runs that were under way.                             *)
CardsRespectCeiling ==
  \A r \in posted :
    /\ TaskOf(r).level >= 3 /\ ceilings[run[r].epoch] >= 3
    /\ ~run[r].muted

(* Whichever step fails afterwards, a card is in the channel and approvals *)
(* are in the queue only of runs whose claims cite nothing invented, and   *)
(* enough of them something.                                               *)
Proposing == {a[1] : a \in approvals}

PublishedIsGrounded ==
  \A r \in posted \union Proposing : TaskOf(r).cites =>
    LET claims == ParseClaims(run[r].result.claims)
        cited == {i \in DOMAIN claims : claims[i] # {}}
    IN /\ \A i \in DOMAIN claims : claims[i] \subseteq {"seen"}
       /\ Cardinality(cited) * Den >= Num * Cardinality(DOMAIN claims)

(* The queue holds what a run proposed exactly if its audit row says that  *)
(* it succeeded: a run that failed at its very last step proposed nothing. *)
ApprovalsHaveTheirRun ==
  approvals = UNION {Proposed(r) : r \in {p \in Runs : audit[p] = "success"}}

----------------------------------------------------------------------------
(* What the repository's documents say, and the code does not keep.        *)

(* core/enums.py: "L1 and L2 must never reach an external system           *)
(* unapproved."  The gate sees proposed writes and cards; the messages of  *)
(* the nudge sweep are neither.                                            *)
NothingLeavesBelowL3 == \A r \in posted \union told : MayWriteExternally(run[r].level)

(* agents/results.py, of evidence: "The full set of references the task    *)
(* actually saw.  A citation outside this set is treated as fabricated."   *)
(* The check is of claims: what a proposal of the meeting intake cites goes*)
(* to its reviewer as the model wrote it.                                  *)
ProposalsCiteEvidence == \A a \in approvals : a[2] = "seen"
============================================================================
