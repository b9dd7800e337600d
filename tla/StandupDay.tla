----------------------------- MODULE StandupDay -----------------------------
(***************************************************************************)
(* One day of standups: the scheduler's tick and the people who generate,  *)
(* regenerate, write and delete them share one row per engagement and      *)
(* kind, kept single by a unique constraint.                               *)
(*                                                                         *)
(* Generating is check-then-act across a long call: the row is looked up,  *)
(* the agent runs and posts its card to the channel, and only then is the  *)
(* row written.  The card is outside the transaction: neither a rollback   *)
(* nor a unique violation takes it back.  The tick handles an engagement's *)
(* morning and end-of-day slots in ONE transaction.                        *)
(***************************************************************************)
EXTENDS Naturals, Sequences, FiniteSets

CONSTANTS
  PodList,       \* the active engagements, by name
  Requests,      \* requests of people, each sent once
  Tick,          \* the scheduler's tick_standups
  Nobody, NoRow,
  Jobs, Asked,   \* what people ask for, and for which slots
  Broken,        \* slots whose task fails whenever it runs, as the morning one of
                 \* an engagement whose RAID workbook cannot be read
  MaxFaults      \* bound on the other failures of tasks and on the
                 \* transactions cut short, together

Kinds == {"morning", "eod"}
Pods == {PodList[i] : i \in DOMAIN PodList}
Slots == Pods \X Kinds
Txns == Requests \union {Tick}
JobKinds == {"generate", "regenerate", "manual", "delete"}

ASSUME StandupConstants ==
  /\ PodList \in Seq(Pods)
  /\ Jobs \subseteq JobKinds /\ Asked \subseteq Slots
  /\ Broken \subseteq Slots
  /\ MaxFaults \in Nat
  /\ Tick \notin Requests /\ Nobody \notin Txns

(* Whose text the standup shows, its author_user_id, its status, and       *)
(* whether it carries citations and a grounding ratio.                     *)
Row == [id : Nat, text : Txns, author : Requests \union {Nobody},
        status : {"draft", "posted", "failed"}, cited : BOOLEAN]

Run == [by : Txns, slot : Slots, outcome : {"success", "skipped", "failed"}]

ASSUME NoRowIsNoRow == NoRow \notin Row

VARIABLES
  row,          \* [Slots -> Row \union {NoRow}]: table standups
  born,         \* rows inserted in each slot so far: the next primary key
  runs,         \* table agent_runs
  events,       \* table agent_events: the PM_EOD_SUMMARY events
  holder,       \* the transaction with an uncommitted version of the slot
  pc, todo,     \* where a transaction is; the slots it has still to handle
  job,          \* what each request asks for
  loaded,       \* the row a transaction found in the slot it handles
  result,       \* how the task ended there
  fresh,        \* its uncommitted rows
  opened,       \* its uncommitted agent_runs
  announced,    \* its uncommitted events
  pods,         \* the engagements this tick has not come to yet
  due,          \* slots whose trigger time has passed
  faults,
  posts         \* cards posted for a slot: 0, 1 or 2 (several)

dbVars == <<row, born, runs, events>>
txnVars == <<holder, todo, loaded, result, fresh, opened, announced>>
vars == <<dbVars, txnVars, pc, job, pods, due, faults, posts>>

Ended == {"done", "refused", "error", "aborted"}

Init ==
  /\ row = [s \in Slots |-> NoRow]
  /\ born = [s \in Slots |-> 0]
  /\ runs = {} /\ events = {}
  /\ holder = [s \in Slots |-> Nobody]
  /\ pc = [t \in Txns |-> "idle"]
  /\ todo = [t \in Txns |-> <<>>]
  /\ job = [r \in Requests |-> Nobody]
  /\ loaded = [t \in Txns |-> NoRow]
  /\ result = [t \in Txns |-> "none"]
  /\ fresh = [t \in Txns |-> [s \in Slots |-> NoRow]]
  /\ opened = [t \in Txns |-> {}]
  /\ announced = [t \in Txns |-> {}]
  /\ pods = <<>> /\ due = {}
  /\ faults = 0
  /\ posts = [s \in Slots |-> 0]

----------------------------------------------------------------------------
(* Transactions.                                                           *)

Slot(t) == Head(todo[t])
Looking(t) == pc[t] = "look" /\ todo[t] # <<>>
Job(t) == IF t = Tick THEN "generate" ELSE job[t]
Visible(t, s) == IF holder[s] = t THEN fresh[t][s] ELSE row[s]
GoTo(t, place) == pc' = [pc EXCEPT ![t] = place]

(* Where a transaction that failed ends: the tick logs it and goes on with *)
(* its next engagement.                                                    *)
Failed(t, place) == IF t = Tick THEN "idle" ELSE place

(* Mutant: the exception leaves the loop over the engagements.             *)
NoIsolation(t) == IF t = Tick THEN <<>> ELSE pods

StillToDo(t) == pods

Close(t) ==
  /\ holder' = [s \in Slots |-> IF holder[s] = t THEN Nobody ELSE holder[s]]
  /\ fresh' = [fresh EXCEPT ![t] = [s \in Slots |-> NoRow]]
  /\ opened' = [opened EXCEPT ![t] = {}]
  /\ announced' = [announced EXCEPT ![t] = {}]
  /\ todo' = [todo EXCEPT ![t] = <<>>]
  /\ loaded' = [loaded EXCEPT ![t] = NoRow]
  /\ result' = [result EXCEPT ![t] = "none"]

Abort(t, place) ==
  /\ Close(t)
  /\ GoTo(t, Failed(t, place))
  /\ pods' = StillToDo(t)

Commit(t) ==
  /\ pc[t] = "look" /\ todo[t] = <<>>
  /\ row' = [s \in Slots |-> Visible(t, s)]
  /\ born' = [s \in Slots |->
                IF holder[s] = t /\ row[s] = NoRow THEN born[s] + 1 ELSE born[s]]
  /\ runs' = runs \union opened[t]
  /\ events' = events \union announced[t]
  /\ Close(t)
  /\ GoTo(t, Failed(t, "done"))
  /\ UNCHANGED <<job, pods, due, faults, posts>>

----------------------------------------------------------------------------
(* Who asks.                                                               *)

Receive(r) ==
  /\ pc[r] = "idle"
  /\ \E j \in Jobs : job' = [job EXCEPT ![r] = j]
  /\ \E s \in Asked : todo' = [todo EXCEPT ![r] = <<s>>]
  /\ GoTo(r, "look")
  /\ UNCHANGED <<dbVars, holder, loaded, result, fresh, opened, announced, pods,
                 due, faults, posts>>

(* _for_each_active lists the engagements, then gives each its own         *)
(* transaction; the job looks at the clock once.                           *)
TickStart ==
  /\ pc[Tick] = "idle" /\ pods = <<>>
  /\ pods' = PodList
  /\ UNCHANGED <<dbVars, txnVars, pc, job, due, faults, posts>>

(* A slot is passed over until its trigger time.                           *)
IfDue(s) == IF s \in due THEN <<s>> ELSE <<>>

TickPod ==
  /\ pc[Tick] = "idle" /\ pods # <<>>
  /\ pods' = Tail(pods)
  /\ todo' = [todo EXCEPT ![Tick] =
       IfDue(<<Head(pods), "morning">>) \o IfDue(<<Head(pods), "eod">>)]
  /\ GoTo(Tick, "look")
  /\ UNCHANGED <<dbVars, holder, job, loaded, result, fresh, opened, announced,
                 due, faults, posts>>

----------------------------------------------------------------------------
(* StandupService.                                                         *)

(* Mutant: the tick regenerates what is there.                             *)
AlwaysGenerate(t) == TRUE

MustRun(t) == Visible(t, Slot(t)) = NoRow \/ Job(t) = "regenerate"

(* generate: the row exists and force_regenerate is not set.               *)
AlreadyThere(t) ==
  /\ Looking(t) /\ Job(t) \in {"generate", "regenerate"}
  /\ ~MustRun(t)
  /\ todo' = [todo EXCEPT ![t] = Tail(@)]
  /\ UNCHANGED <<dbVars, holder, pc, job, loaded, result, fresh, opened, announced,
                 pods, due, faults, posts>>

Look(t, place) ==
  /\ loaded' = [loaded EXCEPT ![t] = Visible(t, Slot(t))]
  /\ GoTo(t, place)
  /\ UNCHANGED <<dbVars, holder, todo, job, result, fresh, opened, announced,
                 pods, due, faults, posts>>

StartRun(t) ==
  /\ Looking(t) /\ Job(t) \in {"generate", "regenerate"}
  /\ MustRun(t)
  /\ Look(t, "run")

StartManual(t) ==
  /\ Looking(t) /\ Job(t) = "manual"
  /\ Look(t, "write")

StartDelete(t) ==
  /\ Looking(t) /\ Job(t) = "delete" /\ Visible(t, Slot(t)) # NoRow
  /\ Look(t, "write")

DeleteMissing(t) ==
  /\ Looking(t) /\ Job(t) = "delete"
  /\ Visible(t, Slot(t)) = NoRow
  /\ Abort(t, "refused")
  /\ UNCHANGED <<dbVars, job, due, faults, posts>>

----------------------------------------------------------------------------
(* AgentRunner.run.                                                        *)

(* The sources of the task can be read.                                    *)
Gathers(s) == s \notin Broken

(* gather, reason or the grounding check raises: _record_failure rolls the *)
(* whole session back and commits a FAILED run of its own.                 *)
FailRun(t) ==
  LET s == Slot(t)
  IN /\ pc[t] = "run"
     /\ IF ~Gathers(s) THEN UNCHANGED faults
                       ELSE faults < MaxFaults /\ faults' = faults + 1
     /\ runs' = runs \union {[by |-> t, slot |-> s, outcome |-> "failed"]}
     /\ Abort(t, "error")
     /\ UNCHANGED <<row, born, events, job, due, posts>>

(* The task had nothing to say.                                            *)
SkipRun(t) ==
  LET s == Slot(t)
  IN /\ pc[t] = "run" /\ Gathers(s)
     /\ opened' = [opened EXCEPT ![t] =
          @ \union {[by |-> t, slot |-> s, outcome |-> "skipped"]}]
     /\ result' = [result EXCEPT ![t] = "skipped"]
     /\ GoTo(t, "write")
     /\ UNCHANGED <<dbVars, holder, todo, job, loaded, fresh, announced, pods, due,
                    faults, posts>>

(* post_card: the card may be withheld (autonomy, post_to_channel), and a  *)
(* call that fails, which the runner tolerates, may have posted it.        *)
PostRun(t) ==
  LET s == Slot(t)
  IN /\ pc[t] = "run" /\ Gathers(s)
     /\ \E delivered, reported \in BOOLEAN :
          /\ reported => delivered
          /\ posts' = [posts EXCEPT ![s] = IF delivered /\ @ < 2 THEN @ + 1 ELSE @]
          /\ result' = [result EXCEPT ![t] = IF reported THEN "posted" ELSE "draft"]
     /\ opened' = [opened EXCEPT ![t] =
          @ \union {[by |-> t, slot |-> s, outcome |-> "success"]}]
     /\ GoTo(t, "write")
     /\ UNCHANGED <<dbVars, holder, todo, job, loaded, fresh, announced, pods, due,
                    faults>>

----------------------------------------------------------------------------
(* The flush.                                                              *)

Blank(t) == [id |-> 0, text |-> t, author |-> Nobody, status |-> "draft",
             cited |-> FALSE]

(* What the service sets on the object it loaded, or on a new one.         *)
Assign(t, old) ==
  CASE Job(t) = "manual" ->
         [old EXCEPT !.text = t, !.author = t, !.status = "posted", !.cited = FALSE]
    [] result[t] = "skipped" -> [old EXCEPT !.text = t, !.status = "failed"]
    [] OTHER -> [old EXCEPT !.text = t, !.status = result[t], !.cited = TRUE]

(* An UPDATE carries only the columns whose value differs from what was    *)
(* loaded; the others keep what the row holds by now.                      *)
Merge(old, new, now) ==
  [f \in DOMAIN now |-> IF new[f] # old[f] THEN new[f] ELSE now[f]]

(* Mutant: only a posted summary is announced.                             *)
AnnouncePosted(t) ==
  /\ Slot(t)[2] = "eod" /\ Job(t) # "manual" /\ result[t] = "posted"

(* An event is emitted for an end-of-day summary that was not skipped.     *)
Announces(t) ==
  /\ Slot(t)[2] = "eod" /\ Job(t) # "manual" /\ result[t] # "skipped"

(* The row t loaded is still in the table, rewritten or not.               *)
StillThere(t) == row[Slot(t)] # NoRow /\ row[Slot(t)].id = loaded[t].id

Emit(t, s) ==
  announced' = [announced EXCEPT ![t] =
    IF Job(t) # "delete" /\ Announces(t) THEN @ \union {<<t, s>>} ELSE @]

Written(t, s, version) ==
  /\ holder[s] \in {Nobody, t}
  /\ holder' = [holder EXCEPT ![s] = t]
  /\ fresh' = [fresh EXCEPT ![t][s] = version]
  /\ Emit(t, s)
  /\ todo' = [todo EXCEPT ![t] = Tail(@)]
  /\ GoTo(t, "look")
  /\ UNCHANGED <<dbVars, job, loaded, result, opened, pods, due, faults,
                 posts>>

Insert(t) ==
  LET s == Slot(t)
  IN /\ pc[t] = "write" /\ Job(t) # "delete"
     /\ loaded[t] = NoRow /\ row[s] = NoRow
     /\ Written(t, s, [Assign(t, Blank(t)) EXCEPT !.id = born[s] + 1])

Update(t) ==
  LET s == Slot(t)
  IN /\ pc[t] = "write" /\ Job(t) # "delete"
     /\ loaded[t] # NoRow /\ StillThere(t)
     /\ Written(t, s, Merge(loaded[t], Assign(t, loaded[t]), row[s]))

(* Mutant: the audit of a run that could not be stored is kept.            *)
AuditSurvives(t) ==
  LET s == Slot(t)
  IN /\ pc[t] = "write" /\ Job(t) # "delete" /\ holder[s] \in {Nobody, t}
     /\ loaded[t] = NoRow /\ row[s] # NoRow
     /\ runs' = runs \union opened[t]
     /\ Abort(t, "error")
     /\ UNCHANGED <<row, born, events, job, due, faults, posts>>

(* The unique constraint refuses the INSERT; an UPDATE of a row that is    *)
(* gone is a StaleDataError.  Neither is caught.                           *)
WriteConflict(t) ==
  LET s == Slot(t)
  IN /\ pc[t] = "write" /\ Job(t) # "delete" /\ holder[s] \in {Nobody, t}
     /\ IF loaded[t] = NoRow
          THEN row[s] # NoRow
          ELSE ~StillThere(t)
     /\ Abort(t, "error")
     /\ UNCHANGED <<dbVars, job, due, faults, posts>>

(* A DELETE is by primary key and does not mind finding nothing.           *)
Delete(t) ==
  LET s == Slot(t)
  IN /\ pc[t] = "write" /\ Job(t) = "delete"
     /\ Written(t, s, IF StillThere(t) THEN NoRow ELSE row[s])

----------------------------------------------------------------------------
(* The connection drops, or the process dies and the tick with it.         *)
Crash(t) ==
  /\ pc[t] \in {"look", "run", "write"} /\ todo[t] # <<>>
  /\ faults < MaxFaults
  /\ faults' = faults + 1
  /\ Close(t)
  /\ GoTo(t, Failed(t, "aborted"))
  /\ pods' \in {pods, IF t = Tick THEN <<>> ELSE pods}
  /\ UNCHANGED <<dbVars, job, due, posts>>

(* A slot's trigger time passes.                                           *)
Trigger(s) ==
  /\ s \notin due
  /\ due' = due \union {s}
  /\ UNCHANGED <<dbVars, txnVars, pc, job, pods, faults, posts>>

Handle(t) ==
  \/ AlreadyThere(t) \/ StartRun(t) \/ StartManual(t) \/ StartDelete(t)
  \/ DeleteMissing(t)
  \/ FailRun(t) \/ SkipRun(t) \/ PostRun(t)
  \/ Insert(t) \/ Update(t) \/ WriteConflict(t) \/ Delete(t)
  \/ Commit(t)

TickStep == TickStart \/ TickPod \/ Handle(Tick)

Next ==
  \/ \E r \in Requests : Receive(r) \/ Handle(r)
  \/ TickStep
  \/ \E t \in Txns : Crash(t)
  \/ \E s \in Slots : Trigger(s)

Spec == Init /\ [][Next]_vars

(* The worker keeps ticking, and a request that arrived keeps running.     *)
Fairness ==
  /\ WF_vars(TickStep)
  /\ \A r \in Requests : WF_vars(Handle(r))

FairSpec == Spec /\ Fairness

----------------------------------------------------------------------------
(* Properties.                                                             *)

TypeOK ==
  /\ row \in [Slots -> Row \union {NoRow}]
  /\ born \in [Slots -> Nat]
  /\ runs \subseteq Run
  /\ events \subseteq Txns \X Slots
  /\ holder \in [Slots -> Txns \union {Nobody}]
  /\ pc \in [Txns -> {"idle", "look", "run", "write"} \union Ended]
  /\ todo \in [Txns -> Seq(Slots)]
  /\ job \in [Requests -> Jobs \union {Nobody}]
  /\ loaded \in [Txns -> Row \union {NoRow}]
  /\ result \in [Txns -> {"none", "posted", "draft", "skipped"}]
  /\ fresh \in [Txns -> [Slots -> Row \union {NoRow}]]
  /\ opened \in [Txns -> SUBSET Run]
  /\ announced \in [Txns -> SUBSET (Txns \X Slots)]
  /\ pods \in Seq(Pods) /\ due \subseteq Slots
  /\ faults \in 0..MaxFaults
  /\ posts \in [Slots -> 0..2]

(* A text that is in the table is replaced by that of a generation only if *)
(* somebody asked to regenerate it: the tick and a plain generate lose the *)
(* race for the slot, however late they come to write.                     *)
OnlyForcedOverwrites ==
  [][\A s \in Slots :
       row[s] # NoRow /\ row'[s] # NoRow /\ row'[s].text # row[s].text
         => Job(row'[s].text) \in {"regenerate", "manual"}]_vars

(* agent_runs tells the truth, whatever races, fails or crashes.  A success*)
(* is there only together with what it generated: the slot was filled, and *)
(* an end-of-day summary has its event; no event announces a summary that  *)
(* was rolled back; a failure leaves a FAILED run and no row, a lost race  *)
(* neither.                                                                *)
AuditIsTrue ==
  /\ \A run \in runs : run.outcome = "success" =>
       /\ born[run.slot] > 0
       /\ run.slot[2] = "eod" => <<run.by, run.slot>> \in events
  /\ \A e \in events : [by |-> e[1], slot |-> e[2], outcome |-> "success"] \in runs
  /\ \A r \in Requests : pc[r] \in {"error", "refused", "aborted"} =>
       /\ \A run \in runs : run.by = r => run.outcome = "failed"
       /\ \A s \in Slots : row[s] # NoRow => row[s].text # r

(* However many people and ticks generate a slot at once, each plain       *)
(* generation whose audit says success inserted a row of its own: one that *)
(* found the slot taken returned early, one that lost the race is gone.    *)
EachGenerationInserts ==
  \A s \in Slots :
    Cardinality({run \in runs : /\ run.slot = s /\ run.outcome = "success"
                                /\ Job(run.by) = "generate"}) <= born[s]

(* One pod's failure does not keep another pod's standups from being       *)
(* there: jobs.py, "each engagement gets its own session and transaction". *)
Healthy(s) == \A k \in Kinds : Gathers(<<s[1], k>>)

HealthyPodsGetTheirs ==
  \A s \in Slots : Healthy(s) => (s \in due ~> row[s] # NoRow)

----------------------------------------------------------------------------
(* What the repository's comments say, and the code does not keep.         *)

(* jobs.py: "standup generation is idempotent on (engagement, kind, date), *)
(* so a tick that fires twice cannot double-post".                         *)
TicksPostOnce == \A s \in Slots : posts[s] < 2
============================================================================
