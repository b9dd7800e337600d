------------------------------ MODULE RaidWatch ------------------------------
(***************************************************************************)
(* The two daily tasks that watch Jira's blockers: the gap scan proposes a *)
(* RAID row for every blocker the RAID log does not know, the promotion    *)
(* for every old one.  A job starts each task once per working day in the  *)
(* engagement's own time zone, people may start them too; what they        *)
(* propose waits for a decision while days pass, people edit the RAID log  *)
(* and the workbook, and Jira changes.                                     *)
(***************************************************************************)
EXTENDS Integers, Sequences, FiniteSets

CONSTANTS
  Keys,            \* Jira issues
  Day,             \* length of a day in units of time
  Post,            \* morning_post_time, in units after local midnight
  Zones,           \* offsets from the server's clock, east is positive
  WorkingDays,     \* local dates
  Age,             \* age_threshold_days, in units
  Nobody, NoKey,
  MaxTime, MaxRuns, MaxPending, MaxEdits   \* bounds
                   \* MaxPending also bounds how often one answer names a key

Tasks == {"gap", "promotion"}
Starters == {"job", "person"}

(* What a row may have for its source_ref.                                 *)
Carried == Keys \union {NoKey}

ASSUME WatchConstants ==
  /\ Day \in Nat \ {0} /\ Post \in 0..(Day - 1) /\ Zones \subseteq Int
  /\ Age \in Nat /\ MaxTime \in Nat /\ MaxRuns \in Nat /\ MaxPending \in Nat
  /\ MaxEdits \in Nat /\ NoKey \notin Keys

VARIABLES
  now,         \* the server's clock
  zone,        \* the engagement's offset
  log,         \* agent_runs: the runs that succeeded, in that order
  run,         \* [Tasks -> [Starters -> the run under way, or Nobody]]
  since,       \* [Keys -> time since which Jira has it blocked, or Never]
  byHand,      \* keys of RAID rows that people have added
  byAgent,     \* [Keys -> number of RAID rows made by approvals]
  book,        \* keys the workbook mentions
  pending,     \* [Tasks -> [Keys -> number of pending approvals]]
  executing,   \* [Carried -> number of executions that found no row for it]
  raced,       \* keys of which two executions were under way at once
  edits

register == <<byHand, byAgent, book, pending, executing, raced>>
vars == <<now, zone, log, run, since, register, edits>>

Never == -1
RunRow == [task : Tasks, start : 0..MaxTime, by : Starters]
Run == [start : 0..MaxTime, refs : SUBSET Keys]

Init ==
  /\ now = 0 /\ zone \in Zones
  /\ log = <<>> /\ run = [t \in Tasks |-> [by \in Starters |-> Nobody]]
  /\ since = [k \in Keys |-> Never]
  /\ byHand = {} /\ byAgent = [k \in Keys |-> 0] /\ book = {}
  /\ pending = [t \in Tasks |-> [k \in Keys |-> 0]]
  /\ executing = [k \in Carried |-> 0] /\ raced = {}
  /\ edits = 0

----------------------------------------------------------------------------
(* Time: everything is stored by the server's clock, a working day and the *)
(* trigger are the engagement's.                                           *)

ServerDate(time) == time \div Day
LocalDate(time) == (time + zone) \div Day
LocalTime(time) == (time + zone) % Day

(* Mutant: a success from yesterday is enough.                             *)
RanLately(t) ==
  \E i \in DOMAIN log : log[i].task = t /\ ServerDate(log[i].start) + 1 >= LocalDate(now)

(* Mutant: only a success of today's server date counts.                   *)
RanOnServerDate(t) ==
  \E i \in DOMAIN log : log[i].task = t /\ ServerDate(log[i].start) > LocalDate(now)

(* _ran_successfully_today: the last success, whoever started it.          *)
RanToday(t) ==
  \E i \in DOMAIN log : log[i].task = t /\ ServerDate(log[i].start) >= LocalDate(now)

Due(t) ==
  LocalDate(now) \in WorkingDays /\ LocalTime(now) >= Post /\ ~RanToday(t)

----------------------------------------------------------------------------
(* Runs.                                                                   *)

(* source_refs: whatever the status, a row's key counts.                   *)
Refs == byHand \union {k \in Keys : byAgent[k] > 0}

Underway == Cardinality({x \in Tasks \X Starters : run[x[1]][x[2]] # Nobody})

(* The job's runs follow each other (max_instances=1); a person's may be   *)
(* under way at the same time.                                             *)
Start(t, by, refs) ==
  /\ run[t][by] = Nobody
  /\ Len(log) + Underway < MaxRuns
  /\ run' = [run EXCEPT ![t][by] = [start |-> now, refs |-> refs]]
  /\ UNCHANGED <<now, zone, log, since, register, edits>>

JobStart(t) == Due(t) /\ Start(t, "job", Refs)

(* Through the RAID page, or from the catalog, which supplies no refs.     *)
PersonStart(t) == \E refs \in {Refs, {}} : Start(t, "person", refs)

Blockers == {k \in Keys : since[k] # Never}

Gaps(refs) == Blockers \ (refs \union book)
Promotable(refs) == {k \in Blockers : now - since[k] >= Age} \ refs

(* How often each key is proposed.  The gap scan proposes once what the    *)
(* model has worded of the gaps, or all of them in standard words when it  *)
(* has worded none; the promotion whatever the model has worded, twice if  *)
(* it names a key twice.                                                   *)
Proposals(t, refs) ==
  LET upTo(keys, n) == {f \in [Keys -> 0..n] : \A k \in Keys \ keys : f[k] = 0}
      none == [k \in Keys |-> 0]
  IN IF t = "gap"
     THEN IF Gaps(refs) = {} THEN {none} ELSE upTo(Gaps(refs), 1) \ {none}
     ELSE upTo(Promotable(refs), MaxPending)

Skips(t, refs) == t = "promotion" /\ Promotable(refs) = {}

EndRun(t, by) == run' = [run EXCEPT ![t][by] = Nobody]

(* Approvals of a key that wait or are being executed.                     *)
Waiting(k) == pending["gap"][k] + pending["promotion"][k] + executing[k]

Finish(t, by) ==
  /\ run[t][by] # Nobody /\ ~Skips(t, run[t][by].refs)
  /\ \E proposed \in Proposals(t, run[t][by].refs) :
       /\ \A k \in Keys : Waiting(k) + proposed[k] <= MaxPending
       /\ pending' = [pending EXCEPT ![t] = [k \in Keys |-> @[k] + proposed[k]]]
  /\ log' = Append(log, [task |-> t, start |-> run[t][by].start, by |-> by])
  /\ EndRun(t, by)
  /\ UNCHANGED <<now, zone, since, byHand, byAgent, book, executing, raced, edits>>

(* A run that is skipped or fails is no success: the next tick tries again.*)
Skip(t, by) ==
  /\ run[t][by] # Nobody
  /\ EndRun(t, by)
  /\ UNCHANGED <<now, zone, log, since, register, edits>>

----------------------------------------------------------------------------
(* Decisions.  Each is a request of its own; the transactions of decisions *)
(* on one approval are ApprovalQueue's subject, here they concern several. *)

Decided(t, k) ==
  /\ pending[t][k] > 0
  /\ pending' = [pending EXCEPT ![t][k] = @ - 1]
  /\ UNCHANGED <<now, zone, log, run, since, byHand, byAgent, book, edits>>

(* _execute_raid goes by the source_ref of the effective payload: the key  *)
(* that was proposed or, after an edit, another one or none.  A row that   *)
(* has come in since the proposal ends it.                                 *)
ExecuteKnown(t, k, ref) ==
  /\ ref \in Refs /\ Decided(t, k) /\ UNCHANGED <<executing, raced>>

Insert(t, k, ref) ==
  /\ Decided(t, k)
  /\ executing' = [executing EXCEPT ![ref] = @ + 1]
  /\ raced' = IF executing[ref] > 0 THEN raced \union ({ref} \ {NoKey}) ELSE raced

(* Mutant: the RAID log is not looked at again.                            *)
ExecuteBlindly(t, k, ref) == Insert(t, k, ref)

(* No row, or no key to look for: one is inserted, and the workbook called *)
(* before the commit.                                                      *)
Execute(t, k, ref) == ref \notin Refs /\ Insert(t, k, ref)

(* The workbook may refuse the row: the RAID row is there all the same.    *)
(* Text that mentions a key will do for the gap scan.                      *)
CommitRow(ref) ==
  /\ executing[ref] > 0 /\ executing' = [executing EXCEPT ![ref] = @ - 1]
  /\ byAgent' = [k \in Keys |-> IF k = ref THEN byAgent[k] + 1 ELSE byAgent[k]]
  /\ \E mentioned \in SUBSET Keys : book' = book \union mentioned
  /\ UNCHANGED <<now, zone, log, run, since, byHand, pending, raced, edits>>

(* Rejected, or expired.                                                   *)
Reject(t, k) == Decided(t, k) /\ UNCHANGED <<executing, raced>>

----------------------------------------------------------------------------
(* People, Jira, and the clock.                                            *)

Edited == edits < MaxEdits /\ edits' = edits + 1

CreateRow(k) ==
  /\ Edited /\ byHand' = byHand \union {k}
  /\ UNCHANGED <<now, zone, log, run, since, byAgent, book, pending, executing, raced>>

DeleteRow(k) ==
  /\ Edited
  /\ \/ k \in byHand /\ byHand' = byHand \ {k} /\ UNCHANGED byAgent
     \/ byAgent[k] > 0 /\ byAgent' = [byAgent EXCEPT ![k] = @ - 1] /\ UNCHANGED byHand
  /\ UNCHANGED <<now, zone, log, run, since, book, pending, executing, raced>>

(* update: a closed row, or one whose copy in the workbook is behind, keeps *)
(* its source_ref, which is all that the scans and executions look at.     *)
UpdateRow(k) ==
  /\ Edited /\ k \in Refs
  /\ UNCHANGED <<now, zone, log, run, since, register>>

EditWorkbook(k) ==
  /\ Edited /\ book' \in {book \union {k}, book \ {k}}
  /\ UNCHANGED <<now, zone, log, run, since, byHand, byAgent, pending, executing, raced>>

Block(k) ==
  /\ since[k] = Never /\ since' = [since EXCEPT ![k] = now]
  /\ UNCHANGED <<now, zone, log, run, register, edits>>

Unblock(k) ==
  /\ Edited /\ since[k] # Never /\ since' = [since EXCEPT ![k] = Never]
  /\ UNCHANGED <<now, zone, log, run, register>>

Tick ==
  /\ now < MaxTime /\ now' = now + 1
  /\ UNCHANGED <<zone, log, run, since, register, edits>>

Next ==
  \/ \E t \in Tasks : JobStart(t) \/ PersonStart(t)
  \/ \E t \in Tasks, by \in Starters : Finish(t, by) \/ Skip(t, by)
  \/ \E t \in Tasks, k \in Keys, ref \in Carried : ExecuteKnown(t, k, ref) \/ Execute(t, k, ref)
  \/ \E t \in Tasks, k \in Keys : Reject(t, k)
  \/ \E ref \in Carried : CommitRow(ref)
  \/ \E k \in Keys : CreateRow(k) \/ DeleteRow(k) \/ UpdateRow(k)
                     \/ EditWorkbook(k) \/ Block(k) \/ Unblock(k)
  \/ Tick

Spec == Init /\ [][Next]_vars

----------------------------------------------------------------------------
(* Properties.                                                             *)

TypeOK ==
  /\ now \in 0..MaxTime /\ zone \in Zones
  /\ log \in Seq(RunRow)
  /\ run \in [Tasks -> [Starters -> Run \union {Nobody}]]
  /\ since \in [Keys -> {Never} \union 0..MaxTime]
  /\ byHand \subseteq Keys /\ byAgent \in [Keys -> Nat] /\ book \subseteq Keys
  /\ pending \in [Tasks -> [Keys -> 0..MaxPending]]
  /\ executing \in [Carried -> Nat] /\ raced \subseteq Keys
  /\ edits \in 0..MaxEdits

(* "Once per working day": the job's successes of a task began on          *)
(* different local dates, however long a run takes and whoever else runs   *)
(* the task, if the engagement's morning falls on the server's date.       *)
OncePerDay ==
  zone <= Post =>
    \A i, j \in DOMAIN log :
      /\ i # j /\ log[i].task = log[j].task /\ log[i].by = "job" /\ log[j].by = "job"
      => LocalDate(log[i].start) # LocalDate(log[j].start)

(* Nor is a day passed over: the job keeps quiet about a task only if a run*)
(* of it that began on this very local date succeeded, if the engagement   *)
(* is not behind the server's date.                                        *)
QuietOnlyAfterSuccess ==
  zone >= 0 =>
    \A t \in Tasks : RanToday(t) =>
      \E i \in DOMAIN log : log[i].task = t /\ LocalDate(log[i].start) = LocalDate(now)

(* Whatever is proposed again day after day, by both tasks and while people*)
(* add and delete rows and edit what is proposed, approvals make a second  *)
(* row that carries a blocker's key only if two of them were executed at   *)
(* the same time.  A row whose key an edit has taken away is not one of    *)
(* them: nothing tells it from a row about something else.                 *)
OneRowPerBlocker == \A k \in Keys : byAgent[k] > 1 => k \in raced

----------------------------------------------------------------------------
(* What the repository's comments say, and the code does not keep.         *)

(* repositories/approval.py, find_pending_duplicate: "Has this already     *)
(* been proposed and not yet decided?"                                     *)
ProposedOnce == \A t \in Tasks, k \in Keys : pending[t][k] <= 1

(* approval_service.py, _execute_raid: "Re-check for a duplicate at        *)
(* execution time": no row is made where the register has one of the key   *)
(* that was proposed.                                                      *)
NoRowBesideAnother ==
  [][\A t \in Tasks, k \in Keys :
       k \in Refs /\ pending'[t][k] < pending[t][k] => executing' = executing]_vars

(* jobs.py: "Once per working day", in every zone.                         *)
OncePerDayEverywhere ==
  \A i, j \in DOMAIN log :
    /\ i # j /\ log[i].task = log[j].task /\ log[i].by = "job" /\ log[j].by = "job"
    => LocalDate(log[i].start) # LocalDate(log[j].start)
============================================================================
