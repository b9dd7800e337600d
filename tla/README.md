# Formal models of Agent PM

TLA+ models of the backend in `src/backend/src/agent_pm` and of the session handling of
the web application, checked with TLC and, where it pays, proved with TLAPS. Paths
below are relative to that directory unless they start with `src/`.

Agent PM is a FastAPI service and a scheduler worker over one PostgreSQL
database. Agent tasks read Jira, GitHub and a RAID workbook and write posts,
reports and proposals; a person approves a proposal before anything is written
outside. What makes it hard is not any single function but where the
transaction ends: every request, and every engagement of a scheduled job, is one
`READ COMMITTED` transaction; rows are read without a lock, tested in memory and
written later; and the calls to Jira, the workbook and the channel are made
before the commit, so that a rollback does not take them back.

## The system's parts

| Part | State | Operations | With whom it interacts | Hard behaviour | What makes it correct |
| --- | --- | --- | --- | --- | --- |
| Approval queue (`services/approval_service.py`) | `approvals`, the RAID rows it inserts | decide, decide_bulk, execute, expire | Jira, workbook, RAID, reports, sweep | races, deadlock, crash between write and commit | no write without a grant, one execution at a time, no half decision |
| Standups (`services/standup_service.py`) | `standups`, unique per engagement, kind and day | generate, write, delete | runner, channel, scheduler, events | lookup long before the write, card outside the transaction | a text is overwritten only on demand, audit, row and event together |
| Meeting intake (`services/event_service.py`, `services/meeting_service.py`) | `agent_events`, unique per external id | receive, process | Meeting Agent, runner, action items, approvals | redelivery during processing, failing run | at most once, only with consent, no entry lost |
| Agent runner (`services/agent_runner.py`) | `agent_runs` | run, gate writes, post card, record failure | every service | rollback of the caller's work | approvals exactly for audited successes; no card above the autonomy level; cards and approvals only of runs whose claims cite nothing invented |
| Scheduler (`scheduler/jobs.py`, `scheduler/runner.py`) | none of its own | one tick per minute, hourly and daily jobs | all services | isolation of pods, once a day across time zones | one pod's failure stays its own; once a day |
| Action items (`services/action_item_service.py`) | `action_items` | create, update, delete, nudge sweep | channel, intake | messages before commit, daily cap | a reminder on record is not repeated within the cool-down; the cap; what is overdue is escalated |
| RAID register (`services/raid_service.py`) | `raid_items` | create, update, delete, gap scan, promotion | approval queue, workbook | proposals repeated while pending | once a day; one row with a blocker's key, whatever is proposed again |
| Reports (`services/report_service.py`) | `reports` | generate, edit, mark sent | approval queue | regenerate against send | what is stamped as sent had been approved, its text too unless a stale read was written back; the job overwrites nothing |
| Engagements and users (`services/engagement_service.py`, `services/user_service.py`) | `users`, `engagements`, `engagement_members` | sign-in, adopt placeholder, add, remove, archive | every route | concurrent first sign-ins, stale roles | an administrator from the first account on, by bootstrap only then; everybody has a place |
| Grounding, autonomy, clock (`core/`) | none | pure functions | runner | boundaries | the ratio and the levels are what the docs say |
| Adapters (`integrations/`) | none | calls with a retry loop | everything | a retry of a call that took effect | a failed call is reported as failed, whether it took effect or not |
| Web application (`src/frontend/src`) | session, profile | sign-in, `/auth/me`, sign-out | API | late answers of an old session | the profile shown is the session's |

`PROJECT.json` lists every part with its files, and the hazards with the line at
which each bites and the properties that watch it.

## Modules

| Module | What it is |
| --- | --- |
| `ApprovalGate` | what the queue promises: write, deny or record only what was granted |
| `ApprovalQueue` | the queue, transaction by transaction |
| `ApprovalQueueProofs` | its invariants; that it implements the gate; what EXECUTED stands on |
| `StandupDay` | one day of standups of all engagements, with the tick |
| `StandupDayProofs` | its invariants |
| `MeetingIntake` | the meeting-outcome webhook |
| `IntakeLedger` | what the intake promises: one decision for each meeting, together with all that follows |
| `MeetingIntakeProofs` | its invariants; that it implements the ledger |
| `AgentRun` | a run of any task of the catalog: autonomy, grounding, approvals, card |
| `NudgeSweep` | reminders and escalations of action items |
| `ReportLife` | reports from draft to sent, with the weekly job |
| `RaidWatch` | the daily RAID jobs and what comes of their proposals |
| `Membership` | sign-in, roles, engagements and who is in them |
| `AuthSession` | the session of the web application |
| `AgentRunProofs`, `NudgeSweepProofs`, `ReportLifeProofs`, `RaidWatchProofs`, `MembershipProofs` | invariants of the five |
| `MC...` | an instance of each for TLC |

### How a transaction is modelled

A transaction is a process with a program counter `pc`. What the database shows to
others is in the first group of variables of each module. What a
transaction has flushed and not committed is in variables indexed by the
transaction (`local` and `inserted`; `fresh`, `opened` and `announced`; `draft` and `staged`), and
`owner` or `holder` says who has an uncommitted version of a row or of a unique
key: whoever else wants it waits. A commit publishes everything in one step, an
abort drops it. Reading is one step, the flush that depends on it a later one.
External effects (`writes`, `posts`) are never undone.

An exception that leaves the handler, a crash of the process and a lost
connection all end in an abort, since `get_db` and `session_scope` roll back on any
exception. `AgentRunner._record_failure` is the exception to that rule: it rolls
the session back itself and commits a FAILED run in a transaction of its own.

### ApprovalQueue

`Receive` picks what a request asks: one approval or a list, approve or reject,
with or without an edit, by somebody who may approve or not. `Decide` is the
SELECT and the tests of `decide`; `FlushApproved`, `FlushRejected` and `FlushExpired`
are the flushes and take the row lock; `ExecuteRaid`, `SkipDuplicateRaid`, `AppendToWorkbook`, `ExecuteJira`,
`ExecuteReport` and `ParseError` are the branches of `_execute`; `Settle` is its end. `Commit` ends a
request that went through its list. `RunSweep` is `expire_stale`. `DeadlockAbort` is
PostgreSQL's victim of a cycle of waiting; `Crash` cuts a transaction short.
`Deadline` lets an approval become overdue at any moment, and `AddByHand` is a RAID
row that people give a source_ref of their own.

A payload, proposed or edited, is opaque but for three things: whether its execution raises
`ValueError` (`Malformed`: an unknown RAID type, severity or source, a Jira payload of the wrong shape, a report id that is no UUID), the
source_ref or report it names (`Ref`, `NoRef`), and whether it asks Jira for anything (`NoOps`).
All three are asked of the *effective* payload (`EffectivePayload`, `RefOf`, `Parses`), so that an edit may
repair a proposal, break it, or drop or change its source_ref. What follows from this in the code:

* A Jira payload without comment, labels and transition makes no call, and its approval is EXECUTED. An
  edit may be one, and so may a proposal: `agents/tasks/meeting_intake.py:216` passes an empty comment on.
  `ExecutedIsBacked` and the gate's `MustSend` speak of payloads that ask for something.
* The duplicate check goes by the edited source_ref. When two deciders both saw PENDING, one with an edit that
  drops or changes it, both insert a row: `OneRaidRowPerApproval` is one row per approval *and* source_ref.
* All RAID proposals of one meeting carry the meeting's id as their source_ref, so that the second one
  approved finds the first one's row and is EXECUTED without a row of its own.

`ExecuteReport` waits for the report's row lock, `reportOwner`, which is held to the end of the request as the
approval's is: two approvals of one report meet there as well.

The RAID rows that executions and people insert are never deleted or given another source_ref
here; `RaidWatch` has that. Two approvals, two requests and the sweep are enough for what the properties
relate: two deciders of one approval, two batches in opposite order, a decision
and an expiry. `SweepLimit = 1` makes the limit of 200 rows bite; with `MayCrash` any
transaction may be cut short at any step, and a request is sent once.

### StandupDay

A slot is an engagement and a kind of post; its row is replaced, never doubled.
`Look` reads it, `PostRun`, `SkipRun` and `FailRun` are the ends of `AgentRunner.run`,
`Insert`, `Update`, `Delete` and `WriteConflict` are the flush. An `Update` merges: SQLAlchemy
writes the columns that differ from what was loaded, so `Merge` keeps the others as they
are by now. `id` tells a row from the one that replaced it after a deletion.
`TickStart` and `TickPod` are `_for_each_active` and the job: engagements in the order of their
names, both slots of one in the same transaction. The tick runs in one worker
(`max_instances = 1`), so it is one process. `Broken` slots fail
whenever they run; `MaxFaults` bounds those that come and go, and crashes. A
crash of the worker ends the tick; a lost connection only the engagement at hand.
`posts` counts to 2, which stands for several.

A request carries a name of its own as its text, which is how a property sees
whose text is in the row.

### MeetingIntake

One delivery per request; several may carry the same meeting. `Store` is the
INSERT that waits for another uncommitted one; `Conflict` is the unique violation. `FailRun`
distinguishes the domain error (answered 200) from any other exception (500).
`Consider` is one entry of `create_many`, with the duplicate query over what is
committed: the open items of the engagement, those made or renamed by hand among them (`Create`, `Update`,
`Delete`: what people may do to items meanwhile, `MaxEdits` times). `past` has every state of an item that was ever
committed, which is how a property can say that an entry had its item although somebody has renamed it since.
`secret` is whether the deployment has a webhook secret: it is empty by default, and then
`event_service.py:81` accepts a delivery that is not signed (`Trusted`). The agent's answer is a choice among success, nothing to say and
failure. `IntakeLedger` is what is left when the deliveries are taken away: per meeting a decision and
its consent flag, whether it was worked off, and the entries that got an item. Approvals and the `pm_summary` event of a delivery are one element of
`produced`: they are created in the same transaction and read by nobody here.
All meetings are of one engagement. The answer is taken together with the commit; should the framework send it first and the
commit then fail, a delivery answered 200 is one of the model's aborted ones.

### AgentRun

`Catalog` has the eight tasks by what distinguishes them to the runner: the declared level,
the sources without which a task fails, whether its input comes from its own service
(from the generic route `POST /agent/run` it does not, and the task skips), whose words the claims are, whether a
card may be posted, and what a result may carry. `Begin` computes the effective
autonomy from the engagement row its caller has loaded, and a run begins when that row is read; `SetCeiling` changes it while the run
works. A proposed write is known by what it cites, and `approvals` has a pair of run and cited reference for each:
the check of the claims does not look at the proposals' own citations. `Gather`, `Reason`, `Validate`, `GateWrites`, `PostCard` and `Commit` are the
steps of `run`; each has its failure. `RecordFailure` rolls the caller back and commits a FAILED
row; `Lose` is an exception after the run, or a crash, that takes the audit row as well.
`Deliver` is what the nudge sweep does once the runner has returned.

A claim is the set of what it cites, of something the task was given (`"seen"`)
and something it was not (`"invented"`). `ParseClaims` and `Inspect` translate `core/grounding.py` and
`agents/base.py`; a claim goes by its position in the model's list, and the ratio is compared as
`cited * Den >= Num * claims`.

For the meeting intake this matters: its claims are the envelope's own lines, which are always cited, while
its proposals cite whatever the model says (`agents/tasks/meeting_intake.py:222`, `:246`).

What reading against the documents showed, without a run of its own:
`parse_claims` drops a malformed entry although its docstring (`agents/base.py:121`) has it uncited
(so that it does not count against the ratio); an L1 run creates approvals although
`src/docs/ARCHITECTURE.md:94` says "Result is stored as a draft only"; and
`AutonomyViolationError` cannot be raised by any task of the catalog, since none executes its own writes.

### NudgeSweep

`Decide(s)` is the read of the open items and `ActionTrackingTask.reason`: who is reminded,
in order of due dates until the owner's cap, and what is escalated. `Send` and `FailToSend`
are one direct message each, `Commit` the UPDATE and the end of the transaction. `Stale` is the UPDATE
that finds a row deleted: SQLAlchemy raises, and the sweep is rolled
back after its messages went out. `Update`, `Delete` and `Create` are what people do
meanwhile. The scheduler's sweep and one asked for through the API overlap.
The model is of a channel that can send direct messages, as the port (`integrations/teams/base.py`) has it and the fixture
channel does. The one live adapter, the Teams webhook, refuses each of them (`integrations/teams/client.py:46`), so that
today a deployment with Teams reminds nobody and only escalates.

A unit of time is some hours: the cool-down of 20 is 2, the window of 24 and the lead time are 3, so
that the cool-down is shorter than the window, as in the code. No time passes during a sweep.

`CapPerPerson` states what the cap does hold: what a sweep sends, plus the recent items
its read could see. The code's own claim ("per person per day") fails in several ways that the model has:
an item reminded of twice in 24 hours counts once (the cool-down is 20 hours), a closed or
reassigned item no longer counts, and an overlapping or dead sweep's messages are not on record. Two smaller
ones: `escalated_at` is set even if the card was not posted, and a new due date clears neither it nor `last_nudged_at`.

### ReportLife

A request reads its row (`Arrive`, `JobTick`), may run the agent for minutes (`Run`), then writes (`Insert`,
`Regenerate`, `Edit`, `MarkSent`, `RunOnly`). Nothing is locked in between, and the UPDATE sets only
the columns that differ from what was read: `Column`. `Insert` meets the unique
constraint of the period, `InsertConflict` is the loser. `text` names the writer of the
content, so a property sees whose text was sent. Two histories serve the properties: `approved`, the texts each
period's report was approved with, and `crossed`, the periods whose report somebody wrote to who had not read it as it was
by then. `ranToday` is the audit query by which
the weekly job keeps quiet: it looks at neither the period nor the origin of the run.

### RaidWatch

One engagement, and what the audit table, the RAID log, the queue and the workbook know of each blocker. `Zones` is
the engagement's offset from the server; `ServerDate` of a run's start is compared with
`LocalDate(now)`, as `_ran_successfully_today` does. `Start` and `Finish` bracket a run; the job's run of a task and a person's may
overlap. `Proposals` is what a task may propose, `Execute` and `CommitRow` an approval's execution around the
workbook call (its transactions are `ApprovalQueue`'s; here several approvals of one blocker matter). An execution goes by the
key the decider's edit leaves: the one proposed, another, or none (`Carried`, `NoKey`). The model's unit of time is
eight hours (`Day = 3`), the smallest in which the server may be on another date.

### Membership

A request is a transaction in steps: `SignIn` looks the caller up, `Count` and `Insert` provision
(first account: administrator), `Sync` adopts a placeholder or touches `last_seen_at`, `Choose` and
`Enter` are `ensure_membership`, `Act` is any handler that changes users, members or
engagements, and `Commit` publishes. `Seed` is `agent-pm seed`. `Rollback` is every way to end with nothing: an inactive
account, a refusal, a conflict, a deadlock's victim, a crash. What others must wait for is derived from the uncommitted steps:
the caller's row (`Locks`), memberships and slugs inserted (`MayJoin`, `MayMake`). A
person has one address and one uid; changes of address are not modelled.

### AuthSession

The React state of `AuthProvider` (`session`, `user`, `ready`, `loading`, `resolving`), the client of the auth
provider (`supa`, external; it tells its subscribers in a step of its own, the first time with what it found in storage) and the calls under way.
`awaited` is the answer of `getSession`, which may come before or after the first event. `Mirror` is a change of the session in React state with
the effects that depend on it; another session object with the same token runs the probe again. A call reads its token when it is sent, so the answer may
be about an earlier session: `late` are the questions whose answers no longer count, except that a 401 still
calls the registered handler. `signOut` may resolve with an error that nobody reads
(`SignOutFails`); the properties then promise nothing (`stuck`).

## What the runs check

| Run | Instance | Shows |
| --- | --- | --- |
| `ApprovalQueue_safety` | a Jira update and a RAID entry that does not parse as proposed; 2 requests, single or bulk in both orders, without edit, with an empty one, one that repairs the payload or one that strips it of source_ref and Jira operation; a row made by hand; sweep, crashes | execution is exclusive; every write was asked for by somebody who may; nothing of a request that did not commit; APPROVED is never committed; EXECUTED is true of the payload its decider executed; one RAID row per approval and source_ref; every step is one of the gate's, or a stutter |
| `ApprovalQueue_progress` | two approvals of the same report, bulk requests in both orders (a single decision waits for one lock and is left to the other run) | under fairness every request ends, deadlocks included, and overdue approvals do not stay pending |
| `StandupDay_safety` | one pod, 2 requests about the end of day, the tick over both slots, 1 fault | audit, row and event of a generation are one, whether it succeeds, is rolled back or fails (`AuditIsTrue`); a successful plain generation inserted its row; only a regeneration or a person replaces a text |
| `StandupDay_isolation` | two pods, the first's morning always fails, 1 fault | the other pod's slots are filled |
| `MeetingIntake_safety` | 2 deliveries of any of 4 meetings (two that share a timestamp, one without entries, one malformed), with and without a secret, signature, consent, engagement, 1 fault, 2 edits of items by people | at most once; nothing without consent and, where a secret is configured, a signature; what is committed is a sequence of the ledger's decisions, none left RECEIVED; who is answered "received" can rely on it and every other end leaves nothing, so that a retry starts afresh; an entry is dropped only for an item that has or had its timestamp or title; the first envelope stands; every delivery ends |
| `AgentRun_gate` | each of the 8 tasks with each outage, ceiling and answer; the ceiling changed twice during the run; 1 fault | a card is out only if task and ceiling allowed it when the run began; a card or an approval is only of a run whose claims cite nothing invented, and enough of them cite; approvals exist exactly for runs whose audit row says success |
| `NudgeSweep_cap` | two items of one person due at once, two overlapping sweeps, 1 fault, 1 edit | every recorded reminder has its message; reminders on record are a cool-down apart; the cap, as far as it holds; what is overdue is escalated in the end |
| `ReportLife_safety` | 3 requests out of 10 kinds over two periods, the weekly job, 1 fault | a report stamped as sent had been approved, and it is as it was sent, with a text that was approved, unless somebody wrote who had read it earlier; the job never overwrites; who changes a sent report had read it when it was not sent; the week's report is drafted unless another run quietened the job |
| `RaidWatch_daily` | one blocker, both tasks by job and person, two days, four zones, 2 runs, 1 edit, proposals approved as they are or without their key | once a day and no day passed over, each in the zones its statement names; a second row with a blocker's key only from two executions at once |
| `Membership_access` | 2 people, the workspace and a pod, 2 transactions at a time, 4 in all | an administrator exists once there is an account, until one is demoted; nobody becomes one by a sign-in that began after the first account; everybody has an engagement unless removed from one |
| `AuthSession_settles` | a session of each of two people, 1 fault, revocations, the local bypass | the profile shown ends up the session's; a refused session leaves the screens; loading ends |

One run shows the code to differ from what it says of itself:

| Run | The comment | What happens |
| --- | --- | --- |
| `AgentRun_ceiling` | `core/enums.py:70`: "L1 and L2 must never reach an external system unapproved" | the nudge sweep runs at a level below L3 and sends its direct messages: the gate looks at proposed writes and cards only. (With the Teams webhook, which refuses direct messages, the attempt is made and nothing leaves.) |

### Divergences without a run

These are definitions of the modules, in a section of their own. Adding one to the
configuration named makes TLC print a behaviour that violates it. They are not
run regularly because a counterexample, once seen, shows the same each time.

| Definition | With | The comment | What happens |
| --- | --- | --- | --- |
| `ApprovalQueue!ExpiredNotExecuted` | `ApprovalQueue_safety` | "so a stale card cannot be approved late" | the sweep's EXPIRED is overwritten by a decision that had read PENDING |
| `ApprovalQueue!ApprovedIsExecuted` | `ApprovalQueue_safety` | the approved and the executed payload "are the same object" | two deciders: one's edit in the row, the other's write in Jira |
| `ApprovalQueue!BadItemIsolated` | `ApprovalQueue_safety` | "One bad approval must not abort the rest" | a `ValueError` aborts the batch |
| `StandupDay!TicksPostOnce` | `StandupDay_safety` | a tick "cannot double-post" | the end of day fails, the morning row is rolled back, its card is posted again |
| `MeetingIntake!FailureIsRecorded` | `MeetingIntake_safety` | "Processing failures are recorded on the event, not returned as a 5xx, because a retry would re-deliver data we have already accepted" (`api/v1/routes/events.py:42`) | the rollback took the event: the delivery is answered 200 and nothing of it is stored |
| `AgentRun!ProposalsCiteEvidence` | `AgentRun_gate` | of the references a task saw: "A citation outside this set is treated as fabricated" (`agents/results.py`) | a proposal of the meeting intake cites what the model wrote; only claims are checked |
| `ReportLife!SentIsFrozen` | `ReportLife_safety` | "A sent report cannot be edited" | an edit or a regeneration that had read the row before it was sent writes after |
| `ReportLife!WeeklyIsDrafted` | `ReportLife_safety` | "Draft the client status on the engagement's configured weekday" | a run for last week, or from the catalog, makes the job quiet for the day |
| `RaidWatch!ProposedOnce` | `RaidWatch_daily` | "Has this already been proposed and not yet decided?" | `find_pending_duplicate` is never called: proposed again the next day |
| `RaidWatch!NoRowBesideAnother` | `RaidWatch_daily` | "Re-check for a duplicate at execution time: an approval may have sat in the queue while somebody added the row by hand" (`services/approval_service.py:206`) | an edit that drops or changes the source_ref passes the check, and a second row is made for the blocker |
| `RaidWatch!OncePerDayEverywhere` | `RaidWatch_daily` | "Once per working day" | a morning that falls on the server's previous date is run again and again |
| `Membership!NoDeadEnd` | `Membership_access` | "signed in but in no pod" is "made unreachable" | one whose only engagement was archived sees none; with the workspace archived, its slug in use, a new sign-in without a default fails |
| `AuthSession!OnlyRefusedIsEnded` | `AuthSession_settles` | "End the session when the API says the caller is no longer authenticated" | a late 401 of an old token signs the new session out |

Several properties are narrower than the hazard they are listed for, because the code does not exclude the rest.
`ExecutionExclusive` and `WritesAuthorised` let a second decider who saw PENDING execute after the first, and a write be repeated
after a crash. `OnlyForcedOverwrites` follows the text of a standup, not its other columns. `RemindersAreSpaced` and `CapPerPerson` are
about reminders on record, not those of a sweep that died. `StampedWasApproved` makes an exception of a write by
somebody who had read an earlier row, which is how unapproved text gets out; `DraftedOnItsDay` of a job quietened by another run.
`CardsRespectCeiling` is about the ceiling the run began under. `RefusedIsSignedOut` does not say that a late refusal
spares a new session. The definitions in the table above show the most important of these.

Further places where the code does less than a comment says follow from one or two lines:

* `services/approval_service.py:6`: external calls are "downstream of a recorded decision". The
  decision is flushed, not committed: after a crash or a deadlock (`Crash`, `DeadlockAbort`) the write is made and the approval pending.
* `schemas/approval.py:39`: an edit "replaces the payload". `{}` is falsy, and the proposal is executed (`EffectivePayload`).
* `models/run.py:4`: "even a crash leaves evidence". The RUNNING row is flushed only (`StandupDay!Crash`, `AgentRun!Lose`).
* `models/standup.py:51`: a null author means the agent. A regenerated row keeps the person's id (`Assign`).
* `agents/tasks/morning_standup.py:71`: "a missing workbook must not stop the morning post". One that is configured and cannot be read does
  (`AgentRun!GatherFails`; `Broken` slots in `StandupDay`).
* `api/v1/routes/events.py:42`: "not returned as a 5xx". A payload that does not validate is a 500 (`FailRun`).
* `services/action_item_service.py:80`: "Skips duplicates". One said twice in a batch is inserted twice, and an open
  item of another meeting with the same timestamp hides an action (`Duplicate`, `Consider`); `EntryIsCovered` states what does hold.
* Two first sign-ins that overlap make two administrators (`Membership!Count`), and administrators may demote or deactivate the last
  one, also two of them each other at once: nobody can then grant roles. Somebody removed from a pod is in one again at the next request (`NeedsPlace`).
* `AuthProvider.tsx`: a `/auth/me` that fails for any reason drops a live session to the login page, and nothing asks again.

### Bounds

Two contenders are what the races of this code need: two deciders of an approval, two
batches in opposite order, two deliveries, two sweeps, two first sign-ins. `ReportLife` has three
requests, since approval, sending and a third writer meet. `MaxFaults` and `MaxCrashes` of 1 let each step be cut
once with everything after it healthy. `MaxEdits`, `MaxChanges`, `MaxRequests`, `MaxRuns` and `MaxPending` bound
what people do. `MaxTime` lets the window of `NudgeSweep` pass once after a first sweep and two local dates pass in `RaidWatch`.
`SweepLimit = 1` makes the limit of 200 rows bite. `AgentRun` needs one run: runs meet only in the queue, which is `ApprovalQueue`'s.

Deadlock is checked in the approval and standup runs of safety; elsewhere all requests of the instance may be over and
nothing left to do. The type invariants are proved; that of `AuthSession`, about which nothing is proved, can be added to
its run, and holds there.

Every checked property has a mutant in `PROJECT.json`: a definition changed as a
plausible bug would, with which TLC finds that property violated. The mutated
forms stand in the modules, before the definition they replace, marked "Mutant".

### Fairness

* A request the server has received keeps running (`WF` of its handler): one
  coroutine of an event loop.
* The worker keeps running its sweeps and ticks (`WF`): APScheduler's intervals.
* PostgreSQL breaks a deadlock (`WF` of the abort) and serves the waiters of a row
  in turn (`SF` of the flushes), as its lock queue does.
* In the browser, the event loop runs what is due, timers fire, and every call has an answer
  or runs into its timeout of 70 s (`WF`).
* Nothing is assumed of crashes, failures, people, revocations or deadlines. Transient faults are
  bounded in number; `HealthyPodsGetTheirs` and `OverdueIsEscalated` say what holds once they are over.

## What is proved

For all values of the constants that the named assumptions admit - any sets of approvals, requests,
meetings, people, runs - and all bounds:

| Theorem | Of | From |
| --- | --- | --- |
| `TypeCorrect` | `ApprovalQueue` | `ApprovalConstants`, `NobodyDecides` |
| `ExclusiveExecution`, `OneRow`, `NoHalf`, `OnlyDone` | `ApprovalQueue` | the same and `InductiveInv` |
| `QueueImplementsGate`, `Authorised` | `ApprovalQueue` against `ApprovalGate` | the same |
| `ExecutedBacked` | `ApprovalQueue` | the same and `BackedInv` |
| `TypeCorrect`, `AuditTruth`, `GenerationsInsert`, `ForcedOverwrites` | `StandupDay` | `StandupConstants` and `IInv` |
| `TypeCorrect`, `OncePerMeeting`, `Consensual`, `AnswersHold`, `FirstStands` | `MeetingIntake` | `IntakeConstants` and `IntakeInv` |
| `EntriesCovered` | `MeetingIntake` | the same and `CoverInv` |
| `IntakeImplementsLedger` | `MeetingIntake` against `IntakeLedger` | the same and `FromAgenda` |
| `TypeCorrect`, `SentWasApproved`, `JobIsHarmless`, `OnlyStaleReadsChange` | `ReportLife` | `ReportConstants` and `ReportInv` |
| `TypeCorrect`, `OneRow`, `OnceADay`, `NoDayPassedOver` | `RaidWatch` | `WatchConstants`, `RowInv` and `DayInv` |
| `TypeCorrect`, `AlwaysAnAdministrator`, `NobodyOutside`, `BootstrapOnlyFirst` | `Membership` | `MembershipConstants`, `MembershipAbsent` and `AccessInv` |
| `TypeCorrect`, `CardsAllowed`, `ProposalsOfSuccess` | `AgentRun` | `RunnerConstants`, `OfferedConstants`, `NobodyRuns` and `GateInv` |
| `OnlyGroundedPublished` | `AgentRun` | the same and `GroundInv` |
| `TypeCorrect`, `RecordTrue`, `Spaced`, `WithinCap` | `NudgeSweep` | `SweepConstants` and `SweepInv` |

*The queue.* `ExecutionExclusive` is not inductive: it speaks of requests that execute, not
of why no other can start. `LockInv` adds the reason. A request's uncommitted
statuses and RAID rows are covered by row locks it holds, and at most one
approval, the current one, is APPROVED in its transaction. The lock of a row has one owner, so two requests cannot both have
executed it. `RaidInv` adds that the `source_ref` a request found free stays free
while it holds the lock, among the rows of this approval, which is what makes one row per approval and source_ref, even though two requests may both
have found the approval pending. `SweepInv` and `Arrived` say where the sweep and the
requests are. The gate's proof maps an arriving approver to `Grant`, `ExternalWrite` to `Send`,
a commit to `Record`, and everything else to a stutter. `ExecutedIsBacked` needs to know, before the commit,
that a transaction in which an approval is EXECUTED has made the Jira write its effective payload asks for
(`GrantFor`) or has a RAID row with its source_ref, inserted by itself or found (`BackedInv`), and that nothing is ever taken out of `writes`, `raidItems` and `byHand` (`HistoryGrows`).

*Standups.* A run is posted before it is stored and stored before it is committed. `OpenInv` follows an
uncommitted run along that way: one that says success has its version of the row flushed, with the slot's lock held,
or is about to flush it; `FreshInv` says whose text an uncommitted version carries, and that over a
row that is there it was asked for. A commit turns both into what `AuditIsTrue` says of the table. A
generation that is not forced finds the slot empty when it holds it, hence inserts.

*Intake.* The holder of a meeting's uncommitted event is the only request that
works on that meeting, and while there is a holder no event of it is committed. A
committed event names its request, whose pc is "answered"; a request past its arrival is `Trusted`. Two requests that
produced something of one meeting would both be named by its one event. `EntryIsCovered` is the loop invariant
of `create_many`: the entries before `next` are covered by what is committed or staged (`CoverInv`), and no
state of an item is ever removed from `past`, whatever people do to `items`. In the ledger's proof only `Commit` is seen: its meeting is undecided since the request holds it,
it is a refusal, a skip (`FromAgenda`: of an agenda that asks for nothing) or work, by the status and `skipped`,
what it adds was staged from that meeting's agenda, and `CoverInv` says that nothing of the agenda is left over. Every other step
is a stutter.

*Reports.* What a request read constrains what it may write: `ViewInv` says so of every
request between its read and its UPDATE. A sender's view was APPROVED at some time; `ApprovedInv` says that a row that is
APPROVED has its text on record in `approved`. A sender whose view is still the row therefore stamps an approved text, and one whose view is not
marks the period as `crossed`, as does whoever changes the row after it was sent.

*Daily jobs.* `RowInv` counts, per key, the executions under way together with the rows made; an execution without a key
adds to neither. `DayInv` orders
the log by time and keeps the job's runs after the posting hour of their date; the
arithmetic of dates rests on two lemmas, that division is monotone and that a
morning's local date is the server's (`DivMono`, `MorningOnServerDate`).

*Membership.* `AccessInv` says of every request under way what `RequestInv` demands: one that found no account
makes the first an administrator (`FirstInv`), one request at most makes a person's row (`OneMaker`), and
only people with a row are members (`MembersKnown`). A request that is past `Choose` has a place; a removal
that commits in between marks the request (`cut`) and the person (`evicted`).

*The runner.* A run that is under way carries the lower of its task's level and of the ceiling of its
epoch, and nothing is audited of it before its end (`RunInv`). One lemma treats every step of a run under
way (`OwnStep`), the actions are its instances. Past `Validate` a run is grounded, its result does not change any
more, and only there can a card or an approval (`Proposing`) come of it (`GroundInv`); a skipped run claims nothing.

*Nudges.* `SweepInv` has three parts. The record (`RecordInv`): a kept message is never later than
the `last` of its item, whatever people edit. Each sweeper (`SweeperInv`): its messages are one for each item it is
done with, all of the present hour. A sweep under way (`ReadInv`): every item it is to remind of was last reminded of a
cool-down ago, the counter it read is at most the number of messages it read, and what it planned for a
person leaves the cap room for what it read. A commit adds one to the counter it read and one message
to those it read. The message is a new one since the cool-down is not zero, which `SweepConstants` demands of the code's
20 hours; that the table is finite is the other assumption the proof needs.

Only model-checked: liveness (`EveryRequestEnds`, `StaleIsSettled`, `HealthyPodsGetTheirs`, `EveryDeliveryEnds`, `OverdueIsEscalated`,
`DraftedOnItsDay`, all of `AuthSession`), which the prover does not treat. Every invariant and every action property that a passing run checks
is a theorem as well: the instances found the mistakes before a proof was tried, and they show for each
property a plausible bug that breaks it.

## Not modelled

* Text, formatting, prompts, the model's answers, and the mapping of Jira and GitHub payloads; `extract_refs`, a
  regular expression over text.
* The retry loop of `integrations/base.py`. An adapter's call is one step that may fail,
  after taking effect where the caller can tell. That a POST which took effect behind a 502 or 504
  is sent again, up to three times, is in no module: `writes` and `posts` record that something was sent, and nothing in the code
  promises it is once. (`request` turns every `httpx.TransportError` into an `IntegrationError`, which is not retried, so that
  the first of the two exception types `@retry` names never reaches it.)
* Foreign keys and the shared locks they take; statement timeouts.
* Tenancy: a model has one engagement (`StandupDay` and `Membership`: several), and the engagement is a
  condition on every query (`repositories/base.py`).
* The sync state of a RAID row. `ApprovalQueue` has the `unsynced` row that a failed append leaves (`synced`), but
  no property asks for its repair: the code has no retry to check.
* RAID rows that people delete or give another source_ref between two executions of one approval (`RaidWatch` has them between executions of several).
* Two different approvals with one `source_ref` executed at once both insert: no constraint
  forbids it, `OneRaidRowPerApproval` therefore speaks of one approval and `OneRowPerBlocker` makes the exception. What
  distinguishes them is the source_ref alone: rows without one are never told apart.
* Routing and error formatting, configuration, logging, signature checks (stateless), the pages of the web
  application, developer tools, and the migrations, which run outside the program. The unique keys and cascades the
  migrations create are in the modules that rest on them.
* APScheduler itself: misfires and coalescing. A job fires, or does not for now.

## Plan

1. An abstract specification of the daily jobs, with a proof that `RaidWatch` implements it.
2. The safety part of `AuthSession`: what the page shows belongs to a session that was answered for.
3. The retry loop of the adapters, composed with the execution of an approval.
