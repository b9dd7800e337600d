--------------------------- MODULE ApprovalQueue ---------------------------
(***************************************************************************)
(* The approvals queue: agents propose writes, people decide them, and an  *)
(* approved payload is executed at once, inside the deciding request.      *)
(*                                                                         *)
(* Every HTTP request is one READ COMMITTED transaction (api/deps.py), and *)
(* so is every run of the expiry sweep.  An approval is SELECTed without   *)
(* FOR UPDATE, tested in memory, and only its UPDATE takes the row lock,   *)
(* which is then held to the end of the transaction.  Between the SELECT   *)
(* and the UPDATE other transactions may commit, and the UPDATE, which is  *)
(* by primary key, overwrites what they wrote.  External calls (Jira, the  *)
(* RAID workbook) happen before COMMIT and are not undone by ROLLBACK.     *)
(*                                                                         *)
(* A payload, proposed or edited, is opaque: what counts is whether it     *)
(* parses, what it refers to, and whether it asks Jira for anything.       *)
(***************************************************************************)
EXTENDS Naturals, Sequences

CONSTANTS
  Approvals,    \* approval rows, all of one engagement, created PENDING
  Requests,     \* decision requests; each is sent once, by its own user
  Kind,         \* [Approvals -> Kinds]
  Payloads,     \* what agents propose and people put in its place
  Proposed,     \* [Approvals -> Payloads]: what the agent proposed
  Refs,         \* source_refs of RAID entries, and reports
  NoRef,        \* no source_ref, no report_id, or none of a known report
  Ref,          \* [Payloads -> Refs or NoRef]: the source_ref or report it names
  Malformed,    \* payloads whose execution raises ValueError
  NoOps,        \* Jira payloads without comment, labels and transition
  Workbook,     \* TRUE iff the engagement has a RAID workbook
  Batches,      \* the lists of ids a bulk decision may name
  Singles,      \* the approvals a single decision may name
  Edits,        \* the edited_payloads a single decision may carry
  NoEdit,       \* edited_payload is absent
  EmptyEdit,    \* edited_payload is {}
  Roles,        \* who sends them: TRUE for someone who may approve
  SweepLimit,   \* rows one expiry sweep reads (200 in the code)
  MayCrash,     \* TRUE iff transactions may be cut short
  HandRefs,     \* the source_refs people may give a row of their own
  Sweep,        \* the expiry sweep, as a transaction
  Nobody        \* neither a request nor the sweep

Kinds == {"raid", "jira", "report"}
Statuses == {"pending", "approved", "rejected", "expired", "executed",
             "execution_failed"}
Txns == Requests \union {Sweep}

ASSUME ApprovalConstants ==
  /\ Kind \in [Approvals -> Kinds]
  /\ Proposed \in [Approvals -> Payloads]
  /\ Ref \in [Payloads -> Refs \union {NoRef}]
  /\ NoRef \notin Refs
  /\ Malformed \subseteq Payloads /\ NoOps \subseteq Payloads
  /\ Workbook \in BOOLEAN
  /\ Batches \subseteq Seq(Approvals) \ {<<>>}
  /\ Singles \subseteq Approvals
  /\ Edits \subseteq Payloads \union {NoEdit, EmptyEdit}
  /\ NoEdit \in Edits
  /\ NoEdit \notin Payloads /\ EmptyEdit \notin Payloads
  /\ Roles \subseteq BOOLEAN
  /\ SweepLimit \in Nat \ {0}
  /\ MayCrash \in BOOLEAN
  /\ HandRefs \subseteq Refs
  /\ Sweep \notin Requests
  /\ Nobody \notin Txns

Decision == [bulk : BOOLEAN, ids : Batches \union {<<a>> : a \in Singles},
             approve : BOOLEAN, edit : Edits, approver : Roles]
ASSUME NobodyDecides == Nobody \notin Decision

RaidRow == [approval : Approvals, by : Requests, ref : Refs \union {NoRef},
            synced : BOOLEAN]
Write == [approval : Approvals, by : Requests, payload : Payloads]

VARIABLES
  (* the database, as committed *)
  status,       \* [Approvals -> Statuses]
  decidedBy,    \* decided_by_user_id: the request that decided, or Nobody
  edited,       \* edited_payload of each approval
  raidItems,    \* committed rows of raid_items made by executions
  byHand,       \* source_refs of the rows people added themselves
  due,          \* [Approvals -> BOOLEAN]: expires_at has passed
  (* open transactions *)
  owner,        \* the transaction that holds each approval's row lock
  reportOwner,  \* the request that holds each report's row lock
  pc, todo,     \* where each transaction is; the ids it has still to handle
  decision,     \* what each request asked for, Nobody before it arrives
  local,        \* the status a transaction has given an approval, uncommitted
  inserted,     \* its uncommitted raid_items rows
  (* history *)
  writes        \* external writes made, with the payload that was sent

dbVars == <<status, decidedBy, edited, raidItems, byHand, due>>
txnVars == <<owner, reportOwner, pc, todo, decision, local, inserted>>
vars == <<dbVars, txnVars, writes>>

Ended == {"done", "refused", "error", "aborted"}
Places == {"idle", "next", "flush", "execute", "append"} \union Ended

Init ==
  /\ status = [a \in Approvals |-> "pending"]
  /\ decidedBy = [a \in Approvals |-> Nobody]
  /\ edited = [a \in Approvals |-> NoEdit]
  /\ raidItems = {}
  /\ byHand = {}
  /\ due = [a \in Approvals |-> FALSE]
  /\ owner = [a \in Approvals |-> Nobody]
  /\ reportOwner = [x \in Refs |-> Nobody]
  /\ pc = [t \in Txns |-> "idle"]
  /\ todo = [t \in Txns |-> <<>>]
  /\ decision = [r \in Requests |-> Nobody]
  /\ local = [t \in Txns |-> [a \in Approvals |-> "pending"]]
  /\ inserted = [t \in Txns |-> {}]
  /\ writes = {}

----------------------------------------------------------------------------
(* Transactions.                                                           *)

Current(t) == Head(todo[t])

(* The approval as the transaction's SELECT sees it: its own uncommitted   *)
(* version if it has one, the committed row otherwise.                     *)
Seen(t, a) == IF owner[a] = t THEN local[t][a] ELSE status[a]

Locked(t) == {a \in Approvals : owner[a] = t}

(* Mutant: the session is never closed, and the locks stay.                *)
StillLocked(t) == owner

Unlocked(t) == [a \in Approvals |-> IF owner[a] = t THEN Nobody ELSE owner[a]]

UnlockReports(t) ==
  reportOwner' = [x \in Refs |-> IF reportOwner[x] = t THEN Nobody ELSE reportOwner[x]]

GoTo(t, place) == pc' = [pc EXCEPT ![t] = place]

(* The loop of decide_bulk moves to the next id; a single decision has no  *)
(* next one and returns.                                                   *)
Advance(t) ==
  /\ todo' = [todo EXCEPT ![t] = Tail(@)]
  /\ GoTo(t, "next")

(* COMMIT: an UPDATE writes only the columns it sets, so expiring a row    *)
(* leaves who decided it alone, and deciding without an edit leaves the    *)
(* edit of an earlier decision in place.                                   *)
CommitRows(t) ==
  /\ status' = [a \in Approvals |->
                  IF a \in Locked(t) THEN local[t][a] ELSE status[a]]
  /\ decidedBy' = [a \in Approvals |->
                     IF a \in Locked(t) /\ local[t][a] # "expired"
                       THEN t ELSE decidedBy[a]]
  /\ edited' = [a \in Approvals |->
                  IF /\ a \in Locked(t) /\ local[t][a] # "expired"
                     /\ decision[t].edit # NoEdit
                    THEN decision[t].edit ELSE edited[a]]
  /\ raidItems' = raidItems \union inserted[t]
  /\ owner' = Unlocked(t) /\ UnlockReports(t)
  /\ inserted' = [inserted EXCEPT ![t] = {}]
  /\ local' = [local EXCEPT ![t] = [a \in Approvals |-> "pending"]]
  /\ UNCHANGED <<byHand, due, decision, todo>>

(* Mutant: get_db commits whatever the handler did.                        *)
CommitAnyway(t, place) == CommitRows(t) /\ GoTo(t, place)

(* ROLLBACK: the row locks are released and nothing else remains.          *)
Rollback(t, place) ==
  /\ owner' = Unlocked(t) /\ UnlockReports(t)
  /\ inserted' = [inserted EXCEPT ![t] = {}]
  /\ local' = [local EXCEPT ![t] = [a \in Approvals |-> "pending"]]
  /\ todo' = [todo EXCEPT ![t] = <<>>]
  /\ GoTo(t, place)
  /\ UNCHANGED <<dbVars, decision>>

----------------------------------------------------------------------------
(* A decision request.                                                     *)

(* engagement_service.require_approver.                                    *)
AnyoneMayApprove(r) == TRUE    \* mutant

MayApprove(r) == decision[r].approver

(* POST .../decision, or .../bulk-decision, which carries no edit.         *)
Receive(r) ==
  /\ pc[r] = "idle"
  /\ \E d \in Decision :
       /\ IF d.bulk THEN d.ids \in Batches /\ d.edit = NoEdit
                    ELSE \E a \in Singles : d.ids = <<a>>
       /\ decision' = [decision EXCEPT ![r] = d]
       /\ todo' = [todo EXCEPT ![r] = d.ids]
  /\ GoTo(r, "next")
  /\ UNCHANGED <<dbVars, owner, reportOwner, local, inserted, writes>>

(* An AgentPMError out of decide: decide_bulk records it and goes on to    *)
(* the next id, a single decision answers 4xx and rolls back.              *)
RaiseError(r) ==
  IF decision[r].bulk
    THEN /\ Advance(r)
         /\ UNCHANGED <<dbVars, owner, reportOwner, decision, local, inserted>>
    ELSE Rollback(r, "refused")

(* require_approver, or the approval is no longer pending.                 *)
Refuse(r) ==
  /\ pc[r] = "next" /\ todo[r] # <<>>
  /\ \/ ~MayApprove(r)
     \/ Seen(r, Current(r)) # "pending"
  /\ RaiseError(r)
  /\ UNCHANGED writes

(* The approval is pending as far as this transaction can see: set the     *)
(* outcome on the object in memory.  Nothing is locked yet.                *)
Decide(r) ==
  LET a == Current(r)
      outcome == IF due[a] THEN "expired"
                 ELSE IF decision[r].approve THEN "approved" ELSE "rejected"
  IN /\ pc[r] = "next" /\ todo[r] # <<>>
     /\ MayApprove(r)
     /\ Seen(r, a) = "pending"
     /\ local' = [local EXCEPT ![r][a] = outcome]
     /\ GoTo(r, "flush")
     /\ UNCHANGED <<dbVars, owner, reportOwner, todo, decision, inserted, writes>>

(* session.flush(): the UPDATE waits for the row lock, then holds it.      *)
FlushExpired(r) ==
  LET a == Current(r)
  IN /\ pc[r] = "flush" /\ owner[a] = Nobody
     /\ local[r][a] = "expired"
     /\ IF decision[r].bulk
          THEN /\ owner' = [owner EXCEPT ![a] = r]
               /\ Advance(r)
               /\ UNCHANGED <<dbVars, reportOwner, decision, local, inserted>>
          ELSE Rollback(r, "refused")
     /\ UNCHANGED writes

FlushRejected(r) ==
  LET a == Current(r)
  IN /\ pc[r] = "flush" /\ owner[a] = Nobody
     /\ local[r][a] = "rejected"
     /\ owner' = [owner EXCEPT ![a] = r]
     /\ Advance(r)
     /\ UNCHANGED <<dbVars, reportOwner, decision, local, inserted, writes>>

(* Mutant: the payload is executed before the flush.                       *)
ExecuteUnlocked(r) ==
  /\ pc[r] = "flush" /\ local[r][Current(r)] = "approved"
  /\ GoTo(r, "execute")
  /\ UNCHANGED <<dbVars, owner, reportOwner, todo, decision, local, inserted, writes>>

FlushApproved(r) ==
  LET a == Current(r)
  IN /\ pc[r] = "flush" /\ owner[a] = Nobody
     /\ local[r][a] = "approved"
     /\ owner' = [owner EXCEPT ![a] = r]
     /\ GoTo(r, "execute")
     /\ UNCHANGED <<dbVars, reportOwner, todo, decision, local, inserted, writes>>

Flush(r) == FlushExpired(r) \/ FlushRejected(r) \/ FlushApproved(r)

(* The handler returned: COMMIT.                                           *)
Commit(r) ==
  /\ pc[r] = "next" /\ todo[r] = <<>>
  /\ CommitRows(r)
  /\ GoTo(r, "done")
  /\ UNCHANGED writes

----------------------------------------------------------------------------
(* Execution of an approved payload.                                       *)

(* Approval.effective_payload is `edited_payload or payload`, and {} is    *)
(* falsy: an empty edit does not replace the proposal.  An approval that   *)
(* is pending carries no edit of an earlier decision.                      *)
EffectivePayload(r, a) ==
  IF decision[r].edit \in Payloads THEN decision[r].edit ELSE Proposed[a]

Parses(r, a) == EffectivePayload(r, a) \notin Malformed

(* The source_ref, or the report, that the effective payload names.        *)
RefOf(r, a) == Ref[EffectivePayload(r, a)]

(* find_by_source_ref: rows this transaction can see, people's included.   *)
NoRecheck(r) == {}    \* mutant

KnownRefs(r) == {i.ref : i \in raidItems \union inserted[r]} \union byHand

Known(r, a) == RefOf(r, a) # NoRef /\ RefOf(r, a) \in KnownRefs(r)

ExternalWrite(r, a) ==
  writes' = writes \union
    {[approval |-> a, by |-> r, payload |-> EffectivePayload(r, a)]}

(* Mutant: a failed execution is recorded as a success.                    *)
SettleExecuted(r, a, outcome) ==
  /\ local' = [local EXCEPT ![r][a] = "executed"]
  /\ Advance(r)

Settle(r, a, outcome) ==
  /\ local' = [local EXCEPT ![r][a] = outcome]
  /\ Advance(r)

AddRaidItem(r, a, synced) ==
  inserted' = [inserted EXCEPT ![r] =
    @ \union {[approval |-> a, by |-> r, ref |-> RefOf(r, a), synced |-> synced]}]

(* A payload that does not parse raises ValueError, which is no            *)
(* AgentPMError: nothing catches it and the whole request rolls back.      *)
ParseError(r) ==
  LET a == Current(r)
  IN /\ pc[r] = "execute"
     /\ ~Parses(r, a)
     /\ Kind[a] = "raid" => ~Known(r, a)
     /\ Rollback(r, "error")
     /\ UNCHANGED writes

(* The same source_ref is in the RAID log already: nothing to add.         *)
SkipDuplicateRaid(r) ==
  LET a == Current(r)
  IN /\ pc[r] = "execute" /\ Kind[a] = "raid"
     /\ Known(r, a)
     /\ Settle(r, a, "executed")
     /\ UNCHANGED <<dbVars, owner, reportOwner, decision, inserted, writes>>

(* The RAID row is inserted; with a workbook the row goes there next.      *)
ExecuteRaid(r) ==
  LET a == Current(r)
  IN /\ pc[r] = "execute" /\ Kind[a] = "raid"
     /\ ~Known(r, a) /\ Parses(r, a)
     /\ IF Workbook
          THEN /\ GoTo(r, "append")
               /\ UNCHANGED <<todo, local, inserted>>
          ELSE /\ AddRaidItem(r, a, FALSE)
               /\ Settle(r, a, "executed")
     /\ UNCHANGED <<dbVars, owner, reportOwner, decision, writes>>

(* storage.append_raid_row: the row may have been added even when the call *)
(* fails.  On failure the RAID row stays, unsynced.                        *)
AppendToWorkbook(r) ==
  LET a == Current(r)
  IN /\ pc[r] = "append" /\ Kind[a] = "raid"
     /\ \/ /\ ExternalWrite(r, a)
           /\ AddRaidItem(r, a, TRUE)
           /\ Settle(r, a, "executed")
        \/ /\ \/ ExternalWrite(r, a)
              \/ UNCHANGED writes
           /\ AddRaidItem(r, a, FALSE)
           /\ Settle(r, a, "execution_failed")
     /\ UNCHANGED <<dbVars, owner, reportOwner, decision>>

(* jira.apply_update: comment, labels, then the transition.  A failure may *)
(* come after the first of them was applied.  A payload with none of the   *)
(* three makes no call, and that is a success.                             *)
ExecuteJira(r) ==
  LET a == Current(r)
  IN /\ pc[r] = "execute" /\ Kind[a] = "jira"
     /\ Parses(r, a)
     /\ \/ /\ EffectivePayload(r, a) \in NoOps
           /\ Settle(r, a, "executed")
           /\ UNCHANGED writes
        \/ /\ EffectivePayload(r, a) \notin NoOps
           /\ ExternalWrite(r, a) /\ Settle(r, a, "executed")
        \/ /\ EffectivePayload(r, a) \notin NoOps
           /\ \/ ExternalWrite(r, a)
              \/ UNCHANGED writes
           /\ Settle(r, a, "execution_failed")
     /\ UNCHANGED <<dbVars, owner, reportOwner, decision, inserted>>

(* Approving a report touches the reports table only.  It fails when the   *)
(* payload names no report of the engagement; otherwise the flush of the   *)
(* report waits for its row lock, then holds it to the end of the request. *)
ExecuteReport(r) ==
  LET a == Current(r)
      report == RefOf(r, a)
  IN /\ pc[r] = "execute" /\ Kind[a] = "report"
     /\ Parses(r, a)
     /\ \/ /\ report = NoRef
           /\ Settle(r, a, "execution_failed")
           /\ UNCHANGED reportOwner
        \/ /\ report # NoRef /\ reportOwner[report] \in {Nobody, r}
           /\ reportOwner' = [reportOwner EXCEPT ![report] = r]
           /\ Settle(r, a, "executed")
     /\ UNCHANGED <<dbVars, owner, decision, inserted, writes>>

Execute(r) ==
  \/ ParseError(r)
  \/ SkipDuplicateRaid(r)
  \/ ExecuteRaid(r)
  \/ AppendToWorkbook(r)
  \/ ExecuteJira(r)
  \/ ExecuteReport(r)

----------------------------------------------------------------------------
(* The expiry sweep.  One runs at a time (max_instances=1).                *)

(* Mutant: the comparison with now is the wrong way round.                 *)
NotYetStale == {a \in Approvals : status[a] = "pending" /\ ~due[a]}

Stale == {a \in Approvals : status[a] = "pending" /\ due[a]}

(* expire_stale reads up to SweepLimit stale rows and sets each to EXPIRED *)
(* in memory; the flush then updates them one after the other.             *)
SweepStart ==
  /\ pc[Sweep] = "idle"
  /\ \E n \in 1..SweepLimit : \E rows \in [1..n -> Stale] :
       /\ \A i, j \in 1..n : rows[i] = rows[j] => i = j
       /\ n = SweepLimit \/ \A a \in Stale : \E i \in 1..n : rows[i] = a
       /\ todo' = [todo EXCEPT ![Sweep] = rows]
  /\ local' = [local EXCEPT ![Sweep] = [a \in Approvals |-> "expired"]]
  /\ GoTo(Sweep, "flush")
  /\ UNCHANGED <<dbVars, owner, reportOwner, decision, inserted, writes>>

(* The session flushes the rows in the order of their primary keys, which  *)
(* says nothing about the order in which they were read: any order here.   *)
SweepFlush ==
  LET a == Current(Sweep)
  IN /\ pc[Sweep] = "flush" /\ owner[a] = Nobody
     /\ owner' = [owner EXCEPT ![a] = Sweep]
     /\ todo' = [todo EXCEPT ![Sweep] = Tail(@)]
     /\ GoTo(Sweep, IF Tail(todo[Sweep]) = <<>> THEN "next" ELSE "flush")
     /\ UNCHANGED <<dbVars, reportOwner, decision, local, inserted, writes>>

SweepCommit ==
  /\ pc[Sweep] = "next"
  /\ CommitRows(Sweep)
  /\ GoTo(Sweep, "idle")
  /\ UNCHANGED writes

----------------------------------------------------------------------------
(* What cuts a transaction short.                                          *)

AfterAbort(t) == IF t = Sweep THEN "idle" ELSE "aborted"

(* The process dies, the connection drops, a statement times out.          *)
Crash(t) ==
  /\ pc[t] \in {"next", "flush", "execute", "append"}
  /\ MayCrash
  /\ Rollback(t, AfterAbort(t))
  /\ UNCHANGED writes

AtReport(t) ==
  /\ t \in Requests /\ pc[t] = "execute" /\ Kind[Current(t)] = "report"
  /\ Parses(t, Current(t)) /\ RefOf(t, Current(t)) # NoRef

(* Who holds the row lock that the next UPDATE of t needs.                 *)
Holder(t) ==
  IF pc[t] = "flush" THEN owner[Current(t)]
  ELSE IF AtReport(t) THEN reportOwner[RefOf(t, Current(t))] ELSE Nobody

Blocked(t) == Holder(t) \notin {Nobody, t}

(* t waits for itself: every member of some set waits for a lock, and the  *)
(* owners they wait for are exactly that set.                              *)
Deadlocked(t) ==
  \E S \in SUBSET Txns :
    /\ t \in S
    /\ \A u \in S : Blocked(u)
    /\ {Holder(u) : u \in S} = S

(* PostgreSQL breaks a cycle by failing one of its transactions.           *)
DeadlockAbort(t) ==
  /\ Deadlocked(t)
  /\ Rollback(t, AfterAbort(t))
  /\ UNCHANGED writes

(* The approval's expires_at passes.                                       *)
Deadline(a) ==
  /\ ~due[a]
  /\ due' = [due EXCEPT ![a] = TRUE]
  /\ UNCHANGED <<status, decidedBy, edited, raidItems, byHand, txnVars, writes>>

(* raid_service.create: somebody adds a row to the RAID log themselves.    *)
AddByHand(x) ==
  /\ x \notin byHand
  /\ byHand' = byHand \union {x}
  /\ UNCHANGED <<status, decidedBy, edited, raidItems, due, txnVars, writes>>

----------------------------------------------------------------------------
Handle(r) ==
  \/ Refuse(r) \/ Decide(r)
  \/ Flush(r) \/ Execute(r) \/ Commit(r)

RunSweep == SweepStart \/ SweepFlush \/ SweepCommit

(* Nothing is left to do: every request was answered and no row is stale.  *)
Quiescent ==
  /\ \A r \in Requests : pc[r] \in Ended
  /\ pc[Sweep] = "idle" /\ Stale = {}
  /\ UNCHANGED vars

Next ==
  \/ \E r \in Requests : Receive(r) \/ Handle(r)
  \/ RunSweep
  \/ \E t \in Txns : Crash(t) \/ DeadlockAbort(t)
  \/ \E a \in Approvals : Deadline(a)
  \/ \E x \in HandRefs : AddByHand(x)
  \/ Quiescent

Spec == Init /\ [][Next]_vars

(* The server keeps running each request it received, the worker keeps     *)
(* running the sweep, PostgreSQL breaks deadlocks and serves the waiters   *)
(* of a row lock in turn (strong fairness of the two UPDATEs that wait: a  *)
(* sweep that is aborted and starts again does not overtake a request).    *)
Fairness ==
  /\ \A r \in Requests :
       WF_vars(Handle(r)) /\ SF_vars(Flush(r)) /\ SF_vars(ExecuteReport(r))
  /\ WF_vars(RunSweep)
  /\ \A t \in Txns : WF_vars(DeadlockAbort(t))

FairSpec == Spec /\ Fairness

----------------------------------------------------------------------------
(* Properties.                                                             *)

TypeOK ==
  /\ status \in [Approvals -> Statuses]
  /\ decidedBy \in [Approvals -> Requests \union {Nobody}]
  /\ edited \in [Approvals -> Payloads \union {NoEdit, EmptyEdit}]
  /\ raidItems \subseteq RaidRow
  /\ byHand \subseteq Refs
  /\ due \in [Approvals -> BOOLEAN]
  /\ owner \in [Approvals -> Txns \union {Nobody}]
  /\ reportOwner \in [Refs -> Requests \union {Nobody}]
  /\ pc \in [Txns -> Places]
  /\ todo \in [Txns -> Seq(Approvals)]
  /\ decision \in [Requests -> Decision \union {Nobody}]
  /\ local \in [Txns -> [Approvals -> Statuses]]
  /\ inserted \in [Txns -> SUBSET RaidRow]
  /\ writes \subseteq Write

(* The sweep only ever sets EXPIRED, and inserts nothing.                  *)
SweepInv ==
  /\ pc[Sweep] \in {"idle", "flush", "next"}
  /\ pc[Sweep] = "flush" => todo[Sweep] # <<>>
  /\ pc[Sweep] # "idle" => \A a \in Approvals : local[Sweep][a] = "expired"
  /\ pc[Sweep] = "idle" => \A a \in Approvals : owner[a] # Sweep
  /\ inserted[Sweep] = {}

(* A request that has arrived has its decision; one that is at an approval *)
(* has that approval in its list.                                          *)
Arrived ==
  \A r \in Requests :
    /\ pc[r] # "idle" => decision[r] \in Decision
    /\ pc[r] \in {"flush", "execute", "append"} => todo[r] # <<>>

(* What a request has done so far is covered by the row locks it holds.    *)
CoveredByLocks(r) ==
  /\ pc[r] \in Ended \union {"idle"} =>
       /\ inserted[r] = {}
       /\ \A a \in Approvals : owner[a] # r /\ local[r][a] = "pending"
  /\ pc[r] \in {"execute", "append"} =>
       owner[Current(r)] = r /\ local[r][Current(r)] = "approved"
  /\ \A a \in Approvals : local[r][a] = "approved" =>
       pc[r] \in {"flush", "execute", "append"} /\ a = Current(r)
  /\ \A a \in Approvals :
       local[r][a] \in {"executed", "execution_failed"} => owner[a] = r
  /\ \A i \in inserted[r] : i.by = r /\ owner[i.approval] = r

LockInv == \A r \in Requests : CoveredByLocks(r)

(* The source_ref a request found free stays free, among the rows of this  *)
(* approval, while it holds the approval's lock.                           *)
RaidInv ==
  /\ \A r \in Requests : pc[r] = "append" /\ RefOf(r, Current(r)) # NoRef =>
       \A i \in raidItems \union inserted[r] :
         ~(i.approval = Current(r) /\ i.ref = RefOf(r, Current(r)))
  /\ \A r \in Requests : \A i \in inserted[r] :
       \A j \in raidItems \union inserted[r] :
         i.approval = j.approval /\ i.ref = j.ref /\ i.ref # NoRef => i = j

Range(s) == {s[i] : i \in DOMAIN s}

Executing(r, a) == pc[r] \in {"execute", "append"} /\ Current(r) = a

HasExecuted(r, a) == local[r][a] \in {"executed", "execution_failed"}

(* The row lock taken by the flush of APPROVED makes execution exclusive:  *)
(* while one request is executing an approval, or has executed it and not  *)
(* committed, no other request is doing so.  (approval_service.py, decide: *)
(* the flush comes before _execute.)                                       *)
ExecutionExclusive ==
  \A a \in Approvals : \A r1, r2 \in Requests :
    /\ Executing(r1, a) \/ HasExecuted(r1, a)
    /\ Executing(r2, a) \/ HasExecuted(r2, a)
    => r1 = r2

(* "Zero unapproved writes": every external write was asked for by a       *)
(* request of someone who may approve, that approved this very approval,   *)
(* and it carries that request's edit if there was a non-empty one, and    *)
(* what the agent proposed otherwise.                                      *)
WritesAuthorised ==
  \A w \in writes :
    LET d == decision[w.by]
    IN /\ d # Nobody
       /\ d.approver /\ d.approve
       /\ w.approval \in Range(d.ids)
       /\ w.payload = IF d.edit \in Payloads THEN d.edit ELSE Proposed[w.approval]

(* One transaction per request (deps.get_db): nothing a request decided or *)
(* inserted is in the database unless the request committed as a whole.    *)
OnlyDoneDecides ==
  /\ \A a \in Approvals : decidedBy[a] # Nobody => pc[decidedBy[a]] = "done"
  /\ \A i \in raidItems : pc[i.by] = "done"

(* APPROVED is never committed: whatever happens to the execution, the     *)
(* database goes from PENDING to an outcome, so no approval is stuck       *)
(* between its decision and its execution.                                 *)
NoHalfDecision == \A a \in Approvals : status[a] # "approved"

(* A committed EXECUTED is true of the payload that its decider's edit or  *)
(* the agent gave it: a Jira payload that asks for anything was written by *)
(* that request, a RAID payload found or left a row with its source_ref    *)
(* (without one, a row of its own), a report payload names a report.       *)
ExecutedIsBacked ==
  \A a \in Approvals : status[a] = "executed" =>
    LET r == decidedBy[a]
        p == EffectivePayload(r, a)
    IN /\ Kind[a] = "jira" /\ p \notin NoOps =>
            [approval |-> a, by |-> r, payload |-> p] \in writes
       /\ Kind[a] = "raid" =>
            \/ Ref[p] \in byHand
            \/ \E i \in raidItems :
                 IF Ref[p] = NoRef THEN i.approval = a /\ i.by = r
                                   ELSE i.ref = Ref[p]
       /\ Kind[a] = "report" => Ref[p] # NoRef

(* Even when two requests both found the approval pending and both execute *)
(* it, the RAID log gets one row for it and its source_ref: the second one *)
(* re-checks the source_ref after it got the row lock, hence after the     *)
(* first committed.  An edit that drops or changes the source_ref escapes  *)
(* the check, so it may still add a row of its own.                        *)
OneRaidRowPerApproval ==
  \A i, j \in raidItems :
    i.approval = j.approval /\ i.ref = j.ref /\ i.ref # NoRef => i = j

(* What the safety proofs rest on: the sweep and the requests are where    *)
(* their lists say, what they have done is covered by the row locks they   *)
(* hold, and a source_ref found free stays free while its lock is held.    *)
InductiveInv == SweepInv /\ Arrived /\ LockInv /\ RaidInv

(* Every request that arrived is answered, whatever it waits for.          *)
EveryRequestEnds ==
  \A r \in Requests : pc[r] = "next" ~> pc[r] \in Ended

(* An approval nobody decided in time does not stay pending.               *)
StaleIsSettled ==
  \A a \in Approvals :
    (status[a] = "pending" /\ due[a]) ~> status[a] # "pending"

----------------------------------------------------------------------------
(* The queue implements the gate.                                          *)

Granting(r) == decision[r] # Nobody /\ decision[r].approver /\ decision[r].approve

GrantedBy(r) == {[approval |-> a, by |-> r, payload |-> EffectivePayload(r, a)] :
                   a \in Range(decision[r].ids)}

Granted == UNION {GrantedBy(r) : r \in {q \in Requests : Granting(q)}}

Outcome(s) ==
  CASE s \in {"rejected", "expired"} -> "denied"
    [] s = "executed" -> "executed"
    [] s = "execution_failed" -> "failed"
    [] OTHER -> "pending"

Gate == INSTANCE ApprovalGate WITH
  granted <- Granted,
  sent <- writes,
  outcome <- [a \in Approvals |-> Outcome(status[a])],
  MustSend <- {a \in Approvals : Kind[a] = "jira"} \X (Payloads \ NoOps)

(* Every step of the queue is a grant, a send of something granted, the    *)
(* record of outcomes that were granted, or invisible to the gate.         *)
ImplementsGate == Gate!Spec

----------------------------------------------------------------------------
(* What the repository's comments say, and the code does not keep.         *)

(* approval_service.py, decide: expiry is checked again there "so a stale  *)
(* card cannot be approved late".                                          *)
ExpiredNotExecuted ==
  [][\A a \in Approvals :
       status[a] = "expired" => status'[a] \notin {"executed", "execution_failed"}]_vars

(* models/approval.py: "the approved payload and the executed payload are  *)
(* the same object".  The row of an executed Jira update shows the payload *)
(* that the request named as its decider sent.                             *)
ApprovedIsExecuted ==
  \A a \in Approvals : \A w \in writes :
    /\ status[a] = "executed" /\ w.approval = a /\ w.by = decidedBy[a]
    => w.payload = IF edited[a] \in Payloads THEN edited[a] ELSE Proposed[a]

(* approval_service.py, decide_bulk: "One bad approval must not abort the  *)
(* rest of the batch."                                                     *)
BadItemIsolated ==
  \A r \in Requests : pc[r] = "error" => ~decision[r].bulk
============================================================================
