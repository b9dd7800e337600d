---------------------------- MODULE MeetingIntake ----------------------------
(***************************************************************************)
(* The meeting-outcome webhook.  The Meeting Agent delivers an envelope,   *)
(* may deliver it again, and may do so while the first delivery is still   *)
(* being worked on.  A delivery is stored, checked, run through the agent  *)
(* and turned into approvals and action items in ONE transaction, which    *)
(* the unique constraint on external_id keeps exclusive per meeting: the   *)
(* INSERT of a second delivery waits for the first to end.  Meanwhile      *)
(* people create, change and delete items of the same engagement by hand,  *)
(* which the look for duplicates sees too.                                 *)
(***************************************************************************)
EXTENDS Naturals, Sequences

CONSTANTS
  Requests,    \* deliveries, each sent once
  Meetings,    \* external ids
  Agenda,      \* [Meetings -> Seq(Action)]: what a meeting asks to be done
  Titles, Refs,
  Envelopes,   \* what may be delivered
  ByHand,      \* items people may create
  Malformed,   \* meetings whose payload the contract's model refuses
  NoEvent, Nobody, NoRef,
  MaxFaults,   \* bound on runs that fail and requests cut short, together
  MaxEdits     \* bound on what people do to the items

Action == [title : Titles, ref : Refs]

(* consented: the consent flag; bound: a supported contract version and a  *)
(* known engagement.                                                       *)
Envelope == [meeting : Meetings, signed : BOOLEAN, consented : BOOLEAN,
             bound : BOOLEAN]

Status == {"received", "rejected", "processed"}
Event == [by : Requests, consented : BOOLEAN, status : Status]
Item == [by : Requests \union {Nobody}, n : Nat, title : Titles, ref : Refs \union {NoRef}]

ASSUME IntakeConstants ==
  /\ Agenda \in [Meetings -> Seq(Action)]
  /\ Malformed \subseteq Meetings
  /\ Envelopes \subseteq Envelope
  /\ ByHand \subseteq [title : Titles, ref : Refs \union {NoRef}]
  /\ MaxFaults \in Nat /\ MaxEdits \in Nat
  /\ NoEvent \notin Event /\ Nobody \notin Requests \union Meetings /\ NoRef \notin Refs

VARIABLES
  event,       \* [Meetings -> Event \union {NoEvent}]: table agent_events
  items,       \* table action_items
  open,        \* those that are open or in progress
  past,        \* every state of an item that was ever committed
  produced,    \* requests whose approvals and pm_summary are stored
  holder,      \* the request with an uncommitted event of the meeting
  pc,
  secret,      \* a webhook secret is configured
  envelope,    \* what each request carries
  draft,       \* the status of its uncommitted event
  staged,      \* its uncommitted items
  next,        \* the agenda entry it considers
  skipped,     \* its run had nothing to say
  faults, edits

dbVars == <<event, items, open, past, produced>>
txnVars == <<holder, draft, staged, next, skipped>>
world == <<secret, envelope, edits>>   \* what no delivery changes
vars == <<dbVars, txnVars, pc, world, faults>>

Meeting(r) == envelope[r].meeting
Ended == {"answered", "failed", "refused", "error", "aborted"}
Working == {"process", "run", "create", "commit"}

Init ==
  /\ event = [m \in Meetings |-> NoEvent]
  /\ items = {} /\ open = {} /\ past = {} /\ produced = {}
  /\ holder = [m \in Meetings |-> Nobody]
  /\ pc = [r \in Requests |-> "idle"]
  /\ secret \in BOOLEAN
  /\ envelope \in [Requests -> Envelopes]
  /\ draft = [r \in Requests |-> "received"]
  /\ staged = [r \in Requests |-> {}]
  /\ next = [r \in Requests |-> 1]
  /\ skipped = [r \in Requests |-> FALSE]
  /\ faults = 0 /\ edits = 0

GoTo(r, place) == pc' = [pc EXCEPT ![r] = place]

(* Mutant: who waits is never woken.                                       *)
HoldOn(r, place) ==
  /\ staged' = [staged EXCEPT ![r] = {}]
  /\ GoTo(r, place)
  /\ UNCHANGED holder

(* The transaction is over: whoever waits to store the meeting may go on.  *)
Release(r, place) ==
  /\ holder' = [m \in Meetings |-> IF holder[m] = r THEN Nobody ELSE holder[m]]
  /\ staged' = [staged EXCEPT ![r] = {}]
  /\ GoTo(r, place)

Rollback(r, place) ==
  /\ Release(r, place)
  /\ UNCHANGED <<dbVars, draft, next, skipped, world>>

----------------------------------------------------------------------------
(* Intake.                                                                 *)

(* Without a secret, as by default, anybody's delivery is taken.           *)
Trusted(r) == secret => envelope[r].signed

Receive(r) ==
  /\ pc[r] = "idle"
  /\ GoTo(r, IF Trusted(r) THEN "check" ELSE "refused")
  /\ UNCHANGED <<dbVars, txnVars, world, faults>>

(* Mutants: redelivery is not looked for and overwrites what is there; a   *)
(* delivery that is still being worked on counts as received.              *)
NeverSeen(m) == FALSE
UnderWay(m) == event[m] # NoEvent \/ holder[m] # Nobody

Known(m) == event[m] # NoEvent

(* find_by_external_id sees only what is committed.                        *)
FindDuplicate(r) ==
  /\ pc[r] = "check"
  /\ GoTo(r, IF Known(Meeting(r)) THEN "answered" ELSE "store")
  /\ UNCHANGED <<dbVars, txnVars, world, faults>>

(* Mutants: the consent flag is not looked at; nor is an unknown slug.     *)
AnyConsent(e) == TRUE
ConsentOnly(e) == ~e.consented

Consented(e) == e.consented
Rejected(e) == ~Consented(e) \/ ~e.bound
Processable(e) == Consented(e) /\ e.bound

(* The INSERT waits for an uncommitted one of the same external_id.        *)
Store(r) ==
  LET m == Meeting(r)
  IN /\ pc[r] = "store" /\ holder[m] = Nobody /\ ~Known(m)
     /\ holder' = [holder EXCEPT ![m] = r]
     /\ IF Rejected(envelope[r])
          THEN draft' = [draft EXCEPT ![r] = "rejected"] /\ GoTo(r, "commit")
          ELSE GoTo(r, "process") /\ UNCHANGED draft
     /\ UNCHANGED <<dbVars, staged, next, skipped, world, faults>>

(* The delivery that won has committed: the unique constraint refuses this *)
(* one, and nothing catches the error.                                     *)
Conflict(r) ==
  /\ pc[r] = "store" /\ holder[Meeting(r)] = Nobody /\ Known(Meeting(r))
  /\ Rollback(r, "error")
  /\ UNCHANGED faults

----------------------------------------------------------------------------
(* Processing.                                                             *)

(* assert_processable, again.  The event stays as intake stored it.        *)
Process(r) ==
  /\ pc[r] = "process"
  /\ GoTo(r, IF Processable(envelope[r]) THEN "run" ELSE "commit")
  /\ UNCHANGED <<dbVars, txnVars, world, faults>>

(* The run raises.  The runner has rolled the session back, event and all, *)
(* so mark_processed sets FAILED on a row that is no longer in any session.*)
(* The route answers a domain error with 200; any other error, as the      *)
(* contract's ValidationError, is a 500.                                   *)
FailRun(r) ==
  /\ pc[r] = "run"
  /\ \/ /\ Meeting(r) \in Malformed
        /\ Rollback(r, "error") /\ UNCHANGED faults
     \/ /\ Meeting(r) \notin Malformed
        /\ faults < MaxFaults /\ faults' = faults + 1
        /\ \E answer \in {"failed", "error"} : Rollback(r, answer)

(* An outcome without any decision, action or risk.                        *)
SkipRun(r) ==
  /\ pc[r] = "run" /\ Meeting(r) \notin Malformed /\ Agenda[Meeting(r)] = <<>>
  /\ draft' = [draft EXCEPT ![r] = "processed"]
  /\ skipped' = [skipped EXCEPT ![r] = TRUE]
  /\ GoTo(r, "commit")
  /\ UNCHANGED <<dbVars, holder, staged, next, world, faults>>

SucceedRun(r) ==
  /\ pc[r] = "run" /\ Meeting(r) \notin Malformed
  /\ GoTo(r, "create")
  /\ UNCHANGED <<dbVars, txnVars, world, faults>>

(* find_duplicate: an open item of the engagement with this ref or title,  *)
(* whoever created it and whatever it was called before.                   *)
Duplicate(a) == \E i \in open : i.ref = a.ref \/ i.title = a.title

(* create_many, one entry: autoflush is off, so the query does not see     *)
(* what this very batch has added.                                         *)
Consider(r) ==
  LET agenda == Agenda[Meeting(r)]
      a == agenda[next[r]]
      item == [by |-> r, n |-> next[r], title |-> a.title, ref |-> a.ref]
  IN /\ pc[r] = "create" /\ next[r] \in DOMAIN agenda
     /\ staged' = [staged EXCEPT ![r] = IF Duplicate(a) THEN @ ELSE @ \union {item}]
     /\ next' = [next EXCEPT ![r] = @ + 1]
     /\ UNCHANGED <<dbVars, holder, draft, skipped, pc, world, faults>>

(* Mutant: the loop ends one entry early.                                  *)
FinishEarly(r) ==
  /\ pc[r] = "create" /\ next[r] + 1 \notin DOMAIN Agenda[Meeting(r)]
  /\ draft' = [draft EXCEPT ![r] = "processed"]
  /\ GoTo(r, "commit")
  /\ UNCHANGED <<dbVars, holder, staged, next, skipped, world, faults>>

(* mark_processed, and the pm_summary event.                               *)
Finish(r) ==
  /\ pc[r] = "create" /\ next[r] \notin DOMAIN Agenda[Meeting(r)]
  /\ draft' = [draft EXCEPT ![r] = "processed"]
  /\ GoTo(r, "commit")
  /\ UNCHANGED <<dbVars, holder, staged, next, skipped, world, faults>>

Commit(r) ==
  LET m == Meeting(r)
  IN /\ pc[r] = "commit"
     /\ event' = [event EXCEPT ![m] =
          [by |-> r, consented |-> envelope[r].consented, status |-> draft[r]]]
     /\ items' = items \union staged[r]
     /\ open' = open \union staged[r]
     /\ past' = past \union staged[r]
     /\ produced' = IF draft[r] = "processed" /\ ~skipped[r]
                      THEN produced \union {r} ELSE produced
     /\ Release(r, "answered")
     /\ UNCHANGED <<draft, next, skipped, world, faults>>

----------------------------------------------------------------------------
(* The process dies or the connection drops before the commit.             *)
Crash(r) ==
  /\ pc[r] \in Working \union {"check", "store"}
  /\ faults < MaxFaults /\ faults' = faults + 1
  /\ Rollback(r, "aborted")

----------------------------------------------------------------------------
(* People and the items.                                                   *)

Edit ==
  /\ edits < MaxEdits /\ edits' = edits + 1
  /\ UNCHANGED <<event, produced, txnVars, pc, secret, envelope, faults>>

(* Created by hand: nothing is looked for, and a ref may be given.         *)
Create(a) ==
  LET i == [by |-> Nobody, n |-> edits, title |-> a.title, ref |-> a.ref]
  IN /\ Edit
     /\ items' = items \union {i}
     /\ open' = open \union {i}
     /\ past' = past \union {i}

(* PATCH: another title, or another status.  The ref is not offered.       *)
Update(i, title, isOpen) ==
  LET j == [i EXCEPT !.title = title]
  IN /\ Edit
     /\ j # i \/ isOpen # (i \in open)
     /\ items' = (items \ {i}) \union {j}
     /\ open' = (open \ {i}) \union (IF isOpen THEN {j} ELSE {})
     /\ past' = past \union {j}

Delete(i) ==
  /\ Edit
  /\ items' = items \ {i}
  /\ open' = open \ {i}
  /\ UNCHANGED past

Handle(r) ==
  \/ Receive(r) \/ FindDuplicate(r) \/ Store(r) \/ Conflict(r) \/ Process(r)
  \/ FailRun(r) \/ SkipRun(r) \/ SucceedRun(r) \/ Consider(r) \/ Finish(r)
  \/ Commit(r)

People ==
  \/ \E a \in ByHand : Create(a)
  \/ \E i \in items : Delete(i) \/ \E title \in Titles, isOpen \in BOOLEAN : Update(i, title, isOpen)

Next == (\E r \in Requests : Handle(r) \/ Crash(r)) \/ People

Spec == Init /\ [][Next]_vars

(* A request that arrived keeps running.                                   *)
FairSpec == Spec /\ \A r \in Requests : WF_vars(Handle(r))

----------------------------------------------------------------------------
(* Properties.                                                             *)

TypeOK ==
  /\ event \in [Meetings -> Event \union {NoEvent}]
  /\ past \subseteq Item /\ items \subseteq past /\ open \subseteq items
  /\ produced \subseteq Requests
  /\ holder \in [Meetings -> Requests \union {Nobody}]
  /\ pc \in [Requests -> {"idle", "check", "store"} \union Working \union Ended]
  /\ secret \in BOOLEAN
  /\ envelope \in [Requests -> Envelope]
  /\ draft \in [Requests -> Status]
  /\ staged \in [Requests -> SUBSET Item]
  /\ next \in [Requests -> Nat]
  /\ skipped \in [Requests -> BOOLEAN]
  /\ faults \in 0..MaxFaults
  /\ edits \in 0..MaxEdits

(* However often and however concurrently a meeting is delivered, one      *)
(* delivery at most turns into approvals, a summary and action items.      *)
AtMostOnce ==
  /\ \A q, r \in produced : Meeting(q) = Meeting(r) => q = r
  /\ \A i \in past : i.by \in produced \union {Nobody}

(* Nothing comes of an envelope that is unconsented, that names no known   *)
(* engagement or, where a secret is configured, that is not signed with it:*)
(* neither approvals, nor a summary, nor an item.                          *)
ConsentGate ==
  \A r \in Requests :
    r \in produced \/ (\E i \in past : i.by = r)
      => /\ envelope[r].consented /\ envelope[r].bound
         /\ secret => envelope[r].signed

(* What is committed of the deliveries, as the ledger's promise has it.     *)
Decision(m) ==
  IF event[m] = NoEvent
    THEN [status |-> "none", consented |-> FALSE]
    ELSE [status |-> event[m].status, consented |-> event[m].consented]

Origin(i) == IF i.by = Nobody THEN Nobody ELSE Meeting(i.by)

Ledger == INSTANCE IntakeLedger WITH
  decision <- [m \in Meetings |-> Decision(m)],
  worked <- {Meeting(r) : r \in produced},
  entries <- {[meeting |-> Origin(i), title |-> i.title, ref |-> i.ref] : i \in past}

(* Deliveries that race, fail and are cut short look like a sequence of    *)
(* decisions, one for each meeting at most.  Each is made together with    *)
(* all that follows from it; none is RECEIVED, for a sweep that does not   *)
(* exist; items come only from people or from the agenda that was worked   *)
(* off, and leave no entry of it uncovered; and that takes consent.        *)
ImplementsLedger == Ledger!Spec

(* An envelope once stored is never replaced: the first decision stands,   *)
(* whatever a redelivery says.                                             *)
FirstDeliveryStands ==
  [][\A m \in Meetings : event[m] # NoEvent => event'[m] = event[m]]_vars

(* A delivery is only turned away as already received when what it repeats *)
(* is committed, for good: the Meeting Agent need not send the meeting     *)
(* again.  One that ended otherwise leaves nothing, so that a retry starts *)
(* from scratch; the one whose run failed among them, which is answered    *)
(* 200 all the same.                                                       *)
AnsweredIsStored ==
  \A r \in Requests :
    /\ pc[r] = "answered" => event[Meeting(r)] # NoEvent
    /\ pc[r] \in Ended \ {"answered"} =>
         /\ r \notin produced
         /\ \A m \in Meetings : event[m] # NoEvent => event[m].by # r

(* No entry of a processed meeting is dropped without reason: there is or  *)
(* was an item with its timestamp or its title, of this meeting or another *)
(* or created by hand, though people may have renamed, closed or deleted   *)
(* that one since.                                                         *)
EntryIsCovered ==
  \A r \in produced : \A k \in DOMAIN Agenda[Meeting(r)] :
    LET a == Agenda[Meeting(r)][k]
    IN \E i \in past : i.ref = a.ref \/ i.title = a.title

(* Requests that wait for one another's INSERT all end.                    *)
EveryDeliveryEnds ==
  \A r \in Requests : (pc[r] = "check") ~> (pc[r] \in Ended)

(* The inductive invariant: who works on a meeting holds its uncommitted   *)
(* event, and what is committed says who committed it.                     *)
IntakeInv ==
  /\ TypeOK
  /\ \A m \in Meetings : holder[m] # Nobody =>
       /\ event[m] = NoEvent
       /\ Meeting(holder[m]) = m /\ pc[holder[m]] \in Working
  /\ \A r \in Requests : pc[r] \in Working => holder[Meeting(r)] = r
  /\ \A r \in Requests : pc[r] \notin {"idle", "refused"} => Trusted(r)
  /\ \A r \in Requests :
       pc[r] \in {"process", "run", "create"}
         \/ (pc[r] = "commit" /\ draft[r] # "rejected") => Processable(envelope[r])
  /\ \A r \in Requests : pc[r] = "commit" => draft[r] # "received"
  /\ \A r \in Requests : pc[r] \notin Ended \union {"commit"} => ~skipped[r]
  /\ \A r \in Requests : staged[r] # {} =>
       /\ ~skipped[r]
       /\ pc[r] = "create" \/ (pc[r] = "commit" /\ draft[r] = "processed")
       /\ \A i \in staged[r] : i.by = r
  /\ \A r \in produced :
       /\ event[Meeting(r)] # NoEvent /\ event[Meeting(r)].by = r
       /\ Processable(envelope[r]) /\ Trusted(r)
  /\ \A m \in Meetings : event[m] # NoEvent =>
       /\ pc[event[m].by] = "answered" /\ Meeting(event[m].by) = m
       /\ event[m].status # "received"
       /\ event[m].status = "processed" => event[m].consented
  /\ \A r \in Requests : pc[r] = "answered" => Known(Meeting(r))
  /\ \A i \in past : i.by \in produced \union {Nobody}

----------------------------------------------------------------------------
(* What the repository's comments say, and the code does not keep.         *)

(* routes/events.py: "Processing failures are recorded on the event, not   *)
(* returned as a 5xx, because a retry would re-deliver data we have already*)
(* accepted": who is answered that the run failed leaves an event.         *)
FailureIsRecorded ==
  \A r \in Requests : pc[r] = "failed" => Known(Meeting(r)) \/ holder[Meeting(r)] # Nobody
============================================================================
