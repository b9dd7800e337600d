------------------------------ MODULE NudgeSweep ------------------------------
(***************************************************************************)
(* Reminders and escalations of action items.  A sweep reads the open      *)
(* items, decides by due dates and a fatigue cap whom to remind and what   *)
(* to escalate, sends the reminders one by one, and commits only then what *)
(* it has sent.  The hourly sweep and one asked for through the API may    *)
(* overlap; people edit and delete items meanwhile; a sweep may die.       *)
(***************************************************************************)
EXTENDS Integers, FiniteSets

CONSTANTS
  Items, People,
  Reachable,       \* members with a channel identity and nudges enabled
  Sweepers,        \* who runs sweeps, one at a time each
  Scheduler,       \* the one that runs every hour
  Dues,            \* due dates; one past MaxTime + Lead stands for none
  Lead,            \* nudge_lead_time_hours
  Cooldown,        \* the 20 hours between two reminders of an item
  Window,          \* the 24 hours the cap looks back
  Cap,             \* max_nudges_per_person_per_day
  Gone,            \* an item deleted, or not there yet
  Owner, Due,      \* [Items -> ...]: of the items as they are entered
  MaxTime, MaxFaults, MaxEdits   \* bounds

ASSUME SweepConstants ==
  /\ IsFiniteSet(Items) /\ Reachable \subseteq People /\ Scheduler \in Sweepers /\ Dues \subseteq Nat
  /\ Owner \in [Items -> People] /\ Due \in [Items -> Dues]
  /\ Lead \in Nat /\ Cooldown \in Nat \ {0} /\ Window \in Nat /\ Cap \in Nat
  /\ MaxTime \in Nat /\ MaxFaults \in Nat /\ MaxEdits \in Nat

VARIABLES
  now,      \* the time
  item,     \* [Items -> Item \union {Gone}]: table action_items
  sent,     \* the direct messages, but those of a sweep that came to nothing
  pc,       \* what each sweeper does
  view,     \* the items as its sweep has read them
  todo,     \* reminders it still has to send
  done,     \* those it has sent
  late,     \* items it escalates
  known,    \* messages on record when it read (history)
  faults, edits

sweepVars == <<pc, view, todo, done, late, known>>
vars == <<now, item, sent, sweepVars, faults, edits>>

Never == 0 - Window - 1
Item == [owner : People, due : Dues, open : BOOLEAN, muted : BOOLEAN,
         last : {Never} \union 0..MaxTime, nudges : Nat, escalated : BOOLEAN]

(* kept: the sweep that sent it has committed.                             *)
Message == [item : Items, to : People, at : 0..MaxTime, by : Sweepers,
            kept : BOOLEAN]

Created(i) == [owner |-> Owner[i], due |-> Due[i], open |-> TRUE, muted |-> FALSE,
               last |-> Never, nudges |-> 0, escalated |-> FALSE]

Init ==
  /\ now = 0
  /\ \E later \in SUBSET Items :
       item = [i \in Items |-> IF i \in later THEN Gone ELSE Created(i)]
  /\ sent = {}
  /\ pc = [s \in Sweepers |-> "idle"]
  /\ view = [s \in Sweepers |-> item]
  /\ todo = [s \in Sweepers |-> {}] /\ done = todo /\ late = todo
  /\ known = [s \in Sweepers |-> {}]
  /\ faults = 0 /\ edits = 0

----------------------------------------------------------------------------
(* Deciding.                                                               *)

Existing == {i \in Items : item[i] # Gone}
OpenItems == {i \in Existing : item[i].open}

(* Messages are not counted, items are: those of the owner that are open   *)
(* and whose last reminder is recent.                                      *)
NudgesToday(p) ==
  Cardinality({i \in OpenItems : item[i].owner = p /\ item[i].last >= now - Window})

Overdue(i) == ~item[i].muted /\ item[i].due < now

(* Mutant: a reminder is repeated at every sweep.                          *)
Pressing(i) == ~item[i].muted /\ item[i].due >= now /\ item[i].due - now <= Lead

RemindableFor(i) ==
  /\ ~item[i].muted
  /\ item[i].due >= now /\ item[i].due - now <= Lead
  /\ now - item[i].last >= Cooldown

Candidates(p) == {i \in OpenItems : item[i].owner = p /\ RemindableFor(i)}

(* Mutant: one reminder past the cap.                                      *)
OneMore(p) ==
  LET used == NudgesToday(p) IN IF used > Cap THEN 0 ELSE Cap + 1 - used

Allowance(p) ==
  LET used == NudgesToday(p) IN IF used >= Cap THEN 0 ELSE Cap - used

(* The loop over the open items in the order of their due dates: the       *)
(* earliest are reminded of until the owner's cap is reached.              *)
Nudges(plan) ==
  /\ plan \subseteq UNION {Candidates(p) : p \in Reachable}
  /\ \A p \in Reachable :
       LET mine == plan \intersect Candidates(p)
           rest == Candidates(p) \ plan
       IN /\ Cardinality(mine) <= Allowance(p)
          /\ rest # {} => Cardinality(mine) = Allowance(p)
          /\ \A i \in mine, j \in rest : item[i].due <= item[j].due

(* Mutant: only what was reminded of before is escalated.                  *)
OnlyReminded == {i \in OpenItems : Overdue(i) /\ ~item[i].escalated /\ item[i].last # Never}

Escalations == {i \in OpenItems : Overdue(i) /\ ~item[i].escalated}

(* Reading and deciding.  A sweep with nothing to say changes nothing.     *)
Decide(s) ==
  /\ pc[s] = "idle"
  /\ \E plan \in SUBSET OpenItems :
       /\ Nudges(plan)
       /\ plan \union Escalations # {}
       /\ todo' = [todo EXCEPT ![s] = plan]
  /\ late' = [late EXCEPT ![s] = Escalations]
  /\ view' = [view EXCEPT ![s] = item]
  /\ known' = [known EXCEPT ![s] = {m \in sent : m.kept}]
  /\ pc' = [pc EXCEPT ![s] = "deliver"]
  /\ UNCHANGED <<now, item, sent, done, faults, edits>>

----------------------------------------------------------------------------
(* Delivering.                                                             *)

First(s, i) == \A j \in todo[s] : view[s][i].due <= view[s][j].due

Send(s, i) ==
  /\ pc[s] = "deliver" /\ i \in todo[s] /\ First(s, i)
  /\ sent' = sent \union {[item |-> i, to |-> view[s][i].owner, at |-> now,
                           by |-> s, kept |-> FALSE]}
  /\ done' = [done EXCEPT ![s] = @ \union {i}]
  /\ todo' = [todo EXCEPT ![s] = @ \ {i}]
  /\ UNCHANGED <<now, item, pc, view, late, known, faults, edits>>

(* Mutant: what could not be delivered is recorded all the same.           *)
FailRecorded(s, i) ==
  /\ pc[s] = "deliver" /\ i \in todo[s] /\ First(s, i)
  /\ faults < MaxFaults /\ faults' = faults + 1
  /\ done' = [done EXCEPT ![s] = @ \union {i}]
  /\ todo' = [todo EXCEPT ![s] = @ \ {i}]
  /\ UNCHANGED <<now, item, sent, pc, view, late, known, edits>>

(* The channel refuses: the item stays eligible.  (The Teams webhook does  *)
(* so with every direct message, and nobody is reminded: Reachable = {}.)  *)
FailToSend(s, i) ==
  /\ pc[s] = "deliver" /\ i \in todo[s] /\ First(s, i)
  /\ faults < MaxFaults /\ faults' = faults + 1
  /\ todo' = [todo EXCEPT ![s] = @ \ {i}]
  /\ UNCHANGED <<now, item, sent, pc, view, done, late, known, edits>>

Mine(s) == {m \in sent : m.by = s /\ ~m.kept}

(* The sweep is over; nobody but the recipients knows of the messages of   *)
(* one that is rolled back.                                                *)
End(s, kept) ==
  /\ sent' = {m \in sent : m.by # s \/ m.kept}
                \union {[m EXCEPT !.kept = TRUE] : m \in IF kept THEN Mine(s) ELSE {}}
  /\ pc' = [pc EXCEPT ![s] = "idle"]
  /\ todo' = [todo EXCEPT ![s] = {}]
  /\ done' = [done EXCEPT ![s] = {}]
  /\ late' = [late EXCEPT ![s] = {}]
  /\ known' = [known EXCEPT ![s] = {}]
  /\ view' = [view EXCEPT ![s] = [i \in Items |-> Gone]]
  /\ UNCHANGED <<now, edits>>

(* The UPDATE writes the columns the sweep has changed: the counter is one *)
(* more than it was when it was read.                                      *)
Written(s, i) ==
  LET was == item[i]
      reminded == IF i \notin done[s] THEN was
                  ELSE [was EXCEPT !.last = now, !.nudges = view[s][i].nudges + 1]
  IN [reminded EXCEPT !.escalated = @ \/ i \in late[s]]

Touched(s) == done[s] \union late[s]

Commit(s) ==
  /\ pc[s] = "deliver" /\ todo[s] = {} /\ Touched(s) \subseteq Existing
  /\ item' = [i \in Items |-> IF i \in Touched(s) THEN Written(s, i) ELSE item[i]]
  /\ End(s, TRUE)
  /\ UNCHANGED faults

(* An item was deleted meanwhile: its UPDATE finds no row, and all of the  *)
(* sweep is rolled back.                                                   *)
Stale(s) ==
  /\ pc[s] = "deliver" /\ todo[s] = {} /\ ~(Touched(s) \subseteq Existing)
  /\ End(s, FALSE)
  /\ UNCHANGED <<item, faults>>

Crash(s) ==
  /\ pc[s] = "deliver"
  /\ faults < MaxFaults /\ faults' = faults + 1
  /\ End(s, FALSE)
  /\ UNCHANGED item

Deliver(s) ==
  \/ \E i \in Items : Send(s, i) \/ FailToSend(s, i)
  \/ Commit(s) \/ Stale(s)

----------------------------------------------------------------------------
(* People, and the clock.                                                  *)

Edit(i, new) ==
  /\ edits < MaxEdits /\ edits' = edits + 1
  /\ item[i] # Gone /\ new # item[i]
  /\ item' = [item EXCEPT ![i] = new]
  /\ UNCHANGED <<now, sent, sweepVars, faults>>

(* PATCH: any field the schema lets through.  A new due date leaves        *)
(* escalated_at and last_nudged_at as they were.                           *)
Update(i) ==
  \/ \E open \in BOOLEAN : Edit(i, [item[i] EXCEPT !.open = open])
  \/ \E due \in Dues : Edit(i, [item[i] EXCEPT !.due = due])
  \/ \E p \in People : Edit(i, [item[i] EXCEPT !.owner = p])
  \/ \E muted \in BOOLEAN : Edit(i, [item[i] EXCEPT !.muted = muted])

Delete(i) == Edit(i, Gone)

(* A new row: no message and no sweep knows it.                            *)
Create(i) ==
  /\ edits < MaxEdits /\ edits' = edits + 1
  /\ item[i] = Gone /\ \A m \in sent : m.item # i
  /\ \A s \in Sweepers : pc[s] = "deliver" => view[s][i] = Gone
  /\ item' = [item EXCEPT ![i] = Created(i)]
  /\ UNCHANGED <<now, sent, sweepVars, faults>>

(* A sweep takes minutes, the unit of time is hours.                       *)
Tick ==
  /\ now < MaxTime /\ now' = now + 1
  /\ \A s \in Sweepers : pc[s] = "idle"
  /\ UNCHANGED <<item, sent, sweepVars, faults, edits>>

Next ==
  \/ \E s \in Sweepers : Decide(s) \/ Deliver(s) \/ Crash(s)
  \/ \E i \in Items : item[i] # Gone /\ (Update(i) \/ Delete(i))
  \/ \E i \in Items : Create(i)
  \/ Tick

(* The scheduler starts its sweep again and again, and a sweep goes on.    *)
Spec ==
  /\ Init /\ [][Next]_vars
  /\ WF_vars(Decide(Scheduler))
  /\ \A s \in Sweepers : WF_vars(Deliver(s))

----------------------------------------------------------------------------
(* Properties.                                                             *)

TypeOK ==
  /\ now \in 0..MaxTime
  /\ item \in [Items -> Item \union {Gone}]
  /\ sent \subseteq Message
  /\ pc \in [Sweepers -> {"idle", "deliver"}]
  /\ view \in [Sweepers -> [Items -> Item \union {Gone}]]
  /\ todo \in [Sweepers -> SUBSET Items] /\ done \in [Sweepers -> SUBSET Items]
  /\ late \in [Sweepers -> SUBSET Items]
  /\ \A s \in Sweepers : todo[s] \intersect (done[s] \union late[s]) = {}
  /\ known \in [Sweepers -> SUBSET Message]
  /\ faults \in 0..MaxFaults /\ edits \in 0..MaxEdits

(* "Count only nudges that were actually delivered": whatever overlaps,    *)
(* fails or dies, an item's record of reminders has a message behind each. *)
RecordedIsSent ==
  \A i \in Existing :
    LET kept == {m \in sent : m.item = i /\ m.kept}
    IN /\ item[i].last # Never => \E m \in kept : m.at = item[i].last
       /\ item[i].nudges <= Cardinality(kept)

(* "Once per item per day": a sweep never repeats a reminder within the    *)
(* cool-down of one that was on record when it read, whoever edits, closes *)
(* or reopens the item in between.  (What a crash took off the record, or  *)
(* an overlapping sweep has not put there yet, is repeated.)               *)
RemindersAreSpaced ==
  \A s \in Sweepers : \A m \in Mine(s), k \in known[s] :
    k.item = m.item => m.at - k.at >= Cooldown

(* The fatigue cap, as far as it holds: what a sweep sends somebody, and   *)
(* the items, still open and theirs, that recent messages on record were   *)
(* about, are together within the cap.                                     *)
CapPerPerson ==
  \A s \in Sweepers, p \in People :
    LET new == {m \in Mine(s) : m.to = p}
        old == {m \in known[s] :
                  /\ m.to = p /\ m.at >= now - Window
                  /\ view[s][m.item] # Gone /\ view[s][m.item].open
                  /\ view[s][m.item].owner = p}
    IN new # {} => Cardinality(new) + Cardinality({m.item : m \in old}) <= Cap

(* What is overdue and stays so is escalated in the end, although sweeps   *)
(* die, overlap, or are undone by a deletion.                              *)
OverdueIsEscalated ==
  \A i \in Items :
    (item[i] # Gone /\ item[i].open /\ Overdue(i))
      ~> (item[i] = Gone \/ ~item[i].open \/ item[i].escalated \/ ~Overdue(i))
============================================================================
