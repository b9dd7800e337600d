---------------------------- MODULE IntakeLedger ----------------------------
(***************************************************************************)
(* What the intake promises the Meeting Agent, however its deliveries are  *)
(* repeated, raced, failed or cut short: each meeting is decided once, for *)
(* good, in one step with everything that follows from the decision.  It   *)
(* is refused, or there was nothing to do, or its agenda is worked off,    *)
(* which takes consent and leaves no entry without an item that covers it. *)
(* People have items of their own and rename any.                          *)
(***************************************************************************)
CONSTANTS
  Meetings,
  Agenda,       \* [Meetings -> Seq(Action)]: what a meeting asks to be done
  Nobody        \* an item of no meeting's

VARIABLES
  decision,     \* [Meetings -> Decision]: what is stored of each meeting
  worked,       \* meetings with approvals and a summary
  entries       \* what items there are or were, by the meeting they are from

vars == <<decision, worked, entries>>

Decision == [status : {"none", "rejected", "processed"}, consented : BOOLEAN]
Undecided == [status |-> "none", consented |-> FALSE]
Worked == [status |-> "processed", consented |-> TRUE]

Entry(m, a) == [meeting |-> m, title |-> a.title, ref |-> a.ref]
Asked(m) == {Entry(m, Agenda[m][k]) : k \in DOMAIN Agenda[m]}

(* An entry without an item of its own shares a timestamp or a title with  *)
(* another item, as that is or was.                                        *)
Covers(S, m) ==
  \A a \in Asked(m) : \E e \in S : e.ref = a.ref \/ e.title = a.title

Init ==
  /\ decision = [m \in Meetings |-> Undecided]
  /\ worked = {}
  /\ entries = {}

Decide(m, d) ==
  /\ decision[m] = Undecided
  /\ decision' = [decision EXCEPT ![m] = d]

(* No consent, or an engagement or a version nobody knows.                 *)
Refuse(m) ==
  /\ \E c \in BOOLEAN : Decide(m, [status |-> "rejected", consented |-> c])
  /\ UNCHANGED <<worked, entries>>

NothingToDo(m) ==
  /\ Asked(m) = {}
  /\ Decide(m, Worked)
  /\ UNCHANGED <<worked, entries>>

Work(m) ==
  /\ Decide(m, Worked)
  /\ worked' = worked \union {m}
  /\ \E new \in SUBSET Asked(m) : entries' = entries \union new
  /\ Covers(entries', m)

(* Somebody creates an item, or renames one: its ref stays what it was.    *)
Edit(e) ==
  /\ e.meeting = Nobody \/ \E f \in entries : e.meeting = f.meeting /\ e.ref = f.ref
  /\ entries' = entries \union {e}
  /\ UNCHANGED <<decision, worked>>

Next ==
  \/ \E m \in Meetings : Refuse(m) \/ NothingToDo(m) \/ Work(m)
  \/ \E e \in entries' : Edit(e)

Spec == Init /\ [][Next]_vars
============================================================================
