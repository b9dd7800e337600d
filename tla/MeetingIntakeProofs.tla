------------------------- MODULE MeetingIntakeProofs -------------------------
(***************************************************************************)
(* Proofs about MeetingIntake, for any deliveries, meetings and agendas:   *)
(* a meeting is turned into work at most once, and only with consent.      *)
(***************************************************************************)
EXTENDS MeetingIntake, TLAPS

USE DEF Event, Envelope, Status, Item, Action, world

LEMMA TypeInit == Init => TypeOK
BY IntakeConstants DEF Init, TypeOK

(* An entry of an agenda is an action.                                     *)
LEMMA EntryIsAction ==
  ASSUME NEW S, NEW s \in Seq(S), NEW k \in DOMAIN s
  PROVE  s[k] \in S
OBVIOUS

LEMMA RollbackType ==
  ASSUME TypeOK, NEW r \in Requests, NEW place \in Ended, Rollback(r, place),
         faults' \in 0..MaxFaults
  PROVE  TypeOK'
BY IntakeConstants DEF TypeOK, Rollback, Release, GoTo, dbVars, Ended, Working

LEMMA PeopleType ==
  ASSUME TypeOK, People
  PROVE  TypeOK'
<1> USE IntakeConstants
<1>1. ASSUME NEW a \in ByHand, Create(a) PROVE TypeOK'
  <2> DEFINE i == [by |-> Nobody, n |-> edits, title |-> a.title, ref |-> a.ref]
  <2>1. a \in [title : Titles, ref : Refs \union {NoRef}]
    OBVIOUS
  <2>2. i \in Item
    BY <2>1 DEF TypeOK
  <2> HIDE DEF i
  <2>3. items' = items \union {i} /\ open' = open \union {i} /\ past' = past \union {i}
    BY <1>1 DEF Create, i
  <2> QED
    BY <1>1, <2>2, <2>3 DEF Create, Edit, TypeOK, txnVars
<1>2. ASSUME NEW i \in items, Delete(i) PROVE TypeOK'
  BY <1>2 DEF Delete, Edit, TypeOK, txnVars
<1>3. ASSUME NEW i \in items, NEW title \in Titles, NEW isOpen \in BOOLEAN,
             Update(i, title, isOpen)
      PROVE  TypeOK'
  <2> DEFINE j == [i EXCEPT !.title = title]
  <2>1. i \in past /\ i \in Item
    BY DEF TypeOK
  <2>a. j \in Item
    BY <2>1
  <2> HIDE DEF j
  <2>2. /\ Edit /\ items' = (items \ {i}) \union {j} /\ past' = past \union {j}
        /\ open' = (open \ {i}) \union (IF isOpen THEN {j} ELSE {})
    BY <1>3 DEF Update, j
  <2> QED
    BY <2>1, <2>a, <2>2 DEF Edit, TypeOK, txnVars
<1> QED
  BY <1>1, <1>2, <1>3 DEF People

(* No step leaves the types.                                               *)
LEMMA TypeStep == TypeOK /\ [Next]_vars => TypeOK'
<1> SUFFICES ASSUME TypeOK, [Next]_vars PROVE TypeOK'
  OBVIOUS
<1> USE IntakeConstants DEF Ended, Working, GoTo, Meeting
<1>1. ASSUME NEW r \in Requests, Receive(r) PROVE TypeOK'
  BY <1>1 DEF TypeOK, Receive, dbVars, txnVars
<1>2. ASSUME NEW r \in Requests, FindDuplicate(r) PROVE TypeOK'
  BY <1>2 DEF TypeOK, FindDuplicate, dbVars, txnVars
<1>3. ASSUME NEW r \in Requests, Store(r) PROVE TypeOK'
  BY <1>3 DEF TypeOK, Store, dbVars
<1>4. ASSUME NEW r \in Requests, Conflict(r) PROVE TypeOK'
  BY <1>4 DEF TypeOK, Conflict, Rollback, Release, dbVars
<1>5. ASSUME NEW r \in Requests, Process(r) PROVE TypeOK'
  BY <1>5 DEF TypeOK, Process, dbVars, txnVars
<1>6. ASSUME NEW r \in Requests, FailRun(r) PROVE TypeOK'
  <2>1. faults' \in 0..MaxFaults
    BY <1>6 DEF FailRun, TypeOK
  <2>2. PICK place \in Ended : Rollback(r, place)
    BY <1>6 DEF FailRun
  <2> QED
    BY <2>1, <2>2, RollbackType
<1>7. ASSUME NEW r \in Requests, SkipRun(r) PROVE TypeOK'
  BY <1>7 DEF TypeOK, SkipRun, dbVars
<1>8. ASSUME NEW r \in Requests, SucceedRun(r) PROVE TypeOK'
  BY <1>8 DEF TypeOK, SucceedRun, dbVars, txnVars
<1>9. ASSUME NEW r \in Requests, Consider(r) PROVE TypeOK'
  <2>1. /\ Meeting(r) \in Meetings /\ next[r] \in Nat
        /\ Agenda[Meeting(r)] \in Seq(Action)
    BY DEF TypeOK
  <2>2. Agenda[Meeting(r)][next[r]] \in Action
    <3>1. next[r] \in DOMAIN Agenda[Meeting(r)]
      BY <1>9 DEF Consider
    <3>2. \A S : \A s \in Seq(S) : \A k \in DOMAIN s : s[k] \in S
      BY EntryIsAction
    <3> QED
      BY <2>1, <3>1, <3>2
  <2>3. staged' \in [Requests -> SUBSET Item]
    BY <1>9, <2>1, <2>2 DEF Consider, TypeOK
  <2>4. next' \in [Requests -> Nat]
    BY <1>9 DEF Consider, TypeOK
  <2> QED
    BY <1>9, <2>3, <2>4 DEF TypeOK, Consider, dbVars
<1>10. ASSUME NEW r \in Requests, Finish(r) PROVE TypeOK'
  BY <1>10 DEF TypeOK, Finish, dbVars
<1>11. ASSUME NEW r \in Requests, Commit(r) PROVE TypeOK'
  BY <1>11 DEF TypeOK, Commit, Release
<1>12. ASSUME NEW r \in Requests, Crash(r) PROVE TypeOK'
  BY <1>12 DEF TypeOK, Crash, Rollback, Release, dbVars
<1>13. ASSUME People PROVE TypeOK'
  BY <1>13, PeopleType
<1>14. CASE UNCHANGED vars
  BY <1>14 DEF TypeOK, vars, dbVars, txnVars
<1> QED
  BY <1>1, <1>2, <1>3, <1>4, <1>5, <1>6, <1>7, <1>8, <1>9, <1>10, <1>11,
     <1>12, <1>13, <1>14 DEF Next, Handle

(* Every variable keeps its type.                                          *)
THEOREM TypeCorrect == Spec => []TypeOK
BY TypeInit, TypeStep, PTL DEF Spec

----------------------------------------------------------------------------

(* What people do leaves the deliveries alone, and what they change stays  *)
(* whose it was.                                                           *)
LEMMA PeopleFrame ==
  ASSUME TypeOK, People
  PROVE  /\ UNCHANGED <<event, produced, txnVars, pc, secret, envelope>>
         /\ past \subseteq past'
         /\ \A i \in past' \ past : i.by = Nobody \/ \E j \in past : i.by = j.by /\ i.ref = j.ref
<1>1. ASSUME NEW a \in ByHand, Create(a)
      PROVE  /\ past \subseteq past' /\ Edit
             /\ \A i \in past' \ past : i.by = Nobody
  BY <1>1 DEF Create
<1>2. ASSUME NEW i \in items, Delete(i) PROVE past' = past /\ Edit
  BY <1>2 DEF Delete
<1>3. ASSUME NEW i \in items, NEW title \in Titles, NEW isOpen \in BOOLEAN,
             Update(i, title, isOpen)
      PROVE  /\ past \subseteq past' /\ Edit
             /\ \A j \in past' \ past : j.by = i.by /\ j.ref = i.ref
  BY <1>3 DEF Update, TypeOK
<1>4. items \subseteq past
  BY DEF TypeOK
<1> QED
  BY <1>1, <1>2, <1>3, <1>4 DEF People, Edit

LEMMA InvInit == Init => IntakeInv
BY TypeInit, IntakeConstants DEF Init, IntakeInv, Working, Ended

(* Ending a transaction without committing it: its meeting is released and *)
(* nothing of it was, or becomes, visible.                                 *)
LEMMA RollbackStep ==
  ASSUME IntakeInv, TypeOK', NEW r \in Requests,
         pc[r] \in Working \union {"check", "store"},
         NEW place \in {"failed", "error", "aborted"}, Rollback(r, place)
  PROVE  IntakeInv'
<1> USE DEF Working, Ended, Meeting, Processable, Consented, Trusted, Known
<1>1. /\ UNCHANGED <<event, items, open, past, produced, draft, next, skipped, secret, envelope>>
      /\ pc' = [pc EXCEPT ![r] = place] /\ staged' = [staged EXCEPT ![r] = {}]
      /\ holder' = [m \in Meetings |-> IF holder[m] = r THEN Nobody ELSE holder[m]]
      /\ pc \in [Requests -> {"idle", "check", "store"} \union Working \union Ended]
      /\ staged \in [Requests -> SUBSET Item] /\ r # Nobody
  BY IntakeConstants DEF Rollback, Release, GoTo, dbVars, IntakeInv, TypeOK
<1>2. /\ \A q \in Requests \ {r} : pc'[q] = pc[q] /\ staged'[q] = staged[q]
      /\ pc'[r] = place /\ staged'[r] = {} /\ pc[r] \notin {"idle", "refused"} \union Ended
  BY <1>1
<1>3. \A m \in Meetings : holder'[m] # Nobody =>
        /\ holder'[m] = holder[m] /\ holder[m] # r /\ holder[m] \in Requests
  BY <1>1 DEF IntakeInv, TypeOK
<1>4. \A m \in Meetings : event[m] # NoEvent => event[m].by \in Requests \ {r}
  BY <1>2 DEF IntakeInv, TypeOK
<1>5. \A q \in Requests : pc'[q] \in Working => holder'[Meeting(q)] = q
  <2>1. \A q \in Requests : Meeting(q) \in Meetings
    BY DEF IntakeInv, TypeOK
  <2> QED
    BY <1>1, <1>2, <2>1 DEF IntakeInv
<1> QED
  BY <1>1, <1>2, <1>3, <1>4, <1>5 DEF IntakeInv

(* No step breaks the inductive invariant.                                 *)
LEMMA InvStep == IntakeInv /\ [Next]_vars => IntakeInv'
<1> SUFFICES ASSUME IntakeInv, [Next]_vars PROVE IntakeInv'
  OBVIOUS
<1>0. TypeOK /\ TypeOK'
  BY TypeStep DEF IntakeInv
<1> USE <1>0, IntakeConstants
    DEF IntakeInv, GoTo, Meeting, Working, Ended, Processable, Consented, Trusted, Known
<1>1. ASSUME NEW r \in Requests, Receive(r) PROVE IntakeInv'
  BY <1>1 DEF TypeOK, Receive, dbVars, txnVars
<1>2. ASSUME NEW r \in Requests, FindDuplicate(r) PROVE IntakeInv'
  BY <1>2 DEF TypeOK, FindDuplicate, dbVars, txnVars
<1>3. ASSUME NEW r \in Requests, Store(r) PROVE IntakeInv'
  <2>0. /\ pc[r] = "store" /\ holder[Meeting(r)] = Nobody
        /\ event[Meeting(r)] = NoEvent /\ Meeting(r) \in Meetings
        /\ holder' = [holder EXCEPT ![Meeting(r)] = r]
        /\ UNCHANGED <<dbVars, staged, next, skipped, world>>
    BY <1>3 DEF Store, Known, TypeOK
  <2>1. CASE Rejected(envelope[r])
    <3>1. draft' = [draft EXCEPT ![r] = "rejected"] /\ pc' = [pc EXCEPT ![r] = "commit"]
      BY <1>3, <2>1 DEF Store
    <3> QED
      BY <2>0, <3>1 DEF TypeOK, dbVars
  <2>2. CASE ~Rejected(envelope[r])
    <3>1. UNCHANGED draft /\ pc' = [pc EXCEPT ![r] = "process"]
      BY <1>3, <2>2 DEF Store
    <3>2. envelope[r].consented /\ envelope[r].bound
      BY <2>2 DEF Rejected
    <3> QED
      BY <2>0, <3>1, <3>2, SMTT(60) DEF TypeOK, dbVars
  <2> QED
    BY <2>1, <2>2
<1>4. ASSUME NEW r \in Requests, Conflict(r) PROVE IntakeInv'
  BY <1>4, RollbackStep DEF Conflict
<1>5. ASSUME NEW r \in Requests, Process(r) PROVE IntakeInv'
  <2>1. pc' = [pc EXCEPT ![r] = "run"]
    BY <1>5 DEF Process
  <2> QED
    BY <1>5, <2>1 DEF TypeOK, Process, dbVars, txnVars
<1>6. ASSUME NEW r \in Requests, FailRun(r) PROVE IntakeInv'
  BY <1>6, RollbackStep DEF FailRun
<1>7. ASSUME NEW r \in Requests, SkipRun(r) PROVE IntakeInv'
  BY <1>7 DEF TypeOK, SkipRun, dbVars
<1>8. ASSUME NEW r \in Requests, SucceedRun(r) PROVE IntakeInv'
  BY <1>8 DEF TypeOK, SucceedRun, dbVars, txnVars
<1>9. ASSUME NEW r \in Requests, Consider(r) PROVE IntakeInv'
  <2>1. pc[r] = "create" /\ UNCHANGED <<dbVars, holder, draft, skipped, pc, world>>
    BY <1>9 DEF Consider
  <2>2. \A q \in Requests : q # r => staged'[q] = staged[q]
    BY <1>9 DEF Consider, TypeOK
  <2>3. \A i \in staged'[r] : i \in staged[r] \/ i.by = r
    BY <1>9 DEF Consider, TypeOK
  <2>4. \A q \in Requests : staged'[q] # {} =>
          /\ ~skipped[q]
          /\ pc[q] = "create" \/ (pc[q] = "commit" /\ draft[q] = "processed")
          /\ \A i \in staged'[q] : i.by = q
    BY <2>1, <2>2, <2>3
  <2> QED
    BY <2>1, <2>4 DEF dbVars
<1>10. ASSUME NEW r \in Requests, Finish(r) PROVE IntakeInv'
  BY <1>10 DEF TypeOK, Finish, dbVars
<1>11. ASSUME NEW r \in Requests, Commit(r) PROVE IntakeInv'
  BY <1>11 DEF TypeOK, Commit, Release
<1>12. ASSUME NEW r \in Requests, Crash(r) PROVE IntakeInv'
  BY <1>12, RollbackStep DEF Crash
<1>13. ASSUME People PROVE IntakeInv'
  <2>1. /\ UNCHANGED <<event, produced, txnVars, pc, secret, envelope>>
        /\ \A i \in past' : i.by \in produced \union {Nobody}
    BY <1>13, PeopleFrame
  <2> QED
    BY <2>1 DEF txnVars
<1>14. CASE UNCHANGED vars
  BY <1>14 DEF TypeOK, vars, dbVars, txnVars
<1> QED
  BY <1>1, <1>2, <1>3, <1>4, <1>5, <1>6, <1>7, <1>8, <1>9, <1>10, <1>11,
     <1>12, <1>13, <1>14 DEF Next, Handle

LEMMA Inductive == Spec => []IntakeInv
BY InvInit, InvStep, PTL DEF Spec

(* The holder of a meeting's uncommitted event is the only one working on  *)
(* it, and a committed event names the one request that produced anything. *)
THEOREM OncePerMeeting == Spec => []AtMostOnce
<1>1. IntakeInv => AtMostOnce
  BY DEF IntakeInv, AtMostOnce, TypeOK
<1> QED
  BY <1>1, Inductive, PTL

(* What a request leaves behind, it leaves with consent, for a known       *)
(* engagement and, where a secret is configured, signed with it.           *)
THEOREM Consensual == Spec => []ConsentGate
<1>1. IntakeInv => ConsentGate
  BY IntakeConstants DEF IntakeInv, ConsentGate, Processable, Consented, Trusted
<1> QED
  BY <1>1, Inductive, PTL

(* Who is told that a meeting was received can rely on it: it is committed.*)
(* A request that failed, was refused or was cut short leaves nothing.     *)
THEOREM AnswersHold == Spec => []AnsweredIsStored
<1>1. IntakeInv => AnsweredIsStored
  <2> SUFFICES ASSUME IntakeInv, NEW r \in Requests
               PROVE  /\ pc[r] = "answered" => event[Meeting(r)] # NoEvent
                      /\ pc[r] \in Ended \ {"answered"} =>
                           /\ r \notin produced
                           /\ \A m \in Meetings : event[m] # NoEvent => event[m].by # r
    BY DEF AnsweredIsStored
  <2>1. pc[r] = "answered" => event[Meeting(r)] # NoEvent
    BY DEF IntakeInv, Known
  <2>2. \A m \in Meetings : event[m] # NoEvent => pc[event[m].by] = "answered"
    BY DEF IntakeInv
  <2>3. r \in produced => pc[r] = "answered"
    BY <2>2 DEF IntakeInv, TypeOK, Meeting
  <2> QED
    BY <2>1, <2>2, <2>3
<1> QED
  BY <1>1, Inductive, PTL

(* A stored event is never replaced: only Commit writes one, and its       *)
(* writer holds the meeting, of which no event is stored.                  *)
THEOREM FirstStands == Spec => FirstDeliveryStands
<1>1. IntakeInv /\ [Next]_vars
        => [\A m \in Meetings : event[m] # NoEvent => event'[m] = event[m]]_vars
  <2> SUFFICES ASSUME IntakeInv, Next, NEW m \in Meetings, event[m] # NoEvent
               PROVE  event'[m] = event[m]
    BY DEF vars
  <2>1. ASSUME NEW r \in Requests, Commit(r) PROVE event'[m] = event[m]
    <3>1. holder[Meeting(r)] = r /\ r # Nobody /\ Meeting(r) \in Meetings
      BY <2>1, IntakeConstants DEF Commit, IntakeInv, Working, TypeOK, Meeting
    <3>2. Meeting(r) # m
      BY <3>1 DEF IntakeInv
    <3> QED
      BY <2>1, <3>2 DEF Commit, IntakeInv, TypeOK
  <2>2. ASSUME NEW r \in Requests, ~Commit(r), Handle(r) \/ Crash(r)
        PROVE  event'[m] = event[m]
    BY <2>2 DEF Handle, Crash, Receive, FindDuplicate, Store, Conflict, Process,
       FailRun, SkipRun, SucceedRun, Consider, Finish, Rollback, dbVars
  <2>3. ASSUME People PROVE event'[m] = event[m]
    BY <2>3, PeopleFrame DEF IntakeInv
  <2> QED
    BY <2>1, <2>2, <2>3 DEF Next
<1> QED
  BY <1>1, Inductive, PTL DEF Spec, FirstDeliveryStands

----------------------------------------------------------------------------
(* No entry is lost.                                                       *)

CoveredIn(a, S) == \E i \in S : i.ref = a.ref \/ i.title = a.title

(* The loop has covered the entries it is past, among what is committed    *)
(* and what it has staged; when it ends it has covered them all.           *)
CoverInv(r) ==
  /\ next[r] >= 1
  /\ pc[r] \in {"idle", "check", "store", "process", "run"} => next[r] = 1
  /\ pc[r] = "create" => \A k \in DOMAIN Agenda[Meeting(r)] :
       k < next[r] => CoveredIn(Agenda[Meeting(r)][k], past \union staged[r])
  /\ (pc[r] = "commit" /\ draft[r] = "processed" /\ ~skipped[r]) \/ r \in produced =>
       \A k \in DOMAIN Agenda[Meeting(r)] :
         CoveredIn(Agenda[Meeting(r)][k], past \union staged[r])
  /\ r \in produced => staged[r] = {}

LEMMA CoverInit == Init => \A r \in Requests : CoverInv(r)
<1> SUFFICES ASSUME Init, NEW r \in Requests PROVE CoverInv(r)
  OBVIOUS
<1>1. next[r] = 1 /\ pc[r] = "idle" /\ r \notin produced
  BY DEF Init
<1> QED
  BY <1>1 DEF CoverInv

(* What another request or people do covers no less.                       *)
LEMMA CoverOthers ==
  ASSUME NEW r \in Requests, CoverInv(r), past \subseteq past',
         pc'[r] = pc[r], next'[r] = next[r], draft'[r] = draft[r],
         skipped'[r] = skipped[r], staged'[r] = staged[r], envelope' = envelope,
         r \in produced' <=> r \in produced
  PROVE  CoverInv(r)'
<1>1. Meeting(r)' = Meeting(r)
  BY DEF Meeting
<1>2. \A a : CoveredIn(a, past \union staged[r]) => CoveredIn(a, past' \union staged'[r])
  BY DEF CoveredIn
<1> QED
  BY <1>1, <1>2 DEF CoverInv

(* The frame of a step of request r.                                       *)
LEMMA HandleFrame ==
  ASSUME IntakeInv, NEW r \in Requests, Handle(r) \/ Crash(r)
  PROVE  /\ past \subseteq past' /\ envelope' = envelope
         /\ \A q \in Requests \ {r} :
              /\ pc'[q] = pc[q] /\ next'[q] = next[q] /\ draft'[q] = draft[q]
              /\ skipped'[q] = skipped[q] /\ staged'[q] = staged[q]
              /\ q \in produced' <=> q \in produced
<1> USE DEF IntakeInv, TypeOK, GoTo, dbVars, txnVars
<1>1. CASE Receive(r) \/ FindDuplicate(r) \/ Process(r) \/ SucceedRun(r)
  BY <1>1 DEF Receive, FindDuplicate, Process, SucceedRun
<1>2. CASE Store(r) \/ SkipRun(r) \/ Consider(r) \/ Finish(r)
  BY <1>2 DEF Store, SkipRun, Consider, Finish
<1>3. CASE Conflict(r) \/ FailRun(r) \/ Crash(r)
  <2>1. \E place : Rollback(r, place)
    BY <1>3 DEF Conflict, FailRun, Crash
  <2> QED
    BY <2>1 DEF Rollback, Release
<1>4. CASE Commit(r)
  BY <1>4 DEF Commit, Release
<1> QED
  BY <1>1, <1>2, <1>3, <1>4 DEF Handle

(* The step of r itself.                                                   *)
LEMMA CoverOwn ==
  ASSUME IntakeInv, NEW r \in Requests, CoverInv(r), Handle(r) \/ Crash(r)
  PROVE  CoverInv(r)'
<1> DEFINE agenda == Agenda[Meeting(r)]
           Past(S) == \A k \in DOMAIN agenda : k < next[r] => CoveredIn(agenda[k], S)
           All(S) == \A k \in DOMAIN agenda : CoveredIn(agenda[k], S)
<1>0. TypeOK /\ agenda \in Seq(Action) /\ next[r] \in Nat /\ envelope' = envelope
  <2>1. TypeOK /\ Meeting(r) \in Meetings /\ next[r] \in Nat
    BY DEF IntakeInv, TypeOK, Meeting
  <2>2. Agenda[Meeting(r)] \in Seq(Action)
    BY ONLY <2>1, IntakeConstants
  <2>3. envelope' = envelope
    BY HandleFrame
  <2> QED
    BY <2>1, <2>2, <2>3
<1>a. agenda' = agenda /\ Meeting(r)' = Meeting(r)
  BY <1>0 DEF Meeting
<1>b. pc[r] \notin Ended => r \notin produced
  BY DEF IntakeInv, Ended, Meeting, TypeOK
<1>1. CASE Receive(r) \/ FindDuplicate(r) \/ Store(r) \/ Process(r) \/ SucceedRun(r)
  <2>1. /\ next'[r] = 1 /\ pc[r] \notin Ended /\ produced' = produced
        /\ pc'[r] # "commit" \/ draft'[r] = "rejected" \/ draft[r] # "processed"
    BY <1>0, <1>1
    DEF Receive, FindDuplicate, Store, Process, SucceedRun, GoTo, CoverInv, TypeOK,
        IntakeInv, Ended, dbVars, txnVars
  <2>2. pc'[r] = "commit" => draft'[r] = "rejected"
    BY <1>0, <1>1
    DEF Receive, FindDuplicate, Store, Process, SucceedRun, GoTo, TypeOK, IntakeInv
  <2>3. \A k \in DOMAIN agenda : ~(k < 1)
    BY <1>0
  <2> QED
    BY <1>a, <1>b, <2>1, <2>2, <2>3 DEF CoverInv
<1>2. CASE SkipRun(r)
  BY <1>0, <1>b, <1>2 DEF SkipRun, GoTo, CoverInv, TypeOK, Ended, dbVars
<1>3. CASE Consider(r)
  <2> DEFINE a == agenda[next[r]]
             item == [by |-> r, n |-> next[r], title |-> a.title, ref |-> a.ref]
  <2>1. /\ pc[r] = "create" /\ pc'[r] = "create" /\ next[r] \in DOMAIN agenda
        /\ staged'[r] = IF Duplicate(a) THEN staged[r] ELSE staged[r] \union {item}
        /\ next'[r] = next[r] + 1 /\ past' = past /\ produced' = produced
    BY <1>0, <1>3 DEF Consider, TypeOK, dbVars
  <2>2. CoveredIn(a, past \union staged'[r])
    <3>1. CASE Duplicate(a)
      BY <1>0, <3>1 DEF Duplicate, CoveredIn, TypeOK
    <3>2. CASE ~Duplicate(a)
      <4>1. item \in staged'[r] /\ item.title = a.title
        BY <2>1, <3>2
      <4> QED
        BY <4>1 DEF CoveredIn
    <3> QED
      BY <3>1, <3>2
  <2>3. Past(past \union staged'[r])
    BY <2>1 DEF CoverInv, CoveredIn
  <2> HIDE DEF a, agenda
  <2>4. \A k \in DOMAIN agenda : k < next'[r] => CoveredIn(agenda[k], past \union staged'[r])
    <3> SUFFICES ASSUME NEW k \in DOMAIN agenda, k < next[r] + 1
                 PROVE  CoveredIn(agenda[k], past \union staged'[r])
      BY <2>1
    <3>1. k \in Nat
      BY <1>0
    <3>2. k < next[r] \/ k = next[r]
      BY <1>0, <3>1
    <3> QED
      BY <2>2, <2>3, <3>2 DEF a
  <2>5. r \notin produced'
    BY <1>b, <2>1 DEF Ended
  <2>6. next[r] >= 1
    BY DEF CoverInv
  <2>7. next'[r] >= 1 /\ past' = past /\ pc'[r] = "create"
    BY <1>0, <2>1, <2>6
  <2>8. \A k \in DOMAIN Agenda[Meeting(r)'] :
          k < next'[r] => CoveredIn(Agenda[Meeting(r)'][k], past' \union staged'[r])
    BY <1>a, <2>4, <2>7 DEF agenda
  <2> QED
    BY <2>5, <2>7, <2>8 DEF CoverInv
<1>4. CASE Finish(r)
  <2>1. /\ pc[r] = "create" /\ pc'[r] = "commit" /\ next[r] \notin DOMAIN agenda
        /\ UNCHANGED <<past, staged, next, produced>>
    BY <1>0, <1>4 DEF Finish, GoTo, TypeOK, dbVars
  <2>2. \A k \in DOMAIN agenda : k < next[r]
    BY <1>0, <2>1 DEF CoverInv
  <2>3. All(past \union staged[r])
    BY <2>1, <2>2 DEF CoverInv
  <2>4. r \notin produced'
    BY <1>b, <2>1 DEF Ended
  <2> QED
    <3>1. next'[r] = next[r] /\ past' = past /\ staged'[r] = staged[r]
      BY <2>1
    <3>2. next[r] >= 1
      BY DEF CoverInv
    <3> QED
      BY <1>a, <2>1, <2>3, <2>4, <3>1, <3>2 DEF CoverInv
<1>5. CASE Commit(r)
  <2>1. /\ pc[r] = "commit" /\ pc'[r] = "answered" /\ next' = next
        /\ past' = past \union staged[r] /\ staged'[r] = {}
        /\ r \in produced' => draft[r] = "processed" /\ ~skipped[r]
    BY <1>0, <1>5, <1>b DEF Commit, Release, GoTo, TypeOK, Ended
  <2>2. r \in produced' => All(past')
    BY <2>1 DEF CoverInv
  <2>3. past' \union staged'[r] = past'
    BY <2>1
  <2> QED
    BY <1>a, <2>1, <2>2, <2>3 DEF CoverInv
<1>6. CASE Conflict(r) \/ FailRun(r) \/ Crash(r)
  <2>1. \E place \in Ended : Rollback(r, place) /\ pc[r] \notin Ended
    BY <1>6 DEF Conflict, FailRun, Crash, Ended, Working
  <2>2. pc'[r] \in Ended /\ staged'[r] = {} /\ next' = next /\ r \notin produced'
    BY <1>0, <1>b, <2>1 DEF Rollback, Release, GoTo, TypeOK, dbVars
  <2> QED
    BY <2>2 DEF CoverInv, Ended
<1> QED
  BY <1>1, <1>2, <1>3, <1>4, <1>5, <1>6 DEF Handle

LEMMA CoverStep ==
  IntakeInv /\ (\A r \in Requests : CoverInv(r)) /\ [Next]_vars
    => \A r \in Requests : CoverInv(r)'
<1> SUFFICES ASSUME IntakeInv, \A r \in Requests : CoverInv(r), [Next]_vars,
                    NEW r \in Requests
             PROVE  CoverInv(r)'
  OBVIOUS
<1>1. ASSUME NEW q \in Requests, Handle(q) \/ Crash(q)
      PROVE  CoverInv(r)'
  BY <1>1, CoverOwn, CoverOthers, HandleFrame
<1>2. CASE People
  BY <1>2, CoverOthers, PeopleFrame DEF IntakeInv, txnVars
<1>3. CASE UNCHANGED vars
  BY <1>3, CoverOthers DEF vars, dbVars, txnVars
<1> QED
  BY <1>1, <1>2, <1>3 DEF Next

AllCovered == \A r \in Requests : CoverInv(r)

LEMMA Covering == Spec => []AllCovered
<1>1. Init => AllCovered
  BY CoverInit DEF AllCovered
<1>2. IntakeInv /\ AllCovered /\ [Next]_vars => AllCovered'
  BY CoverStep DEF AllCovered
<1> QED
  BY <1>1, <1>2, Inductive, PTL DEF Spec

(* Of every entry of a meeting that was turned into work there is or was   *)
(* an item, or one that carries its timestamp or its title, for any        *)
(* agendas, however many deliveries are considered at the same time and    *)
(* whatever people do to the items.                                        *)
THEOREM EntriesCovered == Spec => []EntryIsCovered
<1>1. IntakeInv /\ AllCovered => EntryIsCovered
  BY DEF IntakeInv, TypeOK, AllCovered, CoverInv, CoveredIn, EntryIsCovered
<1> QED
  BY <1>1, Covering, Inductive, PTL

----------------------------------------------------------------------------
(* The intake implements the ledger.                                       *)

(* What a request has staged is from its agenda, and only an outcome that  *)
(* asks for nothing is skipped.                                            *)
FromAgenda(r) ==
  /\ skipped[r] => DOMAIN Agenda[Meeting(r)] = {}
  /\ \A i \in staged[r] : \E k \in DOMAIN Agenda[Meeting(r)] :
       i.title = Agenda[Meeting(r)][k].title /\ i.ref = Agenda[Meeting(r)][k].ref

AllFromAgenda == \A r \in Requests : FromAgenda(r)

LEMMA FromAgendaStep ==
  IntakeInv /\ AllFromAgenda /\ [Next]_vars => AllFromAgenda'
<1> SUFFICES ASSUME IntakeInv, AllFromAgenda, [Next]_vars PROVE AllFromAgenda'
  OBVIOUS
<1>1. ASSUME NEW q \in Requests, Handle(q) \/ Crash(q),
             \/ skipped'[q] = skipped[q] /\ staged'[q] \in {staged[q], {}}
             \/ FromAgenda(q)'
      PROVE  AllFromAgenda'
  <2>1. /\ envelope' = envelope
        /\ \A r \in Requests \ {q} : skipped'[r] = skipped[r] /\ staged'[r] = staged[r]
    BY <1>1, HandleFrame
  <2>2. \A r \in Requests : Meeting(r)' = Meeting(r)
    BY <2>1 DEF Meeting
  <2> QED
    BY <1>1, <2>1, <2>2 DEF AllFromAgenda, FromAgenda
<1>2. ASSUME NEW q \in Requests, Handle(q), ~SkipRun(q), ~Consider(q)
      PROVE  skipped'[q] = skipped[q] /\ staged'[q] \in {staged[q], {}}
  BY <1>2 DEF Handle, Receive, FindDuplicate, Store, Conflict, Process, FailRun,
     SucceedRun, Finish, Commit, Rollback, Release, txnVars, IntakeInv, TypeOK
<1>3. ASSUME NEW q \in Requests, Crash(q)
      PROVE  skipped'[q] = skipped[q] /\ staged'[q] \in {staged[q], {}}
  BY <1>3 DEF Crash, Rollback, Release, IntakeInv, TypeOK
<1>4. ASSUME NEW q \in Requests, SkipRun(q) PROVE FromAgenda(q)'
  <2>1. Agenda[Meeting(q)] = <<>> /\ Meeting(q)' = Meeting(q) /\ staged' = staged
    BY <1>4 DEF SkipRun, Meeting
  <2>2. DOMAIN Agenda[Meeting(q)] = {}
    BY <2>1
  <2> QED
    BY <2>1, <2>2 DEF FromAgenda, AllFromAgenda
<1>5. ASSUME NEW q \in Requests, Consider(q) PROVE FromAgenda(q)'
  <2> DEFINE agenda == Agenda[Meeting(q)]
             a == agenda[next[q]]
             item == [by |-> q, n |-> next[q], title |-> a.title, ref |-> a.ref]
  <2>1. /\ Meeting(q)' = Meeting(q) /\ skipped' = skipped
        /\ next[q] \in DOMAIN agenda
        /\ staged'[q] = IF Duplicate(a) THEN staged[q] ELSE staged[q] \union {item}
    BY <1>5 DEF Consider, Meeting, IntakeInv, TypeOK
  <2>2. item.title = a.title /\ item.ref = a.ref
    OBVIOUS
  <2> QED
    BY <2>1, <2>2 DEF FromAgenda, AllFromAgenda
<1>6. CASE People \/ UNCHANGED vars
  <2>1. UNCHANGED <<skipped, staged, envelope>>
    BY <1>6, PeopleFrame DEF IntakeInv, vars, txnVars
  <2>2. \A r \in Requests : Meeting(r)' = Meeting(r)
    BY <2>1 DEF Meeting
  <2> QED
    BY <2>1, <2>2 DEF AllFromAgenda, FromAgenda
<1> QED
  BY <1>1, <1>2, <1>3, <1>4, <1>5, <1>6 DEF Next, Handle

LEMMA Sourced == Spec => []AllFromAgenda
<1>1. Init => AllFromAgenda
  BY DEF Init, AllFromAgenda, FromAgenda
<1> QED
  BY <1>1, FromAgendaStep, Inductive, PTL DEF Spec

(* A step that commits nothing is not seen in the ledger.                  *)
LEMMA UnseenSteps ==
  ASSUME UNCHANGED <<event, past, produced, envelope>>
  PROVE  UNCHANGED Ledger!vars
BY DEF Ledger!vars, Decision, Meeting, Origin

(* What r commits is what the ledger decides of its meeting.               *)
LEMMA CommitDecides ==
  ASSUME IntakeInv, NEW r \in Requests, Commit(r)
  PROVE  /\ Meeting(r) \in Meetings /\ event[Meeting(r)] = NoEvent
         /\ Ledger!Decide(Meeting(r),
              [status |-> draft[r], consented |-> envelope[r].consented])
<1> DEFINE e == [by |-> r, consented |-> envelope[r].consented, status |-> draft[r]]
           d == [status |-> draft[r], consented |-> envelope[r].consented]
<1>0. PICK m \in Meetings : m = Meeting(r)
  BY DEF IntakeInv, TypeOK, Meeting
<1>1. /\ event[m] = NoEvent /\ e \in Event
      /\ event' = [event EXCEPT ![m] = e] /\ event \in [Meetings -> Event \union {NoEvent}]
  <2>1. holder[m] = r /\ r # Nobody
    BY <1>0, IntakeConstants DEF Commit, IntakeInv, Working, TypeOK
  <2> QED
    BY <1>0, <2>1 DEF Commit, IntakeInv, TypeOK
<1>2. e # NoEvent /\ event'[m] = e /\ \A n \in Meetings \ {m} : event'[n] = event[n]
  BY <1>1, IntakeConstants
<1>3. Decision(m) = Ledger!Undecided
  BY <1>1 DEF Decision, Ledger!Undecided
<1>4. Decision(m)' = d
  BY <1>2 DEF Decision
<1>5. \A n \in Meetings \ {m} : Decision(n)' = Decision(n)
  BY <1>2 DEF Decision
<1> HIDE DEF d
<1>6. [n \in Meetings |-> Decision(n)]'
        = [[n \in Meetings |-> Decision(n)] EXCEPT ![m] = d]
  BY <1>4, <1>5
<1>7. [n \in Meetings |-> Decision(n)][m] = Ledger!Undecided
  BY <1>3
<1> QED
  BY <1>0, <1>1, <1>6, <1>7 DEF Ledger!Decide, d

(* The entries of the ledger, as they are and as a commit makes them.      *)
Recorded(S) == {[meeting |-> Origin(i), title |-> i.title, ref |-> i.ref] : i \in S}

(* What people do is what the ledger lets them do.                         *)
LEMMA PeopleStep ==
  ASSUME IntakeInv, People
  PROVE  Ledger!Next \/ UNCHANGED Ledger!vars
<1> DEFINE E(i) == [meeting |-> Origin(i), title |-> i.title, ref |-> i.ref]
<1>0. /\ UNCHANGED <<event, produced, envelope>>
      /\ \A i : E(i)' = E(i)
  BY PeopleFrame DEF IntakeInv, Origin, Meeting
<1>1. UNCHANGED <<[m \in Meetings |-> Decision(m)], {Meeting(r) : r \in produced}>>
  BY <1>0 DEF Decision, Meeting
<1>2. ASSUME NEW i, past' = past \union {i},
             i.by = Nobody \/ \E j \in past : i.by = j.by /\ i.ref = j.ref
      PROVE  Ledger!Next
  <2>1. Recorded(past)' = Recorded(past) \union {E(i)} /\ E(i) \in Recorded(past)'
    BY <1>0, <1>2 DEF Recorded
  <2>2. \/ E(i).meeting = Nobody
        \/ \E f \in Recorded(past) : E(i).meeting = f.meeting /\ E(i).ref = f.ref
    <3>1. CASE i.by = Nobody
      BY <3>1 DEF Origin
    <3>2. ASSUME NEW j \in past, i.by = j.by, i.ref = j.ref
          PROVE  \E f \in Recorded(past) : E(i).meeting = f.meeting /\ E(i).ref = f.ref
      <4>1. E(j) \in Recorded(past)
        BY DEF Recorded
      <4>2. E(i).meeting = E(j).meeting /\ E(i).ref = E(j).ref
        BY <3>2 DEF Origin
      <4> QED
        BY <4>1, <4>2
    <3> QED
      BY <1>2, <3>1, <3>2
  <2> QED
    BY <1>1, <2>1, <2>2 DEF Ledger!Next, Ledger!Edit, Recorded
<1>3. ASSUME NEW a \in ByHand, Create(a) PROVE Ledger!Next
  <2> DEFINE i == [by |-> Nobody, n |-> edits, title |-> a.title, ref |-> a.ref]
  <2>1. past' = past \union {i} /\ i.by = Nobody
    BY <1>3 DEF Create
  <2> QED
    BY <1>2, <2>1
<1>4. ASSUME NEW i \in items, Delete(i) PROVE UNCHANGED Ledger!vars
  <2>1. past' = past
    BY <1>4 DEF Delete
  <2>2. UNCHANGED Recorded(past)
    BY <1>0, <2>1 DEF Recorded
  <2> QED
    BY <1>1, <2>2 DEF Ledger!vars, Recorded
<1>5. ASSUME NEW i \in items, NEW title \in Titles, NEW isOpen \in BOOLEAN,
             Update(i, title, isOpen)
      PROVE  Ledger!Next
  <2> DEFINE j == [i EXCEPT !.title = title]
  <2>1. past' = past \union {j} /\ i \in past
    BY <1>5 DEF Update, IntakeInv, TypeOK
  <2>2. i \in Item
    BY <2>1 DEF IntakeInv, TypeOK
  <2>3. j.by = i.by /\ j.ref = i.ref
    BY <2>2
  <2> QED
    BY <1>2, <2>1, <2>3
<1> QED
  BY <1>3, <1>4, <1>5 DEF People

(* Every other step goes unseen.                                           *)
LEMMA OthersUnseen ==
  ASSUME IntakeInv, [Next]_vars, ~People, \A r \in Requests : ~Commit(r)
  PROVE  UNCHANGED Ledger!vars
<1>1. ASSUME NEW r \in Requests, Handle(r) \/ Crash(r)
      PROVE  UNCHANGED <<event, past, produced, envelope>>
  BY <1>1 DEF Handle, Crash, Receive, FindDuplicate, Store, Conflict, Process,
     FailRun, SkipRun, SucceedRun, Consider, Finish, Rollback, dbVars
<1>2. CASE UNCHANGED vars
  BY <1>2, UnseenSteps DEF vars, dbVars
<1> QED
  BY <1>1, <1>2, UnseenSteps DEF Next

(* A commit is one of the ledger's decisions: a refusal, nothing to do, or *)
(* the agenda of the meeting, worked off and covered.                      *)
LEMMA CommitStep ==
  ASSUME IntakeInv, AllCovered, AllFromAgenda, NEW r \in Requests, Commit(r)
  PROVE  Ledger!Next
<1> DEFINE worked == {Meeting(q) : q \in produced}
<1>0. PICK m \in Meetings : m = Meeting(r)
  BY DEF IntakeInv, TypeOK, Meeting
<1>1. Ledger!Decide(m, [status |-> draft[r], consented |-> envelope[r].consented])
  BY <1>0, CommitDecides
<1>2. /\ pc[r] = "commit" /\ draft[r] \in {"rejected", "processed"}
      /\ envelope[r].consented \in BOOLEAN
      /\ draft[r] = "processed" => envelope[r].consented = TRUE
      /\ past' = past \union staged[r] /\ envelope' = envelope
      /\ produced' = IF draft[r] = "processed" /\ ~skipped[r]
                       THEN produced \union {r} ELSE produced
  BY DEF Commit, IntakeInv, TypeOK, Processable, Consented
<1>3. Recorded(past)' = Recorded(past) \union Recorded(staged[r])
  BY <1>2 DEF Recorded, Meeting, Origin
<1>4. draft[r] = "rejected" \/ skipped[r] => UNCHANGED <<Recorded(past), worked>>
  <2>1. draft[r] = "rejected" \/ skipped[r] => past' = past /\ produced' = produced
    BY <1>2 DEF IntakeInv
  <2> QED
    BY <1>2, <2>1 DEF Recorded, Meeting, Origin
<1>5. CASE draft[r] = "rejected"
  BY <1>1, <1>2, <1>4, <1>5 DEF Ledger!Refuse, Ledger!Next, Recorded
<1>6. CASE draft[r] = "processed" /\ skipped[r]
  <2>1. Ledger!Asked(m) = {}
    BY <1>0, <1>6 DEF AllFromAgenda, FromAgenda, Ledger!Asked
  <2> QED
    BY <1>1, <1>2, <1>4, <1>6, <2>1
    DEF Ledger!NothingToDo, Ledger!Worked, Ledger!Next, Recorded
<1>7. CASE draft[r] = "processed" /\ ~skipped[r]
  <2>1. worked' = worked \union {m}
    BY <1>0, <1>2, <1>7 DEF Meeting
  <2>2. Recorded(staged[r]) \subseteq Ledger!Asked(m)
    <3> SUFFICES ASSUME NEW i \in staged[r]
                 PROVE  [meeting |-> Origin(i), title |-> i.title, ref |-> i.ref]
                          \in Ledger!Asked(m)
      BY DEF Recorded
    <3>1. i.by = r /\ Origin(i) = Meeting(r)
      BY IntakeConstants DEF IntakeInv, Origin
    <3>2. PICK k \in DOMAIN Agenda[m] :
            i.title = Agenda[m][k].title /\ i.ref = Agenda[m][k].ref
      BY <1>0 DEF AllFromAgenda, FromAgenda
    <3> QED
      BY <1>0, <3>1, <3>2 DEF Ledger!Asked, Ledger!Entry
  <2>3. Ledger!Covers(Recorded(past)', m)
    <3> SUFFICES ASSUME NEW k \in DOMAIN Agenda[m]
                 PROVE  \E e \in Recorded(past)' :
                          e.ref = Agenda[m][k].ref \/ e.title = Agenda[m][k].title
      BY DEF Ledger!Covers, Ledger!Asked, Ledger!Entry
    <3>1. PICK i \in past \union staged[r] :
            i.ref = Agenda[m][k].ref \/ i.title = Agenda[m][k].title
      BY <1>0, <1>2, <1>7 DEF AllCovered, CoverInv, CoveredIn
    <3>2. [meeting |-> Origin(i), title |-> i.title, ref |-> i.ref]
            \in Recorded(past) \union Recorded(staged[r])
      BY DEF Recorded
    <3> QED
      BY <1>3, <3>1, <3>2
  <2> QED
    BY <1>1, <1>2, <1>3, <1>7, <2>1, <2>2, <2>3
    DEF Ledger!Work, Ledger!Worked, Ledger!Next, Recorded
<1> QED
  BY <1>2, <1>5, <1>6, <1>7

(* However deliveries race, fail and are cut short, what is committed of   *)
(* them is a sequence of decisions of the ledger: every meeting is decided *)
(* once, with all that follows, and worked off only with consent.          *)
THEOREM IntakeImplementsLedger == Spec => ImplementsLedger
<1>1. Init => Ledger!Init
  <2> SUFFICES ASSUME Init PROVE Ledger!Init
    OBVIOUS
  <2>1. \A m \in Meetings : Decision(m) = Ledger!Undecided
    BY DEF Init, Decision, Ledger!Undecided
  <2> QED
    BY <2>1 DEF Init, Ledger!Init
<1>2. IntakeInv /\ AllCovered /\ AllFromAgenda /\ [Next]_vars
        => [Ledger!Next]_Ledger!vars
  BY CommitStep, PeopleStep, OthersUnseen
<1> QED
  BY <1>1, <1>2, Inductive, Covering, Sourced, PTL
  DEF Spec, ImplementsLedger, Ledger!Spec
=============================================================================
