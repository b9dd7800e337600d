---------------------------- MODULE NudgeSweepProofs ----------------------------
(***************************************************************************)
(* Proofs about NudgeSweep, for any finite table of items, any people,     *)
(* sweepers, due dates, windows and caps, and a cool-down of at least one  *)
(* unit: what an item's record says was sent, a sweep leaves the cool-down *)
(* between reminders it knows of, and what it sends is within the cap.     *)
(***************************************************************************)
EXTENDS NudgeSweep, FiniteSetTheorems, TLAPS

(* What a sweep has sent: one message for each item it has done with, to   *)
(* the owner it read, at this very time.                                   *)
Msg(s, i) == [item |-> i, to |-> view[s][i].owner, at |-> now, by |-> s, kept |-> FALSE]

(* The items of p that s reminds of or has reminded of.                    *)
Planned(s, p) == {i \in todo[s] \union done[s] : view[s][i].owner = p}

(* The messages on record about an item.                                   *)
Kept(i) == {m \in sent : m.item = i /\ m.kept}
KnownOf(s, i) == {k \in known[s] : k.item = i}

(* The items of p that messages on record lately reminded of.              *)
OldTo(s, p) ==
  {m \in known[s] :
     /\ m.to = p /\ m.at >= now - Window
     /\ view[s][m.item] # Gone /\ view[s][m.item].open
     /\ view[s][m.item].owner = p}
OldItems(s, p) == {m.item : m \in OldTo(s, p)}

(* What a sweep under way keeps true of what it read and decided.          *)
ReadInv(s) ==
  /\ \A i \in todo[s] \union done[s] : view[s][i] # Gone
  /\ \A k \in known[s] : k \in sent /\ k.kept
  /\ \A m \in sent : m.kept /\ m.by = s => m \in known[s]
  /\ \A i \in todo[s] \union done[s] : \A k \in known[s] :
       k.item = i => now - k.at >= Cooldown
  /\ \A i \in Items : view[s][i] # Gone =>
       view[s][i].nudges <= Cardinality(KnownOf(s, i))
  /\ \A p \in People : Planned(s, p) # {} =>
       Cardinality(Planned(s, p)) + Cardinality(OldItems(s, p)) <= Cap

SweeperInv(s) ==
  /\ pc[s] = "idle" => todo[s] = {} /\ done[s] = {}
  /\ Mine(s) = {Msg(s, i) : i \in done[s]}
  /\ pc[s] = "deliver" => ReadInv(s)

(* No message is from the future, and the record of an item is of its      *)
(* latest reminder.                                                        *)
RecordInv ==
  /\ IsFiniteSet(sent)
  /\ \A m \in sent : m.at <= now
  /\ \A m \in sent : m.kept /\ item[m.item] # Gone => m.at <= item[m.item].last

SweepInv == TypeOK /\ RecordInv /\ RecordedIsSent /\ \A s \in Sweepers : SweeperInv(s)

----------------------------------------------------------------------------
(* About finite sets, and about the operators of the sweep.                *)

LEMMA SubsetCard ==
  ASSUME NEW S, IsFiniteSet(S), NEW T, T \subseteq S
  PROVE  /\ IsFiniteSet(T) /\ Cardinality(T) \in Nat /\ Cardinality(S) \in Nat
         /\ Cardinality(T) <= Cardinality(S)
<1>1. T \in SUBSET S
  OBVIOUS
<1> QED
  BY <1>1, FS_Subset, FS_CardinalityType

LEMMA ImageCard ==
  ASSUME NEW S, IsFiniteSet(S), NEW f, DOMAIN f = S, f = [x \in S |-> f[x]],
         NEW T, T = {f[x] : x \in S}
  PROVE  /\ IsFiniteSet(T) /\ Cardinality(T) \in Nat
         /\ Cardinality(T) <= Cardinality(S)
<1>1. f \in Surjection(S, T)
  BY DEF Surjection
<1>2. IsFiniteSet(T) /\ Cardinality(T) <= Cardinality(S)
  BY <1>1, FS_Surjection
<1> QED
  BY <1>2, FS_CardinalityType

LEMMA SetsAreFinite ==
  ASSUME SweepInv, NEW s \in Sweepers
  PROVE  /\ IsFiniteSet(todo[s]) /\ IsFiniteSet(done[s])
         /\ \A p : IsFiniteSet(Planned(s, p)) /\ IsFiniteSet(OldItems(s, p))
         /\ \A i : IsFiniteSet(Kept(i))
<1>1. todo[s] \subseteq Items /\ done[s] \subseteq Items
  BY DEF SweepInv, TypeOK
<1>2. \A p : Planned(s, p) \subseteq Items
  BY <1>1 DEF Planned
<1>3. \A i : Kept(i) \subseteq sent
  BY DEF Kept
<1>4. \A p : OldItems(s, p) \subseteq Items
  BY DEF OldItems, OldTo, SweepInv, TypeOK, Message
<1>5. IsFiniteSet(Items) /\ IsFiniteSet(sent)
  BY SweepConstants DEF SweepInv, RecordInv
<1> QED
  BY <1>1, <1>2, <1>3, <1>4, <1>5, SubsetCard

(* RecordedIsSent, in the terms above.                                     *)
Recorded ==
  \A i \in Items : item[i] # Gone =>
    /\ item[i].last # Never => \E m \in Kept(i) : m.at = item[i].last
    /\ item[i].nudges <= Cardinality(Kept(i))

LEMMA RecordedSame ==
  (RecordedIsSent <=> Recorded) /\ (RecordedIsSent' <=> Recorded')
BY DEF Recorded, RecordedIsSent, Kept, Existing

(* What the UPDATE of a sweep makes of an item that is still there.        *)
LEMMA WrittenItem ==
  ASSUME SweepInv, NEW s \in Sweepers, pc[s] = "deliver", NEW i \in Items, item[i] # Gone
  PROVE  /\ Written(s, i) \in Item
         /\ i \in done[s] => /\ Written(s, i).last = now
                             /\ Written(s, i).nudges = view[s][i].nudges + 1
         /\ i \notin done[s] => /\ Written(s, i).last = item[i].last
                                /\ Written(s, i).nudges = item[i].nudges
<1>1. item[i] \in Item /\ now \in 0..MaxTime
  BY DEF SweepInv, TypeOK
<1>2. CASE i \in done[s]
  <2>1. view[s][i] # Gone
    BY <1>2 DEF SweepInv, SweeperInv, ReadInv
  <2>2. view[s][i] \in Item
    BY <2>1 DEF SweepInv, TypeOK
  <2>3. view[s][i].nudges + 1 \in Nat
    BY <2>2 DEF Item
  <2> DEFINE r == [item[i] EXCEPT !.last = now, !.nudges = view[s][i].nudges + 1]
  <2>4. r \in Item /\ r.last = now /\ r.nudges = view[s][i].nudges + 1
    BY <1>1, <2>3 DEF Item
  <2>5. Written(s, i) = [r EXCEPT !.escalated = @ \/ i \in late[s]]
    BY <1>2 DEF Written
  <2> HIDE DEF r
  <2> QED
    BY <1>2, <2>4, <2>5 DEF Item
<1>3. CASE i \notin done[s]
  <2>1. Written(s, i) = [item[i] EXCEPT !.escalated = @ \/ i \in late[s]]
    BY <1>3 DEF Written
  <2> QED
    BY <1>1, <1>3, <2>1 DEF Item
<1> QED
  BY <1>2, <1>3

(* What a person changes of an item is not the record of its reminders.    *)
LEMMA EditedItem ==
  ASSUME SweepInv, NEW i \in Items, item[i] # Gone, Update(i) \/ Delete(i)
  PROVE  /\ item'[i] = Gone \/ (/\ item'[i] \in Item
                                /\ item'[i].last = item[i].last
                                /\ item'[i].nudges = item[i].nudges)
         /\ item' \in [Items -> Item \union {Gone}]
         /\ \A j \in Items \ {i} : item'[j] = item[j]
         /\ edits' \in 0..MaxEdits
         /\ UNCHANGED <<now, sent, pc, view, todo, done, late, known, faults>>
<1>1. item[i] \in Item /\ item \in [Items -> Item \union {Gone}] /\ edits \in 0..MaxEdits
  BY DEF SweepInv, TypeOK
<1>2. PICK new : Edit(i, new) /\ (new = Gone \/ (/\ new \in Item
                                                  /\ new.last = item[i].last
                                                  /\ new.nudges = item[i].nudges))
  <2>1. CASE Delete(i)
    BY <2>1 DEF Delete
  <2>2. ASSUME NEW open \in BOOLEAN, Edit(i, [item[i] EXCEPT !.open = open])
        PROVE  \E new : Edit(i, new) /\ new \in Item /\ new.last = item[i].last
                          /\ new.nudges = item[i].nudges
    <3> DEFINE n == [item[i] EXCEPT !.open = open]
    <3>1. n \in Item /\ n.last = item[i].last /\ n.nudges = item[i].nudges
      BY <1>1 DEF Item
    <3> QED
      BY <2>2, <3>1
  <2>3. ASSUME NEW due \in Dues, Edit(i, [item[i] EXCEPT !.due = due])
        PROVE  \E new : Edit(i, new) /\ new \in Item /\ new.last = item[i].last
                          /\ new.nudges = item[i].nudges
    <3> DEFINE n == [item[i] EXCEPT !.due = due]
    <3>1. n \in Item /\ n.last = item[i].last /\ n.nudges = item[i].nudges
      BY <1>1 DEF Item
    <3> QED
      BY <2>3, <3>1
  <2>4. ASSUME NEW p \in People, Edit(i, [item[i] EXCEPT !.owner = p])
        PROVE  \E new : Edit(i, new) /\ new \in Item /\ new.last = item[i].last
                          /\ new.nudges = item[i].nudges
    <3> DEFINE n == [item[i] EXCEPT !.owner = p]
    <3>1. n \in Item /\ n.last = item[i].last /\ n.nudges = item[i].nudges
      BY <1>1 DEF Item
    <3> QED
      BY <2>4, <3>1
  <2>5. ASSUME NEW muted \in BOOLEAN, Edit(i, [item[i] EXCEPT !.muted = muted])
        PROVE  \E new : Edit(i, new) /\ new \in Item /\ new.last = item[i].last
                          /\ new.nudges = item[i].nudges
    <3> DEFINE n == [item[i] EXCEPT !.muted = muted]
    <3>1. n \in Item /\ n.last = item[i].last /\ n.nudges = item[i].nudges
      BY <1>1 DEF Item
    <3> QED
      BY <2>5, <3>1
  <2> QED
    BY <2>1, <2>2, <2>3, <2>4, <2>5 DEF Update
<1>3. /\ item' = [item EXCEPT ![i] = new] /\ edits < MaxEdits /\ edits' = edits + 1
      /\ UNCHANGED <<now, sent, pc, view, todo, done, late, known, faults>>
  BY <1>2 DEF Edit, sweepVars
<1>4. item'[i] = new /\ \A j \in Items \ {i} : item'[j] = item[j]
  BY <1>1, <1>3
<1>5. item' \in [Items -> Item \union {Gone}]
  BY <1>1, <1>2, <1>3
<1>6. edits' \in 0..MaxEdits
  BY <1>1, <1>3, SweepConstants
<1> QED
  BY <1>2, <1>3, <1>4, <1>5, <1>6

----------------------------------------------------------------------------
(* The frame: a sweeper that does nothing while the others end or send.    *)
LEMMA OtherSweeper ==
  ASSUME NEW q \in Sweepers, SweeperInv(q), now' = now,
         pc'[q] = pc[q], view'[q] = view[q], todo'[q] = todo[q], done'[q] = done[q],
         known'[q] = known[q],
         \A m : m \in sent' /\ m.by = q <=> m \in sent /\ m.by = q,
         \A m \in sent : m.kept => m \in sent'
  PROVE  SweeperInv(q)'
<1>1. Mine(q)' = Mine(q)
  BY DEF Mine
<1>2. {Msg(q, i) : i \in done[q]}' = {Msg(q, i) : i \in done[q]}
  BY DEF Msg
<1>3. \A i : KnownOf(q, i)' = KnownOf(q, i)
  BY DEF KnownOf
<1>4. \A p : Planned(q, p)' = Planned(q, p)
  BY DEF Planned
<1>5. \A p : OldTo(q, p)' = OldTo(q, p)
  BY DEF OldTo
<1>6. \A p : OldItems(q, p)' = OldItems(q, p)
  BY <1>5 DEF OldItems
<1>7. ReadInv(q) => ReadInv(q)'
  <2> SUFFICES ASSUME ReadInv(q) PROVE ReadInv(q)'
    OBVIOUS
  <2>1. /\ \A i \in (todo[q] \union done[q])' : view[q][i]' # Gone
        /\ \A i \in (todo[q] \union done[q])' : \A k \in known[q]' :
             k.item = i => now' - k.at >= Cooldown
    BY DEF ReadInv
  <2>2. /\ \A k \in known'[q] : k \in sent' /\ k.kept
        /\ \A m \in sent' : m.kept /\ m.by = q => m \in known'[q]
    BY DEF ReadInv
  <2>3. \A i \in Items : view'[q][i] # Gone =>
          view'[q][i].nudges <= Cardinality(KnownOf(q, i)')
    BY <1>3 DEF ReadInv
  <2>4. \A p \in People : Planned(q, p)' # {} =>
          Cardinality(Planned(q, p)') + Cardinality(OldItems(q, p)') <= Cap
    BY <1>4, <1>6 DEF ReadInv
  <2> QED
    BY <2>1, <2>2, <2>3, <2>4 DEF ReadInv
<1> QED
  BY <1>1, <1>2, <1>7 DEF SweeperInv

(* All sweepers, when neither they nor the messages nor the time change.   *)
LEMMA SweepersRest ==
  ASSUME SweepInv, UNCHANGED <<now, sent, pc, view, todo, done, known>>
  PROVE  (\A s \in Sweepers : SweeperInv(s))'
BY OtherSweeper DEF SweepInv

LEMMA SweepInit == Init => SweepInv
<1> SUFFICES ASSUME Init PROVE SweepInv
  OBVIOUS
<1>1. PICK later \in SUBSET Items :
        item = [i \in Items |-> IF i \in later THEN Gone ELSE Created(i)]
  BY DEF Init
<1>2. \A i \in Items : /\ Created(i) \in Item /\ Created(i).last = Never
                       /\ Created(i).nudges = 0
  BY SweepConstants DEF Created, Item
<1>3. item \in [Items -> Item \union {Gone}]
  BY <1>1, <1>2
<1>4. faults \in 0..MaxFaults /\ edits \in 0..MaxEdits /\ now \in 0..MaxTime
  BY SweepConstants DEF Init
<1>5. TypeOK
  BY <1>3, <1>4 DEF Init, TypeOK
<1>6. RecordInv
  BY FS_EmptySet DEF Init, RecordInv
<1>7. Recorded
  <2> SUFFICES ASSUME NEW i \in Items, item[i] # Gone
               PROVE  item[i].last = Never /\ item[i].nudges <= Cardinality(Kept(i))
    BY DEF Recorded
  <2>1. item[i].last = Never /\ item[i].nudges = 0
    BY <1>1, <1>2
  <2>2. Kept(i) = {}
    BY DEF Init, Kept
  <2>3. Cardinality(Kept(i)) = 0
    BY ONLY <2>2, FS_EmptySet, Zenon
  <2> QED
    BY <2>1, <2>3
<1>8. ASSUME NEW s \in Sweepers PROVE SweeperInv(s)
  BY DEF Init, SweeperInv, Mine
<1> QED
  BY <1>5, <1>6, <1>7, <1>8, RecordedSame DEF SweepInv

----------------------------------------------------------------------------
(* Deciding.                                                               *)

(* Items of p that were reminded of within the window, as NudgesToday.     *)
Used(p) == {i \in OpenItems : item[i].owner = p /\ item[i].last >= now - Window}

(* The plan leaves room for what the cap has seen.                         *)
LEMMA PlanWithinCap ==
  ASSUME SweepInv, NEW plan \in SUBSET OpenItems, Nudges(plan), NEW p \in People,
         NEW mine, mine = {i \in plan : item[i].owner = p}, mine # {}
  PROVE  Cardinality(mine) + Cardinality(Used(p)) <= Cap
<1>1. OpenItems \subseteq Items /\ IsFiniteSet(Items)
  BY SweepConstants DEF OpenItems, Existing
<1>2. IsFiniteSet(mine) /\ Cardinality(mine) \in Nat /\ Cardinality(Used(p)) \in Nat
  BY <1>1, SubsetCard DEF Used
<1>3. PICK i \in mine : TRUE
  OBVIOUS
<1>4. p \in Reachable
  BY <1>3 DEF Nudges, Candidates
<1>5. plan \intersect Candidates(p) = mine
  BY DEF Nudges, Candidates
<1>6. Cardinality(plan \intersect Candidates(p)) <= Allowance(p)
  BY <1>4 DEF Nudges
<1>7. Cardinality(plan \intersect Candidates(p)) = Cardinality(mine)
  BY ONLY <1>5, Zenon
<1>8. Cardinality(mine) # 0
  BY <1>2, <1>3, FS_EmptySet
<1>9. Allowance(p) = IF Cardinality(Used(p)) >= Cap THEN 0 ELSE Cap - Cardinality(Used(p))
  BY DEF Allowance, NudgesToday, Used
<1> QED
  BY <1>2, <1>6, <1>7, <1>8, <1>9, SweepConstants

(* What is planned was, as far as the record goes, last reminded of a      *)
(* cool-down ago.                                                          *)
LEMMA PlanIsCool ==
  ASSUME SweepInv, NEW plan, Nudges(plan), NEW i \in plan,
         NEW k \in sent, k.kept, k.item = i
  PROVE  now - k.at >= Cooldown
<1>1. i \in Items /\ item[i] # Gone /\ now - item[i].last >= Cooldown
  BY DEF Nudges, Candidates, RemindableFor, OpenItems, Existing
<1>2. k.at <= item[i].last
  BY <1>1 DEF SweepInv, RecordInv
<1>3. item[i] \in Item /\ k \in Message /\ now \in 0..MaxTime
  BY <1>1 DEF SweepInv, TypeOK
<1>4. item[i].last \in Int /\ k.at \in Int /\ now \in Int
  BY <1>3, SweepConstants DEF Item, Message, Never
<1> QED
  BY <1>1, <1>2, <1>4, SweepConstants

LEMMA DecideStep == ASSUME SweepInv, NEW s \in Sweepers, Decide(s) PROVE SweepInv'
<1>1. PICK plan \in SUBSET OpenItems : Nudges(plan) /\ todo' = [todo EXCEPT ![s] = plan]
  BY DEF Decide
<1>2. /\ pc[s] = "idle" /\ pc' = [pc EXCEPT ![s] = "deliver"]
      /\ late' = [late EXCEPT ![s] = Escalations]
      /\ view' = [view EXCEPT ![s] = item]
      /\ known' = [known EXCEPT ![s] = {m \in sent : m.kept}]
      /\ UNCHANGED <<now, item, sent, done, faults, edits>>
  BY DEF Decide
<1>3. done[s] = {} /\ plan \subseteq Items /\ Escalations \subseteq Items
  BY <1>2 DEF SweepInv, SweeperInv, OpenItems, Existing, Escalations
<1>4. /\ todo'[s] = plan /\ done'[s] = {} /\ view'[s] = item /\ pc'[s] = "deliver"
      /\ known'[s] = {m \in sent : m.kept} /\ late'[s] = Escalations
  BY <1>1, <1>2, <1>3 DEF SweepInv, TypeOK
<1>5. TypeOK'
  <2>1. plan \intersect Escalations = {}
    <3> SUFFICES ASSUME NEW i \in plan, i \in Escalations PROVE FALSE
      OBVIOUS
    <3>1. i \in Items /\ item[i] # Gone /\ item[i].due >= now /\ item[i].due < now
      BY <1>1 DEF Nudges, Candidates, RemindableFor, OpenItems, Existing,
         Escalations, Overdue
    <3>2. item[i] \in Item /\ now \in Nat
      BY <3>1 DEF SweepInv, TypeOK
    <3>3. item[i].due \in Nat
      BY <3>2, SweepConstants DEF Item
    <3> QED
      BY <3>1, <3>2, <3>3
  <2>2. \A q \in Sweepers : todo'[q] \intersect (done'[q] \union late'[q]) = {}
    <3> SUFFICES ASSUME NEW q \in Sweepers
                 PROVE  todo'[q] \intersect (done'[q] \union late'[q]) = {}
      OBVIOUS
    <3>1. CASE q = s
      BY <1>4, <2>1, <3>1
    <3>2. CASE q # s
      BY <1>1, <1>2, <3>2 DEF SweepInv, TypeOK
    <3> QED
      BY <3>1, <3>2
  <2>3. /\ todo' \in [Sweepers -> SUBSET Items] /\ late' \in [Sweepers -> SUBSET Items]
        /\ view' \in [Sweepers -> [Items -> Item \union {Gone}]]
        /\ known' \in [Sweepers -> SUBSET Message]
        /\ pc' \in [Sweepers -> {"idle", "deliver"}]
    BY <1>1, <1>2, <1>3 DEF SweepInv, TypeOK
  <2> QED
    BY <1>2, <2>2, <2>3 DEF SweepInv, TypeOK
<1>6. RecordInv' /\ RecordedIsSent'
  BY <1>2 DEF SweepInv, RecordInv, RecordedIsSent, Existing
<1>7. ASSUME NEW q \in Sweepers \ {s} PROVE SweeperInv(q)'
  <2>1. /\ pc'[q] = pc[q] /\ view'[q] = view[q] /\ todo'[q] = todo[q]
        /\ done'[q] = done[q] /\ known'[q] = known[q] /\ now' = now /\ sent' = sent
    BY <1>1, <1>2 DEF SweepInv, TypeOK
  <2> QED
    BY <2>1, OtherSweeper DEF SweepInv
<1>8. SweeperInv(s)'
  <2>1. Mine(s)' = {}
    BY <1>2, <1>3 DEF SweepInv, SweeperInv, Mine
  <2>2. {Msg(s, i) : i \in done[s]}' = {}
    BY <1>4
  <2>3. \A i \in plan : item[i] # Gone
    BY DEF OpenItems, Existing
  <2>4. \A i \in plan : \A k \in known'[s] : k.item = i => now - k.at >= Cooldown
    BY <1>1, <1>4, PlanIsCool
  <2>5. ASSUME NEW i \in Items, view'[s][i] # Gone
        PROVE  view'[s][i].nudges <= Cardinality(KnownOf(s, i)')
    <3>1. KnownOf(s, i)' = Kept(i)
      BY <1>4 DEF KnownOf, Kept
    <3>2. view'[s][i] = item[i] /\ item[i].nudges <= Cardinality(Kept(i))
      BY <1>4, <2>5, RecordedSame DEF SweepInv, Recorded
    <3>3. Cardinality(KnownOf(s, i)') = Cardinality(Kept(i))
      BY ONLY <3>1, Zenon
    <3> QED
      BY <3>2, <3>3
  <2>6. ASSUME NEW p \in People, Planned(s, p)' # {}
        PROVE  Cardinality(Planned(s, p)') + Cardinality(OldItems(s, p)') <= Cap
    <3> DEFINE mine == {i \in plan : item[i].owner = p}
    <3>1. Planned(s, p)' = mine
      BY <1>4 DEF Planned
    <3>2. Cardinality(mine) + Cardinality(Used(p)) <= Cap
      BY <1>1, <2>6, <3>1, PlanWithinCap
    <3>3. OldItems(s, p)' \subseteq Used(p)
      <4> SUFFICES ASSUME NEW m \in OldTo(s, p)' PROVE m.item \in Used(p)
        BY DEF OldItems
      <4>1. /\ m \in sent /\ m.kept /\ m.at >= now - Window
            /\ item[m.item] # Gone /\ item[m.item].open /\ item[m.item].owner = p
        BY <1>2, <1>4 DEF OldTo
      <4>2. m \in Message /\ m.at <= item[m.item].last
        BY <4>1 DEF SweepInv, TypeOK, RecordInv
      <4>3. m.item \in Items /\ m.at \in Int /\ now \in Int
        BY <4>2 DEF SweepInv, TypeOK, Message
      <4>4. item[m.item].last \in Int
        <5>1. item[m.item] \in Item
          BY <4>1, <4>3 DEF SweepInv, TypeOK
        <5> QED
          BY <5>1, SweepConstants DEF Item, Never
      <4> QED
        BY <4>1, <4>2, <4>3, <4>4, SweepConstants DEF Used, OpenItems, Existing
    <3>4. IsFiniteSet(Used(p))
      <4>1. Used(p) \subseteq Items
        BY DEF Used, OpenItems, Existing
      <4> QED
        BY <4>1, SubsetCard, SweepConstants
    <3>5. /\ Cardinality(OldItems(s, p)') <= Cardinality(Used(p))
          /\ Cardinality(OldItems(s, p)') \in Nat /\ Cardinality(Used(p)) \in Nat
      BY <3>3, <3>4, SubsetCard
    <3>6. IsFiniteSet(mine)
      <4>1. mine \subseteq Items
        BY <1>3
      <4> QED
        BY <4>1, SubsetCard, SweepConstants
    <3>7. Cardinality(mine) \in Nat
      BY <3>6, FS_CardinalityType
    <3> HIDE DEF mine
    <3>8. Cardinality(Planned(s, p)') = Cardinality(mine)
      BY ONLY <3>1, Zenon
    <3> QED
      BY <3>2, <3>5, <3>7, <3>8, SweepConstants
  <2>7. ReadInv(s)'
    <3>1. todo'[s] \union done'[s] = plan
      BY <1>4
    <3>2. \A k \in known'[s] : k \in sent' /\ k.kept
      BY <1>2, <1>4
    <3>3. \A m \in sent' : m.kept /\ m.by = s => m \in known'[s]
      BY <1>2, <1>4
    <3>4. \A i \in todo'[s] \union done'[s] : view'[s][i] # Gone
      BY <1>4, <2>3, <3>1
    <3>5. \A i \in todo'[s] \union done'[s] : \A k \in known'[s] :
            k.item = i => now' - k.at >= Cooldown
      BY <1>2, <2>4, <3>1
    <3> QED
      BY <2>5, <2>6, <3>2, <3>3, <3>4, <3>5 DEF ReadInv
  <2> QED
    BY <1>4, <2>1, <2>2, <2>7 DEF SweeperInv
<1> QED
  BY <1>5, <1>6, <1>7, <1>8 DEF SweepInv

----------------------------------------------------------------------------
(* Delivering.                                                             *)

(* The types of what one message moves, sent or refused.                   *)
LEMMA TodoType ==
  ASSUME SweepInv, NEW s \in Sweepers, NEW i \in todo[s],
         todo' = [todo EXCEPT ![s] = @ \ {i}],
         done' = done \/ done' = [done EXCEPT ![s] = @ \union {i}],
         UNCHANGED <<late>>
  PROVE  /\ todo' \in [Sweepers -> SUBSET Items] /\ done' \in [Sweepers -> SUBSET Items]
         /\ \A q \in Sweepers : todo'[q] \intersect (done'[q] \union late'[q]) = {}
<1>1. i \in Items
  BY DEF SweepInv, TypeOK
<1>2. todo' \in [Sweepers -> SUBSET Items] /\ done' \in [Sweepers -> SUBSET Items]
  BY <1>1 DEF SweepInv, TypeOK
<1>3. /\ todo'[s] = todo[s] \ {i} /\ done'[s] \subseteq done[s] \union {i}
      /\ \A q \in Sweepers \ {s} : todo'[q] = todo[q] /\ done'[q] = done[q]
  BY DEF SweepInv, TypeOK
<1>4. \A q \in Sweepers : todo[q] \intersect (done[q] \union late[q]) = {}
  BY DEF SweepInv, TypeOK
<1> QED
  BY <1>2, <1>3, <1>4

LEMMA SendStep ==
  ASSUME SweepInv, NEW s \in Sweepers, NEW i \in Items, Send(s, i)
  PROVE  SweepInv'
<1>1. /\ pc[s] = "deliver" /\ i \in todo[s]
      /\ sent' = sent \union {Msg(s, i)}
      /\ done' = [done EXCEPT ![s] = @ \union {i}]
      /\ todo' = [todo EXCEPT ![s] = @ \ {i}]
      /\ UNCHANGED <<now, item, pc, view, late, known, faults, edits>>
  BY DEF Send, Msg
<1>2. /\ done'[s] = done[s] \union {i} /\ todo'[s] = todo[s] \ {i}
      /\ \A q \in Sweepers \ {s} : todo'[q] = todo[q] /\ done'[q] = done[q]
  BY <1>1 DEF SweepInv, TypeOK
<1>3. ReadInv(s) /\ view[s][i] # Gone
  BY <1>1 DEF SweepInv, SweeperInv, ReadInv
<1>4. /\ Msg(s, i).item = i /\ Msg(s, i).by = s /\ Msg(s, i).kept = FALSE
      /\ Msg(s, i).at = now /\ Msg(s, i) \in Message
  <2>1. view[s][i] \in Item /\ now \in 0..MaxTime
    BY <1>3 DEF SweepInv, TypeOK
  <2>2. view[s][i].owner \in People
    BY <2>1 DEF Item
  <2> QED
    BY <2>1, <2>2 DEF Msg, Message
<1> DEFINE new == Msg(s, i)
<1> HIDE DEF new
<1>5. sent' = sent \union {new} /\ new.item = i /\ new.by = s /\ new.kept = FALSE
      /\ new.at = now /\ new \in Message
  BY <1>1, <1>4 DEF new
<1>6. TypeOK'
  <2>1. sent' \subseteq Message
    BY <1>5 DEF SweepInv, TypeOK
  <2>2. /\ todo' \in [Sweepers -> SUBSET Items] /\ done' \in [Sweepers -> SUBSET Items]
        /\ \A q \in Sweepers : todo'[q] \intersect (done'[q] \union late'[q]) = {}
    BY <1>1, TodoType
  <2> QED
    BY <1>1, <2>1, <2>2 DEF SweepInv, TypeOK
<1>7. RecordInv'
  <2>1. IsFiniteSet(sent')
    BY <1>5, FS_AddElement DEF SweepInv, RecordInv
  <2>2. now \in Int
    BY DEF SweepInv, TypeOK
  <2>3. \A m \in sent' : m.at <= now'
    BY <1>1, <1>5, <2>2 DEF SweepInv, RecordInv
  <2>4. \A m \in sent' : m.kept /\ item'[m.item] # Gone => m.at <= item'[m.item].last
    BY <1>1, <1>5 DEF SweepInv, RecordInv
  <2> QED
    BY <2>1, <2>3, <2>4 DEF RecordInv
<1>8. RecordedIsSent'
  <2>1. \A j : Kept(j)' = Kept(j)
    BY <1>5 DEF Kept
  <2>2. Recorded
    BY RecordedSame DEF SweepInv
  <2>3. Recorded'
    BY <1>1, <2>1, <2>2 DEF Recorded
  <2> QED
    BY <2>3, RecordedSame
<1>9. ASSUME NEW q \in Sweepers \ {s} PROVE SweeperInv(q)'
  <2>1. \A m : m \in sent' /\ m.by = q <=> m \in sent /\ m.by = q
    BY <1>5
  <2>2. \A m \in sent : m.kept => m \in sent'
    BY <1>5
  <2>3. SweeperInv(q)
    BY DEF SweepInv
  <2> QED
    BY <1>1, <1>2, <2>1, <2>2, <2>3, OtherSweeper
<1>10. SweeperInv(s)'
  <2>1. Mine(s)' = Mine(s) \union {new}
    BY <1>5 DEF Mine
  <2>2. \A j : Msg(s, j)' = Msg(s, j)
    BY <1>1 DEF Msg
  <2>3. {Msg(s, j) : j \in done[s]}' = {Msg(s, j) : j \in done[s]} \union {new}
    BY <1>2, <2>2 DEF new
  <2>4. Mine(s)' = {Msg(s, j) : j \in done[s]}'
    BY <2>1, <2>3 DEF SweepInv, SweeperInv
  <2>5. todo'[s] \union done'[s] = todo[s] \union done[s]
    BY <1>1, <1>2
  <2>6. \A p : Planned(s, p)' = Planned(s, p)
    BY <1>1, <2>5 DEF Planned
  <2>7. \A p : OldTo(s, p)' = OldTo(s, p)
    BY <1>1 DEF OldTo
  <2>8. \A p : OldItems(s, p)' = OldItems(s, p)
    BY <2>7 DEF OldItems
  <2>9. \A j : KnownOf(s, j)' = KnownOf(s, j)
    BY <1>1 DEF KnownOf
  <2>10. ReadInv(s)'
    <3>1. /\ \A j \in todo'[s] \union done'[s] : view'[s][j] # Gone
          /\ \A j \in todo'[s] \union done'[s] : \A k \in known'[s] :
               k.item = j => now' - k.at >= Cooldown
      BY <1>1, <1>3, <2>5 DEF ReadInv
    <3>2. /\ \A k \in known'[s] : k \in sent' /\ k.kept
          /\ \A m \in sent' : m.kept /\ m.by = s => m \in known'[s]
      BY <1>1, <1>3, <1>5 DEF ReadInv
    <3>3. \A j \in Items : view'[s][j] # Gone =>
            view'[s][j].nudges <= Cardinality(KnownOf(s, j)')
      BY <1>1, <1>3, <2>9 DEF ReadInv
    <3>4. \A p \in People : Planned(s, p)' # {} =>
            Cardinality(Planned(s, p)') + Cardinality(OldItems(s, p)') <= Cap
      BY <1>3, <2>6, <2>8 DEF ReadInv
    <3> QED
      BY <3>1, <3>2, <3>3, <3>4 DEF ReadInv
  <2> QED
    BY <1>1, <2>4, <2>10 DEF SweeperInv
<1> QED
  BY <1>6, <1>7, <1>8, <1>9, <1>10 DEF SweepInv

LEMMA FailStep ==
  ASSUME SweepInv, NEW s \in Sweepers, NEW i \in Items, FailToSend(s, i)
  PROVE  SweepInv'
<1>1. /\ pc[s] = "deliver" /\ i \in todo[s]
      /\ faults < MaxFaults /\ faults' = faults + 1
      /\ todo' = [todo EXCEPT ![s] = @ \ {i}]
      /\ UNCHANGED <<now, item, sent, pc, view, done, late, known, edits>>
  BY DEF FailToSend
<1>2. /\ todo'[s] = todo[s] \ {i} /\ done'[s] = done[s]
      /\ \A q \in Sweepers \ {s} : todo'[q] = todo[q]
  BY <1>1 DEF SweepInv, TypeOK
<1>3. TypeOK'
  <2>1. faults' \in 0..MaxFaults
    BY <1>1, SweepConstants DEF SweepInv, TypeOK
  <2>2. /\ todo' \in [Sweepers -> SUBSET Items] /\ done' \in [Sweepers -> SUBSET Items]
        /\ \A q \in Sweepers : todo'[q] \intersect (done'[q] \union late'[q]) = {}
    BY <1>1, TodoType
  <2> QED
    BY <1>1, <2>1, <2>2 DEF SweepInv, TypeOK
<1>4. RecordInv' /\ RecordedIsSent'
  BY <1>1 DEF SweepInv, RecordInv, RecordedIsSent, Existing
<1>5. ASSUME NEW q \in Sweepers \ {s} PROVE SweeperInv(q)'
  BY <1>1, <1>2, OtherSweeper DEF SweepInv
<1>6. SweeperInv(s)'
  <2>1. Mine(s)' = {Msg(s, j) : j \in done[s]}'
    BY <1>1 DEF SweepInv, SweeperInv, Mine, Msg
  <2>2. ReadInv(s)
    BY <1>1 DEF SweepInv, SweeperInv
  <2>3. \A p : OldTo(s, p)' = OldTo(s, p)
    BY <1>1 DEF OldTo
  <2>4. \A p : OldItems(s, p)' = OldItems(s, p)
    BY <2>3 DEF OldItems
  <2>5. \A j : KnownOf(s, j)' = KnownOf(s, j)
    BY <1>1 DEF KnownOf
  <2>6. ASSUME NEW p \in People, Planned(s, p)' # {}
        PROVE  Cardinality(Planned(s, p)') + Cardinality(OldItems(s, p)') <= Cap
    <3>1. Planned(s, p)' \subseteq Planned(s, p)
      BY <1>1, <1>2 DEF Planned
    <3>2. /\ Cardinality(Planned(s, p)') <= Cardinality(Planned(s, p))
          /\ Cardinality(Planned(s, p)') \in Nat /\ Cardinality(Planned(s, p)) \in Nat
      BY <3>1, SetsAreFinite, SubsetCard
    <3>3. Cardinality(Planned(s, p)) + Cardinality(OldItems(s, p)) <= Cap
      BY <2>2, <2>6, <3>1 DEF ReadInv
    <3>4. Cardinality(OldItems(s, p)) \in Nat
      BY SetsAreFinite, FS_CardinalityType
    <3> QED
      BY <2>4, <3>2, <3>3, <3>4, SweepConstants
  <2>7. ReadInv(s)'
    <3>1. /\ \A j \in todo'[s] \union done'[s] : view'[s][j] # Gone
          /\ \A j \in todo'[s] \union done'[s] : \A k \in known'[s] :
               k.item = j => now' - k.at >= Cooldown
      BY <1>1, <1>2, <2>2 DEF ReadInv
    <3>2. /\ \A k \in known'[s] : k \in sent' /\ k.kept
          /\ \A m \in sent' : m.kept /\ m.by = s => m \in known'[s]
      BY <1>1, <2>2 DEF ReadInv
    <3>3. \A j \in Items : view'[s][j] # Gone =>
            view'[s][j].nudges <= Cardinality(KnownOf(s, j)')
      BY <1>1, <2>2, <2>5 DEF ReadInv
    <3> QED
      BY <2>6, <3>1, <3>2, <3>3 DEF ReadInv
  <2> QED
    BY <1>1, <2>1, <2>7 DEF SweeperInv
<1> QED
  BY <1>3, <1>4, <1>5, <1>6 DEF SweepInv

----------------------------------------------------------------------------
(* Ending.                                                                 *)

(* The messages of a sweep as its commit puts them on record.              *)
OnRecord(m) == [m EXCEPT !.kept = TRUE]

(* What the end of s leaves of the messages, by whom.                      *)
LEMMA EndMessages ==
  ASSUME SweepInv, NEW s \in Sweepers, NEW kept, End(s, kept)
  PROVE  /\ \A m \in sent : m.by # s \/ m.kept => m \in sent'
         /\ \A m \in sent' : m.by # s => m \in sent
         /\ \A m \in sent' : m.by = s => m.kept
         /\ \A m \in sent' : m \in sent \/ \E n \in Mine(s) : m = OnRecord(n)
         /\ \A m \in sent' : m \in Message
<1>1. Mine(s) \subseteq Message /\ sent \subseteq Message
  BY DEF SweepInv, TypeOK, Mine
<1>2. \A n \in Message : OnRecord(n) \in Message /\ OnRecord(n).by = n.by
                         /\ OnRecord(n).kept = TRUE
  BY DEF OnRecord, Message
<1>3. \A m : m \in sent' <=> \/ m \in sent /\ (m.by # s \/ m.kept)
                            \/ \E n \in IF kept THEN Mine(s) ELSE {} : m = OnRecord(n)
  BY DEF End, OnRecord
<1> HIDE DEF OnRecord
<1>4. ASSUME NEW m \in sent', m \notin sent \/ ~(m.by # s \/ m.kept)
      PROVE  \E n \in Mine(s) : m = OnRecord(n)
  BY <1>3, <1>4
<1>5. \A m \in sent : m.by # s \/ m.kept => m \in sent'
  BY <1>3
<1>6. ASSUME NEW n \in Mine(s) PROVE OnRecord(n).by = s /\ OnRecord(n).kept = TRUE
  BY <1>1, <1>2 DEF Mine
<1>7. ASSUME NEW m \in sent', m.by = s PROVE m.kept
  <2> SUFFICES ASSUME ~m.kept PROVE FALSE
    OBVIOUS
  <2>1. PICK n \in Mine(s) : m = OnRecord(n)
    BY <1>4, <1>7
  <2> QED
    BY <1>6, <2>1
<1>8. ASSUME NEW m \in sent', m.by # s PROVE m \in sent
  BY <1>4, <1>6, <1>8
<1>9. ASSUME NEW m \in sent' PROVE m \in Message
  BY <1>1, <1>2, <1>4
<1>10. ASSUME NEW m \in sent' PROVE m \in sent \/ \E n \in Mine(s) : m = OnRecord(n)
  BY <1>4
<1> QED
  BY <1>5, <1>7, <1>8, <1>9, <1>10

(* A commit puts them all on record, an undone sweep none.                 *)
LEMMA CommittedMessages ==
  ASSUME SweepInv, NEW s \in Sweepers, End(s, TRUE), NEW n \in Mine(s)
  PROVE  /\ OnRecord(n) \in sent' /\ OnRecord(n).kept = TRUE
         /\ OnRecord(n).at = n.at /\ OnRecord(n).item = n.item
<1>1. n \in Message
  BY DEF SweepInv, TypeOK, Mine
<1>2. OnRecord(n) \in sent'
  BY DEF End, OnRecord
<1> QED
  BY <1>1, <1>2 DEF OnRecord, Message

LEMMA UndoneMessages ==
  ASSUME NEW s \in Sweepers, End(s, FALSE)
  PROVE  sent' \subseteq sent /\ \A m \in sent : m.kept => m \in sent'
BY DEF End

(* The end of one sweep: it has nothing left, the others notice nothing.   *)
LEMMA EndSweepers ==
  ASSUME SweepInv, NEW s \in Sweepers, NEW kept, End(s, kept)
  PROVE  (\A q \in Sweepers : SweeperInv(q))'
<1>1. /\ pc' = [pc EXCEPT ![s] = "idle"] /\ todo' = [todo EXCEPT ![s] = {}]
      /\ done' = [done EXCEPT ![s] = {}] /\ known' = [known EXCEPT ![s] = {}]
      /\ view' = [view EXCEPT ![s] = [i \in Items |-> Gone]] /\ now' = now
  BY DEF End
<1>2. ASSUME NEW q \in Sweepers \ {s} PROVE SweeperInv(q)'
  <2>1. /\ pc'[q] = pc[q] /\ view'[q] = view[q] /\ todo'[q] = todo[q]
        /\ done'[q] = done[q] /\ known'[q] = known[q]
    BY <1>1 DEF SweepInv, TypeOK
  <2>2. \A m : m \in sent' /\ m.by = q <=> m \in sent /\ m.by = q
    BY EndMessages
  <2>3. \A m \in sent : m.kept => m \in sent'
    BY EndMessages
  <2>4. SweeperInv(q)
    BY DEF SweepInv
  <2> QED
    BY <1>1, <2>1, <2>2, <2>3, <2>4, OtherSweeper
<1>3. SweeperInv(s)'
  <2>1. pc'[s] = "idle" /\ todo'[s] = {} /\ done'[s] = {}
    BY <1>1 DEF SweepInv, TypeOK
  <2>2. Mine(s)' = {}
    <3>1. \A m \in sent' : m.by = s => m.kept
      BY EndMessages
    <3> QED
      BY <3>1 DEF Mine
  <2>3. {Msg(s, i) : i \in done[s]}' = {}
    BY <2>1
  <2> QED
    BY <2>1, <2>2, <2>3 DEF SweeperInv
<1> QED
  BY <1>2, <1>3

LEMMA EndFinite ==
  ASSUME SweepInv, NEW s \in Sweepers, NEW kept, End(s, kept)
  PROVE  IsFiniteSet(sent')
<1> DEFINE onRecord == [m \in Mine(s) |-> OnRecord(m)]
           ours == {onRecord[m] : m \in Mine(s)}
<1>1. IsFiniteSet(sent) /\ Mine(s) \subseteq sent
  BY DEF SweepInv, RecordInv, Mine
<1>2. IsFiniteSet(Mine(s))
  BY <1>1, SubsetCard
<1>3. IsFiniteSet(ours)
  <2>1. DOMAIN onRecord = Mine(s) /\ onRecord = [m \in Mine(s) |-> onRecord[m]]
    OBVIOUS
  <2> HIDE DEF onRecord
  <2> QED
    BY <1>2, <2>1, ImageCard
<1>4. IsFiniteSet(sent \union ours)
  BY <1>1, <1>3, FS_Union
<1>5. sent' \subseteq sent \union ours
  BY EndMessages
<1> QED
  BY <1>4, <1>5, SubsetCard

LEMMA EndType ==
  ASSUME SweepInv, NEW s \in Sweepers, NEW kept, End(s, kept),
         item' \in [Items -> Item \union {Gone}], faults' \in 0..MaxFaults
  PROVE  TypeOK'
<1>1. sent' \subseteq Message
  BY EndMessages
<1>2. /\ pc' \in [Sweepers -> {"idle", "deliver"}]
      /\ todo' \in [Sweepers -> SUBSET Items] /\ done' \in [Sweepers -> SUBSET Items]
      /\ late' \in [Sweepers -> SUBSET Items] /\ known' \in [Sweepers -> SUBSET Message]
      /\ view' \in [Sweepers -> [Items -> Item \union {Gone}]]
  BY DEF SweepInv, TypeOK, End
<1>3. \A q \in Sweepers : todo'[q] \intersect (done'[q] \union late'[q]) = {}
  <2>1. /\ todo'[s] = {}
        /\ \A q \in Sweepers \ {s} :
             todo'[q] = todo[q] /\ done'[q] = done[q] /\ late'[q] = late[q]
    BY DEF SweepInv, TypeOK, End
  <2> QED
    BY <2>1 DEF SweepInv, TypeOK
<1>4. now' = now /\ edits' = edits
  BY DEF End
<1> QED
  BY <1>1, <1>2, <1>3, <1>4 DEF SweepInv, TypeOK

(* A sweep that is undone takes its own messages off, and no others.       *)
LEMMA UndoneStep ==
  ASSUME SweepInv, NEW s \in Sweepers, End(s, FALSE), item' = item,
         faults' \in 0..MaxFaults
  PROVE  SweepInv'
<1>1. TypeOK'
  BY EndType DEF SweepInv, TypeOK
<1>2. sent' \subseteq sent /\ (\A m \in sent : m.kept => m \in sent') /\ now' = now
  BY UndoneMessages DEF End
<1>3. RecordInv'
  BY <1>2, EndFinite DEF SweepInv, RecordInv
<1>4. Recorded'
  <2>1. \A i : Kept(i)' = Kept(i)
    BY <1>2 DEF Kept
  <2>2. Recorded
    BY RecordedSame DEF SweepInv
  <2> QED
    BY <2>1, <2>2 DEF Recorded
<1> QED
  BY <1>1, <1>3, <1>4, RecordedSame, EndSweepers DEF SweepInv

(* A commit puts a message on record behind each counter it writes.        *)
LEMMA CommitStep == ASSUME SweepInv, NEW s \in Sweepers, Commit(s) PROVE SweepInv'
<1>1. /\ pc[s] = "deliver" /\ Touched(s) \subseteq Existing /\ End(s, TRUE)
      /\ item' = [i \in Items |-> IF i \in Touched(s) THEN Written(s, i) ELSE item[i]]
      /\ faults' = faults /\ now' = now
  BY DEF Commit, End
<1>2. SweeperInv(s) /\ ReadInv(s)
  BY <1>1 DEF SweepInv, SweeperInv
<1>3. \A i \in Items : i \in Touched(s) => item[i] # Gone /\ item'[i] = Written(s, i)
  BY <1>1 DEF Existing
<1>4. \A i \in Items : i \notin Touched(s) => i \notin done[s] /\ item'[i] = item[i]
  BY <1>1 DEF Touched
<1>5. ASSUME NEW i \in Items, i \in done[s]
      PROVE  item'[i].last = now /\ item'[i].nudges = view[s][i].nudges + 1
  BY <1>1, <1>3, <1>5, WrittenItem DEF Touched
<1>6. ASSUME NEW i \in Items, i \notin done[s], item'[i] # Gone
      PROVE  /\ item[i] # Gone
             /\ item'[i].last = item[i].last /\ item'[i].nudges = item[i].nudges
  BY <1>1, <1>3, <1>4, <1>6, WrittenItem
<1>7. item' \in [Items -> Item \union {Gone}]
  <2>1. \A i \in Items : item'[i] \in Item \union {Gone}
    BY <1>1, <1>3, <1>4, WrittenItem DEF SweepInv, TypeOK
  <2> QED
    BY <1>1, <2>1
<1>8. TypeOK'
  BY <1>1, <1>7, EndType DEF SweepInv, TypeOK
<1>9. \A n \in Mine(s) : n.item \in done[s] /\ n.at = now
  BY <1>2 DEF SweeperInv, Msg
<1>10. RecordInv'
  <2>1. now \in Int
    BY DEF SweepInv, TypeOK
  <2>2. ASSUME NEW m \in sent' PROVE m.at <= now'
    <3>1. CASE m \in sent
      BY <1>1, <3>1 DEF SweepInv, RecordInv
    <3>2. CASE m \notin sent
      <4>1. PICK n \in Mine(s) : m = OnRecord(n)
        BY <1>1, <3>2, EndMessages
      <4>2. m.at = now
        BY <1>1, <1>9, <4>1, CommittedMessages
      <4> QED
        BY <1>1, <2>1, <4>2
    <3> QED
      BY <3>1, <3>2
  <2>3. ASSUME NEW m \in sent', m.kept, item'[m.item] # Gone
        PROVE  m.at <= item'[m.item].last
    <3>1. m \in Message
      BY <1>8 DEF TypeOK
    <3>2. m.item \in Items
      BY <3>1 DEF Message
    <3>3. CASE m.item \in done[s]
      BY <1>1, <1>5, <2>2, <3>2, <3>3
    <3>4. CASE m.item \notin done[s]
      <4>1. m \in sent
        <5> SUFFICES ASSUME m \notin sent PROVE FALSE
          OBVIOUS
        <5>1. PICK n \in Mine(s) : m = OnRecord(n)
          BY <1>1, EndMessages
        <5> QED
          BY <1>1, <1>9, <3>4, <5>1, CommittedMessages
      <4> QED
        BY <1>6, <2>3, <3>2, <3>4, <4>1 DEF SweepInv, RecordInv
    <3> QED
      BY <3>3, <3>4
  <2>4. IsFiniteSet(sent')
    BY <1>1, EndFinite
  <2> QED
    BY <2>2, <2>3, <2>4 DEF RecordInv
<1>11. \A i : Kept(i) \subseteq Kept(i)'
  BY <1>1, EndMessages DEF Kept
<1>12. \A i : IsFiniteSet(Kept(i)')
  BY <1>10, SubsetCard DEF RecordInv, Kept
<1>13. ASSUME NEW i \in Items, item'[i] # Gone, i \notin done[s]
       PROVE  /\ item'[i].last # Never => \E m \in Kept(i)' : m.at = item'[i].last
              /\ item'[i].nudges <= Cardinality(Kept(i)')
  <2>1. /\ item[i] # Gone
        /\ item'[i].last = item[i].last /\ item'[i].nudges = item[i].nudges
    BY <1>6, <1>13
  <2>2. /\ item[i].last # Never => \E m \in Kept(i) : m.at = item[i].last
        /\ item[i].nudges <= Cardinality(Kept(i))
    BY <2>1, RecordedSame DEF SweepInv, Recorded
  <2>3. /\ Cardinality(Kept(i)) <= Cardinality(Kept(i)')
        /\ Cardinality(Kept(i)) \in Nat /\ Cardinality(Kept(i)') \in Nat
    BY <1>11, <1>12, SubsetCard
  <2>4. item[i].nudges \in Nat
    BY <2>1 DEF SweepInv, TypeOK, Item
  <2> QED
    BY <1>11, <2>1, <2>2, <2>3, <2>4
<1>14. ASSUME NEW i \in Items, i \in done[s]
       PROVE  /\ \E m \in Kept(i)' : m.at = item'[i].last
              /\ item'[i].nudges <= Cardinality(Kept(i)')
  <2> DEFINE new == OnRecord(Msg(s, i))
  <2>1. Msg(s, i) \in Mine(s) /\ Msg(s, i).item = i /\ Msg(s, i).at = now
    BY <1>2, <1>14 DEF SweeperInv, Msg
  <2>2. new \in sent' /\ new.item = i /\ new.at = now /\ new.kept = TRUE
    BY <1>1, <2>1, CommittedMessages
  <2> HIDE DEF new
  <2>3. new \in Kept(i)'
    BY <2>2 DEF Kept
  <2>4. \A k \in KnownOf(s, i) : k \in Kept(i)' /\ k # new
    <3> SUFFICES ASSUME NEW k \in KnownOf(s, i) PROVE k \in Kept(i)' /\ k # new
      OBVIOUS
    <3>1. k \in known[s] /\ k.item = i /\ k \in sent /\ k.kept
      BY <1>2 DEF KnownOf, ReadInv
    <3>2. now - k.at >= Cooldown
      BY <1>2, <1>14, <3>1 DEF ReadInv
    <3>3. k.at # now
      <4>1. now \in Int
        BY DEF SweepInv, TypeOK
      <4> QED
        BY <3>2, <4>1, SweepConstants
    <3> QED
      BY <1>11, <2>2, <3>1, <3>3 DEF Kept
  <2>5. KnownOf(s, i) \union {new} \subseteq Kept(i)'
    BY <2>3, <2>4
  <2>6. IsFiniteSet(KnownOf(s, i))
    BY <1>12, <2>5, SubsetCard
  <2>7. Cardinality(KnownOf(s, i) \union {new}) = Cardinality(KnownOf(s, i)) + 1
    BY <2>4, <2>6, FS_AddElement
  <2>8. Cardinality(KnownOf(s, i) \union {new}) <= Cardinality(Kept(i)')
    BY <1>12, <2>5, SubsetCard
  <2>9. Cardinality(KnownOf(s, i)) \in Nat /\ Cardinality(Kept(i)') \in Nat
    BY <1>12, <2>6, FS_CardinalityType
  <2>10. view[s][i] # Gone /\ view[s][i].nudges <= Cardinality(KnownOf(s, i))
    BY <1>2, <1>14 DEF ReadInv
  <2>11. view[s][i].nudges \in Nat
    BY <2>10 DEF SweepInv, TypeOK, Item
  <2>12. item'[i].nudges <= Cardinality(Kept(i)')
    BY <1>5, <1>14, <2>7, <2>8, <2>9, <2>10, <2>11
  <2> QED
    BY <1>5, <1>14, <2>2, <2>3, <2>12
<1>15. Recorded'
  BY <1>13, <1>14 DEF Recorded
<1> QED
  BY <1>1, <1>8, <1>10, <1>15, RecordedSame, EndSweepers DEF SweepInv

----------------------------------------------------------------------------
(* People, and the clock.                                                  *)

LEMMA EditStep ==
  ASSUME SweepInv, NEW i \in Items, item[i] # Gone, Update(i) \/ Delete(i)
  PROVE  SweepInv'
<1>1. /\ item' \in [Items -> Item \union {Gone}] /\ edits' \in 0..MaxEdits
      /\ UNCHANGED <<now, sent, pc, view, todo, done, late, known, faults>>
  BY EditedItem
<1>2. TypeOK'
  BY <1>1 DEF SweepInv, TypeOK
<1>3. \A j \in Items : item'[j] # Gone =>
        /\ item[j] # Gone
        /\ item'[j].last = item[j].last /\ item'[j].nudges = item[j].nudges
  BY EditedItem
<1>4. RecordInv'
  <2>1. \A m \in sent : m.item \in Items
    BY DEF SweepInv, TypeOK, Message
  <2> QED
    BY <1>1, <1>3, <2>1 DEF SweepInv, RecordInv
<1>5. Recorded'
  <2>1. \A j : Kept(j)' = Kept(j)
    BY <1>1 DEF Kept
  <2>2. Recorded
    BY RecordedSame DEF SweepInv
  <2> QED
    BY <1>3, <2>1, <2>2 DEF Recorded
<1> QED
  BY <1>1, <1>2, <1>4, <1>5, RecordedSame, SweepersRest DEF SweepInv

LEMMA CreateStep == ASSUME SweepInv, NEW i \in Items, Create(i) PROVE SweepInv'
<1>1. /\ edits < MaxEdits /\ edits' = edits + 1
      /\ \A m \in sent : m.item # i
      /\ item' = [item EXCEPT ![i] = Created(i)]
      /\ UNCHANGED <<now, sent, pc, view, todo, done, late, known, faults>>
  BY DEF Create, sweepVars
<1>2. Created(i) \in Item /\ Created(i).last = Never /\ Created(i).nudges = 0
  BY SweepConstants DEF Created, Item
<1>3. TypeOK'
  <2>1. edits' \in 0..MaxEdits
    BY <1>1, SweepConstants DEF SweepInv, TypeOK
  <2>2. item' \in [Items -> Item \union {Gone}]
    BY <1>1, <1>2 DEF SweepInv, TypeOK
  <2> QED
    BY <1>1, <2>1, <2>2 DEF SweepInv, TypeOK
<1>4. item'[i] = Created(i) /\ \A j \in Items \ {i} : item'[j] = item[j]
  BY <1>1 DEF SweepInv, TypeOK
<1>5. RecordInv'
  <2>1. \A m \in sent : m.item \in Items \ {i}
    BY <1>1 DEF SweepInv, TypeOK, Message
  <2> QED
    BY <1>1, <1>4, <2>1 DEF SweepInv, RecordInv
<1>6. Recorded'
  <2>1. \A j : Kept(j)' = Kept(j)
    BY <1>1 DEF Kept
  <2>2. Recorded
    BY RecordedSame DEF SweepInv
  <2>3. item'[i].last = Never /\ item'[i].nudges = 0
    BY <1>2, <1>4
  <2>4. Cardinality(Kept(i)') \in Nat
    <3>1. IsFiniteSet(Kept(i)')
      BY <1>5, SubsetCard DEF RecordInv, Kept
    <3> QED
      BY <3>1, FS_CardinalityType
  <2> QED
    BY <1>4, <2>1, <2>2, <2>3, <2>4 DEF Recorded
<1> QED
  BY <1>1, <1>3, <1>5, <1>6, RecordedSame, SweepersRest DEF SweepInv

LEMMA TickStep == ASSUME SweepInv, Tick PROVE SweepInv'
<1>1. /\ now < MaxTime /\ now' = now + 1 /\ \A s \in Sweepers : pc[s] = "idle"
      /\ UNCHANGED <<item, sent, pc, view, todo, done, late, known, faults, edits>>
  BY DEF Tick, sweepVars
<1>2. now \in Nat
  BY DEF SweepInv, TypeOK
<1>3. TypeOK'
  <2>1. now' \in 0..MaxTime
    BY <1>1, <1>2, SweepConstants
  <2> QED
    BY <1>1, <2>1 DEF SweepInv, TypeOK
<1>4. RecordInv'
  <2>1. ASSUME NEW m \in sent PROVE m.at <= now'
    <3>1. m.at \in Nat /\ m.at <= now
      BY DEF SweepInv, TypeOK, RecordInv, Message
    <3> QED
      BY <1>1, <1>2, <3>1
  <2> QED
    BY <1>1, <2>1 DEF SweepInv, RecordInv
<1>5. RecordedIsSent'
  BY <1>1 DEF SweepInv, RecordedIsSent, Existing
<1>6. ASSUME NEW s \in Sweepers PROVE SweeperInv(s)'
  BY <1>1 DEF SweepInv, SweeperInv, Mine
<1> QED
  BY <1>3, <1>4, <1>5, <1>6 DEF SweepInv

LEMMA SweepStep == SweepInv /\ [Next]_vars => SweepInv'
<1> SUFFICES ASSUME SweepInv, [Next]_vars PROVE SweepInv'
  OBVIOUS
<1>1. ASSUME NEW s \in Sweepers, Stale(s) \/ Crash(s) PROVE SweepInv'
  <2>1. End(s, FALSE) /\ item' = item
    BY <1>1 DEF Stale, Crash
  <2>2. faults' \in 0..MaxFaults
    <3>1. faults \in 0..MaxFaults /\ MaxFaults \in Nat
      BY SweepConstants DEF SweepInv, TypeOK
    <3>2. faults' = faults \/ (faults < MaxFaults /\ faults' = faults + 1)
      BY <1>1 DEF Stale, Crash
    <3> QED
      BY <3>1, <3>2
  <2> QED
    BY <2>1, <2>2, UndoneStep
<1>2. CASE UNCHANGED vars
  <2>1. UNCHANGED <<now, item, sent, pc, view, todo, done, late, known, faults, edits>>
    BY <1>2 DEF vars, sweepVars
  <2>2. TypeOK' /\ RecordInv' /\ RecordedIsSent'
    BY <2>1 DEF SweepInv, TypeOK, RecordInv, RecordedIsSent, Existing
  <2> QED
    BY <2>1, <2>2, SweepersRest DEF SweepInv
<1> QED
  BY <1>1, <1>2, DecideStep, SendStep, FailStep, CommitStep, EditStep, CreateStep,
     TickStep DEF Next, Deliver

LEMMA Inductive == Spec => []SweepInv
BY SweepInit, SweepStep, PTL DEF Spec

----------------------------------------------------------------------------
(* Theorems.                                                               *)

(* Every variable keeps its type.                                          *)
THEOREM TypeCorrect == Spec => []TypeOK
<1>1. SweepInv => TypeOK
  BY DEF SweepInv
<1> QED
  BY <1>1, Inductive, PTL

(* run_nudge_sweep counts only what it delivered: behind the time and the  *)
(* counter of an item there are messages, whichever sweeps overlapped,     *)
(* were undone by a deletion or died.                                      *)
THEOREM RecordTrue == Spec => []RecordedIsSent
<1>1. SweepInv => RecordedIsSent
  BY DEF SweepInv
<1> QED
  BY <1>1, Inductive, PTL

(* The cool-down of an item: no sweep repeats a reminder that was on       *)
(* record when it read, before the cool-down is over.                      *)
THEOREM Spaced == Spec => []RemindersAreSpaced
<1>1. SweepInv => RemindersAreSpaced
  <2> SUFFICES ASSUME SweepInv, NEW s \in Sweepers, NEW m \in Mine(s), NEW k \in known[s],
                      k.item = m.item
               PROVE  m.at - k.at >= Cooldown
    BY DEF RemindersAreSpaced
  <2>1. m.item \in done[s] /\ m.at = now
    BY DEF SweepInv, SweeperInv, Msg
  <2>2. pc[s] = "deliver"
    BY <2>1 DEF SweepInv, SweeperInv, TypeOK
  <2> QED
    BY <2>1, <2>2 DEF SweepInv, SweeperInv, ReadInv
<1> QED
  BY <1>1, Inductive, PTL

(* The fatigue cap: what one sweep sends a person, and the open items of   *)
(* theirs that messages on record were lately about, are within the cap.   *)
THEOREM WithinCap == Spec => []CapPerPerson
<1>1. SweepInv => CapPerPerson
  <2> SUFFICES ASSUME SweepInv, NEW s \in Sweepers, NEW p \in People,
                      {m \in Mine(s) : m.to = p} # {}
               PROVE  Cardinality({m \in Mine(s) : m.to = p})
                        + Cardinality({m.item : m \in OldTo(s, p)}) <= Cap
    BY DEF CapPerPerson, OldTo
  <2> DEFINE new == {m \in Mine(s) : m.to = p}
             his == {i \in done[s] : view[s][i].owner = p}
             message == [i \in his |-> Msg(s, i)]
  <2>1. /\ new = {message[i] : i \in his}
        /\ DOMAIN message = his /\ message = [i \in his |-> message[i]]
    <3>1. Mine(s) = {Msg(s, i) : i \in done[s]}
      BY DEF SweepInv, SweeperInv
    <3>2. \A i : Msg(s, i).to = view[s][i].owner
      BY DEF Msg
    <3> QED
      BY <3>1, <3>2
  <2>2. his \subseteq Planned(s, p) /\ IsFiniteSet(Planned(s, p))
        /\ IsFiniteSet(OldItems(s, p))
    BY SetsAreFinite DEF Planned
  <2>3. /\ IsFiniteSet(his) /\ Cardinality(his) <= Cardinality(Planned(s, p))
        /\ Cardinality(his) \in Nat /\ Cardinality(Planned(s, p)) \in Nat
    BY <2>2, SubsetCard
  <2>4. his # {} /\ Planned(s, p) # {}
    BY <2>1, <2>2
  <2> HIDE DEF message, his, new
  <2>5. Cardinality(new) <= Cardinality(his) /\ Cardinality(new) \in Nat
    BY <2>1, <2>3, ImageCard
  <2>6. ReadInv(s)
    BY <2>4 DEF SweepInv, SweeperInv, TypeOK, his
  <2>7. Cardinality(Planned(s, p)) + Cardinality(OldItems(s, p)) <= Cap
    BY <2>4, <2>6 DEF ReadInv
  <2>8. Cardinality(OldItems(s, p)) \in Nat
    BY <2>2, FS_CardinalityType
  <2>9. Cardinality(new) + Cardinality(OldItems(s, p)) <= Cap
    BY <2>3, <2>5, <2>7, <2>8, SweepConstants
  <2> QED
    BY <2>9, Zenon DEF new, OldItems
<1> QED
  BY <1>1, Inductive, PTL
===============================================================================
