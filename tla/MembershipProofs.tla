--------------------------- MODULE MembershipProofs ---------------------------
(***************************************************************************)
(* Proofs about Membership, for any people, engagements, slots and number  *)
(* of requests: who becomes an administrator by being first, that somebody *)
(* is, and that nobody with an account is left without an engagement.      *)
(***************************************************************************)
EXTENDS Membership, TLAPS

(* An account that a transaction is making has one maker, and what a       *)
(* transaction knows of its caller is still so.                            *)
CallerInv(r) ==
  /\ r.step \in {"count", "insert", "sync"} => ~r.new
  /\ r.step = "sync" => Known(r.who)
  /\ r.step \in {"sync", "choose", "enter"} => r.by = "token"
  /\ r.step \in Flushed => r.new \/ Known(r.who)
  /\ r.new => ~Known(r.who)
  /\ r.cut => Known(r.who)

(* The role of a new account: an administrator's if there is none at all,  *)
(* and only if there was none when the request began.                      *)
FirstInv(r) ==
  /\ r.step = "count" /\ NoUsers => r.early
  /\ r.step = "insert" \/ r.new =>
       /\ r.role # "unread"
       /\ NoUsers => r.role = "admin"
       /\ r.role = "admin" => r.early

(* The place: a member of something, or about to be.                       *)
PlaceInv(r) ==
  /\ r.step = "enter" => r.target # Nowhere
  /\ AutoJoin /\ r.by = "token" /\ r.step \in {"act", "commit"} /\ ~r.cut =>
       r.target # Nowhere \/ \E e \in Engagements : r.who \in member[e]

(* What a handler may have been let do.                                    *)
HandlerInv(r) ==
  /\ r.step # "commit" => r.op = NoOp
  /\ r.by = "seed" /\ r.step = "commit" => r.op.kind = "create"
  /\ r.op.kind \in {"role", "active"} => r.role = "admin"
  /\ r.op.kind \in {"role", "active", "add", "remove"} =>
       Known(r.op.user) \/ r.op.user = r.who

RequestInv(r) == CallerInv(r) /\ FirstInv(r) /\ PlaceInv(r) /\ HandlerInv(r)

OneMaker ==
  \A s, o \in Slots :
    /\ request[s] # Idle /\ request[o] # Idle /\ s # o
    /\ request[s].new /\ request[o].new
    => request[s].who # request[o].who

MembersKnown == \A e \in Engagements : \A p \in member[e] : Known(p)

AccessInv ==
  /\ TypeOK
  /\ \A s \in Slots : request[s] # Idle => RequestInv(request[s])
  /\ OneMaker /\ MembersKnown
  /\ SomeoneCanGrant /\ InAWorkspace

LEMMA AccessInit == Init => AccessInv
<1> SUFFICES ASSUME Init PROVE AccessInv
  OBVIOUS
<1>1. TypeOK
  <2>1. left \in 0..MaxRequests
    BY MembershipConstants DEF Init
  <2>2. demoted \in BOOLEAN
    BY Zenon DEF Init
  <2> QED
    BY <2>1, <2>2 DEF Init, TypeOK
<1>2. NoUsers
  BY DEF Init, NoUsers, Known
<1>3. OneMaker /\ MembersKnown /\ \A s \in Slots : request[s] = Idle
  BY DEF Init, OneMaker, MembersKnown
<1> QED
  BY <1>1, <1>2, <1>3 DEF AccessInv, SomeoneCanGrant, InAWorkspace, NoUsers

(* A step of one transaction that writes nothing yet.                      *)
LEMMA LocalStep ==
  ASSUME AccessInv, NEW s \in Slots, NEW r \in Request \union {Idle},
         request' = [request EXCEPT ![s] = r], UNCHANGED tables, left' \in 0..MaxRequests,
         r # Idle => RequestInv(r),
         r # Idle /\ r.new =>
           \A o \in Slots \ {s} : request[o] # Idle /\ request[o].new => request[o].who # r.who
  PROVE  AccessInv'
<1>1. request' \in [Slots -> Request \union {Idle}]
  BY DEF AccessInv, TypeOK
<1>2. TypeOK'
  BY <1>1 DEF AccessInv, TypeOK, tables
<1>3. ASSUME NEW o \in Slots, request'[o] # Idle
      PROVE  RequestInv(request[o])'
  <2>1. RequestInv(request'[o])
    BY <1>3 DEF AccessInv, TypeOK
  <2> QED
    BY <2>1 DEF RequestInv, CallerInv, FirstInv, PlaceInv, HandlerInv, Known, NoUsers, tables
<1>4. OneMaker'
  BY DEF AccessInv, TypeOK, OneMaker
<1>5. MembersKnown' /\ SomeoneCanGrant' /\ InAWorkspace'
  BY DEF AccessInv, MembersKnown, SomeoneCanGrant, InAWorkspace, Known, NoUsers, tables
<1> QED
  BY <1>2, <1>3, <1>4, <1>5 DEF AccessInv

(* A new transaction knows what it has read.                               *)
LEMMA FreshType ==
  ASSUME NEW p \in People, NEW by \in {"token", "seed"}
  PROVE  /\ Fresh(p, by) \in Request
         /\ NoOp \in Ops /\ NoOp.kind = "none"
<1>1. NoOp \in Ops /\ NoOp.kind = "none"
  BY DEF NoOp, Ops
<1>2. NoUsers \in BOOLEAN
  BY DEF NoUsers
<1> QED
  BY <1>1, <1>2 DEF Fresh, Request, Steps

LEMMA SignInStep ==
  ASSUME AccessInv, NEW s \in Slots, NEW p \in People, SignIn(s, p) \/ Seed(s, p)
  PROVE  AccessInv'
<1>1. left' \in 0..MaxRequests
  BY MembershipConstants DEF SignIn, Seed, Start, AccessInv, TypeOK
<1>2. ASSUME NEW by \in {"token", "seed"}, ~Known(p), Start(s, Fresh(p, by))
      PROVE  AccessInv'
  <2>1. RequestInv(Fresh(p, by))
    BY <1>2, FreshType
    DEF RequestInv, CallerInv, FirstInv, PlaceInv, HandlerInv, Fresh, Flushed
  <2>2. ~Fresh(p, by).new
    BY DEF Fresh
  <2> QED
    BY <1>1, <1>2, <2>1, <2>2, FreshType, LocalStep DEF Start
<1>3. ASSUME Known(p), NEW role \in Roles \union {"unread"},
             Start(s, [Fresh(p, "token") EXCEPT !.step = "sync", !.role = role,
                                                !.active = row[p].active])
      PROVE  AccessInv'
  <2> DEFINE r == [Fresh(p, "token") EXCEPT !.step = "sync", !.role = role,
                                            !.active = row[p].active]
  <2>1. row[p].active \in BOOLEAN
    BY <1>3 DEF Known, AccessInv, TypeOK, Row
  <2>2. r \in Request
    <3>1. Fresh(p, "token") \in Request
      BY FreshType
    <3>2. "sync" \in Steps
      BY DEF Steps
    <3> HIDE DEF Fresh
    <3> QED
      BY <2>1, <3>1, <3>2 DEF Request
  <2>3. /\ r.step = "sync" /\ r.who = p /\ r.by = "token" /\ ~r.new /\ ~r.cut
        /\ r.op = NoOp
    BY FreshType DEF Fresh
  <2> HIDE DEF r
  <2>4. RequestInv(r)
    BY <1>3, <2>3, FreshType
    DEF RequestInv, CallerInv, FirstInv, PlaceInv, HandlerInv, Flushed
  <2> QED
    BY <1>1, <1>3, <2>2, <2>3, <2>4, LocalStep DEF Start, r
<1>4. ASSUME Known(p), Start(s, [Fresh(p, "seed") EXCEPT !.step = "act"])
      PROVE  AccessInv'
  <2> DEFINE r == [Fresh(p, "seed") EXCEPT !.step = "act"]
  <2>1. r \in Request
    BY FreshType DEF Request, Steps
  <2>2. /\ r.step = "act" /\ r.who = p /\ r.by = "seed" /\ ~r.new /\ ~r.cut
        /\ r.op = NoOp
    BY FreshType DEF Fresh
  <2> HIDE DEF r
  <2>3. RequestInv(r)
    BY <1>4, <2>2, FreshType
    DEF RequestInv, CallerInv, FirstInv, PlaceInv, HandlerInv, Flushed
  <2> QED
    BY <1>1, <1>4, <2>1, <2>2, <2>3, LocalStep DEF Start, r
<1>5. Known(p) => (IF row[p].key = "uid" THEN row[p].role ELSE "unread") \in Roles \union {"unread"}
  BY DEF Known, AccessInv, TypeOK, Row
<1> QED
  BY <1>2, <1>3, <1>4, <1>5 DEF SignIn, Seed
(* The steps from the first count to the handler.                          *)
LEMMA CountStep == ASSUME AccessInv, NEW s \in Slots, Count(s) PROVE AccessInv'
<1> DEFINE q == request[s]
           r == [q EXCEPT !.step = "insert", !.role = FirstRole(q.by)]
<1>1. q \in Request /\ RequestInv(q) /\ q.step = "count" /\ Step(s, r)
  BY DEF Count, AccessInv, TypeOK
<1>2. FirstRole(q.by) \in Roles /\ FirstRole(q.by) # "unread"
  BY DEF FirstRole, Roles
<1>3. /\ (NoUsers => FirstRole(q.by) = "admin") /\ (FirstRole(q.by) = "admin" => NoUsers)
  BY DEF FirstRole, IsFirst
<1>4. r \in Request
  BY <1>1, <1>2 DEF Request, Steps
<1>5. RequestInv(r)
  BY <1>1, <1>2, <1>3
  DEF Request, RequestInv, CallerInv, FirstInv, PlaceInv, HandlerInv, Flushed, NoOp
<1>6. ~r.new /\ left' \in 0..MaxRequests
  BY <1>1 DEF Request, RequestInv, CallerInv, Step, AccessInv, TypeOK
<1> QED
  BY <1>1, <1>4, <1>5, <1>6, LocalStep DEF Step

LEMMA InsertStep == ASSUME AccessInv, NEW s \in Slots, Insert(s) PROVE AccessInv'
<1> DEFINE q == request[s]
           r == [q EXCEPT !.new = TRUE, !.step = IF q.by = "seed" THEN "act" ELSE "choose"]
<1>1. /\ q \in Request /\ RequestInv(q) /\ q.step = "insert" /\ Step(s, r)
      /\ ~Known(q.who) /\ Free(s, q.who)
  BY DEF Insert, AccessInv, TypeOK
<1>2. r \in Request
  BY <1>1 DEF Request, Steps
<1>3. RequestInv(r)
  BY <1>1
  DEF Request, RequestInv, CallerInv, FirstInv, PlaceInv, HandlerInv, Flushed
<1>4. ASSUME NEW o \in Slots \ {s}, request[o] # Idle, request[o].new
      PROVE  request[o].who # q.who
  <2>1. request[o] \in Request /\ RequestInv(request[o]) /\ o \in Others(s)
    BY <1>4 DEF AccessInv, TypeOK, Others
  <2>2. request[o].step \in Flushed
    BY <1>4, <2>1 DEF RequestInv, CallerInv, Request, Steps, Flushed, FirstInv
  <2> QED
    BY <1>1, <1>4, <2>1, <2>2 DEF Free, Locks
<1>5. left' \in 0..MaxRequests /\ r.who = q.who
  BY <1>1 DEF Request, Step, AccessInv, TypeOK
<1> QED
  BY <1>1, <1>2, <1>3, <1>4, <1>5, LocalStep DEF Step

LEMMA SyncStep == ASSUME AccessInv, NEW s \in Slots, Sync(s) PROVE AccessInv'
<1> DEFINE q == request[s]
           rekey == row[q.who].key = "placeholder"
           role == IF q.role = "unread" THEN Adopted(q.who).role ELSE q.role
           r == [q EXCEPT !.step = "choose", !.rekey = rekey, !.role = role]
<1>1. q \in Request /\ RequestInv(q) /\ q.step = "sync" /\ Step(s, r)
  BY DEF Sync, AccessInv, TypeOK
<1>2. row[q.who] \in Row
  BY <1>1 DEF RequestInv, CallerInv, Known, AccessInv, TypeOK, Request
<1>3. role \in Roles \union {"unread"} /\ rekey \in BOOLEAN
  BY <1>1, <1>2 DEF Adopted, Row, Request
<1> HIDE DEF role, rekey
<1>4. r \in Request
  BY <1>1, <1>3 DEF Request, Steps
<1>5. RequestInv(r) /\ ~r.new
  BY <1>1
  DEF Request, RequestInv, CallerInv, FirstInv, PlaceInv, HandlerInv, Flushed, NoOp
<1>6. left' \in 0..MaxRequests
  BY <1>1 DEF Step, AccessInv, TypeOK
<1> QED
  BY <1>1, <1>4, <1>5, <1>6, LocalStep DEF Step

(* A later step keeps the caller, and whether the account is new.          *)
LEMMA LaterStep ==
  ASSUME AccessInv, NEW s \in Slots, request[s] # Idle,
         NEW r \in Request, Step(s, r), RequestInv(r),
         r.who = request[s].who, r.new = request[s].new
  PROVE  AccessInv'
<1>1. left' \in 0..MaxRequests
  BY DEF Step, AccessInv, TypeOK
<1>2. r.new => \A o \in Slots \ {s} :
                 request[o] # Idle /\ request[o].new => request[o].who # r.who
  BY DEF AccessInv, OneMaker
<1> QED
  BY <1>1, <1>2, LocalStep DEF Step

LEMMA ChooseStep == ASSUME AccessInv, NEW s \in Slots, Choose(s) PROVE AccessInv'
<1> DEFINE q == request[s]
<1>1. q \in Request /\ q # Idle /\ RequestInv(q) /\ q.step = "choose"
  BY DEF Choose, AccessInv, TypeOK
<1>2. CASE ~NeedsPlace(q.who) /\ Step(s, [q EXCEPT !.step = "act"])
  <2> DEFINE r == [q EXCEPT !.step = "act"]
  <2>1. r \in Request /\ r.who = q.who /\ r.new = q.new
    BY <1>1 DEF Request, Steps
  <2>2. RequestInv(r)
    BY <1>1, <1>2
    DEF Request, RequestInv, CallerInv, FirstInv, PlaceInv, HandlerInv, Flushed, NeedsPlace
  <2> QED
    BY <1>1, <1>2, <2>1, <2>2, LaterStep
<1>3. ASSUME NEW e \in Engagements, NEW make \in BOOLEAN,
             Step(s, [q EXCEPT !.step = "enter", !.target = e, !.make = make])
      PROVE  AccessInv'
  <2> DEFINE r == [q EXCEPT !.step = "enter", !.target = e, !.make = make]
  <2>1. r \in Request /\ r.who = q.who /\ r.new = q.new
    BY <1>1 DEF Request, Steps
  <2>2. RequestInv(r)
    BY <1>1, MembershipConstants
    DEF Request, RequestInv, CallerInv, FirstInv, PlaceInv, HandlerInv, Flushed
  <2> QED
    BY <1>1, <1>3, <2>1, <2>2, LaterStep
<1>4. ASSUME NEW e \in Places, Step(s, [q EXCEPT !.step = "enter", !.target = e])
      PROVE  AccessInv'
  <2>1. e \in Engagements
    BY MembershipConstants DEF Places, Active
  <2>2. [q EXCEPT !.step = "enter", !.target = e]
          = [q EXCEPT !.step = "enter", !.target = e, !.make = q.make]
    BY <1>1 DEF Request
  <2>3. q.make \in BOOLEAN
    BY <1>1 DEF Request
  <2> QED
    BY <1>3, <1>4, <2>1, <2>2, <2>3
<1>5. Workspace \in Engagements
  BY MembershipConstants
<1> QED
  BY <1>2, <1>3, <1>4, <1>5 DEF Choose

LEMMA EnterStep == ASSUME AccessInv, NEW s \in Slots, Enter(s) PROVE AccessInv'
<1> DEFINE q == request[s]
           r == [q EXCEPT !.step = "act"]
<1>1. q \in Request /\ q # Idle /\ RequestInv(q) /\ q.step = "enter" /\ Step(s, r)
  BY DEF Enter, AccessInv, TypeOK
<1>2. r \in Request /\ r.who = q.who /\ r.new = q.new
  BY <1>1 DEF Request, Steps
<1>3. RequestInv(r)
  BY <1>1 DEF Request, RequestInv, CallerInv, FirstInv, PlaceInv, HandlerInv, Flushed
<1> QED
  BY <1>1, <1>2, <1>3, LaterStep

LEMMA ActStep == ASSUME AccessInv, NEW s \in Slots, Act(s) PROVE AccessInv'
<1> DEFINE q == request[s]
<1>1. q \in Request /\ q # Idle /\ RequestInv(q) /\ q.step = "act"
  BY DEF Act, AccessInv, TypeOK
<1>2. PICK op \in Ops :
        /\ \/ q.by = "token" /\ (\/ Me(s, op) \/ Read(s, op) \/ UpdateUser(s, op)
                                 \/ Create(s, op) \/ Archive(s, op) \/ Update(s, op)
                                 \/ AddMember(s, op) \/ RemoveMember(s, op))
           \/ q.by = "seed" /\ SeedEngagement(s, op)
        /\ Step(s, [q EXCEPT !.step = "commit", !.op = op])
  BY DEF Act
<1> DEFINE r == [q EXCEPT !.step = "commit", !.op = op]
<1>3. r \in Request /\ r.who = q.who /\ r.new = q.new /\ r.op = op /\ r.step = "commit"
  BY <1>1 DEF Request, Steps
<1>4. CallerInv(r) /\ FirstInv(r) /\ PlaceInv(r)
  BY <1>1 DEF Request, RequestInv, CallerInv, FirstInv, PlaceInv, Flushed
<1>5. r.by = "seed" => op.kind = "create"
  BY <1>1, <1>2 DEF SeedEngagement, Request
<1>6. q.by = "seed" => op.kind = "create"
  BY <1>1, <1>2 DEF SeedEngagement
<1>7. op.kind \in {"role", "active"} => q.role = "admin"
  BY <1>2 DEF Me, Read, UpdateUser, Create, Archive, Update, AddMember, RemoveMember,
     SeedEngagement, RequireAdmin
<1>8. ASSUME op.kind \in {"role", "active", "add"} PROVE Known(op.user) \/ op.user = q.who
  BY <1>2, <1>8 DEF Me, Read, UpdateUser, Create, Archive, Update, AddMember, RemoveMember,
     SeedEngagement, HasAccount
<1>9. ASSUME op.kind = "remove" PROVE Known(op.user) \/ op.user = q.who
  <2>1. RemoveMember(s, op)
    BY <1>2, <1>9 DEF Me, Read, UpdateUser, Create, Archive, Update, AddMember,
       SeedEngagement
  <2>2. op.eng \in Engagements
    BY <1>9 DEF Ops, NoOp
  <2>3. CASE op.user \in member[op.eng]
    BY <2>2, <2>3 DEF AccessInv, MembersKnown
  <2>4. CASE <<op.eng, op.user>> \in Joins(q)
    <3>1. q.op.kind = "none"
      BY <1>1 DEF RequestInv, HandlerInv, NoOp
    <3>2. Joins(q) \subseteq {<<q.target, q.who>>}
      BY <3>1 DEF Joins
    <3> QED
      BY <2>4, <3>2
  <2> QED
    BY <2>1, <2>3, <2>4 DEF RemoveMember
<1>10. HandlerInv(r)
  <2>1. r.role = q.role /\ r.by = q.by
    BY <1>1 DEF Request
  <2> HIDE DEF r, q
  <2> QED
    BY <1>3, <1>6, <1>7, <1>8, <1>9, <2>1 DEF HandlerInv
<1> QED
  BY <1>1, <1>2, <1>3, <1>4, <1>10, LaterStep DEF RequestInv

LEMMA RollbackStep == ASSUME AccessInv, NEW s \in Slots, Rollback(s) PROVE AccessInv'
<1>1. left' \in 0..MaxRequests
  BY DEF Rollback, Step, AccessInv, TypeOK
<1> QED
  BY <1>1, LocalStep DEF Rollback, Step
----------------------------------------------------------------------------
(* The commit.                                                             *)

(* The accounts afterwards: those before, and the one it has made.         *)
LEMMA CommitRows ==
  ASSUME AccessInv, NEW s \in Slots, Commit(s)
  PROVE  /\ \A p \in People : row'[p] \in Row \union {NoRow}
         /\ \A p \in People :
              Known(p)' <=> Known(p) \/ (request[s].who = p /\ request[s].new)
<1> DEFINE r == request[s]
<1>1. r \in Request /\ RequestInv(r) /\ r.step = "commit"
  BY DEF Commit, AccessInv, TypeOK
<1>2. r.op.kind = "role" => r.op.role \in Roles
  BY <1>1 DEF Request, Ops
<1>3. r.op.kind = "active" => r.op.active \in BOOLEAN
  BY <1>1 DEF Request, Ops
<1>4. \A p \in People : row'[p] = Written(r, p)
  BY DEF Commit
<1>5. ASSUME NEW p \in People
      PROVE  /\ row'[p] \in Row \union {NoRow}
             /\ Known(p)' <=> Known(p) \/ (r.who = p /\ r.new)
  <2>1. CASE Known(p) \/ (r.who = p /\ r.new)
    <3>1. Synced(r, p) \in Row
      <4>1. CASE r.who = p /\ r.new
        <5>1. r.role \in Roles
          BY <1>1, <4>1 DEF RequestInv, FirstInv, Request
        <5> QED
          BY <4>1, <5>1 DEF Synced, Row
      <4>2. CASE ~(r.who = p /\ r.new)
        <5>1. row[p] \in Row
          BY <2>1, <4>2 DEF Known, AccessInv, TypeOK
        <5> QED
          BY <4>2, <5>1 DEF Synced, Adopted, Row
      <4> QED
        BY <4>1, <4>2
    <3>2. Written(r, p) \in Row
      BY <1>2, <1>3, <3>1 DEF Written, Row
    <3> QED
      BY <1>4, <2>1, <3>2, MembershipAbsent DEF Known
  <2>2. CASE ~Known(p) /\ ~(r.who = p /\ r.new)
    <3>1. r.who # p
      BY <1>1, <2>2 DEF RequestInv, CallerInv, Flushed
    <3>2. ~(r.op.kind \in {"role", "active"} /\ r.op.user = p)
      BY <1>1, <2>2, <3>1 DEF RequestInv, HandlerInv
    <3>3. Written(r, p) = NoRow
      BY <2>2, <3>1, <3>2 DEF Written, Synced, Known
    <3> QED
      BY <1>4, <2>2, <3>3 DEF Known
  <2> QED
    BY <2>1, <2>2
<1> QED
  BY <1>5

(* The other transactions: the same, but that one whose caller was removed *)
(* from an engagement is marked.                                           *)
LEMMA CommitOthers ==
  ASSUME AccessInv, NEW s \in Slots, Commit(s), NEW o \in Slots, request'[o] # Idle
  PROVE  /\ o # s /\ request[o] # Idle /\ request[o] \in Request
         /\ request'[o] \in Request
         /\ request'[o] = [request[o] EXCEPT !.cut = request'[o].cut]
         /\ request'[o].cut <=> request[o].cut \/ request[o].who \in Removed(request[s])
<1>1. request'[o] = IF o = s THEN Idle
                    ELSE IF o \in Others(s) /\ request[o].who \in Removed(request[s])
                      THEN [request[o] EXCEPT !.cut = TRUE] ELSE request[o]
  BY DEF Commit
<1>2. o # s /\ request[o] # Idle /\ request[o] \in Request
  BY <1>1, MembershipAbsent DEF Others, AccessInv, TypeOK
<1>3. o \in Others(s)
  BY <1>2 DEF Others
<1>4. CASE request[o].who \in Removed(request[s])
  BY <1>1, <1>2, <1>3, <1>4 DEF Request
<1>5. CASE request[o].who \notin Removed(request[s])
  BY <1>1, <1>2, <1>3, <1>5 DEF Request
<1> QED
  BY <1>2, <1>4, <1>5
LEMMA CommitType == ASSUME AccessInv, NEW s \in Slots, Commit(s) PROVE TypeOK'
<1> DEFINE r == request[s]
<1>1. row' \in [People -> Row \union {NoRow}]
  BY CommitRows DEF Commit
<1>2. member' \in [Engagements -> SUBSET People]
  BY DEF Commit
<1>3. state' \in [Engagements -> {"absent", "active", "archived"}]
  <2>1. \A e \in Engagements : state[e] \in {"absent", "active", "archived"}
    BY DEF AccessInv, TypeOK
  <2> QED
    BY <2>1 DEF Commit
<1>4. request' \in [Slots -> Request \union {Idle}]
  <2>1. \A o \in Slots : request'[o] \in Request \union {Idle}
    BY CommitOthers
  <2>2. request' = [o \in Slots |-> request'[o]]
    BY DEF Commit
  <2> QED
    BY <2>1, <2>2
<1>5. r \in Request /\ RequestInv(r)
  BY DEF Commit, AccessInv, TypeOK
<1>6. Removed(r) \subseteq People
  BY <1>5 DEF Removed, Request, Ops
<1>7. evicted' \subseteq People
  BY <1>6 DEF Commit, AccessInv, TypeOK
<1>8. left' \in 0..MaxRequests
  BY DEF Commit, AccessInv, TypeOK
<1>9. demoted' \in BOOLEAN
  BY Zenon DEF Commit
<1> QED
  BY <1>1, <1>2, <1>3, <1>4, <1>7, <1>8, <1>9 DEF TypeOK

LEMMA CommitRequests ==
  ASSUME AccessInv, NEW s \in Slots, Commit(s), NEW o \in Slots, request'[o] # Idle
  PROVE  RequestInv(request[o])'
<1> DEFINE r == request[s]
           q == request[o]
<1>1. /\ o # s /\ q # Idle /\ q \in Request /\ RequestInv(q)
      /\ request'[o] = [q EXCEPT !.cut = request'[o].cut]
      /\ request'[o].cut <=> q.cut \/ q.who \in Removed(r)
  BY CommitOthers DEF AccessInv
<1>2. /\ request'[o].step = q.step /\ request'[o].new = q.new /\ request'[o].who = q.who
      /\ request'[o].by = q.by /\ request'[o].role = q.role /\ request'[o].op = q.op
      /\ request'[o].early = q.early /\ request'[o].target = q.target
  BY <1>1 DEF Request
<1>3. q.who \in People
  BY <1>1 DEF Request
<1>4. /\ r \in Request /\ r # Idle /\ RequestInv(r) /\ r.step = "commit"
  BY DEF Commit, AccessInv, TypeOK
<1>5. \A p \in People :
        row'[p] # NoRow <=> row[p] # NoRow \/ (r.who = p /\ r.new)
  BY CommitRows DEF Known
<1>6. NoUsers' => NoUsers
  BY <1>5 DEF NoUsers, Known
<1>7. q.who \in Removed(r) => row'[q.who] # NoRow
  <2>1. r.op.kind = "remove" => Known(r.op.user) \/ r.op.user = r.who
    BY <1>4 DEF RequestInv, HandlerInv
  <2>2. r.new \/ Known(r.who)
    BY <1>4 DEF RequestInv, CallerInv, Flushed
  <2> QED
    BY <1>3, <1>5, <2>1, <2>2 DEF Removed, Known
<1>8. q.new => row'[q.who] = NoRow
  <2>1. q.new /\ r.new => q.who # r.who
    BY <1>1, <1>4 DEF AccessInv, OneMaker
  <2> QED
    BY <1>1, <1>3, <1>5, <2>1 DEF RequestInv, CallerInv, Known
<1>9. CallerInv(request[o])'
  <2>1. row[q.who] # NoRow => row'[q.who] # NoRow
    BY <1>3, <1>5
  <2> HIDE DEF q, r
  <2> QED
    BY <1>1, <1>2, <1>7, <1>8, <2>1 DEF CallerInv, RequestInv, Known, q, Flushed
<1>10. FirstInv(request[o])'
  BY <1>1, <1>2, <1>6 DEF FirstInv, RequestInv
<1>11. PlaceInv(request[o])'
  <2>1. ASSUME ~request'[o].cut, NEW e \in Engagements, q.who \in member[e]
        PROVE  q.who \in member'[e]
    <3>1. ~Removes(r, e, q.who)
      BY <1>1, <2>1 DEF Removes, Removed
    <3> QED
      BY <1>3, <2>1, <3>1 DEF Commit
  <2> QED
    BY <1>1, <1>2, <2>1 DEF PlaceInv, RequestInv
<1>12. HandlerInv(request[o])'
  <2>1. q.op.kind \in {"role", "active", "add", "remove"} => q.op.user \in People
    BY <1>1 DEF Request, Ops, NoOp
  <2>2. q.op.kind \in {"role", "active", "add", "remove"} =>
          row'[q.op.user] # NoRow \/ q.op.user = q.who
    BY <1>1, <1>5, <2>1 DEF RequestInv, HandlerInv, Known
  <2> HIDE DEF q, r
  <2> QED
    BY <1>1, <1>2, <2>2 DEF HandlerInv, RequestInv, Known
<1> QED
  BY <1>9, <1>10, <1>11, <1>12 DEF RequestInv

LEMMA CommitMembers ==
  ASSUME AccessInv, NEW s \in Slots, Commit(s)
  PROVE  OneMaker' /\ MembersKnown'
<1> DEFINE r == request[s]
<1>1. /\ r \in Request /\ r # Idle /\ RequestInv(r) /\ r.step = "commit"
  BY DEF Commit, AccessInv, TypeOK
<1>2. OneMaker'
  <2> SUFFICES ASSUME NEW o \in Slots, NEW u \in Slots, o # u,
                      request'[o] # Idle, request'[u] # Idle,
                      request'[o].new, request'[u].new
               PROVE  request'[o].who # request'[u].who
    BY DEF OneMaker
  <2>1. /\ request[o] # Idle /\ request[o].new = request'[o].new
        /\ request[o].who = request'[o].who
    <3>1. /\ request[o] # Idle /\ request[o] \in Request
          /\ request'[o] = [request[o] EXCEPT !.cut = request'[o].cut]
      BY CommitOthers
    <3> QED
      BY <3>1 DEF Request
  <2>2. /\ request[u] # Idle /\ request[u].new = request'[u].new
        /\ request[u].who = request'[u].who
    <3>1. /\ request[u] # Idle /\ request[u] \in Request
          /\ request'[u] = [request[u] EXCEPT !.cut = request'[u].cut]
      BY CommitOthers
    <3> QED
      BY <3>1 DEF Request
  <2> QED
    BY <2>1, <2>2 DEF AccessInv, OneMaker
<1>3. MembersKnown'
  <2> SUFFICES ASSUME NEW e \in Engagements, NEW p \in People, p \in member'[e]
               PROVE  Known(p)'
    BY CommitType DEF MembersKnown, TypeOK
  <2>1. p \in member[e] \/ <<e, p>> \in Joins(r)
    BY DEF Commit
  <2>2. r.new \/ Known(r.who)
    BY <1>1 DEF RequestInv, CallerInv, Flushed
  <2>3. <<e, p>> \in Joins(r) => p = r.who \/ (r.op.kind = "add" /\ p = r.op.user)
    BY DEF Joins
  <2>4. r.op.kind = "add" => Known(r.op.user) \/ r.op.user = r.who
    BY <1>1 DEF RequestInv, HandlerInv
  <2>5. p \in member[e] => Known(p)
    BY DEF AccessInv, MembersKnown
  <2> QED
    BY <2>1, <2>2, <2>3, <2>4, <2>5, CommitRows
<1> QED
  BY <1>2, <1>3

(* The first account, or an administrator who stays one, or is demoted.    *)
LEMMA CommitGrant == ASSUME AccessInv, NEW s \in Slots, Commit(s) PROVE SomeoneCanGrant'
<1> DEFINE r == request[s]
<1>1. /\ r \in Request /\ r # Idle /\ RequestInv(r) /\ r.step = "commit"
  BY DEF Commit, AccessInv, TypeOK
<1>2. \A p \in People : Grants(Synced(r, p)) => Grants(row'[p]) \/ demoted'
  BY DEF Commit
<1>3. demoted => demoted'
  BY DEF Commit
<1>4. CASE NoUsers
  <2>1. r.who \in People /\ r.new
    BY <1>1, <1>4 DEF RequestInv, CallerInv, Flushed, NoUsers, Request
  <2>2. r.role = "admin"
    BY <1>1, <1>4, <2>1 DEF RequestInv, FirstInv
  <2>3. Synced(r, r.who) = [key |-> IF r.by = "seed" THEN "placeholder" ELSE "uid",
                            role |-> "admin", active |-> TRUE]
    BY <2>1, <2>2 DEF Synced
  <2>4. Synced(r, r.who) \in Row
    BY <2>3 DEF Row, Roles
  <2>5. Synced(r, r.who).role = "admin" /\ Synced(r, r.who).active = TRUE
    BY <2>3
  <2>6. Grants(Synced(r, r.who))
    BY <2>4, <2>5, MembershipAbsent DEF Grants
  <2> QED
    BY <1>2, <2>1, <2>6 DEF SomeoneCanGrant
<1>5. ASSUME NEW p \in People, Grants(row[p]) PROVE SomeoneCanGrant'
  <2>1. row[p] \in Row /\ Known(p)
    BY <1>5 DEF Grants, Known, AccessInv, TypeOK
  <2>2. ~(r.who = p /\ r.new)
    BY <1>1, <2>1 DEF RequestInv, CallerInv
  <2>3. Synced(r, p) \in {row[p], Adopted(p)}
    BY <2>2 DEF Synced
  <2>4. Grants(Adopted(p))
    <3>1. Adopted(p) \in Row /\ Adopted(p).role = row[p].role /\ Adopted(p).active = row[p].active
      BY <2>1 DEF Adopted, Row
    <3> QED
      BY <1>5, <3>1, MembershipAbsent DEF Grants
  <2> QED
    BY <1>2, <1>5, <2>3, <2>4 DEF SomeoneCanGrant
<1> QED
  BY <1>3, <1>4, <1>5 DEF AccessInv, SomeoneCanGrant

(* The account it made has a place, and no other loses its last one but by *)
(* being removed.                                                          *)
LEMMA CommitPlace == ASSUME AccessInv, NEW s \in Slots, Commit(s) PROVE InAWorkspace'
<1> SUFFICES ASSUME AutoJoin, NEW p \in People, Known(p)', p \notin evicted'
             PROVE  \E e \in Engagements : p \in member'[e]
  BY DEF InAWorkspace
<1> DEFINE r == request[s]
<1>1. /\ r \in Request /\ r # Idle /\ RequestInv(r) /\ r.step = "commit"
  BY DEF Commit, AccessInv, TypeOK
<1>2. p \notin Removed(r)
  BY DEF Commit
<1>3. ASSUME NEW e \in Engagements, p \in member[e] \/ <<e, p>> \in Joins(r)
      PROVE  p \in member'[e]
  BY <1>2, <1>3 DEF Commit, Removes, Removed
<1>4. ASSUME r.who = p, r.by = "token", ~r.cut
      PROVE  \E e \in Engagements : p \in member'[e]
  <2>1. r.target # Nowhere \/ \E e \in Engagements : p \in member[e]
    BY <1>1, <1>4 DEF RequestInv, PlaceInv
  <2>2. ASSUME r.target # Nowhere PROVE r.target \in Engagements /\ <<r.target, p>> \in Joins(r)
    BY <1>1, <1>4, <2>2 DEF Request, Joins
  <2> QED
    BY <1>3, <2>1, <2>2
<1>5. CASE Known(p)
  <2>1. CASE p \in evicted
    <3>1. r.who = p /\ r.by = "token" /\ ~r.cut
      BY <2>1 DEF Commit
    <3> QED
      BY <1>4, <3>1
  <2>2. CASE p \notin evicted
    BY <1>3, <1>5, <2>2 DEF AccessInv, InAWorkspace
  <2> QED
    BY <2>1, <2>2
<1>6. CASE ~Known(p)
  <2>1. r.who = p /\ r.new
    BY <1>6, CommitRows
  <2>2. CASE r.by = "token"
    <3>1. ~r.cut
      BY <1>1, <1>6, <2>1 DEF RequestInv, CallerInv
    <3> QED
      BY <1>4, <2>1, <2>2, <3>1
  <2>3. CASE r.by # "token"
    <3>1. r.op.kind = "create"
      BY <1>1, <2>3 DEF Request, RequestInv, HandlerInv
    <3>2. r.op.eng \in Engagements
      BY <1>1, <3>1 DEF Request, Ops, NoOp
    <3>3. <<r.op.eng, p>> \in Joins(r)
      BY <2>1, <3>1 DEF Joins
    <3> QED
      BY <1>3, <3>2, <3>3
  <2> QED
    BY <2>2, <2>3
<1> QED
  BY <1>5, <1>6

LEMMA CommitStep == ASSUME AccessInv, NEW s \in Slots, Commit(s) PROVE AccessInv'
<1>1. \A o \in Slots : request'[o] # Idle => RequestInv(request[o])'
  BY CommitRequests
<1> QED
  BY <1>1, CommitType, CommitMembers, CommitGrant, CommitPlace DEF AccessInv

LEMMA AccessStep == AccessInv /\ [Next]_vars => AccessInv'
<1> SUFFICES ASSUME AccessInv, [Next]_vars PROVE AccessInv'
  OBVIOUS
<1>1. CASE Next
  BY <1>1, SignInStep, CountStep, InsertStep, SyncStep, ChooseStep, EnterStep, ActStep,
     CommitStep, RollbackStep DEF Next
<1>2. CASE UNCHANGED vars
  <2>1. UNCHANGED <<row, member, state, request, left, evicted, demoted>>
    BY <1>2 DEF vars
  <2>2. TypeOK' /\ OneMaker' /\ MembersKnown' /\ SomeoneCanGrant' /\ InAWorkspace'
    BY <2>1 DEF AccessInv, TypeOK, OneMaker, MembersKnown, SomeoneCanGrant, InAWorkspace,
       Known, NoUsers
  <2>3. \A s \in Slots : request'[s] # Idle => RequestInv(request[s])'
    BY <2>1
    DEF AccessInv, RequestInv, CallerInv, FirstInv, PlaceInv, HandlerInv, Known, NoUsers
  <2> QED
    BY <2>2, <2>3 DEF AccessInv
<1> QED
  BY <1>1, <1>2

LEMMA Inductive == Spec => []AccessInv
BY AccessInit, AccessStep, PTL DEF Spec

----------------------------------------------------------------------------
(* Theorems.                                                               *)

(* Every variable keeps its type.                                          *)
THEOREM TypeCorrect == Spec => []TypeOK
<1>1. AccessInv => TypeOK
  BY DEF AccessInv
<1> QED
  BY <1>1, Inductive, PTL

(* _initial_role and cmd_seed: whoever is first can grant roles, and some- *)
(* body can until an administrator is demoted or deactivated.              *)
THEOREM AlwaysAnAdministrator == Spec => []SomeoneCanGrant
<1>1. AccessInv => SomeoneCanGrant
  BY DEF AccessInv
<1> QED
  BY <1>1, Inductive, PTL

(* ensure_membership: an account without an engagement was removed from    *)
(* one, and has not been back.                                             *)
THEOREM NobodyOutside == Spec => []InAWorkspace
<1>1. AccessInv => InAWorkspace
  BY DEF AccessInv
<1> QED
  BY <1>1, Inductive, PTL

(* The bootstrap grants an administrator's role only to requests that began*)
(* before there was any account.                                           *)
THEOREM BootstrapOnlyFirst == Spec => BootstrapIsFirst
<1>1. AccessInv /\ [Next]_vars
        => [\A p \in People :
              ~Known(p) /\ row'[p] # NoRow /\ row'[p].role = "admin" =>
                \E s \in Slots : /\ request[s] # Idle /\ request'[s] = Idle
                                 /\ request[s].who = p /\ request[s].early]_vars
  <2> SUFFICES ASSUME AccessInv, Next, NEW p \in People,
                      ~Known(p), row'[p] # NoRow, row'[p].role = "admin"
               PROVE  \E s \in Slots : /\ request[s] # Idle /\ request'[s] = Idle
                                       /\ request[s].who = p /\ request[s].early
    BY DEF vars
  <2>1. PICK s \in Slots : Commit(s)
    BY DEF Next, SignIn, Seed, Start, Count, Insert, Sync, Choose, Enter, Act, Rollback,
       Step, tables, Known
  <2> DEFINE r == request[s]
  <2>2. /\ r \in Request /\ r # Idle /\ RequestInv(r) /\ request'[s] = Idle
    BY <2>1 DEF Commit, AccessInv, TypeOK
  <2>3. r.who = p /\ r.new
    BY <2>1, CommitRows DEF Known
  <2>4. r.role = "admin"
    <3>1. row'[p] = Written(r, p)
      BY <2>1 DEF Commit
    <3>2. CASE r.op.kind \in {"role", "active"}
      BY <2>2, <3>2 DEF RequestInv, HandlerInv
    <3>3. CASE r.op.kind \notin {"role", "active"}
      <4>1. row'[p].role = r.role
        BY <2>3, <3>1, <3>3 DEF Written, Synced
      <4> QED
        BY <4>1
    <3> QED
      BY <3>2, <3>3
  <2> QED
    BY <2>2, <2>3, <2>4 DEF RequestInv, FirstInv
<1> QED
  BY <1>1, Inductive, PTL DEF Spec, BootstrapIsFirst
==============================================================================
