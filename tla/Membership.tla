------------------------------ MODULE Membership ------------------------------
(***************************************************************************)
(* Who may use the product.  Every authenticated request first syncs the   *)
(* caller's row in users from the token (provisioning it, or adopting the  *)
(* placeholder that `agent-pm seed` made), gives the caller a workspace,   *)
(* and only then runs its handler, all in one transaction at READ          *)
(* COMMITTED.  Requests overlap; what one has written is seen by the       *)
(* others when it commits, and whoever needs a row another has written     *)
(* waits.  A person has one address and one uid of the auth provider, so a *)
(* row is known by its person.                                             *)
(***************************************************************************)
EXTENDS Integers, FiniteSets

CONSTANTS
  People, Engagements,
  Workspace,       \* the engagement whose slug is "workspace"
  Default,         \* default_engagement_slug, or Nowhere
  Nowhere,
  AutoJoin,        \* auto_join_new_users
  Slots,           \* transactions at the same time
  NoRow, Idle,
  MaxRequests      \* bound

ASSUME MembershipConstants ==
  /\ Workspace \in Engagements /\ Default \in Engagements \union {Nowhere}
  /\ Nowhere \notin Engagements /\ AutoJoin \in BOOLEAN /\ MaxRequests \in Nat

VARIABLES
  row,       \* users: of each person, by e-mail
  member,    \* engagement_members: of each engagement, the people in it
  state,     \* engagements: "absent", "active" or "archived"
  request,   \* of each slot, the transaction in it
  left,      \* requests still to come
  evicted,   \* history: removed from a pod, with no later request of their own
  demoted    \* history: an administrator lost the role or was deactivated

vars == <<row, member, state, request, left, evicted, demoted>>
tables == <<row, member, state, evicted, demoted>>

Roles == {"admin", "delivery_lead", "engineer"}
CanModify(role) == role = "admin"
Row == [key : {"uid", "placeholder"}, role : Roles, active : BOOLEAN]

(* What a handler does once the caller is known.                           *)
Ops ==
  [kind : {"none", "me"}]
  \union [kind : {"read", "create", "archive", "restore"}, eng : Engagements]
  \union [kind : {"add", "remove"}, eng : Engagements, user : People]
  \union [kind : {"role"}, user : People, role : Roles]
  \union [kind : {"active"}, user : People, active : BOOLEAN]
NoOp == [kind |-> "none"]

(* A transaction: what it read of the caller, what it has written.         *)
Steps == {"count", "insert", "sync", "choose", "enter", "act", "commit"}
Request == [who : People, by : {"token", "seed"}, step : Steps,
            role : Roles \union {"unread"}, active : BOOLEAN,
            new : BOOLEAN, rekey : BOOLEAN,
            target : Engagements \union {Nowhere}, make : BOOLEAN,
            op : Ops, early : BOOLEAN, cut : BOOLEAN]

ASSUME MembershipAbsent == NoRow \notin Row /\ Idle \notin Request

Init ==
  /\ row = [p \in People |-> NoRow]
  /\ member = [e \in Engagements |-> {}]
  /\ state = [e \in Engagements |-> "absent"]
  /\ request = [s \in Slots |-> Idle]
  /\ left = MaxRequests /\ evicted = {} /\ demoted = FALSE

----------------------------------------------------------------------------
(* What others may see, and what they must wait for.                       *)

Known(p) == row[p] # NoRow
NoUsers == \A p \in People : ~Known(p)
Active == {e \in Engagements : state[e] = "active"}

Others(s) == {o \in Slots \ {s} : request[o] # Idle}
Flushed == {"choose", "enter", "act", "commit"}

(* Every request of a person updates last_seen_at: their row stays locked. *)
Locks(o, p) ==
  LET r == request[o] IN
    \/ r.who = p /\ r.step \in Flushed /\ (r.by = "token" \/ r.new)
    \/ r.op.kind \in {"role", "active"} /\ r.op.user = p
Free(s, p) == \A o \in Others(s) : ~Locks(o, p)

(* The rows a transaction has inserted in engagement_members and           *)
(* engagements.                                                            *)
Joins(r) ==
  (IF r.step \in {"act", "commit"} /\ r.target # Nowhere THEN {<<r.target, r.who>>} ELSE {})
  \union (CASE r.op.kind = "add" -> {<<r.op.eng, r.op.user>>}
            [] r.op.kind = "create" -> {<<r.op.eng, r.who>>}
            [] OTHER -> {})
Makes(r) ==
  (IF r.step \in {"act", "commit"} /\ r.make THEN {r.target} ELSE {})
  \union (IF r.op.kind = "create" THEN {r.op.eng} ELSE {})

MayJoin(s, e, p) ==
  /\ p \notin member[e]
  /\ \A o \in Others(s) : <<e, p>> \notin Joins(request[o])
MayMake(s, e) ==
  state[e] = "absent" /\ \A o \in Others(s) : e \notin Makes(request[o])
(* Re-keying a row waits for memberships of it that are not committed yet. *)
MayRekey(s, p) == \A o \in Others(s), e \in Engagements : <<e, p>> \notin Joins(request[o])

----------------------------------------------------------------------------
(* The caller: UserService.sync_from_claims and cmd_seed.                  *)

Fresh(p, by) ==
  [who |-> p, by |-> by, step |-> "count", role |-> "unread", active |-> TRUE,
   new |-> FALSE, rekey |-> FALSE, target |-> Nowhere, make |-> FALSE,
   op |-> NoOp, early |-> NoUsers, cut |-> FALSE]

Start(s, r) ==
  /\ left > 0 /\ request[s] = Idle
  /\ request' = [request EXCEPT ![s] = r] /\ left' = left - 1
  /\ UNCHANGED tables

(* The row is looked up by uid, then by e-mail: a placeholder is read      *)
(* again once it is adopted.                                               *)
SignIn(s, p) ==
  \/ ~Known(p) /\ Start(s, Fresh(p, "token"))
  \/ Known(p) /\ Start(s, [Fresh(p, "token") EXCEPT !.step = "sync",
       !.role = IF row[p].key = "uid" THEN row[p].role ELSE "unread",
       !.active = row[p].active])

(* agent-pm seed: the owner is found by e-mail or made, then the           *)
(* engagement.                                                             *)
Seed(s, p) ==
  \/ ~Known(p) /\ Start(s, Fresh(p, "seed"))
  \/ Known(p) /\ Start(s, [Fresh(p, "seed") EXCEPT !.step = "act"])

(* The very first account becomes an administrator.                        *)
(* Mutant: the bootstrap fires whenever nobody is an administrator.        *)
NoAdministrator == \A p \in People : Known(p) => row[p].role # "admin"
IsFirst == NoUsers
(* Mutant: a seeded owner is a delivery lead, first account or not.        *)
OnlySignInBootstraps(by) ==
  IF by = "seed" THEN "delivery_lead" ELSE IF IsFirst THEN "admin" ELSE "engineer"
FirstRole(by) ==
  IF IsFirst THEN "admin" ELSE IF by = "seed" THEN "delivery_lead" ELSE "engineer"
Step(s, r) == request' = [request EXCEPT ![s] = r] /\ UNCHANGED <<tables, left>>

Count(s) ==
  LET r == request[s] IN
    /\ r # Idle /\ r.step = "count"
    /\ Step(s, [r EXCEPT !.step = "insert", !.role = FirstRole(r.by)])

Insert(s) ==
  LET r == request[s] IN
    /\ r # Idle /\ r.step = "insert" /\ ~Known(r.who) /\ Free(s, r.who)
    /\ Step(s, [r EXCEPT !.new = TRUE, !.step = IF r.by = "seed" THEN "act" ELSE "choose"])

(* What an adopted row keeps.                                              *)
Adopted(p) == [row[p] EXCEPT !.key = "uid"]

(* The row is re-keyed, or only touched; then the caller must be active.   *)
(* What was read before waiting for the row is not read again.             *)
Sync(s) ==
  LET r == request[s]
      rekey == row[r.who].key = "placeholder"
      unread == r.role = "unread"
  IN /\ r # Idle /\ r.step = "sync" /\ Free(s, r.who) /\ (rekey => MayRekey(s, r.who))
     /\ IF unread THEN row[r.who].active ELSE r.active
     /\ Step(s, [r EXCEPT !.step = "choose", !.rekey = rekey,
                          !.role = IF unread THEN Adopted(r.who).role ELSE r.role])

----------------------------------------------------------------------------
(* The workspace: EngagementService.ensure_membership.                     *)

(* Mutant: only a new account is given a workspace.                        *)
PlacedWhenNew(p) == AutoJoin /\ ~Known(p)
NeedsPlace(p) == AutoJoin /\ \A e \in Engagements : p \notin member[e]
Places ==
  IF Default # Nowhere /\ state[Default] # "absent" THEN {Default} ELSE Active

Choose(s) ==
  LET r == request[s] IN
    /\ r # Idle /\ r.step = "choose"
    /\ \/ ~NeedsPlace(r.who) /\ Step(s, [r EXCEPT !.step = "act"])
       \/ /\ NeedsPlace(r.who)
          /\ \E e \in Places : Step(s, [r EXCEPT !.step = "enter", !.target = e])
       \/ /\ NeedsPlace(r.who) /\ Places = {}
          /\ Step(s, [r EXCEPT !.step = "enter", !.target = Workspace, !.make = TRUE])

Enter(s) ==
  LET r == request[s] IN
    /\ r # Idle /\ r.step = "enter" /\ MayJoin(s, r.target, r.who)
    /\ r.make => MayMake(s, r.target)
    /\ Step(s, [r EXCEPT !.step = "act"])

----------------------------------------------------------------------------
(* The handler.                                                            *)

Exists(r, e) == state[e] # "absent" \/ e \in Makes(r)
RequireAccess(r, e) ==
  /\ Exists(r, e)
  /\ r.role = "admin" \/ r.who \in member[e] \/ <<e, r.who>> \in Joins(r)
RequireAdmin(r) == r.role = "admin"
RequireEditor(r) == CanModify(r.role)
HasAccount(r, p) == Known(p) \/ (r.who = p /\ r.new)

Me(s, op) == op.kind = "me"
Read(s, op) == op.kind = "read" /\ RequireAccess(request[s], op.eng)
UpdateUser(s, op) ==
  /\ op.kind \in {"role", "active"} /\ RequireAdmin(request[s])
  /\ HasAccount(request[s], op.user) /\ Free(s, op.user)
Create(s, op) ==
  /\ op.kind = "create" /\ RequireEditor(request[s])
  /\ MayMake(s, op.eng) /\ op.eng \notin Makes(request[s])
Archive(s, op) ==
  op.kind = "archive" /\ RequireEditor(request[s]) /\ RequireAccess(request[s], op.eng)
Update(s, op) ==
  op.kind = "restore" /\ RequireEditor(request[s]) /\ RequireAccess(request[s], op.eng)
AddMember(s, op) ==
  /\ op.kind = "add" /\ RequireEditor(request[s]) /\ RequireAccess(request[s], op.eng)
  /\ HasAccount(request[s], op.user) /\ MayJoin(s, op.eng, op.user)
  /\ <<op.eng, op.user>> \notin Joins(request[s])
  /\ \A o \in Others(s) : ~(request[o].who = op.user /\ request[o].rekey)
RemoveMember(s, op) ==
  /\ op.kind = "remove" /\ RequireEditor(request[s]) /\ RequireAccess(request[s], op.eng)
  /\ op.user \in member[op.eng] \/ <<op.eng, op.user>> \in Joins(request[s])
SeedEngagement(s, op) == op.kind = "create" /\ MayMake(s, op.eng)

Act(s) ==
  LET r == request[s] IN
    /\ r # Idle /\ r.step = "act"
    /\ \E op \in Ops :
         /\ \/ r.by = "token" /\ (\/ Me(s, op) \/ Read(s, op) \/ UpdateUser(s, op)
                                  \/ Create(s, op) \/ Archive(s, op) \/ Update(s, op)
                                  \/ AddMember(s, op) \/ RemoveMember(s, op))
            \/ r.by = "seed" /\ SeedEngagement(s, op)
         /\ Step(s, [r EXCEPT !.step = "commit", !.op = op])

----------------------------------------------------------------------------
(* get_db and session_scope: commit, or roll back on any error.            *)

Synced(r, p) ==
  IF r.who # p THEN row[p]
  ELSE IF r.new THEN [key |-> IF r.by = "seed" THEN "placeholder" ELSE "uid",
                      role |-> r.role, active |-> TRUE]
  ELSE IF r.rekey THEN Adopted(p) ELSE row[p]
Written(r, p) ==
  CASE r.op.kind = "role" /\ r.op.user = p -> [Synced(r, p) EXCEPT !.role = r.op.role]
    [] r.op.kind = "active" /\ r.op.user = p -> [Synced(r, p) EXCEPT !.active = r.op.active]
    [] OTHER -> Synced(r, p)

Grants(u) == u # NoRow /\ u.role = "admin" /\ u.active
Removes(r, e, p) == r.op.kind = "remove" /\ r.op.eng = e /\ r.op.user = p
Removed(r) == IF r.op.kind = "remove" THEN {r.op.user} ELSE {}

Commit(s) ==
  LET r == request[s] IN
    /\ r # Idle /\ r.step = "commit"
    /\ row' = [p \in People |-> Written(r, p)]
    /\ member' = [e \in Engagements |->
         {p \in People : (p \in member[e] \/ <<e, p>> \in Joins(r)) /\ ~Removes(r, e, p)}]
    /\ state' = [e \in Engagements |->
         CASE e \in Makes(r) -> "active"
           [] r.op.kind = "archive" /\ r.op.eng = e -> "archived"
           [] r.op.kind = "restore" /\ r.op.eng = e -> "active"
           [] OTHER -> state[e]]
    /\ request' = [o \in Slots |->
         IF o = s THEN Idle
         ELSE IF o \in Others(s) /\ request[o].who \in Removed(r)
           THEN [request[o] EXCEPT !.cut = TRUE] ELSE request[o]]
    /\ evicted' = (IF r.by = "token" /\ ~r.cut THEN evicted \ {r.who} ELSE evicted)
                    \union Removed(r)
    /\ demoted' = (demoted \/ \E p \in People : Grants(Synced(r, p)) /\ ~Grants(row'[p]))
    /\ UNCHANGED left

(* An inactive account, a refused or impossible operation, a conflict with *)
(* a row that was committed meanwhile, two transactions that wait for each *)
(* other, a lost connection: nothing of the request remains.               *)
Rollback(s) == request[s] # Idle /\ Step(s, Idle)

Next ==
  \E s \in Slots :
    \/ \E p \in People : SignIn(s, p) \/ Seed(s, p)
    \/ Count(s) \/ Insert(s) \/ Sync(s) \/ Choose(s) \/ Enter(s) \/ Act(s)
    \/ Commit(s) \/ Rollback(s)

Spec == Init /\ [][Next]_vars

----------------------------------------------------------------------------
(* Properties.                                                             *)

TypeOK ==
  /\ row \in [People -> Row \union {NoRow}]
  /\ member \in [Engagements -> SUBSET People]
  /\ state \in [Engagements -> {"absent", "active", "archived"}]
  /\ request \in [Slots -> Request \union {Idle}]
  /\ left \in 0..MaxRequests /\ evicted \subseteq People /\ demoted \in BOOLEAN

(* Nobody becomes an administrator by signing in, unless their request     *)
(* began when there was no account at all: not when the last administrator *)
(* has been demoted, nor when a placeholder waits to be adopted.           *)
BootstrapIsFirst ==
  [][\A p \in People :
       ~Known(p) /\ row'[p] # NoRow /\ row'[p].role = "admin" =>
         \E s \in Slots : /\ request[s] # Idle /\ request'[s] = Idle
                          /\ request[s].who = p /\ request[s].early]_vars

(* However first sign-ins, seeds and adoptions overlap and fail, once      *)
(* there is an account there is somebody who can grant roles, until an     *)
(* administrator takes that away from one.                                 *)
SomeoneCanGrant == NoUsers \/ demoted \/ \E p \in People : Grants(row[p])

(* Everybody with an account belongs to some engagement, unless they were  *)
(* removed from one and no request of theirs has begun and committed       *)
(* since: sign-in never leaves a person outside, whatever is created,      *)
(* archived or removed while it runs.                                      *)
InAWorkspace ==
  AutoJoin => \A p \in People :
    Known(p) => p \in evicted \/ \E e \in Engagements : p \in member[e]

----------------------------------------------------------------------------
(* What the repository's comments say, and the code does not keep.         *)

(* engagement_service.py, ensure_membership: "signed in but in no pod" is  *)
(* "made unreachable".  A commit of one's own request leaves one with a    *)
(* project in the list the UI shows.                                       *)
Sees(p) == IF row[p].role = "admin" THEN Active ELSE {e \in Active : p \in member[e]}
NoDeadEnd ==
  [][\A s \in Slots, p \in People :
       Commit(s) /\ request[s].who = p /\ request[s].op.kind = "me" /\ ~request[s].cut
         => Sees(p)' # {}]_vars
============================================================================
