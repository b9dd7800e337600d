---------------------------- MODULE RaidWatchProofs ----------------------------
(***************************************************************************)
(* Proofs about RaidWatch, for any blockers, zones, hours and number of    *)
(* runs: when a daily task is once a day, and when a day has been served,  *)
(* and that a second row for a blocker takes two executions at a time.     *)
(***************************************************************************)
EXTENDS RaidWatch, TLAPS

LEMMA TypeInit == Init => TypeOK
<1> SUFFICES ASSUME Init PROVE TypeOK
  OBVIOUS
<1>1. now \in 0..MaxTime /\ edits \in 0..MaxEdits
  BY WatchConstants DEF Init
<1>2. pending \in [Tasks -> [Keys -> 0..MaxPending]]
  BY WatchConstants DEF Init
<1>3. log \in Seq(RunRow)
  BY DEF Init
<1> QED
  BY <1>1, <1>2, <1>3 DEF Init, TypeOK

(* What an answer proposes is a number of approvals of each key.           *)
LEMMA ProposalsType ==
  ASSUME NEW t \in Tasks, NEW refs, NEW f \in Proposals(t, refs)
  PROVE  f \in [Keys -> Nat]
BY WatchConstants DEF Proposals

LEMMA TypeStep == TypeOK /\ [Next]_vars => TypeOK'
<1> SUFFICES ASSUME TypeOK, [Next]_vars PROVE TypeOK'
  OBVIOUS
<1> USE WatchConstants
<1>1. ASSUME NEW t \in Tasks, NEW by \in Starters, NEW refs \in SUBSET Keys,
             Start(t, by, refs)
      PROVE  TypeOK'
  <2>1. [start |-> now, refs |-> refs] \in Run
    BY DEF Run, TypeOK
  <2>2. run' \in [Tasks -> [Starters -> Run \union {Nobody}]]
    BY <1>1, <2>1 DEF Start, TypeOK
  <2> QED
    BY <1>1, <2>2 DEF Start, TypeOK, register
<1>2. Refs \in SUBSET Keys /\ {} \in SUBSET Keys
  BY DEF Refs, TypeOK
<1>3. ASSUME NEW t \in Tasks, JobStart(t) PROVE TypeOK'
  BY <1>1, <1>2, <1>3 DEF JobStart, Starters
<1>4. ASSUME NEW t \in Tasks, PersonStart(t) PROVE TypeOK'
  BY <1>1, <1>2, <1>4 DEF PersonStart, Starters
<1>5. ASSUME NEW t \in Tasks, NEW by \in Starters, Finish(t, by) PROVE TypeOK'
  <2>1. PICK f \in Proposals(t, run[t][by].refs) :
          /\ \A k \in Keys : Waiting(k) + f[k] <= MaxPending
          /\ pending' = [pending EXCEPT ![t] = [k \in Keys |-> @[k] + f[k]]]
    BY <1>5 DEF Finish
  <2>2. f \in [Keys -> Nat]
    BY <2>1, ProposalsType
  <2>3. \A k \in Keys : pending[t][k] + f[k] \in 0..MaxPending
    BY <2>1, <2>2 DEF Waiting, TypeOK, Tasks, Carried
  <2>4. pending' \in [Tasks -> [Keys -> 0..MaxPending]]
    BY <2>1, <2>3 DEF TypeOK
  <2>5. run[t][by] \in Run
    BY <1>5 DEF Finish, TypeOK
  <2>6. [task |-> t, start |-> run[t][by].start, by |-> by] \in RunRow
    BY <2>5 DEF Run, RunRow
  <2>7. log' \in Seq(RunRow)
    BY <1>5, <2>6 DEF Finish, TypeOK
  <2>8. run' \in [Tasks -> [Starters -> Run \union {Nobody}]]
    BY <1>5 DEF Finish, EndRun, TypeOK
  <2> QED
    BY <1>5, <2>4, <2>7, <2>8 DEF Finish, TypeOK
<1>6. ASSUME NEW t \in Tasks, NEW by \in Starters, Skip(t, by) PROVE TypeOK'
  BY <1>6 DEF Skip, EndRun, TypeOK, register
<1>7. ASSUME NEW t \in Tasks, NEW k \in Keys, Decided(t, k),
             executing' \in [Carried -> Nat], raced' \subseteq Keys
      PROVE  TypeOK'
  <2>1. pending[t][k] - 1 \in 0..MaxPending
    BY <1>7 DEF Decided, TypeOK
  <2>2. pending' \in [Tasks -> [Keys -> 0..MaxPending]]
    BY <1>7, <2>1 DEF Decided, TypeOK
  <2> QED
    BY <1>7, <2>2 DEF Decided, TypeOK
<1>8. ASSUME NEW t \in Tasks, NEW k \in Keys, NEW ref \in Carried,
             ExecuteKnown(t, k, ref) \/ Execute(t, k, ref) \/ Reject(t, k)
      PROVE  TypeOK'
  <2>1. CASE Execute(t, k, ref)
    <3>1. executing[ref] + 1 \in Nat /\ {ref} \ {NoKey} \subseteq Keys
      BY DEF TypeOK, Carried
    <3>2. executing' \in [Carried -> Nat] /\ raced' \subseteq Keys
      BY <2>1, <3>1 DEF Execute, Insert, TypeOK
    <3> QED
      BY <1>7, <2>1, <3>2 DEF Execute, Insert
  <2>2. CASE ExecuteKnown(t, k, ref) \/ Reject(t, k)
    BY <1>7, <2>2 DEF ExecuteKnown, Reject, TypeOK
  <2> QED
    BY <1>8, <2>1, <2>2
<1>9. ASSUME NEW ref \in Carried, CommitRow(ref) PROVE TypeOK'
  <2>1. executing' \in [Carried -> Nat] /\ byAgent' \in [Keys -> Nat] /\ book' \subseteq Keys
    BY <1>9 DEF CommitRow, TypeOK
  <2> QED
    BY <1>9, <2>1 DEF CommitRow, TypeOK
<1>a. NoKey \in Carried
  BY DEF Carried
<1>10. ASSUME NEW k \in Keys,
              CreateRow(k) \/ DeleteRow(k) \/ UpdateRow(k) \/ EditWorkbook(k)
       PROVE  TypeOK'
  <2>1. edits' \in 0..MaxEdits
    BY <1>10 DEF CreateRow, DeleteRow, UpdateRow, EditWorkbook, Edited, TypeOK
  <2>2. byAgent' \in [Keys -> Nat]
    BY <1>10 DEF CreateRow, DeleteRow, UpdateRow, EditWorkbook, TypeOK, register
  <2> QED
    BY <1>10, <2>1, <2>2
    DEF CreateRow, DeleteRow, UpdateRow, EditWorkbook, TypeOK, register
<1>11. ASSUME NEW k \in Keys, Block(k) \/ Unblock(k) PROVE TypeOK'
  <2>1. edits' \in 0..MaxEdits
    BY <1>11 DEF Block, Unblock, Edited, TypeOK
  <2>2. since' \in [Keys -> {Never} \union 0..MaxTime]
    BY <1>11 DEF Block, Unblock, TypeOK
  <2> QED
    BY <1>11, <2>1, <2>2 DEF Block, Unblock, TypeOK, register
<1>12. CASE Tick
  BY <1>12 DEF Tick, TypeOK, register
<1>13. CASE UNCHANGED vars
  BY <1>13 DEF vars, TypeOK, register
<1> QED
  BY <1>3, <1>4, <1>5, <1>6, <1>8, <1>a, <1>9, <1>10, <1>11, <1>12, <1>13 DEF Next

(* Every variable keeps its type; what is pending stays within its bound.  *)
THEOREM TypeCorrect == Spec => []TypeOK
BY TypeInit, TypeStep, PTL DEF Spec

----------------------------------------------------------------------------
(* Rows for one blocker.                                                   *)

(* Those that exist and those an execution is about to insert.             *)
RowInv == \A k \in Keys : byAgent[k] + executing[k] > 1 => k \in raced

LEMMA RowStep == TypeOK /\ RowInv /\ [Next]_vars => RowInv'
<1> SUFFICES ASSUME TypeOK, RowInv, [Next]_vars, NEW k \in Keys,
                    byAgent'[k] + executing'[k] > 1
             PROVE  k \in raced'
  BY DEF RowInv
<1>1. byAgent[k] \in Nat /\ executing[k] \in Nat /\ k \in Carried /\ k # NoKey
  BY WatchConstants DEF TypeOK, Carried
<1>2. ASSUME NEW t \in Tasks, NEW j \in Keys, NEW ref \in Carried, Execute(t, j, ref)
      PROVE  k \in raced'
  <2>1. /\ byAgent' = byAgent /\ executing' = [executing EXCEPT ![ref] = @ + 1]
        /\ raced' = IF executing[ref] > 0 THEN raced \union ({ref} \ {NoKey}) ELSE raced
    BY <1>2 DEF Execute, Insert, Decided
  <2>2. CASE ref = k
    <3>1. byAgent[k] = 0
      BY <1>1, <1>2, <2>2 DEF Execute, Refs
    <3>2. executing'[k] = executing[k] + 1
      BY <1>1, <2>1, <2>2 DEF TypeOK
    <3> QED
      BY <1>1, <2>1, <2>2, <3>1, <3>2
  <2>3. CASE ref # k
    <3>1. executing'[k] = executing[k] /\ raced \subseteq raced'
      BY <1>1, <2>1, <2>3 DEF TypeOK
    <3> QED
      BY <2>1, <3>1 DEF RowInv
  <2> QED
    BY <2>2, <2>3
<1>3. ASSUME NEW ref \in Carried, CommitRow(ref) PROVE k \in raced'
  <2>1. byAgent'[k] + executing'[k] = byAgent[k] + executing[k]
    BY <1>1, <1>3 DEF CommitRow, TypeOK
  <2> QED
    BY <1>3, <2>1 DEF CommitRow, RowInv
<1>4. ASSUME NEW j \in Keys, DeleteRow(j) PROVE k \in raced'
  <2>1. byAgent'[k] <= byAgent[k] /\ byAgent'[k] \in Int /\ executing' = executing /\ raced' = raced
    BY <1>1, <1>4 DEF DeleteRow, TypeOK
  <2> QED
    BY <1>1, <2>1 DEF RowInv
<1>5. CASE UNCHANGED <<byAgent, executing, raced>>
  BY <1>5 DEF RowInv
<1> QED
  BY <1>2, <1>3, <1>4, <1>5
  DEF Next, JobStart, PersonStart, Start, Finish, Skip, ExecuteKnown, Reject, Decided,
      CreateRow, UpdateRow, EditWorkbook, Block, Unblock, Tick, vars, register

(* _execute_raid looks at the register again before it inserts: proposals  *)
(* repeated day after day and edited at will end in one row that carries   *)
(* the key, unless two of them that carry it are executed at a time.       *)
THEOREM OneRow == Spec => []OneRowPerBlocker
<1>1. Init => RowInv
  BY DEF Init, RowInv, Carried
<1>2. TypeOK /\ RowInv => OneRowPerBlocker
  BY DEF TypeOK, RowInv, OneRowPerBlocker, Carried
<1> QED
  BY <1>1, <1>2, TypeCorrect, RowStep, PTL DEF Spec
----------------------------------------------------------------------------
(* Days.                                                                   *)

LEMMA DivMono ==
  ASSUME NEW a \in Int, NEW b \in Int, a <= b
  PROVE  a \div Day <= b \div Day
BY WatchConstants

(* A time of day that the trigger allows, in a zone at most that far east, *)
(* is on the same date for the server, or a later one.                     *)
LEMMA MorningOnServerDate ==
  ASSUME TypeOK, zone <= Post, NEW time \in Int, LocalTime(time) >= Post
  PROVE  LocalDate(time) <= ServerDate(time)
<1> DEFINE q == (time + zone) \div Day
           r == (time + zone) % Day
<1>1. /\ zone \in Int /\ Day \in Nat \ {0} /\ Post \in Int
      /\ q \in Int /\ r \in Int /\ time + zone = Day * q + r
  BY WatchConstants DEF TypeOK
<1>2. r >= zone
  BY <1>1 DEF LocalTime
<1> HIDE DEF q, r
<1>3. Day * q <= time /\ Day * q \in Int
  BY <1>1, <1>2
<1>4. (Day * q) \div Day = q
  BY <1>1
<1>5. q <= time \div Day
  BY <1>3, <1>4, DivMono
<1> QED
  BY <1>5 DEF LocalDate, ServerDate, q

(* The job's runs began after the trigger time of their day, and in a zone *)
(* of the theorem no run of it begins on a day that has a success of its.  *)
DayInv ==
  /\ \A i \in DOMAIN log : log[i].start <= now
  /\ \A t \in Tasks, by \in Starters : run[t][by] # Nobody => run[t][by].start <= now
  /\ \A i \in DOMAIN log : log[i].by = "job" => LocalTime(log[i].start) >= Post
  /\ \A t \in Tasks : run[t]["job"] # Nobody => LocalTime(run[t]["job"].start) >= Post
  /\ zone <= Post =>
       \A t \in Tasks : run[t]["job"] # Nobody =>
         \A i \in DOMAIN log : log[i].task = t /\ log[i].by = "job" =>
           LocalDate(log[i].start) # LocalDate(run[t]["job"].start)

LEMMA TimesAreNumbers ==
  ASSUME TypeOK
  PROVE  /\ now \in Int /\ zone \in Int
         /\ \A i \in DOMAIN log : log[i].start \in Int
         /\ \A t \in Tasks, by \in Starters :
              run[t][by] # Nobody => run[t][by] \in Run /\ run[t][by].start \in Int
<1>1. now \in Int /\ zone \in Int
  BY WatchConstants DEF TypeOK
<1>2. \A i \in DOMAIN log : log[i] \in RunRow
  BY DEF TypeOK
<1>3. \A row \in RunRow : row.start \in Int
  BY WatchConstants DEF RunRow
<1>4. \A t \in Tasks, by \in Starters : run[t][by] # Nobody => run[t][by] \in Run
  BY DEF TypeOK
<1>5. \A r \in Run : r.start \in Int
  BY WatchConstants DEF Run
<1> QED
  BY <1>1, <1>2, <1>3, <1>4, <1>5

LEMMA DayStep == TypeOK /\ DayInv /\ OncePerDay /\ [Next]_vars => DayInv' /\ OncePerDay'
<1> SUFFICES ASSUME TypeOK, DayInv, OncePerDay, [Next]_vars PROVE DayInv' /\ OncePerDay'
  OBVIOUS
<1>0. /\ now \in Int /\ zone \in Int
      /\ \A i \in DOMAIN log : log[i].start \in Int
      /\ \A t \in Tasks, by \in Starters :
           run[t][by] # Nobody => run[t][by] \in Run /\ run[t][by].start \in Int
  BY TimesAreNumbers
<1>1. ASSUME NEW t \in Tasks, JobStart(t) PROVE DayInv' /\ OncePerDay'
  <2>1. /\ UNCHANGED <<now, zone, log>>
        /\ run'[t]["job"].start = now
        /\ \A u \in Tasks, by \in Starters : <<u, by>> # <<t, "job">> => run'[u][by] = run[u][by]
        /\ LocalTime(now) >= Post /\ ~RanToday(t)
    BY <1>1 DEF JobStart, Start, Due, TypeOK, Starters
  <2>2. ASSUME zone <= Post, NEW i \in DOMAIN log, log[i].task = t, log[i].by = "job"
        PROVE  LocalDate(log[i].start) # LocalDate(now)
    <3>1. LocalDate(log[i].start) <= ServerDate(log[i].start)
      BY <1>0, <2>2, MorningOnServerDate DEF DayInv
    <3>2. ServerDate(log[i].start) < LocalDate(now)
      BY <1>0, <2>1, <2>2, WatchConstants DEF RanToday, ServerDate, LocalDate
    <3> QED
      BY <1>0, <3>1, <3>2, WatchConstants DEF LocalDate, ServerDate
  <2>3. "job" \in Starters
    BY DEF Starters
  <2>4. DayInv'
    <3>1. (\A i \in DOMAIN log : log[i].start <= now)'
      BY <2>1 DEF DayInv
    <3>2. (\A u \in Tasks, by \in Starters : run[u][by] # Nobody => run[u][by].start <= now)'
      BY <1>0, <2>1 DEF DayInv
    <3>3. (\A i \in DOMAIN log : log[i].by = "job" => LocalTime(log[i].start) >= Post)'
      BY <2>1 DEF DayInv, LocalTime
    <3>4. (\A u \in Tasks : run[u]["job"] # Nobody => LocalTime(run[u]["job"].start) >= Post)'
      BY <2>1, <2>3 DEF DayInv, LocalTime
    <3>5. ASSUME zone' <= Post, NEW u \in Tasks, run'[u]["job"] # Nobody,
                 NEW i \in DOMAIN log', log'[i].task = u, log'[i].by = "job"
          PROVE  (LocalDate(log[i].start) # LocalDate(run[u]["job"].start))'
      <4>1. CASE u = t
        BY <2>1, <2>2, <3>5, <4>1 DEF LocalDate
      <4>2. CASE u # t
        BY <2>1, <2>3, <3>5, <4>2 DEF DayInv, LocalDate
      <4> QED
        BY <4>1, <4>2
    <3> QED
      BY <3>1, <3>2, <3>3, <3>4, <3>5 DEF DayInv
  <2> QED
    BY <2>1, <2>4 DEF OncePerDay, LocalDate
<1>2. ASSUME NEW t \in Tasks, PersonStart(t) PROVE DayInv' /\ OncePerDay'
  <2>1. /\ UNCHANGED <<now, zone, log>>
        /\ run'[t]["person"].start = now
        /\ \A u \in Tasks, by \in Starters : <<u, by>> # <<t, "person">> => run'[u][by] = run[u][by]
    BY <1>2 DEF PersonStart, Start, TypeOK, Starters
  <2>2. \A u \in Tasks : run'[u]["job"] = run[u]["job"]
    BY <2>1 DEF Starters
  <2>3. (\A u \in Tasks, by \in Starters : run[u][by] # Nobody => run[u][by].start <= now)'
    BY <1>0, <2>1 DEF DayInv
  <2> QED
    BY <2>1, <2>2, <2>3 DEF DayInv, OncePerDay, LocalDate, LocalTime
<1>3. ASSUME NEW t \in Tasks, NEW by \in Starters, Finish(t, by)
      PROVE  DayInv' /\ OncePerDay'
  <2> DEFINE new == [task |-> t, start |-> run[t][by].start, by |-> by]
  <2>1. /\ UNCHANGED <<now, zone>> /\ run[t][by] # Nobody /\ run'[t][by] = Nobody
        /\ \A u \in Tasks, b \in Starters : <<u, b>> # <<t, by>> => run'[u][b] = run[u][b]
        /\ log' = Append(log, new)
    BY <1>3 DEF Finish, EndRun, TypeOK
  <2>2. \A u \in Tasks, b \in Starters : run'[u][b] # Nobody => run'[u][b] = run[u][b]
    BY <2>1
  <2>3. /\ DOMAIN log' = DOMAIN log \union {Len(log) + 1} /\ Len(log) + 1 \notin DOMAIN log
        /\ \A i \in DOMAIN log : log'[i] = log[i]
        /\ log'[Len(log) + 1] = new
    BY <2>1 DEF TypeOK
  <2>4. /\ run[t][by].start <= now
        /\ by = "job" => LocalTime(run[t][by].start) >= Post
    BY <2>1 DEF DayInv
  <2>5. "job" \in Starters
    BY DEF Starters
  <2>6. DayInv'
    <3>1. (\A i \in DOMAIN log : log[i].start <= now)'
      BY <2>1, <2>3, <2>4 DEF DayInv
    <3>2. (\A u \in Tasks, b \in Starters : run[u][b] # Nobody => run[u][b].start <= now)'
      BY <2>1, <2>2 DEF DayInv
    <3>3. (\A i \in DOMAIN log : log[i].by = "job" => LocalTime(log[i].start) >= Post)'
      BY <2>1, <2>3, <2>4 DEF DayInv, LocalTime
    <3>4. (\A u \in Tasks : run[u]["job"] # Nobody => LocalTime(run[u]["job"].start) >= Post)'
      BY <2>1, <2>2, <2>5 DEF DayInv, LocalTime
    <3>5. ASSUME zone' <= Post, NEW u \in Tasks, run'[u]["job"] # Nobody,
                 NEW i \in DOMAIN log', log'[i].task = u, log'[i].by = "job"
          PROVE  (LocalDate(log[i].start) # LocalDate(run[u]["job"].start))'
      <4>1. i \in DOMAIN log
        BY <2>1, <2>3, <3>5
      <4> QED
        BY <2>1, <2>2, <2>3, <2>5, <3>5, <4>1 DEF DayInv, LocalDate
    <3> QED
      BY <3>1, <3>2, <3>3, <3>4, <3>5 DEF DayInv
  <2>7. ASSUME zone' <= Post, NEW i \in DOMAIN log', NEW j \in DOMAIN log', i # j,
               log'[i].task = log'[j].task, log'[i].by = "job", log'[j].by = "job"
        PROVE  (LocalDate(log[i].start) # LocalDate(log[j].start))'
    <3>1. CASE i \in DOMAIN log /\ j \in DOMAIN log
      BY <2>1, <2>3, <2>7, <3>1 DEF OncePerDay, LocalDate
    <3>2. CASE i \in DOMAIN log /\ j = Len(log) + 1
      BY <2>1, <2>3, <2>7, <3>2 DEF DayInv, LocalDate
    <3>3. CASE j \in DOMAIN log /\ i = Len(log) + 1
      BY <2>1, <2>3, <2>7, <3>3 DEF DayInv, LocalDate
    <3> QED
      BY <2>3, <2>7, <3>1, <3>2, <3>3
  <2> QED
    BY <2>6, <2>7 DEF OncePerDay
<1>4. ASSUME NEW t \in Tasks, NEW by \in Starters, Skip(t, by)
      PROVE  DayInv' /\ OncePerDay'
  <2>1. /\ UNCHANGED <<now, zone, log>>
        /\ \A u \in Tasks, b \in Starters : run'[u][b] # Nobody => run'[u][b] = run[u][b]
    BY <1>4 DEF Skip, EndRun, TypeOK
  <2>2. \A u \in Tasks : run'[u]["job"] # Nobody => run'[u]["job"] = run[u]["job"]
    BY <2>1 DEF Starters
  <2> QED
    BY <2>1, <2>2 DEF DayInv, OncePerDay, LocalDate, LocalTime
<1>5. CASE Tick
  <2>1. now' = now + 1 /\ UNCHANGED <<zone, log, run>>
    BY <1>5 DEF Tick
  <2>2. (\A i \in DOMAIN log : log[i].start <= now)'
    BY <1>0, <2>1 DEF DayInv
  <2>3. (\A t \in Tasks, by \in Starters : run[t][by] # Nobody => run[t][by].start <= now)'
    BY <1>0, <2>1 DEF DayInv
  <2> QED
    BY <2>1, <2>2, <2>3 DEF DayInv, OncePerDay, LocalDate, LocalTime
<1>6. CASE UNCHANGED <<now, zone, log, run>>
  BY <1>6 DEF DayInv, OncePerDay, LocalDate, LocalTime
<1> QED
  BY <1>1, <1>2, <1>3, <1>4, <1>5, <1>6
  DEF Next, ExecuteKnown, Execute, Reject, Decided, CommitRow, CreateRow, DeleteRow,
      UpdateRow, EditWorkbook, Block, Unblock, vars, Insert

LEMMA DayInit == Init => DayInv /\ OncePerDay
BY DEF Init, DayInv, OncePerDay, Tasks, Starters

LEMMA DaysInductive == Spec => [](TypeOK /\ DayInv /\ OncePerDay)
BY TypeInit, TypeStep, DayInit, DayStep, PTL DEF Spec

(* _is_due with _ran_successfully_today: the job runs a task once a day    *)
(* where the morning is on the server's date.                              *)
THEOREM OnceADay == Spec => []OncePerDay
BY DaysInductive, PTL

(* Where the engagement is not behind the server's date, a day that the job*)
(* passes over has a success of its own.                                   *)
THEOREM NoDayPassedOver == Spec => []QuietOnlyAfterSuccess
<1>1. TypeOK /\ DayInv => QuietOnlyAfterSuccess
  <2> SUFFICES ASSUME TypeOK, DayInv, zone >= 0, NEW t \in Tasks, RanToday(t)
               PROVE  \E i \in DOMAIN log :
                        log[i].task = t /\ LocalDate(log[i].start) = LocalDate(now)
    BY DEF QuietOnlyAfterSuccess
  <2>1. PICK i \in DOMAIN log :
          log[i].task = t /\ ServerDate(log[i].start) >= LocalDate(now)
    BY DEF RanToday
  <2>2. /\ log[i].start \in Int /\ now \in Int /\ zone \in Int
        /\ log[i].start <= now
    BY TimesAreNumbers DEF DayInv
  <2>3. /\ ServerDate(log[i].start) <= LocalDate(log[i].start)
        /\ LocalDate(log[i].start) <= LocalDate(now)
    BY <2>2, DivMono DEF ServerDate, LocalDate
  <2>4. /\ ServerDate(log[i].start) \in Int /\ LocalDate(log[i].start) \in Int
        /\ LocalDate(now) \in Int
    BY <2>2, WatchConstants DEF ServerDate, LocalDate
  <2> QED
    BY <2>1, <2>3, <2>4
<1> QED
  BY <1>1, DaysInductive, PTL
==============================================================================
