-------------------------- MODULE StandupDayProofs --------------------------
(***************************************************************************)
(* Proofs about StandupDay: its types, what agent_runs and agent_events    *)
(* claim about the table of standups, and what may replace a stored text.  *)
(*                                                                         *)
(* The difficulty is the distance between the AgentRun a transaction adds  *)
(* and the row it stands for: the run is added when the card is posted,    *)
(* the row and the event at the flush, and all three become visible at the *)
(* commit.  OpenInv follows the run along that way, FreshInv the row.      *)
(***************************************************************************)
EXTENDS StandupDay, FiniteSetTheorems, TLAPS

Generating == {"generate", "regenerate"}

Success(t, s) == [by |-> t, slot |-> s, outcome |-> "success"]

(* The flush of what t generated for s is done: it holds the slot, its     *)
(* version of the row is there, the event of an end-of-day summary with    *)
(* it, and a plain generation found the slot empty.                        *)
Stored(t, s) ==
  /\ holder[s] = t /\ fresh[t][s] # NoRow
  /\ s[2] = "eod" => <<t, s>> \in announced[t]
  /\ Job(t) = "generate" => row[s] = NoRow

(* What holds of a transaction by where it is.                             *)
PlaceInv(t) ==
  /\ t \in Requests /\ pc[t] # "idle" => Job(t) \in Jobs
  /\ pc[t] \in {"run", "write"} => todo[t] # <<>>
  /\ pc[t] = "run" => Job(t) \in Generating
  /\ pc[t] = "write" /\ Job(t) \in Generating
       => result[t] \in {"posted", "draft", "skipped"}
  /\ pc[t] \in {"run", "write"} /\ Job(t) = "generate" => loaded[t] = NoRow
  /\ pc[t] \notin {"look", "run", "write"}
       => opened[t] = {} /\ announced[t] = {} /\ fresh[t] = [s \in Slots |-> NoRow]

(* A success that is not committed yet is stored, or is the run whose row  *)
(* is about to be written.                                                 *)
OpenInv(t) ==
  /\ \A run \in opened[t] :
       /\ run.by = t /\ Job(t) \in Generating
       /\ run.outcome = "success" =>
            \/ Stored(t, run.slot)
            \/ pc[t] = "write" /\ run.slot = Slot(t) /\ result[t] # "skipped"
  /\ \A e \in announced[t] : e[1] = t /\ Success(t, e[2]) \in opened[t]
  /\ pc[t] = "write" /\ Job(t) \in Generating /\ result[t] # "skipped"
       => Success(t, Slot(t)) \in opened[t]

Settled(t) == t \in Requests => pc[t] = "done"

(* A text in the table is of a transaction that committed.                 *)
RowInv(s) == row[s] # NoRow => born[s] > 0 /\ Settled(row[s].text)

(* A version that is not committed yet is its writer's, or keeps the text  *)
(* of the row; over a row that is there it has been asked for.             *)
FreshInv(t, s) ==
  fresh[t][s] # NoRow =>
    /\ holder[s] = t
    /\ fresh[t][s].text = t \/ Settled(fresh[t][s].text)
    /\ row[s] # NoRow =>
         \/ fresh[t][s].text = row[s].text
         \/ Job(fresh[t][s].text) \in {"regenerate", "manual"}

(* Only those who came to an end have runs in the table.                   *)
RunInv(run) ==
  /\ run.by \in Requests => pc[run.by] \in {"done", "error"}
  /\ run.by \in Requests /\ pc[run.by] = "error" => run.outcome = "failed"
  /\ run.outcome = "success" =>
       /\ born[run.slot] > 0
       /\ run.slot[2] = "eod" => <<run.by, run.slot>> \in events

EventInv(e) == Success(e[1], e[2]) \in runs

Generations(s) ==
  {run \in runs : /\ run.slot = s /\ run.outcome = "success"
                  /\ Job(run.by) = "generate"}

CountInv(s) ==
  IsFiniteSet(Generations(s)) /\ Cardinality(Generations(s)) <= born[s]

(* What a step of t leaves alone: the place, the versions and the slots of *)
(* the other transactions, and the rows of slots that t does not hold.     *)
Frame(t) ==
  /\ pc[t] \notin Ended
  /\ \A u \in Txns \ {t} :
       /\ pc'[u] = pc[u] /\ todo'[u] = todo[u]
       /\ loaded'[u] = loaded[u] /\ result'[u] = result[u]
       /\ fresh'[u] = fresh[u] /\ opened'[u] = opened[u]
       /\ announced'[u] = announced[u]
       /\ \A s \in Slots : holder'[s] = u <=> holder[s] = u
  /\ \A u \in Txns : u # t \/ u = Tick \/ pc[u] # "idle" => Job(u)' = Job(u)
  /\ \A s \in Slots : holder[s] # t => row'[s] = row[s]
  /\ \A s \in Slots : born'[s] >= born[s]

IInv ==
  /\ TypeOK
  /\ \A t \in Txns : PlaceInv(t) /\ OpenInv(t)
  /\ \A s \in Slots : RowInv(s) /\ CountInv(s)
  /\ \A t \in Txns, s \in Slots : FreshInv(t, s)
  /\ \A run \in runs : RunInv(run)
  /\ \A e \in events : EventInv(e)

----------------------------------------------------------------------------
(* The model's operators.                                                  *)

LEMMA TxnsOf == Tick \in Txns /\ Requests \subseteq Txns
BY DEF Txns

(* A transaction with slots left handles one of them.                      *)
LEMMA SlotOf ==
  ASSUME TypeOK, NEW t \in Txns, todo[t] # <<>>
  PROVE  Slot(t) \in Slots /\ Tail(todo[t]) \in Seq(Slots)
BY DEF TypeOK, Slot

(* An UPDATE leaves a row, whose text is what the writer set or what the   *)
(* row held by then.                                                       *)
LEMMA MergeRow ==
  ASSUME NEW old \in Row, NEW new \in Row, NEW now \in Row
  PROVE  /\ Merge(old, new, now) \in Row
         /\ Merge(old, new, now).text \in {new.text, now.text}
<1> DEFINE F == {"id", "text", "author", "status", "cited"}
           m == Merge(old, new, now)
<1>1. DOMAIN now = F
  BY DEF Row
<1>2. m = [f \in F |-> IF new[f] # old[f] THEN new[f] ELSE now[f]]
  BY <1>1 DEF Merge
<1>3. /\ m.id \in Nat /\ m.text \in Txns /\ m.author \in Requests \union {Nobody}
      /\ m.status \in {"draft", "posted", "failed"} /\ m.cited \in BOOLEAN
  BY <1>2 DEF Row
<1>4. m = [id |-> m.id, text |-> m.text, author |-> m.author,
           status |-> m.status, cited |-> m.cited]
  BY <1>2
<1>5. m \in Row
  BY <1>3, <1>4 DEF Row
<1>6. m.text \in {new.text, now.text}
  BY <1>2
<1> QED BY <1>5, <1>6

(* What a transaction that may write sets is a row with a text of its own. *)
LEMMA AssignRow ==
  ASSUME NEW t \in Txns, NEW old \in Row, Job(t) # "delete",
         Job(t) = "manual" \/ result[t] \in {"posted", "draft", "skipped"}
  PROVE  Assign(t, old) \in Row /\ Assign(t, old).text = t
<1>1. CASE Job(t) = "manual"
  <2>1. t \in Requests
    BY <1>1 DEF Job, Txns
  <2> QED BY <1>1, <2>1 DEF Assign, Row
<1>2. CASE Job(t) # "manual" /\ result[t] = "skipped"
  BY <1>2 DEF Assign, Row
<1>3. CASE Job(t) # "manual" /\ result[t] # "skipped"
  BY <1>3 DEF Assign, Row
<1> QED BY <1>1, <1>2, <1>3

LEMMA BlankRow == \A t \in Txns : Blank(t) \in Row
BY DEF Blank, Row

LEMMA VisibleRow ==
  ASSUME TypeOK, NEW t \in Txns, NEW s \in Slots
  PROVE  Visible(t, s) \in Row \union {NoRow}
BY DEF TypeOK, Visible

(* Ending a transaction, function by function.                             *)
LEMMA CloseEffect ==
  ASSUME TypeOK, NEW t \in Txns, Close(t)
  PROVE  /\ holder' = [s \in Slots |-> IF holder[s] = t THEN Nobody ELSE holder[s]]
         /\ fresh'[t] = [s \in Slots |-> NoRow]
         /\ opened'[t] = {} /\ announced'[t] = {}
         /\ todo'[t] = <<>> /\ loaded'[t] = NoRow /\ result'[t] = "none"
         /\ \A u \in Txns \ {t} :
              /\ fresh'[u] = fresh[u] /\ opened'[u] = opened[u]
              /\ announced'[u] = announced[u] /\ todo'[u] = todo[u]
              /\ loaded'[u] = loaded[u] /\ result'[u] = result[u]
BY DEF TypeOK, Close

LEMMA CloseType ==
  ASSUME TypeOK, NEW t \in Txns, Close(t)
  PROVE  /\ holder' \in [Slots -> Txns \union {Nobody}]
         /\ todo' \in [Txns -> Seq(Slots)]
         /\ loaded' \in [Txns -> Row \union {NoRow}]
         /\ result' \in [Txns -> {"none", "posted", "draft", "skipped"}]
         /\ fresh' \in [Txns -> [Slots -> Row \union {NoRow}]]
         /\ opened' \in [Txns -> SUBSET Run]
         /\ announced' \in [Txns -> SUBSET (Txns \X Slots)]
<1>1. holder' \in [Slots -> Txns \union {Nobody}]
  BY DEF TypeOK, Close
<1>2. todo' \in [Txns -> Seq(Slots)]
  BY DEF TypeOK, Close
<1>3. loaded' \in [Txns -> Row \union {NoRow}]
  BY DEF TypeOK, Close
<1>4. result' \in [Txns -> {"none", "posted", "draft", "skipped"}]
  BY DEF TypeOK, Close
<1>5. fresh' \in [Txns -> [Slots -> Row \union {NoRow}]]
  BY DEF TypeOK, Close
<1>6. opened' \in [Txns -> SUBSET Run]
  BY DEF TypeOK, Close
<1>7. announced' \in [Txns -> SUBSET (Txns \X Slots)]
  BY DEF TypeOK, Close
<1> QED BY <1>1, <1>2, <1>3, <1>4, <1>5, <1>6, <1>7

----------------------------------------------------------------------------
(* Types.                                                                  *)

LEMMA TypeInit == Init => TypeOK
BY StandupConstants DEF Init, TypeOK, Txns

(* The steps that end a transaction.                                       *)
LEMMA TypeClose ==
  ASSUME TypeOK, NEW t \in Txns, PlaceInv(t),
         DeleteMissing(t) \/ FailRun(t) \/ WriteConflict(t) \/ Commit(t) \/ Crash(t)
  PROVE  TypeOK'
<1> USE TxnsOf
<1>1. Close(t)
  BY DEF DeleteMissing, FailRun, WriteConflict, Commit, Crash, Abort
<1>2. /\ pc' \in [Txns -> {"idle", "look", "run", "write"} \union Ended]
      /\ pods' \in Seq(Pods) /\ due' \subseteq Slots /\ job' = job
  <2>1. \E place \in Ended : GoTo(t, Failed(t, place))
    BY DEF DeleteMissing, FailRun, WriteConflict, Commit, Crash, Abort, Ended
  <2>2. pc' \in [Txns -> {"idle", "look", "run", "write"} \union Ended]
    BY <2>1 DEF TypeOK, GoTo, Failed
  <2>3. pods' \in {pods, <<>>}
    BY DEF DeleteMissing, FailRun, WriteConflict, Commit, Crash, Abort, StillToDo
  <2>4. due' = due /\ job' = job
    BY DEF DeleteMissing, FailRun, WriteConflict, Commit, Crash
  <2>5. pods' \in Seq(Pods)
    <3>1. pods \in Seq(Pods) /\ <<>> \in Seq(Pods)
      BY DEF TypeOK
    <3> QED BY <2>3, <3>1
  <2> QED BY <2>2, <2>4, <2>5 DEF TypeOK
<1>3. posts' = posts /\ faults' \in 0..MaxFaults
  BY StandupConstants
  DEF TypeOK, DeleteMissing, FailRun, WriteConflict, Commit, Crash, Abort
<1>4. CASE Commit(t)
  <2>1. \A s \in Slots : Visible(t, s) \in Row \union {NoRow}
    BY VisibleRow
  <2>2. row' \in [Slots -> Row \union {NoRow}]
    BY <1>4, <2>1 DEF Commit
  <2>3. born' \in [Slots -> Nat]
    BY <1>4 DEF TypeOK, Commit
  <2>4. runs' \subseteq Run /\ events' \subseteq Txns \X Slots
    BY <1>4 DEF TypeOK, Commit
  <2> QED BY <1>1, <1>2, <1>3, <2>2, <2>3, <2>4, CloseType DEF TypeOK
<1>5. CASE FailRun(t)
  <2>1. Slot(t) \in Slots
    BY <1>5, SlotOf DEF PlaceInv, FailRun
  <2>2. runs' \subseteq Run
    BY <1>5, <2>1 DEF TypeOK, FailRun, Run
  <2> QED BY <1>1, <1>2, <1>3, <1>5, <2>2, CloseType DEF TypeOK, FailRun
<1>6. CASE DeleteMissing(t) \/ WriteConflict(t) \/ Crash(t)
  <2>1. row' = row /\ born' = born /\ runs' = runs /\ events' = events
    BY <1>6 DEF DeleteMissing, WriteConflict, Crash, dbVars
  <2> QED BY <1>1, <1>2, <1>3, <2>1, CloseType DEF TypeOK
<1> QED BY <1>4, <1>5, <1>6

(* The jobs of a transaction that writes a row.                            *)
LEMMA Writers ==
  ASSUME TypeOK, NEW t \in Txns, PlaceInv(t), pc[t] = "write"
  PROVE  /\ Slot(t) \in Slots /\ Job(t) \in JobKinds
         /\ Job(t) \notin {"manual", "delete"} => result[t] \in {"posted", "draft", "skipped"}
<1>1. Slot(t) \in Slots
  BY SlotOf DEF PlaceInv
<1>2. Job(t) \in JobKinds
  BY StandupConstants DEF PlaceInv, Job, Txns, JobKinds
<1>3. Job(t) \notin {"manual", "delete"} => result[t] \in {"posted", "draft", "skipped"}
  BY <1>2 DEF PlaceInv, Generating, JobKinds
<1> QED BY <1>1, <1>2, <1>3

(* The version each flush leaves.                                          *)
LEMMA InsertVersion ==
  ASSUME TypeOK, NEW t \in Txns, PlaceInv(t), Insert(t)
  PROVE  \E v \in Row : v.text = t /\ Written(t, Slot(t), v)
<1> DEFINE a == Assign(t, Blank(t))
           v == [a EXCEPT !.id = born[Slot(t)] + 1]
<1>1. a \in Row /\ a.text = t
  BY Writers, AssignRow, BlankRow DEF Insert, JobKinds
<1>2. born[Slot(t)] + 1 \in Nat
  BY Writers DEF Insert, TypeOK
<1>3. v \in Row /\ v.text = t
  BY <1>1, <1>2 DEF Row
<1>4. Written(t, Slot(t), v)
  BY DEF Insert
<1> QED BY <1>3, <1>4

LEMMA UpdateVersion ==
  ASSUME TypeOK, NEW t \in Txns, PlaceInv(t), Update(t)
  PROVE  \E v \in Row : /\ v.text \in {t, row[Slot(t)].text}
                        /\ Written(t, Slot(t), v)
<1>1. loaded[t] \in Row /\ row[Slot(t)] \in Row
  BY Writers DEF Update, StillThere, TypeOK
<1>2. Assign(t, loaded[t]) \in Row /\ Assign(t, loaded[t]).text = t
  BY <1>1, Writers, AssignRow DEF Update, JobKinds
<1>3. Written(t, Slot(t), Merge(loaded[t], Assign(t, loaded[t]), row[Slot(t)]))
  BY DEF Update
<1> QED BY <1>1, <1>2, <1>3, MergeRow

LEMMA DeleteVersion ==
  ASSUME NEW t \in Txns, Delete(t)
  PROVE  \E v \in {NoRow, row[Slot(t)]} : Written(t, Slot(t), v)
BY DEF Delete

LEMMA TypeWritten ==
  ASSUME TypeOK, NEW t \in Txns, PlaceInv(t), pc[t] = "write",
         NEW v \in Row \union {NoRow}, Written(t, Slot(t), v)
  PROVE  TypeOK'
<1> DEFINE s == Slot(t)
<1>1. s \in Slots /\ Tail(todo[t]) \in Seq(Slots)
  BY SlotOf DEF PlaceInv
<1>2. holder' \in [Slots -> Txns \union {Nobody}] /\ todo' \in [Txns -> Seq(Slots)]
  BY <1>1 DEF TypeOK, Written
<1>3. fresh' \in [Txns -> [Slots -> Row \union {NoRow}]]
  BY <1>1 DEF TypeOK, Written
<1>4. announced' \in [Txns -> SUBSET (Txns \X Slots)]
  BY <1>1 DEF TypeOK, Written, Emit
<1>5. pc' \in [Txns -> {"idle", "look", "run", "write"} \union Ended]
  BY DEF TypeOK, Written, GoTo
<1>6. UNCHANGED <<row, born, runs, events, job, loaded, result, opened, pods, due,
                  faults, posts>>
  BY DEF Written, dbVars
<1> QED BY <1>2, <1>3, <1>4, <1>5, <1>6 DEF TypeOK

LEMMA TypeFlush ==
  ASSUME TypeOK, NEW t \in Txns, PlaceInv(t), Insert(t) \/ Update(t) \/ Delete(t)
  PROVE  TypeOK'
<1>1. pc[t] = "write" /\ Slot(t) \in Slots
  BY Writers DEF Insert, Update, Delete
<1>2. row[Slot(t)] \in Row \union {NoRow}
  BY <1>1 DEF TypeOK
<1>3. \E v \in Row \union {NoRow} : Written(t, Slot(t), v)
  BY <1>2, InsertVersion, UpdateVersion, DeleteVersion
<1> QED BY <1>1, <1>3, TypeWritten

(* The steps inside a transaction.                                         *)
LEMMA TypeInside ==
  ASSUME TypeOK, NEW t \in Txns, PlaceInv(t),
         \/ AlreadyThere(t) \/ StartRun(t) \/ StartManual(t) \/ StartDelete(t)
         \/ SkipRun(t) \/ PostRun(t)
  PROVE  TypeOK'
<1>1. /\ Slot(t) \in Slots /\ Tail(todo[t]) \in Seq(Slots)
      /\ Visible(t, Slot(t)) \in Row \union {NoRow}
  BY SlotOf, VisibleRow
  DEF PlaceInv, AlreadyThere, StartRun, StartManual, StartDelete, SkipRun, PostRun, Looking
<1>2. CASE AlreadyThere(t)
  BY <1>1, <1>2 DEF TypeOK, AlreadyThere, dbVars
<1>3. CASE StartRun(t) \/ StartManual(t) \/ StartDelete(t)
  <2>1. Look(t, "run") \/ Look(t, "write")
    BY <1>3 DEF StartRun, StartManual, StartDelete
  <2> QED BY <1>1, <2>1 DEF TypeOK, Look, GoTo, dbVars
<1>4. CASE SkipRun(t)
  <2>1. opened' \in [Txns -> SUBSET Run]
    BY <1>1, <1>4 DEF TypeOK, SkipRun, Run
  <2> QED BY <1>4, <2>1 DEF TypeOK, SkipRun, GoTo, dbVars
<1>5. CASE PostRun(t)
  <2>1. opened' \in [Txns -> SUBSET Run]
    BY <1>1, <1>5 DEF TypeOK, PostRun, Run
  <2>2. posts' \in [Slots -> 0..2]
    BY <1>1, <1>5 DEF TypeOK, PostRun
  <2>3. result' \in [Txns -> {"none", "posted", "draft", "skipped"}]
    BY <1>5 DEF TypeOK, PostRun
  <2> QED BY <1>5, <2>1, <2>2, <2>3 DEF TypeOK, PostRun, GoTo, dbVars
<1> QED BY <1>2, <1>3, <1>4, <1>5

(* The steps that begin a transaction, and time.                           *)
LEMMA TypeOutside ==
  ASSUME TypeOK,
         \/ \E r \in Requests : Receive(r)
         \/ TickStart \/ TickPod \/ \E s \in Slots : Trigger(s)
  PROVE  TypeOK'
<1> USE TxnsOf
<1>1. ASSUME NEW r \in Requests, Receive(r)
      PROVE  TypeOK'
  <2>1. todo' \in [Txns -> Seq(Slots)]
    BY <1>1, StandupConstants DEF TypeOK, Receive
  <2>2. job' \in [Requests -> Jobs \union {Nobody}]
    BY <1>1 DEF TypeOK, Receive
  <2> QED BY <1>1, <2>1, <2>2 DEF TypeOK, Receive, GoTo, dbVars
<1>2. CASE TickStart
  BY <1>2, StandupConstants DEF TypeOK, TickStart, dbVars, txnVars
<1>3. CASE TickPod
  <2>1. Head(pods) \in Pods /\ Tail(pods) \in Seq(Pods)
    BY <1>3 DEF TypeOK, TickPod
  <2>2. \A s \in Slots : IfDue(s) \in Seq(Slots)
    BY DEF IfDue
  <2>3. <<Head(pods), "morning">> \in Slots /\ <<Head(pods), "eod">> \in Slots
    BY <2>1 DEF Slots, Kinds
  <2>4. IfDue(<<Head(pods), "morning">>) \o IfDue(<<Head(pods), "eod">>) \in Seq(Slots)
    BY <2>2, <2>3
  <2>5. todo' \in [Txns -> Seq(Slots)]
    BY <1>3, <2>4 DEF TypeOK, TickPod
  <2> QED BY <1>3, <2>1, <2>5 DEF TypeOK, TickPod, GoTo, dbVars
<1>4. ASSUME NEW s \in Slots, Trigger(s)
      PROVE  TypeOK'
  BY <1>4 DEF TypeOK, Trigger, dbVars, txnVars
<1> QED BY <1>1, <1>2, <1>3, <1>4

----------------------------------------------------------------------------
(* What the steps of a transaction leave alone.                            *)

LEMMA JobKept ==
  ASSUME job' = job, NEW u
  PROVE  Job(u)' = Job(u)
BY DEF Job

(* What the others hold stays theirs.                                      *)
LEMMA FrameOthers ==
  ASSUME IInv, NEW t \in Txns, Frame(t), NEW u \in Txns \ {t}
  PROVE  PlaceInv(u)' /\ OpenInv(u)' /\ \A s \in Slots : FreshInv(u, s)'
<1> DEFINE J == Job(u)
<1>1. /\ pc'[u] = pc[u] /\ todo'[u] = todo[u]
      /\ loaded'[u] = loaded[u] /\ result'[u] = result[u]
      /\ fresh'[u] = fresh[u] /\ opened'[u] = opened[u]
      /\ announced'[u] = announced[u]
      /\ \A s \in Slots : holder'[s] = u <=> holder[s] = u
  BY DEF Frame
<1>2. Job(u)' = Job(u) /\ Slot(u)' = Slot(u)
  BY <1>1 DEF Frame, Slot
<1>3. \A s \in Slots : holder[s] = u => row'[s] = row[s]
  BY DEF Frame
<1>4. PlaceInv(u)'
  BY <1>1, <1>2 DEF IInv, PlaceInv
<1>5. ASSUME NEW s \in Slots, Stored(u, s)
      PROVE  Stored(u, s)'
  BY <1>1, <1>2, <1>3, <1>5 DEF Stored
<1>6. \A run \in opened[u] : run.slot \in Slots
  BY DEF IInv, TypeOK, Run
<1>7. OpenInv(u)
  BY DEF IInv
<1>8. OpenInv(u)'
  BY <1>1, <1>2, <1>5, <1>6, <1>7 DEF OpenInv
<1>9. ASSUME NEW s \in Slots, fresh'[u][s] # NoRow
      PROVE  FreshInv(u, s)'
  <2> DEFINE x == fresh[u][s].text
  <2>1. fresh[u][s] # NoRow /\ FreshInv(u, s) /\ fresh'[u][s].text = x
    BY <1>1, <1>9 DEF IInv
  <2>2. holder[s] = u /\ holder'[s] = u /\ row'[s] = row[s]
    BY <1>1, <1>3, <2>1 DEF FreshInv
  <2>3. x \in Txns
    BY <2>1 DEF IInv, TypeOK, Row
  <2>4. Settled(x) => Settled(x)'
    BY <2>3, TxnsOf DEF Settled, Frame, Ended
  <2>5. x = u \/ Settled(x)
    BY <2>1 DEF FreshInv
  <2>6. Job(x)' = Job(x)
    BY <2>3, <2>5 DEF Settled, Frame, Txns
  <2> QED BY <2>1, <2>2, <2>4, <2>5, <2>6 DEF FreshInv
<1> QED BY <1>4, <1>8, <1>9 DEF FreshInv

(* Until the commit the tables are as they were, but for a failure that    *)
(* was recorded.                                                           *)
LEMMA FrameTables ==
  ASSUME IInv, NEW t \in Txns, Frame(t), UNCHANGED <<row, born, events>>,
         runs \subseteq runs',
         \A run \in runs' \ runs : run.outcome = "failed" /\ RunInv(run)'
  PROVE  /\ \A s \in Slots : RowInv(s)' /\ CountInv(s)'
         /\ \A run \in runs' : RunInv(run)'
         /\ \A e \in events' : EventInv(e)'
<1>1. row' = row /\ born' = born /\ events' = events
  OBVIOUS
<1>2. ASSUME NEW s \in Slots
      PROVE  RowInv(s)'
  BY <1>1, TxnsOf DEF IInv, TypeOK, RowInv, Settled, Frame, Ended, Row
<1>3. ASSUME NEW run \in runs
      PROVE  /\ run.by \in Txns
             /\ run.by \in Requests => run.by # t /\ pc'[run.by] = pc[run.by]
             /\ Job(run.by)' = Job(run.by)
  <2>1. run.by \in Txns /\ RunInv(run)
    BY DEF IInv, TypeOK, Run
  <2>2. run.by \in Requests => run.by # t /\ pc'[run.by] = pc[run.by]
    BY <2>1 DEF RunInv, Frame, Ended
  <2> QED BY <2>1, <2>2 DEF Frame, Txns
<1>4. ASSUME NEW run \in runs
      PROVE  RunInv(run)'
  BY <1>1, <1>3 DEF IInv, RunInv
<1>5. ASSUME NEW s \in Slots
      PROVE  CountInv(s)'
  <2>1. Generations(s)' = Generations(s)
    BY <1>3 DEF Generations
  <2> QED BY <1>1, <2>1 DEF IInv, CountInv
<1>6. \A e \in events' : EventInv(e)'
  BY <1>1 DEF IInv, EventInv, Success
<1> QED BY <1>2, <1>4, <1>5, <1>6

LEMMA FrameBegin ==
  ASSUME IInv, NEW t \in Txns,
         (t \in Requests /\ Receive(t)) \/ (t = Tick /\ TickPod)
  PROVE  Frame(t)
<1>1. row' = row /\ born' = born /\ holder' = holder /\ pc[t] = "idle"
  BY DEF Receive, TickPod, dbVars
<1>2. \A u \in Txns \ {t} :
        /\ pc'[u] = pc[u] /\ todo'[u] = todo[u]
        /\ loaded'[u] = loaded[u] /\ result'[u] = result[u]
        /\ fresh'[u] = fresh[u] /\ opened'[u] = opened[u]
        /\ announced'[u] = announced[u]
  BY DEF IInv, TypeOK, Receive, TickPod, GoTo
<1>3. \A u \in Txns : u # t \/ u = Tick \/ pc[u] # "idle" => Job(u)' = Job(u)
  BY <1>1 DEF IInv, TypeOK, Receive, TickPod, Job, Txns
<1>4. \A s \in Slots : born'[s] >= born[s]
  BY <1>1 DEF IInv, TypeOK
<1> QED BY <1>1, <1>2, <1>3, <1>4 DEF Frame, Ended

LEMMA FrameInside ==
  ASSUME IInv, NEW t \in Txns,
         \/ AlreadyThere(t) \/ StartRun(t) \/ StartManual(t) \/ StartDelete(t)
         \/ SkipRun(t) \/ PostRun(t)
  PROVE  Frame(t)
<1>1. /\ row' = row /\ born' = born /\ holder' = holder /\ job' = job
      /\ pc[t] \in {"look", "run"}
  BY DEF AlreadyThere, StartRun, StartManual, StartDelete, SkipRun, PostRun,
     Look, Looking, dbVars
<1>2. \A u \in Txns \ {t} :
        /\ pc'[u] = pc[u] /\ todo'[u] = todo[u]
        /\ loaded'[u] = loaded[u] /\ result'[u] = result[u]
        /\ fresh'[u] = fresh[u] /\ opened'[u] = opened[u]
        /\ announced'[u] = announced[u]
  BY DEF IInv, TypeOK, AlreadyThere, StartRun, StartManual, StartDelete, SkipRun, PostRun,
     Look, GoTo
<1>3. \A u \in Txns : Job(u)' = Job(u)
  BY <1>1, JobKept
<1>4. \A s \in Slots : born'[s] >= born[s]
  BY <1>1 DEF IInv, TypeOK
<1> QED BY <1>1, <1>2, <1>3, <1>4 DEF Frame, Ended

LEMMA FrameWritten ==
  ASSUME IInv, NEW t \in Txns, pc[t] = "write", NEW v, Written(t, Slot(t), v)
  PROVE  Frame(t)
<1>1. row' = row /\ born' = born /\ job' = job
  BY DEF Written, dbVars
<1>2. \A u \in Txns \ {t} :
        /\ pc'[u] = pc[u] /\ todo'[u] = todo[u]
        /\ loaded'[u] = loaded[u] /\ result'[u] = result[u]
        /\ fresh'[u] = fresh[u] /\ opened'[u] = opened[u]
        /\ announced'[u] = announced[u]
  BY DEF IInv, TypeOK, Written, Emit, GoTo
<1>3. \A u \in Txns \ {t}, s \in Slots : holder'[s] = u <=> holder[s] = u
  BY StandupConstants DEF IInv, TypeOK, Written
<1>4. \A u \in Txns : Job(u)' = Job(u)
  BY <1>1, JobKept
<1>5. \A s \in Slots : born'[s] >= born[s]
  BY <1>1 DEF IInv, TypeOK
<1> QED BY <1>1, <1>2, <1>3, <1>4, <1>5 DEF Frame, Ended

LEMMA FrameEnd ==
  ASSUME IInv, NEW t \in Txns,
         DeleteMissing(t) \/ FailRun(t) \/ WriteConflict(t) \/ Commit(t) \/ Crash(t)
  PROVE  /\ Frame(t)
         /\ pc[t] \in {"look", "run", "write"}
         /\ \E place \in Ended : pc'[t] = Failed(t, place)
<1>1. /\ Close(t) /\ job' = job
      /\ \E place \in Ended : GoTo(t, Failed(t, place))
      /\ pc[t] \in {"look", "run", "write"}
  BY DEF DeleteMissing, FailRun, WriteConflict, Commit, Crash, Abort, Looking, Ended
<1>2. \A u \in Txns \ {t} : pc'[u] = pc[u]
  BY <1>1 DEF IInv, TypeOK, GoTo
<1>3. \E place \in Ended : pc'[t] = Failed(t, place)
  BY <1>1 DEF IInv, TypeOK, GoTo
<1>4. \A u \in Txns \ {t} :
        /\ todo'[u] = todo[u]
        /\ loaded'[u] = loaded[u] /\ result'[u] = result[u]
        /\ fresh'[u] = fresh[u] /\ opened'[u] = opened[u]
        /\ announced'[u] = announced[u]
        /\ \A s \in Slots : holder'[s] = u <=> holder[s] = u
  BY <1>1, CloseEffect, StandupConstants DEF IInv
<1>5. \A u \in Txns : Job(u)' = Job(u)
  BY <1>1, JobKept
<1>6. CASE Commit(t)
  <2>1. /\ \A s \in Slots : holder[s] # t => row'[s] = row[s]
        /\ \A s \in Slots : born'[s] >= born[s]
    BY <1>6 DEF Commit, Visible, IInv, TypeOK
  <2> QED BY <1>1, <1>2, <1>3, <1>4, <1>5, <2>1 DEF Frame, Ended
<1>7. CASE ~Commit(t)
  <2>1. row' = row /\ born' = born
    BY <1>7 DEF DeleteMissing, FailRun, WriteConflict, Crash, dbVars
  <2>2. \A s \in Slots : born'[s] >= born[s]
    BY <2>1 DEF IInv, TypeOK
  <2> QED BY <1>1, <1>2, <1>3, <1>4, <1>5, <2>1, <2>2 DEF Frame, Ended
<1> QED BY <1>6, <1>7

----------------------------------------------------------------------------
(* What a transaction keeps true of itself.                                *)

(* It begins with nothing of its own.                                      *)
LEMMA OwnBegin ==
  ASSUME IInv, NEW t \in Txns,
         (t \in Requests /\ Receive(t)) \/ (t = Tick /\ TickPod)
  PROVE  PlaceInv(t)' /\ OpenInv(t)' /\ \A s \in Slots : FreshInv(t, s)'
<1>1. pc[t] = "idle" /\ pc'[t] = "look" /\ UNCHANGED <<fresh, opened, announced>>
  BY DEF IInv, TypeOK, Receive, TickPod, GoTo
<1>2. opened'[t] = {} /\ announced'[t] = {} /\ fresh'[t] = [s \in Slots |-> NoRow]
  BY <1>1 DEF IInv, PlaceInv
<1>3. t \in Requests => Job(t)' \in Jobs
  <2>1. CASE t \in Requests /\ Receive(t)
    BY <2>1, StandupConstants DEF IInv, TypeOK, Receive, Job
  <2>2. CASE t = Tick
    BY <2>2, StandupConstants
  <2> QED BY <2>1, <2>2
<1>4. PlaceInv(t)'
  BY <1>1, <1>3 DEF PlaceInv
<1>5. OpenInv(t)'
  BY <1>1, <1>2 DEF OpenInv
<1>6. \A s \in Slots : FreshInv(t, s)'
  BY <1>2 DEF FreshInv
<1> QED BY <1>4, <1>5, <1>6

(* It ends with nothing of its own.                                        *)
LEMMA OwnEnd ==
  ASSUME IInv, NEW t \in Txns,
         DeleteMissing(t) \/ FailRun(t) \/ WriteConflict(t) \/ Commit(t) \/ Crash(t)
  PROVE  PlaceInv(t)' /\ OpenInv(t)' /\ \A s \in Slots : FreshInv(t, s)'
<1>1. /\ Frame(t) /\ pc[t] \in {"look", "run", "write"}
      /\ pc'[t] \notin {"look", "run", "write"}
  BY FrameEnd DEF Failed, Ended
<1>2. Close(t)
  BY DEF DeleteMissing, FailRun, WriteConflict, Commit, Crash, Abort
<1>3. opened'[t] = {} /\ announced'[t] = {} /\ fresh'[t] = [s \in Slots |-> NoRow]
  BY <1>2, CloseEffect DEF IInv
<1>4. t \in Requests => Job(t)' \in Jobs
  BY <1>1 DEF IInv, PlaceInv, Frame
<1>5. PlaceInv(t)'
  BY <1>1, <1>3, <1>4 DEF PlaceInv
<1>6. OpenInv(t)'
  BY <1>1, <1>3 DEF OpenInv
<1>7. \A s \in Slots : FreshInv(t, s)'
  BY <1>3 DEF FreshInv
<1> QED BY <1>5, <1>6, <1>7

(* A version nobody touches stays what it was.                             *)
LEMMA FreshKept ==
  ASSUME IInv, NEW t \in Txns, Frame(t), pc[t] # "idle", NEW s \in Slots,
         fresh'[t][s] = fresh[t][s], holder'[s] = holder[s], row'[s] = row[s]
  PROVE  FreshInv(t, s)'
<1> SUFFICES ASSUME fresh[t][s] # NoRow
             PROVE  FreshInv(t, s)'
  BY DEF FreshInv
<1>1. PICK x \in Txns : x = fresh[t][s].text
  BY DEF IInv, TypeOK, Row
<1>2. x = t \/ Settled(x)
  BY <1>1 DEF IInv, FreshInv
<1>3. Job(x)' = Job(x)
  BY <1>2 DEF Frame, Txns, Settled
<1>4. x = t \/ Settled(x)'
  BY <1>2, TxnsOf DEF Settled, Frame, Ended
<1>5. FreshInv(t, s)
  BY DEF IInv
<1> QED BY <1>1, <1>3, <1>4, <1>5 DEF FreshInv

(* Between the begin and the flush.                                        *)
LEMMA OwnInside ==
  ASSUME IInv, NEW t \in Txns,
         \/ AlreadyThere(t) \/ StartRun(t) \/ StartManual(t) \/ StartDelete(t)
         \/ SkipRun(t) \/ PostRun(t)
  PROVE  PlaceInv(t)' /\ OpenInv(t)' /\ \A s \in Slots : FreshInv(t, s)'
<1> USE DEF dbVars
<1>1. /\ row' = row /\ holder' = holder /\ job' = job
      /\ fresh' = fresh /\ announced' = announced
  BY DEF AlreadyThere, StartRun, StartManual, StartDelete, SkipRun, PostRun, Look
<1>2. \A u \in Txns : Job(u)' = Job(u)
  BY <1>1, JobKept
<1>3. pc[t] \in {"look", "run"} /\ PlaceInv(t) /\ OpenInv(t)
  BY DEF IInv, AlreadyThere, StartRun, StartManual, StartDelete, SkipRun, PostRun, Looking
<1>4. \A s \in Slots : Stored(t, s) => Stored(t, s)'
  BY <1>1, <1>2 DEF Stored
<1>5. \A run \in opened[t] : run.slot \in Slots
  BY DEF IInv, TypeOK, Run
<1>6. \A run \in opened[t] :
        /\ run.by = t /\ Job(t)' \in Generating
        /\ run.outcome = "success" => Stored(t, run.slot)'
  BY <1>2, <1>3, <1>4, <1>5 DEF OpenInv
<1>7. t \in Requests => Job(t)' \in Jobs
  BY <1>2, <1>3 DEF PlaceInv
<1>8. ASSUME NEW s \in Slots
      PROVE  FreshInv(t, s)'
  BY <1>1, <1>3, FrameInside, FreshKept
<1>9. CASE AlreadyThere(t)
  <2>1. pc'[t] = "look" /\ opened' = opened
    BY <1>9 DEF AlreadyThere, Looking
  <2> QED BY <1>1, <1>3, <1>6, <1>7, <1>8, <2>1 DEF PlaceInv, OpenInv
<1>10. CASE StartRun(t)
  <2>1. /\ pc'[t] = "run" /\ opened' = opened /\ todo' = todo /\ todo[t] # <<>>
        /\ loaded'[t] = Visible(t, Slot(t)) /\ Job(t) \in Generating
    BY <1>10 DEF StartRun, Look, Looking, GoTo, IInv, TypeOK, Generating
  <2>2. Job(t) = "generate" => loaded'[t] = NoRow
    BY <1>10, <2>1 DEF StartRun, MustRun
  <2>3. PlaceInv(t)'
    BY <1>2, <1>7, <2>1, <2>2 DEF PlaceInv
  <2>4. OpenInv(t)'
    BY <1>1, <1>3, <1>6, <2>1 DEF OpenInv
  <2> QED BY <1>8, <2>3, <2>4
<1>11. CASE StartManual(t) \/ StartDelete(t)
  <2>1. /\ pc'[t] = "write" /\ opened' = opened /\ todo' = todo /\ todo[t] # <<>>
        /\ Job(t) \notin Generating
    BY <1>11 DEF StartManual, StartDelete, Look, Looking, GoTo, IInv, TypeOK, Generating
  <2>2. PlaceInv(t)'
    BY <1>2, <1>7, <2>1 DEF PlaceInv, Generating
  <2>3. OpenInv(t)'
    BY <1>1, <1>2, <1>3, <1>6, <2>1 DEF OpenInv
  <2> QED BY <1>8, <2>2, <2>3
<1>12. CASE SkipRun(t)
  <2> DEFINE skipped == [by |-> t, slot |-> Slot(t), outcome |-> "skipped"]
  <2>1. /\ pc[t] = "run" /\ pc'[t] = "write" /\ result'[t] = "skipped"
        /\ opened'[t] = opened[t] \union {skipped}
        /\ todo' = todo /\ loaded' = loaded
    BY <1>12 DEF SkipRun, GoTo, IInv, TypeOK
  <2>2. PlaceInv(t)'
    BY <1>2, <1>3, <1>7, <2>1 DEF PlaceInv
  <2>3. Job(t)' \in Generating
    BY <1>2, <1>3, <2>1 DEF PlaceInv
  <2>4. OpenInv(t)'
    BY <1>1, <1>3, <1>6, <2>1, <2>3 DEF OpenInv
  <2> QED BY <1>8, <2>2, <2>4
<1>13. CASE PostRun(t)
  <2>1. /\ pc[t] = "run" /\ pc'[t] = "write" /\ result'[t] \in {"posted", "draft"}
        /\ opened'[t] = opened[t] \union {Success(t, Slot(t))}
        /\ todo' = todo /\ loaded' = loaded
    BY <1>13 DEF PostRun, GoTo, IInv, TypeOK, Success
  <2>2. PlaceInv(t)'
    BY <1>2, <1>3, <1>7, <2>1 DEF PlaceInv
  <2>3. Job(t)' \in Generating /\ Slot(t)' = Slot(t)
    BY <1>2, <1>3, <2>1 DEF PlaceInv, Slot
  <2>4. Success(t, Slot(t)).by = t /\ Success(t, Slot(t)).slot = Slot(t)
    BY DEF Success
  <2>5. \A run \in opened'[t] :
          /\ run.by = t
          /\ run.outcome = "success" => Stored(t, run.slot)' \/ run.slot = Slot(t)
    BY <1>6, <2>1, <2>4
  <2>6. \A e \in announced'[t] : e[1] = t /\ Success(t, e[2]) \in opened'[t]
    BY <1>1, <1>3, <2>1 DEF OpenInv
  <2>7. OpenInv(t)'
    BY <2>1, <2>3, <2>5, <2>6 DEF OpenInv
  <2> QED BY <1>8, <2>2, <2>7
<1> QED BY <1>9, <1>10, <1>11, <1>12, <1>13

(* The flush: the row of the run that is open, and its event.              *)
LEMMA OwnWritten ==
  ASSUME IInv, NEW t \in Txns, pc[t] = "write",
         NEW v \in Row \union {NoRow}, Written(t, Slot(t), v),
         v # NoRow => \/ v.text = t /\ Job(t) \in Generating \union {"manual"}
                      \/ row[Slot(t)] # NoRow /\ v.text = row[Slot(t)].text,
         Job(t) \in Generating => v # NoRow,
         loaded[t] = NoRow => row[Slot(t)] = NoRow \/ Job(t) = "delete"
  PROVE  PlaceInv(t)' /\ OpenInv(t)' /\ \A s \in Slots : FreshInv(t, s)'
<1>0. PICK s \in Slots : s = Slot(t)
  BY Writers DEF IInv
<1>1. /\ holder[s] \in {Nobody, t}
      /\ holder' = [holder EXCEPT ![s] = t]
      /\ fresh'[t] = [fresh[t] EXCEPT ![s] = v]
      /\ pc'[t] = "look"
      /\ UNCHANGED <<row, job, loaded, result, opened>>
      /\ Frame(t) /\ PlaceInv(t) /\ OpenInv(t)
  BY <1>0, FrameWritten DEF Written, GoTo, IInv, TypeOK, dbVars
<1>2. Job(t)' = Job(t) /\ Job(t) \in JobKinds
  BY <1>1, JobKept, Writers DEF IInv
<1>3. announced'[t] = announced[t] \union
        (IF Job(t) # "delete" /\ Announces(t) THEN {<<t, s>>} ELSE {})
  <2>1. Emit(t, s)
    BY <1>0 DEF Written
  <2> QED BY <2>1 DEF Emit, IInv, TypeOK
<1>4. PlaceInv(t)'
  BY <1>1, <1>2 DEF PlaceInv
<1>5. \A r \in Slots \ {s} : holder'[r] = holder[r] /\ fresh'[t][r] = fresh[t][r]
  BY <1>1 DEF IInv, TypeOK
<1>6. holder'[s] = t /\ fresh'[t][s] = v
  BY <1>1 DEF IInv, TypeOK
<1>7. Job(t) = "generate" => row[s] = NoRow
  BY <1>0, <1>1 DEF PlaceInv
<1>8. ASSUME NEW run \in opened[t], run.outcome = "success"
      PROVE  Stored(t, run.slot)'
  <2>1. run.slot \in Slots /\ Job(t) \in Generating
    BY <1>1 DEF OpenInv, IInv, TypeOK, Run
  <2>2. CASE run.slot # s
    <3>1. Stored(t, run.slot)
      BY <1>0, <1>1, <1>8, <2>2 DEF OpenInv
    <3> QED BY <1>1, <1>2, <1>3, <1>5, <2>1, <2>2, <3>1 DEF Stored
  <2>3. CASE run.slot = s
    <3>1. Stored(t, s) \/ result[t] # "skipped"
      BY <1>1, <1>8, <2>3 DEF OpenInv
    <3>2. s[2] = "eod" => <<t, s>> \in announced'[t]
      BY <1>0, <1>3, <2>1, <3>1 DEF Stored, Announces, Generating
    <3> QED BY <1>1, <1>2, <1>6, <1>7, <2>1, <2>3, <3>2 DEF Stored
  <2> QED BY <2>2, <2>3
<1>9. ASSUME NEW e \in announced'[t]
      PROVE  e[1] = t /\ Success(t, e[2]) \in opened'[t]
  <2>1. CASE e \in announced[t]
    BY <1>1, <2>1 DEF OpenInv
  <2>2. CASE e \notin announced[t]
    <3>1. e = <<t, s>> /\ Job(t) # "delete" /\ Announces(t)
      BY <1>3, <2>2
    <3>2. Job(t) \in Generating /\ result[t] # "skipped"
      BY <1>2, <3>1 DEF Announces, Generating, JobKinds
    <3>3. Success(t, s) \in opened[t]
      BY <1>0, <1>1, <3>2 DEF OpenInv
    <3> QED BY <1>1, <3>1, <3>3
  <2> QED BY <2>1, <2>2
<1>10. OpenInv(t)'
  BY <1>1, <1>2, <1>8, <1>9 DEF OpenInv
<1>11. FreshInv(t, s)'
  <2> SUFFICES ASSUME v # NoRow
               PROVE  FreshInv(t, s)'
    BY <1>6 DEF FreshInv
  <2>1. PICK x \in Txns : x = v.text
    BY DEF Row
  <2>2. CASE x = t /\ Job(t) \in Generating \union {"manual"}
    <3>1. row[s] # NoRow => Job(t) \in {"regenerate", "manual"}
      BY <1>7, <2>2 DEF Generating
    <3> QED BY <1>1, <1>2, <1>6, <2>1, <2>2, <3>1 DEF FreshInv
  <2>3. CASE row[s] # NoRow /\ x = row[s].text
    <3>1. Settled(x)
      BY <1>1, <2>3 DEF IInv, RowInv
    <3>2. Settled(x)'
      BY <1>1, <3>1, TxnsOf DEF Settled, Frame, Ended
    <3> QED BY <1>1, <1>6, <2>1, <2>3, <3>2 DEF FreshInv
  <2> QED BY <1>0, <2>1, <2>2, <2>3
<1>12. \A r \in Slots \ {s} : FreshInv(t, r)'
  BY <1>1, <1>5, FreshKept
<1> QED BY <1>4, <1>10, <1>11, <1>12

----------------------------------------------------------------------------
(* The commit: the row, the run and the event together.                    *)

LEMMA CommitTables ==
  ASSUME IInv, NEW t \in Txns, Commit(t)
  PROVE  /\ \A s \in Slots : RowInv(s)' /\ CountInv(s)'
         /\ \A run \in runs' : RunInv(run)'
         /\ \A e \in events' : EventInv(e)'
<1>1. /\ Frame(t) /\ pc[t] = "look" /\ job' = job
      /\ t \in Requests => pc'[t] = "done"
      /\ \A s \in Slots : row'[s] = Visible(t, s)
      /\ \A s \in Slots :
           born'[s] = IF holder[s] = t /\ row[s] = NoRow THEN born[s] + 1 ELSE born[s]
      /\ runs' = runs \union opened[t] /\ events' = events \union announced[t]
  BY FrameEnd, StandupConstants DEF Commit, GoTo, Failed, IInv, TypeOK
<1>2. \A s \in Slots : born[s] \in Nat /\ born'[s] >= born[s]
  <2>1. \A s \in Slots : born[s] \in Nat
    BY DEF IInv, TypeOK
  <2> QED BY <1>1, <2>1 DEF Frame
<1>3. ASSUME NEW x \in Txns, x = t \/ Settled(x)
      PROVE  Settled(x)'
  BY <1>1, <1>3, TxnsOf DEF Settled, Frame, Ended
<1>4. ASSUME NEW s \in Slots
      PROVE  RowInv(s)'
  <2> SUFFICES ASSUME row'[s] # NoRow
               PROVE  RowInv(s)'
    BY DEF RowInv
  <2>1. CASE holder[s] = t
    <3>1. row'[s] = fresh[t][s] /\ FreshInv(t, s) /\ RowInv(s)
      BY <1>1, <2>1 DEF Visible, IInv
    <3>2. PICK x \in Txns : x = row'[s].text
      BY <3>1 DEF IInv, TypeOK, Row
    <3>3. Settled(x)'
      BY <1>3, <3>1, <3>2 DEF FreshInv
    <3>4. born'[s] > 0
      BY <1>1, <1>2, <2>1, <3>1 DEF RowInv
    <3> QED BY <3>2, <3>3, <3>4 DEF RowInv
  <2>2. CASE holder[s] # t
    <3>1. row'[s] = row[s] /\ RowInv(s)
      BY <1>1, <2>2 DEF Visible, IInv
    <3>2. PICK x \in Txns : x = row'[s].text
      BY <3>1 DEF IInv, TypeOK, Row
    <3>3. Settled(x)'
      <4>1. row[s] # NoRow /\ row[s].text = x
        BY <3>1, <3>2
      <4>2. Settled(x)
        BY <3>1, <4>1 DEF RowInv
      <4> QED BY <1>3, <4>2
    <3>4. born'[s] > 0
      BY <1>1, <2>2, <3>1 DEF RowInv
    <3> QED BY <3>2, <3>3, <3>4 DEF RowInv
  <2> QED BY <2>1, <2>2
<1>5. ASSUME NEW run \in opened[t]
      PROVE  /\ run \in Run /\ run.by = t
             /\ run.outcome = "success" => Stored(t, run.slot) /\ born'[run.slot] > 0
  <2>1. run \in Run /\ OpenInv(t)
    BY DEF IInv, TypeOK
  <2>2. run.slot \in Slots /\ run.by = t
    BY <2>1 DEF OpenInv, Run
  <2>3. run.outcome = "success" => Stored(t, run.slot)
    BY <1>1, <2>1 DEF OpenInv
  <2>4. run.outcome = "success" => born'[run.slot] > 0
    BY <1>1, <1>2, <2>2, <2>3 DEF Stored, IInv, RowInv
  <2> QED BY <2>1, <2>2, <2>3, <2>4
<1>6. ASSUME NEW run \in runs'
      PROVE  RunInv(run)'
  <2>1. CASE run \in runs
    <3>1. run.by \in Txns /\ run.slot \in Slots /\ RunInv(run)
      BY <2>1 DEF IInv, TypeOK, Run
    <3>2. run.by \in Requests => pc'[run.by] = pc[run.by]
      BY <1>1, <3>1 DEF RunInv, Frame, Ended
    <3>3. born'[run.slot] >= born[run.slot] /\ born'[run.slot] \in Nat
      BY <1>1, <1>2, <3>1
    <3> QED BY <1>1, <1>2, <3>1, <3>2, <3>3 DEF RunInv
  <2>2. CASE run \in opened[t]
    BY <1>1, <1>5, <2>2 DEF RunInv, Stored
  <2> QED BY <1>1, <2>1, <2>2
<1>7. ASSUME NEW e \in events'
      PROVE  EventInv(e)'
  BY <1>1 DEF IInv, EventInv, OpenInv, Success
<1>8. ASSUME NEW s \in Slots
      PROVE  CountInv(s)'
  <2> DEFINE G == Generations(s)
             x == Success(t, s)
  <2>1. IsFiniteSet(G) /\ Cardinality(G) <= born[s] /\ Cardinality(G) \in Nat
    BY FS_CardinalityType DEF IInv, CountInv
  <2>2. \A u : Job(u)' = Job(u)
    BY <1>1, JobKept
  <2>3. \A run \in opened[t] :
          run.slot = s /\ run.outcome = "success" => run = x
    BY <1>5 DEF Run, Success
  <2>4. CASE x \in opened[t] /\ Job(t) = "generate"
    <3>1. x.by = t /\ x.slot = s /\ x.outcome = "success"
      BY DEF Success
    <3>2. Generations(s)' = G \union {x}
      BY <1>1, <2>2, <2>3, <2>4, <3>1 DEF Generations
    <3>3. born'[s] = born[s] + 1
      BY <1>1, <1>5, <2>4, <3>1 DEF Stored
    <3>4. /\ IsFiniteSet(G \union {x})
          /\ Cardinality(G \union {x}) <= Cardinality(G) + 1
          /\ Cardinality(G \union {x}) \in Nat
      <4> HIDE DEF G, x
      <4>1. /\ IsFiniteSet(G \union {x})
            /\ Cardinality(G \union {x}) = IF x \in G THEN Cardinality(G)
                                            ELSE Cardinality(G) + 1
        BY <2>1, FS_AddElement
      <4> QED BY <2>1, <4>1
    <3> QED BY <1>2, <2>1, <3>2, <3>3, <3>4 DEF CountInv
  <2>5. CASE ~(x \in opened[t] /\ Job(t) = "generate")
    <3>1. Generations(s)' = G
      BY <1>1, <1>5, <2>2, <2>3, <2>5 DEF Generations
    <3> QED BY <1>1, <1>2, <2>1, <3>1 DEF CountInv
  <2> QED BY <2>4, <2>5
<1> QED BY <1>4, <1>6, <1>7, <1>8

----------------------------------------------------------------------------
(* The inductive invariant.                                                *)

LEMMA InvInit == Init => IInv
<1> SUFFICES ASSUME Init PROVE IInv
  OBVIOUS
<1> USE TxnsOf DEF Init
<1>1. TypeOK
  BY TypeInit
<1>2. \A t \in Txns : PlaceInv(t) /\ OpenInv(t)
  BY DEF PlaceInv, OpenInv
<1>3. \A s \in Slots : RowInv(s)
  BY DEF RowInv
<1>4. \A s \in Slots : CountInv(s)
  <2>1. \A s \in Slots : Generations(s) = {}
    BY DEF Generations
  <2>2. IsFiniteSet({}) /\ Cardinality({}) = 0
    BY FS_EmptySet
  <2>3. \A s \in Slots : IsFiniteSet(Generations(s)) /\ Cardinality(Generations(s)) = 0
    BY ONLY <2>1, <2>2, Zenon
  <2> QED BY <2>3 DEF CountInv
<1>5. \A t \in Txns, s \in Slots : FreshInv(t, s)
  BY DEF FreshInv
<1> QED BY <1>1, <1>2, <1>3, <1>4, <1>5 DEF IInv

(* A step of t is right if it is right for t and for the tables.           *)
LEMMA InvStep ==
  ASSUME IInv, NEW t \in Txns, Frame(t), TypeOK',
         PlaceInv(t)' /\ OpenInv(t)' /\ \A s \in Slots : FreshInv(t, s)',
         \A s \in Slots : RowInv(s)' /\ CountInv(s)',
         \A run \in runs' : RunInv(run)',
         \A e \in events' : EventInv(e)'
  PROVE  IInv'
<1>1. \A u \in Txns \ {t} : PlaceInv(u)' /\ OpenInv(u)' /\ \A s \in Slots : FreshInv(u, s)'
  BY FrameOthers
<1> QED BY <1>1 DEF IInv

LEMMA InvSame ==
  ASSUME IInv, TypeOK', UNCHANGED <<dbVars, txnVars, pc, job>>
  PROVE  IInv'
<1> USE DEF dbVars, txnVars
<1>1. \A t \in Txns : Job(t)' = Job(t) /\ Slot(t)' = Slot(t)
  BY DEF Job, Slot
<1>2. \A t \in Txns : PlaceInv(t)'
  BY <1>1 DEF IInv, PlaceInv
<1>3. \A t \in Txns : OpenInv(t)'
  BY <1>1 DEF IInv, OpenInv, Stored
<1>4. \A s \in Slots : RowInv(s)'
  BY DEF IInv, RowInv, Settled
<1>5. \A s \in Slots : CountInv(s)'
  BY DEF IInv, CountInv, Generations, Job
<1>6. \A t \in Txns, s \in Slots : FreshInv(t, s)'
  BY DEF IInv, FreshInv, Settled, Job
<1>7. (\A run \in runs' : RunInv(run)') /\ \A e \in events' : EventInv(e)'
  BY DEF IInv, RunInv, EventInv
<1> QED BY <1>2, <1>3, <1>4, <1>5, <1>6, <1>7 DEF IInv

(* The tables do not change before the commit.                             *)
LEMMA InvQuiet ==
  ASSUME IInv, NEW t \in Txns, Frame(t), TypeOK', UNCHANGED dbVars,
         PlaceInv(t)' /\ OpenInv(t)' /\ \A s \in Slots : FreshInv(t, s)'
  PROVE  IInv'
<1>1. row' = row /\ born' = born /\ events' = events /\ runs' = runs
  BY DEF dbVars
<1>2. /\ \A s \in Slots : RowInv(s)' /\ CountInv(s)'
      /\ \A run \in runs' : RunInv(run)'
      /\ \A e \in events' : EventInv(e)'
  BY <1>1, FrameTables
<1> QED BY <1>2, InvStep

LEMMA InvFlush ==
  ASSUME IInv, NEW t \in Txns, Insert(t) \/ Update(t) \/ Delete(t)
  PROVE  IInv'
<1>1. PlaceInv(t) /\ pc[t] = "write" /\ TypeOK /\ TypeOK'
  BY TypeFlush DEF IInv, Insert, Update, Delete
<1>2. Slot(t) \in Slots /\ Job(t) \in JobKinds
  BY <1>1, Writers
<1>3. row[Slot(t)] \in Row \union {NoRow}
  BY <1>1, <1>2 DEF TypeOK
<1>4. ASSUME NEW v \in Row \union {NoRow}, Written(t, Slot(t), v),
             v # NoRow => \/ v.text = t /\ Job(t) \in Generating \union {"manual"}
                          \/ row[Slot(t)] # NoRow /\ v.text = row[Slot(t)].text,
             Job(t) \in Generating => v # NoRow,
             loaded[t] = NoRow => row[Slot(t)] = NoRow \/ Job(t) = "delete"
      PROVE  IInv'
  <2>1. Frame(t) /\ UNCHANGED dbVars
    BY <1>1, <1>4, FrameWritten DEF Written
  <2>2. PlaceInv(t)' /\ OpenInv(t)' /\ \A s \in Slots : FreshInv(t, s)'
    BY <1>1, <1>4, OwnWritten
  <2> QED BY <1>1, <2>1, <2>2, InvQuiet
<1>5. CASE Insert(t)
  <2>1. PICK v \in Row : v.text = t /\ Written(t, Slot(t), v)
    BY <1>1, <1>5, InsertVersion
  <2>2. /\ Job(t) \in Generating \union {"manual"} /\ row[Slot(t)] = NoRow
    BY <1>2, <1>5 DEF Insert, Generating, JobKinds
  <2> QED BY <1>4, <2>1, <2>2, NoRowIsNoRow
<1>6. CASE Update(t)
  <2>1. PICK v \in Row : v.text \in {t, row[Slot(t)].text} /\ Written(t, Slot(t), v)
    BY <1>1, <1>6, UpdateVersion
  <2>2. /\ Job(t) \in Generating \union {"manual"}
        /\ loaded[t] # NoRow /\ row[Slot(t)] # NoRow
    BY <1>2, <1>6 DEF Update, StillThere, Generating, JobKinds
  <2> QED BY <1>4, <2>1, <2>2, NoRowIsNoRow
<1>7. CASE Delete(t)
  <2>1. PICK v \in {NoRow, row[Slot(t)]} : Written(t, Slot(t), v)
    BY <1>7, DeleteVersion
  <2>2. Job(t) = "delete" /\ Job(t) \notin Generating
    BY <1>7 DEF Delete, Generating
  <2> QED BY <1>3, <1>4, <2>1, <2>2
<1> QED BY <1>5, <1>6, <1>7

LEMMA InvEnd ==
  ASSUME IInv, NEW t \in Txns,
         DeleteMissing(t) \/ FailRun(t) \/ WriteConflict(t) \/ Commit(t) \/ Crash(t)
  PROVE  IInv'
<1>1. TypeOK' /\ Frame(t)
  BY TypeClose, FrameEnd DEF IInv
<1>2. PlaceInv(t)' /\ OpenInv(t)' /\ \A s \in Slots : FreshInv(t, s)'
  BY OwnEnd
<1>3. CASE DeleteMissing(t) \/ WriteConflict(t) \/ Crash(t)
  <2>1. UNCHANGED dbVars
    BY <1>3 DEF DeleteMissing, WriteConflict, Crash
  <2> QED BY <1>1, <1>2, <2>1, InvQuiet
<1>4. CASE FailRun(t)
  <2> DEFINE f == [by |-> t, slot |-> Slot(t), outcome |-> "failed"]
  <2>1. row' = row /\ born' = born /\ events' = events /\ runs' = runs \union {f}
    BY <1>4 DEF FailRun
  <2>2. t \in Requests => pc'[t] = "error"
    BY <1>4, StandupConstants DEF FailRun, Abort, GoTo, Failed, IInv, TypeOK
  <2>3. runs \subseteq runs'
        /\ \A run \in runs' \ runs : run.outcome = "failed" /\ RunInv(run)'
    BY <2>1, <2>2 DEF RunInv
  <2> HIDE DEF f
  <2>4. /\ \A s \in Slots : RowInv(s)' /\ CountInv(s)'
        /\ \A run \in runs' : RunInv(run)'
        /\ \A e \in events' : EventInv(e)'
    BY <1>1, <2>1, <2>3, FrameTables
  <2> QED BY <1>1, <1>2, <2>4, InvStep
<1>5. CASE Commit(t)
  BY <1>1, <1>2, <1>5, CommitTables, InvStep
<1> QED BY <1>3, <1>4, <1>5

LEMMA InvNext == IInv /\ [Next]_vars => IInv'
<1> SUFFICES ASSUME IInv, [Next]_vars
             PROVE  IInv'
  OBVIOUS
<1> USE TxnsOf
<1>1. ASSUME NEW t \in Txns, Handle(t) \/ Crash(t)
      PROVE  IInv'
  <2>1. CASE \/ AlreadyThere(t) \/ StartRun(t) \/ StartManual(t) \/ StartDelete(t)
             \/ SkipRun(t) \/ PostRun(t)
    <3>1. TypeOK' /\ Frame(t)
      BY <2>1, TypeInside, FrameInside DEF IInv
    <3>2. UNCHANGED dbVars
      BY <2>1 DEF AlreadyThere, StartRun, StartManual, StartDelete, SkipRun, PostRun,
         Look, dbVars
    <3> QED BY <2>1, <3>1, <3>2, OwnInside, InvQuiet
  <2>2. CASE Insert(t) \/ Update(t) \/ Delete(t)
    BY <2>2, InvFlush
  <2>3. CASE DeleteMissing(t) \/ FailRun(t) \/ WriteConflict(t) \/ Commit(t) \/ Crash(t)
    BY <2>3, InvEnd
  <2> QED BY <1>1, <2>1, <2>2, <2>3 DEF Handle
<1>2. ASSUME NEW t \in Txns,
             (t \in Requests /\ Receive(t)) \/ (t = Tick /\ TickPod)
      PROVE  IInv'
  <2>1. TypeOK' /\ Frame(t) /\ UNCHANGED dbVars
    BY <1>2, TypeOutside, FrameBegin DEF IInv, Receive, TickPod
  <2> QED BY <1>2, <2>1, OwnBegin, InvQuiet
<1>3. CASE TickStart \/ \E s \in Slots : Trigger(s)
  <2>1. TypeOK' /\ UNCHANGED <<dbVars, txnVars, pc, job>>
    BY <1>3, TypeOutside DEF IInv, TickStart, Trigger
  <2> QED BY <2>1, InvSame
<1>4. CASE UNCHANGED vars
  <2>1. TypeOK' /\ UNCHANGED <<dbVars, txnVars, pc, job>>
    BY <1>4 DEF IInv, TypeOK, vars, dbVars, txnVars
  <2> QED BY <2>1, InvSame
<1> QED BY <1>1, <1>2, <1>3, <1>4 DEF Next, TickStep

THEOREM Invariant == Spec => []IInv
BY InvInit, InvNext, PTL DEF Spec

----------------------------------------------------------------------------
(* The theorems.                                                           *)

(* Every table, transaction and queue keeps its type: what is flushed is a *)
(* row, however the columns of an UPDATE are merged.                       *)
THEOREM TypeCorrect == Spec => []TypeOK
<1>1. IInv => TypeOK
  BY DEF IInv
<1> QED BY <1>1, Invariant, PTL

(* agent_runs and agent_events tell the truth whatever races, fails or     *)
(* crashes, for every number of engagements, people and faults.            *)
THEOREM AuditTruth == Spec => []AuditIsTrue
<1>1. ASSUME IInv PROVE AuditIsTrue
  <2>1. \A run \in runs : run.outcome = "success" =>
          /\ born[run.slot] > 0
          /\ run.slot[2] = "eod" => <<run.by, run.slot>> \in events
    BY <1>1 DEF IInv, RunInv
  <2>2. \A e \in events :
          [by |-> e[1], slot |-> e[2], outcome |-> "success"] \in runs
    BY <1>1 DEF IInv, EventInv, Success
  <2>3. ASSUME NEW r \in Requests, pc[r] \in {"error", "refused", "aborted"}
        PROVE  /\ \A run \in runs : run.by = r => run.outcome = "failed"
               /\ \A s \in Slots : row[s] # NoRow => row[s].text # r
    <3>1. \A run \in runs : run.by = r => run.outcome = "failed"
      BY <1>1, <2>3 DEF IInv, RunInv
    <3>2. \A s \in Slots : row[s] # NoRow => row[s].text # r
      BY <1>1, <2>3 DEF IInv, RowInv, Settled
    <3> QED BY <3>1, <3>2
  <2> QED BY <2>1, <2>2, <2>3 DEF AuditIsTrue
<1> QED BY <1>1, Invariant, PTL

(* Each plain generation whose run says success inserted a row of its own, *)
(* however many people and ticks generate a slot at once.                  *)
THEOREM GenerationsInsert == Spec => []EachGenerationInserts
<1>1. IInv => EachGenerationInserts
  BY DEF IInv, CountInv, Generations, EachGenerationInserts
<1> QED BY <1>1, Invariant, PTL

(* A text in the table gives way only to one that was asked for: a plain   *)
(* generation that lost the race for the slot writes nothing.              *)
THEOREM ForcedOverwrites == Spec => OnlyForcedOverwrites
<1> DEFINE A == \A s \in Slots :
                  row[s] # NoRow /\ row'[s] # NoRow /\ row'[s].text # row[s].text
                    => Job(row'[s].text) \in {"regenerate", "manual"}
<1>1. ASSUME IInv, [Next]_vars
      PROVE  A
  <2>1. CASE \E t \in Txns : Commit(t)
    <3>1. PICK t \in Txns : Commit(t)
      BY <2>1
    <3>2. ASSUME NEW s \in Slots, row[s] # NoRow, row'[s] # NoRow,
                 row'[s].text # row[s].text
          PROVE  Job(row'[s].text) \in {"regenerate", "manual"}
      <4>1. row'[s] = Visible(t, s)
        BY <3>1 DEF Commit
      <4>2. holder[s] = t /\ row'[s] = fresh[t][s]
        BY <3>2, <4>1 DEF Visible
      <4>3. FreshInv(t, s)
        BY <1>1 DEF IInv
      <4> QED BY <3>2, <4>2, <4>3 DEF FreshInv
    <3> QED BY <3>2
  <2>2. CASE ~ \E t \in Txns : Commit(t)
    <3>1. row' = row
      BY <1>1, <2>2, TxnsOf
      DEF Next, TickStep, Handle, Receive, TickStart, TickPod, AlreadyThere, StartRun,
          StartManual, StartDelete, Look, DeleteMissing, FailRun, SkipRun, PostRun,
          Insert, Update, WriteConflict, Delete, Written, Crash, Trigger, vars, dbVars
    <3> QED BY <3>1
  <2> QED BY <2>1, <2>2
<1>2. IInv /\ [Next]_vars => [A]_vars
  BY <1>1
<1>3. Spec => [][A]_vars
  BY <1>2, Invariant, PTL DEF Spec
<1> QED BY <1>3 DEF OnlyForcedOverwrites
=============================================================================
