---------------------------- MODULE ApprovalGate ----------------------------
(***************************************************************************)
(* What the approvals queue promises, whatever its transactions do: "zero  *)
(* unapproved writes".  A write leaves the system only if somebody who may *)
(* approve granted that write, with that payload; an outcome is recorded   *)
(* only for a grant; and a decision, once recorded, is never undone.  It   *)
(* may be replaced by that of another request, which is what the code      *)
(* allows and no more than that.                                           *)
(***************************************************************************)
CONSTANTS
  Approvals, Requests, Payloads,
  MustSend      \* pairs of an approval and a payload for it whose execution
                \* is nothing but an external write

VARIABLES
  granted,      \* what people asked for: approval, request and payload
  sent,         \* external writes that were made
  outcome       \* what the database says of each approval

vars == <<granted, sent, outcome>>

Grants == [approval : Approvals, by : Requests, payload : Payloads]
Outcomes == {"pending", "denied", "executed", "failed"}

Init ==
  /\ granted = {}
  /\ sent = {}
  /\ outcome = [a \in Approvals |-> "pending"]

(* A request to approve, by somebody who may.                              *)
Grant ==
  /\ granted' \subseteq Grants /\ granted \subseteq granted'
  /\ UNCHANGED <<sent, outcome>>

Send ==
  /\ \E g \in granted : sent' = sent \union {g}
  /\ UNCHANGED <<granted, outcome>>

(* The outcome w of approval a follows from a grant, or from nobody's.     *)
Recordable(a, w) ==
  \/ w = "denied"
  \/ \E g \in granted :
       /\ g.approval = a
       /\ \/ w = "failed"
          \/ w = "executed" /\ (<<a, g.payload>> \in MustSend => g \in sent)

(* One commit records the outcomes of any number of approvals.             *)
Record ==
  /\ outcome' \in [Approvals -> Outcomes]
  /\ \A a \in Approvals :
       outcome'[a] = outcome[a] \/ Recordable(a, outcome'[a])
  /\ UNCHANGED <<granted, sent>>

Next == Grant \/ Send \/ Record

Spec == Init /\ [][Next]_vars

(* Nothing is sent that was not granted.                                   *)
ZeroUnapprovedWrites == sent \subseteq granted
============================================================================
