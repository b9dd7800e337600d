-------------------------- MODULE MCMeetingIntake --------------------------
(* Instances of MeetingIntake for TLC.                                     *)
EXTENDS MeetingIntake, TLC

CONSTANTS d1, d2,              \* deliveries
          m1, m2, m3, m4,      \* meetings
          call, review, ship,  \* titles
          at1, at2             \* transcript timestamps

Do(title, ref) == [title |-> title, ref |-> ref]

(* Two meetings that both have an entry at the same timestamp, one of which*)
(* says the same thing twice; a meeting without entries; one (m4) whose    *)
(* payload is refused.                                                     *)
Agendas ==
  (m1 :> <<Do(call, at1), Do(call, at1)>>) @@ (m2 :> <<Do(review, at1), Do(ship, at2)>>)
    @@ (m3 :> <<>>) @@ (m4 :> <<>>)

(* Of the first two, also what lacks a signature, consent or an engagement.*)
Deliver(m, lacking) ==
  [meeting |-> m, signed |-> lacking # "signature", consented |-> lacking # "consent",
   bound |-> lacking # "engagement"]
Delivered ==
  {Deliver(m, "nothing") : m \in Meetings}
    \union {Deliver(m1, "signature"), Deliver(m1, "consent"), Deliver(m2, "engagement")}

(* By hand: what a meeting asks for too, and something else at its time.   *)
HandItems == {Do(call, NoRef), Do(ship, at1)}
============================================================================
