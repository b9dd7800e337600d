---------------------------- MODULE MCNudgeSweep ----------------------------
(* Instances of NudgeSweep for TLC.                                        *)
EXTENDS NudgeSweep

CONSTANTS i1, i2, p, q, sched, api

(* Everything is one person's and due at the same time: the cap binds.     *)
OneOwner == [i \in Items |-> p]
OneDue == [i \in Items |-> 3]
============================================================================
