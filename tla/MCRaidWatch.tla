----------------------------- MODULE MCRaidWatch -----------------------------
(* Instances of RaidWatch for TLC.                                         *)
EXTENDS RaidWatch

CONSTANT k1

(* Eight-hour units: a server from one unit east of the engagement to two  *)
(* units west of it.                                                       *)
AllZones == -1..2
============================================================================
