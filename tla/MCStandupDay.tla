---------------------------- MODULE MCStandupDay ----------------------------
(* Instances of StandupDay for TLC.                                        *)
EXTENDS StandupDay, TLC

CONSTANTS pod1, pod2, r1, r2

OnePod == <<pod1>>
TwoPods == <<pod1, pod2>>

NoSlots == {}
EndOfDay == {<<pod1, "eod">>}
MorningBroken == {<<pod1, "morning">>}

RequestSymmetry == Permutations({r1, r2})
============================================================================
