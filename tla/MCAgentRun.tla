------------------------------ MODULE MCAgentRun ------------------------------
(* Instances of AgentRun for TLC.                                          *)
EXTENDS AgentRun

CONSTANT r1

(* One claim cited, one not, one that cites both; two claims, of which a   *)
(* half is cited, which is just enough; three, of which a third is; one    *)
(* invented; one that is malformed.                                        *)
SomeAnswers ==
  {<<>>, <<{"seen"}>>, <<{}>>, <<{"seen"}, {}>>, <<{"seen"}, {}, {}>>,
   <<{"seen"}, {"invented"}>>, <<{"seen", "invented"}>>, <<Malformed, {"seen"}>>}

AllTasks == DOMAIN Catalog
============================================================================
