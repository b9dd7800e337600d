---------------------------- MODULE MCReportLife ----------------------------
(* Instances of ReportLife for TLC.                                        *)
EXTENDS ReportLife

CONSTANTS r1, r2, r3, job, thisWeek, lastWeek

Generate(p, force) == [kind |-> "generate", period |-> p, force |-> force,
                       edits |-> FALSE, status |-> "none"]
Patch(edits, status) == [kind |-> "edit", period |-> thisWeek, force |-> FALSE,
                         edits |-> edits, status |-> status]
Send == [kind |-> "send", period |-> thisWeek, force |-> FALSE,
         edits |-> FALSE, status |-> "none"]

FromCatalog == [kind |-> "run", period |-> thisWeek, force |-> FALSE,
                edits |-> FALSE, status |-> "none"]

(* Every request the screens and the API offer: draft, regenerate, reword, *)
(* approve, reopen, both at once, set the status by hand, send, and run    *)
(* the task from the catalog.                                              *)
AllOps ==
  {Generate(thisWeek, TRUE), Generate(thisWeek, FALSE), Generate(lastWeek, FALSE),
   Patch(TRUE, "none"), Patch(FALSE, "approved"), Patch(TRUE, "approved"),
   Patch(FALSE, "draft"), Patch(FALSE, "sent"), Send, FromCatalog}
============================================================================
