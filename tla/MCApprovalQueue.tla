-------------------------- MODULE MCApprovalQueue --------------------------
(* Instances of ApprovalQueue for TLC.  jira1 is a Jira update, raid1 a    *)
(* RAID entry; in the bulk runs a batch names both, in either order.  The  *)
(* two report approvals of the progress run name the same report.          *)
EXTENDS ApprovalQueue, TLC

CONSTANTS jira1, raid1, rep1, rep2, ref1, report1, r1, r2,
  comment,      \* the Jira update proposed, or the report approval
  garbled,      \* the RAID entry proposed, with a type that does not parse
  repaired,     \* an edit that parses and keeps the source_ref
  stripped      \* an edit without source_ref and without Jira operation

JiraAndRaid == (jira1 :> "jira") @@ (raid1 :> "raid")
TwoReports == (rep1 :> "report") @@ (rep2 :> "report")
ProposedByAgent ==
  [a \in Approvals |-> IF Kind[a] = "raid" THEN garbled ELSE comment]

RaidRefs ==
  [p \in Payloads |-> IF p \in {garbled, repaired} THEN ref1 ELSE NoRef]
SameReport == [p \in Payloads |-> report1]

BothOrders == {<<jira1, raid1>>, <<raid1, jira1>>}
BothReportOrders == {<<rep1, rep2>>, <<rep2, rep1>>}

RequestSymmetry == Permutations({r1, r2})
============================================================================
