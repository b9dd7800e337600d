----------------------------- MODULE MCMembership -----------------------------
(* Two people, the bootstrap workspace and one pod, two transactions at a  *)
(* time.                                                                   *)
EXTENDS Membership

============================================================================
