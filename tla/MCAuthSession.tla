----------------------------- MODULE MCAuthSession -----------------------------
(* A session of one person and one of another.                             *)
EXTENDS AuthSession

CONSTANTS ann, bob, bobs

Owners == [s \in Sessions |-> IF s = bobs THEN bob ELSE ann]
============================================================================
