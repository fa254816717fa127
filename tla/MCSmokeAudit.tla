----------------------------- MODULE MCSmokeAudit -----------------------------
(* A small instance of SmokeAudit: one line is twice as long as the others.  *)
EXTENDS SmokeAudit
CONSTANTS a1, a2, a3, big

MCBytes == [l \in {a1, a2, a3, big, Broken} |-> IF l = big THEN 2 ELSE 1]
=============================================================================
