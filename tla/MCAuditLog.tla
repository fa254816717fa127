------------------------------ MODULE MCAuditLog ------------------------------
(* A small instance of AuditLog.                                           *)
EXTENDS AuditLog
CONSTANTS r1, r2, s1
=============================================================================
