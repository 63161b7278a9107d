----------------------------- MODULE MCAuditRun -----------------------------
(* Model values for the TLC run of AuditRun. *)
EXTENDS AuditRun, TLC
=============================================================================
