--------------------------- MODULE MCAuditExecutor ---------------------------
(* Plans for AuditExecutor.                                                *)
EXTENDS AuditExecutor

CONSTANTS h1, h2

\* Job 2 needs job 1; job 3 waits for its release.  All on one host but 3.
Chain ==
  [deps |-> [j \in Job |-> IF j = 2 THEN {1} ELSE {}],
   host |-> [j \in Job |-> IF j = 3 THEN h2 ELSE h1],
   release |-> [j \in Job |-> IF j = 3 THEN 1 ELSE NoRelease]]
=============================================================================
