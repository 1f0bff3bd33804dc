---------------------------- MODULE MCAuditBudget ----------------------------
(* Plans for AuditBudget.                                                  *)
EXTENDS AuditBudget

\* Every plan over Job, with one release time in question.
AllPlans == [deps : [Job -> SUBSET Job], host : [Job -> Host], release : [Job -> {NoRelease, 3}]]
=============================================================================
