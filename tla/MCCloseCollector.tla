-------------------------- MODULE MCCloseCollector --------------------------
(* Providers and hosts for CloseCollector.                                 *)
EXTENDS CloseCollector

CONSTANTS p1, p2, h1

OneHost == [p \in Provider |-> h1]
\* p1 has a second thing to ask for.
Requests == [p \in Provider |-> IF p = p1 THEN 2 ELSE 1]

Priorities == [p \in Provider |-> IF p = p1 THEN 1 ELSE 2]
=============================================================================
