----------------------------- MODULE SingleUse -----------------------------
(* What the daily freeze promises of its authorizations: each is used once,*)
(* one at a time, its requests are counted, and what it publishes is       *)
(* published after the last of them and for good.                          *)
EXTENDS Naturals

CONSTANTS Authorization, Limit

VARIABLES used, busy, requests, published

vars == <<used, busy, requests, published>>

Init ==
  /\ used = {} /\ busy = {} /\ published = {}
  /\ requests = [a \in Authorization |-> 0]

Use(a) ==
  /\ a \notin used
  /\ used' = used \union {a}
  /\ UNCHANGED <<busy, requests, published>>

\* Work on an authorization starts when none is left on another.
Start(a) ==
  /\ a \in used \ published
  /\ busy = {} /\ busy' = {a}
  /\ UNCHANGED <<used, requests, published>>

Request(a) ==
  /\ a \in busy \ published
  /\ requests[a] < Limit
  /\ requests' = [requests EXCEPT ![a] = @ + 1]
  /\ UNCHANGED <<used, busy, published>>

Stop ==
  /\ busy' = {}
  /\ UNCHANGED <<used, requests, published>>

Publish(a) ==
  /\ requests[a] = Limit
  /\ a \notin busy
  /\ published' = published \union {a}
  /\ UNCHANGED <<used, busy, requests>>

Next == \/ \E a \in Authorization : Use(a) \/ Start(a) \/ Request(a) \/ Publish(a)
        \/ Stop

Spec == Init /\ [][Next]_vars
=============================================================================
