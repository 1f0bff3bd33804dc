---------------------------- MODULE SingleFlight ----------------------------
(***************************************************************************)
(* What the manual quote refresh promises, without its files: one batch    *)
(* has a request in flight at a time, a batch is sealed only when nothing  *)
(* is in flight, only a sealed batch is ever confirmed, and while a sealed *)
(* batch is unconfirmed no new batch begins.                               *)
(***************************************************************************)
CONSTANT Batch        \* the batches, one per accepted click

VARIABLES begun,      \* batches that sent their one request
          inFlight,   \* begun, and the worker is not known to be gone
          sealed,     \* batches whose response is in the store
          confirmed   \* batches every reader may treat as successful

sfVars == <<begun, inFlight, sealed, confirmed>>

Init == /\ begun = {}
        /\ inFlight = {}
        /\ sealed = {}
        /\ confirmed = {}

Begin(b) == /\ b \notin begun
            /\ inFlight = {}
            /\ sealed \subseteq confirmed
            /\ begun' = begun \union {b}
            /\ inFlight' = {b}
            /\ UNCHANGED <<sealed, confirmed>>

Land(b) == /\ b \in inFlight
           /\ inFlight' = inFlight \ {b}
           /\ UNCHANGED <<begun, sealed, confirmed>>

Seal(b) == /\ b \in begun
           /\ inFlight = {}
           /\ sealed' = sealed \union {b}
           /\ UNCHANGED <<begun, inFlight, confirmed>>

Confirm(b) == /\ b \in sealed
              /\ confirmed' = confirmed \union {b}
              /\ UNCHANGED <<begun, inFlight, sealed>>

Next == \E b \in Batch : Begin(b) \/ Land(b) \/ Seal(b) \/ Confirm(b)

Spec == Init /\ [][Next]_sfVars
=============================================================================
