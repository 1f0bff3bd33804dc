--------------------------- MODULE MCMinuteProbe ---------------------------
(* Two stocks that trade, or do not, at the edges of the two minutes and   *)
(* between the samples.                                                    *)
EXTENDS MinuteProbe

CONSTANTS a, b

Days == {[c \in Code |-> IF c = a THEN x ELSE y] :
           x \in SUBSET {50, 59, 60, 80, 119}, y \in {{50, 60}, {57, 59, 60}, {60, 80}}}
=============================================================================
