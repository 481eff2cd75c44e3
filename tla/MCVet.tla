------------------------------- MODULE MCVet --------------------------------
(* Two files that must agree: one defines what the other uses.              *)
EXTENDS Vet, TLC

CONSTANTS a, b, x, y

\* Times in steps of two.
MCCoarse(t) == t - (t % 2)

\* a passes alone with x, and with a b that agrees; b does not pass alone.
MCPassing ==
    {[f \in Files |-> IF f = a THEN x ELSE Absent]}
        \cup {[f \in Files |-> c] : c \in Contents}
=============================================================================
