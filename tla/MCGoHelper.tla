----------------------------- MODULE MCGoHelper -----------------------------
(* Values for model checking GoHelper. *)
EXTENDS GoHelper

\* A release helper, an unstamped one, one of another release and one of
\* another protocol.
MCHellos == [proto : {1}, version : {"2.0.0", "dev", "1.9.0"}]
            \cup {[proto |-> 2, version |-> "2.0.0"]}
=============================================================================
