------------------------------ MODULE MCEngine ------------------------------
(* One script, a Go file and a Go test file, one worker.                    *)
(*                                                                          *)
(* Not every text is settled by one pass: gofmt splits a "shared" line, and *)
(* spacing then finds what it passed over in the "split" one; of a "tight"  *)
(* one a violation is reported though nothing changes.  The layout of "b"   *)
(* makes a "long" line of what its linter found nothing in.                 *)
EXTENDS Engine

MCGoFiles == <<"g", "h">>
MCFix(config, f, t) == IF t = "lint" /\ config = "a" THEN "neat" ELSE t
MCFinds(config, f, t) ==
    CASE t = "lint" /\ config = "a" -> {"error"}
      [] t = "long" /\ config = "b" -> {"error"}
      [] OTHER -> {}
MCLayout(config, t) == IF t = "lint" /\ config = "b" THEN "long" ELSE t
MCGoLayout(t) ==
    CASE t = "shared" -> "split"
      [] t \in {"raw", "split"} -> "neat"
      [] OTHER -> t
MCGoViolates(t) == t \in {"raw", "split", "tight"}
MCScore(t) == IF t \in {"shared", "split"} THEN 4 ELSE 2
MCHolds == [f \in Files |-> CASE f = "s" -> {"lint", "gen"}
                              [] f = "g" -> {"raw", "shared"}
                              [] f = "h" -> {"tight", "neat", "big", "bad"}]

Ask(config, mode, cache, lanes) ==
    [NoRun EXCEPT !.config = config, !.mode = mode, !.cache = cache, !.lanes = lanes]
MCAsked == {Ask("a", "format", TRUE, {"ts", "go"}), Ask("a", "check", TRUE, {"ts", "go"}),
            Ask("b", "format", TRUE, {"ts"}), Ask("c", "format", TRUE, {"ts", "go"}),
            Ask("a", "check", FALSE, {"go"})}

\* To keep the trees few, at most one file differs from these to begin with.
Plain == [f \in Files |-> CASE f = "s" -> "lint" [] f = "g" -> "raw" [] f = "h" -> "neat"]
MCInit == Init /\ Cardinality({f \in Files : disk[f] # Plain[f]}) <= 1
MCSpec == MCInit /\ [][Next]_vars /\ Fairness
=============================================================================
