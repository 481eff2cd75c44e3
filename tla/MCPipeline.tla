----------------------------- MODULE MCPipeline -----------------------------
(* A schedule of the shape of FULL in pipeline.rs: passes that run until     *)
(* they are stable before and after oxc_formatter, and one that runs once.   *)
EXTENDS Pipeline

CONSTANT STABLE_BUDGET

Once(step) == [step |-> step, budget |-> 1]
UntilStable(step) == [step |-> step, budget |-> STABLE_BUDGET]

MCShort == << UntilStable("body-wrap"), Once("oxfmt"), Once("fluent-chains"),
              UntilStable("body-wrap") >>

MCShortSteps == {MCShort[i].step : i \in DOMAIN MCShort}
=============================================================================
