--------------------------- MODULE MCOutcomeCache ---------------------------
(* Values for model checking OutcomeCache. *)
EXTENDS OutcomeCache

CONSTANT Second         \* the process that is there for company

\* A file system with two-second time stamps.
MCCoarse(t) == t - (t % 2)

\* A text whose formatted form would be formatted once more.  A second
\* configuration leaves both alone.
MCFormat(cf, c) ==
    CASE cf = "strict" /\ c = "raw"  -> "once"
      [] cf = "strict" /\ c = "once" -> "neat"
      [] OTHER -> c

\* Three questions in one run: two processes that share a store, in one mode; one
\* with two configurations; and one with texts that cannot be formatted.
VARIABLE question

Within ==
    /\ question = "shared" =>
          /\ edits <= 1
          /\ \A p \in Procs : pc[p] \in {"closed", "idle"} \/ run[p].mode = "format"
    /\ question = "configs" => edits <= 1
    /\ question # "configs" => \A p \in Procs : run[p].config = "strict"
    /\ question # "shared"  => pc[Second] = "closed"

\* The texts the file is given, first and by the edits.
Given(n) == CASE question = "shared" -> {"once"}
              [] n # 1 -> {"raw"}
              [] question = "texts" -> {"once", "broken", "generated"}
              [] OTHER -> {"once"}

MCInit ==
    /\ Init /\ question \in {"shared", "configs", "texts"}
    /\ file.content \in Given(0) /\ Within
MCNext ==
    /\ Next /\ UNCHANGED question /\ Within'
    /\ edits' # edits => file'.content \in Given(edits')
MCSpec == MCInit /\ [][MCNext]_<<vars, question>>
=============================================================================
