------------------------------ MODULE MCServe ------------------------------
(* Values for model checking Serve. *)
EXTENDS Serve

\* A rebuilt executable reports the same version.
MCVersion(e) == 1

CONSTANTS SecondServer, SecondCaller

\* Two servers with one caller, or two callers with one server: of the two
\* second processes one is never started.
VARIABLE absent

Home == CHOOSE v \in Environments : TRUE

NotStarted == IF absent = SecondServer THEN spc[SecondServer] = "off" ELSE cpc[SecondCaller] = "off"

\* Environments differ in name only: the first server's is called Home.
AtHome == \A s \in Servers \ {SecondServer} : me[s].env = Home

MCInit == Init /\ absent \in {SecondServer, SecondCaller} /\ \A c \in Callers : self[c].env = Home
MCNext == Next /\ UNCHANGED absent /\ NotStarted' /\ AtHome'
MCSpec == MCInit /\ [][MCNext]_<<vars, absent>> /\ Fairness
=============================================================================
