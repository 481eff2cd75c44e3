---------------------------- MODULE MCDiscovery -----------------------------
(* A root with a rules file, and a directory with a tracked file t and      *)
(* another one, u.                                                          *)
EXTENDS Discovery

D == <<"d">>
T == <<"d", "t">>
U == <<"d", "u">>
MCDirs == {Root, D}
MCPaths == {Root, D, T, U, rules_of(Root)}
MCSources == {T, U}
MCHead == [p \in Paths |-> IF p = T THEN 1 ELSE None]

MCSilent == [ignore |-> {}, allow |-> {}]
MCTexts == {MCSilent, [ignore |-> {U}, allow |-> {}]}

MCContents == [p \in Paths |-> IF IsRules(p) THEN MCTexts
                              ELSE IF p = T THEN {1, 2} ELSE {1}]

MCCoarse(t) == t

Whole == [all |-> FALSE, paths |-> None]
All == [all |-> TRUE, paths |-> None]
Elsewhere == [all |-> FALSE, paths |-> {rules_of(Root)}]
Named == [all |-> FALSE, paths |-> {T}]
MCScopes == {Whole, All, Named}
ScopedScopes == {Whole, Elsewhere}

\* Nothing that happens in or after the last run shows in another one: the
\* tree stays as it is until its files are found, all stops there, and with it
\* at rest the comparison may as well come before the walk.
LastRun ==
    runs = MaxRuns =>
        /\ quiet' = quiet
        /\ run.phase = "walk" /\ run.compare # "done" => run'.visits = run.visits
Over == runs = MaxRuns /\ run.phase \notin {"open", "walk"}

MCInit == Init
MCNext == ~Over /\ Next /\ LastRun
MCSpec == MCInit /\ [][MCNext]_vars
=============================================================================
