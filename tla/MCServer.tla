------------------------------ MODULE MCServer ------------------------------
(***************************************************************************)
(* The lineages of the models, the room tasks and the reads of the room    *)
(* graph share no state, so that one run checks them side by side: a       *)
(* behaviour is one of the lineages, under requests side by side, of the   *)
(* room task store, under every order of calls of people and of Revit      *)
(* sessions, or of the graph, under one read after another.                *)
(***************************************************************************)
EXTENDS RoomTasks, MCLineages, Connectivity

VARIABLE part

Fact(kind, a, b, length, width, height) ==
    [kind |-> kind, a |-> a, b |-> b, length |-> length, width |-> width, height |-> height]
MCFacts ==
    {Fact("door", 1, 2, 1, 1, Nothing), Fact("door", 2, 1, 3, 2, 1), Fact("door", 2, 3, 1, 2, 2),
     Fact("door", 1, 3, 3, Nothing, 1), Fact("door", 1, Nothing, 1, 1, 1),
     Fact("door", 3, Elsewhere, 1, 1, 1), Fact("zone", 1, 2, 1, 2, Nothing),
     Fact("link", 2, 3, 3, Nothing, Nothing), Fact("passage", 1, 3, 1, 1, 2)}
MCHeights == {<<2, 1, 2>>, <<Nothing, Nothing, Nothing>>}
Size(width, height) == [width |-> width, height |-> height]
MCFits == {Size(Nothing, Nothing), Size(2, Nothing), Size(Nothing, 2), Size(Nothing, 3), Size(2, 2)}
Asked(from, to, metric, fit) == [from |-> from, to |-> to, metric |-> metric, fit |-> fit]
MCQuestions == {Asked(1, 3, "distance", fit) : fit \in MCFits}
    \cup {Asked(1, 3, "hops", Size(2, Nothing)), Asked(2, 2, "distance", Size(2, Nothing))}

ServerInit == part \in {"lineages", "tasks", "map"} /\ Init /\ TasksInit /\ MapInit

ServerNext ==
  /\ UNCHANGED part
  /\ IF part = "lineages" THEN Next ELSE UNCHANGED vars
  /\ IF part = "tasks" THEN TasksNext ELSE UNCHANGED taskVars
  /\ IF part = "map" THEN MapNext ELSE UNCHANGED mapVars

ServerSpec == ServerInit /\ [][ServerNext]_<<part, vars, taskVars, mapVars>>

\* Handlers and sessions may be exchanged for one another.
Exchanges == Handling \cup Permutations(Sessions)
=============================================================================
