---------------------------- MODULE Connectivity ----------------------------
(***************************************************************************)
(* The graph of rooms and the route between two of them                    *)
(* (src/service/connectivity.rs): doors, open zones, links between storeys *)
(* and drawn passages become edges, and a read answers with the components *)
(* of the graph, the shortest route an object of a given size fits through *)
(* by the room-centre method, and what limits that size.                   *)
(*                                                                         *)
(* Lengths, widths and heights are numbers the geometry has been turned    *)
(* into; a size nobody knows is Nothing and never blocks.  Every read is   *)
(* answered from what it assembled, in one step; the state is the last     *)
(* read and its answer.                                                    *)
(***************************************************************************)
EXTENDS Absence, Naturals, FiniteSets, FiniteSetsExt, Lists

CONSTANTS
    NodeCount,      \* rooms in scope, numbered in the order of their ids
    Elsewhere,      \* a room that is not in scope
    Facts,          \* what may join two rooms: kind, the rooms, length, width, height
    MaxFacts,       \* bounds the facts of one read
    Heights,        \* the heights the rooms may have, as functions of the room
    Questions       \* what may be asked: two rooms, the metric and the size of an object

Nodes == 1..NodeCount
Pair(e) == {e.a, e.b}

\* What an open zone, a link or a passage contributes joins two rooms that are in scope, and what
\* is asked is between two of them.  A size is a number or not known.
ASSUME MapAssumption ==
    /\ NodeCount \in Nat /\ MaxFacts \in Nat
    /\ \A f \in Facts : f.kind # "door" => f.a # f.b /\ Pair(f) \subseteq Nodes
    /\ \A f \in Facts : f.length \in Nat /\ {f.width, f.height} \subseteq Nat \cup {Nothing}
    /\ Heights \subseteq [Nodes -> Nat \cup {Nothing}]
    /\ \A q \in Questions :
          /\ {q.from, q.to} \subseteq Nodes
          /\ q.fit \in [width : Nat \cup {Nothing}, height : Nat \cup {Nothing}]
    /\ Nothing \notin Nat \cup Seq(Nat) \cup Seq(Facts)

VARIABLES asked, answer

mapVars == <<asked, answer>>

MapInit == asked = Nothing /\ answer = Nothing

-----------------------------------------------------------------------------
(* The graph *)

OfKind(facts, kind) == Only(facts, {f \in ToSet(facts) : f.kind = kind})

\* link: a door between two rooms in scope is an edge.
DoorEdges(facts) == Only(OfKind(facts, "door"), {f \in ToSet(facts) : f.a # f.b /\ Pair(f) \subseteq Nodes})

\* Open zones and links join rooms that nothing joins yet; passages join them in any case.
Joining(edges, facts) ==
    FoldLeft(LAMBDA es, f : IF \E k \in DOMAIN es : Pair(es[k]) = Pair(f) THEN es ELSE Append(es, f), edges, facts)

EdgesOf(facts) ==
    Joining(Joining(DoorEdges(facts), OfKind(facts, "zone")), OfKind(facts, "link")) \o OfKind(facts, "passage")

\* Mutated form of Merging: rooms merged with an earlier class are left behind.
MergingOne(classes, e) == [classes EXCEPT ![e.a] = classes[e.b]]

\* Union and find: an edge makes one class of two.
Merging(classes, e) ==
    [n \in Nodes |-> IF classes[n] = classes[e.a] THEN classes[e.b] ELSE classes[n]]

Classes(edges) == FoldLeft(Merging, [n \in Nodes |-> n], edges)

\* components: largest first, the lowest room of each breaking a tie.
Components(edges) ==
    LET root == Classes(edges)
        Members(n) == {m \in Nodes : root[m] = root[n]}
        first == {n \in Nodes : n = Min(Members(n))}
        Before(m, n) == \/ Cardinality(Members(m)) > Cardinality(Members(n))
                        \/ Cardinality(Members(m)) = Cardinality(Members(n)) /\ m < n
        order == CHOOSE s \in SetToSeqs(first) : \A i, j \in DOMAIN s : i < j => Before(s[i], s[j])
    IN  [rank |-> [n \in Nodes |-> CHOOSE i \in DOMAIN order : root[order[i]] = root[n]],
         size |-> [i \in DOMAIN order |-> Cardinality(Members(order[i]))]]

IsolatedRooms(edges) ==
    LET components == Components(edges)
    IN  {n \in Nodes : components.size[components.rank[n]] = 1}

-----------------------------------------------------------------------------
(* The route *)

Other(e, n) == IF e.a = n THEN e.b ELSE e.a
Weight(e, metric) == IF metric = "hops" THEN 1 ELSE e.length
Cost(edges, walk, metric) == FoldLeft(LAMBDA c, k : c + Weight(edges[k], metric), 0, walk)

\* The edges at n, in their order.
At(edges, n) == Only([k \in DOMAIN edges |-> k], {k \in DOMAIN edges : n \in Pair(edges[k])})

\* The heap's order: the cheapest node, and the lowest of those.
Top(heap) == CHOOSE x \in heap : \A y \in heap : x.cost < y.cost \/ (x.cost = y.cost /\ x.node <= y.node)

\* An edge from the node popped, as a cheaper way to its other end.
Relaxed(search, edges, top, metric, k) ==
    LET next == Other(edges[k], top.node)
        c == top.cost + Weight(edges[k], metric)
    IN  IF search.best[next] # Nothing /\ c >= search.best[next] THEN search
        ELSE [best |-> [search.best EXCEPT ![next] = c], via |-> [search.via EXCEPT ![next] = k],
              heap |-> search.heap \cup {[cost |-> c, node |-> next]}]

\* The edges at the node popped, in their order.
RelaxedAt(search, edges, top, metric) ==
    FoldLeft(LAMBDA s, k : Relaxed(s, edges, top, metric, k), search, At(edges, top.node))

\* One pop of the heap.
Settle(search, edges, to, metric) ==
    LET top == Top(search.heap)
        popped == [search EXCEPT !.heap = @ \ {top}]
    IN  IF search.heap = {} THEN search
        ELSE IF top.node = to THEN [search EXCEPT !.heap = {}]
        ELSE IF top.cost > search.best[top.node] THEN popped
        ELSE RelaxedAt(popped, edges, top, metric)

\* Before the first pop.
Begun(from) ==
    [best |-> [m \in Nodes |-> IF m = from THEN 0 ELSE Nothing],
     via |-> [m \in Nodes |-> Nothing], heap |-> {[cost |-> 0, node |-> from]}]

\* A node is left once: of what is popped, all but the first was pushed along an edge, in one of
\* its directions.
Searched(edges, from, to, metric) ==
    LET pops == 1 + 2 * Len(edges)
        search[n \in 0..pops] == IF n = 0 THEN Begun(from) ELSE Settle(search[n - 1], edges, to, metric)
    IN  search[pops]

\* The walk that led to `to`, read back from it.
WalkedBack(edges, via, from, to) ==
    LET walk[n \in Nodes] ==
            IF n = from \/ via[n] = Nothing THEN <<>> ELSE Append(walk[Other(edges[via[n]], n)], via[n])
    IN  IF from # to /\ via[to] = Nothing THEN Nothing ELSE walk[to]

\* Mutated form of Shortest: a breadth-first search, which finds the fewest hops.
ShortestInHops(edges, from, to, metric) == WalkedBack(edges, Searched(edges, from, to, "hops").via, from, to)

Shortest(edges, from, to, metric) == WalkedBack(edges, Searched(edges, from, to, metric).via, from, to)

-----------------------------------------------------------------------------
(* Sizes *)

Passes(known, wanted) == known = Nothing \/ wanted = Nothing \/ known >= wanted

Passable(e, heights, fit) ==
    /\ Passes(e.width, fit.width)
    /\ Passes(e.height, fit.height)
    /\ \A n \in Pair(e) : Passes(heights[n], fit.height)

Routable(edges, heights, fit) == Only(edges, {e \in ToSet(edges) : Passable(e, heights, fit)})

Met(some) == some \ {Nothing}

\* Mutated form of Wider: hops of unknown width come last.
WiderUnknownLast(d, e) == d.width # Nothing /\ (e.width = Nothing \/ d.width > e.width)

\* Hops of unknown width come before all others.
Wider(d, e) == e.width # Nothing /\ (d.width = Nothing \/ d.width > e.width)

\* The edges by width, equal ones in their order.
WidestFirst(edges) ==
    LET Before(k, l) == Wider(edges[k], edges[l]) \/ (~Wider(edges[l], edges[k]) /\ k < l)
        order == CHOOSE s \in SetToSeqs(DOMAIN edges) : \A i, j \in DOMAIN s : i < j => Before(s[i], s[j])
    IN  [i \in DOMAIN order |-> edges[order[i]]]

\* Edges are added widest first until the rooms meet: the width of the last one limits.
WidestBetween(edges, from, to) ==
    LET order == WidestFirst(edges)
        Meet(k) == LET classes == Classes(SubSeq(order, 1, k)) IN classes[from] = classes[to]
        meeting == {k \in DOMAIN order : Meet(k)}
    IN  IF from = to \/ meeting = {} THEN Nothing ELSE order[Min(meeting)].width

\* A room is seen along an edge of the room popped, unless it has been.
Seen(search, edges, from, n, k) ==
    LET next == Other(edges[k], n)
    IN  IF next = from \/ search.via[next] # Nothing THEN search
        ELSE [via |-> [search.via EXCEPT ![next] = k], queue |-> Append(search.queue, next)]

\* The edges of the room popped, in their order.
SeenFrom(search, edges, from, n) ==
    FoldLeft(LAMBDA s, k : Seen(s, edges, from, n, k), search, At(edges, n))

\* One pop of the queue.
Visit(search, edges, from, to) ==
    IF search.queue = <<>> \/ Head(search.queue) = to THEN search
    ELSE SeenFrom([search EXCEPT !.queue = Tail(@)], edges, from, Head(search.queue))

\* Before the first pop.
Alone(from) == [via |-> [m \in Nodes |-> Nothing], queue |-> <<from>>]

\* A room is queued once.
BreadthFirst(edges, from, to) ==
    LET search[n \in 0..NodeCount] == IF n = 0 THEN Alone(from) ELSE Visit(search[n - 1], edges, from, to)
    IN  search[NodeCount]

\* The edges as high as that, between rooms that are.
High(edges, heights, t) ==
    Only(edges, {e \in ToSet(edges) : Passes(e.height, t) /\ \A n \in Pair(e) : Passes(heights[n], t)})

\* A breadth-first search over what is high enough.
RouteAtHeight(edges, heights, from, to, t) ==
    LET high == High(edges, heights, t)
        walk == WalkedBack(high, BreadthFirst(high, from, to).via, from, to)
    IN  IF ~Passes(heights[from], t) \/ walk = Nothing THEN Nothing ELSE [i \in DOMAIN walk |-> high[walk[i]]]

\* The heights there are, known or not, of edges and of the rooms they join.
HeightsOf(edges, heights) == {e.height : e \in edges} \cup {heights[n] : n \in UNION {Pair(e) : e \in edges}}

\* The heights there are in the building.
HeightsThere(edges, heights) == Met({heights[n] : n \in Nodes} \cup HeightsOf(ToSet(edges), heights))

\* The heights at which the rooms are joined.
HeightsJoined(edges, heights, from, to) ==
    {t \in HeightsThere(edges, heights) : RouteAtHeight(edges, heights, from, to, t) # Nothing}

\* The lowest height on the route at the height t.
LowestOn(edges, heights, from, to, t) ==
    LET met == Met(HeightsOf(ToSet(RouteAtHeight(edges, heights, from, to, t)), heights))
    IN  IF met = {} THEN Nothing ELSE Min(met)

\* The heights there are, from the top down: the first at which the rooms are joined.
TallestBetween(edges, heights, from, to) ==
    LET joined == HeightsJoined(edges, heights, from, to)
    IN  IF from = to \/ joined = {} THEN Nothing ELSE LowestOn(edges, heights, from, to, Max(joined))

-----------------------------------------------------------------------------

\* The route, and why there is none when it is the size that blocks it.
AnswerTo(ask) ==
    LET edges == EdgesOf(ask.facts)
        searched == Routable(edges, ask.heights, ask.fit)
        walk == Shortest(searched, ask.from, ask.to, ask.metric)
        widest == WidestBetween(edges, ask.from, ask.to)
        tallest == IF ask.fit.height = Nothing THEN Nothing
                   ELSE TallestBetween(edges, ask.heights, ask.from, ask.to)
        components == Components(edges).rank
        blocked == walk = Nothing /\ components[ask.from] = components[ask.to]
    IN  [walk |-> IF walk = Nothing THEN Nothing ELSE [i \in DOMAIN walk |-> searched[walk[i]]],
         cost |-> IF walk = Nothing THEN 0 ELSE Cost(searched, walk, ask.metric),
         widest |-> widest,
         tallest |-> tallest,
         reason |-> IF ~blocked THEN Nothing
                    ELSE {d \in {"width", "height"} :
                             \/ d = "width" /\ ~Passes(widest, ask.fit.width)
                             \/ d = "height" /\ ~Passes(tallest, ask.fit.height)}]

Ask(facts, heights, question) ==
    /\ asked = Nothing
    /\ asked' = [facts |-> facts, heights |-> heights, from |-> question.from, to |-> question.to,
                  metric |-> question.metric, fit |-> question.fit]
    /\ answer' = AnswerTo(asked')

\* The next read begins from nothing.
Forget ==
    /\ asked # Nothing
    /\ asked' = Nothing /\ answer' = Nothing

MapNext ==
    \/ \E facts \in BoundedSeq(Facts, MaxFacts), heights \in Heights, question \in Questions :
          Ask(facts, heights, question)
    \/ Forget

MapSpec == MapInit /\ [][MapNext]_mapVars

-----------------------------------------------------------------------------
(* What an answer means, by the walks there are *)

\* Where the edges, one after the other, lead from a room, if each begins where the last one ended.
End(edges, walk, from) ==
    FoldLeft(LAMBDA at, k : IF at \in Pair(edges[k]) THEN Other(edges[k], at) ELSE Nothing, from, walk)

Leads(edges, walk, from, to) == End(edges, walk, from) = to

Walks(edges, from, to) ==
    {walk \in BoundedSeq(DOMAIN edges, Len(edges)) : Leads(edges, walk, from, to)}

\* There is no way out of some set of rooms that holds the one and not the other.
Joined(edges, from, to) ==
    \A some \in SUBSET Nodes :
        from \in some /\ to \notin some => \E k \in DOMAIN edges : Pair(edges[k]) \cap some \notin {{}, Pair(edges[k])}

\* A route is found when the rooms are joined by what the object fits through, it leads from the
\* one to the other through such edges alone, and none of the walks there are costs less: however
\* doors, zones, links and passages lie side by side.
RouteIsLeast ==
    asked # Nothing =>
        LET routable == Routable(EdgesOf(asked.facts), asked.heights, asked.fit)
            walk == answer.walk
            costs == {Cost(routable, w, asked.metric) : w \in Walks(routable, asked.from, asked.to)}
        IN  IF walk = Nothing THEN costs = {}
            ELSE /\ Leads(walk, [i \in DOMAIN walk |-> i], asked.from, asked.to)
                 /\ ToSet(walk) \subseteq ToSet(routable)
                 /\ answer.cost = Min(costs)

\* Two rooms have one component exactly if they are joined, the components are numbered from the
\* largest down, and the isolated rooms are those no edge leads to: a door to nowhere is none.
ComponentsAreJoined ==
    asked # Nothing =>
        LET edges == EdgesOf(asked.facts)
            components == Components(edges)
        IN  /\ \A m, n \in Nodes : components.rank[m] = components.rank[n] <=> Joined(edges, m, n)
            /\ \A i, j \in DOMAIN components.size : i < j => components.size[i] >= components.size[j]
            /\ IsolatedRooms(edges) = {n \in Nodes : At(edges, n) = <<>>}

\* Whether an object of some size gets from the one room of the question to the other.
Through(fit) == Joined(Routable(EdgesOf(asked.facts), asked.heights, fit), asked.from, asked.to)

\* What limits the width of an object is what does: between two rooms that are joined, it gets
\* through with its width alone exactly if no width limits it or a large enough one does; and a
\* route blocked by its size names the width exactly if no route is wide enough.
WidthLimitsAreTrue ==
    asked # Nothing /\ asked.from # asked.to =>
        LET joined == Joined(EdgesOf(asked.facts), asked.from, asked.to)
            wide == Through([asked.fit EXCEPT !.height = Nothing])
        IN  /\ joined => (wide <=> Passes(answer.widest, asked.fit.width))
            /\ answer.reason # Nothing => ("width" \in answer.reason <=> ~wide)

\* A height that is said to fit does; and one that is said not to does not, where every height on
\* the way is known.
HeightLimitsAreTrue ==
    asked # Nothing /\ asked.from # asked.to =>
        LET edges == EdgesOf(asked.facts)
            tall == Through([asked.fit EXCEPT !.width = Nothing])
            unknown == \/ \E n \in Nodes : asked.heights[n] = Nothing
                       \/ \E k \in DOMAIN edges : edges[k].height = Nothing
        IN  /\ Joined(edges, asked.from, asked.to) /\ Passes(answer.tallest, asked.fit.height) => tall
            /\ ~unknown /\ tall => Passes(answer.tallest, asked.fit.height)

\* Both limits of an answer are what they are said to be.
LimitsAreTrue == WidthLimitsAreTrue /\ HeightLimitsAreTrue
=============================================================================
