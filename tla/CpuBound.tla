------------------------------- MODULE CpuBound -------------------------------
(***************************************************************************)
(* user/cpu_bound.c: a random graph, and the shortest paths from one of    *)
(* its vertices with Dijkstra's algorithm, with an array in place of a     *)
(* queue.  Vertices are numbered from 0 as in the code.                    *)
(***************************************************************************)
EXTENDS Integers, FiniteSets

CONSTANTS
  vertices,     \* their number
  INF,          \* no edge, no path
  Weights,      \* what custom_rand() gives as the weight of an edge
  edges         \* bound: how many edges are drawn

ASSUME CpuBoundAssumption ==
  /\ vertices \in Nat \ {0} /\ INF \in Nat \ {0}
  /\ Weights \subseteq Nat /\ edges \in Nat

V == 0 .. vertices - 1

VARIABLES
  at,
  graph, drawn,         \* the matrix, and how many edges have been drawn
  src, dist, visited,
  count                 \* the turns of the outer loop of dijkstra()

graphVars == <<at, graph, drawn, src, dist, visited, count>>

GraphInit ==
  /\ at = "draw"
  /\ graph = [u \in V |-> [v \in V |-> IF u = v THEN 0 ELSE INF]] /\ drawn = 0
  /\ src = 0 /\ dist = [v \in V |-> INF] /\ visited = [v \in V |-> FALSE] /\ count = 0

\* An edge of initialize_random_graph(): none from a vertex to itself; a second
\* edge between the same vertices takes the place of the first.
Draw(u, v, weight) ==
  /\ at = "draw" /\ drawn < edges
  /\ graph' = IF u # v THEN [graph EXCEPT ![u][v] = weight] ELSE graph
  /\ drawn' = drawn + 1
  /\ UNCHANGED <<at, src, dist, visited, count>>

\* The call dijkstra(graph, dist, visited, s, vertices).
Dijkstra(s) ==
  /\ at = "draw"
  /\ src' = s
  /\ dist' = [v \in V |-> IF v = s THEN 0 ELSE INF]
  /\ visited' = [v \in V |-> FALSE] /\ count' = 0
  /\ at' = "loop"
  /\ UNCHANGED <<graph, drawn>>

\* min_distance() returns u: of the vertices not visited, the last of the nearest, a
\* vertex without a path (distance INF) included.
MinDistance_First(u) == ~visited[u] /\ \A v \in V : ~visited[v] => u <= v
MinDistance(u) ==
  /\ ~visited[u] /\ dist[u] <= INF
  /\ \A v \in V : ~visited[v] => dist[u] < dist[v] \/ (dist[u] = dist[v] /\ v <= u)

\* The distance of v after the inner loop for u.
Relaxed(u, v) ==
  IF /\ ~visited[v] /\ v # u
     /\ graph[u][v] # INF /\ dist[u] # INF /\ dist[u] + graph[u][v] < dist[v]
  THEN dist[u] + graph[u][v] ELSE dist[v]

\* A turn of the outer loop.
Visit(u) ==
  /\ at = "loop" /\ count < vertices - 1
  /\ MinDistance(u)
  /\ visited' = [visited EXCEPT ![u] = TRUE]
  /\ dist' = [v \in V |-> Relaxed(u, v)]
  /\ count' = count + 1
  /\ UNCHANGED <<at, graph, drawn, src>>

Return ==
  /\ at = "loop" /\ count >= vertices - 1
  /\ at' = "done"
  /\ UNCHANGED <<graph, drawn, src, dist, visited, count>>

\* The next graph.
Again ==
  /\ at = "done"
  /\ at' = "draw" /\ drawn' = 0
  /\ graph' = [u \in V |-> [v \in V |-> IF u = v THEN 0 ELSE INF]]
  /\ src' = 0 /\ dist' = [v \in V |-> INF] /\ visited' = [v \in V |-> FALSE] /\ count' = 0

GraphNext ==
  \/ \E u, v \in V, weight \in Weights : Draw(u, v, weight)
  \/ \E s \in V : Dijkstra(s)
  \/ \E u \in V : Visit(u)
  \/ Return \/ Again

GraphSpec == GraphInit /\ [][GraphNext]_graphVars

-----------------------------------------------------------------------------
(* Properties                                                              *)

GraphTypeOK ==
  /\ at \in {"draw", "loop", "done"}
  /\ graph \in [V -> [V -> Nat]] /\ drawn \in 0 .. edges
  /\ src \in V /\ dist \in [V -> 0 .. INF] /\ visited \in [V -> BOOLEAN]
  /\ count \in 0 .. vertices - 1

\* The vertices at the end of a path of k edges from src, each with the path's length.
Walks ==
  LET walk[k \in 0 .. vertices - 1] ==
        IF k = 0 THEN {<<src, 0>>}
        ELSE {<<e[2], e[1][2] + graph[e[1][1]][e[2]]>> :
                e \in {d \in walk[k - 1] \X V : graph[d[1][1]][d[2]] # INF}}
  IN UNION {walk[k] : k \in 0 .. vertices - 1}

\* The array dist is that of the shortest paths when dijkstra() returns, also where
\* some vertices have no path, distances are equal, or the vertex that the loop
\* leaves out, the last one, has edges.
ShortestPaths ==
  at = "done" =>
    \A v \in V : LET lengths == {t[2] : t \in {s \in Walks : s[1] = v}} IN
      IF lengths = {} THEN dist[v] = INF
      ELSE dist[v] \in lengths /\ \A n \in lengths : dist[v] <= n

\* An edge never leads to a shorter path than the one found, and each path found is
\* one: of its vertices each but the first has one before it that explains its distance.
NoShortcut(U) ==
  \A u \in U, v \in V :
    graph[u][v] # INF /\ dist[u] # INF => dist[v] <= dist[u] + graph[u][v]
Explained(U) ==
  \A v \in V \ {src} : dist[v] # INF =>
    \E u \in U : /\ u # v /\ graph[u][v] # INF /\ dist[u] # INF
                 /\ dist[v] = dist[u] + graph[u][v]

\* This is what makes an array of distances that of the shortest paths: by induction
\* over the edges of a path its length is at least the distance of its end.
Certificate == at = "done" => dist[src] = 0 /\ NoShortcut(V) /\ Explained(V)

\* The inductive invariant.
Seen == {v \in V : visited[v]}
LoopInv ==
  at \in {"loop", "done"} =>
    /\ dist[src] = 0 /\ NoShortcut(Seen) /\ Explained(Seen)
    /\ \A u \in Seen, v \in V \ Seen : dist[u] <= dist[v]
    /\ Cardinality(Seen) = count
EndInv == at = "done" => count = vertices - 1
GraphInv == GraphTypeOK /\ LoopInv /\ EndInv
===============================================================================
