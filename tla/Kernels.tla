------------------------------- MODULE Kernels -------------------------------
(***************************************************************************)
(* The discrete benchmark kernels: the shortest paths of dijkstras.cpp and *)
(* odijks.cpp, the spanning tree of prims.cpp and oprims.cpp, and the      *)
(* oblivious binary search.  A graph is the sequence of the triples        *)
(* <<u, v, weight>> given to addEdge, on the vertices 0 .. V-1.            *)
(***************************************************************************)
EXTENDS Integers, Sequences, SequencesExt

INT_MAX == 2147483647

\* addEdge: the adjacency list of u, in the order of the calls.
Adjacency(edges, u) ==
    LET Ends(e) == (IF e[1] = u THEN <<<<e[2], e[3]>>>> ELSE <<>>)
                       \o (IF e[2] = u THEN <<<<e[1], e[3]>>>> ELSE <<>>)
    IN  FoldLeft(LAMBDA list, e : list \o Ends(e), <<>>, edges)

\* The top of a priority queue of pairs under greater: the least pair.  A pair is
\* pushed only when the first component has become smaller, so never twice.
Top(pq) == CHOOSE p \in pq : \A q \in pq \ {p} : p[1] < q[1] \/ (p[1] = q[1] /\ p[2] < q[2])

\* Mutant: an edge is followed only to vertices not reached before.
RelaxedOnce(s, p, edge) ==
    LET q == edge[1]
        length == s.dist[p] + edge[2]
    IN  IF s.dist[q] = INT_MAX
        THEN [dist |-> [s.dist EXCEPT ![q] = length], pq |-> s.pq \cup {<<length, q>>}]
        ELSE s

\* The body of the loop over the edges of p in findPath.
Relaxed(s, p, edge) ==
    LET q == edge[1]
        length == s.dist[p] + edge[2]
    IN  IF s.dist[q] > length
        THEN [dist |-> [s.dist EXCEPT ![q] = length], pq |-> s.pq \cup {<<length, q>>}]
        ELSE s

\* Graph::findPath: the distances from u.
findPath(V, edges, u) ==
    LET RECURSIVE Search(_)
        Search(s) ==
            IF s.pq = {} THEN s.dist
            ELSE LET p == Top(s.pq)[2]
                     popped == [s EXCEPT !.pq = @ \ {Top(s.pq)}]
                 IN  Search(FoldLeft(LAMBDA t, edge : Relaxed(t, p, edge), popped,
                                     Adjacency(edges, p)))
    IN  Search([dist |-> [v \in 0 .. V - 1 |-> IF v = u THEN 0 ELSE INT_MAX],
                pq |-> {<<0, u>>}])

\* Mutant: a vertex is attached to the tree again.
AttachedAgain(s, u, edge) ==
    LET v == edge[1]
    IN  IF s.key[v] > edge[2]
        THEN [s EXCEPT !.key[v] = edge[2], !.pq = @ \cup {<<edge[2], v>>}, !.parent[v] = u]
        ELSE s

\* The body of the loop over the edges of u in primMST.
Attached(s, u, edge) ==
    LET v == edge[1]
    IN  IF ~s.inMST[v] /\ s.key[v] > edge[2]
        THEN [s EXCEPT !.key[v] = edge[2], !.pq = @ \cup {<<edge[2], v>>}, !.parent[v] = u]
        ELSE s

\* Graph::primMST: the parent of each vertex in the tree grown from vertex 0.
primMST(V, edges) ==
    LET RECURSIVE Grow(_)
        Grow(s) ==
            IF s.pq = {} THEN s.parent
            ELSE LET u == Top(s.pq)[2]
                     popped == [s EXCEPT !.pq = @ \ {Top(s.pq)}, !.inMST[u] = TRUE]
                 IN  Grow(FoldLeft(LAMBDA t, edge : Attached(t, u, edge), popped,
                                   Adjacency(edges, u)))
        vertices == 0 .. V - 1
    IN  Grow([key |-> [v \in vertices |-> IF v = 0 THEN 0 ELSE INT_MAX],
              parent |-> [v \in vertices |-> -1],
              inMST |-> [v \in vertices |-> FALSE],
              pq |-> {<<0, 0>>}])

\* C division: towards zero.
Half(x) == IF x >= 0 THEN x \div 2 ELSE -((-x) \div 2)

\* Mutant: the right half starts at the middle itself.
NarrowedSlowly(s, search) ==
    LET m == s.l + Half(s.r - s.l)
    IN  [l |-> IF m < search THEN m ELSE s.l, r |-> IF m > search THEN m - 1 ELSE s.r,
         m |-> m]

\* One turn of the loop of obinary_search; block m of the ORAM holds m.
Narrowed(s, search) ==
    LET m == s.l + Half(s.r - s.l)
    IN  [l |-> IF m < search THEN m + 1 ELSE s.l, r |-> IF m > search THEN m - 1 ELSE s.r,
         m |-> m]

\* obinary_search: the state after each of the turns, whose number does not depend
\* on the value that is sought.
obinary_search(last, turns, search) ==
    LET after[n \in 0 .. turns] ==
            IF n = 0 THEN [l |-> 0, r |-> last, m |-> 0] ELSE Narrowed(after[n - 1], search)
    IN  [n \in 1 .. turns |-> after[n]]
=============================================================================
