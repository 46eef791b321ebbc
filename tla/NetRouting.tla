----------------------------- MODULE NetRouting -----------------------------
(***************************************************************************)
(* network/RoutingTable.cc: the table that ParseConfiguration fills, either *)
(* by itself (FloydWarshall) or from the route steps of the configuration   *)
(* (UpdateRoute), and the search for cycles that may block the network.     *)
(*                                                                          *)
(* A network is a sequence of connections with the nodes of their source    *)
(* and destination buffers.  A link has one pair of buffers per virtual     *)
(* channel, a bus one pair per port.  The output buffers of a node are in   *)
(* the order in which the configuration adds them.                          *)
(***************************************************************************)
EXTENDS Integers, Sequences, FiniteSets, SequencesExt

CONSTANTS N,            \* dimension
          Networks,     \* networks without a section Routes
          ManualNetworks, \* networks with one
          EndNodes,     \* the nodes a manual route may lead to
          Channels,     \* virtual channels a route step may name
          Null

Nodes == 1 .. N
Connections == [kind : {"link", "bus"}, from : Seq(Nodes), to : Seq(Nodes)]

\* A link has the buffers of its virtual channels on one source node.
ASSUME DimensionAssumption == N \in Nat \ {0} /\ Null \notin Nodes /\ Channels \subseteq Nat
ASSUME NetworkAssumption   == Networks \cup ManualNetworks \subseteq Seq(Connections)
ASSUME LinksAssumption     == \A n \in ManualNetworks : \A c \in DOMAIN n : n[c].kind = "link" =>
                                 \A x, y \in DOMAIN n[c].from : n[c].from[x] = n[c].from[y]

VARIABLES net, table,
          phase,        \* how far ParseConfiguration has got
          manual,       \* there is a section Routes
          graph,        \* outgoing vertices of each vertex
          pair          \* turns of the loop that is running

vars == <<net, table, phase, manual, graph, pair>>

OutputBuffer(c, s) == [dir |-> "out", conn |-> c, index |-> s]
InputBuffer(c, t)  == [dir |-> "in", conn |-> c, index |-> t]
Before(a, b) == a.conn < b.conn \/ (a.conn = b.conn /\ a.index < b.index)

OutputBuffers(i) == UNION {{OutputBuffer(c, s) : s \in {x \in DOMAIN net[c].from : net[c].from[x] = i}}
                              : c \in DOMAIN net}
Reaches(b, j) == \E t \in DOMAIN net[b.conn].to : net[b.conn].to[t] = j
Leading(i, j) == {b \in OutputBuffers(i) : Reaches(b, j)}
FirstBuffer(S) == CHOOSE b \in S : \A x \in S \ {b} : Before(b, x)
LastBuffer(S)  == CHOOSE b \in S : \A x \in S \ {b} : Before(x, b)

Ordered(S) == [n \in 1 .. Cardinality(S) |->
                  CHOOSE b \in S : Cardinality({x \in S : Before(x, b)}) = n - 1]

Entry(cost, next, buffer) == [cost |-> cost, next |-> next, buffer |-> buffer]

\* Mutant of InitialTable: an infinite cost beyond that of any path.
InitialTableInfinite ==
    [i \in Nodes |-> [j \in Nodes |->
        IF i # j /\ Leading(i, j) # {} THEN Entry(1, j, LastBuffer(Leading(i, j)))
        ELSE Entry(IF i = j THEN 0 ELSE 2147483647, Null, Null)]]

\* RoutingTable::Initialize: the connections of a node, the last one wins.
InitialTable ==
    [i \in Nodes |-> [j \in Nodes |->
        IF i # j /\ Leading(i, j) # {} THEN Entry(1, j, LastBuffer(Leading(i, j)))
        ELSE Entry(IF i = j THEN 0 ELSE N, Null, Null)]]

\* One turn of the loop over k in FloydWarshall.  The turn leaves row and column k
\* as they are, so that the order of the loops over i and j makes no difference.
Relaxed(k) ==
    [i \in Nodes |-> [j \in Nodes |->
        LET cost == table[i][k].cost + table[k][j].cost
        IN  IF table[i][j].cost > cost THEN Entry(cost, k, table[i][j].buffer) ELSE table[i][j]]]

\* Following the buffers: from an intermediate node back to a neighbour of i.
FirstHop(i, j) ==
    LET F[n \in 0 .. N] == IF n = 0 THEN table[i][j].next
                           ELSE LET x == F[n - 1]
                                IN  IF table[i][x].cost <= 1 THEN x ELSE table[i][x].next
    IN  F[N]

\* Mutant of Resolved: the next node is not followed back to a neighbour.
ResolvedAtOnce ==
    [i \in Nodes |-> [j \in Nodes |->
        IF table[i][j].next = Null THEN [table[i][j] EXCEPT !.buffer = Null]
        ELSE Entry(table[i][j].cost, table[i][j].next,
                   IF Leading(i, table[i][j].next) = {} THEN table[i][j].buffer
                   ELSE FirstBuffer(Leading(i, table[i][j].next)))]]

\* The output buffers of the entries.
Resolved ==
    [i \in Nodes |-> [j \in Nodes |->
        IF table[i][j].next = Null THEN [table[i][j] EXCEPT !.buffer = Null]
        ELSE Entry(table[i][j].cost, FirstHop(i, j), FirstBuffer(Leading(i, FirstHop(i, j))))]]

-----------------------------------------------------------------------------
\* RoutingTable::UpdateRoute.  The first output buffer of the source whose
\* connection leads to the next node decides; an Error ends the parsing.
Deciding(s, next, vc) ==
    {b \in OutputBuffers(s) :
        \/ Reaches(b, next)
        \/ net[b.conn].kind = "bus" /\ vc # 0}
\* Mutant of ChannelBuffer: the destination list instead of the source list.
ChannelBufferOfOther(c, vc) == InputBuffer(c, vc + 1)

\* The virtual channel is an offset in the link's source list.
ChannelBuffer(c, vc) == OutputBuffer(c, vc + 1)

UpdateRoute(s, d, next, vc) ==
    IF Deciding(s, next, vc) = {} THEN Null
    ELSE LET b == FirstBuffer(Deciding(s, next, vc))
         IN  IF net[b.conn].kind = "link"
             THEN IF vc >= Len(net[b.conn].from) THEN Null ELSE ChannelBuffer(b.conn, vc)
             ELSE IF vc # 0 THEN Null
             ELSE InputBuffer(b.conn, CHOOSE x \in DOMAIN net[b.conn].to :
                                  /\ net[b.conn].to[x] = next
                                  /\ \A y \in 1 .. x - 1 : net[b.conn].to[y] # next)

\* UpdateManualRoutingCost: the nodes visited on the way from i to j.  The walk
\* is deterministic, so one that is longer than the table never ends.
Walk(t, i, j) ==
    LET W[n \in 0 .. N + 1] ==
            IF n = 0 THEN <<t[i][j].next>>
            ELSE LET w == W[n - 1]
                     x == w[Len(w)]
                 IN  IF x = j \/ t[x][j].next = Null THEN w ELSE Append(w, t[x][j].next)
    IN  W[N + 1]
Ends(t, i, j) == Len(Walk(t, i, j)) <= N

\* The cost of the n-th entry, from the costs as they are then.
UpdateCost(t, n) ==
    LET i == (n \div N) + 1  j == (n % N) + 1
    IN  IF t[i][j].next = Null THEN t
        ELSE LET w == Walk(t, i, j)
                 first == t[i][w[1]].cost
                 t1 == [t EXCEPT ![i][j].cost = first]
                 sum[k \in 0 .. Len(w) - 1] == IF k = 0 THEN first
                                               ELSE sum[k - 1] + t1[w[k]][w[k + 1]].cost
             IN  [t1 EXCEPT ![i][j].cost = sum[Len(w) - 1]]
CostedTable(t) ==
    LET after[n \in 0 .. N * N] == IF n = 0 THEN t ELSE UpdateCost(after[n - 1], n - 1)
    IN  after[N * N]

-----------------------------------------------------------------------------
\* RoutingTable::hasCycle: which buffer may wait for which.
Used == {b \in UNION {OutputBuffers(i) : i \in Nodes} :
             \E j \in Nodes : table[net[b.conn].from[b.index]][j].buffer = b}
Waits == {<<table[p[1]][p[2]].buffer, table[table[p[1]][p[2]].next][p[2]].buffer>> :
             p \in {q \in Nodes \X Nodes :
                       /\ q[1] # q[2]
                       /\ table[q[1]][q[2]].buffer # Null
                       /\ table[table[q[1]][q[2]].next][q[2]].buffer # Null}}

\* The vertices that outgoing edges lead to.  Their order changes nothing in
\* the result.
Outgoing(v) == Ordered({e[2] : e \in {x \in Waits : x[1] = v}})

\* Mutant of Leave: the vertex stays in the stacked list.
LeaveStacked(r, v) == r

\* The end of a traversal.
Leave(r, v) == [r EXCEPT !.stacked = @ \ {v}]

\* Graph::CycleDetectionDepthFirstTraverse
Searches == [visited : SUBSET DOMAIN graph, stacked : SUBSET DOMAIN graph, found : BOOLEAN]
Traverse[r \in Searches, v \in DOMAIN graph] ==
    IF v \in r.visited THEN Leave(r, v)
    ELSE LET entered == [r EXCEPT !.visited = @ \cup {v}, !.stacked = @ \cup {v}]
             Visit(x, w) ==
                 IF x.found THEN x
                 ELSE LET y == IF w \in x.visited THEN x ELSE Traverse[x, w]
                      IN  [y EXCEPT !.found = @ \/ w \in y.stacked]
             after == FoldLeft(Visit, entered, graph[v])
         IN  IF after.found THEN after ELSE Leave(after, v)

\* Graph::hasCycle
hasCycle ==
    LET Search(r, v) == IF r.found THEN r ELSE Traverse[r, v]
    IN  FoldLeft(Search, [visited |-> {}, stacked |-> {}, found |-> FALSE], Ordered(DOMAIN graph)).found

-----------------------------------------------------------------------------
(* Network::ParseConfiguration                                             *)

Init ==
    /\ \/ manual = FALSE /\ net \in Networks
       \/ manual = TRUE /\ net \in ManualNetworks
    /\ table = <<>> /\ graph = <<>> /\ phase = "parsed" /\ pair = 0

Initialize ==
    /\ phase = "parsed"
    /\ table' = InitialTable
    /\ phase' = "initialized"
    /\ UNCHANGED <<net, manual, graph, pair>>

\* Mutant of FloydWarshall: the last intermediate node is left out.
FloydWarshallShort ==
    /\ phase = "initialized" /\ ~manual
    /\ IF pair < N - 1 THEN /\ table' = Relaxed(pair + 1)
                          /\ pair' = pair + 1 /\ UNCHANGED phase
                     ELSE /\ table' = Resolved
                          /\ phase' = "routed" /\ UNCHANGED pair
    /\ UNCHANGED <<net, manual, graph>>

FloydWarshall ==
    /\ phase = "initialized" /\ ~manual
    /\ IF pair < N THEN /\ table' = Relaxed(pair + 1)
                      /\ pair' = pair + 1 /\ UNCHANGED phase
                 ELSE /\ table' = Resolved
                      /\ phase' = "routed" /\ UNCHANGED pair
    /\ UNCHANGED <<net, manual, graph>>

\* One turn of the loops over sources and destinations: there is a step for the
\* pair, or none.
RouteStep ==
    /\ phase = "initialized" /\ manual /\ pair < N * N
    /\ pair' = pair + 1
    /\ LET s == (pair \div N) + 1  d == (pair % N) + 1
       IN  \/ UNCHANGED <<table, phase>>
           \/ /\ d \in EndNodes
              /\ \E next \in Nodes, vc \in Channels :
                   LET b == IF s = d THEN Null ELSE UpdateRoute(s, d, next, vc)
                   IN  IF b = Null THEN phase' = "error" /\ UNCHANGED table
                       ELSE /\ table' = [table EXCEPT ![s][d].next = next, ![s][d].buffer = b]
                            /\ UNCHANGED phase
    /\ UNCHANGED <<net, manual, graph>>

UpdateManualRoutingCost ==
    /\ phase = "initialized" /\ manual /\ pair = N * N
    /\ IF \A i, j \in Nodes : table[i][j].next # Null => Ends(table, i, j)
       THEN table' = CostedTable(table) /\ phase' = "routed"
       ELSE phase' = "endless" /\ UNCHANGED table
    /\ UNCHANGED <<net, manual, graph, pair>>

\* RoutingTable::hasCycle makes the graph, with its assertions.
MakeGraph ==
    /\ phase = "routed"
    /\ IF \E e \in Waits : e[1] \notin Used \/ e[2] \notin Used
       THEN phase' = "assertion" /\ UNCHANGED graph
       ELSE graph' = [v \in Used |-> Outgoing(v)] /\ phase' = "searching"
    /\ UNCHANGED <<net, table, manual, pair>>

CheckCycles ==
    /\ phase = "searching"
    /\ phase' = IF hasCycle THEN "warned" ELSE "ok"
    /\ UNCHANGED <<net, table, manual, graph, pair>>

Next == Initialize \/ FloydWarshall \/ RouteStep \/ UpdateManualRoutingCost
            \/ MakeGraph \/ CheckCycles
Spec == Init /\ [][Next]_vars

-----------------------------------------------------------------------------
\* Type invariant of the table.
TypeOK ==
    /\ phase \in {"parsed", "initialized", "routed", "searching", "ok", "warned", "error", "endless", "assertion"}
    /\ phase # "parsed" => \A i, j \in Nodes : /\ table[i][j].cost \in Nat
                                               /\ ~manual => table[i][j].cost <= N
                                               /\ table[i][j].next \in Nodes \cup {Null}

Done == phase \in {"ok", "warned"}

\* Reference: the nodes reached in at most n hops.
Within(i, n) ==
    LET W[k \in 0 .. n] ==
            IF k = 0 THEN {i}
            ELSE LET S == W[k - 1] IN S \cup {j \in Nodes : \E x \in S : Leading(x, j) # {}}
    IN  W[n]

\* FloydWarshall finds the number of hops of a shortest path, with a route wherever
\* there is a path, and no path where there is none.
RoutesAreShortest ==
    Done /\ ~manual =>
        \A i, j \in Nodes :
            LET c == table[i][j].cost
            IN  IF j \in Within(i, N)
                THEN /\ j \in Within(i, c) /\ (c > 0 => j \notin Within(i, c - 1))
                     /\ i # j => table[i][j].next # Null
                ELSE c = N /\ table[i][j].buffer = Null

\* A packet that every node sends on through the buffer of its table arrives at
\* its destination, one hop cheaper each time: routing never sends it round.
RoutesArrive ==
    Done /\ ~manual =>
        \A i, j \in Nodes : table[i][j].next # Null =>
            /\ table[i][j].buffer \in Leading(i, table[i][j].next)
            /\ table[table[i][j].next][j].cost = table[i][j].cost - 1

\* Reference: the buffers that are left when those that wait for none of the
\* others are taken away again and again.
Ring ==
    LET R[n \in 0 .. Cardinality(Used)] ==
            IF n = 0 THEN Used
            ELSE LET S == R[n - 1] IN {v \in S : \E w \in S : Contains(graph[v], w)}
    IN  R[Cardinality(Used)]

Routed == phase \in {"routed", "searching", "ok", "warned", "assertion"}

\* The buffer of every entry is an "Output buffer" (RoutingTable.h:49) of its node.  Not so
\* where a route step goes over a bus.
EntriesNameOutputBuffers ==
    Routed => \A i, j \in Nodes : table[i][j].buffer # Null => table[i][j].buffer \in OutputBuffers(i)

\* The warning is given exactly when some buffers may wait for each other in a ring; and
\* hasCycle finds a vertex for every buffer (the assertions at RoutingTable.cc:298 and :306)
\* as long as the entries name output buffers.
WarnsOfCycles ==
    /\ Done => (phase = "warned" <=> Ring # {})
    /\ EntriesNameOutputBuffers => phase # "assertion"

\* The buffers in which a bus delivers what node i sends to node j.
BusInputs(i, j) ==
    UNION {{InputBuffer(c, x) : x \in {y \in DOMAIN net[c].to : net[c].to[y] = j}} :
              c \in {z \in DOMAIN net : /\ net[z].kind = "bus"
                                       /\ \E s \in DOMAIN net[z].from : net[z].from[s] = i}}

\* Whatever virtual channels and detours the route steps name, the buffer of an entry leads
\* from the node to the next node of the entry: it is one of the node's own output buffers
\* on a connection to that node or, on a bus, the buffer the bus delivers to.
EntriesLeadOn ==
    Routed => \A i, j \in Nodes :
        table[i][j].buffer # Null =>
            table[i][j].buffer \in Leading(i, table[i][j].next) \cup BusInputs(i, table[i][j].next)

\* Any route that RoutingTable.cc stores leads on: each entry to its next node, and those
\* that it computed to the destination.
RoutesAreUsable == TypeOK /\ RoutesArrive /\ EntriesLeadOn
=============================================================================
