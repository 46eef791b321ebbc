---------------------------- MODULE MCNetRouting ----------------------------
(* Networks of four nodes; manual routes between three of them.             *)
EXTENDS NetRouting

Link(i, j)     == [kind |-> "link", from |-> <<i>>, to |-> <<j>>]
WideLink(i, j) == [kind |-> "link", from |-> <<i, i>>, to |-> <<j, j>>]
Bus(S)         == [kind |-> "bus", from |-> SetToSeq(S), to |-> SetToSeq(S)]

Pairs == {p \in Nodes \X Nodes : p[1] # p[2]}
LinkOf(p) == Link(p[1], p[2])
AllPairs == [n \in 1 .. N * N |-> <<((n - 1) \div N) + 1, ((n - 1) % N) + 1>>]
LinksOf(E) == LET s == SelectSeq(AllPairs, LAMBDA p : p \in E) IN [k \in DOMAIN s |-> LinkOf(s[k])]
Both(E) == E \cup {<<p[2], p[1]>> : p \in E}
Up == {p \in Pairs : p[1] < p[2]}

\* Every network of links, and of links in both directions and one bus.
AllNetworks == {LinksOf(E) : E \in SUBSET Pairs}
                 \cup {Append(LinksOf(Both(E)), Bus(S)) :
                          E \in SUBSET Up, S \in {X \in SUBSET Nodes : Cardinality(X) >= 2}}

\* Nodes 1, 2 and 3 in a triangle, with one or two virtual channels.
Triangle     == LinksOf({p \in Pairs : p[1] # 4 /\ p[2] # 4})
WideTriangle == <<WideLink(1, 2), WideLink(2, 3), WideLink(3, 1), Link(2, 1), Link(3, 2)>>
\* A bus between them, and links beside it.
BusAndLinks  == <<Link(1, 2), Bus({1, 2, 3}), WideLink(2, 3)>>
Triangles    == {Triangle, WideTriangle, BusAndLinks}
=============================================================================
