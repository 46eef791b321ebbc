-------------------------- MODULE NetRouting_proofs --------------------------
(***************************************************************************)
(* Proofs about the routing tables of a network: FloydWarshall finds the   *)
(* lengths of shortest paths, a packet that follows the table comes one    *)
(* hop closer with every step, and an entry names an output buffer.        *)
(***************************************************************************)
EXTENDS NetRouting, FiniteSetTheorems, LoopLemmas

---------------------------------------------------------------------------
(* The reference: nodes reached in at most n hops. *)

Onward(S) == S \cup {j \in Nodes : \E x \in S : Leading(x, j) # {}}

Hops(f, i, n) == f = [k \in 0 .. n |-> IF k = 0 THEN {i} ELSE Onward(f[k - 1])]

LEMMA WithinRuns ==
    ASSUME NEW i \in Nodes, NEW n \in Nat
    PROVE  \E f : /\ f \in [0 .. n -> SUBSET Nodes] /\ Within(i, n) = f[n]
                  /\ f[0] = {i} /\ \A k \in 1 .. n : f[k] = Onward(f[k - 1])
<1> DEFINE step == [k \in 1 .. n |-> [S \in SUBSET Nodes |-> Onward(S)]]
<1>1. \A S \in SUBSET Nodes : Onward(S) \in SUBSET Nodes
  BY DEF Onward
<1>2. step \in [1 .. n -> [SUBSET Nodes -> SUBSET Nodes]]
  BY <1>1
<1>3. \A k \in 1 .. n, S \in SUBSET Nodes : step[k][S] = Onward(S)
  OBVIOUS
<1> HIDE DEF step
<1>4. PICK f : Loops(f, n, SUBSET Nodes, {i}, step)
  <2>1. {i} \in SUBSET Nodes
    OBVIOUS
  <2> QED
    BY <1>2, <2>1, LoopRuns
<1>5. /\ f \in [0 .. n -> SUBSET Nodes] /\ f[0] = {i}
      /\ \A k \in 1 .. n : f[k] = step[k][f[k - 1]]
  BY <1>4 DEF Loops
<1>6. ASSUME NEW k \in 1 .. n PROVE f[k] = Onward(f[k - 1])
  <2>1. k - 1 \in 0 .. n
    OBVIOUS
  <2>2. f[k - 1] \in SUBSET Nodes
    BY <1>5, <2>1
  <2> QED
    BY <1>3, <1>5, <2>2
<1>7. Hops(f, i, n)
  <2>1. ASSUME NEW k \in 0 .. n PROVE f[k] = IF k = 0 THEN {i} ELSE Onward(f[k - 1])
    <3>1. k = 0 \/ k \in 1 .. n
      OBVIOUS
    <3> QED
      BY <1>5, <1>6, <3>1
  <2>2. f = [k \in 0 .. n |-> f[k]]
    BY <1>5
  <2> QED
    BY <2>1, <2>2 DEF Hops
<1> DEFINE g == CHOOSE h : Hops(h, i, n)
<1>8. Hops(g, i, n)
  BY <1>7
<1>9. Within(i, n) = g[n]
  BY DEF Within, Hops, Onward
<1> HIDE DEF g
<1>10. DOMAIN g = 0 .. n /\ \A k \in 0 .. n : g[k] = IF k = 0 THEN {i} ELSE Onward(g[k - 1])
  BY <1>8 DEF Hops
<1>11. g[0] = {i} /\ \A k \in 1 .. n : g[k] = Onward(g[k - 1])
  <2>1. 0 \in 0 .. n /\ \A k \in 1 .. n : k \in 0 .. n /\ k # 0
    OBVIOUS
  <2> QED
    BY <1>10, <2>1
<1> DEFINE B == {k \in 0 .. n : g[k] \in SUBSET Nodes}
<1>12. 0 \in B /\ \A k \in 1 .. n : k - 1 \in B => k \in B
  BY <1>1, <1>11
<1> HIDE DEF B
<1>13. \A k \in 0 .. n : k \in B
  BY <1>12, UpTo
<1>14. g \in [0 .. n -> SUBSET Nodes]
  <2>1. g = [k \in 0 .. n |-> g[k]]
    BY <1>8 DEF Hops
  <2> QED
    BY <1>13, <2>1 DEF B
<1> QED
  BY <1>9, <1>11, <1>14

\* Within, hop by hop.
LEMMA WithinSteps ==
    ASSUME NEW i \in Nodes
    PROVE  /\ Within(i, 0) = {i}
           /\ \A n \in Nat : Within(i, n) \in SUBSET Nodes /\ Within(i, n + 1) = Onward(Within(i, n))
<1>1. Within(i, 0) = {i}
  <2>1. 0 \in Nat
    OBVIOUS
  <2> QED
    BY <2>1, WithinRuns
<1>2. ASSUME NEW n \in Nat PROVE Within(i, n) \in SUBSET Nodes /\ Within(i, n + 1) = Onward(Within(i, n))
  <2>1. PICK f : /\ f \in [0 .. n -> SUBSET Nodes] /\ Within(i, n) = f[n]
                 /\ f[0] = {i} /\ \A k \in 1 .. n : f[k] = Onward(f[k - 1])
    BY WithinRuns
  <2>2. n + 1 \in Nat
    OBVIOUS
  <2>3. PICK g : /\ g \in [0 .. n + 1 -> SUBSET Nodes] /\ Within(i, n + 1) = g[n + 1]
                 /\ g[0] = {i} /\ \A k \in 1 .. n + 1 : g[k] = Onward(g[k - 1])
    BY <2>2, WithinRuns
  <2> DEFINE B == {k \in 0 .. n : f[k] = g[k]}
  <2>4. 0 \in B /\ \A k \in 1 .. n : k - 1 \in B => k \in B
    <3>1. 0 \in 0 .. n /\ \A k \in 1 .. n : k \in 0 .. n /\ k \in 1 .. n + 1
      OBVIOUS
    <3> QED
      BY <2>1, <2>3, <3>1
  <2> HIDE DEF B
  <2>5. n \in B
    <3>1. n \in 0 .. n
      OBVIOUS
    <3> QED
      BY <2>4, <3>1, UpTo
  <2>6. f[n] = g[n]
    BY <2>5 DEF B
  <2>7. n \in 0 .. n /\ n + 1 \in 1 .. n + 1 /\ n + 1 - 1 = n
    OBVIOUS
  <2> QED
    BY <2>1, <2>3, <2>6, <2>7
<1> QED
  BY <1>1, <1>2

\* More hops reach no less.
LEMMA WithinGrows ==
    ASSUME NEW i \in Nodes, NEW n \in Nat, NEW m \in Nat, n <= m
    PROVE  Within(i, n) \subseteq Within(i, m)
<1> DEFINE B == {k \in Nat : Within(i, n) \subseteq Within(i, n + k)}
           d == m - n
<1>1. \A k \in Nat : Within(i, n + k) \subseteq Within(i, n + k + 1)
  BY WithinSteps DEF Onward
<1>2. 0 \in B
  OBVIOUS
<1>3. \A k \in 1 .. d : k - 1 \in B => k \in B
  <2> SUFFICES ASSUME NEW k \in 1 .. d, k - 1 \in B PROVE k \in B
    OBVIOUS
  <2>1. k - 1 \in Nat /\ n + (k - 1) + 1 = n + k /\ k \in Nat
    OBVIOUS
  <2> QED
    BY <1>1, <2>1
<1>4. d \in Nat /\ d \in 0 .. d /\ n + d = m
  OBVIOUS
<1> HIDE DEF B, d
<1>5. d \in B
  BY <1>2, <1>3, <1>4, UpTo
<1> QED
  BY <1>4, <1>5 DEF B

\* A path of b hops after one of a.
LEMMA WithinAfter ==
    ASSUME NEW i \in Nodes, NEW k \in Nodes, NEW j \in Nodes, NEW a \in Nat, NEW b \in Nat,
           k \in Within(i, a), j \in Within(k, b)
    PROVE  j \in Within(i, a + b)
<1> DEFINE B == {n \in Nat : Within(k, n) \subseteq Within(i, a + n)}
<1>1. 0 \in B
  BY WithinSteps
<1>2. \A n \in 1 .. b : n - 1 \in B => n \in B
  <2> SUFFICES ASSUME NEW n \in 1 .. b, n - 1 \in B PROVE n \in B
    OBVIOUS
  <2>1. n - 1 \in Nat /\ (n - 1) + 1 = n /\ a + (n - 1) \in Nat /\ a + (n - 1) + 1 = a + n /\ n \in Nat
    OBVIOUS
  <2>2. Within(k, n) = Onward(Within(k, n - 1)) /\ Within(i, a + n) = Onward(Within(i, a + (n - 1)))
    BY <2>1, WithinSteps
  <2>3. Within(k, n - 1) \subseteq Within(i, a + (n - 1))
    OBVIOUS
  <2>4. Within(k, n) \subseteq Within(i, a + n)
    BY <2>2, <2>3 DEF Onward
  <2> QED
    BY <2>1, <2>4
<1>3. b \in 0 .. b
  OBVIOUS
<1> HIDE DEF B
<1>4. b \in B
  BY <1>1, <1>2, <1>3, UpTo
<1> QED
  BY <1>4 DEF B

\* Where one hop more reaches nothing new, no further hop does.
LEMMA WithinStops ==
    ASSUME NEW i \in Nodes, NEW n \in Nat, Within(i, n + 1) = Within(i, n), NEW m \in Nat, n <= m
    PROVE  Within(i, m) = Within(i, n)
<1> DEFINE B == {k \in Nat : Within(i, n + k) = Within(i, n)}
           d == m - n
<1>1. 0 \in B
  OBVIOUS
<1>2. ASSUME NEW k \in 1 .. d, k - 1 \in B PROVE k \in B
  <2>1. n + (k - 1) \in Nat /\ n + (k - 1) + 1 = n + k /\ k \in Nat
    OBVIOUS
  <2>2. Within(i, n + k) = Onward(Within(i, n + (k - 1)))
    BY <2>1, WithinSteps
  <2>3. Within(i, n + (k - 1)) = Within(i, n) /\ Within(i, n + 1) = Onward(Within(i, n))
    BY <1>2, WithinSteps
  <2> QED
    BY <2>1, <2>2, <2>3
<1>3. d \in Nat /\ d \in 0 .. d /\ n + d = m
  OBVIOUS
<1> HIDE DEF B, d
<1>4. d \in B
  BY <1>1, <1>2, <1>3, UpTo
<1> QED
  BY <1>3, <1>4 DEF B

\* The farthest node is N - 1 hops away: until the hops reach nothing new, each adds a node.
LEMMA FarthestNode ==
    ASSUME NEW i \in Nodes, NEW j \in Within(i, N)
    PROVE  j \in Within(i, N - 1)
<1>0. N \in Nat /\ N - 1 \in Nat /\ N - 1 <= N /\ N \in 0 .. N
  BY DimensionAssumption
<1> SUFFICES ASSUME j \notin Within(i, N - 1) PROVE FALSE
  OBVIOUS
<1>1. IsFiniteSet(Nodes) /\ Cardinality(Nodes) = N
  BY <1>0, FS_Interval DEF Nodes
<1>2. ASSUME NEW n \in Nat
      PROVE  /\ Within(i, n) \in SUBSET Nodes /\ IsFiniteSet(Within(i, n))
             /\ Cardinality(Within(i, n)) \in Nat /\ Cardinality(Within(i, n)) <= N
  <2>1. Within(i, n) \in SUBSET Nodes
    BY WithinSteps
  <2>2. IsFiniteSet(Within(i, n)) /\ Cardinality(Within(i, n)) <= N
    BY <1>1, <2>1, FS_Subset
  <2> QED
    BY <2>1, <2>2, FS_CardinalityType
<1> DEFINE B == {n \in 0 .. N : Cardinality(Within(i, n)) >= n + 1}
<1>3. 0 \in B
  <2>1. Cardinality(Within(i, 0)) = 1
    BY WithinSteps, FS_Singleton
  <2> QED
    BY <1>0, <2>1
<1>4. ASSUME NEW n \in 1 .. N, n - 1 \in B PROVE n \in B
  <2>1. n \in Nat /\ n - 1 \in Nat /\ n - 1 + 1 = n /\ n - 1 <= n /\ n - 1 <= N - 1 /\ n - 1 <= N
    BY <1>0
  <2>2. Within(i, n - 1) \in SUBSET Within(i, n)
    BY <2>1, WithinGrows
  <2>3. Within(i, n) # Within(i, n - 1)
    <3> SUFFICES ASSUME Within(i, n) = Within(i, n - 1) PROVE FALSE
      OBVIOUS
    <3>1. Within(i, n - 1 + 1) = Within(i, n - 1)
      BY <2>1
    <3>2. Within(i, N) = Within(i, n - 1)
      BY <1>0, <2>1, <3>1, WithinStops
    <3>3. Within(i, N - 1) = Within(i, n - 1)
      BY <1>0, <2>1, <3>1, WithinStops
    <3> QED
      BY <3>2, <3>3
  <2>4. /\ Cardinality(Within(i, n)) \in Nat /\ Cardinality(Within(i, n - 1)) \in Nat
        /\ IsFiniteSet(Within(i, n))
    BY <1>2, <2>1
  <2>5. /\ Cardinality(Within(i, n - 1)) <= Cardinality(Within(i, n))
        /\ Cardinality(Within(i, n)) # Cardinality(Within(i, n - 1))
    BY <2>2, <2>3, <2>4, FS_Subset
  <2>6. Cardinality(Within(i, n - 1)) >= n - 1 + 1
    BY <1>4
  <2>7. Cardinality(Within(i, n)) >= n + 1
    BY <2>1, <2>4, <2>5, <2>6
  <2> QED
    BY <2>7
<1> HIDE DEF B
<1>5. N \in B
  BY <1>0, <1>3, <1>4, UpTo
<1>6. Cardinality(Within(i, N)) >= N + 1
  BY <1>5 DEF B
<1> QED
  BY <1>0, <1>2, <1>6

---------------------------------------------------------------------------
(* Floyd and Warshall. *)

Buffers == {Null} \cup [dir : {"in", "out"}, conn : Nat, index : Nat]
Entries == [cost : Nat, next : Nodes \cup {Null}, buffer : Buffers]
Tables  == [Nodes -> [Nodes -> Entries]]

\* A cost is that of a path, and N where none was found.
Sound(t) ==
    \A i, j \in Nodes :
        /\ t[i][j].cost <= N
        /\ i = j => t[i][j].cost = 0
        /\ i # j => t[i][j].cost >= 1
        /\ i # j /\ Leading(i, j) # {} => t[i][j].cost <= 1
        /\ i # j /\ t[i][j].next = Null => t[i][j].cost = N
        /\ t[i][j].next # Null => i # j /\ j \in Within(i, t[i][j].cost)

\* No detour over the first k nodes is shorter.
Detours(t, k) ==
    \A m \in 1 .. k : \A i, j \in Nodes : t[i][j].cost <= t[i][m].cost + t[m][j].cost

\* The next node is a neighbour, or one that the cost was found by.
Via(t) ==
    \A i, j \in Nodes : t[i][j].next # Null =>
        /\ t[i][j].next # i
        /\ t[i][j].next = j => t[i][j].cost = 1 /\ Leading(i, j) # {}
        /\ t[i][j].next # j => t[i][t[i][j].next].cost + t[t[i][j].next][j].cost <= t[i][j].cost

LEMMA TableFacts ==
    ASSUME NEW t \in Tables, NEW i \in Nodes, NEW j \in Nodes
    PROVE  /\ t[i][j] \in Entries /\ t[i][j].cost \in Nat /\ t[i][j].next \in Nodes \cup {Null}
           /\ t[i][j].buffer \in Buffers
BY DEF Tables, Entries

\* One turn of the loop over k: a better cost is that of a detour over k.
LEMMA RelaxedFacts ==
    ASSUME table \in Tables, Sound(table), NEW k \in Nodes, NEW i \in Nodes, NEW j \in Nodes
    PROVE  LET u   == Relaxed(k)
               sum == table[i][k].cost + table[k][j].cost
           IN  /\ u \in Tables
               /\ u[i][j].cost <= table[i][j].cost /\ u[i][j].cost <= sum
               /\ \/ u[i][j].cost = table[i][j].cost /\ u[i][j].next = table[i][j].next
                  \/ /\ u[i][j].cost = sum /\ u[i][j].next = k /\ sum < table[i][j].cost
                     /\ i # j /\ k # i /\ k # j
<1> DEFINE sum(x, y) == table[x][k].cost + table[k][y].cost
           e(x, y)   == IF table[x][y].cost > sum(x, y)
                        THEN Entry(sum(x, y), k, table[x][y].buffer) ELSE table[x][y]
           u         == [x \in Nodes |-> [y \in Nodes |-> e(x, y)]]
<1>1. Relaxed(k) = u
  BY DEF Relaxed
<1>2. ASSUME NEW x \in Nodes, NEW y \in Nodes PROVE sum(x, y) \in Nat /\ e(x, y) \in Entries
  <2>1. sum(x, y) \in Nat
    BY TableFacts
  <2>2. Entry(sum(x, y), k, table[x][y].buffer) \in Entries
    <3>1. table[x][y].buffer \in Buffers
      BY TableFacts
    <3> HIDE DEF sum
    <3> QED
      BY <2>1, <3>1 DEF Entry, Entries
  <2>3. table[x][y] \in Entries
    BY TableFacts
  <2> QED
    BY <2>1, <2>2, <2>3
<1>3. u[i][j] = e(i, j)
  OBVIOUS
<1>4. u \in Tables
  <2> HIDE DEF e
  <2> QED
    BY <1>2 DEF Tables
<1>5. sum(i, j) \in Nat /\ table[i][j].cost \in Nat
  BY <1>2, TableFacts
<1>6. CASE table[i][j].cost > sum(i, j)
  <2>1. u[i][j].cost = sum(i, j) /\ u[i][j].next = k
    BY <1>3, <1>6 DEF Entry
  <2>2. i # j
    BY <1>5, <1>6 DEF Sound
  <2>3. table[i][k].cost \in Nat /\ table[k][j].cost \in Nat
    BY TableFacts
  <2>4. k # i
    BY <1>5, <1>6, <2>3 DEF Sound
  <2>5. k # j
    BY <1>5, <1>6, <2>3 DEF Sound
  <2> HIDE DEF u
  <2> QED
    BY <1>1, <1>4, <1>5, <1>6, <2>1, <2>2, <2>4, <2>5
<1>7. CASE ~ (table[i][j].cost > sum(i, j))
  <2>1. u[i][j] = table[i][j]
    BY <1>3, <1>7
  <2> HIDE DEF u
  <2> QED
    BY <1>1, <1>4, <1>5, <1>7, <2>1
<1> QED
  BY <1>6, <1>7

LEMMA RelaxedSound ==
    ASSUME table \in Tables, Sound(table), NEW k \in Nodes
    PROVE  Relaxed(k) \in Tables /\ Sound(Relaxed(k))
<1> DEFINE u == Relaxed(k)
<1>1. u \in Tables
  BY RelaxedFacts
<1> SUFFICES ASSUME NEW i \in Nodes, NEW j \in Nodes
             PROVE  /\ u[i][j].cost <= N
                    /\ i = j => u[i][j].cost = 0
                    /\ i # j => u[i][j].cost >= 1
                    /\ i # j /\ Leading(i, j) # {} => u[i][j].cost <= 1
                    /\ i # j /\ u[i][j].next = Null => u[i][j].cost = N
                    /\ u[i][j].next # Null => i # j /\ j \in Within(i, u[i][j].cost)
  BY <1>1 DEF Sound
<1> DEFINE sum == table[i][k].cost + table[k][j].cost
<1>2. /\ u[i][j].cost <= table[i][j].cost
      /\ \/ u[i][j].cost = table[i][j].cost /\ u[i][j].next = table[i][j].next
         \/ /\ u[i][j].cost = sum /\ u[i][j].next = k /\ sum < table[i][j].cost
            /\ i # j /\ k # i /\ k # j
  BY RelaxedFacts
<1>3. /\ table[i][j].cost \in Nat /\ table[i][k].cost \in Nat /\ table[k][j].cost \in Nat /\ N \in Nat
  BY TableFacts, DimensionAssumption
<1>4. /\ table[i][j].cost <= N
      /\ i = j => table[i][j].cost = 0
      /\ i # j => table[i][j].cost >= 1
      /\ i # j /\ Leading(i, j) # {} => table[i][j].cost <= 1
      /\ i # j /\ table[i][j].next = Null => table[i][j].cost = N
      /\ table[i][j].next # Null => i # j /\ j \in Within(i, table[i][j].cost)
  BY DEF Sound
<1> HIDE DEF u
<1>5. CASE u[i][j].cost = table[i][j].cost /\ u[i][j].next = table[i][j].next
  BY <1>4, <1>5
<1>6. CASE /\ u[i][j].cost = sum /\ u[i][j].next = k /\ sum < table[i][j].cost
           /\ i # j /\ k # i /\ k # j
  <2>1. table[i][k].cost >= 1 /\ table[k][j].cost >= 1
    BY <1>6 DEF Sound
  <2>2. table[i][k].cost # N /\ table[k][j].cost # N
    BY <1>3, <1>4, <1>6, <2>1
  <2>3. table[i][k].next # Null /\ table[k][j].next # Null
    BY <1>6, <2>2 DEF Sound
  <2>4. k \in Within(i, table[i][k].cost) /\ j \in Within(k, table[k][j].cost)
    BY <2>3 DEF Sound
  <2>5. j \in Within(i, sum)
    BY <1>3, <2>4, WithinAfter
  <2>6. k # Null
    BY DimensionAssumption
  <2> QED
    BY <1>3, <1>4, <1>6, <2>1, <2>5, <2>6
<1> QED
  BY <1>2, <1>5, <1>6

LEMMA RelaxedDetours ==
    ASSUME table \in Tables, Sound(table), NEW k \in Nodes, Detours(table, k - 1)
    PROVE  Detours(Relaxed(k), k)
<1> DEFINE u       == Relaxed(k)
           c(x, y) == table[x][y].cost
           d(x, y) == u[x][y].cost
<1>1. ASSUME NEW x \in Nodes, NEW y \in Nodes
      PROVE  /\ c(x, y) \in Nat /\ d(x, y) \in Nat
             /\ d(x, y) <= c(x, y) /\ d(x, y) <= c(x, k) + c(k, y)
             /\ d(x, y) = c(x, y) \/ d(x, y) = c(x, k) + c(k, y)
  <2>1. u \in Tables
    BY RelaxedFacts
  <2> HIDE DEF u
  <2>2. c(x, y) \in Nat /\ d(x, y) \in Nat
    BY <2>1, TableFacts
  <2> QED
    BY <2>2, RelaxedFacts DEF u
<1>2. k \in Nat /\ c(k, k) = 0 /\ \A x \in Nodes : d(x, k) = c(x, k) /\ d(k, x) = c(k, x)
  <2>1. k \in Nat
    BY DEF Nodes
  <2>2. c(k, k) = 0
    BY DEF Sound
  <2> HIDE DEF c, d
  <2>3. ASSUME NEW x \in Nodes PROVE d(x, k) = c(x, k) /\ d(k, x) = c(k, x)
    <3>1. c(x, k) \in Nat /\ c(k, x) \in Nat
      BY <1>1
    <3> QED
      BY <1>1, <2>2, <3>1
  <2> QED
    BY <2>1, <2>2, <2>3
<1>3. \A m \in 1 .. k - 1 : \A x, y \in Nodes : c(x, y) <= c(x, m) + c(m, y)
  BY DEF Detours
<1> HIDE DEF c, d
<1>4. ASSUME NEW m \in 1 .. k, NEW i \in Nodes, NEW j \in Nodes PROVE d(i, j) <= d(i, m) + d(m, j)
  <2>1. CASE m = k
    BY <1>1, <1>2, <2>1
  <2>2. CASE m # k
    <3>1. m \in 1 .. k - 1 /\ m \in Nodes
      BY <1>2, <2>2, DimensionAssumption DEF Nodes
    <3>2. /\ c(i, j) <= c(i, m) + c(m, j) /\ c(k, j) <= c(k, m) + c(m, j)
          /\ c(i, k) <= c(i, m) + c(m, k)
      BY <1>3, <3>1
    <3>3. /\ c(i, j) \in Nat /\ c(i, m) \in Nat /\ c(m, j) \in Nat /\ c(k, j) \in Nat /\ c(k, m) \in Nat
          /\ c(i, k) \in Nat /\ c(m, k) \in Nat /\ d(i, j) \in Nat /\ d(i, m) \in Nat /\ d(m, j) \in Nat
      BY <1>1, <3>1
    <3>4. d(i, j) <= c(i, j) /\ d(i, j) <= c(i, k) + c(k, j)
      BY <1>1
    <3>5. d(i, m) = c(i, m) \/ d(i, m) = c(i, k) + c(k, m)
      BY <1>1, <3>1
    <3>6. d(m, j) = c(m, j) \/ d(m, j) = c(m, k) + c(k, j)
      BY <1>1, <3>1
    <3> QED
      BY <3>2, <3>3, <3>4, <3>5, <3>6
  <2> QED
    BY <2>1, <2>2
<1> QED
  BY <1>4 DEF Detours, d

LEMMA RelaxedVia ==
    ASSUME table \in Tables, Sound(table), NEW k \in Nodes, Via(table)
    PROVE  Via(Relaxed(k))
<1> DEFINE u == Relaxed(k)
<1>1. u \in Tables
  BY RelaxedFacts
<1>2. \A x, y \in Nodes :
        /\ u[x][y].cost <= table[x][y].cost
        /\ \/ u[x][y].cost = table[x][y].cost /\ u[x][y].next = table[x][y].next
           \/ /\ u[x][y].cost = table[x][k].cost + table[k][y].cost
              /\ u[x][y].next = k /\ x # y /\ k # x /\ k # y
  BY RelaxedFacts
<1>3. \A x, y \in Nodes : u[x][y].cost \in Nat /\ table[x][y].cost \in Nat
  <2> HIDE DEF u
  <2> QED
    BY <1>1, TableFacts
<1>4. Sound(u)
  BY RelaxedSound
<1> HIDE DEF u
<1> SUFFICES ASSUME NEW i \in Nodes, NEW j \in Nodes, u[i][j].next # Null
             PROVE  /\ u[i][j].next # i
                    /\ u[i][j].next = j => u[i][j].cost = 1 /\ Leading(i, j) # {}
                    /\ u[i][j].next # j => u[i][u[i][j].next].cost + u[u[i][j].next][j].cost <= u[i][j].cost
  BY DEF Via, u
<1> DEFINE x == u[i][j].next
<1>5. CASE u[i][j].cost = table[i][j].cost /\ x = table[i][j].next
  <2>1. x \in Nodes
    BY <1>5, TableFacts
  <2>2. /\ x # i
        /\ x = j => table[i][j].cost = 1 /\ Leading(i, j) # {}
        /\ x # j => table[i][x].cost + table[x][j].cost <= table[i][j].cost
    BY <1>5 DEF Via
  <2> HIDE DEF x
  <2>3. /\ u[i][x].cost \in Nat /\ u[x][j].cost \in Nat /\ table[i][x].cost \in Nat /\ table[x][j].cost \in Nat
        /\ table[i][j].cost \in Nat
        /\ u[i][x].cost <= table[i][x].cost /\ u[x][j].cost <= table[x][j].cost
    BY <1>2, <1>3, <2>1
  <2>4. x # j => u[i][x].cost + u[x][j].cost <= u[i][j].cost
    BY <1>5, <2>2, <2>3
  <2> QED
    BY <1>5, <2>2, <2>4 DEF x
<1>6. CASE /\ u[i][j].cost = table[i][k].cost + table[k][j].cost
           /\ x = k /\ k # i /\ k # j
  <2>1. /\ u[i][k].cost \in Nat /\ u[k][j].cost \in Nat /\ table[i][k].cost \in Nat /\ table[k][j].cost \in Nat
        /\ u[i][k].cost <= table[i][k].cost /\ u[k][j].cost <= table[k][j].cost
    BY <1>2, <1>3
  <2>2. u[i][k].cost + u[k][j].cost <= u[i][j].cost
    BY <1>6, <2>1
  <2> QED
    BY <1>6, <2>2
<1> QED
  BY <1>2, <1>5, <1>6

---------------------------------------------------------------------------
(* Buffers. *)

\* What the configuration gives to the table.
Parsed == net \in Seq(Connections)

LEMMA BufferFacts ==
    ASSUME Parsed, NEW i \in Nodes, NEW b \in OutputBuffers(i)
    PROVE  /\ b \in [dir : {"in", "out"}, conn : Nat, index : Nat] /\ b.dir = "out"
           /\ b.conn \in 1 .. Len(net) /\ net[b.conn] \in Connections
           /\ b.index \in 1 .. Len(net[b.conn].from) /\ net[b.conn].from[b.index] = i
<1>0. PICK c \in DOMAIN net :
            b \in {OutputBuffer(c, s) : s \in {x \in DOMAIN net[c].from : net[c].from[x] = i}}
  BY DEF OutputBuffers
<1>1. PICK s \in DOMAIN net[c].from : net[c].from[s] = i /\ b = OutputBuffer(c, s)
  BY <1>0
<1>2. net[c] \in Connections /\ c \in 1 .. Len(net) /\ Len(net) \in Nat
  BY <1>1 DEF Parsed
<1>3. net[c].from \in Seq(Nodes)
  BY <1>2 DEF Connections
<1>4. s \in 1 .. Len(net[c].from) /\ Len(net[c].from) \in Nat
  BY <1>3
<1>5. b = [dir |-> "out", conn |-> c, index |-> s]
  BY <1>1 DEF OutputBuffer
<1> QED
  BY <1>1, <1>2, <1>4, <1>5

\* Two output buffers of a node are equal, or one comes before the other.
LEMMA BuffersDiffer ==
    ASSUME Parsed, NEW i \in Nodes, NEW b \in OutputBuffers(i), NEW x \in OutputBuffers(i),
           b.conn = x.conn, b.index = x.index
    PROVE  b = x
<1>1. /\ b \in [dir : {"in", "out"}, conn : Nat, index : Nat] /\ b.dir = "out"
      /\ x \in [dir : {"in", "out"}, conn : Nat, index : Nat] /\ x.dir = "out"
  BY BufferFacts
<1> QED
  BY <1>1

LEMMA FirstBufferIsOne ==
    ASSUME Parsed, NEW i \in Nodes, NEW S \in SUBSET OutputBuffers(i), S # {}
    PROVE  FirstBuffer(S) \in S
<1> DEFINE conns == {b.conn : b \in S}
<1>1. \A b \in S : b.conn \in Nat /\ b.index \in Nat
  BY BufferFacts
<1>2. conns \in SUBSET Nat /\ conns # {} /\ \A b \in S : b.conn \in conns
  BY <1>1
<1>3. \A c \in conns : \E b \in S : b.conn = c
  OBVIOUS
<1> HIDE DEF conns
<1>4. PICK c \in conns : \A y \in conns : c <= y
  BY <1>2, LeastOf
<1> DEFINE here    == {b \in S : b.conn = c}
           indices == {b.index : b \in here}
<1>5. indices \in SUBSET Nat /\ indices # {}
  BY <1>1, <1>3
<1>6. \A k \in indices : \E b \in S : b.conn = c /\ b.index = k
  OBVIOUS
<1>7. \A b \in S : b.conn = c => b.index \in indices
  OBVIOUS
<1> HIDE DEF indices
<1>8. PICK k \in indices : \A y \in indices : k <= y
  BY <1>5, LeastOf
<1>9. PICK b \in S : b.conn = c /\ b.index = k
  BY <1>6
<1>10. ASSUME NEW x \in S \ {b} PROVE Before(b, x)
  <2>1. x.conn \in Nat /\ x.index \in Nat /\ c \in Nat /\ k \in Nat
    BY <1>1, <1>2, <1>5
  <2>2. c <= x.conn
    BY <1>2, <1>4
  <2>3. CASE x.conn = c
    <3>1. k <= x.index
      BY <1>7, <1>8, <2>3
    <3>2. x.index # k
      BY <1>9, <2>3, BuffersDiffer
    <3> QED
      BY <1>9, <2>1, <2>3, <3>1, <3>2 DEF Before
  <2>4. CASE x.conn # c
    BY <1>9, <2>1, <2>2, <2>4 DEF Before
  <2> QED
    BY <2>3, <2>4
<1>11. \E y \in S : \A x \in S \ {y} : Before(y, x)
  BY <1>10
<1> QED
  BY <1>11 DEF FirstBuffer

LEMMA LastBufferIsOne ==
    ASSUME Parsed, NEW i \in Nodes, NEW S \in SUBSET OutputBuffers(i), S # {}
    PROVE  LastBuffer(S) \in S
<1> DEFINE conns == {b.conn : b \in S}
<1>1. \A b \in S : /\ b.conn \in 1 .. Len(net) /\ b.index \in 1 .. Len(net[b.conn].from)
                   /\ b.conn \in Nat /\ b.index \in Nat /\ Len(net[b.conn].from) \in Nat
  BY BufferFacts DEF Connections
<1>2. Len(net) \in Nat
  BY DEF Parsed
<1>3. conns \in SUBSET (0 .. Len(net)) /\ conns # {} /\ \A b \in S : b.conn \in conns
  BY <1>1, <1>2
<1>4. \A c \in conns : \E b \in S : b.conn = c
  OBVIOUS
<1> HIDE DEF conns
<1>5. PICK c \in conns : \A y \in conns : y <= c
  BY <1>2, <1>3, GreatestUpTo
<1> DEFINE here    == {b \in S : b.conn = c}
           indices == {b.index : b \in here}
           n       == Len(net[c].from)
<1>6. indices \in SUBSET (0 .. n) /\ indices # {} /\ n \in Nat
  BY <1>1, <1>4
<1>7. \A k \in indices : \E b \in S : b.conn = c /\ b.index = k
  OBVIOUS
<1>8. \A b \in S : b.conn = c => b.index \in indices
  OBVIOUS
<1> HIDE DEF indices, n
<1>9. PICK k \in indices : \A y \in indices : y <= k
  BY <1>6, GreatestUpTo
<1>10. PICK b \in S : b.conn = c /\ b.index = k
  BY <1>7
<1>11. ASSUME NEW x \in S \ {b} PROVE Before(x, b)
  <2>1. x.conn \in Nat /\ x.index \in Nat /\ c \in Nat /\ k \in Nat
    BY <1>1, <1>10
  <2>2. x.conn <= c
    BY <1>3, <1>5
  <2>3. CASE x.conn = c
    <3>1. x.index <= k
      BY <1>8, <1>9, <2>3
    <3>2. x.index # k
      BY <1>10, <2>3, BuffersDiffer
    <3> QED
      BY <1>10, <2>1, <2>3, <3>1, <3>2 DEF Before
  <2>4. CASE x.conn # c
    BY <1>10, <2>1, <2>2, <2>4 DEF Before
  <2> QED
    BY <2>3, <2>4
<1>12. \E y \in S : \A x \in S \ {y} : Before(x, y)
  BY <1>11
<1> QED
  BY <1>12 DEF LastBuffer

LEMMA LeadingFacts ==
    ASSUME Parsed, NEW i \in Nodes, NEW j \in Nodes, Leading(i, j) # {}
    PROVE  /\ FirstBuffer(Leading(i, j)) \in Leading(i, j) /\ LastBuffer(Leading(i, j)) \in Leading(i, j)
           /\ Leading(i, j) \subseteq OutputBuffers(i) /\ Leading(i, j) \subseteq Buffers
<1>1. Leading(i, j) \in SUBSET OutputBuffers(i)
  BY DEF Leading
<1>2. FirstBuffer(Leading(i, j)) \in Leading(i, j) /\ LastBuffer(Leading(i, j)) \in Leading(i, j)
  BY <1>1, FirstBufferIsOne, LastBufferIsOne
<1>3. \A b \in OutputBuffers(i) : b \in Buffers
  BY BufferFacts DEF Buffers
<1> QED
  BY <1>1, <1>2, <1>3

---------------------------------------------------------------------------
(* The table at first, and at the end. *)

\* The buffer of an entry leads to its next node.
Ways(i, j) == Leading(i, j) \cup BusInputs(i, j)
Named(t) == \A i, j \in Nodes : t[i][j].buffer # Null => t[i][j].buffer \in Ways(i, t[i][j].next)

LEMMA InitialFacts ==
    ASSUME Parsed
    PROVE  /\ InitialTable \in Tables /\ Sound(InitialTable) /\ Via(InitialTable)
           /\ Detours(InitialTable, 0) /\ Named(InitialTable)
<1> DEFINE t       == InitialTable
           e(i, j) == IF i # j /\ Leading(i, j) # {} THEN Entry(1, j, LastBuffer(Leading(i, j)))
                      ELSE Entry(IF i = j THEN 0 ELSE N, Null, Null)
<1>0. N \in Nat /\ N >= 1 /\ Null \notin Nodes
  BY DimensionAssumption
<1>1. t = [i \in Nodes |-> [j \in Nodes |-> e(i, j)]]
  BY DEF InitialTable
<1>2. ASSUME NEW i \in Nodes, NEW j \in Nodes
      PROVE  /\ e(i, j) \in Entries
             /\ i # j /\ Leading(i, j) # {} =>
                   /\ e(i, j).cost = 1 /\ e(i, j).next = j
                   /\ e(i, j).buffer \in Ways(i, j)
             /\ ~ (i # j /\ Leading(i, j) # {}) =>
                   /\ e(i, j).cost = (IF i = j THEN 0 ELSE N)
                   /\ e(i, j).next = Null /\ e(i, j).buffer = Null
  <2>1. CASE i # j /\ Leading(i, j) # {}
    <3>1. LastBuffer(Leading(i, j)) \in Ways(i, j) /\ LastBuffer(Leading(i, j)) \in Buffers
      BY <2>1, LeadingFacts DEF Ways
    <3>2. e(i, j) = Entry(1, j, LastBuffer(Leading(i, j)))
      BY <2>1
    <3> HIDE DEF e
    <3> QED
      BY <2>1, <3>1, <3>2 DEF Entry, Entries
  <2>2. CASE ~ (i # j /\ Leading(i, j) # {})
    <3>1. e(i, j) = Entry(IF i = j THEN 0 ELSE N, Null, Null)
      BY <2>2
    <3> HIDE DEF e
    <3> QED
      BY <1>0, <2>2, <3>1 DEF Entry, Entries, Buffers
  <2> QED
    BY <2>1, <2>2
<1> HIDE DEF e
<1>3. t \in Tables /\ \A i, j \in Nodes : t[i][j] = e(i, j)
  BY <1>1, <1>2 DEF Tables
<1> HIDE DEF t
<1>4. ASSUME NEW i \in Nodes, NEW j \in Nodes, i # j, Leading(i, j) # {} PROVE j \in Within(i, 1)
  <2>1. 0 \in Nat /\ 0 + 1 = 1
    OBVIOUS
  <2>2. Within(i, 1) = Onward({i})
    BY <2>1, WithinSteps
  <2> QED
    BY <1>4, <2>2 DEF Onward
<1>5. ASSUME NEW i \in Nodes, NEW j \in Nodes
      PROVE  /\ t[i][j].cost <= N
             /\ i = j => t[i][j].cost = 0
             /\ i # j => t[i][j].cost >= 1
             /\ i # j /\ Leading(i, j) # {} => t[i][j].cost <= 1
             /\ i # j /\ t[i][j].next = Null => t[i][j].cost = N
             /\ t[i][j].next # Null => i # j /\ j \in Within(i, t[i][j].cost)
  <2>1. CASE i # j /\ Leading(i, j) # {}
    <3>1. t[i][j].cost = 1 /\ t[i][j].next = j
      BY <1>2, <1>3, <2>1
    <3> QED
      BY <1>0, <1>4, <2>1, <3>1
  <2>2. CASE ~ (i # j /\ Leading(i, j) # {})
    <3>1. t[i][j].cost = (IF i = j THEN 0 ELSE N) /\ t[i][j].next = Null
      BY <1>2, <1>3, <2>2
    <3> QED
      BY <1>0, <2>2, <3>1
  <2> QED
    BY <2>1, <2>2
<1>6. Sound(t)
  BY <1>5 DEF Sound
<1>7. ASSUME NEW i \in Nodes, NEW j \in Nodes, t[i][j].next # Null
      PROVE  i # j /\ Leading(i, j) # {} /\ t[i][j].next = j /\ t[i][j].cost = 1
  BY <1>2, <1>3, <1>7
<1>8. Via(t)
  BY <1>7 DEF Via
<1>9. Detours(t, 0)
  BY DEF Detours
<1>10. Named(t)
  BY <1>2, <1>3 DEF Named
<1> QED
  BY <1>3, <1>6, <1>8, <1>9, <1>10 DEF t

\* FirstHop, turn by turn.
Turn(i, x)      == IF table[i][x].cost <= 1 THEN x ELSE table[i][x].next
Hopping(F, i, j) == F = [n \in 0 .. N |-> IF n = 0 THEN table[i][j].next ELSE Turn(i, F[n - 1])]

\* Nodes on a shortest path from i to j.
OnTheWay(i, j) == {x \in Nodes : x # i /\ table[i][x].cost + table[x][j].cost = table[i][j].cost}

\* The lengths of two ways from i to j, over x and over y.
LEMMA SameLength ==
    ASSUME NEW ij \in Nat, NEW ix \in Nat, NEW xj \in Nat, NEW iy \in Nat, NEW yx \in Nat, NEW yj \in Nat,
           ix + xj = ij, iy + yx = ix, ij <= iy + yj, yj <= yx + xj
    PROVE  iy + yj = ij
OBVIOUS

\* Who follows the next nodes back stays on a shortest path and comes closer to i.
LEMMA TurnFacts ==
    ASSUME table \in Tables, Sound(table), Detours(table, N), Via(table),
           NEW i \in Nodes, NEW j \in Nodes, table[i][j].next # Null
    PROVE  /\ table[i][j].next \in OnTheWay(i, j)
           /\ \A x \in OnTheWay(i, j) : /\ Turn(i, x) \in OnTheWay(i, j)
                                        /\ table[i][x].cost > 1 => table[i][Turn(i, x)].cost < table[i][x].cost
<1>0. /\ \A x, y \in Nodes : table[x][y].cost \in Nat /\ table[x][y].cost <= N
      /\ N \in Nat
  BY TableFacts, DimensionAssumption DEF Sound
<1>1. \A x, y, z \in Nodes : table[x][z].cost <= table[x][y].cost + table[y][z].cost
  BY DEF Detours, Nodes
<1>2. ASSUME NEW x \in Nodes, x # i, table[i][x].next # Null
      PROVE  LET y == table[i][x].next
             IN  /\ y \in Nodes /\ y # i
                 /\ table[i][y].cost + table[y][x].cost = table[i][x].cost
                 /\ table[i][x].cost > 1 => table[i][y].cost < table[i][x].cost
  <2> DEFINE y == table[i][x].next
  <2>1. /\ y # i
        /\ y = x => table[i][x].cost = 1 /\ Leading(i, x) # {}
        /\ y # x => table[i][y].cost + table[y][x].cost <= table[i][x].cost
    BY <1>2 DEF Via
  <2>2. y \in Nodes
    BY <1>2, TableFacts
  <2>3. table[x][x].cost = 0 /\ (y # x => table[y][x].cost >= 1)
    BY <2>2 DEF Sound
  <2>4. table[i][x].cost <= table[i][y].cost + table[y][x].cost
    BY <1>1, <2>2
  <2>5. table[i][y].cost \in Nat /\ table[y][x].cost \in Nat /\ table[i][x].cost \in Nat
    BY <1>0, <2>2
  <2> HIDE DEF y
  <2>6. table[i][y].cost + table[y][x].cost = table[i][x].cost
    BY <2>1, <2>3, <2>4, <2>5
  <2>7. table[i][x].cost > 1 => table[i][y].cost < table[i][x].cost
    BY <2>1, <2>3, <2>5, <2>6
  <2> QED
    BY <2>1, <2>2, <2>6, <2>7 DEF y
<1>3. i # j
  BY DEF Sound
<1>4. table[i][j].next \in OnTheWay(i, j)
  BY <1>2, <1>3 DEF OnTheWay
<1>5. ASSUME NEW x \in OnTheWay(i, j)
      PROVE  /\ Turn(i, x) \in OnTheWay(i, j)
             /\ table[i][x].cost > 1 => table[i][Turn(i, x)].cost < table[i][x].cost
  <2>1. x \in Nodes /\ x # i /\ table[i][x].cost + table[x][j].cost = table[i][j].cost
    BY DEF OnTheWay
  <2>2. table[i][x].cost \in Nat /\ table[x][j].cost \in Nat /\ table[i][j].cost \in Nat /\ table[i][j].cost <= N
    BY <1>0, <2>1
  <2>3. CASE table[i][x].cost <= 1
    BY <2>2, <2>3 DEF Turn
  <2>4. CASE ~ (table[i][x].cost <= 1)
    <3> DEFINE y == table[i][x].next
    <3>1. Turn(i, x) = y
      BY <2>4 DEF Turn
    <3>2. y # Null
      <4>1. CASE x = j
        BY <4>1
      <4>2. CASE x # j
        <5>1. table[x][j].cost >= 1
          BY <2>1, <4>2 DEF Sound
        <5>2. table[i][x].cost # N
          BY <1>0, <2>1, <2>2, <5>1
        <5> QED
          BY <2>1, <5>2 DEF Sound
      <4> QED
        BY <4>1, <4>2
    <3>3. /\ y \in Nodes /\ y # i
          /\ table[i][y].cost + table[y][x].cost = table[i][x].cost
          /\ table[i][x].cost > 1 => table[i][y].cost < table[i][x].cost
      BY <1>2, <2>1, <3>2
    <3> HIDE DEF y
    <3>4. table[i][y].cost + table[y][j].cost = table[i][j].cost
      <4>1. /\ table[i][y].cost \in Nat /\ table[y][x].cost \in Nat /\ table[y][j].cost \in Nat
        BY <1>0, <2>1, <3>3
      <4>2. /\ table[i][j].cost <= table[i][y].cost + table[y][j].cost
            /\ table[y][j].cost <= table[y][x].cost + table[x][j].cost
        BY <1>1, <2>1, <3>3
      <4> QED
        BY <2>1, <2>2, <3>3, <4>1, <4>2, SameLength
    <3> QED
      BY <3>1, <3>3, <3>4 DEF OnTheWay
  <2> QED
    BY <2>3, <2>4
<1> QED
  BY <1>4, <1>5

\* The loop ends at a neighbour of i that is one hop closer to j.
LEMMA FirstHopFacts ==
    ASSUME table \in Tables, Sound(table), Detours(table, N), Via(table),
           NEW i \in Nodes, NEW j \in Nodes, table[i][j].next # Null
    PROVE  LET x == FirstHop(i, j)
           IN  /\ x \in Nodes /\ Leading(i, x) # {}
               /\ table[x][j].cost = table[i][j].cost - 1
<1> DEFINE W    == OnTheWay(i, j)
           step == [n \in 1 .. N |-> [x \in W |-> Turn(i, x)]]
<1>0. N \in Nat
  BY DimensionAssumption
<1>1. /\ table[i][j].next \in W
      /\ \A x \in W : Turn(i, x) \in W /\ (table[i][x].cost > 1 => table[i][Turn(i, x)].cost < table[i][x].cost)
  BY TurnFacts
<1>2. \A x \in W : x \in Nodes /\ x # i /\ table[i][x].cost + table[x][j].cost = table[i][j].cost
  BY DEF OnTheWay
<1> HIDE DEF W
<1>3. step \in [1 .. N -> [W -> W]] /\ \A n \in 1 .. N, x \in W : step[n][x] = Turn(i, x)
  BY <1>1
<1> HIDE DEF step
<1>4. PICK f : Loops(f, N, W, table[i][j].next, step)
  BY <1>0, <1>1, <1>3, LoopRuns
<1>5. Hopping(f, i, j)
  <2>1. /\ f \in [0 .. N -> W] /\ f[0] = table[i][j].next
        /\ \A n \in 1 .. N : f[n] = step[n][f[n - 1]]
    BY <1>4 DEF Loops
  <2>2. ASSUME NEW n \in 0 .. N PROVE f[n] = IF n = 0 THEN table[i][j].next ELSE Turn(i, f[n - 1])
    <3>1. CASE n = 0
      BY <2>1, <3>1
    <3>2. CASE n # 0
      <4>1. n \in 1 .. N /\ n - 1 \in 0 .. N
        BY <1>0, <3>2
      <4>2. f[n - 1] \in W
        BY <2>1, <4>1
      <4> QED
        BY <1>3, <2>1, <3>2, <4>1, <4>2
    <3> QED
      BY <3>1, <3>2
  <2>3. f = [n \in 0 .. N |-> f[n]]
    BY <2>1
  <2> QED
    BY <2>2, <2>3 DEF Hopping
<1> DEFINE F == CHOOSE h : Hopping(h, i, j)
<1>6. Hopping(F, i, j)
  BY <1>5
<1>7. FirstHop(i, j) = F[N]
  BY DEF FirstHop, Hopping, Turn
<1> HIDE DEF F
<1>8. F[0] = table[i][j].next /\ \A n \in 1 .. N : F[n] = Turn(i, F[n - 1])
  <2>1. \A n \in 0 .. N : F[n] = IF n = 0 THEN table[i][j].next ELSE Turn(i, F[n - 1])
    BY <1>6 DEF Hopping
  <2>2. 0 \in 0 .. N /\ \A n \in 1 .. N : n \in 0 .. N /\ n # 0
    BY <1>0
  <2> QED
    BY <2>1, <2>2
<1> DEFINE B == {n \in 0 .. N : F[n] \in W /\ (table[i][F[n]].cost <= 1 \/ table[i][F[n]].cost <= N - n)}
<1>9. 0 \in B
  <2>1. table[i][table[i][j].next].cost <= N
    BY <1>1, <1>2 DEF Sound
  <2>2. 0 \in 0 .. N /\ N - 0 = N
    BY <1>0
  <2> QED
    BY <1>1, <1>8, <2>1, <2>2
<1>10. ASSUME NEW n \in 1 .. N, n - 1 \in B PROVE n \in B
  <2> DEFINE x == F[n - 1]
             y == F[n]
  <2>1. x \in W /\ (table[i][x].cost <= 1 \/ table[i][x].cost <= N - (n - 1))
    BY <1>10
  <2>2. y = Turn(i, x) /\ y \in W
    BY <1>1, <1>8, <2>1
  <2>3. table[i][x].cost \in Nat /\ table[i][y].cost \in Nat /\ n \in 0 .. N
    <3>1. x \in Nodes /\ y \in Nodes
      BY <1>2, <2>1, <2>2
    <3> QED
      BY <1>0, <3>1, TableFacts
  <2>4. table[i][x].cost <= 1 => y = x
    BY <2>2 DEF Turn
  <2>5. table[i][x].cost > 1 => table[i][y].cost < table[i][x].cost
    BY <1>1, <2>1, <2>2
  <2> HIDE DEF x, y
  <2>6. table[i][y].cost <= 1 \/ table[i][y].cost <= N - n
    BY <1>0, <2>1, <2>3, <2>4, <2>5
  <2> QED
    BY <2>2, <2>3, <2>6 DEF y
<1> HIDE DEF B
<1>11. N \in B
  <2>1. N \in 0 .. N
    BY <1>0
  <2> QED
    BY <1>0, <1>9, <1>10, <2>1, UpTo
<1> DEFINE x == F[N]
<1>12. x \in W /\ (table[i][x].cost <= 1 \/ table[i][x].cost <= N - N)
  BY <1>11 DEF B
<1> HIDE DEF x
<1>13. x \in Nodes /\ x # i /\ table[i][x].cost + table[x][j].cost = table[i][j].cost
  BY <1>2, <1>12
<1>14. table[i][x].cost \in Nat /\ table[x][j].cost \in Nat /\ table[i][x].cost >= 1
  BY <1>13, TableFacts DEF Sound
<1>15. table[i][x].cost = 1
  BY <1>0, <1>12, <1>14
<1>16. table[x][j].cost = table[i][j].cost - 1
  BY <1>13, <1>14, <1>15
<1>17. table[i][x].next # Null
  <2>1. N # 1
    BY <1>13 DEF Nodes
  <2> QED
    BY <1>13, <1>15, <2>1 DEF Sound
<1>18. Leading(i, x) # {}
  <2> DEFINE y == table[i][x].next
  <2>1. y \in Nodes /\ y # i
    BY <1>13, <1>17, TableFacts DEF Via
  <2>2. y # x => table[i][y].cost + table[y][x].cost <= 1
    BY <1>13, <1>15, <1>17 DEF Via
  <2>3. y = x => Leading(i, x) # {}
    BY <1>13, <1>17 DEF Via
  <2> HIDE DEF y
  <2>4. table[i][y].cost >= 1 /\ (y # x => table[y][x].cost >= 1)
    BY <1>13, <2>1 DEF Sound
  <2>5. table[i][y].cost \in Nat /\ table[y][x].cost \in Nat
    BY <1>13, <2>1, TableFacts
  <2> QED
    BY <2>2, <2>3, <2>4, <2>5
<1> QED
  BY <1>7, <1>13, <1>16, <1>18 DEF x

\* The table that packets are routed by: each entry leads one hop closer.
Arrives(t) ==
    \A i, j \in Nodes :
        /\ t[i][j].next = Null => t[i][j].buffer = Null
        /\ t[i][j].next # Null => /\ t[i][j].buffer \in Leading(i, t[i][j].next)
                                  /\ t[t[i][j].next][j].cost = t[i][j].cost - 1

LEMMA ResolvedFacts ==
    ASSUME Parsed, table \in Tables, Sound(table), Detours(table, N), Via(table)
    PROVE  /\ Resolved \in Tables /\ Sound(Resolved) /\ Detours(Resolved, N)
           /\ Arrives(Resolved) /\ Named(Resolved)
<1> DEFINE t       == Resolved
           e(i, j) == IF table[i][j].next = Null THEN [table[i][j] EXCEPT !.buffer = Null]
                      ELSE Entry(table[i][j].cost, FirstHop(i, j), FirstBuffer(Leading(i, FirstHop(i, j))))
<1>0. Null \notin Nodes
  BY DimensionAssumption
<1>1. t = [i \in Nodes |-> [j \in Nodes |-> e(i, j)]]
  BY DEF Resolved
<1>2. ASSUME NEW i \in Nodes, NEW j \in Nodes
      PROVE  /\ e(i, j) \in Entries /\ e(i, j).cost = table[i][j].cost
             /\ table[i][j].next = Null => e(i, j).next = Null /\ e(i, j).buffer = Null
             /\ table[i][j].next # Null =>
                   /\ e(i, j).next \in Nodes
                   /\ e(i, j).buffer \in Leading(i, e(i, j).next)
                   /\ table[e(i, j).next][j].cost = table[i][j].cost - 1
  <2>0. table[i][j] \in Entries
    BY TableFacts
  <2>1. CASE table[i][j].next = Null
    <3>1. e(i, j) = [table[i][j] EXCEPT !.buffer = Null]
      BY <2>1
    <3> HIDE DEF e
    <3> QED
      BY <2>0, <2>1, <3>1 DEF Entries, Buffers
  <2>2. CASE table[i][j].next # Null
    <3> DEFINE x == FirstHop(i, j)
               b == FirstBuffer(Leading(i, x))
    <3>1. e(i, j) = Entry(table[i][j].cost, x, b)
      BY <2>2
    <3>2. x \in Nodes /\ Leading(i, x) # {} /\ table[x][j].cost = table[i][j].cost - 1
      BY <2>2, FirstHopFacts
    <3> HIDE DEF e, x
    <3>3. b \in Leading(i, x) /\ b \in Buffers
      BY <3>2, LeadingFacts
    <3> HIDE DEF b
    <3>4. e(i, j) \in Entries /\ e(i, j).cost = table[i][j].cost /\ e(i, j).next = x /\ e(i, j).buffer = b
      BY <2>0, <3>1, <3>2, <3>3 DEF Entry, Entries
    <3> QED
      BY <2>2, <3>2, <3>3, <3>4
  <2> QED
    BY <2>1, <2>2
<1> HIDE DEF e
<1>3. t \in Tables /\ \A i, j \in Nodes : t[i][j] = e(i, j)
  BY <1>1, <1>2 DEF Tables
<1> HIDE DEF t
<1>4. \A i, j \in Nodes : t[i][j].cost = table[i][j].cost /\ (t[i][j].next = Null <=> table[i][j].next = Null)
  BY <1>0, <1>2, <1>3
<1>5. Sound(t)
  BY <1>4 DEF Sound
<1>6. Detours(t, N)
  BY <1>4 DEF Detours, Nodes
<1>7. ASSUME NEW i \in Nodes, NEW j \in Nodes
      PROVE  /\ t[i][j].next = Null => t[i][j].buffer = Null
             /\ t[i][j].next # Null => /\ t[i][j].buffer \in Leading(i, t[i][j].next)
                                       /\ t[t[i][j].next][j].cost = t[i][j].cost - 1
  <2>1. CASE table[i][j].next = Null
    BY <1>2, <1>3, <1>4, <2>1
  <2>2. CASE table[i][j].next # Null
    <3>1. /\ t[i][j].next \in Nodes /\ t[i][j].buffer \in Leading(i, t[i][j].next)
          /\ table[t[i][j].next][j].cost = table[i][j].cost - 1
      BY <1>2, <1>3, <2>2
    <3> QED
      BY <1>0, <1>4, <3>1
  <2> QED
    BY <2>1, <2>2
<1>8. Arrives(t) /\ Named(t)
  BY <1>7 DEF Arrives, Named, Ways
<1> QED
  BY <1>3, <1>5, <1>6, <1>8 DEF t

---------------------------------------------------------------------------
(* The network does not change. *)

LEMMA LeadingStays ==
    ASSUME net' = net
    PROVE  /\ \A i : OutputBuffers(i)' = OutputBuffers(i)
           /\ \A i, j : Leading(i, j)' = Leading(i, j)
           /\ \A i, j : BusInputs(i, j)' = BusInputs(i, j)
<1>1. \A i : OutputBuffers(i)' = OutputBuffers(i)
  BY DEF OutputBuffers
<1>2. \A b, j : Reaches(b, j)' <=> Reaches(b, j)
  BY DEF Reaches
<1>3. \A i, j : BusInputs(i, j)' = BusInputs(i, j)
  BY DEF BusInputs
<1> QED
  BY <1>1, <1>2, <1>3 DEF Leading

LEMMA WithinStays ==
    ASSUME net' = net, NEW t, table' = t, NEW i \in Nodes, NEW j \in Nodes
    PROVE  Within(i, table[i][j].cost)' = Within(i, t[i][j].cost)
<1> DEFINE n == t[i][j].cost
<1>0. table[i][j].cost' = n
  OBVIOUS
<1>1. \A x, y : Leading(x, y)' = Leading(x, y)
  BY LeadingStays
<1>2. \A S : Onward(S)' = Onward(S)
  BY <1>1 DEF Onward
<1>3. ASSUME NEW f PROVE Hops(f, i, table[i][j].cost)' <=> Hops(f, i, n)
  <2>1. \A k : Onward(f[k - 1])' = Onward(f[k - 1])
    BY <1>2
  <2> HIDE DEF n
  <2> QED
    BY <1>0, <2>1 DEF Hops
<1>4. (CHOOSE f : Hops(f, i, table[i][j].cost))' = CHOOSE f : Hops(f, i, n)
  BY <1>3
<1>5. Within(i, n) = (CHOOSE f : Hops(f, i, n))[n]
  BY DEF Within, Hops, Onward
<1>6. Within(i, table[i][j].cost)' = (CHOOSE f : Hops(f, i, table[i][j].cost))'[n]
  BY <1>0 DEF Within, Hops, Onward
<1> QED
  BY <1>4, <1>5, <1>6

LEMMA SoundStays ==
    ASSUME net' = net, NEW t \in Tables, table' = t, Sound(t)
    PROVE  Sound(table)'
<1>1. \A x, j : Leading(x, j)' = Leading(x, j)
  BY LeadingStays
<1>2. ASSUME NEW i \in Nodes, NEW j \in Nodes
      PROVE  (/\ table[i][j].cost <= N
              /\ i = j => table[i][j].cost = 0
              /\ i # j => table[i][j].cost >= 1
              /\ i # j /\ Leading(i, j) # {} => table[i][j].cost <= 1
              /\ i # j /\ table[i][j].next = Null => table[i][j].cost = N
              /\ table[i][j].next # Null => i # j /\ j \in Within(i, table[i][j].cost))'
  <2>1. Within(i, table[i][j].cost)' = Within(i, t[i][j].cost)
    BY WithinStays
  <2> QED
    BY <1>1, <2>1 DEF Sound
<1> QED
  BY <1>2 DEF Sound

LEMMA ViaStays ==
    ASSUME net' = net, NEW t \in Tables, table' = t, Via(t)
    PROVE  Via(table)'
<1>1. \A x, j : Leading(x, j)' = Leading(x, j)
  BY LeadingStays
<1> QED
  BY <1>1 DEF Via

LEMMA ArrivesStays ==
    ASSUME net' = net, NEW t \in Tables, table' = t, Arrives(t)
    PROVE  Arrives(table)'
<1>1. \A x, j : Leading(x, j)' = Leading(x, j)
  BY LeadingStays
<1>2. ASSUME NEW i \in Nodes, NEW j \in Nodes
      PROVE  Leading(i, table[i][j].next)' = Leading(i, t[i][j].next)
  BY DEF Leading, OutputBuffers, Reaches
<1> QED
  BY <1>1, <1>2 DEF Arrives

LEMMA NamedStays ==
    ASSUME net' = net, NEW t \in Tables, table' = t, Named(t)
    PROVE  Named(table)'
<1>1. ASSUME NEW i \in Nodes, NEW j \in Nodes
      PROVE  Ways(i, table[i][j].next)' = Ways(i, t[i][j].next)
  BY DEF Ways, BusInputs, Leading, OutputBuffers, Reaches
<1> QED
  BY <1>1 DEF Named

---------------------------------------------------------------------------
(* Routes of the configuration. *)

\* A value that is in a sequence has a first place there.
LEMMA FirstPlace ==
    ASSUME NEW q \in Seq(Nodes), NEW v, \E x \in DOMAIN q : q[x] = v
    PROVE  \E x \in DOMAIN q : q[x] = v /\ \A y \in 1 .. x - 1 : q[y] # v
<1> DEFINE B == {m \in Nat : \A x \in 1 .. m : x \in DOMAIN q => q[x] # v}
<1>1. DOMAIN q = 1 .. Len(q) /\ Len(q) \in Nat
  OBVIOUS
<1> SUFFICES ASSUME \A x \in DOMAIN q : ~ (q[x] = v /\ \A y \in 1 .. x - 1 : q[y] # v)
             PROVE  FALSE
  OBVIOUS
<1>2. 0 \in B
  OBVIOUS
<1>3. ASSUME NEW m \in 1 .. Len(q), m - 1 \in B PROVE m \in B
  <2>1. \A y \in 1 .. m - 1 : q[y] # v
    BY <1>1, <1>3
  <2>2. q[m] # v
    BY <1>1, <2>1
  <2> QED
    BY <1>1, <2>1, <2>2
<1>4. Len(q) \in 0 .. Len(q)
  BY <1>1
<1> HIDE DEF B
<1>5. Len(q) \in B
  BY <1>1, <1>2, <1>3, <1>4, UpTo
<1> QED
  BY <1>1, <1>5 DEF B

\* What UpdateRoute finds leads to the next node: a virtual channel of a link has its buffer
\* on the node of the link, and a bus delivers in a buffer of the next node.
LEMMA UpdateRouteFacts ==
    ASSUME Parsed, net \in ManualNetworks, NEW s \in Nodes, NEW d, NEW next \in Nodes, NEW vc \in Channels,
           UpdateRoute(s, d, next, vc) # Null
    PROVE  UpdateRoute(s, d, next, vc) \in Ways(s, next)
<1> DEFINE D == Deciding(s, next, vc)
           b == FirstBuffer(D)
<1>0. D \in SUBSET OutputBuffers(s)
  BY DEF Deciding
<1>1. D # {}
  BY DEF UpdateRoute
<1>a. \A x \in D : Reaches(x, next) \/ (net[x.conn].kind = "bus" /\ vc # 0)
  BY DEF Deciding
<1> HIDE DEF D
<1>2. b \in D /\ b \in OutputBuffers(s)
  BY <1>0, <1>1, FirstBufferIsOne
<1>b. Reaches(b, next) \/ (net[b.conn].kind = "bus" /\ vc # 0)
  BY <1>a, <1>2
<1> HIDE DEF b
<1>3. /\ b.conn \in 1 .. Len(net) /\ net[b.conn] \in Connections
      /\ b.index \in 1 .. Len(net[b.conn].from) /\ net[b.conn].from[b.index] = s
  BY <1>2, BufferFacts
<1>4. /\ DOMAIN net = 1 .. Len(net) /\ net[b.conn].from \in Seq(Nodes) /\ net[b.conn].to \in Seq(Nodes)
      /\ net[b.conn].kind \in {"link", "bus"}
  BY <1>3 DEF Parsed, Connections
<1>5. DOMAIN net[b.conn].from = 1 .. Len(net[b.conn].from) /\ Len(net[b.conn].from) \in Nat
  BY <1>4
<1>6. CASE net[b.conn].kind = "link"
  <2>1. \A x, y \in DOMAIN net[b.conn].from : net[b.conn].from[x] = net[b.conn].from[y]
    BY <1>3, <1>4, <1>6, LinksAssumption
  <2>2. UpdateRoute(s, d, next, vc) = IF vc >= Len(net[b.conn].from) THEN Null ELSE OutputBuffer(b.conn, vc + 1)
    BY <1>1, <1>6 DEF UpdateRoute, ChannelBuffer, D, b
  <2>3. ~ (vc >= Len(net[b.conn].from)) /\ UpdateRoute(s, d, next, vc) = OutputBuffer(b.conn, vc + 1)
    BY <2>2
  <2>4. vc + 1 \in DOMAIN net[b.conn].from
    BY <1>5, <2>3, DimensionAssumption
  <2>5. net[b.conn].from[vc + 1] = s
    BY <1>3, <1>5, <2>1, <2>4
  <2>6. OutputBuffer(b.conn, vc + 1) \in OutputBuffers(s)
    BY <1>3, <1>4, <2>4, <2>5 DEF OutputBuffers
  <2>7. Reaches(OutputBuffer(b.conn, vc + 1), next)
    <3>1. Reaches(b, next)
      BY <1>b, <1>6
    <3> QED
      BY <3>1 DEF Reaches, OutputBuffer
  <2> QED
    BY <2>3, <2>6, <2>7 DEF Ways, Leading
<1>7. CASE net[b.conn].kind = "bus"
  <2> DEFINE P(x) == /\ net[b.conn].to[x] = next
                     /\ \A y \in 1 .. x - 1 : net[b.conn].to[y] # next
             m    == CHOOSE x \in DOMAIN net[b.conn].to : P(x)
  <2>1. UpdateRoute(s, d, next, vc) = IF vc # 0 THEN Null ELSE InputBuffer(b.conn, m)
    BY <1>1, <1>7 DEF UpdateRoute, D, b
  <2>2. vc = 0 /\ UpdateRoute(s, d, next, vc) = InputBuffer(b.conn, m)
    BY <2>1
  <2>3. \E x \in DOMAIN net[b.conn].to : net[b.conn].to[x] = next
    BY <1>b, <2>2 DEF Reaches
  <2>4. \E x \in DOMAIN net[b.conn].to : P(x)
    BY <1>4, <2>3, FirstPlace
  <2>5. m \in DOMAIN net[b.conn].to /\ net[b.conn].to[m] = next
    BY <2>4
  <2> HIDE DEF m, P
  <2>6. b.index \in DOMAIN net[b.conn].from /\ b.conn \in DOMAIN net
    BY <1>3, <1>4, <1>5
  <2>7. InputBuffer(b.conn, m) \in BusInputs(s, next)
    BY <1>3, <1>7, <2>5, <2>6 DEF BusInputs
  <2> QED
    BY <2>2, <2>7 DEF Ways
<1> QED
  BY <1>4, <1>6, <1>7

\* A buffer that leads somewhere is a buffer.
LEMMA WaysAreBuffers ==
    ASSUME Parsed, NEW i \in Nodes, NEW j, NEW b \in Ways(i, j)
    PROVE  b \in Buffers
<1>1. CASE b \in Leading(i, j)
  <2>1. b \in OutputBuffers(i)
    BY <1>1 DEF Leading
  <2> QED
    BY <2>1, BufferFacts DEF Buffers
<1>2. CASE b \in BusInputs(i, j)
  <2>1. PICK c \in DOMAIN net : \E x \in DOMAIN net[c].to : b = InputBuffer(c, x)
    BY <1>2 DEF BusInputs
  <2>2. PICK x \in DOMAIN net[c].to : b = InputBuffer(c, x)
    BY <2>1
  <2>3. c \in Nat /\ net[c].to \in Seq(Nodes)
    <3>1. DOMAIN net = 1 .. Len(net) /\ Len(net) \in Nat
      BY DEF Parsed
    <3>2. c \in Nat /\ net[c] \in Connections
      BY <3>1 DEF Parsed
    <3> QED
      BY <3>2 DEF Connections
  <2>4. x \in Nat
    BY <2>2, <2>3
  <2> QED
    BY <2>2, <2>3, <2>4 DEF InputBuffer, Buffers
<1> QED
  BY <1>1, <1>2 DEF Ways

\* An entry is replaced.
Replaced(u, t, s, d, e) == u = [t EXCEPT ![s][d] = e]

LEMMA EntryChanges ==
    ASSUME NEW t \in Tables, NEW u, NEW s, NEW d, NEW e, Replaced(u, t, s, d, e),
           s \in Nodes /\ d \in Nodes => e \in Entries
    PROVE  /\ u \in Tables
           /\ \A i, j \in Nodes : u[i][j] = IF i = s /\ j = d THEN e ELSE t[i][j]
<1>1. \A i \in Nodes : t[i] \in [Nodes -> Entries]
  BY DEF Tables
<1>2. ASSUME NEW i \in Nodes, NEW j \in Nodes PROVE u[i][j] = IF i = s /\ j = d THEN e ELSE t[i][j]
  BY <1>1 DEF Tables, Replaced
<1>3. ASSUME NEW i \in Nodes PROVE u[i] \in [Nodes -> Entries]
  BY <1>1 DEF Tables, Replaced
<1>4. u = [i \in Nodes |-> u[i]]
  BY DEF Tables, Replaced
<1> QED
  BY <1>2, <1>3, <1>4 DEF Tables

LEMMA RouteKeeps ==
    ASSUME Parsed, NEW t \in Tables, Named(t), NEW s, NEW d, NEW next \in Nodes, NEW b,
           s \in Nodes => b \in Ways(s, next)
    PROVE  LET u == [t EXCEPT ![s][d].next = next, ![s][d].buffer = b]
           IN  u \in Tables /\ Named(u)
<1> DEFINE e == [t[s][d] EXCEPT !.next = next, !.buffer = b]
           u == [t EXCEPT ![s][d].next = next, ![s][d].buffer = b]
<1>1. CASE s \in Nodes /\ d \in Nodes
  <2>0. t[s][d] \in Entries
    BY <1>1, TableFacts
  <2>1. b \in Buffers
    BY <1>1, WaysAreBuffers
  <2>2. e \in Entries /\ e.buffer = b /\ e.next = next
    BY <2>0, <2>1 DEF Entries
  <2>3. Replaced(u, t, s, d, e)
    <3>1. t[s] \in [Nodes -> Entries] /\ DOMAIN t = Nodes
      BY <1>1 DEF Tables
    <3> QED
      BY <1>1, <3>1 DEF Tables, Replaced
  <2> HIDE DEF e, u
  <2>4. u \in Tables /\ \A i, j \in Nodes : u[i][j] = IF i = s /\ j = d THEN e ELSE t[i][j]
    BY <2>2, <2>3, EntryChanges
  <2>5. Named(u)
    BY <1>1, <2>2, <2>4 DEF Named
  <2> QED
    BY <2>4, <2>5 DEF u
<1>2. CASE ~ (s \in Nodes /\ d \in Nodes)
  <2>1. u = t
    <3>1. CASE s \notin Nodes
      BY <3>1 DEF Tables
    <3>2. CASE s \in Nodes /\ d \notin Nodes
      BY <3>2 DEF Tables
    <3> QED
      BY <1>2, <3>1, <3>2
  <2> QED
    BY <2>1
<1> QED
  BY <1>1, <1>2

\* The walk from i to j, node by node.
Onto(t, j, w) == LET x == w[Len(w)]
                 IN  IF x = j \/ t[x][j].next = Null THEN w ELSE Append(w, t[x][j].next)
Walking(W, t, i, j) == W = [n \in 0 .. N + 1 |-> IF n = 0 THEN <<t[i][j].next>> ELSE Onto(t, j, W[n - 1])]
Walks == {w \in Seq(Nodes) : Len(w) >= 1}

LEMMA WalkFacts ==
    ASSUME NEW t \in Tables, NEW i \in Nodes, NEW j \in Nodes, t[i][j].next # Null
    PROVE  Walk(t, i, j) \in Walks
<1> DEFINE start == <<t[i][j].next>>
           step  == [n \in 1 .. N + 1 |-> [w \in Walks |-> Onto(t, j, w)]]
<1>0. N \in Nat /\ N + 1 \in Nat
  BY DimensionAssumption
<1>1. start \in Walks
  <2>1. t[i][j].next \in Nodes
    BY TableFacts
  <2> QED
    BY <2>1 DEF Walks
<1>2. ASSUME NEW w \in Walks PROVE Onto(t, j, w) \in Walks
  <2>1. w \in Seq(Nodes) /\ Len(w) \in Nat /\ Len(w) \in 1 .. Len(w)
    BY DEF Walks
  <2> DEFINE x == w[Len(w)]
  <2>2. x \in Nodes
    BY <2>1
  <2>3. t[x][j].next \in Nodes \cup {Null}
    BY <2>2, TableFacts
  <2> HIDE DEF x
  <2>4. t[x][j].next \in Nodes => Append(w, t[x][j].next) \in Walks
    BY <2>1 DEF Walks
  <2> QED
    BY <2>3, <2>4 DEF Onto, x
<1>3. step \in [1 .. N + 1 -> [Walks -> Walks]] /\ \A n \in 1 .. N + 1, w \in Walks : step[n][w] = Onto(t, j, w)
  BY <1>2
<1> HIDE DEF step, start
<1>4. PICK f : Loops(f, N + 1, Walks, start, step)
  BY <1>0, <1>1, <1>3, LoopRuns
<1>5. Walking(f, t, i, j)
  <2>1. /\ f \in [0 .. N + 1 -> Walks] /\ f[0] = start
        /\ \A n \in 1 .. N + 1 : f[n] = step[n][f[n - 1]]
    BY <1>4 DEF Loops
  <2>2. ASSUME NEW n \in 0 .. N + 1 PROVE f[n] = IF n = 0 THEN start ELSE Onto(t, j, f[n - 1])
    <3>1. CASE n = 0
      BY <2>1, <3>1
    <3>2. CASE n # 0
      <4>1. n \in 1 .. N + 1 /\ n - 1 \in 0 .. N + 1
        BY <1>0, <3>2
      <4>2. f[n - 1] \in Walks
        BY <2>1, <4>1
      <4> QED
        BY <1>3, <2>1, <3>2, <4>1, <4>2
    <3> QED
      BY <3>1, <3>2
  <2>3. f = [n \in 0 .. N + 1 |-> f[n]]
    BY <2>1
  <2> QED
    BY <2>2, <2>3 DEF Walking, start
<1> DEFINE W == CHOOSE h : Walking(h, t, i, j)
<1>6. Walking(W, t, i, j)
  BY <1>5
<1>7. Walk(t, i, j) = W[N + 1]
  BY DEF Walk, Walking, Onto
<1> HIDE DEF W
<1>8. W[0] = start /\ \A n \in 1 .. N + 1 : W[n] = Onto(t, j, W[n - 1])
  <2>1. \A n \in 0 .. N + 1 : W[n] = IF n = 0 THEN start ELSE Onto(t, j, W[n - 1])
    BY <1>6 DEF Walking, start
  <2>2. 0 \in 0 .. N + 1 /\ \A n \in 1 .. N + 1 : n \in 0 .. N + 1 /\ n # 0
    BY <1>0
  <2> QED
    BY <2>1, <2>2
<1> DEFINE B == {n \in 0 .. N + 1 : W[n] \in Walks}
<1>9. 0 \in B /\ \A n \in 1 .. N + 1 : n - 1 \in B => n \in B
  <2>1. 0 \in 0 .. N + 1 /\ \A n \in 1 .. N + 1 : n \in 0 .. N + 1
    BY <1>0
  <2> QED
    BY <1>1, <1>2, <1>8, <2>1
<1> HIDE DEF B
<1>10. N + 1 \in B
  <2>1. N + 1 \in 0 .. N + 1
    BY <1>0
  <2> QED
    BY <1>0, <1>9, <2>1, UpTo
<1> QED
  BY <1>7, <1>10 DEF B

\* The costs along a walk.
Summing(f, w, c, u) ==
    f = [k \in 0 .. Len(w) - 1 |-> IF k = 0 THEN c ELSE f[k - 1] + u[w[k]][w[k + 1]].cost]

LEMMA SumFacts ==
    ASSUME NEW u \in Tables, NEW w \in Walks, NEW c \in Nat
    PROVE  (CHOOSE f : Summing(f, w, c, u))[Len(w) - 1] \in Nat
<1> DEFINE n    == Len(w) - 1
           h(k) == u[w[k]][w[k + 1]].cost
           step == [k \in 1 .. n |-> [x \in Nat |-> x + h(k)]]
<1>0. n \in Nat
  BY DEF Walks
<1>1. ASSUME NEW k \in 1 .. n PROVE h(k) \in Nat
  <2>1. w \in Seq(Nodes) /\ k \in 1 .. Len(w) /\ k + 1 \in 1 .. Len(w)
    BY DEF Walks
  <2>2. w[k] \in Nodes /\ w[k + 1] \in Nodes
    BY <2>1
  <2> QED
    BY <2>2, TableFacts
<1> HIDE DEF h
<1>2. step \in [1 .. n -> [Nat -> Nat]] /\ \A k \in 1 .. n, x \in Nat : step[k][x] = x + h(k)
  <2> HIDE DEF n
  <2> QED
    BY <1>1
<1> HIDE DEF step
<1>3. PICK f : Loops(f, n, Nat, c, step)
  <2> HIDE DEF n
  <2> QED
    BY <1>0, <1>2, LoopRuns
<1>4. Summing(f, w, c, u)
  <2> HIDE DEF n
  <2>1. /\ f \in [0 .. n -> Nat] /\ f[0] = c
        /\ \A k \in 1 .. n : f[k] = step[k][f[k - 1]]
    BY <1>3 DEF Loops
  <2>2. ASSUME NEW k \in 0 .. n PROVE f[k] = IF k = 0 THEN c ELSE f[k - 1] + h(k)
    <3>1. CASE k = 0
      BY <2>1, <3>1
    <3>2. CASE k # 0
      <4>1. k \in 1 .. n /\ k - 1 \in 0 .. n
        BY <1>0, <3>2
      <4>2. f[k - 1] \in Nat
        BY <2>1, <4>1
      <4> QED
        BY <1>2, <2>1, <3>2, <4>1, <4>2
    <3> QED
      BY <3>1, <3>2
  <2>3. f = [k \in 0 .. n |-> f[k]]
    BY <2>1
  <2>4. f = [k \in 0 .. n |-> IF k = 0 THEN c ELSE f[k - 1] + h(k)]
    BY <2>2, <2>3
  <2> QED
    BY <2>4 DEF Summing, n, h
<1> DEFINE g == CHOOSE f_1 : Summing(f_1, w, c, u)
<1>5. Summing(g, w, c, u)
  BY <1>4
<1> HIDE DEF g
<1>6. g = [k \in 0 .. n |-> IF k = 0 THEN c ELSE g[k - 1] + h(k)]
  BY <1>5 DEF Summing, h
<1> HIDE DEF n
<1>7. g[0] = c /\ \A k \in 1 .. n : g[k] = g[k - 1] + h(k)
  <2>1. \A k \in 0 .. n : g[k] = IF k = 0 THEN c ELSE g[k - 1] + h(k)
    BY <1>6
  <2>2. 0 \in 0 .. n /\ \A k \in 1 .. n : k \in 0 .. n /\ k # 0
    BY <1>0
  <2> QED
    BY <2>1, <2>2
<1> DEFINE B == {k \in 0 .. n : g[k] \in Nat}
<1>8. 0 \in B /\ \A k \in 1 .. n : k - 1 \in B => k \in B
  <2>1. 0 \in 0 .. n /\ \A k \in 1 .. n : k \in 0 .. n
    BY <1>0
  <2> QED
    BY <1>1, <1>7, <2>1
<1> HIDE DEF B
<1>9. n \in B
  <2>1. n \in 0 .. n
    BY <1>0
  <2> QED
    BY <1>0, <1>8, <2>1, UpTo
<1>10. g[n] \in Nat
  BY <1>9 DEF B
<1> QED
  BY <1>10 DEF g, n

\* A cost is replaced.
LEMMA CostKeeps ==
    ASSUME NEW t \in Tables, Named(t), NEW i \in Nodes, NEW j \in Nodes, NEW c \in Nat
    PROVE  LET u == [t EXCEPT ![i][j].cost = c]
           IN  u \in Tables /\ Named(u)
<1> DEFINE e == [t[i][j] EXCEPT !.cost = c]
           u == [t EXCEPT ![i][j].cost = c]
<1>0. t[i][j] \in Entries
  BY TableFacts
<1>1. e \in Entries /\ e.buffer = t[i][j].buffer /\ e.next = t[i][j].next
  BY <1>0 DEF Entries
<1>2. Replaced(u, t, i, j, e)
  <2>1. t[i] \in [Nodes -> Entries] /\ DOMAIN t = Nodes
    BY DEF Tables
  <2> QED
    BY <2>1 DEF Tables, Replaced
<1> HIDE DEF e, u
<1>3. u \in Tables /\ \A x, y \in Nodes : u[x][y] = IF x = i /\ y = j THEN e ELSE t[x][y]
  BY <1>1, <1>2, EntryChanges
<1>4. Named(u)
  BY <1>1, <1>3 DEF Named
<1> QED
  BY <1>3, <1>4 DEF u

Recosted(u, t, i, j, c) == u = [t EXCEPT ![i][j].cost = c]

LEMMA CostOutside ==
    ASSUME NEW t \in Tables, NEW i, NEW j, ~ (i \in Nodes /\ j \in Nodes),
           NEW c, NEW u, Recosted(u, t, i, j, c)
    PROVE  u = t
<1>1. CASE i \notin Nodes
  BY <1>1 DEF Tables, Recosted
<1>2. CASE i \in Nodes /\ j \notin Nodes
  BY <1>2 DEF Tables, Recosted
<1> QED
  BY <1>1, <1>2

\* Tables whose entries lead on.
NamedTables == {t \in Tables : Named(t)}

LEMMA UpdateCostKeeps ==
    ASSUME NEW t \in NamedTables, NEW n
    PROVE  UpdateCost(t, n) \in NamedTables
<1> DEFINE i     == (n \div N) + 1
           j     == (n % N) + 1
           w     == Walk(t, i, j)
           first == t[i][w[1]].cost
           t1    == [t EXCEPT ![i][j].cost = first]
           sum   == CHOOSE f : Summing(f, w, first, t1)
           u     == [t1 EXCEPT ![i][j].cost = sum[Len(w) - 1]]
<1>0. t \in Tables /\ Named(t)
  BY DEF NamedTables
<1>1. UpdateCost(t, n) = IF t[i][j].next = Null THEN t ELSE u
  BY DEF UpdateCost, Summing
<1> HIDE DEF i, j
<1>2. CASE i \in Nodes /\ j \in Nodes /\ t[i][j].next # Null
  <2>1. w \in Walks
    BY <1>0, <1>2, WalkFacts
  <2> HIDE DEF w
  <2>2. first \in Nat
    <3>1. w \in Seq(Nodes) /\ 1 \in 1 .. Len(w)
      BY <2>1 DEF Walks
    <3>2. w[1] \in Nodes
      BY <3>1
    <3> QED
      BY <1>0, <1>2, <3>2, TableFacts
  <2> HIDE DEF first
  <2>3. t1 \in Tables /\ Named(t1)
    BY <1>0, <1>2, <2>2, CostKeeps
  <2> HIDE DEF t1
  <2>4. sum[Len(w) - 1] \in Nat
    BY <2>1, <2>2, <2>3, SumFacts
  <2> HIDE DEF sum
  <2>5. u \in Tables /\ Named(u)
    BY <1>2, <2>3, <2>4, CostKeeps
  <2> HIDE DEF u
  <2> QED
    BY <1>1, <1>2, <2>5 DEF NamedTables
<1>3. CASE ~ (i \in Nodes /\ j \in Nodes)
  <2> HIDE DEF w, first, sum
  <2>1. Recosted(t1, t, i, j, first)
    BY DEF Recosted
  <2>2. Recosted(u, t1, i, j, sum[Len(w) - 1])
    BY DEF Recosted
  <2> HIDE DEF t1, u
  <2>3. t1 = t
    BY <1>0, <1>3, <2>1, CostOutside
  <2>4. u = t
    BY <1>0, <1>3, <2>2, <2>3, CostOutside
  <2> QED
    BY <1>1, <2>4
<1> QED
  BY <1>1, <1>2, <1>3

Costing(f, t) == f = [n \in 0 .. N * N |-> IF n = 0 THEN t ELSE UpdateCost(f[n - 1], n - 1)]

LEMMA CostedKeeps ==
    ASSUME NEW t \in NamedTables
    PROVE  CostedTable(t) \in NamedTables
<1> DEFINE m    == N * N
           step == [n \in 1 .. m |-> [u \in NamedTables |-> UpdateCost(u, n - 1)]]
<1>0. m \in Nat
  BY DimensionAssumption
<1>1. step \in [1 .. m -> [NamedTables -> NamedTables]]
      /\ \A n \in 1 .. m, u \in NamedTables : step[n][u] = UpdateCost(u, n - 1)
  <2> HIDE DEF m
  <2> QED
    BY UpdateCostKeeps
<1> HIDE DEF step, m
<1>2. PICK f : Loops(f, m, NamedTables, t, step)
  BY <1>0, <1>1, LoopRuns
<1>3. Costing(f, t)
  <2>1. /\ f \in [0 .. m -> NamedTables] /\ f[0] = t
        /\ \A n \in 1 .. m : f[n] = step[n][f[n - 1]]
    BY <1>2 DEF Loops
  <2>2. ASSUME NEW n \in 0 .. m PROVE f[n] = IF n = 0 THEN t ELSE UpdateCost(f[n - 1], n - 1)
    <3>1. CASE n = 0
      BY <2>1, <3>1
    <3>2. CASE n # 0
      <4>1. n \in 1 .. m /\ n - 1 \in 0 .. m
        BY <1>0, <3>2
      <4>2. f[n - 1] \in NamedTables
        BY <2>1, <4>1
      <4> QED
        BY <1>1, <2>1, <3>2, <4>1, <4>2
    <3> QED
      BY <3>1, <3>2
  <2>3. f = [n \in 0 .. m |-> f[n]]
    BY <2>1
  <2>4. f = [n \in 0 .. m |-> IF n = 0 THEN t ELSE UpdateCost(f[n - 1], n - 1)]
    BY <2>2, <2>3
  <2> QED
    BY <2>4 DEF Costing, m
<1> DEFINE after == CHOOSE g : Costing(g, t)
<1>4. Costing(after, t)
  BY <1>3
<1>5. CostedTable(t) = after[m]
  BY DEF CostedTable, Costing, m
<1> HIDE DEF after
<1>6. after[0] = t /\ \A n \in 1 .. m : after[n] = UpdateCost(after[n - 1], n - 1)
  <2>1. \A n \in 0 .. m : after[n] = IF n = 0 THEN t ELSE UpdateCost(after[n - 1], n - 1)
    BY <1>4 DEF Costing, m
  <2>2. 0 \in 0 .. m /\ \A n \in 1 .. m : n \in 0 .. m /\ n # 0
    BY <1>0
  <2> QED
    BY <2>1, <2>2
<1> DEFINE B == {n \in 0 .. m : after[n] \in NamedTables}
<1>7. 0 \in B /\ \A n \in 1 .. m : n - 1 \in B => n \in B
  <2>1. 0 \in 0 .. m /\ \A n \in 1 .. m : n \in 0 .. m
    BY <1>0
  <2> QED
    BY <1>6, <2>1, UpdateCostKeeps
<1> HIDE DEF B
<1>8. m \in B
  <2>1. m \in 0 .. m
    BY <1>0
  <2> QED
    BY <1>0, <1>7, <2>1, UpTo
<1> QED
  BY <1>5, <1>8 DEF B

---------------------------------------------------------------------------
(* The invariant. *)

Phases == {"parsed", "initialized", "routed", "searching", "ok", "warned", "error", "endless", "assertion"}

\* The loop over k, after its first turns, and the table that it leaves.
Computing(t, k) == k \in 0 .. N /\ Sound(t) /\ Detours(t, k) /\ Via(t)
Computed(t)     == Sound(t) /\ Detours(t, N) /\ Arrives(t) /\ Named(t)

RInv ==
    /\ phase \in Phases /\ manual \in BOOLEAN /\ Parsed
    /\ manual = TRUE => net \in ManualNetworks
    /\ phase = "parsed" => pair = 0
    /\ phase # "parsed" => table \in Tables
    /\ phase = "initialized" /\ manual = FALSE => Computing(table, pair)
    /\ phase \notin {"parsed", "initialized"} /\ manual = FALSE => Computed(table)
    /\ phase # "parsed" /\ manual = TRUE => Named(table)

LEMMA InitStarts ==
    ASSUME Init PROVE RInv
<1>1. net \in Seq(Connections)
  BY NetworkAssumption DEF Init
<1> QED
  BY <1>1 DEF Init, RInv, Parsed, Phases

LEMMA InitializeKeeps ==
    ASSUME RInv, Initialize PROVE RInv'
<1> DEFINE t == InitialTable
<1>1. /\ phase' = "initialized" /\ table' = t /\ net' = net /\ manual' = manual /\ pair' = pair
      /\ pair = 0 /\ Parsed /\ manual \in BOOLEAN /\ (manual = TRUE => net \in ManualNetworks)
  BY DEF RInv, Initialize
<1>2. t \in Tables /\ Sound(t) /\ Via(t) /\ Detours(t, 0) /\ Named(t)
  BY <1>1, InitialFacts
<1> HIDE DEF t
<1>3. Sound(table)' /\ Via(table)' /\ Named(table)'
  BY <1>1, <1>2, SoundStays, ViaStays, NamedStays
<1>4. Detours(table, pair)' /\ pair' \in 0 .. N
  BY <1>1, DimensionAssumption DEF Detours
<1>5. Computing(table, pair)'
  BY <1>3, <1>4 DEF Computing
<1>6. Parsed'
  BY <1>1 DEF Parsed
<1> QED
  BY <1>1, <1>2, <1>3, <1>5, <1>6 DEF RInv, Phases

LEMMA FloydWarshallKeeps ==
    ASSUME RInv, FloydWarshall PROVE RInv'
<1>1. /\ net' = net /\ manual' = manual /\ manual = FALSE /\ Parsed /\ table \in Tables
      /\ pair \in 0 .. N /\ Sound(table) /\ Detours(table, pair) /\ Via(table) /\ phase = "initialized"
  BY DEF RInv, FloydWarshall, Computing
<1>0. N \in Nat
  BY DimensionAssumption
<1>2. Parsed'
  BY <1>1 DEF Parsed
<1>3. CASE pair < N
  <2> DEFINE t == Relaxed(pair + 1)
  <2>1. table' = t /\ pair' = pair + 1 /\ phase' = "initialized"
    BY <1>1, <1>3 DEF FloydWarshall
  <2>2. pair + 1 \in Nodes /\ pair' \in 0 .. N /\ pair + 1 - 1 = pair
    BY <1>0, <1>1, <1>3, <2>1 DEF Nodes
  <2>3. t \in Tables /\ Sound(t)
    BY <1>1, <2>2, RelaxedSound
  <2>4. Via(t)
    BY <1>1, <2>2, RelaxedVia
  <2>5. Detours(t, pair + 1)
    BY <1>1, <2>2, RelaxedDetours
  <2> HIDE DEF t
  <2>6. Sound(table)' /\ Via(table)'
    BY <1>1, <2>1, <2>3, <2>4, SoundStays, ViaStays
  <2>7. Detours(table, pair)'
    BY <2>1, <2>5 DEF Detours
  <2>8. Computing(table, pair)'
    BY <2>2, <2>6, <2>7 DEF Computing
  <2> QED
    BY <1>1, <1>2, <2>1, <2>3, <2>8 DEF RInv, Phases
<1>4. CASE ~ (pair < N)
  <2> DEFINE t == Resolved
  <2>1. table' = t /\ pair' = pair /\ phase' = "routed"
    BY <1>4 DEF FloydWarshall
  <2>2. pair = N
    BY <1>0, <1>1, <1>4
  <2>3. t \in Tables /\ Sound(t) /\ Detours(t, N) /\ Arrives(t) /\ Named(t)
    BY <1>1, <2>2, ResolvedFacts
  <2> HIDE DEF t
  <2>4. Sound(table)' /\ Arrives(table)' /\ Named(table)'
    BY <1>1, <2>1, <2>3, SoundStays, ArrivesStays, NamedStays
  <2>5. Detours(table, N)'
    BY <2>1, <2>3 DEF Detours
  <2>6. Computed(table)'
    BY <2>4, <2>5 DEF Computed
  <2> QED
    BY <1>1, <1>2, <2>1, <2>3, <2>6 DEF RInv, Phases
<1> QED
  BY <1>3, <1>4

\* With routes of its own the entries of the table only have to lead on.
LEMMA ManualKeeps ==
    ASSUME Parsed, net' = net, manual' = manual, manual = TRUE, net \in ManualNetworks,
           phase' \in Phases, phase' # "parsed", NEW t \in Tables, table' = t, Named(t)
    PROVE  RInv'
<1>1. Named(table)'
  BY NamedStays
<1>2. Parsed'
  BY DEF Parsed
<1> QED
  BY <1>1, <1>2 DEF RInv

LEMMA RouteStepKeeps ==
    ASSUME RInv, RouteStep PROVE RInv'
<1> DEFINE s == (pair \div N) + 1
           d == (pair % N) + 1
<1>1. /\ net' = net /\ manual' = manual /\ manual = TRUE /\ Parsed /\ table \in Tables /\ Named(table)
      /\ net \in ManualNetworks /\ phase = "initialized"
  BY DEF RInv, RouteStep
<1>2. CASE UNCHANGED <<table, phase>>
  BY <1>1, <1>2, ManualKeeps DEF Phases
<1>3. CASE \E next \in Nodes, vc \in Channels :
             LET b == IF s = d THEN Null ELSE UpdateRoute(s, d, next, vc)
             IN  IF b = Null THEN phase' = "error" /\ UNCHANGED table
                 ELSE /\ table' = [table EXCEPT ![s][d].next = next, ![s][d].buffer = b]
                      /\ UNCHANGED phase
  <2> HIDE DEF s, d
  <2>1. PICK next \in Nodes, vc \in Channels :
             LET b == IF s = d THEN Null ELSE UpdateRoute(s, d, next, vc)
             IN  IF b = Null THEN phase' = "error" /\ UNCHANGED table
                 ELSE /\ table' = [table EXCEPT ![s][d].next = next, ![s][d].buffer = b]
                      /\ UNCHANGED phase
    BY <1>3
  <2> DEFINE b == IF s = d THEN Null ELSE UpdateRoute(s, d, next, vc)
             t == [table EXCEPT ![s][d].next = next, ![s][d].buffer = b]
  <2>2. CASE b = Null
    BY <1>1, <2>1, <2>2, ManualKeeps DEF Phases
  <2>3. CASE b # Null
    <3>1. table' = t /\ phase' = phase
      BY <2>1, <2>3
    <3>2. b = UpdateRoute(s, d, next, vc)
      BY <2>3
    <3>3. s \in Nodes => b \in Ways(s, next)
      BY <1>1, <2>3, <3>2, UpdateRouteFacts
    <3> HIDE DEF b
    <3>4. t \in Tables /\ Named(t)
      BY <1>1, <3>3, RouteKeeps
    <3> HIDE DEF t
    <3> QED
      BY <1>1, <3>1, <3>4, ManualKeeps DEF Phases
  <2> QED
    BY <2>2, <2>3
<1> QED
  BY <1>2, <1>3 DEF RouteStep

LEMMA UpdateManualRoutingCostKeeps ==
    ASSUME RInv, UpdateManualRoutingCost PROVE RInv'
<1>1. /\ net' = net /\ manual' = manual /\ manual = TRUE /\ Parsed /\ table \in Tables /\ Named(table)
      /\ net \in ManualNetworks
  BY DEF RInv, UpdateManualRoutingCost
<1> DEFINE t == CostedTable(table)
<1>2. t \in Tables /\ Named(t)
  BY <1>1, CostedKeeps DEF NamedTables
<1> HIDE DEF t
<1>3. (table' = t /\ phase' = "routed") \/ (table' = table /\ phase' = "endless")
  BY DEF UpdateManualRoutingCost, t
<1> QED
  BY <1>1, <1>2, <1>3, ManualKeeps DEF Phases

\* The search for cycles leaves the table as it is.
LEMMA SearchKeeps ==
    ASSUME RInv, net' = net, table' = table, manual' = manual, phase' \in Phases,
           phase \notin {"parsed", "initialized"}, phase' \notin {"parsed", "initialized"}
    PROVE  RInv'
<1>1. manual \in BOOLEAN /\ Parsed /\ table \in Tables /\ (manual = TRUE => net \in ManualNetworks)
  BY DEF RInv
<1>2. Parsed'
  BY <1>1 DEF Parsed
<1>3. ASSUME manual = FALSE PROVE Computed(table)'
  <2>1. Sound(table) /\ Detours(table, N) /\ Arrives(table) /\ Named(table)
    BY <1>3 DEF RInv, Computed
  <2>2. Sound(table)' /\ Arrives(table)' /\ Named(table)'
    BY <1>1, <2>1, SoundStays, ArrivesStays, NamedStays
  <2>3. Detours(table, N)'
    BY <2>1 DEF Detours
  <2> QED
    BY <2>2, <2>3 DEF Computed
<1>4. ASSUME manual = TRUE PROVE Named(table)'
  <2>1. Named(table)
    BY <1>4 DEF RInv
  <2> QED
    BY <1>1, <2>1, NamedStays
<1> QED
  BY <1>1, <1>2, <1>3, <1>4 DEF RInv

LEMMA MakeGraphKeeps ==
    ASSUME RInv, MakeGraph PROVE RInv'
<1>1. /\ phase = "routed" /\ phase' \in {"assertion", "searching"}
      /\ net' = net /\ table' = table /\ manual' = manual
  BY DEF MakeGraph
<1> QED
  BY <1>1, SearchKeeps DEF Phases

LEMMA CheckCyclesKeeps ==
    ASSUME RInv, CheckCycles PROVE RInv'
<1>1. /\ phase = "searching" /\ phase' \in {"warned", "ok"}
      /\ net' = net /\ table' = table /\ manual' = manual
  BY DEF CheckCycles
<1> QED
  BY <1>1, SearchKeeps DEF Phases

LEMMA StutterKeeps ==
    ASSUME RInv, UNCHANGED vars PROVE RInv'
<1>1. /\ net' = net /\ table' = table /\ manual' = manual /\ phase' = phase /\ pair' = pair
  BY DEF vars
<1>2. manual \in BOOLEAN /\ Parsed /\ phase \in Phases /\ (manual = TRUE => net \in ManualNetworks)
  BY DEF RInv
<1>3. Parsed'
  BY <1>1, <1>2 DEF Parsed
<1>4. CASE phase = "parsed"
  BY <1>1, <1>2, <1>3, <1>4 DEF RInv
<1>5. CASE phase = "initialized"
  <2>1. table \in Tables /\ (manual = FALSE => Computing(table, pair)) /\ (manual = TRUE => Named(table))
    BY <1>5 DEF RInv
  <2>2. ASSUME manual = FALSE PROVE Computing(table, pair)'
    <3>1. pair \in 0 .. N /\ Sound(table) /\ Detours(table, pair) /\ Via(table)
      BY <2>1, <2>2 DEF Computing
    <3>2. Sound(table)' /\ Via(table)'
      BY <1>1, <2>1, <3>1, SoundStays, ViaStays
    <3>3. Detours(table, pair)'
      BY <1>1, <3>1 DEF Detours
    <3> QED
      BY <1>1, <3>1, <3>2, <3>3 DEF Computing
  <2>3. ASSUME manual = TRUE PROVE Named(table)'
    BY <1>1, <2>1, <2>3, NamedStays
  <2> QED
    BY <1>1, <1>2, <1>3, <1>5, <2>1, <2>2, <2>3 DEF RInv
<1>6. CASE phase \notin {"parsed", "initialized"}
  BY <1>1, <1>2, <1>6, SearchKeeps
<1> QED
  BY <1>4, <1>5, <1>6

\* The invariant holds of every network, through the loops of FloydWarshall and the route
\* steps of the configuration.
THEOREM RoutingInvariant == Spec => []RInv
<1>1. Init => RInv
  BY InitStarts
<1>2. RInv /\ [Next]_vars => RInv'
  <2> SUFFICES ASSUME RInv, [Next]_vars PROVE RInv'
    OBVIOUS
  <2>1. CASE Initialize
    BY <2>1, InitializeKeeps
  <2>2. CASE FloydWarshall
    BY <2>2, FloydWarshallKeeps
  <2>3. CASE RouteStep
    BY <2>3, RouteStepKeeps
  <2>4. CASE UpdateManualRoutingCost
    BY <2>4, UpdateManualRoutingCostKeeps
  <2>5. CASE MakeGraph
    BY <2>5, MakeGraphKeeps
  <2>6. CASE CheckCycles
    BY <2>6, CheckCyclesKeeps
  <2>7. CASE UNCHANGED vars
    BY <2>7, StutterKeeps
  <2> QED
    BY <2>1, <2>2, <2>3, <2>4, <2>5, <2>6, <2>7 DEF Next
<1> QED
  BY <1>1, <1>2, PTL DEF Spec

---------------------------------------------------------------------------
(* Shortest paths. *)

\* A node that n hops reach costs no more than n: one hop more costs one more.
LEMMA CostIsLeast ==
    ASSUME table \in Tables, Sound(table), Detours(table, N), NEW i \in Nodes, NEW n \in Nat,
           NEW j \in Within(i, n)
    PROVE  table[i][j].cost <= n
<1> DEFINE B == {m \in Nat : \A y \in Within(i, m) : table[i][y].cost <= m}
<1>1. \A x, y \in Nodes : table[x][y].cost \in Nat
  BY TableFacts
<1>2. \A x, y, z \in Nodes : table[x][z].cost <= table[x][y].cost + table[y][z].cost
  BY DEF Detours, Nodes
<1>3. 0 \in B
  <2>1. Within(i, 0) = {i} /\ table[i][i].cost = 0
    BY WithinSteps DEF Sound
  <2> QED
    BY <2>1
<1>4. ASSUME NEW m \in 1 .. n, m - 1 \in B PROVE m \in B
  <2>1. m \in Nat /\ m - 1 \in Nat /\ m - 1 + 1 = m
    OBVIOUS
  <2>2. Within(i, m) = Onward(Within(i, m - 1)) /\ Within(i, m - 1) \subseteq Nodes
    BY <2>1, WithinSteps
  <2>3. \A y \in Within(i, m - 1) : table[i][y].cost <= m - 1
    BY <1>4
  <2>4. ASSUME NEW y \in Within(i, m) PROVE table[i][y].cost <= m
    <3>1. CASE y \in Within(i, m - 1)
      <4>1. table[i][y].cost <= m - 1 /\ table[i][y].cost \in Nat
        BY <1>1, <2>2, <2>3, <3>1
      <4> QED
        BY <2>1, <4>1
    <3>2. CASE y \notin Within(i, m - 1)
      <4>1. y \in Nodes /\ \E x \in Within(i, m - 1) : Leading(x, y) # {}
        BY <2>2, <3>2 DEF Onward
      <4>2. PICK x \in Within(i, m - 1) : Leading(x, y) # {}
        BY <4>1
      <4>3. x \in Nodes /\ x # y
        BY <2>2, <3>2
      <4>4. table[x][y].cost <= 1 /\ table[x][y].cost \in Nat
        BY <1>1, <4>1, <4>2, <4>3 DEF Sound
      <4>5. table[i][x].cost <= m - 1 /\ table[i][x].cost \in Nat /\ table[i][y].cost \in Nat
        BY <1>1, <2>3, <4>1, <4>3
      <4>6. table[i][y].cost <= table[i][x].cost + table[x][y].cost
        BY <1>2, <4>1, <4>3
      <4> QED
        BY <2>1, <4>4, <4>5, <4>6
    <3> QED
      BY <3>1, <3>2
  <2> QED
    BY <2>1, <2>4
<1>5. n \in 0 .. n
  OBVIOUS
<1> HIDE DEF B
<1>6. n \in B
  BY <1>3, <1>4, <1>5, UpTo
<1> QED
  BY <1>6 DEF B

\* Found: the table of a network without routes of its own is that of shortest paths.
LEMMA ComputedIsShortest ==
    ASSUME table \in Tables, Computed(table), NEW i \in Nodes, NEW j \in Nodes
    PROVE  LET c == table[i][j].cost
           IN  IF j \in Within(i, N)
               THEN /\ j \in Within(i, c) /\ (c > 0 => j \notin Within(i, c - 1))
                    /\ i # j => table[i][j].next # Null
               ELSE c = N /\ table[i][j].buffer = Null
<1> DEFINE c == table[i][j].cost
<1>0. N \in Nat
  BY DimensionAssumption
<1>1. Sound(table) /\ Detours(table, N) /\ Arrives(table)
  BY DEF Computed
<1>2. /\ c \in Nat /\ c <= N /\ (i = j => c = 0)
      /\ i # j /\ table[i][j].next = Null => c = N
      /\ table[i][j].next # Null => j \in Within(i, c)
  BY <1>1, TableFacts DEF Sound
<1>3. i \in Within(i, 0)
  BY WithinSteps
<1>4. table[i][j].next = Null => table[i][j].buffer = Null
  BY <1>1 DEF Arrives
<1> HIDE DEF c
<1>5. CASE j \in Within(i, N)
  <2>1. j \in Within(i, c)
    BY <1>2, <1>3, <1>5
  <2>2. ASSUME c > 0 PROVE j \notin Within(i, c - 1)
    <3>1. c - 1 \in Nat /\ ~ (c <= c - 1)
      BY <1>2, <2>2
    <3> QED
      BY <1>1, <3>1, CostIsLeast DEF c
  <2>3. ASSUME i # j PROVE table[i][j].next # Null
    <3>1. N - 1 \in Nat /\ ~ (N <= N - 1)
      BY DimensionAssumption
    <3>2. j \in Within(i, N - 1)
      BY <1>5, FarthestNode
    <3>3. c <= N - 1
      BY <1>1, <3>1, <3>2, CostIsLeast DEF c
    <3> QED
      BY <1>2, <2>3, <3>1, <3>3
  <2> QED
    BY <1>5, <2>1, <2>2, <2>3 DEF c
<1>6. CASE j \notin Within(i, N)
  <2>1. Within(i, c) \subseteq Within(i, N)
    BY <1>0, <1>2, WithinGrows
  <2>2. table[i][j].next = Null
    BY <1>2, <1>6, <2>1
  <2>3. i # j
    BY <1>0, <1>3, <1>6, WithinGrows
  <2> QED
    BY <1>2, <1>4, <1>6, <2>2, <2>3 DEF c
<1> QED
  BY <1>5, <1>6

\* When RoutingTable::FloydWarshall has filled the table, the cost of every entry is the
\* number of hops of a shortest path, with a next node wherever there is a path, and N
\* without a buffer where there is none: for every number of nodes and every network of
\* links and buses.
THEOREM RoutingFindsShortestRoutes == Spec => []RoutesAreShortest
<1>1. RInv => RoutesAreShortest
  <2> SUFFICES ASSUME RInv, Done, ~ manual
               PROVE  \A i, j \in Nodes :
                          LET c == table[i][j].cost
                          IN  IF j \in Within(i, N)
                              THEN /\ j \in Within(i, c) /\ (c > 0 => j \notin Within(i, c - 1))
                                   /\ i # j => table[i][j].next # Null
                              ELSE c = N /\ table[i][j].buffer = Null
    BY DEF RoutesAreShortest
  <2>1. table \in Tables /\ Computed(table)
    BY DEF RInv, Done
  <2> QED
    BY <2>1, ComputedIsShortest
<1> QED
  BY <1>1, RoutingInvariant, PTL

\* Every route that RoutingTable.cc stores leads on: the buffer of an entry, also one that
\* UpdateRoute found on a link with virtual channels or on a bus, is on a connection from the
\* node to the next node of the entry, and where FloydWarshall filled the table the next node
\* is one hop closer to the destination.
THEOREM RoutingIsUsable == Spec => []RoutesAreUsable
<1>1. RInv => TypeOK
  <2> SUFFICES ASSUME RInv PROVE TypeOK
    OBVIOUS
  <2>1. phase \in Phases /\ manual \in BOOLEAN
    BY DEF RInv
  <2>2. ASSUME phase # "parsed", NEW i \in Nodes, NEW j \in Nodes
        PROVE  /\ table[i][j].cost \in Nat /\ (~ manual => table[i][j].cost <= N)
               /\ table[i][j].next \in Nodes \cup {Null}
    <3>1. table \in Tables
      BY <2>2 DEF RInv
    <3>2. ASSUME ~ manual PROVE table[i][j].cost <= N
      <4>1. Sound(table)
        BY <2>1, <2>2, <3>2 DEF RInv, Computing, Computed
      <4> QED
        BY <4>1 DEF Sound
    <3> QED
      BY <3>1, <3>2, TableFacts
  <2> QED
    BY <2>1, <2>2 DEF TypeOK, Phases
<1>2. RInv => RoutesArrive
  <2> SUFFICES ASSUME RInv, Done, ~ manual PROVE RoutesArrive
    BY DEF RoutesArrive
  <2>1. Arrives(table)
    BY DEF RInv, Done, Computed
  <2> QED
    BY <2>1 DEF Arrives, RoutesArrive
<1>3. RInv => EntriesLeadOn
  <2> SUFFICES ASSUME RInv, Routed PROVE EntriesLeadOn
    BY DEF EntriesLeadOn
  <2>1. Named(table)
    BY DEF RInv, Routed, Computed
  <2> QED
    BY <2>1 DEF Named, Ways, EntriesLeadOn
<1>4. RInv => RoutesAreUsable
  BY <1>1, <1>2, <1>3 DEF RoutesAreUsable
<1> QED
  BY <1>4, RoutingInvariant, PTL
=============================================================================
