----------------------------- MODULE Algorithms -----------------------------
(***************************************************************************)
(* A caller of the algorithms that keep no state: the two sorts, the       *)
(* position arithmetic of the ORAM, the decoding of DRAM addresses and the *)
(* benchmark kernels.  It makes one call, with any small arguments; the    *)
(* properties compare the result with what the function is for.            *)
(***************************************************************************)
EXTENDS Sort, OramTree, PathLevels, DramAddress, Kernels, FiniteSets

CONSTANTS
    Sizes,          \* array lengths, powers of two: checkPowerOfTwo aborts otherwise
    KeysOf,         \* for each length, the pairs <<key1, key2>> an element may have
    BitonicDirs,    \* pairs <<dir1, dir2>> given to the bitonic sort
    MergeDirs,      \* pairs <<dir1, dir2>> given to the merge sort
    NumBlocks, BucketSizes, Cs,     \* arguments N, Z and C of Init_ORAM
    Configurations, \* the geometries of the sections [MemoryController] of a file
    NumVertices,    \* vertices of the graphs
    Weights         \* of the edges; 0 stands for no edge

ASSUME SizesAssumption == \A n \in Sizes : \E e \in 0 .. 5 : n = 2^e
ASSUME ConfigurationsAssumption ==
    \A controllers \in Configurations :
        Len(controllers) > 0 /\ controllers \in Seq([Components -> Nat \ {0}])
ASSUME WeightsAssumption == Weights \subseteq Nat

VARIABLE call       \* the function called, its arguments and its result

NoCall == [function |-> "none"]
Init == call = NoCall

---------------------------------------------------------------------------
\* Each element carries its first position, as the words of arr_aux do.
Arrays(n) ==
    {[i \in 0 .. (n - 1) |-> [key1 |-> k[i][1], key2 |-> k[i][2], from |-> i]] :
        k \in [0 .. (n - 1) -> KeysOf[n]]}

CallBitonicSort(n) ==
    \E arr \in Arrays(n), dirs \in BitonicDirs :
        call' = [function |-> "BitonicSort", arr |-> arr, dirs |-> dirs,
                 result |-> BitonicSort(arr, BitonicNetwork(n, dirs[1], dirs[2]))]

CallMergeSort(n) ==
    \E arr \in Arrays(n), dirs \in MergeDirs :
        call' = [function |-> "MergeSort", arr |-> arr, dirs |-> dirs,
                 result |-> MergeSort(arr, n, dirs[1], dirs[2])]

\* Init_ORAM's choice of sizes.
CallInit(N, Z, C) ==
    call' = [function |-> "Init_ORAM", N |-> N, Z |-> Z, C |-> C,
             depth |-> OramDepth(N), stash |-> StashSizeFor(Z, OramDepth(N), C)]

CallPushBack(N, Z) ==
    LET depth == OramDepth(N)
        Leaves == 0 .. (NumLeavesFor(depth) - 1)
    IN  \E accessed, other \in Leaves, occupied \in [0 .. (depth - 1) -> {0, Z}] :
            call' = [function |-> "PushBack", depth |-> depth, Z |-> Z,
                     accessed |-> accessed, other |-> other, occupied |-> occupied,
                     result |-> PushBack(accessed, other, occupied, depth, Z)]

\* A request of the memory system for an address up to one beyond the capacity.
CallRequest(controllers) ==
    \E address \in -1 .. getCapacity(controllers) + 1 :
        call' = [function |-> "AddRequest", controllers |-> controllers,
                 address |-> address, accepted |-> Accepted(controllers, address),
                 result |-> Decode(controllers, address)]

\* The pairs of vertices in a fixed order, with a weight each.
Pairs == SetToSeq({p \in (0 .. NumVertices - 1) \X (0 .. NumVertices - 1) : p[1] < p[2]})
Graphs ==
    {SelectSeq([i \in DOMAIN Pairs |-> <<Pairs[i][1], Pairs[i][2], w[i]>>],
               LAMBDA e : e[3] # 0) : w \in [DOMAIN Pairs -> Weights]}

CallFindPath(edges) ==
    \E u \in 0 .. NumVertices - 1 :
        call' = [function |-> "findPath", edges |-> edges, source |-> u,
                 result |-> findPath(NumVertices, edges, u)]

CallPrimMST(edges) ==
    call' = [function |-> "primMST", edges |-> edges, result |-> primMST(NumVertices, edges)]

\* The search in blocks 0 to 9 with five turns, for values on both sides as well.
CallBinarySearch ==
    \E search \in -12 .. 22 :
        call' = [function |-> "obinary_search", search |-> search,
                 result |-> obinary_search(9, 5, search)]

Next ==
    /\ call = NoCall
    /\ \/ \E n \in Sizes : CallBitonicSort(n) \/ CallMergeSort(n)
       \/ \E N \in NumBlocks, Z \in BucketSizes, C \in Cs : CallInit(N, Z, C)
       \/ \E N \in NumBlocks, Z \in BucketSizes : CallPushBack(N, Z)
       \/ \E controllers \in Configurations : CallRequest(controllers)
       \/ \E edges \in Graphs : CallFindPath(edges) \/ CallPrimMST(edges)
       \/ CallBinarySearch

Spec == Init /\ [][Next]_call

---------------------------------------------------------------------------
Sorted == call.function \in {"BitonicSort", "MergeSort"}

\* sort.h: the array ends up sorted with respect to the two keys in the
\* directions asked for.
SortedAsAsked == Sorted => InOrder(call.result, call.dirs[1], call.dirs[2])

\* Every comparator and every merge keeps each element, with the words that
\* travel with it, exactly once: Store_Blocks would lose a block otherwise.
ElementsKept ==
    Sorted => /\ DOMAIN call.result = DOMAIN call.arr
              /\ \A i \in DOMAIN call.arr : \E j \in DOMAIN call.arr :
                     call.result[j] = call.arr[i]

\* Merge takes the left of two equal elements, so merge sort is stable.
MergeIsStable ==
    call.function = "MergeSort" =>
      \A i, j \in DOMAIN call.arr :
         LET x == call.result[i]  y == call.result[j]
         IN  i < j /\ x.key1 = y.key1 /\ x.key2 = y.key2 => x.from < y.from

\* The bit operations of PushBack find the deepest level at which the two walks
\* share a bucket that is not full, and -1 when there is none.
PushBackIsDeepestFree ==
    call.function = "PushBack" =>
       IsDeepestFree(call.result, BucketWalk(call.accessed, call.depth),
                     BucketWalk(call.other, call.depth), call.occupied, call.Z)

\* The walks are the root-to-leaf paths of a binary tree in which every label has
\* its own leaf bucket: the facts PathORAM assumes of Path.
WalksFormATree ==
    call.function = "Init_ORAM" =>
    LET Leaves == 0 .. (NumLeavesFor(call.depth) - 1)
        Levels == 0 .. (call.depth - 1)
        walk == [leaf \in Leaves |-> BucketWalk(leaf, call.depth)]
    IN  /\ \A a \in Leaves : walk[a][0] = 1
        /\ \A a \in Leaves, l \in Levels : walk[a][l] \in 1 .. NumBucketsFor(call.depth)
        /\ \A a, b \in Leaves, l, m \in Levels : walk[a][l] = walk[b][m] => l = m
        /\ \A a, b \in Leaves, l, m \in Levels :
             l <= m /\ walk[a][m] = walk[b][m] => walk[a][l] = walk[b][l]
        /\ \A a, b \in Leaves : walk[a][call.depth - 1] = walk[b][call.depth - 1] => a = b

\* Init_ORAM's sizes leave the stash room for a whole path and for more than C
\* blocks behind it, and a power of two as the bitonic sort requires; there is at
\* least one leaf for every two blocks, and labels fit beside the valid bit.
SizesFit ==
    call.function = "Init_ORAM" =>
        /\ call.stash > call.Z * call.depth + call.C
        /\ \E e \in 0 .. 12 : call.stash = 2^e
        /\ 2 * NumLeavesFor(call.depth) >= call.N
        /\ NumLeavesFor(call.depth) < call.N
        /\ call.depth <= 15 => NumLeavesFor(call.depth) - 1 < 2^15

\* The places of the i-th controller, counted from zero in an address.
Places(i) ==
    LET g == call.controllers[i]
    IN  [columns : 0 .. g["columns"] - 1, rows : 0 .. g["rows"] - 1,
         banks : 0 .. g["banks"] - 1, ranks : 0 .. g["ranks"] - 1,
         channels : 0 .. g["channels"] - 1, controllers : {i - 1}]
AllPlaces == UNION {Places(i) : i \in DOMAIN call.controllers}
EqualControllers ==
    \A i \in DOMAIN call.controllers : call.controllers[i] = call.controllers[1]

\* A request that is accepted goes to a place that exists: AddRequest and
\* RunRequestProcessor index controllers, channels, ranks and banks by it, unchecked.
\* "Controllers can potentially each have different sizes for everything"
\* (System.cc:373), but then only some controller has each number of the address.
RequestsFindTheirPlace ==
    call.function = "AddRequest" /\ call.accepted =>
        /\ \A c \in Components : \E p \in AllPlaces : p[c] = call.result[c]
        /\ EqualControllers => call.result \in AllPlaces

\* The places the addresses below the capacity decode to.
Named == {Decode(call.controllers, a) : a \in 0 .. getCapacity(call.controllers) - 1}

\* Of equal controllers the addresses name the places whose numbers are below the
\* largest power of two in each component, since Log2 rounds down: not "any location
\* in the system" (System.cc:371) unless the numbers are powers of two.
PlacesHaveAddresses ==
    call.function = "AddRequest" /\ call.address = 0 /\ EqualControllers =>
        LET bits == GeneratedSizes(call.controllers)
        IN  Named = {p \in AllPlaces : \A c \in AllComponents : p[c] < 2 ^ bits[c]}

InPowersOfTwo(controllers) ==
    LET powers == {2 ^ e : e \in 0 .. 3}
    IN  /\ Len(controllers) \in powers
        /\ \A i \in DOMAIN controllers : controllers[i] \in [Components -> powers]

\* In equal controllers whose numbers are powers of two the addresses below the
\* capacity name every place once.  Of the others only the capacity is accepted, which
\* is not "the maximum address" (System.h:147) and goes to the place of address 0.
AddressesNameThePlaces ==
    call.function = "AddRequest" /\ EqualControllers /\ InPowersOfTwo(call.controllers) =>
        LET capacity == getCapacity(call.controllers)
        IN  /\ call.address = 0 => Named = AllPlaces /\ Cardinality(Named) = capacity
            /\ call.accepted <=> call.address \in 0 .. capacity
            /\ call.address = capacity => call.result = Decode(call.controllers, 0)

---------------------------------------------------------------------------
\* The weights of the edges between two vertices.
Joining(v, w) == {call.edges[i][3] : i \in {k \in DOMAIN call.edges :
                     {call.edges[k][1], call.edges[k][2]} = {v, w}}}
Vertices == 0 .. NumVertices - 1

\* findPath has no set of settled vertices and leaves outdated pairs in its queue;
\* all the same the distances it ends with solve Bellman's equations, which with
\* positive weights only the lengths of the shortest paths do.
DistancesAreShortest ==
    call.function = "findPath" =>
        \A v \in Vertices :
            LET dist == call.result
                Through == UNION {{dist[w] + x : x \in Joining(v, w)} :
                                     w \in {y \in Vertices : dist[y] # INT_MAX}}
            IN  IF v = call.source THEN dist[v] = 0
                ELSE IF Through = {} THEN dist[v] = INT_MAX
                ELSE dist[v] \in Through /\ \A x \in Through : dist[v] <= x

\* The vertices a set of edges (indices of call.edges) connects with vertex 0.
Connected(T) ==
    LET C[n \in 0 .. NumVertices] ==
            IF n = 0 THEN {0}
            ELSE C[n - 1] \cup UNION {{call.edges[i][1], call.edges[i][2]} :
                     i \in {k \in T : {call.edges[k][1], call.edges[k][2]} \cap C[n - 1] # {}}}
    IN  C[NumVertices]
Weight(T) == FoldSet(LAMBDA i, sum : sum + call.edges[i][3], 0, T)
TreeEdges == {i \in DOMAIN call.edges :
                 \/ call.result[call.edges[i][1]] = call.edges[i][2]
                 \/ call.result[call.edges[i][2]] = call.edges[i][1]}

\* primMST handles a vertex again for every outdated pair in its queue; the parents
\* still form a spanning tree of the vertices connected with vertex 0, and none is
\* lighter.
TreeIsMinimal ==
    call.function = "primMST" =>
        LET reached == Connected(DOMAIN call.edges)
        IN  /\ Connected(TreeEdges) = reached
            /\ Cardinality(TreeEdges) = Cardinality(reached) - 1
            /\ \A T \in SUBSET DOMAIN call.edges :
                 Connected(T) = reached => Weight(TreeEdges) <= Weight(T)

\* After the fixed number of turns the search has found a value that is there, and
\* with any value it only reads blocks that exist, which Access_ORAM demands.
SearchFinds ==
    call.function = "obinary_search" =>
        /\ call.search \in 0 .. 9 => call.result[5].m = call.search
        /\ \A n \in 1 .. 5 : call.result[n].m \in 0 .. 16

\* BitonicSort_* and MergeSort_* return an ordered permutation of their array, and the
\* merge sort keeps the order of elements with equal keys.
SortsAreCorrect == SortedAsAsked /\ ElementsKept /\ MergeIsStable

\* Init_ORAM lays out a tree that fits its sizes, and PushBack finds the deepest free
\* bucket two paths of it share.
OramTreeIsCorrect == PushBackIsDeepestFree /\ WalksFormATree /\ SizesFit

\* Where an accepted address leads, which places have one, and that with powers of two
\* addresses and places correspond; the capacity itself is accepted too.
DecodingIsCorrect == RequestsFindTheirPlace /\ PlacesHaveAddresses /\ AddressesNameThePlaces

\* The discrete kernels compute what their names say: findPath shortest paths, primMST
\* a minimal spanning tree, the oblivious search the position of a value.
KernelsAreCorrect == DistancesAreShortest /\ TreeIsMinimal /\ SearchFinds
=============================================================================
