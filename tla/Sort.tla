-------------------------------- MODULE Sort --------------------------------
(***************************************************************************)
(* The sorting primitives of primitives/sort: the oblivious bitonic sort   *)
(* and the merge sort.  Both come in five variants (Int, Block, General,   *)
(* TwoArray, TwoArray_TwoKey) that differ only in how many words move with *)
(* a key and in the number of keys.  One element here is a record with two *)
(* integer keys key1, key2 and whatever travels with them; a single-key    *)
(* variant is the two-key one on elements whose key2 is constant, called   *)
(* with dir2 = dir1.  An array is a function on 0 .. N-1, as in C.         *)
(***************************************************************************)
EXTENDS Integers, Sequences

ASCENDING  == 1
DESCENDING == 0

---------------------------------------------------------------------------
(* What a sort promises. *)

\* x comes strictly before y when key1 is ordered by dir1 and, between equal
\* key1, key2 is ordered by dir2.
Before(x, y, dir1, dir2) ==
    \/ dir1 = ASCENDING  /\ x.key1 < y.key1
    \/ dir1 = DESCENDING /\ x.key1 > y.key1
    \/ /\ x.key1 = y.key1
       /\ \/ dir2 = ASCENDING  /\ x.key2 < y.key2
          \/ dir2 = DESCENDING /\ x.key2 > y.key2

\* The array has no element that should come strictly before an earlier one.
InOrder(arr, dir1, dir2) ==
    \A i, j \in DOMAIN arr : i < j => ~ Before(arr[j], arr[i], dir1, dir2)

---------------------------------------------------------------------------
(* Bitonic sort.  Which pairs are compared, and in which direction, does    *)
(* not depend on the data: the recursion is unfolded into the sequence of   *)
(* its comparators <<i, j, dir1, dir2>>.                                    *)

\* BitonicMerge: compare the halves elementwise, then merge each half.
MergeNetwork(dir1, dir2) ==
    LET net[q \in Nat \X Nat] ==
          LET low == q[1]
              k   == q[2] \div 2
          IN  IF q[2] <= 1 THEN << >>
              ELSE [n \in 1 .. k |-> <<low + n - 1, low + n - 1 + k, dir1, dir2>>]
                   \o net[<<low, k>>] \o net[<<low + k, k>>]
    IN  net

\* Mutant: both halves are sorted in the same direction.
SubSortNetwork_BothUp ==
    LET net[q \in Nat \X Nat \X (0 .. 1) \X (0 .. 1)] ==
          LET low == q[1]
              k   == q[2] \div 2
          IN  IF q[2] <= 1 THEN << >>
              ELSE net[<<low, k, 1, 1>>] \o net[<<low + k, k, 1, 1>>]
                   \o MergeNetwork(q[3], q[4])[<<low, q[2]>>]
    IN  net

\* BitonicSubSort: the lower half ascending and the upper half descending in
\* every key, whatever the directions of the result, then the merge.
SubSortNetwork ==
    LET net[q \in Nat \X Nat \X (0 .. 1) \X (0 .. 1)] ==
          LET low == q[1]
              k   == q[2] \div 2
          IN  IF q[2] <= 1 THEN << >>
              ELSE net[<<low, k, 1, 1>>] \o net[<<low + k, k, 0, 0>>]
                   \o MergeNetwork(q[3], q[4])[<<low, q[2]>>]
    IN  net

BitonicNetwork(N, dir1, dir2) == SubSortNetwork[<<0, N, dir1, dir2>>]

\* Mutant: oswap moves one way only.
CompAndSwap_OneWay(arr, c) ==
    IF arr[c[1]].key1 > arr[c[2]].key1 THEN [arr EXCEPT ![c[1]] = arr[c[2]]] ELSE arr

\* CompAndSwap_TwoArray_TwoKey; act_dir is 1 exactly when the first is greater.
CompAndSwap(arr, c) ==
    LET x == arr[c[1]]
        y == arr[c[2]]
        act_dir1 == IF x.key1 > y.key1 THEN 1 ELSE 0
        act_dir2 == IF x.key2 > y.key2 THEN 1 ELSE 0
        if_swap  == \/ x.key1 # y.key1 /\ act_dir1 = c[3]
                    \/ x.key1 = y.key1 /\ act_dir2 = c[4]
    IN  IF if_swap THEN [arr EXCEPT ![c[1]] = y, ![c[2]] = x] ELSE arr

\* The network applied from its first comparator to its last.
BitonicSort(arr, network) ==
    LET after[n \in 0 .. Len(network)] ==
          IF n = 0 THEN arr ELSE CompAndSwap(after[n - 1], network[n])
    IN  after[Len(network)]

---------------------------------------------------------------------------
(* Merge sort. *)

\* Mutant: the left element is taken only when it is strictly first.
TakeLeft_Strict(x, y, dir1, dir2) == Before(x, y, dir1, dir2)

\* The condition under which Merge takes the next element of the left run:
\* strictly first by key1, or equal in key1 and not after in key2.
TakeLeft(x, y, dir1, dir2) ==
    \/ dir1 = ASCENDING  /\ x.key1 < y.key1
    \/ dir1 = DESCENDING /\ x.key1 > y.key1
    \/ /\ x.key1 = y.key1
       /\ \/ dir2 = ASCENDING  /\ x.key2 <= y.key2
          \/ dir2 = DESCENDING /\ x.key2 >= y.key2

\* Merge of two runs, suffix by suffix: i and j count the elements of the left
\* and of the right run already copied back; when one run is exhausted the rest
\* of the other follows.
Merge(left, right, dir1, dir2) ==
    LET rest[q \in (0 .. Len(left)) \X (0 .. Len(right))] ==
          LET i == q[1]
              j == q[2]
          IN  IF i = Len(left)  THEN SubSeq(right, j + 1, Len(right))
              ELSE IF j = Len(right) THEN SubSeq(left, i + 1, Len(left))
              ELSE IF TakeLeft(left[i + 1], right[j + 1], dir1, dir2)
                   THEN <<left[i + 1]>> \o rest[<<i + 1, j>>]
                   ELSE <<right[j + 1]>> \o rest[<<i, j + 1>>]
    IN  rest[<<0, 0>>]

\* MergeSubSort on arr[l .. r], as the sequence the range holds afterwards.
MergeSort(arr, N, dir1, dir2) ==
    LET sorted[q \in Nat \X Int] ==
          LET l == q[1]
              r == q[2]
              m == l + (r - l) \div 2
          IN  IF l < r
              THEN Merge(sorted[<<l, m>>], sorted[<<m + 1, r>>], dir1, dir2)
              ELSE [n \in 1 .. (r - l + 1) |-> arr[l]]
        result == sorted[<<0, N - 1>>]
    IN  [k \in 0 .. (N - 1) |-> result[k + 1]]

=============================================================================
