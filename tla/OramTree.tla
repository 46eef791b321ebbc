------------------------------ MODULE OramTree ------------------------------
(***************************************************************************)
(* The position arithmetic of Path ORAM, in the bit operations the code    *)
(* uses: lib/misc.c, the sizes computed by Init_ORAM and                   *)
(* Init_ORAM_Controller, the walk from the root to a leaf that             *)
(* Fetch_Blocks and Store_Blocks share, and PushBack.  Evaluated by TLC    *)
(* only: the state machine of module PathORAM states the result of         *)
(* PushBack with IsDeepestFree of module PathLevels, and the run of        *)
(* module Algorithms shows that they agree.                                *)
(***************************************************************************)
EXTENDS Integers, Bitwise

\* Width of the two's complement integers; leaf labels have at most 14 bits
\* because Init_ORAM asserts oram_depth <= 15.
Width == 20

\* Two's complement of v.
Neg(v) == (2^Width - v) % 2^Width

\* v & (-v), the lowest bit of v that is set.
LowestBit(v) == v & Neg(v)

\* val << 1, minus 1, then the number of shifts until it is zero.
log_2(val) ==
    LET shifts[v \in Nat] == IF v \div 2 = 0 THEN 0 ELSE 1 + shifts[v \div 2]
    IN  shifts[2 * val - 1]

bitwiseReverse(val, L) ==
    LET rev[i \in 0 .. L] ==
          IF i = 0 THEN 0 ELSE 2 * rev[i - 1] + ((val \div 2^(i - 1)) % 2)
    IN  rev[L]

\* Mutant: expt starts at 0.
roundToPowerOf2_Down(val) ==
    LET expt[v \in Nat] == IF v \div 2 = 0 THEN 0 ELSE 1 + expt[v \div 2]
    IN  2^expt[val]

\* One shift more than log_2's: the result is always greater than val.
roundToPowerOf2(val) ==
    LET expt[v \in Nat] == IF v \div 2 = 0 THEN 1 ELSE 1 + expt[v \div 2]
    IN  2^expt[val]

---------------------------------------------------------------------------
\* Sizes chosen by Init_ORAM and Init_ORAM_Controller.
OramDepth(num_real_blocks) == log_2(num_real_blocks)

NumLeavesFor(oram_depth) == 2^(oram_depth - 1)

NumBucketsFor(oram_depth) == 2^oram_depth - 1

StashSizeFor(bucket_size, oram_depth, C) ==
    roundToPowerOf2(bucket_size * oram_depth + C)

\* Mutant: the walk starts at bucket 0, where the array starts.
BucketWalk_FromZero(leaf, oram_depth) ==
    LET path_dir == bitwiseReverse(leaf, oram_depth - 1)
        idx[l \in 0 .. (oram_depth - 1)] ==
          IF l = 0 THEN 0
          ELSE 2 * idx[l - 1] + ((path_dir \div 2^(l - 1)) % 2)
    IN  [l \in 0 .. (oram_depth - 1) |-> idx[l]]

\* The bucket_idx of each level on the walk to a leaf: bucket 1 is the root and
\* the directions are the bits of the reversed label, lowest first.
BucketWalk(leaf, oram_depth) ==
    LET path_dir == bitwiseReverse(leaf, oram_depth - 1)
        idx[l \in 0 .. (oram_depth - 1)] ==
          IF l = 0 THEN 1
          ELSE 2 * idx[l - 1] + ((path_dir \div 2^(l - 1)) % 2)
    IN  [l \in 0 .. (oram_depth - 1) |-> idx[l]]

\* Mutant: full buckets are not masked out.
PushBack_IgnoreFull(accessed_leaf, stash_leaf, occupied, L, bucket_size) ==
    LET t1 == bitwiseReverse(accessed_leaf, L) ^^ bitwiseReverse(stash_leaf, L)
        t3 == (LowestBit(t1) + 2^Width - 1) % 2^Width
        t7 == bitwiseReverse(LowestBit(bitwiseReverse(t3, L)), L)
    IN  IF t3 = 0 THEN 0 ELSE log_2(t7)

\* PushBack, in the code's temporaries t1 .. t7.
PushBack(accessed_leaf, stash_leaf, occupied, L, bucket_size) ==
    LET t1   == bitwiseReverse(accessed_leaf, L) ^^ bitwiseReverse(stash_leaf, L)
        t3   == (LowestBit(t1) + 2^Width - 1) % 2^Width
        fullUpTo[i \in 0 .. L] ==
                IF i = 0 THEN 0
                ELSE fullUpTo[i - 1]
                     + IF occupied[i - 1] = bucket_size THEN 2^(i - 1) ELSE 0
        t4   == t3 & (2^Width - 1 - fullUpTo[L])
        t7   == bitwiseReverse(LowestBit(bitwiseReverse(t4, L)), L)
    IN  IF t3 = 0 /\ occupied[0] < bucket_size THEN 0
        ELSE IF t7 = 0 THEN -1
        ELSE log_2(t7)

=============================================================================
