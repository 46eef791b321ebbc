----------------------------- MODULE MCPathORAM -----------------------------
(* Constants of PathORAM computed the way Init_ORAM computes them. *)
EXTENDS PathORAM, TLC

T == INSTANCE OramTree

CONSTANT C      \* the parameter C of Init_ORAM

MCDepth      == T!OramDepth(Cardinality(Ids))
MCNumBuckets == T!NumBucketsFor(MCDepth)
MCStashSize  == T!StashSizeFor(BucketSize, MCDepth, C)
MCPath       == [leaf \in 0 .. (T!NumLeavesFor(MCDepth) - 1) |->
                    T!BucketWalk(leaf, MCDepth)]

Symmetry == Permutations(Ids) \cup Permutations(Values)
\* Bound of the run on a tree of three levels: how many of the ids are ever used.
ThreeIdsUsed == Cardinality({i \in Ids : posmap[i].valid}) <= 3
=============================================================================
