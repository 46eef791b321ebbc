----------------------------- MODULE PathLevels -----------------------------
(***************************************************************************)
(* What PushBack computes, stated without bit operations.                  *)
(***************************************************************************)
EXTENDS Integers

\* Mutant: one block too many in a bucket.
FreeShared_Overfull(path, other, occupied, bucket_size) ==
    {l \in DOMAIN path : path[l] = other[l] /\ occupied[l] <= bucket_size}

\* path and other map each level, from the root 0 to the leaf, to a bucket;
\* occupied counts the blocks already assigned to each level of path.
\* PushBack returns the deepest level at which the two paths share a bucket that
\* still has room, and -1 when there is none.
FreeShared(path, other, occupied, bucket_size) ==
    {l \in DOMAIN path : path[l] = other[l] /\ occupied[l] < bucket_size}

\* Mutant: only the deepest shared bucket is tried.
IsDeepestFree_NoFallback(level, path, other, occupied, bucket_size) ==
    LET shared == {l \in DOMAIN path : path[l] = other[l]}
    IN  \E deepest \in shared :
          /\ \A m \in shared : m <= deepest
          /\ level = IF occupied[deepest] < bucket_size THEN deepest ELSE -1

IsDeepestFree(level, path, other, occupied, bucket_size) ==
    LET levels == FreeShared(path, other, occupied, bucket_size)
    IN  \/ level = -1 /\ levels = {}
        \/ level \in levels /\ \A m \in levels : m <= level

=============================================================================
