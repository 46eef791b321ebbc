---------------------------- MODULE MCCoherence ----------------------------
(***************************************************************************)
(* Instances of Coherence for TLC.                                         *)
(***************************************************************************)
EXTENDS Coherence

CONSTANTS l1a, l1b, l2a, l2b, mm

LowShared == (l1a :> l2a) @@ (l1b :> l2a) @@ (l2a :> mm)
LowTwo == (l1a :> l2a) @@ (l1b :> l2b) @@ (l2a :> mm) @@ (l2b :> mm)

\* The caches on either side, the accesses and the blocks are interchangeable.
Sides ==
  {[x \in {l1a, l1b, l2a, l2b} |-> x],
   (l1a :> l1b) @@ (l1b :> l1a) @@
     (IF l2b \in Modules THEN (l2a :> l2b) @@ (l2b :> l2a)
      ELSE (l2a :> l2a) @@ (l2b :> l2b))}
Symmetry ==
  {p @@ q @@ r : p \in Sides, q \in Permutations(Slots), r \in Permutations(Blocks)}

OneWay == [m \in Modules |-> 1]
TwoWaysInMemory == [m \in Modules |-> IF m = MainMemory THEN 2 ELSE 1]
=============================================================================
