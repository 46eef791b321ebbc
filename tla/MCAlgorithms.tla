---------------------------- MODULE MCAlgorithms ----------------------------
(* Arguments for the calls of Algorithms. *)
EXTENDS Algorithms

SameDirections  == {<<ASCENDING, ASCENDING>>, <<DESCENDING, DESCENDING>>}
MixedDirections == {<<ASCENDING, DESCENDING>>}
AllDirections   == {ASCENDING, DESCENDING} \X {ASCENDING, DESCENDING}
\* Up to four elements the keys have three and two values; for eight elements
\* zeros and ones are enough for a comparator network (0-1 principle).
MCKeysOf == [n \in Sizes |-> IF n = 8 THEN {0, 1} \X {0} ELSE {0, 1, 2} \X {0, 1}]

PowersOfTwo ==
    [channels : {1, 2}, ranks : {1, 2}, banks : {1, 4}, rows : {2, 4}, columns : {1, 2}]
WithThrees ==
    [channels : {1, 3}, ranks : {1, 3}, banks : {2, 3}, rows : {3}, columns : {1, 3}]

Equal(geometries, numbers) ==
    UNION {{[i \in 1 .. n |-> g] : g \in geometries} : n \in numbers}
WithBanks(n) ==
    [channels |-> 1, ranks |-> 2, banks |-> n, rows |-> 2, columns |-> 2]
Unequal == {<<WithBanks(2), WithBanks(4)>>, <<WithBanks(4), WithBanks(2)>>}
MCConfigurations ==
    Equal(PowersOfTwo, {1, 2}) \cup Equal(WithThrees, {1, 3}) \cup Unequal
=============================================================================
