---------------------------- MODULE AbstractMap ----------------------------
(***************************************************************************)
(* What StringMap (src/std/containers/map.ly) promises: a map, and         *)
(* references into it that stay good while it grows.                       *)
(***************************************************************************)
CONSTANTS Keys, MapValues, Missing

VARIABLES
  map,    \* the value of each key, or Missing
  ref     \* what the last get or contains answered: the key, or Missing

TypeInvariant ==
  /\ map \in [Keys -> MapValues \cup {Missing}]
  /\ ref \in Keys \cup {Missing}

Init ==
  /\ map = [k \in Keys |-> Missing]
  /\ ref = Missing

Insert == \E k \in Keys, v \in MapValues : map' = [map EXCEPT ![k] = v] /\ ref' = ref
Find == \E k \in Keys : ref' = (IF map[k] = Missing THEN Missing ELSE k) /\ map' = map

Spec == Init /\ [][Insert \/ Find]_<<map, ref>>
=============================================================================
