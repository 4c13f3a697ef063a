---------------------------- MODULE MCHashTable ----------------------------
(* A table that grows from 2 or 4 to 4 or 8 slots.  Two addresses hold     *)
(* equal keys.  With 8 slots classes a and b have their home in slot 7, d  *)
(* in slot 0, c (whose hash 0 is replaced by 1) in slot 1 and NULL (42) in *)
(* slot 2: the run of a and b wraps around, displaces d, which displaces c *)
(* and NULL in turn, and lookups of absent keys stop early.                *)
EXTENDS HashTable, TLC

CONSTANTS a1, a2, b, c, d, v1, v2

MCKey == {a1, a2, b, c, d, NULL}
MCValue == {v1, v2}
MCClass == (a1 :> 1 @@ a2 :> 1 @@ b :> 2 @@ c :> 3 @@ d :> 4 @@ NULL :> 0)
MChash_fn == (a1 :> 7 @@ a2 :> 7 @@ b :> 15 @@ c :> 0 @@ d :> 8 @@ NULL :> 0)
Symmetry == Permutations(MCValue)
=============================================================================
