-------------------------------- MODULE MCGc --------------------------------
(* Small instances of Gc. *)
EXTENDS Gc, TLC

(* The library starts with one file. *)
OneFile == {{b} : b \in Blocks}
NoFile == {{}}

Perms == Permutations(Blocks)
=============================================================================
