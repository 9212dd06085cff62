------------------------------ MODULE MCLibrary ------------------------------
(* Small instances of Library. *)
EXTENDS Library

OnlyDelete == {"delete"}
DeleteRestore == {"delete", "restore"}
DeletePurge == {"delete", "purge"}
=============================================================================
