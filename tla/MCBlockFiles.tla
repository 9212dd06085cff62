---------------------------- MODULE MCBlockFiles ----------------------------
(* The instance of BlockFiles in which a block is removed beside a request  *)
(* that asks whether it is there.                                           *)
EXTENDS BlockFiles

PlainOnly == {"plain"}
AskAndRemove == {"has", "remove"}
=============================================================================
