----------------------------- MODULE MCTreeOps -----------------------------
(* Two folders, each with a file of the same name, and clients that do not  *)
(* look whether the name is taken where they move a file to (Tree_move.cfg). *)
EXTENDS TreeOps

Entry(p, c) == [path |-> p, id |-> c]
a == <<"a">>
b == <<"b">>
x == <<"x">>
TwoFolders == {Entry(<<a>>, "dir"), Entry(<<b>>, "dir"),
               Entry(<<a, x>>, "c1"), Entry(<<b, x>>, "c2")}

(* NothingVanishes in every step: "a move never writes a trash entry, so    *)
(* that failure lost the file" is what move_entry means to exclude by its   *)
(* single commit.                                                           *)
MovesKeepContent == [][NothingVanishes]_vars
=============================================================================
