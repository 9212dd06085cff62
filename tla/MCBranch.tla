------------------------------ MODULE MCBranch ------------------------------
(* Small instances of Branch. *)
EXTENDS Branch, TLC

Perms == Permutations(Versions)

(* Both paths in the root directory. *)
FlatDirs == [n \in Names |-> Root]

(* One path in the root directory, the others in a directory below it. *)
SplitDirs ==
  LET top == CHOOSE n \in Names : TRUE
      sub == CHOOSE d \in Dirs : d # Root
  IN  [n \in Names |-> IF n = top THEN Root ELSE sub]

(* One process issues two requests, the others one. *)
TwoThenOne ==
  LET first == CHOOSE p \in Procs : TRUE
  IN  [p \in Procs |-> IF p = first THEN 2 ELSE 1]

OneEach == [p \in Procs |-> 1]
=============================================================================
