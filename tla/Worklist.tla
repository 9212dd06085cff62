------------------------------ MODULE Worklist ------------------------------
(* What the durable half of the task system promises, whatever happens to   *)
(* the process: a piece of work that was written down stays on the list     *)
(* until somebody has passed judgement on it.                               *)
CONSTANT Items

VARIABLES
  pending,   \* accepted and not yet closed
  judged     \* executed to a verdict, or refused with a recorded reason

Init == pending = {} /\ judged = {}

(* The work is written down.  Work that was judged may come back: durable   *)
(* jobs are idempotent, so a replay that was not needed is harmless.        *)
Accept(w) ==
  /\ w \notin pending
  /\ pending' = pending \cup {w}
  /\ UNCHANGED judged

(* An execution ends; a replay of the same work may end a second time. *)
Judge(w) ==
  /\ w \in pending
  /\ judged' = judged \cup {w}
  /\ pending' \in {pending, pending \ {w}}

(* The work leaves the list. *)
Settle(w) ==
  /\ w \in pending \cap judged
  /\ pending' = pending \ {w}
  /\ UNCHANGED judged

Next == \E w \in Items : Accept(w) \/ Judge(w) \/ Settle(w)

Spec == Init /\ [][Next]_<<pending, judged>>
=============================================================================
