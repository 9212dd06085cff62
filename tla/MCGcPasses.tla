----------------------------- MODULE MCGcPasses -----------------------------
(* Passing instances of Gc under two retention settings: a library with     *)
(* unlimited history beside a sync client and a REST upload, and one with a *)
(* history limit beside a client that may give up.  The setting is fixed in *)
(* the initial state.                                                       *)
EXTENDS MCGc

VARIABLE setting

(* The library with unlimited history is in the setting in which the        *)
(* history is kept.                                                         *)
ASSUME Windows == Grace

Limited == INSTANCE Gc
  WITH Writers <- {}, HistoryLimit <- 1, MinBlockAge <- 1, MaxUploadTime <- 3,
       ReuseGarbage <- TRUE, MaxTime <- 1, MaxPasses <- 1, MaxAbandoned <- 1

PassesInit == Init /\ setting \in {"unlimited", "limited"}

PassesNext ==
  /\ \/ setting = "unlimited" /\ Next
     \/ setting = "limited" /\ Limited!Next
  /\ UNCHANGED setting

PassesSpec == PassesInit /\ [][PassesNext]_<<vars, setting>>

(* Every past HEAD of the library with unlimited history stays restorable:  *)
(* no interleaving of a pass with uploads costs it a row, a tree or a block. *)
HistoryKept == setting = "unlimited" => HistoryRestorable

(* A pass over the library with a limit collects what is garbage: it ends   *)
(* with nothing on disk but blocks of retained commits and blocks inside    *)
(* the grace window, to the second.                                         *)
PassCollects ==
  [][setting = "limited" => Limited!Collects]_<<vars, setting>>
=============================================================================
