------------------------------- MODULE MCJobs -------------------------------
(* Small instances of Jobs. *)
EXTENDS Jobs

Bound(submits, ticks, disruptions, faults, limit) ==
  [submits |-> submits, ticks |-> ticks, disruptions |-> disruptions,
   faults |-> faults, limit |-> limit]

(* Two runs across one crash or restart, with a recovery that reads all     *)
(* rows and with one that reads too few; one run across two, and across one *)
(* with a failed write or a dropped request; a crowd with such a fault and  *)
(* no disruption.                                                           *)
MCBudgets ==
  {Bound(2, 0, 1, 0, 2), Bound(2, 0, 1, 0, 1), Bound(1, 1, 1, 0, 2),
   Bound(1, 0, 2, 0, 2), Bound(1, 0, 1, 1, 2), Bound(2, 1, 0, 1, 2)}
=============================================================================
