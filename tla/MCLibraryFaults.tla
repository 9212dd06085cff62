--------------------------- MODULE MCLibraryFaults ---------------------------
(* Passing instances of Library: deletes and restores that break off        *)
(* anywhere, by an owner who repeats a failed restore; and deletes and      *)
(* purges beside the sweep of garbage collection.  Which of the two is      *)
(* fixed in the initial state.                                              *)
EXTENDS MCLibrary

VARIABLE setting

Purging == INSTANCE Library
  WITH Operations <- DeletePurge, Sweeping <- TRUE, MaxFailures <- 2

faultVars == <<vars, setting>>

FaultsInit == Init /\ setting \in {"restoring", "purging"}

FaultsNext ==
  /\ \/ setting = "restoring" /\ Next
     \/ setting = "purging" /\ Purging!Next
  /\ UNCHANGED setting

In(s, action) == setting = s /\ action /\ UNCHANGED setting

(* Every accepted request and upload runs on, an owner whose restore failed *)
(* asks again, and garbage collection is a periodic job.                    *)
FaultsSpec ==
  /\ FaultsInit /\ [][FaultsNext]_faultVars
  /\ \A p \in Requests : /\ WF_faultVars(In("restoring", RequestRunsOn(p)))
                         /\ WF_faultVars(In("restoring", StartRestore(p)))
  /\ \A w \in Writers : WF_faultVars(In("restoring", UploadRunsOn(w)))
  /\ WF_faultVars(In("purging", Purging!SweepStep))

(* RestoreCompletes of the owner who restores: whatever breaks off, the     *)
(* library comes back with all of its content.                              *)
RestoreSettles == setting = "restoring" => RestoreCompletes
=============================================================================
