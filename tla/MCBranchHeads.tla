--------------------------- MODULE MCBranchHeads ---------------------------
(* Passing instances of Branch in two settings, fixed in the initial state: *)
(* "mixed", a desktop client and REST requests under the constants of this  *)
(* module, and "sync", two desktop clients that change one file, one of     *)
(* them twice.                                                              *)
EXTENDS MCBranch

CONSTANTS SyncClients, SyncNames, SyncVersions

VARIABLE setting

Sync == INSTANCE Branch
  WITH Clients <- SyncClients, Writers <- {}, Names <- SyncNames,
       DirOf <- [n \in SyncNames |-> Root], Versions <- SyncVersions,
       MaxRequests <- LET first == CHOOSE c \in SyncClients : TRUE
                      IN  [c \in SyncClients |-> IF c = first THEN 2 ELSE 1],
       MaxLost <- 0

Mixed == setting = "mixed"

HeadsInit ==
  \/ setting = "mixed" /\ Init
  \/ setting = "sync" /\ Sync!Init

HeadsNext ==
  /\ \/ setting = "mixed" /\ Next
     \/ setting = "sync" /\ Sync!Next
  /\ UNCHANGED setting

HeadsVars == <<vars, setting>>

(* Every request that was accepted keeps running: handlers are tasks of the *)
(* async runtime, and a client keeps retrying its upload.  Stated for the   *)
(* setting whose requests must be answered.                                 *)
HeadsSpec ==
  /\ HeadsInit /\ [][HeadsNext]_HeadsVars
  /\ \A c \in Clients : WF_HeadsVars(Mixed /\ ClientStep(c) /\ UNCHANGED setting)
  /\ \A w \in Writers : WF_HeadsVars(Mixed /\ WriterStep(w) /\ UNCHANGED setting)

(* HEAD always names a stored commit whose root is stored (put_commit       *)
(* accepts a dangling root, update_branch must not), in either setting.     *)
HeadIsStored == IF Mixed THEN HeadStored ELSE Sync!HeadStored

(* Two clients that race on HEAD: no fast-forward and no merge undoes what  *)
(* the other one committed (update_branch, merge_branch).                   *)
SyncNoLostUpdate ==
  [][setting = "sync" => \A c \in SyncClients : ~Sync!Undoes(c)]_HeadsVars

(* ... and what either of them uploaded is in the tree its upload produced, *)
(* at its path or in a conflict copy (conflict_path).                       *)
SyncUploadLands ==
  [][setting = "sync" => \A c \in SyncClients : Sync!Lands(c)]_HeadsVars

(* Every request is answered: update_branch never stays in its retry loop,  *)
(* whatever the REST requests do to HEAD, and nobody waits for the per-repo *)
(* mutex for ever.                                                          *)
RequestsAreAnswered ==
  /\ \A c \in Clients : Mixed /\ pc[c] = "loop" ~> Mixed /\ pc[c] \in {"done", "put"}
  /\ \A w \in Writers : Mixed /\ pc[w] # "idle" ~> Mixed /\ pc[w] = "idle"
=============================================================================
