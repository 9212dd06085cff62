------------------------------- MODULE Library -------------------------------
(***************************************************************************)
(* The life cycle of one library: it is deleted (its rows move to the      *)
(* archive, a trash row remembers it), restored, purged, and its block     *)
(* directory is swept once nobody owns it.  Uploads run meanwhile.         *)
(*                                                                         *)
(* Each of these requests is a sequence of database statements and short   *)
(* transactions with nothing around them: a failed statement or a crash    *)
(* ends it anywhere in between, and other requests run in every gap.       *)
(*                                                                         *)
(* Commit k is the commit of upload k; its tree is fs object k and its     *)
(* data is block k.                                                        *)
(***************************************************************************)
EXTENDS Integers, FiniteSets

CONSTANTS
  Requests,      \* concurrent delete, restore and purge requests
  Writers,       \* concurrent uploads
  Operations,    \* which of them the owner sends
  Sweeping,      \* whether garbage collection runs
  OtherRestored, \* whether another restored library has members row 0
  RetryFirst,    \* environment: a failed restore is repeated before the next delete
  MaxCommits, MaxDeletes, MaxFailures    \* bounds

Procs == Requests \cup Writers
Commits == 1 .. MaxCommits
NoCommit == 0
Heads == Commits \cup {NoCommit}
NoRow == -1

ASSUME LibraryAssumption ==
  /\ Requests \cap Writers = {}
  /\ Operations \subseteq {"delete", "restore", "purge"}
  /\ Sweeping \in BOOLEAN /\ OtherRestored \in BOOLEAN /\ RetryFirst \in BOOLEAN
  /\ MaxCommits \in Nat \ {0}
  /\ MaxDeletes \in Nat /\ MaxFailures \in Nat

VARIABLES
  live,       \* the repos row exists
  head,       \* its head_commit_id
  member,     \* the owner's repo_members row exists
  commits, fs,          \* the library's commits and fs_objects rows
  arCommits, arFs,      \* deleted_repo_commits, deleted_repo_fs_objects
  trash,      \* head_id of the deleted_repos row, or NoRow
  disk,       \* blocks in the library's block directory
  pc,         \* control state of every request and upload
  saved,      \* the HEAD a request or an upload has read
  mine,       \* the commit an upload makes
  spc,        \* control state of the sweep
  made, deletes, failures,    \* counters for the bounds
  acked,      \* history: commits that an upload made HEAD
  purged      \* history: a purge has been accepted

repoRow == <<live, head, member>>
rows == <<commits, fs>>
archive == <<arCommits, arFs>>
local == <<pc, saved, mine>>
counters == <<made, deletes, failures>>
history == <<acked, purged>>
vars == <<repoRow, rows, archive, trash, disk, local, spc, counters, history>>

Labels == {"idle", "addTrash", "archive", "createRow", "copy", "setHead", "member",
           "restoreDropCommits", "restoreDropFs", "restoreDropTrash",
           "purgeDropCommits", "purgeDropFs", "purgeDropTrash", "removeDir",
           "commit", "swap"}

Goto(p, l) == pc' = [pc EXCEPT ![p] = l]

Init ==
  /\ live = TRUE /\ head = 1 /\ member = TRUE
  /\ commits = {1} /\ fs = {1} /\ disk = {1}
  /\ arCommits = {} /\ arFs = {} /\ trash = NoRow
  /\ pc = [p \in Procs |-> "idle"]
  /\ saved = [p \in Procs |-> NoCommit]
  /\ mine = [p \in Procs |-> NoCommit]
  /\ spc = "idle"
  /\ made = 1 /\ deletes = 0 /\ failures = 0
  /\ acked = {1} /\ purged = FALSE

-----------------------------------------------------------------------------
(* delete_repo *)

(* A restore was interrupted: the library is live, its archive is not gone. *)
HalfRestored == live /\ arCommits \cup arFs # {}

StartDelete(p) ==
  /\ pc[p] = "idle" /\ "delete" \in Operations
  /\ live /\ deletes < MaxDeletes
  /\ RetryFirst => ~HalfRestored
  /\ deletes' = deletes + 1
  /\ saved' = [saved EXCEPT ![p] = head]
  /\ Goto(p, "addTrash")
  /\ UNCHANGED <<repoRow, rows, archive, trash, disk, mine, spc, made, failures, history>>

(* A best-effort delete that keeps going without its trash row. *)
Mutant_DeleteWithoutTrash(p) ==
  /\ pc[p] = "addTrash"
  /\ trash' \in {trash, IF trash = NoRow THEN saved[p] ELSE trash}
  /\ Goto(p, "archive")
  /\ UNCHANGED <<repoRow, rows, archive, disk, saved, mine, spc, counters, history>>

(* add_deleted_repo: a trash row that is there stays as it is. *)
AddDeletedRepo(p) ==
  /\ pc[p] = "addTrash"
  /\ trash' = IF trash = NoRow THEN saved[p] ELSE trash
  /\ Goto(p, "archive")
  /\ UNCHANGED <<repoRow, rows, archive, disk, saved, mine, spc, counters, history>>

(* One transaction replaces the archive by the live rows and deletes them  *)
(* and the repos row.                                                      *)
ArchiveAndDelete(p) ==
  /\ pc[p] = "archive"
  /\ arCommits' = commits /\ arFs' = fs
  /\ commits' = {} /\ fs' = {}
  /\ live' = FALSE /\ head' = NoCommit /\ member' = FALSE
  /\ Goto(p, "idle")
  /\ UNCHANGED <<trash, disk, saved, mine, spc, counters, history>>

-----------------------------------------------------------------------------
(* restore_deleted_repo *)

StartRestore(p) ==
  /\ pc[p] = "idle" /\ "restore" \in Operations
  /\ trash # NoRow
  /\ saved' = [saved EXCEPT ![p] = trash]
  /\ Goto(p, "createRow")
  /\ UNCHANGED <<repoRow, rows, archive, trash, disk, mine, spc, counters, history>>

(* A missing repos row is created, without a HEAD. *)
CreateRow(p) ==
  /\ pc[p] = "createRow"
  /\ live' = TRUE
  /\ head' = IF live THEN head ELSE NoCommit
  /\ Goto(p, "copy")
  /\ UNCHANGED <<member, rows, archive, trash, disk, saved, mine, spc, counters, history>>

(* The fs objects are forgotten. *)
Mutant_CopyCommitsOnly(p) ==
  /\ pc[p] = "copy" /\ live
  /\ commits' = commits \cup arCommits
  /\ Goto(p, "setHead")
  /\ UNCHANGED <<repoRow, fs, archive, trash, disk, saved, mine, spc, counters, history>>

(* copy_from in one transaction; its rows refer to the repos row. *)
CopyFrom(p) ==
  /\ pc[p] = "copy"
  /\ IF live \/ (arCommits = {} /\ arFs = {})
       THEN /\ commits' = commits \cup arCommits
            /\ fs' = fs \cup arFs
            /\ Goto(p, "setHead")
       ELSE UNCHANGED rows /\ Goto(p, "idle")
  /\ UNCHANGED <<repoRow, archive, trash, disk, saved, mine, spc, counters, history>>

(* The recorded HEAD is set if its commit came back, whatever HEAD is now. *)
SetHead(p) ==
  /\ pc[p] = "setHead"
  /\ head' = IF live /\ saved[p] \in commits THEN saved[p] ELSE head
  /\ Goto(p, "member")
  /\ UNCHANGED <<live, member, rows, archive, trash, disk, saved, mine, spc, counters, history>>

(* The owner's membership, if it is missing: a row with the explicit id 0  *)
(* that refers to the repos row.                                           *)
AddMember(p) ==
  /\ pc[p] = "member"
  /\ IF member \/ (live /\ ~OtherRestored)
       THEN member' = TRUE /\ Goto(p, "restoreDropCommits")
       ELSE UNCHANGED member /\ Goto(p, "idle")
  /\ UNCHANGED <<live, head, rows, archive, trash, disk, saved, mine, spc, counters,
                 history>>

-----------------------------------------------------------------------------
(* drop_archive, for restore and purge: two statements *)

DropCommits(p) ==
  /\ pc[p] \in {"restoreDropCommits", "purgeDropCommits"}
  /\ arCommits' = {}
  /\ Goto(p, IF pc[p] = "restoreDropCommits" THEN "restoreDropFs" ELSE "purgeDropFs")
  /\ UNCHANGED <<repoRow, rows, arFs, trash, disk, saved, mine, spc, counters, history>>

DropFs(p) ==
  /\ pc[p] \in {"restoreDropFs", "purgeDropFs"}
  /\ arFs' = {}
  /\ Goto(p, IF pc[p] = "restoreDropFs" THEN "restoreDropTrash" ELSE "purgeDropTrash")
  /\ UNCHANGED <<repoRow, rows, arCommits, trash, disk, saved, mine, spc, counters, history>>

(* The trash row goes last in a restore; a purge still has the directory to *)
(* remove.                                                                  *)
Mutant_TrashRowStays(p) ==
  /\ pc[p] \in {"restoreDropTrash", "purgeDropTrash"}
  /\ trash' = IF pc[p] = "restoreDropTrash" THEN trash ELSE NoRow
  /\ Goto(p, IF pc[p] = "restoreDropTrash" THEN "idle" ELSE "removeDir")
  /\ UNCHANGED <<repoRow, rows, archive, disk, saved, mine, spc, counters, history>>

DropTrash(p) ==
  /\ pc[p] \in {"restoreDropTrash", "purgeDropTrash"}
  /\ trash' = NoRow
  /\ Goto(p, IF pc[p] = "restoreDropTrash" THEN "idle" ELSE "removeDir")
  /\ UNCHANGED <<repoRow, rows, archive, disk, saved, mine, spc, counters, history>>

-----------------------------------------------------------------------------
(* purge_deleted_repo *)

StartPurge(p) ==
  /\ pc[p] = "idle" /\ "purge" \in Operations
  /\ trash # NoRow
  /\ purged' = TRUE
  /\ Goto(p, "purgeDropCommits")
  /\ UNCHANGED <<repoRow, rows, archive, trash, disk, saved, mine, spc, counters, acked>>

(* remove_repo_block_dir; it is not asked whether the library is live. *)
RemoveDir(p) ==
  /\ pc[p] = "removeDir"
  /\ disk' = {}
  /\ Goto(p, "idle")
  /\ UNCHANGED <<repoRow, rows, archive, trash, saved, mine, spc, counters, history>>

-----------------------------------------------------------------------------
(* sweep_orphan_repo_dirs, at the library's directory: two reads, then the *)
(* removal                                                                 *)

SweepReadRepo ==
  /\ spc = "idle" /\ Sweeping
  /\ disk # {} /\ ~live
  /\ spc' = "trash"
  /\ UNCHANGED <<repoRow, rows, archive, trash, disk, local, counters, history>>

(* Only the directories of trashed libraries are taken for orphans. *)
Mutant_SweepTrashed ==
  /\ spc = "trash"
  /\ spc' = IF trash # NoRow THEN "remove" ELSE "idle"
  /\ UNCHANGED <<repoRow, rows, archive, trash, disk, local, counters, history>>

SweepReadTrash ==
  /\ spc = "trash"
  /\ spc' = IF trash = NoRow THEN "remove" ELSE "idle"
  /\ UNCHANGED <<repoRow, rows, archive, trash, disk, local, counters, history>>

SweepRemove ==
  /\ spc = "remove"
  /\ disk' = {}
  /\ spc' = "idle"
  /\ UNCHANGED <<repoRow, rows, archive, trash, local, counters, history>>

-----------------------------------------------------------------------------
(* Uploads, as far as they meet the above *)

UploadBlock(w) ==
  /\ pc[w] = "idle" /\ live /\ made < MaxCommits
  /\ made' = made + 1
  /\ mine' = [mine EXCEPT ![w] = made + 1]
  /\ disk' = disk \cup {made + 1}
  /\ Goto(w, "commit")
  /\ UNCHANGED <<repoRow, rows, archive, trash, saved, spc, deletes, failures, history>>

(* The tree and the commit are stored, on the HEAD read before; both refer *)
(* to the repos row.                                                       *)
UploadCommit(w) ==
  /\ pc[w] = "commit"
  /\ IF live
       THEN /\ saved' = [saved EXCEPT ![w] = head]
            /\ fs' = fs \cup {mine[w]}
            /\ commits' = commits \cup {mine[w]}
            /\ Goto(w, "swap")
       ELSE UNCHANGED <<saved, rows>> /\ Goto(w, "idle")
  /\ UNCHANGED <<repoRow, archive, trash, disk, mine, spc, counters, history>>

UploadSwap(w) ==
  /\ pc[w] = "swap"
  /\ IF live /\ head = saved[w]
       THEN /\ head' = mine[w]
            /\ acked' = acked \cup {mine[w]}
       ELSE UNCHANGED <<head, acked>>
  /\ Goto(w, "idle")
  /\ UNCHANGED <<live, member, rows, archive, trash, disk, saved, mine, spc, counters, purged>>

-----------------------------------------------------------------------------
(* A statement fails, the connection breaks or the server dies: the request *)
(* ends where it is.                                                        *)
Fail(p) ==
  /\ pc[p] # "idle" /\ failures < MaxFailures
  /\ failures' = failures + 1
  /\ Goto(p, "idle")
  /\ UNCHANGED <<repoRow, rows, archive, trash, disk, saved, mine, spc, made, deletes, history>>

DeleteStep(p) == StartDelete(p) \/ AddDeletedRepo(p) \/ ArchiveAndDelete(p)
RestoreStep(p) ==
  StartRestore(p) \/ CreateRow(p) \/ CopyFrom(p) \/ SetHead(p) \/ AddMember(p)
DropStep(p) == DropCommits(p) \/ DropFs(p) \/ DropTrash(p)
PurgeStep(p) == StartPurge(p) \/ RemoveDir(p)
SweepStep == SweepReadRepo \/ SweepReadTrash \/ SweepRemove
UploadStep(w) == UploadBlock(w) \/ UploadCommit(w) \/ UploadSwap(w)

Next ==
  \/ \E p \in Requests : DeleteStep(p) \/ RestoreStep(p) \/ DropStep(p) \/ PurgeStep(p)
  \/ \E w \in Writers : UploadStep(w)
  \/ \E p \in Procs : Fail(p)
  \/ SweepStep

Spec == Init /\ [][Next]_vars

(* What an accepted delete, restore or upload does next. *)
RequestRunsOn(p) ==
  \/ AddDeletedRepo(p) \/ ArchiveAndDelete(p) \/ CreateRow(p) \/ CopyFrom(p)
  \/ SetHead(p) \/ AddMember(p) \/ DropStep(p)
UploadRunsOn(w) == UploadCommit(w) \/ UploadSwap(w)

(* One delete or restore at a time, no purge, no sweep, and a failed       *)
(* restore is repeated before the library is deleted again.                *)
SafeSetting ==
  /\ \A p, q \in Requests : p = q
  /\ "purge" \notin Operations
  /\ ~Sweeping
  /\ RetryFirst

-----------------------------------------------------------------------------
(* Type invariant of the tables, the directory and the requests. *)
TypeOK ==
  /\ live \in BOOLEAN /\ member \in BOOLEAN /\ purged \in BOOLEAN
  /\ head \in Heads /\ trash \in Heads \cup {NoRow}
  /\ commits \subseteq Commits /\ fs \subseteq Commits
  /\ arCommits \subseteq Commits /\ arFs \subseteq Commits
  /\ disk \subseteq Commits /\ acked \subseteq Commits
  /\ pc \in [Procs -> Labels]
  /\ saved \in [Procs -> Heads]
  /\ mine \in [Procs -> Heads]
  /\ spc \in {"idle", "trash", "remove"}
  /\ made \in Commits /\ deletes \in 0 .. MaxDeletes /\ failures \in 0 .. MaxFailures

Restorable(k) == trash # NoRow /\ k \in arCommits /\ k \in arFs
InLibrary(k) == live /\ k \in commits /\ k \in fs

(* Until the owner asks for a purge, whatever was committed is in the live *)
(* library or in an archive that a trash row makes restorable, and its     *)
(* data is on disk ("Both the trash entry and the archive are              *)
(* load-bearing", delete_repo): no failure or crash between two statements *)
(* of a delete or a restore loses it.                                      *)
ContentReachable ==
  ~purged => \A k \in acked : k \in disk /\ (InLibrary(k) \/ Restorable(k))

(* Until the owner asks for a purge, HEAD of a live library that is not in *)
(* the trash can be checked out: its commit, its tree and its data are     *)
(* there, whatever uploads did while it was deleted and restored.          *)
HeadReadable ==
  ~purged /\ live /\ trash = NoRow /\ head # NoCommit
    => InLibrary(head) /\ head \in disk

(* An interrupted restore can be repeated until the library is back with   *)
(* all of its content ("a failure leaves a state the user can retry",      *)
(* restore_deleted_repo).                                                  *)
RestoreCompletes ==
  <>[](live /\ trash = NoRow /\ acked \subseteq commits \cap fs \cap disk)

(* The directory of a library that is gone for good is reclaimed, however  *)
(* far its purge came ("a crash leaves the blocks to the next garbage      *)
(* collection", purge_deleted_repo).                                       *)
SpaceReclaimed ==
  (~live /\ trash = NoRow) ~> disk = {}
=============================================================================
