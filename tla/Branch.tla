------------------------------- MODULE Branch -------------------------------
(***************************************************************************)
(* How a library's branch (the repo row's head_commit_id) is advanced.     *)
(*                                                                         *)
(* Three writers share one HEAD.  A desktop client uploads a commit and    *)
(* asks SyncService::update_branch to advance the branch, which fast-      *)
(* forwards or merges under a compare-and-swap retried MAX_BRANCH_RETRY    *)
(* times, without any lock.  A REST request rewrites one directory under   *)
(* the per-repo mutex (apply_tree_update) and then commits without it      *)
(* (create_commit).  A REST upload keeps the mutex for the whole of        *)
(* create_file_from_blocks.                                                *)
(*                                                                         *)
(* A tree is the function from paths to the version of the file stored     *)
(* there, so a content-addressed root id IS its tree.  Commit ids are      *)
(* hashes of fields that include ctime and author: a new commit gets an    *)
(* unused member of CommitIds.                                             *)
(***************************************************************************)
EXTENDS Integers, FiniteSets

CONSTANTS
  Clients,            \* desktop clients using the sync protocol
  Writers,            \* REST requests in flight
  Names,              \* file paths a writer can edit
  Dirs, Root, DirOf,  \* the directory that holds a path; Root is "/"
  Versions, Absent,   \* file versions (fs ids); Absent: no entry
  CommitIds, NoCommit,\* commit ids; NoCommit is NULL / EMPTY_SHA1
  Nobody,             \* no holder of the per-repo mutex
  MAX_BRANCH_RETRY,   \* retries after the first attempt (3 in the code)
  MaxRequests,        \* bound: requests of each process
  MaxLost             \* bound: replies of update_branch lost on the way

Procs == Clients \cup Writers

ASSUME BranchAssumption ==
  /\ Clients \cap Writers = {}
  /\ Nobody \notin Writers
  /\ NoCommit \notin CommitIds
  /\ CommitIds # {}
  /\ Absent \notin Versions
  /\ Names \cap (Names \X Versions) = {}
  /\ Names # {}
  /\ Root \in Dirs
  /\ DirOf \in [Names -> Dirs]
  /\ MAX_BRANCH_RETRY \in Nat
  /\ MaxRequests \in [Procs -> Nat]
  /\ MaxLost \in Nat

(* conflict_path derives the name of a conflict copy from the name, the    *)
(* author and the mtime of the remote entry, that is, from its version.    *)
Copies == Names \X Versions
Paths == Names \cup Copies
Slot == Versions \cup {Absent}
Trees == [Paths -> Slot]
EmptyTree == [p \in Paths |-> Absent]
OptCommit == CommitIds \cup {NoCommit}
Row == [root : Trees, parent : OptCommit, second : OptCommit]

VARIABLES
  commits,  \* ids of the rows of the commit table
  row,      \* their contents
  fsRoots,  \* root directory objects in the fs_object table
  head,     \* repo.head_commit_id
  lock,     \* holder of the repo's entry of REPO_WRITE_LOCKS
  pc,       \* control state of every process
  seen,     \* the HEAD a process read last
  target,   \* the commit its compare-and-swap installs
  base,     \* client: the commit its working copy is based on
  up,       \* client: the commit it uploaded
  attempt,  \* client: attempts of the running update_branch
  view,     \* writer: the tree it resolved the parent directory in
  edit,     \* writer: the entry it writes
  newRoot,  \* writer: the root apply_tree_update produced
  left,     \* requests a process may still issue
  lost,     \* replies lost so far
  acked     \* history: uploads update_branch answered with success

clientVars == <<base, up, attempt, lost, acked>>
writerVars == <<view, edit, newRoot, lock>>
store == <<commits, row, fsRoots>>
vars == <<commits, row, fsRoots, head, lock, pc, seen, target, base, up,
          attempt, view, edit, newRoot, left, lost, acked>>

RootOf(id) == IF id = NoCommit THEN EmptyTree ELSE row[id].root
HeadTree == RootOf(head)

(* EMPTY_SHA1 stands for the empty directory and needs no fs object. *)
RootStored(t) == t = EmptyTree \/ t \in fsRoots

(***************************************************************************)
(* The file part of the merge table (choose_file), one path at a time:     *)
(* b, h and r are the entry of base, head and remote.                      *)
(***************************************************************************)
Mutant_RemoteWins(b, h, r) == r

Kept(b, h, r) ==
  IF b = h THEN r ELSE IF h = Absent /\ r # b THEN r ELSE h

Mutant_NoCopyForAdds(b, h, r) ==
  b # Absent /\ h # Absent /\ r # Absent /\ h # r /\ b # h /\ b # r

RenamesRemote(b, h, r) ==
  /\ h # Absent /\ r # Absent
  /\ h # r /\ b # h /\ b # r

MergeTrees(b, h, r) ==
  [p \in Paths |->
     IF p \in Copies /\ RenamesRemote(b[p[1]], h[p[1]], r[p[1]])
                     /\ p[2] = r[p[1]]
     THEN p[2]
     ELSE Kept(b[p], h[p], r[p])]

(***************************************************************************)
(* apply_tree_update: the parent directory comes from the tree resolved    *)
(* before the lock, the root above it from HEAD as it is now               *)
(* (walk_up_ancestors, root_override None).  Directories in between, which *)
(* would come from the old tree as well, do not occur at two levels.       *)
(***************************************************************************)
PathDir(p) == IF p \in Names THEN DirOf[p] ELSE DirOf[p[1]]

RewriteDir(old, now, e) ==
  [p \in Paths |->
     IF p = e.name THEN e.slot
     ELSE IF DirOf[e.name] = Root \/ PathDir(p) = DirOf[e.name]
          THEN old[p] ELSE now[p]]

Edits == [name : Names, slot : Slot]
NoEdit == [name |-> CHOOSE n \in Names : TRUE, slot |-> Absent]

(* Inserting a commit row under an unused id (the model runs out of ids,   *)
(* the code does not: MaxRequests and MaxLost keep the instances inside).  *)
FreshId == CHOOSE id \in CommitIds : id \notin commits

InsertCommit(id, r) ==
  /\ commits # CommitIds
  /\ id = FreshId
  /\ commits' = commits \cup {id}
  /\ row' = [row EXCEPT ![id] = r]

(* The locals of an attempt end with it. *)
Forget(p) ==
  /\ seen' = [seen EXCEPT ![p] = NoCommit]
  /\ target' = [target EXCEPT ![p] = NoCommit]

Mutant_BlindUpdate(from, to) == head' = to

(* The conditional UPDATE of test_and_update_head_commit. *)
TestAndUpdateHead(from, to) ==
  /\ head = from
  /\ head' = to

Init ==
  /\ LET first == CHOOSE id \in CommitIds : TRUE IN
       \/ /\ commits = {} /\ head = NoCommit /\ fsRoots = {}
          /\ row = [id \in CommitIds |->
                      [root |-> EmptyTree, parent |-> NoCommit, second |-> NoCommit]]
       \/ \E t \in [Names -> Versions] :
            LET root == [p \in Paths |-> IF p \in Names THEN t[p] ELSE Absent]
            IN  /\ commits = {first} /\ head = first /\ fsRoots = {root}
                /\ row = [id \in CommitIds |->
                            [root |-> root, parent |-> NoCommit, second |-> NoCommit]]
  /\ lock = Nobody
  /\ pc = [p \in Procs |-> "idle"]
  /\ seen = [p \in Procs |-> NoCommit]
  /\ target = [p \in Procs |-> NoCommit]
  /\ base = [c \in Clients |-> NoCommit]
  /\ up = [c \in Clients |-> NoCommit]
  /\ attempt = [c \in Clients |-> 0]
  /\ view = [w \in Writers |-> EmptyTree]
  /\ edit = [w \in Writers |-> NoEdit]
  /\ newRoot = [w \in Writers |-> EmptyTree]
  /\ left = MaxRequests
  /\ lost = 0
  /\ acked = {}

-----------------------------------------------------------------------------
(* Desktop client *)

(* The client downloads HEAD and bases its working copy on it. *)
Download(c) ==
  /\ pc[c] = "idle"
  /\ base' = [base EXCEPT ![c] = head]
  /\ UNCHANGED <<store, head, writerVars, pc, seen, target, up, attempt,
                 left, lost, acked>>

(* PUT /commit/{id}: the root is deliberately not validated. *)
PutCommit(c) ==
  /\ pc[c] = "idle" /\ left[c] > 0
  /\ \E n \in Names, s \in Slot, id \in CommitIds :
       /\ s # RootOf(base[c])[n]
       /\ InsertCommit(id, [root |-> [RootOf(base[c]) EXCEPT ![n] = s],
                            parent |-> base[c], second |-> NoCommit])
       /\ up' = [up EXCEPT ![c] = id]
  /\ left' = [left EXCEPT ![c] = @ - 1]
  /\ pc' = [pc EXCEPT ![c] = "put"]
  /\ UNCHANGED <<fsRoots, head, writerVars, seen, target, base, attempt,
                 lost, acked>>

(* recv-fs stores the objects of the uploaded tree. *)
RecvFs(c) ==
  /\ pc[c] = "put"
  /\ fsRoots' = fsRoots \cup {row[up[c]].root}
  /\ UNCHANGED <<commits, row, head, writerVars, pc, seen, target, clientVars, left>>

Mutant_RootUnchecked(c) ==
  /\ pc[c] = "put"
  /\ pc' = [pc EXCEPT ![c] = "loop"]
  /\ UNCHANGED <<store, head, writerVars, seen, target, clientVars, left>>

(* PUT /commit/HEAD up to the loop: a dangling root is answered 446, a     *)
(* file that somebody else has locked is refused, and both leave           *)
(* everything as it was.  The parent is there: no step removes a commit    *)
(* (Gc does).                                                              *)
StartUpdate(c) ==
  /\ pc[c] = "put"
  /\ RootStored(row[up[c]].root)
  /\ pc' = [pc EXCEPT ![c] = "loop"]
  /\ UNCHANGED <<store, head, writerVars, seen, target, clientVars, left>>

(* One attempt reads the repo row and decides. *)
ReadHead(c) ==
  /\ pc[c] = "loop"
  /\ \/ /\ head = up[c]
        /\ acked' = acked \cup {up[c]}
        /\ attempt' = [attempt EXCEPT ![c] = 0]
        /\ pc' = [pc EXCEPT ![c] = "done"]
        /\ UNCHANGED <<seen, target>>
     \/ /\ head # up[c]
        /\ attempt' = [attempt EXCEPT ![c] = @ + 1]
        /\ seen' = [seen EXCEPT ![c] = head]
        /\ head = NoCommit \/ row[up[c]].parent = head
        /\ target' = [target EXCEPT ![c] = up[c]]
        /\ pc' = [pc EXCEPT ![c] = "cas"]
        /\ UNCHANGED acked
     \/ /\ head # up[c]
        /\ attempt' = [attempt EXCEPT ![c] = @ + 1]
        /\ seen' = [seen EXCEPT ![c] = head]
        /\ head # NoCommit /\ row[up[c]].parent # head
        /\ pc' = [pc EXCEPT ![c] = "merge"]
        /\ UNCHANGED <<target, acked>>
  /\ UNCHANGED <<store, head, writerVars, base, up, left, lost>>

(* merge_branch and create_merge_commit: a two-parent commit, inserted     *)
(* unless the very same commit (same second, same fields) is there.        *)
MergeBranch(c) ==
  LET merged == MergeTrees(RootOf(row[up[c]].parent), row[seen[c]].root,
                           row[up[c]].root)
      r == [root |-> merged, parent |-> seen[c], second |-> up[c]]
  IN
  /\ pc[c] = "merge"
  /\ fsRoots' = fsRoots \cup {merged}
  /\ \E id \in CommitIds :
       /\ \/ InsertCommit(id, r)
          \/ id \in commits /\ row[id] = r /\ UNCHANGED <<commits, row>>
       /\ target' = [target EXCEPT ![c] = id]
  /\ pc' = [pc EXCEPT ![c] = "cas"]
  /\ UNCHANGED <<head, writerVars, seen, clientVars, left>>

(* The compare-and-swap of update_branch.  A lost race re-reads and, when  *)
(* the attempts are used up, answers 500: the client keeps its commit.     *)
SwapHead(c) ==
  /\ pc[c] = "cas"
  /\ \/ /\ TestAndUpdateHead(seen[c], target[c])
        /\ acked' = acked \cup {up[c]}
        /\ attempt' = [attempt EXCEPT ![c] = 0]
        /\ pc' = [pc EXCEPT ![c] = "done"]
     \/ /\ head # seen[c] /\ attempt[c] <= MAX_BRANCH_RETRY
        /\ pc' = [pc EXCEPT ![c] = "loop"]
        /\ UNCHANGED <<head, acked, attempt>>
     \/ /\ head # seen[c] /\ attempt[c] > MAX_BRANCH_RETRY
        /\ attempt' = [attempt EXCEPT ![c] = 0]
        /\ pc' = [pc EXCEPT ![c] = "put"]
        /\ UNCHANGED <<head, acked>>
  /\ Forget(c)
  /\ UNCHANGED <<store, writerVars, base, up, left, lost>>

(* The reply arrives, and the client's working copy is the commit it sent; *)
(* or it is lost, and the client sends the same PUT again.                 *)
Reply(c) ==
  /\ pc[c] = "done"
  /\ \/ /\ base' = [base EXCEPT ![c] = up[c]]
        /\ up' = [up EXCEPT ![c] = NoCommit]
        /\ pc' = [pc EXCEPT ![c] = "idle"]
        /\ UNCHANGED lost
     \/ /\ lost < MaxLost
        /\ lost' = lost + 1
        /\ pc' = [pc EXCEPT ![c] = "put"]
        /\ UNCHANGED <<base, up>>
  /\ UNCHANGED <<store, head, writerVars, seen, target, attempt, left, acked>>

-----------------------------------------------------------------------------
(* REST requests *)

(* A service method resolves the parent directory in the current tree; an  *)
(* empty library only has its root, which is stored on the spot.           *)
Resolve(w) ==
  /\ pc[w] = "idle" /\ left[w] > 0
  /\ \E e \in Edits :
       /\ head # NoCommit \/ DirOf[e.name] = Root
       /\ edit' = [edit EXCEPT ![w] = e]
  /\ view' = [view EXCEPT ![w] = HeadTree]
  /\ fsRoots' = IF head = NoCommit THEN fsRoots \cup {EmptyTree} ELSE fsRoots
  /\ left' = [left EXCEPT ![w] = @ - 1]
  /\ pc' = [pc EXCEPT ![w] = "resolved"]
  /\ UNCHANGED <<commits, row, head, lock, seen, target, clientVars, newRoot>>

(* create_file_from_blocks takes the lock before it looks at the tree. *)
StartUpload(w) ==
  /\ pc[w] = "idle" /\ left[w] > 0
  /\ \E e \in Edits :
       /\ e.slot # Absent
       /\ head # NoCommit \/ DirOf[e.name] = Root
       /\ edit' = [edit EXCEPT ![w] = e]
  /\ left' = [left EXCEPT ![w] = @ - 1]
  /\ pc' = [pc EXCEPT ![w] = "upload"]
  /\ UNCHANGED <<store, head, lock, seen, target, clientVars, view, newRoot>>

(* acquire_repo_lock.  Whoever waits for the repo's mutex holds the map of *)
(* mutexes meanwhile: with one repository, that is the same queue.         *)
AcquireRepoLock(w) ==
  /\ pc[w] \in {"resolved", "upload"}
  /\ lock = Nobody
  /\ lock' = w
  /\ pc' = [pc EXCEPT ![w] = IF @ = "resolved" THEN "locked" ELSE "uploadLocked"]
  /\ UNCHANGED <<store, head, seen, target, clientVars, view, edit, newRoot, left>>

(* create_file_from_blocks resolves the parent directory under the lock. *)
ResolveUpload(w) ==
  /\ pc[w] = "uploadLocked"
  /\ view' = [view EXCEPT ![w] = HeadTree]
  /\ fsRoots' = IF head = NoCommit THEN fsRoots \cup {EmptyTree} ELSE fsRoots
  /\ pc' = [pc EXCEPT ![w] = "uploadRead"]
  /\ UNCHANGED <<commits, row, head, lock, seen, target, clientVars, edit,
                 newRoot, left>>

(* apply_tree_update releases the lock when it returns; an upload keeps it. *)
(* An upload that keeps both files (replace=0) writes to a name of its own, *)
(* and is the edit of a free name here.                                     *)
ApplyTreeUpdate(w) ==
  LET t == RewriteDir(view[w], HeadTree, edit[w]) IN
  /\ pc[w] \in {"locked", "uploadRead"}
  /\ newRoot' = [newRoot EXCEPT ![w] = t]
  /\ fsRoots' = fsRoots \cup {t}
  /\ lock' = IF pc[w] = "locked" THEN Nobody ELSE lock
  /\ pc' = [pc EXCEPT ![w] = "applied"]
  /\ UNCHANGED <<commits, row, head, seen, target, clientVars, view, edit, left>>

Mutant_LockLeaks(w) ==
  /\ pc' = [pc EXCEPT ![w] = "idle"]
  /\ lock' = lock
  /\ view' = [view EXCEPT ![w] = EmptyTree]
  /\ edit' = [edit EXCEPT ![w] = NoEdit]
  /\ newRoot' = [newRoot EXCEPT ![w] = EmptyTree]

(* The request returns: its locals and, for an upload, its lock go. *)
Return(w) ==
  /\ pc' = [pc EXCEPT ![w] = "idle"]
  /\ lock' = IF lock = w THEN Nobody ELSE lock
  /\ view' = [view EXCEPT ![w] = EmptyTree]
  /\ edit' = [edit EXCEPT ![w] = NoEdit]
  /\ newRoot' = [newRoot EXCEPT ![w] = EmptyTree]

(* create_commit reads HEAD again for the parent.  An unchanged tree makes *)
(* no commit; an identical row (same second) violates the unique key and   *)
(* the request fails.                                                      *)
CreateCommit(w) ==
  LET r == [root |-> newRoot[w], parent |-> head, second |-> NoCommit] IN
  /\ pc[w] = "applied"
  /\ \/ /\ \/ head # NoCommit /\ row[head].root = newRoot[w]
           \/ \E id \in commits : row[id] = r
        /\ Return(w)
        /\ UNCHANGED <<commits, row, seen, target>>
     \/ /\ ~(head # NoCommit /\ row[head].root = newRoot[w])
        /\ \E id \in CommitIds :
             /\ InsertCommit(id, r)
             /\ target' = [target EXCEPT ![w] = id]
        /\ seen' = [seen EXCEPT ![w] = head]
        /\ pc' = [pc EXCEPT ![w] = "cas"]
        /\ UNCHANGED writerVars
  /\ UNCHANGED <<fsRoots, head, clientVars, left>>

(* The compare-and-swap of create_commit: a lost race is a 409. *)
SwapHeadRest(w) ==
  /\ pc[w] = "cas"
  /\ \/ TestAndUpdateHead(seen[w], target[w])
     \/ head # seen[w] /\ UNCHANGED head
  /\ Forget(w)
  /\ Return(w)
  /\ UNCHANGED <<store, clientVars, left>>

-----------------------------------------------------------------------------
ClientStep(c) ==
  \/ RecvFs(c) \/ StartUpdate(c) \/ ReadHead(c) \/ MergeBranch(c)
  \/ SwapHead(c) \/ Reply(c)

WriterStep(w) ==
  \/ AcquireRepoLock(w) \/ ResolveUpload(w) \/ ApplyTreeUpdate(w)
  \/ CreateCommit(w) \/ SwapHeadRest(w)

Next ==
  \/ \E c \in Clients : Download(c) \/ PutCommit(c) \/ ClientStep(c)
  \/ \E w \in Writers : Resolve(w) \/ StartUpload(w) \/ WriterStep(w)

Spec == Init /\ [][Next]_vars

(* A library that is only written through REST uploads. *)
UploadNext == \E w \in Writers : StartUpload(w) \/ WriterStep(w)
UploadSpec == Init /\ [][UploadNext]_vars

-----------------------------------------------------------------------------
ClientPc == {"idle", "put", "loop", "merge", "cas", "done"}
WriterPc == {"idle", "resolved", "locked", "upload", "uploadLocked",
             "uploadRead", "applied", "cas"}

(* Type invariant of the branch protocol: table rows, HEAD and the locals  *)
(* of update_branch and of the REST write path.                            *)
TypeOK ==
  /\ commits \subseteq CommitIds
  /\ row \in [CommitIds -> Row]
  /\ fsRoots \subseteq Trees
  /\ head \in OptCommit
  /\ lock \in Writers \cup {Nobody}
  /\ pc \in [Procs -> ClientPc \cup WriterPc]
  /\ \A c \in Clients : pc[c] \in ClientPc
  /\ \A w \in Writers : pc[w] \in WriterPc
  /\ seen \in [Procs -> OptCommit]
  /\ target \in [Procs -> OptCommit]
  /\ base \in [Clients -> OptCommit]
  /\ up \in [Clients -> OptCommit]
  /\ attempt \in [Clients -> Nat]
  /\ view \in [Writers -> Trees]
  /\ edit \in [Writers -> Edits]
  /\ newRoot \in [Writers -> Trees]
  /\ left \in [Procs -> Nat]
  /\ lost \in Nat
  /\ acked \subseteq CommitIds

(* HEAD always names a stored commit whose root directory object is        *)
(* stored too: put_commit accepts a dangling root and only update_branch       *)
(* stops it from becoming HEAD.                                            *)
HeadStored ==
  head # NoCommit => head \in commits /\ RootStored(row[head].root)

(* x is reachable from h over parent and second parent: it is in every     *)
(* set of commits that holds h and is closed under both.                   *)
ParentClosed(S) ==
  \A x \in S : {row[x].parent, row[x].second} \ {NoCommit} \subseteq S
InHistory(x, h) ==
  \A S \in SUBSET commits : h \in S /\ ParentClosed(S) => x \in S

(* An upload that update_branch acknowledged is reachable from HEAD for    *)
(* ever, whoever moves HEAD afterwards: the compare-and-swap never drops a *)
(* commit from the branch's history.                                       *)
AckedInHistory == \A u \in acked : InHistory(u, head)

(* Every HEAD move appends to the history: the first parent of the new     *)
(* HEAD is the old one, for fast-forwards, merges and REST commits alike.  *)
HeadAdvances == [][head' # head => /\ head' \in CommitIds
                                   /\ row'[head'].parent = head]_vars

(* The paths a process set out to change: what its uploaded tree differs   *)
(* from its base in (and the conflict copies of those), or the entry of    *)
(* its REST request.                                                       *)
ClientTouches(c) ==
  LET b == RootOf(row[up[c]].parent)
      r == row[up[c]].root
  IN  {p \in Paths : \/ b[p] # r[p]
                     \/ p \in Copies /\ b[p[1]] # r[p[1]] /\ p[2] = r[p[1]]}
Touches(p) == IF p \in Clients THEN ClientTouches(p) ELSE {edit[p].name}

(* p's compare-and-swap moves HEAD and changes a path outside Touches(p). *)
Undoes(p) ==
  /\ pc[p] = "cas" /\ pc'[p] # "cas" /\ head' # head
  /\ \E q \in Paths \ Touches(p) : RootOf(head)'[q] # RootOf(head)[q]

(* A client's upload changes only what the client changed: work another    *)
(* writer, client or REST, committed in the meantime is never undone by a  *)
(* fast-forward or a merge.                                                *)
ClientNoLostUpdate == [][\A c \in Clients : ~Undoes(c)]_vars

(* The same for REST requests, as the comment on create_commit's swap has  *)
(* it: HEAD moves only while it is the commit the tree was computed from.  *)
RestNoLostUpdate == [][\A w \in Writers : ~Undoes(w)]_vars

(* What a client uploaded is in the tree its upload produced: at its path, *)
(* or in a conflict copy when HEAD had changed the same file.              *)
Lands(c) ==
  pc[c] = "cas" /\ pc'[c] = "done" =>
    \A n \in Names :
      LET r == row[up[c]].root[n] IN
      r # Absent /\ r # RootOf(row[up[c]].parent)[n] =>
         \/ RootOf(head)'[n] = r
         \/ RootOf(head)'[<<n, r>>] = r

UploadLands == [][\A c \in Clients : Lands(c)]_vars
=============================================================================
