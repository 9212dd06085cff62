---------------------------------- MODULE Gc ----------------------------------
(***************************************************************************)
(* One repository's garbage collection (GcManager) running beside uploads. *)
(*                                                                         *)
(* An upload writes its blocks before the commit that makes them reachable *)
(* is HEAD, and the collector works on a snapshot: it reads HEAD, then the *)
(* commit rows, walks the retained trees, prunes, lists the disk, reads    *)
(* HEAD again and deletes block after block.  Every await in between lets  *)
(* uploads run.                                                            *)
(*                                                                         *)
(* A tree is a root object, named by its content, and the objects of the   *)
(* files in it.  Block b stands for the file that consists of b and for    *)
(* that file's object, so a root is a set of blocks, and two trees merge   *)
(* block by block (conflicts are the matter of Branch).                    *)
(***************************************************************************)
EXTENDS Integers, FiniteSets

CONSTANTS
  Clients, Writers,       \* sync clients and REST uploads
  Blocks,                 \* block ids
  InitialTrees,           \* trees of the library's first commit
  HistoryLimit,           \* repo.history_limit, 0: unlimited
  HistoryTtl,             \* repo.history_ttl_days, 0: unlimited
  MinBlockAge,            \* gc.min_block_age_secs
  MaxUploadTime,          \* environment: no upload lasts longer
  MaxSkew,                \* environment: how far a client's clock is off
  ReuseGarbage,           \* environment: uploads may contain leftover blocks
  MaxTime, MaxCommits, MaxPasses, MaxAbandoned    \* bounds

Procs == Clients \cup Writers
Trees == SUBSET Blocks
Ids == 1 .. MaxCommits          \* auto-increment row ids, never reused
NoCommit == 0
Time == 0 .. MaxTime

ASSUME GcAssumption ==
  /\ Clients \cap Writers = {}
  /\ {HistoryLimit, HistoryTtl, MinBlockAge, MaxUploadTime, MaxSkew,
      MaxTime, MaxPasses, MaxAbandoned} \subseteq Nat
  /\ MaxCommits \in Nat \ {0}
  /\ InitialTrees \subseteq Trees
  /\ ReuseGarbage \in BOOLEAN

VARIABLES
  clock,
  made,       \* the last commit row id handed out
  commits,    \* ids of the commit rows
  row,        \* their contents
  fs, files,  \* root objects and file objects in the fs_object table
  head,       \* repo.head_commit_id
  disk,       \* blocks in the repository's block directory
  mtime,      \* their modification times
  pc, tree, up, seen, target, todo, started,   \* uploads
  abandoned,  \* uploads given up so far
  heads,      \* history: every commit that has been HEAD
  gpc,        \* control state of the collector
  gnow, ghead,  \* its snapshot: time and HEAD
  glist,      \* ... the commit rows
  gkeep,      \* ... the rows to retain
  greach, gfiles, \* ... reachable root and file objects, stored or not
  galive,     \* ... live blocks
  gwhole,     \* history: retained commits that were complete at the walk
  orphans,    \* blocks still to be deleted
  passes

objects == <<fs, files>>
store == <<made, commits, row, objects>>
blockVars == <<disk, mtime>>
uploadVars == <<pc, tree, up, seen, target, todo, started, abandoned>>
marks == <<greach, gfiles, galive, gwhole>>
gcVars == <<gpc, gnow, ghead, glist, gkeep, marks, orphans, passes>>
vars == <<clock, store, head, blockVars, uploadVars, heads, gcVars>>

RootOf(k) == IF k = NoCommit THEN {} ELSE row[k].root
RootStored(t) == t = {} \/ t \in fs
Readable(k) == k = NoCommit \/ (k \in commits /\ RootStored(row[k].root))

(* A commit that can be downloaded in full *)
Complete(k) ==
  k \in commits /\ RootStored(row[k].root) /\ row[k].root \subseteq files \cap disk

(* The files named by the stored trees of these commits *)
Below(ks) == UNION {row[k].root : k \in {i \in ks : RootStored(row[i].root)}}

(* Blocks of files whose objects are stored; what else is on disk is being *)
(* uploaded, or is a leftover.                                             *)
Referenced == Below(commits) \cap files
MayContain(t) == ReuseGarbage \/ t \cap (disk \ Referenced) = {}

(* Nothing but the retention settings looks at a commit's time. *)
Retention == HistoryLimit # 0 \/ HistoryTtl # 0

InsertCommit(t, parent, ctime) ==
  /\ made < MaxCommits
  /\ made' = made + 1
  /\ commits' = commits \cup {made + 1}
  /\ row' = [row EXCEPT ![made + 1] = [root |-> t, parent |-> parent,
                                       ctime |-> IF Retention THEN ctime ELSE 0]]

(* write_block_with_id: a block that is there is not written again and     *)
(* keeps its modification time.                                            *)
WriteBlock(b) ==
  /\ disk' = disk \cup {b}
  /\ mtime' = IF b \in disk THEN mtime ELSE [mtime EXCEPT ![b] = clock]

SetHead(k) ==
  /\ head' = k
  /\ heads' = heads \cup {k}

Begin(p, t) ==
  /\ pc[p] = "idle"
  /\ tree' = [tree EXCEPT ![p] = t]
  /\ started' = [started EXCEPT ![p] = clock]

(* An upload is over: its locals go. *)
Finish(p) ==
  /\ pc' = [pc EXCEPT ![p] = "idle"]
  /\ tree' = [tree EXCEPT ![p] = {}]
  /\ up' = [up EXCEPT ![p] = NoCommit]
  /\ seen' = [seen EXCEPT ![p] = NoCommit]
  /\ target' = [target EXCEPT ![p] = NoCommit]
  /\ todo' = [todo EXCEPT ![p] = {}]
  /\ started' = [started EXCEPT ![p] = 0]

Init ==
  /\ clock = 0
  /\ \E t \in InitialTrees \cup {{}} :
       /\ \/ /\ made = 0 /\ t = {} /\ commits = {} /\ head = NoCommit /\ heads = {}
          \/ /\ made = 1 /\ t \in InitialTrees
             /\ commits = {1} /\ head = 1 /\ heads = {1}
       /\ row = [k \in Ids |-> [root |-> t, parent |-> NoCommit, ctime |-> 0]]
       /\ fs = {t} /\ files = t
       /\ disk = t
  /\ mtime = [b \in Blocks |-> 0]
  /\ pc = [p \in Procs |-> "idle"]
  /\ tree = [p \in Procs |-> {}]
  /\ up = [p \in Procs |-> NoCommit]
  /\ seen = [p \in Procs |-> NoCommit]
  /\ target = [p \in Procs |-> NoCommit]
  /\ todo = [p \in Procs |-> {}]
  /\ started = [p \in Procs |-> 0]
  /\ abandoned = 0
  /\ gpc = "idle" /\ gnow = 0 /\ ghead = NoCommit
  /\ glist = {} /\ gkeep = {} /\ orphans = {}
  /\ greach = {} /\ gfiles = {} /\ galive = {} /\ gwhole = {}
  /\ passes = 0

(* Time passes; MaxUploadTime holds it back while an upload is at its      *)
(* limit.                                                                  *)
Tick ==
  /\ clock < MaxTime
  /\ \A p \in Procs : pc[p] # "idle" => clock - started[p] < MaxUploadTime
  /\ clock' = clock + 1
  /\ UNCHANGED <<store, head, blockVars, uploadVars, heads, gcVars>>

-----------------------------------------------------------------------------
(* A sync upload: commit object (stamped by the client's clock), fs        *)
(* objects, blocks, PUT /commit/HEAD.                                      *)

PutCommit(c) ==
  /\ Readable(head)
  /\ \E t \in Trees \ {RootOf(head)}, ctime \in Time :
       /\ MayContain(t)
       /\ ctime \in clock - MaxSkew .. clock + MaxSkew
       /\ Begin(c, t)
       /\ InsertCommit(t, head, ctime)
  /\ up' = [up EXCEPT ![c] = made + 1]
  /\ pc' = [pc EXCEPT ![c] = "fs"]
  /\ UNCHANGED <<clock, objects, head, blockVars, seen, target, todo, abandoned, heads, gcVars>>

(* A pack of objects is inserted as a whole.  What does not fit into one   *)
(* comes in several: here the root or the files first.                     *)
RecvFs(c) ==
  /\ pc[c] = "fs"
  /\ \/ /\ \/ fs' = fs \cup {tree[c]} /\ UNCHANGED files
           \/ files' = files \cup tree[c] /\ UNCHANGED fs
        /\ UNCHANGED <<pc, todo>>
     \/ /\ fs' = fs \cup {tree[c]} /\ files' = files \cup tree[c]
        /\ todo' = [todo EXCEPT ![c] = tree[c] \ RootOf(row[up[c]].parent)]
        /\ pc' = [pc EXCEPT ![c] = "blocks"]
  /\ UNCHANGED <<clock, made, commits, row, head, blockVars, tree, up, seen, target,
                 started, abandoned, heads, gcVars>>

PutBlock(c) ==
  /\ pc[c] = "blocks"
  /\ \E b \in todo[c] :
       /\ WriteBlock(b)
       /\ todo' = [todo EXCEPT ![c] = @ \ {b}]
  /\ UNCHANGED <<clock, store, head, pc, tree, up, seen, target, started, abandoned,
                 heads, gcVars>>

(* check_commit_blocks: what the tree has and its parent's has not, nothing *)
(* where the parent's cannot be read, all where there is no parent.        *)
Checked(t, parent) ==
  IF parent \in commits
  THEN IF RootStored(row[parent].root) THEN t \ row[parent].root ELSE {}
  ELSE t

(* The objects are there: the root, and the files it brings. *)
Arrived(t, parent) == RootStored(t) /\ Checked(t, parent) \subseteq files

(* update_branch up to the loop: missing objects and missing blocks are    *)
(* answered 446 and sent again; a parent that was pruned is a 400.         *)
StartUpdate(c) ==
  LET parent == row[up[c]].parent
      missing == Checked(tree[c], parent) \ disk
  IN
  /\ pc[c] = "blocks" /\ todo[c] = {}
  /\ \/ /\ up[c] \in commits /\ ~Arrived(tree[c], parent)
        /\ pc' = [pc EXCEPT ![c] = "fs"]
        /\ UNCHANGED <<tree, up, seen, target, todo, started>>
     \/ /\ up[c] \in commits /\ Arrived(tree[c], parent) /\ missing # {}
        /\ todo' = [todo EXCEPT ![c] = missing]
        /\ UNCHANGED <<pc, tree, up, seen, target, started>>
     \/ /\ up[c] \in commits /\ Arrived(tree[c], parent) /\ missing = {}
        /\ parent \in commits \cup {NoCommit}
        /\ pc' = [pc EXCEPT ![c] = "loop"]
        /\ UNCHANGED <<tree, up, seen, target, todo, started>>
     \/ /\ \/ up[c] \notin commits
           \/ /\ Arrived(tree[c], parent) /\ missing = {}
              /\ parent \notin commits \cup {NoCommit}
        /\ Finish(c)
  /\ UNCHANGED <<clock, store, head, blockVars, abandoned, heads, gcVars>>

Merged(b, h, r) == (h \ (b \ r)) \cup (r \ b)

(* One attempt: fast-forward, or merge with a HEAD that moved on.  A       *)
(* merge that cannot read its trees fails the request.                     *)
ReadHead(c) ==
  LET parent == row[up[c]].parent
      m == Merged(RootOf(parent), RootOf(head), tree[c])
  IN
  /\ pc[c] = "loop"
  /\ \/ /\ head \in {NoCommit, parent}
        /\ seen' = [seen EXCEPT ![c] = head]
        /\ target' = [target EXCEPT ![c] = up[c]]
        /\ pc' = [pc EXCEPT ![c] = "cas"]
        /\ UNCHANGED <<store, tree, up, todo, started>>
     \/ /\ head \notin {NoCommit, parent}
        /\ Readable(head) /\ Readable(parent) /\ RootStored(tree[c])
        /\ m \ RootOf(head) \subseteq files \cap disk
        /\ fs' = fs \cup {m} /\ UNCHANGED files
        /\ InsertCommit(m, head, clock)
        /\ seen' = [seen EXCEPT ![c] = head]
        /\ target' = [target EXCEPT ![c] = made + 1]
        /\ pc' = [pc EXCEPT ![c] = "cas"]
        /\ UNCHANGED <<tree, up, todo, started>>
     \/ /\ head \notin {NoCommit, parent}
        /\ \/ ~(Readable(head) /\ Readable(parent) /\ RootStored(tree[c]))
           \/ ~(m \ RootOf(head) \subseteq files \cap disk)
        /\ Finish(c)
        /\ UNCHANGED store
  /\ UNCHANGED <<clock, head, blockVars, abandoned, heads, gcVars>>

(* The compare-and-swap; a lost race is retried at once or, when the       *)
(* attempts are used up, by the client.                                    *)
SwapHead(c) ==
  /\ pc[c] = "cas" /\ c \in Clients
  /\ \/ /\ head = seen[c]
        /\ SetHead(target[c])
        /\ Finish(c)
     \/ /\ head # seen[c]
        /\ pc' \in {[pc EXCEPT ![c] = s] : s \in {"loop", "blocks"}}
        /\ UNCHANGED <<head, heads, tree, up, seen, target, todo, started>>
  /\ UNCHANGED <<clock, store, blockVars, abandoned, gcVars>>

-----------------------------------------------------------------------------
(* A REST upload of one file: its block, then create_file_from_blocks. *)

StoreBlock(w) ==
  /\ made < MaxCommits
  /\ \E b \in Blocks :
       /\ MayContain({b})
       /\ Begin(w, {b})
       /\ WriteBlock(b)
  /\ pc' = [pc EXCEPT ![w] = "stored"]
  /\ UNCHANGED <<clock, store, head, up, seen, target, todo, abandoned, heads, gcVars>>

CreateFile(w) ==
  LET t == RootOf(head) \cup tree[w] IN
  /\ pc[w] = "stored"
  /\ \/ /\ Readable(head) /\ t # RootOf(head)
        /\ fs' = fs \cup {t} /\ files' = files \cup tree[w]
        /\ InsertCommit(t, head, clock)
        /\ seen' = [seen EXCEPT ![w] = head]
        /\ target' = [target EXCEPT ![w] = made + 1]
        /\ pc' = [pc EXCEPT ![w] = "cas"]
        /\ UNCHANGED <<tree, up, todo, started>>
     \/ /\ ~Readable(head) \/ t = RootOf(head)
        /\ Finish(w)
        /\ UNCHANGED store
  /\ UNCHANGED <<clock, head, blockVars, abandoned, heads, gcVars>>

SwapHeadRest(w) ==
  /\ pc[w] = "cas" /\ w \in Writers
  /\ IF head = seen[w] THEN SetHead(target[w]) ELSE UNCHANGED <<head, heads>>
  /\ Finish(w)
  /\ UNCHANGED <<clock, store, blockVars, abandoned, gcVars>>

(* The connection breaks and the upload is never resumed. *)
Abandon(p) ==
  /\ pc[p] # "idle" /\ abandoned < MaxAbandoned
  /\ abandoned' = abandoned + 1
  /\ Finish(p)
  /\ UNCHANGED <<clock, store, head, blockVars, heads, gcVars>>

-----------------------------------------------------------------------------
(* The collector *)

Others == <<clock, made, row, head, uploadVars, heads>>

GcStart ==
  /\ gpc = "idle" /\ passes < MaxPasses
  /\ gnow' = clock
  /\ ghead' = head
  /\ gpc' = "read"
  /\ UNCHANGED <<Others, commits, objects, blockVars, glist, gkeep, marks, orphans, passes>>

(* Rows in the order (ctime, id) descending. *)
Newer(j, k) == \/ row[j].ctime > row[k].ctime
               \/ row[j].ctime = row[k].ctime /\ j > k

Mutant_KeepNullHead(list, now) ==
  {head} \cup {k \in list : ~Retention \/ row[k].ctime >= now - HistoryTtl}

(* compute_keep_commits *)
KeepCommits(list, now) ==
  {k \in list :
     \/ ~Retention
     \/ HistoryLimit > 0 /\ Cardinality({j \in list : Newer(j, k)}) < HistoryLimit
     \/ HistoryTtl > 0 /\ row[k].ctime >= now - HistoryTtl}

EndPass ==
  /\ gpc' = "idle" /\ gnow' = 0 /\ ghead' = NoCommit
  /\ glist' = {} /\ gkeep' = {} /\ orphans' = {}
  /\ greach' = {} /\ gfiles' = {} /\ galive' = {} /\ gwhole' = {}
  /\ passes' = passes + 1

GcReadCommits ==
  /\ gpc = "read"
  /\ \/ /\ commits = {}
        /\ EndPass
     \/ /\ commits # {}
        /\ glist' = commits
        /\ gkeep' = KeepCommits(commits, gnow)
        /\ gpc' = "walk"
        /\ UNCHANGED <<gnow, ghead, marks, orphans, passes>>
  /\ UNCHANGED <<Others, commits, objects, blockVars>>

Mutant_OnlyStoredRoots(keep) == {t \in {row[k].root : k \in keep} : RootStored(t)}

(* collect_fs_ids records a root before it looks whether it is stored; *)
ReachableRoots(keep) == {row[k].root : k \in keep}

(* Every commit's walk starts with an empty set, and the last one counts. *)
Mutant_LastCommit(keep) == Below({k \in keep : \A j \in keep : j <= k})

(* ... but only a root that is stored can name the files below it. *)
ReachableFiles(keep) == Below(keep)

(* collect_repo_alive_blocks: only the objects of files name blocks. *)
AliveBlocks(keep) == ReachableFiles(keep) \cap files

(* Each retained root is looked up once.  That the walk is one step leaves *)
(* out only which of several trees that arrive meanwhile it still sees.    *)
GcWalk ==
  /\ gpc = "walk"
  /\ greach' = ReachableRoots(gkeep)
  /\ gfiles' = ReachableFiles(gkeep)
  /\ galive' = AliveBlocks(gkeep)
  /\ gwhole' = {k \in gkeep : Complete(k)}
  /\ gpc' = IF Retention /\ gkeep # glist THEN "pruneFs" ELSE "list"
  /\ UNCHANGED <<Others, commits, objects, blockVars, gnow, ghead, glist, gkeep, orphans, passes>>

(* prune_repo: the fs objects that are there now and were not reached, the *)
(* files of trees that arrived after the walk among them; then the commit  *)
(* rows.                                                                   *)
GcPruneFs ==
  /\ gpc = "pruneFs"
  /\ fs' = fs \cap greach /\ files' = files \cap gfiles
  /\ gpc' = "pruneCommits"
  /\ UNCHANGED <<Others, commits, blockVars, gnow, ghead, glist, gkeep, marks, orphans, passes>>

GcPruneCommits ==
  /\ gpc = "pruneCommits"
  /\ commits' = commits \ (glist \ gkeep)
  /\ gpc' = "list"
  /\ UNCHANGED <<Others, objects, blockVars, gnow, ghead, glist, gkeep, marks, orphans, passes>>

GcList ==
  /\ gpc = "list"
  /\ orphans' = disk \ galive
  /\ gpc' = "verify"
  /\ UNCHANGED <<Others, commits, objects, blockVars, gnow, ghead, glist, gkeep, marks, passes>>

(* repo_head_moved *)
GcVerifyHead ==
  /\ gpc = "verify"
  /\ \/ /\ head # ghead
        /\ EndPass
     \/ /\ head = ghead
        /\ gpc' = "delete"
        /\ UNCHANGED <<gnow, ghead, glist, gkeep, marks, orphans, passes>>
  /\ UNCHANGED <<Others, commits, objects, blockVars>>

Mutant_NeverFresh(b) == FALSE
Mutant_FreshAtLimit(b) == MinBlockAge > 0 /\ b \in disk /\ gnow - mtime[b] <= MinBlockAge

(* The grace window. *)
Fresh(b) == MinBlockAge > 0 /\ b \in disk /\ gnow - mtime[b] < MinBlockAge

GcDelete ==
  /\ gpc = "delete"
  /\ \E b \in orphans :
       /\ orphans' = orphans \ {b}
       /\ disk' = IF Fresh(b) THEN disk ELSE disk \ {b}
       /\ mtime' = IF Fresh(b) THEN mtime ELSE [mtime EXCEPT ![b] = 0]
  /\ UNCHANGED <<Others, commits, objects, gpc, gnow, ghead, glist, gkeep, marks, passes>>

GcEnd ==
  /\ gpc = "delete" /\ orphans = {}
  /\ EndPass
  /\ UNCHANGED <<Others, commits, objects, blockVars>>

(* The job is cancelled at a checkpoint, a query fails, or the server      *)
(* restarts; only a stop that leaves the work half done is of interest.    *)
GcStop ==
  /\ gpc = "pruneCommits" \/ (gpc = "delete" /\ orphans # {})
  /\ EndPass
  /\ UNCHANGED <<Others, commits, objects, blockVars>>

-----------------------------------------------------------------------------
ClientStep(c) ==
  PutCommit(c) \/ RecvFs(c) \/ PutBlock(c) \/ StartUpdate(c) \/ ReadHead(c) \/ SwapHead(c)

WriterStep(w) == StoreBlock(w) \/ CreateFile(w) \/ SwapHeadRest(w)

GcStep ==
  \/ GcStart \/ GcReadCommits \/ GcWalk \/ GcPruneFs \/ GcPruneCommits \/ GcList
  \/ GcVerifyHead \/ GcDelete \/ GcEnd \/ GcStop

Next ==
  \/ Tick
  \/ \E c \in Clients : ClientStep(c)
  \/ \E w \in Writers : WriterStep(w)
  \/ \E p \in Procs : Abandon(p)
  \/ GcStep

Spec == Init /\ [][Next]_vars

-----------------------------------------------------------------------------
(* Type invariant of the collector, the store and the uploads. *)
TypeOK ==
  /\ clock \in Time
  /\ made \in 0 .. MaxCommits
  /\ commits \subseteq Ids
  /\ row \in [Ids -> [root : Trees, parent : Ids \cup {NoCommit}, ctime : Time]]
  /\ fs \subseteq Trees /\ files \subseteq Blocks
  /\ head \in Ids \cup {NoCommit}
  /\ disk \subseteq Blocks
  /\ mtime \in [Blocks -> Time]
  /\ pc \in [Procs -> {"idle", "fs", "blocks", "loop", "cas", "stored"}]
  /\ tree \in [Procs -> Trees] /\ todo \in [Procs -> Trees]
  /\ up \in [Procs -> Ids \cup {NoCommit}]
  /\ seen \in [Procs -> Ids \cup {NoCommit}]
  /\ target \in [Procs -> Ids \cup {NoCommit}]
  /\ started \in [Procs -> Time]
  /\ abandoned \in Nat
  /\ heads \subseteq Ids
  /\ gpc \in {"idle", "read", "walk", "pruneFs", "pruneCommits", "list", "verify", "delete"}
  /\ gnow \in Time /\ ghead \in Ids \cup {NoCommit}
  /\ glist \subseteq Ids /\ gkeep \subseteq glist
  /\ greach \subseteq Trees /\ gfiles \subseteq Blocks /\ galive \subseteq Blocks
  /\ gwhole \subseteq Ids /\ orphans \subseteq Blocks
  /\ passes \in Nat

(* The setting in which the grace window protects every upload: nothing is *)
(* pruned, no upload outlasts the window, and none contains a block that   *)
(* an earlier upload left behind.                                          *)
Grace == ~Retention /\ ~ReuseGarbage /\ MaxUploadTime < MinBlockAge

(* Every commit that has been HEAD can be downloaded in full: the row, the *)
(* tree, its files and all blocks are there, whatever the collector and    *)
(* the uploads interleave.  Holds in the setting Grace.                    *)
HistoryRestorable == \A k \in heads : Complete(k)

(* "... unreachable from every retained commit of its own repository       *)
(* (history_limit / history_ttl_days plus the current head)": HEAD's row   *)
(* and tree survive every pass, whatever the retention settings.           *)
HeadRetained == Readable(head)

(* What a pass retains and finds complete when it walks stays complete to  *)
(* its end (prune_repo, collect_fs_ids): neither the pruning nor the       *)
(* deletion of blocks takes the row, the root, a file object or a block,   *)
(* whatever the retention settings, and whatever arrives meanwhile.        *)
RetainedTreesKept == \A k \in gwhole : Complete(k)

(* A root that arrives after the walk, below a commit whose row was there  *)
(* (recv-fs after PUT commit), is not pruned: collect_fs_ids has recorded  *)
(* it unseen.  The files below it are not spared that way, and have to be  *)
(* sent again.                                                             *)
LateRootsKept ==
  [][\A k \in gkeep : RootStored(row[k].root) => RootStored(row[k].root)']_vars

(* A pass that ends leaves only blocks of retained commits and blocks      *)
(* inside the grace window: what is garbage does get collected.            *)
Collects ==
  gpc = "delete" /\ gpc' = "idle" /\ orphans = {} =>
    \A b \in disk : b \in galive \/ gnow - mtime[b] < MinBlockAge
=============================================================================
