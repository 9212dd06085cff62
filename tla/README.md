# nanofile: a TLA+ model of the library store

nanofile is a self-hosted file server that speaks the Seafile protocols.  This
directory holds TLA+ modules for the parts of it that must not lose data or
work: how the branch of a library advances, how concurrent writers are merged,
what the tree operations and WebDAV do to a tree, how blocks reach the disk, how
garbage is collected, how a library goes to the trash and comes back, how
resumable uploads are put together and accounted for, and what the background
jobs and the mail queue keep across crashes and restarts.  TLC checks the
modules on small instances; TLAPS proves the main results for every instance.

Paths below are relative to the repository root; `server/src` is abbreviated as
`S`.

## 1. Inventory

| component | state | operations | hard because |
|---|---|---|---|
| branch update (`S/service/sync/mod.rs`, `S/fs/core/file_ops.rs`, `S/repository/repo.rs`) | `repo.head_commit_id`, commit rows, fs objects, `REPO_WRITE_LOCKS` | `put_commit`, `insert_fs_objects`, `update_branch`, `merge_branch`, `apply_tree_update`, `create_commit`, `create_file_from_blocks` | three kinds of writers share one HEAD; a lock covers some of them only; replies get lost |
| three-way merge (`S/fs/core/merge.rs`) | none (pure function of three trees) | `merge_level`, `choose_file`, `choose_dir`, `conflict_path` | file/directory conflicts, conflict names, repeated merges |
| garbage collection (`S/fs/core/gc.rs`) | snapshot of a repo, kept commits, live blocks | scan, prune, list, verify, delete, sweep | runs beside uploads, on a snapshot |
| library life cycle (`S/fs/core/trash.rs`, `S/fs/core/repo_archive.rs`, `S/service/repo/service.rs`) | repo row, trash row, archive tables, block directory | delete, restore, purge, sweep | several database writes and one directory removal, no common transaction |
| block store (`infra/src/storage/block_store.rs`, `encrypting_block_store.rs`, `S/fs/core/block_verify.rs`) | files, temp files, positive existence cache | stage, flush, publish, `has_block`, `remove_block`, convert, verify | concurrent writers of one file, cache against deletion, crashes between file-system calls |
| tree operations, WebDAV (`S/service/fs/file.rs`, `fileops.rs`, `dir.rs`, `S/webdav`) | the tree, `repo.size` | mkdir, rename, move, copy, delete, batches, MOVE, COPY | name collisions, stale parents, requests of several commits |
| size and quota (`S/fs/core/size.rs`, `S/service/fs/quota.rs`, `infra/src/quota_cache.rs`) | `repo.size`, quota cache | adjust, recompute, reserve | incremental counter beside a recomputed one |
| background jobs (`S/tasks`, `S/repository/job_run.rs`) | run table, drivers, permits, journal with leases | submit, begin, park, finish, record, cancel, sweep, drain, recover | crashes and in-place restarts between memory and journal, replays, deduplication |
| mail queue (`S/service/mail/queue.rs`, `S/repository/email_message.rs`) | message rows with leases | enqueue, claim, send, record, requeue, delete | several senders, lost answers, at-least-once delivery |
| rate limits (`infra/src/rate_limit`) | windows per key | record, check | time windows, eviction |
| authentication, sharing, API keys (`S/service/auth`, `S/service/sharing`, `S/service/api_key.rs`) | tokens, shares, caches | issue, check, revoke | cached copies of revoked rows |
| resumable upload (`S/handler/web/upload.rs`, `S/handler/web/temp_file.rs`) | temp-file entries, streamed blocks, reservations | chunk, stream, assemble, commit, finish, expire | repeated chunks, lost entries, shared quota |
| sandbox workers (`S/sandbox`) | worker pool | spawn, request, kill | process failure |
| indexer, OCR, face tags, thumbnails (`S/indexer`, `S/ocr`, `S/face_tags`) | derived data | index, query | derived, rebuilt at will |
| web UI, handlers, locales, migrations, tray | none of their own | render, route | presentation and schema |

The components talk through the database (SQLite, one statement or one
transaction at a time), the block directory on disk and in-process mutexes; every
`await` between two of those accesses is a point where another request runs.

What makes each of them correct:

- *branch update*: an acknowledged upload never leaves the history of HEAD; HEAD
  only ever names a stored commit and tree; no writer undoes what another one
  committed; every request is answered.
- *merge*: nobody's work is lost, nothing deleted comes back without a reason,
  names stay unique, the outcome's flags tell the truth.
- *garbage collection*: no block, tree or commit of the retained history is
  deleted, whatever arrives during the pass; what is garbage is collected.
- *library life cycle*: content is in the live library or restorable from the
  trash until the owner purges it; an interrupted restore can be repeated; the
  space of a purged library is reclaimed.
- *block store*: an acknowledged block is readable until it is removed, whatever
  stops in between; nothing makes a readable block worse; one writer is told that it
  created the block; an existence answer is not staler than a deletion.
- *tree operations, WebDAV*: rename, move and copy neither lose nor duplicate an
  entry; a request of several commits that succeeds did what it says.
- *size and quota*: the counter and the adjustments in flight add up to the
  recomputed size; every reservation is released.
- *resumable upload*: what is committed is what the client sent.
- *jobs*: durable work that was written down is judged before it leaves the
  journal; other work is never executed twice; every run ends.
- *mail*: a message is delivered twice only if an answer got lost, and every
  message ends as sent, failed or deleted.

## 2. Plan

| order | module | of | status |
|---|---|---|---|
| 1 | `Branch`, `MCBranch`, `MCBranchHeads`, `BranchProofs` | writers of one HEAD | checked and proved |
| 2 | `Gc`, `MCGc`, `MCGcPasses`, `GcProofs` | a collector pass beside uploads | checked and proved |
| 3 | `Library`, `MCLibrary`, `MCLibraryFaults`, `LibraryProofs` | delete, restore, purge, sweep | checked and proved |
| 4 | `Merge` | the merge as a function | checked and proved (`ServicesProofs`) |
| 5 | `TreeOps`, `MCTreeOps`, `TreeOpsProofs` | tree operations, WebDAV MOVE and COPY, the size | checked and proved |
| 6 | `BlockFiles`, `MCBlockFiles`, `BlockFilesProofs` | one block's file, cache and crashes | checked and proved |
| 7 | `Jobs`, `Worklist`, `MCJobs`, `JobsProofs` | background runs, journal, recovery | checked and proved, with the refinement |
| 8 | `Uploads`, `MCUploads`, `UploadsProofs` | resumable uploads, reservations, size | checked and proved |
| 9 | `MailQueue` | the outbox | checked and proved (`ServicesProofs`) |
| | `MCServices`, `ServicesProofs` | extends 4 and 9 and instantiates 5, 6 and 8, which share no state | checked and proved |

`Branch` is the centre: it contains the file part of the merge table, which
`Merge` gives in full; `TreeOps` says what the operations do to the tree whose
commits race in `Branch`; `Gc` and `Library` use a coarser branch update (one swap
of HEAD) and add blocks and the archive; `BlockFiles` is one of those blocks in
detail; `Uploads` is what happens before `create_file_from_blocks`.

Abstract specifications: `Worklist`, which `Jobs` implements (checked and proved).  Worth
stating next: the branch as a register that only grows a history (implemented by
`Branch`), and a library as a set of commits that is either live or in the trash
(implemented by `Library` under `SafeSetting`).

Every safety property of a passing run is now a theorem, of the run's own specification or
(`gc_passes`, `branch_heads`) of the component it instantiates.

## 3. Modules

### Branch

| state | in the code |
|---|---|
| `commits`, `row` | table `commits`; ids are hashes, so a new commit takes an unused id |
| `fsRoots` | root directory objects of table `fs_objects` |
| `head` | `repos.head_commit_id` |
| `lock` | the repo's entry of `REPO_WRITE_LOCKS` |
| `seen`, `target`, `attempt` | locals of `update_branch` / `create_commit` |
| `view`, `edit`, `newRoot` | locals of a REST request: the resolved parent directory, the entry it writes, the root it got |
| `base`, `up` | the client's working copy and the commit it is uploading |
| `acked` | history variable: uploads that were answered with success |

A tree is a function from paths to file versions, so equal contents are equal
ids.  `PutCommit` (`put_commit`) inserts a commit whose tree need not be stored
yet; `RecvFs` (`insert_fs_objects`) stores it; `StartUpdate`, `ReadHead`,
`MergeBranch` and `SwapHead` are the stretches of `update_branch` between two
accesses to the database.  `SwapHead` is the conditional `UPDATE` of
`test_and_update_head_commit`, retried `MAX_BRANCH_RETRY` times.  `Reply` may be
lost; the client then sends the same request again.

A REST request is `Resolve` (outside any lock), `AcquireRepoLock`,
`ApplyTreeUpdate` (which releases the mutex), `CreateCommit`, `SwapHeadRest`.  An
upload (`StartUpload`, `ResolveUpload`) holds the mutex to the end.  `RewriteDir` is
what `walk_up_ancestors` does: the edited directory comes from the tree resolved
before, the root above it from HEAD now.  Directories in between, which the code takes
from the old chain as well, do not occur at two levels.

Left out of these actions: the refusal for a file somebody else has locked
(`check_commit_file_locks`, one more way for `StartUpdate` to change nothing); the
keep-both mode of an upload (`replace=0`), which writes to a free name; and the mutex
around the map of mutexes, which a request holds while it waits for its repo's: with one
repository the two are one queue, with several, one slow library holds up the writers of
the others.

### Merge

`merge_trees` as a function over trees of two levels, the recursion unrolled.  An
entry is a file with a version or a directory with its set of entries.
`ChooseFile` and `ChooseDir` are the two tables of `choose_file` and `choose_dir`;
`MergeName` runs the file part, then the directory part on the slots it left (a
remote directory may have been renamed in between).  A conflict name is the old
name with a mark, the modification for a file (`conflict_file_name`) and the
clock for a directory (`conflict_dir_name`).  `Init` ranges over all triples
of trees; the one action is the merge.

### Gc

One pass over one library: `GcStart` (time and HEAD), `GcReadCommits` (the rows and
`compute_keep_commits`), `GcWalk` (`collect_repo_alive_blocks`), `GcPruneFs` and
`GcPruneCommits` (`prune_repo`), `GcList`, `GcVerifyHead` (`repo_head_moved`), and one
`GcDelete` per orphan with the grace window `Fresh`; `GcStop` is a cancelled
checkpoint, an error or a restart.  Beside it run sync uploads (commit, trees,
blocks, branch update with its 446 answers) and REST uploads (block, then
`create_file_from_blocks`); `Abandon` leaves garbage behind.  A tree is a root object and
the objects of its files (one block each); the objects come in one pack or in several, the
root or the files first.  `collect_fs_ids` records a root before it looks whether it is
stored, but only a stored root can name its files, so `GcPruneFs` takes the files of a tree
that arrived after the walk and leaves its root.  `check_commit_blocks` (`Checked`,
`Arrived`) then sends the client back for them, unless it had passed already.  Time is a
counter; `MinBlockAge` is `gc.min_block_age_secs`.  `verify_head` is on, as in
`GcPolicy::new`.

### Library

| state | in the code |
|---|---|
| `live`, `head`, `member` | rows of `repos` and `repo_members` |
| `commits`, `fs` | the library's rows of `commits` and `fs_objects` |
| `arCommits`, `arFs` | `deleted_repo_commits`, `deleted_repo_fs_objects` |
| `trash` | the row of `deleted_repos`: its `head_id` |
| `disk` | the library's block directory |
| `acked`, `purged` | history variables |

Every action is one statement or one transaction.  Delete: `StartDelete`,
`AddDeletedRepo`, `ArchiveAndDelete`.  Restore: `StartRestore`, `CreateRow`,
`CopyFrom`, `SetHead`, `AddMember`, `DropCommits`, `DropFs`, `DropTrash`.  Purge:
`StartPurge`, the drops, `RemoveDir`.  Sweep: `SweepReadRepo`, `SweepReadTrash`,
`SweepRemove`.  `Fail` ends a request anywhere.

### TreeOps

A tree is a set of entries `[path, id]`, a path the sequence of its names; `"x (1)"`
is the name `<<"x", 1>>`.  The operators `Renamed`, `Moved`, `Copied` and `BatchMoved`
give the trees that `rename_entry`, `move_entry`, `batch_copy` and `batch_move`
commit, with the order the code works in: the removal first, the destination
resolved in the resulting tree, names planned and made unique.  A request up to its
commit is one step, since how two requests race for HEAD is `Branch`'s subject; a WebDAV
MOVE or COPY is `DavBegin` (the checks), `DavDelete` (the target goes), `DavMove` or
`DavCopy`, `DavRename`, and may stop after each of them.  `deleted` collects what the trash
is to hold.

`size` is `repos.size`.  A call that deletes or copies measures before it commits and
adjusts the size afterwards, in a transaction of its own: the commit leaves `due`, and
`AdjustSize` (`adjust_repo_size`) settles it, beside the commits and adjustments of the
other caller.  It may be lost (`AdjustmentLost`, `DavEnd`: an error, a request or a process
that is gone).  `drifted` notes what makes the counter wrong for good: a lost adjustment, a
recomputation at size zero (or a sum cut off at zero) beside another adjustment, a copied
directory.  That a call measures and commits in one step leaves out one more: two
deletes of one entry that both measure it before either commits subtract it twice.

`Careful` is an assumption about clients, not a bound: they choose names that are
free in the target directory and do not touch a library while a WebDAV request
works on it.  Section 8 says what happens otherwise.

### BlockFiles

The file of one block.  A block's content is its id, so the state of the file is its
format: none, short (an interrupted write of an older version), plain, ciphertext
with header ("sealed") or without ("bare").  A write is `LookUp` (`exists_cache`),
`Stat`, `Stage`, `Flush` (`sync_all`), `Publish` (hard link, or rename to replace) and
`Settle`; `has_block`, `block_size`, `remove_block` (`Unlink`, `Forget`) and
`convert_legacy_block` (`ReadRaw`, ...) share these steps.  `Verify` and `Quarantine`
are `verify-blocks --repair`.  `Startup` is the sweep of temp files.  `Mode` is the
at-rest encryption: off, lazy (old blocks stay readable) or on.

Removals run beside everything else: the collector's are kept away from new blocks by the
grace window, but a refused upload removes the blocks it wrote at once
(`S/service/fs/file.rs:444`, `S/handler/web/upload.rs:2006`, `S/handler/web/temp_file.rs:122`).
`missed` holds the tasks whose look at the file, or whose own publication, a removal has
outdated, and `doubt` says the same of the cached entry; a write answered from either
promises nothing.  `owed` is the promise, `creators` counts what `was_new` told.

Two things can stop.  `Crash` is the process: the system keeps its files.  `PowerLoss` is
the machine: the temp file is fsynced before it is linked, the directory never is, so
`held` collects what the disk may have under the name until the system writes the
directory back (`WrittenBack`), and any of it may be found afterwards.  A write
acknowledged before that is not promised to outlive the power.

### Uploads

Resumable uploads of one user into one library.  A request is `GetOrCreate`,
`Reserve` (`reserve_if_fits`, first chunk), `WriteChunk`, `FeedStream`, and on the last
chunk `TakeStreamedBlocks` or `Assemble`, `CheckUploadQuota`, `CommitFile`, `ReadSize`,
`WalkTree`, `Charge` (`adjust_size`, release of the reservation), `Finish`; then
`Reply`.  Each may fail.  A file is the sequence of the chunks its blocks were cut
from, 0 for a hole.  `CleanupStale` is the reaper, `Restart` a new process.  With
`Disturbed` an upload may lose its entry half-way.  The uploads are those without
`replace`: no old size is deducted.  A refusal by the quota also removes the blocks the
request had written (`cleanup_uncommitted_blocks`); what such a removal does beside other
requests is in `BlockFiles`.

### MailQueue

Senders are the worker, the worker a restart in place left behind, and the
administrator's retry and test mail.  `StartDrain` reaps expired leases and reads what
is due, `Claim` is the conditional `UPDATE`, `Send` ends in acceptance, refusal or an
acceptance that is not heard of, `Record` writes the outcome by id.  Times are
reduced to what the queries ask: is the row due (`BackoffOver`), has the lease run out
(`LeaseRunsOut`).  A drain stamps one `now` on all its claims, so the lease of a row late
in a slow batch may run out under its holder; that is `SlowSends`, which the runs and the
theorems exclude (section 8).

### Jobs and Worklist

| state | in the code |
|---|---|
| `st`, `params`, `info` | the entries of `RunStore` |
| `drv`, `sem`, `report`, `cancels` | the driver task of a run, the semaphore it waits on, the body's outcome, its token |
| `row` | table `job_runs`: open or closed, attempt, lease |
| `phase`, `gen`, `pass` | the process, the server generation, the recovery pass of each generation |
| `orphans`, `started`, `judged`, `unclosed`, `passedOver` | history variables |

`Submit` and `Tick` reserve an entry under the admission rules (`Admits`,
`Evictions`); `Enqueue` writes the journal, which may fail; `DropRequest` is the request
whose future is dropped during that write (its client left, or the timeout layer ended
it): the reservation stays, the row is written or not, and nobody will spawn the driver.
`Begin`, `Park`, `Resume`, `FinishBody` and `Record` are the driver; `Cancel` and `Sweep`
act from outside.  `Crash` loses the memory; `Start` comes within the lease of any of the
rows or after it (`RestartSec=5` in the deployment guide against a lease of 300 s);
`Drain`, `InterruptActive`, `Install` are a restart in place, which leaves the old drivers
alive.  Recovery is `RecoverRead` (as many rows as a pass reads, 50 in the code, `limit`
here), `RecoverClose`, `RecoverClaim`, `RecoverSubmit`, `RecoverSettle`, each with its
failing statement; `passedOver` has the unfinished rows of dead runs that the last pass
did not take up.  `RecoverSubmit` may be refused for a reason `Admits` leaves out (the caps
per queue, per user and on bytes).  `Policy` has the five kinds of jobs in the catalog,
told apart by durability, deduplication, cooperation and permits.

`Worklist` is the promise in two variables: work is pending from the moment it is
written down until it leaves the list, and it leaves only after it was judged.
`Jobs` implements it with `pending` the durable work that has an unfinished row under
any run id (`PendingWork`): `DurableWorkKept` is `Durability!Spec`.

## 4. Runs

| run | specification | checks | result |
|---|---|---|---|
| `branch_heads` | one client with a lost reply, two REST requests, two directories; or two desktop clients, one of them twice | `HeadIsStored`, `AckedInHistory`, `HeadAdvances`, `SyncNoLostUpdate`, `SyncUploadLands`, `RequestsAreAnswered` | holds |
| `branch_rest` | two REST requests that go through `update_dir_tree_and_commit` | `RestNoLostUpdate` | **violated** |
| `gc_passes` | unlimited history beside a client and a REST upload; `history_limit = 1` and a client that may give up | `TypeOK`, `HistoryKept`, `RetainedTreesKept`, `LateRootsKept`, `PassCollects` | holds |
| `gc_ttl` | `history_ttl_days` alone | `HeadRetained` | **violated** |
| `gc_prune` | `history_limit = 2` | `HeadRetained` | **violated** |
| `library_faults` | deletes and restores, or deletes, purges and the sweep, that fail anywhere, beside two uploads | `ContentReachable`, `HeadReadable`, `RestoreSettles`, `SpaceReclaimed` | holds |
| `library_race` | two overlapping deletes | `ContentReachable` | **violated** |
| `jobs_recovery` | a durable and an audited job across crashes, restarts, failed writes, dropped requests | `TypeOK`, `ActiveIsDriven`, `DedupHolds`, `NotReplayed`, `RecoverySparesTheLiving`, `DurableWorkKept`, `WorkSettles` | holds |
| `services` | one of uploads, disturbed uploads, outbox, merge, three block stores, tree | the properties below | holds |
| `uploads_gap` | an upload that loses its entry half-way | `UploadsWhole` | **violated** |
| `tree_move` | a move to a directory that has the name | `MovesKeepContent` | **violated** |
| `blocks_stale` | a block removed beside a request that asks for it | `NoStaleExists` | **violated** |

`services` checks, beside a type invariant: `UploadsWhole`, `UploadsSized`,
`UploadsReleased`; `MailOnce`, `MailSentIsFinal`, `MailDrains`; `MergeLosesNothing`,
`MergeRevivesNothing`, `MergeCommutes`, `MergeFlagsHonest`; `BlocksStored`,
`BlocksNeverWorse`, `BlockHasOneCreator`; `NothingVanishes`,
`TreeNamesUnique`, `SizeCounted`, `WebDavDone`.  `service` is chosen in the initial state and
never changes, so the state graph is the disjoint union of the parts' graphs; that
TLC explores them in one run says nothing about interaction.  `branch_heads`, `gc_passes`
and `library_faults` choose their setting the same way.

What the violations show:

- `branch_rest`: request 1 resolves `/`, request 2 resolves `/`; 1 rewrites, commits
  and swaps; 2 rewrites the *old* directory, then `create_commit` reads the *new* HEAD as
  parent, so its swap succeeds and the entry of 1 is gone.  The comment at
  `S/fs/core/file_ops.rs:729` promises the opposite.
- `gc_ttl`: `compute_keep_commits` does not add the current head, so a pass
  over a library that was idle for longer than `history_ttl_days` empties it.  The doc
  comment at `S/fs/core/gc.rs:68` counts the head among the retained commits.
- `gc_prune`: `prune_repo` lists the objects present now but compares them with what was
  reachable at the snapshot; a tree that was uploaded and became HEAD in between is
  deleted.  HEAD is verified only later, and the grace window covers blocks only.
- `library_race`: the second of two overlapping deletes archives the emptied
  tables over the archive of the first one.
- `uploads_gap`: after a restart, or once the reaper took the entry, `get_or_create`
  starts an empty entry for the next chunk; `write_chunk` leaves a hole in front of it
  and the last chunk commits the file, since only its length is compared.
- `tree_move`: `move_entry` adds the entry to the destination only if the name is free
  there (`S/service/fs/file.rs:319`), and commits the removal in any case.  (Comments at
  `S/service/fs/file.rs:201` and `S/service/fs/fileops.rs:361` still speak of two commits;
  the code, and the model, make one.)
- `blocks_stale`: `has_block` finds the file and waits; a removal takes the file and drops
  the cached entry; `has_block` then inserts its entry, which answers for a block that is
  gone for up to 60 s, and a write of it is skipped meanwhile.  The comment at
  `infra/src/storage/block_store.rs:606` says that a stale entry must not survive a removal.

## 5. Bounds

`Branch`: two processes that race on HEAD and a third that moves it while a retry
runs reach every branch of the loop (`MAX_BRANCH_RETRY` is 1 instead of 3, so that
the exhausted loop is reached too).  One path with two versions gives every row of the
file part of the merge table; two paths in two directories separate the edited
directory from those above.  `MaxRequests` and `MaxLost` bound the history; `CommitIds`
is large enough that it never runs out first.

`Gc`: with three commits there is a first one, one that lands during the pass and a
merge; two blocks tell a kept block from an orphan; `MaxTime = MinBlockAge` makes a
leftover just old enough.  The limited setting of `gc_passes` has one client and one
pass: a commit that is put before the walk and whose objects arrive after it, in one pack
or in two, needs no second writer, nor does the upload that has to send its files again.
`MaxUploadTime < MinBlockAge` in the unlimited setting is an assumption about the
deployment (see section 8), not a bound.  The walk and the listing are one step each:
each root is looked up once, so a walk that takes time differs only in which of several
trees that arrive meanwhile it still sees; a block that arrives during the listing is fresh.

`Library`: two deletes and three failures allow a failed delete, a failed
restore, their repetition and another round; two uploads overlap each other and the
request.

`Merge`: a root with one name and two below it, three versions: each slot is absent, a
file or a directory, and the three versions make base, head and remote pairwise
different.  Names are merged independently of each other, so a second root name only
multiplies the states (checked once, 524 288 states); `ServicesProofs` proves it for any
number of them.

`TreeOps`: a folder and the root with a file of the same name each; three requests suffice to
make a name, move onto it and undo it, and a WebDAV request is one of them however
many commits it has.  Batches hold one or two entries: two that collide with each
other are what the planning of names is about.

`BlockFiles`: two tasks at a time, three in all, and one crash: two writers, or a
writer and a remover side by side, and a third that meets the result, before or after
the process dies or the power fails.
The initial formats make repairs and conversions happen.

`Uploads`: two chunks make a first and a last one; three uploads against room for two
(quota and manager) give refusals and retries; one trouble (lost reply, failed write,
lost race) hits any step.  A chunk is one unit, the library starts with one.

`MailQueue`: one message, since rows do not interact; two workers and one request are
three senders for it; two attempts, one fault, two requests.

`Jobs`: `MCBudgets` lists the combinations of submissions, ticks, disruptions and faults
(failed writes, dropped requests) explored together: two runs across one disruption, with a
recovery that reads both rows and one that reads a single row; one run across two; one
with a fault; a crowd with a fault and no disruption.  Four run ids leave room for the replays.
`reindex` is durable and deduplicated, `gc` audited, periodic and has one permit.
`MaxRetained = 1` makes the table evict at once.

## 6. Fairness

- `HeadsSpec` (`MCBranchHeads`): weak fairness of every process' next step.  Handlers are tasks
  of the async runtime; a tokio mutex is fair, so weak fairness of `AcquireRepoLock`
  suffices (with two writers and finitely many requests it is continuously enabled
  in the end).  No fairness for starting a request.
- `FaultsSpec` (`MCLibraryFaults`): accepted requests and uploads run on, failures are
  finitely many, and an owner repeats a failed restore.  That last part is an
  assumption about people; it is what the comment in `restore_deleted_repo` counts on.
  The sweep belongs to a periodic job.
- `FairSpec` (`Jobs`): the drivers together, the recovery passes together, and a server
  that went down comes up again.  A body ends (there is a timeout or it cooperates);
  `Park` and `Resume` need no fairness, because `FinishBody` of a parked run stands
  for its timeout, and for resuming and ending.  Nothing is assumed about how long a
  server is down: `WorkSettles` names the rows that may stay.
- `MCServices`: requests are handled to their end, a client goes on or stops, the
  reaper and the outbox worker run on timers, a claimed message is attempted, back-offs
  and leases end.

## 7. Proofs

`BranchProofs` proves, for any sets of clients, writers, paths, versions and
commits that satisfy `BranchAssumption`: `TypeOK`, `HeadStored`, `AckedInHistory`,
`HeadAdvances`, `ClientNoLostUpdate`, `UploadLands`.  The run `branch_heads` checks the same
of its two settings.  The properties are not inductive:
what makes a swap safe was decided steps before it.  The inductive invariant
therefore says, for each control state, what the locals promise: an uploaded commit is
a stored row; in `loop`, `merge` and `cas` its root is stored; in `cas` the target is
a stored commit whose first parent is the HEAD that was seen, and for a client it is
either the upload itself or a merge of base, seen and upload that has the upload as
second parent; and every row's parents are rows.  `AckedInHistory` quantifies over
parent-closed sets instead of a recursive ancestor relation, so that a step's
argument is plain set reasoning: a closed set that contains the new HEAD
contains its first parent, the old HEAD, and hence everything acknowledged.

`UploadsNeverUndo` is the counterpart of the violated run `branch_rest`: where all
writers go through `create_file_from_blocks` (`UploadSpec`), which keeps the per-repo
mutex from resolving the parent to the swap, `RestNoLostUpdate` holds for any number
of them.  Its invariant (`UploadInv`) says that the holder of the mutex has seen the
HEAD that is current, and that the root it is about to commit is that HEAD's tree with
its own entry written.

`LibraryProofs` proves `TypeOK` without assumptions, and `ContentReachable` and `HeadReadable`
under `SafeSetting`: one delete or restore at a time, no purge and no sweep, and a
failed restore is repeated before the next delete.  Any number of uploads and
failures run beside it.  The properties alone are not inductive, because a transaction
that replaces or drops the archive trusts what earlier statements did.  `IndInv` adds
it: `TypeInv`; `NoPurge` (no request is in a purge, the sweep is idle); `Closed` (each commit
row, live or archived, has its tree and its data, and a library without a row has
none); `DeleteSafe` (the archive is empty until the delete fills it, and the trash row is
there by then); `RestoreSafe` (whatever the archive still holds is back in the tables
before it is dropped); `AllKept` (acknowledged uploads, HEAD and the uploads about to
swap HEAD are in the tables or restorable, with their data).

`GcProofs` proves its results for any number of clients, passes, blocks and commits.
`TypeOK`, `RetainedTreesKept` (what a pass retains and finds complete when it walks, row,
root, file objects and blocks, is complete until the pass ends) and `LateRootsKept` (no root
of a retained commit is pruned, stored at the walk or later) hold in every setting: the rows of
commits do not change once they are written, and what was reachable was read from the very rows
that are kept (`SnapshotInv`).  Of the *files* of a tree that arrives after the walk nothing
of the kind holds, and nothing is claimed; where history is limited such a tree can become
HEAD without them, as in `gc_prune`.  `Collects`, what `PassCollects` asks of a step, holds for any positive grace
window: an object on disk is
live, or listed, or was written since the pass began, or was found fresh (`ListInv`).
`HistoryRestorable`, that every past HEAD stays downloadable block by block, is the central
one; `PassesKeepHistory` proves the run's `HistoryKept` from it, of the composition `PassesSpec`.
Its hypothesis `Grace` is an assumption about the deployment: unlimited history, no upload
outlasts the grace window, no upload contains a leftover block; `gc_ttl`, `gc_prune` and
section 8 show what happens without its parts.  `HistoryInv` has four parts.  `StoreInv`:
rows are only added, HEAD moves to complete commits only, and every past HEAD is complete
(tree stored, blocks on disk).  `UploadInv`: what each upload has established at its step,
that it is younger than the grace window, and that its blocks belong to a stored tree or
are younger than itself.  `SparedInv`: a block on disk that a stored tree needs counts as live
for the pass, or is fresh at the time the pass took its snapshot.  `PassInv`: without retention
nothing is pruned, and no orphan is live.  With them a deletion is harmless: the block is
neither live nor fresh, so no past HEAD has it and no running upload relies on it.

`JobsProofs` proves, for any set of runs, budgets of crashes, restarts, failed writes and
dropped requests, and any number of rows a recovery reads:
`TypeOK`, `ActiveIsDriven`, `DedupHolds`, `NotReplayed`, `RecoverySparesTheLiving`, and that
`Jobs` implements `Worklist` (`DurableWorkKept`: durable work leaves the journal only once it
was judged).  One inductive invariant carries them.  Its parts relate the memory to
the journal: `TableInv` (an entry is active exactly while its driver has not ended its body,
orphans of a restart and entries of dropped requests excepted), `JournalInv` (which rows a driver has written, and that a lease
runs out only under a run nobody drives any more), `LockInv` (the deduplication, for runs the
server knows of), `OriginInv` (only durable work is replayed), `PassInv` (what a recovery pass has
noted or claimed is abandoned, though the rows may have changed since), `ReplayInv` (until the old
row is closed, only its own driver touches the replay a pass waits for) and `KeptInv` (durable work
that was written down is pending or judged); `DownInv` says what a crash left.

`BlockFilesProofs` proves `TypeOK`, `BlocksStored` and `BlocksNeverWorse` for any number of
tasks, removals, crashes and losses of power and every mode of encryption, under `SafeSetting`
(conversion does not meet truncated blocks), and `BlockHasOneCreator` where in addition no block of
another length is left (`OneLength`).  The invariant says what a task may rely on at each
label: a temp file that is to be published is flushed (`FlushInv`); a task that found or stored the
block is right about it unless a removal came since, and a writer that found none replaces nothing but
the block itself (`FileInv`); a cached entry is as good as a look at the file unless a removal has
outdated it (`CacheInv`); and creators are counted from the file (`CreatorInv`).  What the disk may
bring back after a loss of power is part of it: `held` contains no truncated block where old ones are
converted, and nothing but the written format where creators are counted.  `NoStaleExists` is no
theorem: `blocks_stale` refutes it.

`ServicesProofs` contains the outbox: `MailTypeOK`, `MailOnce` and `MailSentIsFinal` for any number of
messages and senders, provided no lease runs out under its holder (`~SlowSends`).  A message has one
sender in flight at most, under a live lease unless it was deleted (`FlightInv`); an accepted
answer is of a delivery (`AnswerInv`); and `CountInv` compares the deliveries with the lost
answers and notes: they exceed them by one at most, and not at all while nobody has heard of an
acceptance.  `SentInv` says that what is noted as sent was delivered.

`UploadsProofs` proves `TypeOK` in every setting; `UploadsWhole` where no upload loses its
entry half-way (`~Disturbed`, the opposite of `uploads_gap`); and `UploadsSized` where in addition
the library is not empty at first (`InitialSize > 0`; section 8 says why).  `WholeInv` says of
each upload that the chunks before the next one are in its file, that the stream holds
them in order unless it is broken, and that the blocks a request collected are the
whole file.  `SizeInv` is a balance: the counter, plus what committed uploads have still to
charge, is the initial size plus all versions committed.  The sum over uploads has no induction
rule the provers can use; its lemmas are shown by a minimal counterexample among the subsets of
`Files` instead.

`TreeOpsProofs` is about any finite initial tree that hangs in directories, any names and any
number of requests (`Setting`).  `TypeOK` holds whatever clients do; `UniqueNames`, `WebDavDone` and
`NothingVanishes` where they choose free names (`Careful`, section 3), and so does `SizeCounted`: the
counter and the adjustments on their way of both callers add up to the tree, in whatever order commits
and adjustments come, until one of the three things happens that `drifted` records.  Section 8 says how
each fails without its hypothesis.  A
tree is a set of entries, so what an operation does to it is about prefixes of paths.  The lemmas
climb: what is above and below a path; what pruning, grafting and rebasing a sub-tree make of a
tree (`Pruned`, `Grafted`, `RebaseIs`) and of its number of files (`CountPruned`, `GraftCounts`); that of one
suffix more than there are entries one is free (`FirstFree`), which is what makes
`generate_unique_filename` end; what each call commits (`RenamedTree`, `MovedTree`, `BatchMovedTree`,
`CopiedTree`, `BatchGone`); and one lemma per request.  Batches hold one or two entries, as in the
model, and the folds over them are unfolded.

None of this speaks of a WebDAV request between two of its commits, and there the properties are not
inductive: that the last call renames the entry that has just arrived depends on what was
checked two commits before.  `TreeInv` is the part that holds for everybody.  `CarefulInv` adds
unique names, the size, and `DavInv`: what `move_copy_handler` made sure of when the request came
(`Admitted`), and for each stage the exact tree, as a function of the tree the request began with -
untouched, without the target, with the source under its old name in the target directory, done
(`Placed`).  Two cases need most care: a source inside the target, which the
deletion of the target takes with it, so that the request cannot go on (`Apart`); and the last
call, after which a sub-tree has been rebased twice (`RebasedTwice`, `RenameCall`).

`ServicesProofs` begins with the merge: `MergeLosesNothing`, `MergeRevivesNothing`, `MergeCommutes` and
`MergeFlagsHonest` for trees of two levels over any names and any versions.  The only assumption is
`MarksTellApart`: no version is 0, the mark of a name that no conflict has touched (a conflict name
always has its suffix).  `MergeInv` merely says that the result is what `MergeTrees` makes of the
three; the work is in what that is.  `ThreeWayRule` states it: the files of the merged tree, by
the paths they started from, are those both sides have and those a side has and the base has
not.  It goes up as `merge_level` comes down.  A name at which one side changed at most yields
that side's entry (`NameTaken`); where both changed, `NameMerged` gives the one rule behind
the tables of `choose_file` and `choose_dir`, from which the files, the directory, the marks and the
flags of the name are read off (the `Yield` lemmas).  Different names do not touch each other's
entries, since a mark leaves the name before it alone (the `Level` lemmas).  A directory needs of
the merge below it only that it settles what needs no merging (`Settled`), which the lower level
has by the same lemmas (`FlatMerge`, with nothing below it) and passes to the upper one
(`TreeIsLevel`).  Trees of any depth would take an induction over data; the step of that induction
is what `FlatMerge` and `TreeIsLevel` do.

Its second part is about the composition `ServicesSpec`, the specification the run `services`
checks.  `MCServices` instantiates the proof modules rather than the bare components, so that
their lemmas hold of its instances.  The merge, the outbox and the tree run as they do alone
(`MergeAlone`, `OutboxAlone`, `TreeAlone`): a step of another service leaves their variables as they
are, which gives `MailOnce`, `MailSentIsFinal`, the merge's promises, and `TreeNamesUnique`,
`SizeCounted`, `WebDavDone` and `NothingVanishes`.  Uploads and blocks exist in several
settings over the same variables, of which `service` selects one for good; their invariants
(`SteadyInv`, `UploadInv`, `BlockInv`) say what holds in the setting that was selected, and every step
keeps them by the `Next` lemmas of `UploadsProofs` and `BlockFilesProofs` (`SteadyInvariance`,
`UploadInvariance`, `BlockInvariance`).  `UploadsWhole`, `UploadsSized`, `BlocksStored`, `BlockHasOneCreator`
and `BlocksNeverWorse` follow, and `TypeOK` from all of them, for any sets of transfers, messages, requests and tasks;
the other parameters are those `MCServices` gives its instances, and the component theorems are for
any of them.

The hypotheses of these theorems are named in the modules, and `MCServices` and `MCGcPasses`
assume them of the instances they check, so that TLC evaluates them.

Only model-checked: everything about liveness (`RequestsAreAnswered`, `RestoreSettles`,
`SpaceReclaimed`, `UploadsReleased`, `MailDrains`, `WorkSettles`), which is out of the
prover's reach; and the violated properties.  The theorems about `Gc` and `Branch` are about all
constants, but not restated for the second instances `Limited` of `MCGcPasses` and `Sync` of
`MCBranchHeads` (`PassesKeepHistory` excepted).  Batches of three and more entries, and merges of deeper trees, would
take an induction over data.

## 8. Other disagreements met while modelling

Seen in the models or in the code, without a run of their own:

- *A failed restore, then a delete* (`Library` with `RetryFirst = FALSE`): the restore
  creates the `repos` row first; if it ends there and the owner deletes the empty
  library, `copy_to` (`S/fs/core/repo_archive.rs:51`) replaces the full archive by
  nothing.  `ContentReachable` fails.
- *A purge after a failed delete* (all `Operations`, one failure): the library
  is still live but has a trash row; `purge_deleted_repo` (`S/fs/core/trash.rs:1036`)
  removes the live library's block directory.  `HeadReadable` fails.
- *A sweep beside a restore* (`Sweeping` with restores): `S/fs/core/gc.rs:229-234` reads
  first `repos`, then `deleted_repos`; a restore that completes in between leaves
  the library in neither answer.  `HeadReadable` fails.
- *The second restored library* (`OtherRestored = TRUE`): the member row is
  inserted with the explicit id 0 (`S/fs/core/trash.rs:981`), so the insert fails
  while another library's row 0 exists.  `RestoreSettles` fails.
- *A stale HEAD in the trash row* (`S/fs/core/trash.rs:850`, `S/service/repo/service.rs:912`):
  HEAD is read before the delete, and an existing trash row is kept as it is; an upload
  that lands in between is in the archive, but not under the restored HEAD.
- *A restored encrypted library* (`S/fs/core/trash.rs:911`) comes back without its encryption
  fields.
- *A leftover block reused* (`Gc` with `ReuseGarbage = TRUE`): a deduplicated write
  (`infra/src/storage/block_store.rs:522`) does not renew the modification time, so the
  grace window does not protect the block while its new upload runs.
  `HistoryRestorable` fails.
- *A merge repeated after a conflict* (`S/fs/core/merge.rs:189`): the copy's name is a
  function of the remote file, so HEAD already has an entry of that name, and the
  second merge adds another.
- *Rename onto an existing name* (`S/service/fs/file.rs:62`, `TreeOps` with
  `Careful = FALSE`): the directory then has two entries of one name; a later delete
  removes both and trashes the first.  `UniqueNames` fails.
- *WebDAV by name* (`S/webdav/handlers.rs:482`, `:536`, `Careful = FALSE`): MOVE and COPY
  give the entry its source name first and rename it afterwards.  Where the target
  directory has an entry of that name, COPY makes a copy `x (1)` and renames the other
  `x`; a COPY within one directory is always such a case, and renames its source.  MOVE
  loses the source, as `tree_move` shows.  `WebDavDone` fails.  The target is deleted
  before anyone looks whether the source exists (`:403`).
- *A size that drifts* (what `SizeCounted` excepts as `drifted`): the size is adjusted after the
  commit and on its own (`S/service/fs/dir.rs:506`/`:523`, `:795`/`:818`, `S/service/fs/fileops.rs:136`/`:182`,
  `:291`/`:354`), so an error or a request that is gone in between loses the adjustment;
  `adjust_repo_size` recomputes a size of zero from the tree, which already contains the commits
  whose adjustments are on their way; a copy adds the entry's size, zero for a directory
  (`S/service/fs/fileops.rs:318`), while a delete subtracts the sub-tree; and two deletes of one
  entry that measure it before either commits both subtract it (not in the model).
- *Repeated names in a batch* (`S/service/fs/fileops.rs:217`): the entry is copied or counted twice.
- *Two first uploads* (`S/fs/core/size.rs:87`, `Uploads` with `Disturbed` or `InitialSize = 0`): both
  find the size zero and both add the whole tree.  `UploadsSized` fails.
- *Reservations* (`S/service/fs/file.rs:615`): a commit releases all of the user's reservations for
  the library, and the final quota check ignores reservations; three uploads can exceed
  the quota.  A reservation made after the reaper took the entry is never
  released.  `cleanup_stale` (`S/handler/web/temp_file.rs:563`) goes by the age of an upload,
  not by its last chunk, though its comment says "idle".
- *A slow outbox* (`SlowSends = TRUE`): the lease is stamped once per drain and never
  renewed; the last messages of a slow batch may be claimed and sent a second time.
  `MailOnce` fails.
- *Rows that recovery passes over* (`S/tasks/mod.rs:670`): recovery looks once per start, at 50 rows
  at most and only at expired leases.  A server that is back within 300 s, as the deployment guide
  makes it (`docs/guide/deploy/running-in-background.md:42`), leaves the work of the crash pending
  until the next start.  `WorkSettles` excepts these rows as `passedOver`.
- *A dropped request* (`S/tasks/mod.rs:421`): `submit` reserves an entry, then waits for the journal;
  if the request's future is dropped there, nothing spawns the driver.  The entry stays queued until the
  next restart, blocks the deduplication of its job and library, and counts against the caps.
  `ActiveIsDriven` and `WorkSettles` except these runs.
- *Runs a restart left behind* (`S/tasks/store.rs:360`): "such a run will never report again", but
  the drivers of an in-place restart live on; the deduplication does not see them.
  `ActiveIsDriven` and `DedupHolds` except these runs.
- *A lost cancellation* (`S/tasks/mod.rs:1014`): a cancellation between the reservation of a run and
  the insertion of its token has no effect.
- *An answer a removal has outdated* (`infra/src/storage/block_store.rs:439`, `:522`): what
  `blocks_stale` shows of the cache also makes a write be acknowledged without being stored;
  `BlocksStored` does not promise such writes.
- *A name that is not on disk yet* (`infra/src/storage/block_store.rs:203`, `:220`, `:245`): the bytes are
  fsynced, the directory is not; after a loss of power an acknowledged block may be missing, or be
  the short one it replaced, until the system has written the directory back.
- *Files pruned below a late tree* (`S/fs/core/gc.rs:344`, `:381`): the files of a tree that arrives
  after the walk are pruned, its root is not.  The client is told to send them again (446), unless
  the check had passed before; then HEAD's tree lacks them.
- *Two repairs* (`infra/src/storage/block_store.rs:573`): two tracked writes that replace a short block
  are both told that they created it.
- *Lazy mode* hands out ciphertext without header as it is (`decrypt_offload`), and
  `verify-blocks --repair` quarantines it; a conversion may overwrite a block that was
  repaired meanwhile with what it read before.

## 9. Not modelled

Block contents, chunking, compression and the cipher; permissions, tokens and
sessions; wire formats; the web interface; migrations; the sandbox around the media
tools; OCR, faces and thumbnails, which are derived data.

- *Rate limits and file locks*: counters and rows behind one mutex or one statement each;
  nothing interleaves within an operation.
- *Notifications* (`S/notification/manager.rs`): best effort and without influence on stored
  data.  A model would show that a subscription may follow the unregistration of its
  client, and that an expiry snapshot taken before an `await` may evict a subscription
  that was just renewed.
- *Search index* (`S/service/index/mod.rs`, `S/indexer/mod.rs`): derived and rebuilt on demand; a late
  job may leave a document of a path that is gone until the next rebuild.

Within the modelled parts: quota checks and size updates of a commit in `Branch`;
file-level trash rows (best effort in the code); `TreeGuard`'s limits; SQLite's own
failures inside a transaction (a transaction happens or does not); the usage snapshot
of 500 ms in front of the quota (read afresh); the size limit of temp files; the
fallback of the block store where hard links are missing; a second block store in the
process after a restart in place; corruption that keeps a block's length; load-driven
admission, retry policies (every kind in the catalog has `Never`), statistics and the
pruning of the journal; the wake-up calls that only shorten a timer.

About 6 000 lines of the source are mapped, some four percent of the repository's
Rust code.  The rest is mostly code without a protocol: pages and forms of the
web interface (`S/ui`, templates, locales), request parsing and routing, configuration
(`infra/src/config.rs`), process isolation for four operating systems (`S/sandbox`), media
and text extraction, schema migrations, entity definitions and in-file unit tests.
A module for these would restate assignments; the state they share with each other
is the database, and the statements that matter for it are in the modules above.
