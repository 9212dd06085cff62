---------------------------- MODULE BranchProofs ----------------------------
(***************************************************************************)
(* Theorems about Branch, for every set of clients, REST writers, paths,   *)
(* versions and commit ids.                                                *)
(***************************************************************************)
EXTENDS Branch, TLAPS

Known == commits \cup {NoCommit}

(* The parents of a stored commit are stored. *)
RowsKnown ==
  \A id \in commits : row[id].parent \in Known /\ row[id].second \in Known

(* What update_branch knows of the commits its locals name. *)
ClientInv ==
  \A c \in Clients :
    /\ base[c] \in Known
    /\ base[c] # NoCommit => head # NoCommit
    /\ pc[c] # "idle" =>
         /\ up[c] \in commits
         /\ row[up[c]].parent # NoCommit => head # NoCommit
    /\ pc[c] \notin {"idle", "put"} => RootStored(row[up[c]].root)
    /\ pc[c] = "done" => head # NoCommit
    /\ pc[c] = "merge" => seen[c] \in commits
    /\ pc[c] = "cas" =>
         /\ target[c] \in commits
         /\ RootStored(row[target[c]].root)
         /\ row[target[c]].parent = seen[c]
         /\ target[c] = up[c] \/ row[target[c]].second = up[c]

(* A target that is not the upload itself is its merge with the HEAD seen. *)
MergeInv ==
  \A c \in Clients :
    pc[c] = "cas" /\ target[c] # up[c] =>
      row[target[c]].root =
        MergeTrees(RootOf(row[up[c]].parent), RootOf(seen[c]), row[up[c]].root)

(* What the REST write path knows of the root and the commit it made. *)
WriterInv ==
  \A w \in Writers :
    /\ pc[w] = "applied" => RootStored(newRoot[w])
    /\ pc[w] = "cas" =>
         /\ target[w] \in commits
         /\ RootStored(row[target[w]].root)
         /\ row[target[w]].parent = seen[w]

AckedInv ==
  /\ acked \subseteq commits
  /\ acked # {} => head # NoCommit

(* The inductive invariant. *)
IInv ==
  /\ TypeOK
  /\ RowsKnown
  /\ HeadStored
  /\ ClientInv
  /\ MergeInv
  /\ WriterInv
  /\ AckedInv
  /\ AckedInHistory

-----------------------------------------------------------------------------
(* A fresh commit id is an unused one. *)
LEMMA FreshIdUnused ==
  ASSUME commits \subseteq CommitIds, commits # CommitIds
  PROVE  FreshId \in CommitIds /\ FreshId \notin commits
BY DEF FreshId

(* The root of a commit, or of no commit, is a tree. *)
LEMMA RootOfType ==
  ASSUME row \in [CommitIds -> Row], NEW id \in OptCommit
  PROVE  RootOf(id) \in Trees
BY DEF RootOf, OptCommit, Row, EmptyTree, Trees, Slot

(* Merging trees gives a tree. *)
LEMMA MergeTreesType ==
  ASSUME NEW b \in Trees, NEW h \in Trees, NEW r \in Trees
  PROVE  MergeTrees(b, h, r) \in Trees
<1>1. ASSUME NEW p \in Paths
      PROVE  Kept(b[p], h[p], r[p]) \in Slot
  BY DEF Kept, Trees
<1>2. \A p \in Copies : p[2] \in Slot
  BY DEF Copies, Slot
<1> QED
  BY <1>1, <1>2 DEF MergeTrees, Trees

(* Rewriting one directory of a tree gives a tree. *)
LEMMA RewriteDirType ==
  ASSUME NEW old \in Trees, NEW now \in Trees, NEW e \in Edits
  PROVE  RewriteDir(old, now, e) \in Trees
BY DEF RewriteDir, Trees, Edits, Slot

LEMMA NoEditType == NoEdit \in Edits
BY BranchAssumption DEF NoEdit, Edits, Slot

LEMMA EmptyTreeType == EmptyTree \in Trees
BY DEF EmptyTree, Trees, Slot

LEMMA InitType == Init => TypeOK
<1> SUFFICES ASSUME Init PROVE TypeOK
  OBVIOUS
<1> USE BranchAssumption
<1> DEFINE first == CHOOSE id \in CommitIds : TRUE
<1>1. first \in CommitIds
  OBVIOUS
<1>2. /\ commits \subseteq CommitIds /\ row \in [CommitIds -> Row]
      /\ fsRoots \subseteq Trees /\ head \in OptCommit
  <2>1. CASE /\ commits = {} /\ head = NoCommit /\ fsRoots = {}
             /\ row = [id \in CommitIds |->
                         [root |-> EmptyTree, parent |-> NoCommit, second |-> NoCommit]]
    BY <2>1, EmptyTreeType DEF Row, OptCommit
  <2>2. CASE \E t \in [Names -> Versions] :
               LET root == [p \in Paths |-> IF p \in Names THEN t[p] ELSE Absent]
               IN  /\ commits = {first} /\ head = first /\ fsRoots = {root}
                   /\ row = [id \in CommitIds |->
                         [root |-> root, parent |-> NoCommit, second |-> NoCommit]]
    <3>1. PICK t \in [Names -> Versions] :
            LET root == [p \in Paths |-> IF p \in Names THEN t[p] ELSE Absent]
            IN  /\ commits = {first} /\ head = first /\ fsRoots = {root}
                /\ row = [id \in CommitIds |->
                      [root |-> root, parent |-> NoCommit, second |-> NoCommit]]
      BY <2>2
    <3> DEFINE root == [p \in Paths |-> IF p \in Names THEN t[p] ELSE Absent]
    <3>2. root \in Trees
      BY DEF Trees, Slot
    <3> HIDE DEF root
    <3>3. /\ commits = {first} /\ head = first /\ fsRoots = {root}
          /\ row = [id \in CommitIds |->
                [root |-> root, parent |-> NoCommit, second |-> NoCommit]]
      BY <3>1 DEF root
    <3> QED
      BY <3>2, <3>3, <1>1 DEF Row, OptCommit
  <2> QED
    BY <2>1, <2>2 DEF Init
<1>3. /\ lock \in Writers \cup {Nobody}
      /\ pc \in [Procs -> ClientPc \cup WriterPc]
      /\ \A c \in Clients : pc[c] \in ClientPc
      /\ \A w \in Writers : pc[w] \in WriterPc
  BY DEF Init, ClientPc, WriterPc, Procs
<1>4. /\ seen \in [Procs -> OptCommit] /\ target \in [Procs -> OptCommit]
      /\ base \in [Clients -> OptCommit] /\ up \in [Clients -> OptCommit]
      /\ attempt \in [Clients -> Nat]
  BY DEF Init, OptCommit
<1>5. /\ view \in [Writers -> Trees] /\ newRoot \in [Writers -> Trees]
      /\ edit \in [Writers -> Edits]
  BY EmptyTreeType, NoEditType DEF Init
<1>6. left \in [Procs -> Nat] /\ lost \in Nat /\ acked \subseteq CommitIds
  BY DEF Init
<1> QED
  BY <1>2, <1>3, <1>4, <1>5, <1>6 DEF TypeOK

-----------------------------------------------------------------------------
(* A new commit row leaves the stored ones, and every history, as it was. *)
LEMMA InsertKeepsHistory ==
  ASSUME IInv, NEW id, NEW r \in Row, InsertCommit(id, r),
         r.parent \in Known, r.second \in Known,
         head' = head, acked' = acked
  PROVE  /\ id \in CommitIds /\ id \notin commits
         /\ commits' = commits \cup {id}
         /\ commits' \subseteq CommitIds
         /\ row' \in [CommitIds -> Row]
         /\ row'[id] = r
         /\ \A k \in commits : row'[k] = row[k]
         /\ RowsKnown'
         /\ AckedInv'
         /\ AckedInHistory'
<1> USE BranchAssumption
<1>1. id \in CommitIds /\ id \notin commits
  BY FreshIdUnused DEF InsertCommit, IInv, TypeOK
<1>2. commits' = commits \cup {id} /\ row' = [row EXCEPT ![id] = r]
  BY DEF InsertCommit
<1>3. row' \in [CommitIds -> Row] /\ row'[id] = r /\ \A k \in commits : row'[k] = row[k]
  BY <1>1, <1>2 DEF IInv, TypeOK
<1>4. RowsKnown'
  BY <1>1, <1>2, <1>3 DEF IInv, RowsKnown, Known
<1>5. AckedInv'
  BY <1>2 DEF IInv, AckedInv
<1>6. AckedInHistory'
  <2> SUFFICES ASSUME NEW u \in acked, NEW S \in SUBSET (commits \cup {id}),
                      head \in S, ParentClosed(S)'
               PROVE  u \in S
    BY <1>2 DEF AckedInHistory, InHistory
  <2> DEFINE T == S \ {id}
  <2>1. T \in SUBSET commits
    OBVIOUS
  <2>2. head \in T
    BY <1>1 DEF IInv, HeadStored, RootStored, AckedInv
  <2>3. ParentClosed(T)
    <3> SUFFICES ASSUME NEW x \in T
                 PROVE  {row[x].parent, row[x].second} \ {NoCommit} \subseteq T
      BY DEF ParentClosed
    <3>1. {row'[x].parent, row'[x].second} \ {NoCommit} \subseteq S
      BY DEF ParentClosed
    <3>2. row'[x] = row[x] /\ row[x].parent \in Known /\ row[x].second \in Known
      BY <1>3, <2>1 DEF IInv, RowsKnown
    <3> QED
      BY <3>1, <3>2, <1>1 DEF Known
  <2>4. InHistory(u, head)
    BY DEF IInv, AckedInHistory
  <2> QED
    BY <2>1, <2>2, <2>3, <2>4 DEF InHistory
<1> QED
  BY <1>1, <1>2, <1>3, <1>4, <1>5, <1>6 DEF IInv, TypeOK

(* A HEAD that moves to a child of the old HEAD keeps the history, and     *)
(* gains the child and its second parent.                                  *)
LEMMA SwapExtendsHistory ==
  ASSUME IInv, NEW to \in commits, NEW u \in commits,
         head' = to, row[to].parent = head, commits' = commits, row' = row,
         u = to \/ row[to].second = u,
         acked' = acked \/ acked' = acked \cup {u}
  PROVE  AckedInHistory' /\ AckedInv'
<1> USE BranchAssumption
<1>1. to # NoCommit /\ u # NoCommit
  BY DEF IInv, TypeOK
<1>2. AckedInv'
  BY <1>1 DEF IInv, AckedInv
<1>3. AckedInHistory'
  <2> SUFFICES ASSUME NEW x \in acked \cup {u}, NEW S \in SUBSET commits,
                      to \in S, ParentClosed(S)'
               PROVE  x \in S
    BY DEF AckedInHistory, InHistory
  <2>1. ParentClosed(S)
    BY DEF ParentClosed
  <2>2. {row[to].parent, row[to].second} \ {NoCommit} \subseteq S
    BY <2>1 DEF ParentClosed
  <2>3. CASE x = u
    BY <2>2, <2>3, <1>1
  <2>4. CASE x \in acked
    <3>1. head \in S
      BY <2>2, <2>4 DEF IInv, AckedInv
    <3>2. InHistory(x, head)
      BY <2>4 DEF IInv, AckedInHistory
    <3> QED
      BY <2>1, <3>1, <3>2 DEF InHistory
  <2> QED
    BY <2>3, <2>4
<1> QED
  BY <1>2, <1>3

(* A step that moves neither HEAD nor the tables keeps the history. *)
LEMMA SameHistory ==
  ASSUME IInv, head' = head, commits' = commits, row' = row, acked' = acked
  PROVE  AckedInHistory' /\ AckedInv' /\ RowsKnown'
BY DEF IInv, AckedInHistory, AckedInv, InHistory, ParentClosed, RowsKnown, Known

-----------------------------------------------------------------------------
(* The invariant survives the steps that touch neither HEAD nor the        *)
(* commit table.                                                           *)
LEMMA QuietClientStep ==
  ASSUME IInv, NEW c \in Clients,
         Download(c) \/ RecvFs(c) \/ StartUpdate(c) \/ Reply(c)
  PROVE  IInv'
<1> USE BranchAssumption DEF Procs
<1>1. head' = head /\ commits' = commits /\ row' = row /\ acked' = acked
  BY DEF Download, RecvFs, StartUpdate, RootStored, Reply, store, clientVars
<1>2. AckedInHistory' /\ AckedInv' /\ RowsKnown'
  BY <1>1, SameHistory
<1>3. TypeOK'
  <2>1. CASE Download(c)
    BY <2>1 DEF IInv, TypeOK, Download, store, writerVars
  <2>2. CASE RecvFs(c)
    <3>1. up[c] \in CommitIds
      BY <2>2 DEF RecvFs, IInv, TypeOK, ClientInv, RootStored
    <3>2. fsRoots' \subseteq Trees
      BY <2>2, <3>1 DEF RecvFs, IInv, TypeOK, Row
    <3> QED
      BY <2>2, <3>2 DEF RecvFs, IInv, TypeOK, writerVars, clientVars
  <2>3. CASE StartUpdate(c)
    BY <2>3 DEF IInv, TypeOK, StartUpdate, RootStored, store, writerVars, clientVars, ClientPc, WriterPc
  <2>4. CASE Reply(c)
    BY <2>4 DEF IInv, TypeOK, Reply, store, writerVars, ClientPc, WriterPc, OptCommit
  <2> QED
    BY <2>1, <2>2, <2>3, <2>4
<1>4. HeadStored'
  BY <1>1 DEF IInv, HeadStored, RootStored, Download, RecvFs, StartUpdate, Reply, store
<1>5. ClientInv'
  <2>1. CASE Download(c)
    BY <2>1, <1>1 DEF IInv, TypeOK, ClientInv, RootStored, HeadStored, Known, Download, store
  <2>2. CASE RecvFs(c)
    BY <2>2, <1>1 DEF IInv, TypeOK, ClientInv, RootStored, Known, RecvFs, clientVars
  <2>3. CASE StartUpdate(c)
    BY <2>3, <1>1 DEF IInv, TypeOK, ClientInv, RootStored, Known, StartUpdate, store, clientVars
  <2>4. CASE Reply(c)
    BY <2>4, <1>1 DEF IInv, TypeOK, ClientInv, RootStored, Known, Reply, store
  <2> QED
    BY <2>1, <2>2, <2>3, <2>4
<1>6. WriterInv'
  BY <1>1 DEF IInv, TypeOK, WriterInv, RootStored, Download, RecvFs, StartUpdate, Reply,
              store, writerVars, clientVars
<1>7. MergeInv'
  BY <1>1 DEF IInv, TypeOK, MergeInv, RootOf, Download, RecvFs, StartUpdate, RootStored, Reply,
              store, clientVars
<1> QED
  BY <1>2, <1>3, <1>4, <1>5, <1>6, <1>7 DEF IInv

LEMMA QuietWriterStep ==
  ASSUME IInv, NEW w \in Writers,
         \/ Resolve(w) \/ StartUpload(w) \/ AcquireRepoLock(w)
         \/ ResolveUpload(w) \/ ApplyTreeUpdate(w)
  PROVE  IInv'
<1> USE BranchAssumption DEF Procs
<1>1. /\ head' = head /\ commits' = commits /\ row' = row
      /\ seen' = seen /\ target' = target /\ base' = base /\ up' = up
      /\ attempt' = attempt /\ lost' = lost /\ acked' = acked
  BY DEF Resolve, StartUpload, AcquireRepoLock, ResolveUpload, ApplyTreeUpdate,
         store, clientVars
<1>2. AckedInHistory' /\ AckedInv' /\ RowsKnown'
  BY <1>1, SameHistory
<1>3. HeadTree \in Trees
  BY RootOfType DEF HeadTree, IInv, TypeOK
<1>4. RewriteDir(view[w], HeadTree, edit[w]) \in Trees
  BY <1>3, RewriteDirType DEF IInv, TypeOK
<1>5. fsRoots \subseteq fsRoots' /\ fsRoots' \subseteq Trees
  BY <1>4, EmptyTreeType DEF IInv, TypeOK, Resolve, StartUpload, AcquireRepoLock,
     ResolveUpload, ApplyTreeUpdate, store
<1>6. /\ pc' \in [Procs -> ClientPc \cup WriterPc]
      /\ \A x \in Clients : pc'[x] = pc[x]
      /\ \A x \in Writers : pc'[x] \in WriterPc
  BY DEF IInv, TypeOK, Resolve, StartUpload, AcquireRepoLock,
     ResolveUpload, ApplyTreeUpdate, WriterPc
<1>7. /\ view' \in [Writers -> Trees] /\ newRoot' \in [Writers -> Trees]
      /\ edit' \in [Writers -> Edits] /\ lock' \in Writers \cup {Nobody}
      /\ left' \in [Procs -> Nat]
  <2>1. CASE Resolve(w)
    BY <2>1, <1>3 DEF IInv, TypeOK, Resolve
  <2>2. CASE StartUpload(w)
    BY <2>2 DEF IInv, TypeOK, StartUpload
  <2>3. CASE AcquireRepoLock(w)
    BY <2>3 DEF IInv, TypeOK, AcquireRepoLock
  <2>4. CASE ResolveUpload(w)
    BY <2>4, <1>3 DEF IInv, TypeOK, ResolveUpload
  <2>5. CASE ApplyTreeUpdate(w)
    BY <2>5, <1>4 DEF IInv, TypeOK, ApplyTreeUpdate
  <2> QED
    BY <2>1, <2>2, <2>3, <2>4, <2>5
<1>8. TypeOK'
  BY <1>1, <1>5, <1>6, <1>7 DEF IInv, TypeOK
<1>9. HeadStored'
  BY <1>1, <1>5 DEF IInv, HeadStored, RootStored
<1>10. ClientInv'
  BY <1>1, <1>5, <1>6 DEF IInv, TypeOK, ClientInv, RootStored, Known
<1>11. WriterInv'
  <2> SUFFICES ASSUME NEW x \in Writers
               PROVE  /\ pc'[x] = "applied" => RootStored(newRoot[x])'
                      /\ pc'[x] = "cas" => /\ target[x] \in commits
                                          /\ RootStored(row[target[x]].root)'
                                          /\ row[target[x]].parent = seen[x]
    BY <1>1 DEF WriterInv, RootStored
  <2>1. CASE x # w
    BY <2>1, <1>1, <1>5 DEF IInv, TypeOK, WriterInv, RootStored, Resolve, StartUpload,
       AcquireRepoLock, ResolveUpload, ApplyTreeUpdate
  <2>2. CASE x = w
    BY <2>2, <1>1 DEF IInv, TypeOK, RootStored, Resolve, StartUpload, AcquireRepoLock,
       ResolveUpload, ApplyTreeUpdate
  <2> QED
    BY <2>1, <2>2
<1>12. MergeInv'
  BY <1>1, <1>6 DEF IInv, MergeInv, RootOf
<1> QED
  BY <1>2, <1>8, <1>9, <1>10, <1>11, <1>12 DEF IInv

-----------------------------------------------------------------------------
(* The steps that insert a commit. *)

(* What a merge was computed from does not change when rows are added. *)
LEMMA InsertKeepsMerge ==
  ASSUME IInv, NEW id, NEW r, InsertCommit(id, r), NEW x \in Clients,
         pc[x] = "cas", target[x] # up[x],
         target'[x] = target[x], up'[x] = up[x], seen'[x] = seen[x]
  PROVE  (row[target[x]].root =
            MergeTrees(RootOf(row[up[x]].parent), RootOf(seen[x]), row[up[x]].root))'
<1>1. id \notin commits /\ id \in CommitIds
  BY FreshIdUnused DEF InsertCommit, IInv, TypeOK
<1>2. \A k \in commits : row'[k] = row[k]
  BY <1>1 DEF InsertCommit, IInv, TypeOK
<1>3. /\ up[x] \in commits /\ target[x] \in commits
      /\ seen[x] \in Known /\ row[up[x]].parent \in Known
  BY DEF IInv, ClientInv, RootStored, RowsKnown
<1>4. RootOf(seen[x])' = RootOf(seen[x])
  BY <1>2, <1>3 DEF RootOf, Known
<1>5. RootOf(row[up[x]].parent)' = RootOf(row[up[x]].parent)
  BY <1>2, <1>3 DEF RootOf, Known
<1>6. row[target[x]].root =
        MergeTrees(RootOf(row[up[x]].parent), RootOf(seen[x]), row[up[x]].root)
  BY DEF IInv, MergeInv
<1> QED
  BY <1>2, <1>3, <1>4, <1>5, <1>6

LEMMA PutCommitStep ==
  ASSUME IInv, NEW c \in Clients, PutCommit(c)
  PROVE  IInv'
<1> USE BranchAssumption DEF Procs
<1>1. PICK n \in Names, s \in Slot, id \in CommitIds :
        /\ InsertCommit(id, [root |-> [RootOf(base[c]) EXCEPT ![n] = s],
                             parent |-> base[c], second |-> NoCommit])
        /\ up' = [up EXCEPT ![c] = id]
  BY DEF PutCommit
<1> DEFINE r == [root |-> [RootOf(base[c]) EXCEPT ![n] = s],
                 parent |-> base[c], second |-> NoCommit]
<1>2. r \in Row /\ r.parent = base[c] /\ r.second = NoCommit
  <2>1. RootOf(base[c]) \in Trees
    BY RootOfType DEF IInv, TypeOK
  <2> QED
    BY <2>1 DEF Row, OptCommit, IInv, TypeOK, Trees, Paths
<1>3. InsertCommit(id, r)
  BY <1>1
<1> HIDE DEF r
<1>4. /\ head' = head /\ acked' = acked /\ fsRoots' = fsRoots /\ base' = base
      /\ seen' = seen /\ target' = target /\ attempt' = attempt /\ lost' = lost
      /\ view' = view /\ edit' = edit /\ newRoot' = newRoot /\ lock' = lock
      /\ pc' = [pc EXCEPT ![c] = "put"] /\ left' = [left EXCEPT ![c] = @ - 1]
      /\ pc[c] = "idle" /\ left[c] > 0
  BY DEF PutCommit, writerVars
<1>5. r.parent \in Known /\ r.second \in Known
  BY <1>2 DEF IInv, ClientInv, RootStored, Known
<1>6. /\ id \notin commits /\ commits' = commits \cup {id} /\ commits' \subseteq CommitIds
      /\ row' \in [CommitIds -> Row] /\ row'[id] = r
      /\ \A k \in commits : row'[k] = row[k]
      /\ RowsKnown' /\ AckedInv' /\ AckedInHistory'
  BY <1>2, <1>3, <1>4, <1>5, InsertKeepsHistory
<1>7. TypeOK'
  <2>1. /\ pc' \in [Procs -> ClientPc \cup WriterPc]
        /\ \A x \in Clients : pc'[x] \in ClientPc
        /\ \A x \in Writers : pc'[x] \in WriterPc
    BY <1>4 DEF IInv, TypeOK, ClientPc, WriterPc
  <2>2. up' \in [Clients -> OptCommit] /\ left' \in [Procs -> Nat]
    BY <1>1, <1>4 DEF IInv, TypeOK, OptCommit
  <2> QED
    BY <1>4, <1>6, <2>1, <2>2 DEF IInv, TypeOK
<1>8. HeadStored'
  BY <1>4, <1>6 DEF IInv, HeadStored, RootStored
<1>9. ClientInv'
  BY <1>1, <1>2, <1>4, <1>6 DEF IInv, TypeOK, ClientInv, RootStored, Known
<1>10. WriterInv'
  BY <1>4, <1>6 DEF IInv, TypeOK, WriterInv, RootStored
<1>11. MergeInv'
  <2> SUFFICES ASSUME NEW x \in Clients, (pc[x] = "cas" /\ target[x] # up[x])'
               PROVE  (row[target[x]].root =
                         MergeTrees(RootOf(row[up[x]].parent), RootOf(seen[x]),
                                    row[up[x]].root))'
    BY DEF MergeInv
  <2>1. /\ pc[x] = "cas" /\ target[x] # up[x]
        /\ up'[x] = up[x] /\ target'[x] = target[x] /\ seen'[x] = seen[x]
    BY <1>1, <1>4 DEF IInv, TypeOK
  <2> QED
    BY <2>1, <1>3, InsertKeepsMerge
<1> QED
  BY <1>6, <1>7, <1>8, <1>9, <1>10, <1>11 DEF IInv

LEMMA MergeBranchStep ==
  ASSUME IInv, NEW c \in Clients, MergeBranch(c)
  PROVE  IInv'
<1> USE BranchAssumption DEF Procs
<1> DEFINE merged == MergeTrees(RootOf(row[up[c]].parent), row[seen[c]].root, row[up[c]].root)
           r == [root |-> merged, parent |-> seen[c], second |-> up[c]]
<1>1. /\ pc[c] = "merge" /\ pc' = [pc EXCEPT ![c] = "cas"]
      /\ fsRoots' = fsRoots \cup {merged}
      /\ head' = head /\ acked' = acked /\ base' = base /\ up' = up
      /\ seen' = seen /\ attempt' = attempt /\ lost' = lost /\ left' = left
      /\ view' = view /\ edit' = edit /\ newRoot' = newRoot /\ lock' = lock
  BY DEF MergeBranch, writerVars, clientVars
<1>2. PICK id \in CommitIds :
        /\ \/ InsertCommit(id, r)
           \/ id \in commits /\ row[id] = r /\ UNCHANGED <<commits, row>>
        /\ target' = [target EXCEPT ![c] = id]
  BY DEF MergeBranch
<1>3. up[c] \in commits /\ seen[c] \in commits /\ seen[c] # NoCommit
  BY <1>1 DEF IInv, ClientInv, RootStored, TypeOK
<1>4. merged \in Trees
  <2>1. RootOf(row[up[c]].parent) \in Trees
    BY <1>3, RootOfType DEF IInv, TypeOK, Row
  <2>2. row[seen[c]].root \in Trees /\ row[up[c]].root \in Trees
    BY <1>3 DEF IInv, TypeOK, Row
  <2> QED
    BY <2>1, <2>2, MergeTreesType
<1>5. /\ r \in Row /\ r.parent \in Known /\ r.second \in Known
      /\ r.parent = seen[c] /\ r.second = up[c] /\ r.root = merged
  <2>1. seen[c] \in OptCommit /\ up[c] \in OptCommit
    BY DEF IInv, TypeOK
  <2> HIDE DEF merged
  <2> QED
    BY <1>3, <1>4, <2>1 DEF Row, Known
<1>6. merged = MergeTrees(RootOf(row[up[c]].parent), RootOf(seen[c]), row[up[c]].root)
  BY <1>3 DEF RootOf
<1> HIDE DEF merged, r
<1>7. /\ commits \subseteq commits' /\ id \in commits' /\ commits' \subseteq CommitIds
      /\ row' \in [CommitIds -> Row] /\ row'[id] = r
      /\ \A k \in commits : row'[k] = row[k]
      /\ RowsKnown' /\ AckedInv' /\ AckedInHistory'
  <2>1. CASE InsertCommit(id, r)
    BY <2>1, <1>1, <1>5, InsertKeepsHistory
  <2>2. CASE id \in commits /\ row[id] = r /\ UNCHANGED <<commits, row>>
    <3>1. AckedInHistory' /\ AckedInv' /\ RowsKnown'
      BY <2>2, <1>1, SameHistory
    <3> QED
      BY <2>2, <3>1 DEF IInv, TypeOK
  <2> QED
    BY <1>2, <2>1, <2>2
<1>8. TypeOK'
  <2>1. /\ pc' \in [Procs -> ClientPc \cup WriterPc]
        /\ \A x \in Clients : pc'[x] \in ClientPc
        /\ \A x \in Writers : pc'[x] \in WriterPc
    BY <1>1 DEF IInv, TypeOK, ClientPc, WriterPc
  <2>2. target' \in [Procs -> OptCommit] /\ fsRoots' \subseteq Trees
    BY <1>1, <1>2, <1>4 DEF IInv, TypeOK, OptCommit
  <2> QED
    BY <1>1, <1>7, <2>1, <2>2 DEF IInv, TypeOK
<1>9. HeadStored'
  BY <1>1, <1>7 DEF IInv, HeadStored, RootStored
<1>10. ClientInv'
  <2>1. target'[c] = id /\ \A x \in Clients \ {c} : target'[x] = target[x] /\ pc'[x] = pc[x]
    BY <1>1, <1>2 DEF IInv, TypeOK
  <2>2. RootStored(row[id].root)' /\ row'[id].parent = seen[c] /\ row'[id].second = up[c]
    BY <1>1, <1>5, <1>7 DEF RootStored
  <2> QED
    BY <2>1, <2>2, <1>1, <1>3, <1>7 DEF IInv, TypeOK, ClientInv, RootStored, Known
<1>11. WriterInv'
  BY <1>1, <1>2, <1>7 DEF IInv, TypeOK, WriterInv, RootStored
<1>12. MergeInv'
  <2> SUFFICES ASSUME NEW x \in Clients, (pc[x] = "cas" /\ target[x] # up[x])'
               PROVE  (row[target[x]].root =
                         MergeTrees(RootOf(row[up[x]].parent), RootOf(seen[x]),
                                    row[up[x]].root))'
    BY DEF MergeInv
  <2>1. CASE x = c
    <3>1. row[up[c]].parent \in Known
      BY <1>3 DEF IInv, RowsKnown
    <3>2. /\ RootOf(seen[c])' = RootOf(seen[c])
          /\ RootOf(row[up[c]].parent)' = RootOf(row[up[c]].parent)
          /\ row'[up'[c]].root = row[up[c]].root
      BY <3>1, <1>1, <1>3, <1>7 DEF RootOf, Known
    <3>3. row'[target'[c]].root = merged
      BY <1>2, <1>5, <1>7 DEF IInv, TypeOK
    <3> QED
      BY <2>1, <3>2, <3>3, <1>6
  <2>2. CASE x # c
    <3>1. /\ pc[x] = "cas" /\ target[x] # up[x]
          /\ up'[x] = up[x] /\ target'[x] = target[x] /\ seen'[x] = seen[x]
      BY <2>2, <1>1, <1>2 DEF IInv, TypeOK
    <3>2. CASE InsertCommit(id, r)
      BY <3>1, <3>2, InsertKeepsMerge
    <3>3. CASE UNCHANGED <<commits, row>>
      BY <3>1, <3>3 DEF IInv, MergeInv, RootOf
    <3> QED
      BY <3>2, <3>3, <1>2
  <2> QED
    BY <2>1, <2>2
<1> QED
  BY <1>7, <1>8, <1>9, <1>10, <1>11, <1>12 DEF IInv

(* The decision of one attempt. *)
LEMMA ReadHeadStep ==
  ASSUME IInv, NEW c \in Clients, ReadHead(c)
  PROVE  IInv'
<1> USE BranchAssumption DEF Procs
<1>1. /\ commits' = commits /\ row' = row /\ fsRoots' = fsRoots /\ head' = head
      /\ base' = base /\ up' = up /\ lost' = lost /\ left' = left
      /\ view' = view /\ edit' = edit /\ newRoot' = newRoot /\ lock' = lock
      /\ pc[c] = "loop"
  BY DEF ReadHead, store, writerVars
<1>2. up[c] \in commits
  BY <1>1 DEF IInv, ClientInv, RootStored
<1>3. TypeOK'
  <2>1. /\ pc' \in [Procs -> ClientPc \cup WriterPc]
        /\ \A x \in Clients : pc'[x] \in ClientPc
        /\ \A x \in Writers : pc'[x] \in WriterPc
    BY DEF ReadHead, IInv, TypeOK, ClientPc, WriterPc
  <2>2. /\ seen' \in [Procs -> OptCommit] /\ target' \in [Procs -> OptCommit]
        /\ attempt' \in [Clients -> Nat] /\ acked' \subseteq CommitIds
    BY <1>2 DEF ReadHead, IInv, TypeOK, OptCommit
  <2> QED
    BY <1>1, <2>1, <2>2 DEF IInv, TypeOK
<1>4. RowsKnown' /\ HeadStored'
  BY <1>1 DEF IInv, RowsKnown, Known, HeadStored, RootStored
<1>5. ClientInv'
  BY <1>1, <1>2 DEF ReadHead, IInv, TypeOK, ClientInv, RootStored, Known, HeadStored
<1>6. WriterInv'
  BY <1>1 DEF ReadHead, IInv, TypeOK, WriterInv, RootStored
<1>7. MergeInv'
  BY <1>1 DEF ReadHead, IInv, TypeOK, MergeInv, RootOf
<1>8. AckedInv'
  BY <1>1, <1>2 DEF ReadHead, IInv, TypeOK, AckedInv
<1>9. AckedInHistory'
  <2> SUFFICES ASSUME NEW u \in acked', NEW S \in SUBSET commits,
                      head \in S, ParentClosed(S)
               PROVE  u \in S
    BY <1>1 DEF AckedInHistory, InHistory, ParentClosed
  <2>1. u \in acked \/ u = head
    BY DEF ReadHead
  <2> QED
    BY <2>1 DEF IInv, AckedInHistory, InHistory
<1> QED
  BY <1>3, <1>4, <1>5, <1>6, <1>7, <1>8, <1>9 DEF IInv

(* The compare-and-swap of update_branch, won or lost. *)
LEMMA SwapHeadStep ==
  ASSUME IInv, NEW c \in Clients, SwapHead(c)
  PROVE  IInv'
<1> USE BranchAssumption DEF Procs
<1>1. /\ commits' = commits /\ row' = row /\ fsRoots' = fsRoots
      /\ base' = base /\ up' = up /\ lost' = lost /\ left' = left
      /\ view' = view /\ edit' = edit /\ newRoot' = newRoot /\ lock' = lock
      /\ seen' = [seen EXCEPT ![c] = NoCommit] /\ target' = [target EXCEPT ![c] = NoCommit]
      /\ pc[c] = "cas"
  BY DEF SwapHead, Forget, store, writerVars
<1>2. /\ up[c] \in commits /\ target[c] \in commits /\ RootStored(row[target[c]].root)
      /\ row[target[c]].parent = seen[c] /\ RootStored(row[up[c]].root)
      /\ target[c] = up[c] \/ row[target[c]].second = up[c]
  BY <1>1 DEF IInv, ClientInv, RootStored
<1>3. head' = head \/ (head = seen[c] /\ head' = target[c])
  BY DEF SwapHead, TestAndUpdateHead
<1>4. head # NoCommit => head' # NoCommit
  BY <1>2, <1>3 DEF IInv, TypeOK
<1>5. TypeOK'
  <2>1. /\ pc' \in [Procs -> ClientPc \cup WriterPc]
        /\ \A x \in Clients : pc'[x] \in ClientPc
        /\ \A x \in Writers : pc'[x] \in WriterPc
    BY DEF SwapHead, IInv, TypeOK, ClientPc, WriterPc
  <2>2. /\ attempt' \in [Clients -> Nat] /\ acked' \subseteq CommitIds
    BY <1>2 DEF SwapHead, IInv, TypeOK
  <2>3. /\ seen' \in [Procs -> OptCommit] /\ target' \in [Procs -> OptCommit]
        /\ head' \in OptCommit
    BY <1>1, <1>2, <1>3 DEF IInv, TypeOK, OptCommit
  <2> QED
    BY <1>1, <2>1, <2>2, <2>3 DEF IInv, TypeOK
<1>6. RowsKnown' /\ HeadStored'
  BY <1>1, <1>2, <1>3 DEF IInv, RowsKnown, Known, HeadStored, RootStored
<1>7. ClientInv'
  <2>1. \A x \in Clients \ {c} : pc'[x] = pc[x] /\ seen'[x] = seen[x] /\ target'[x] = target[x]
    BY <1>1 DEF SwapHead, IInv, TypeOK
  <2>2. pc'[c] \in {"done", "loop", "put"} /\ (pc'[c] = "done" => head' # NoCommit)
    BY <1>2 DEF SwapHead, TestAndUpdateHead, IInv, TypeOK
  <2> QED
    BY <1>1, <1>2, <1>4, <2>1, <2>2 DEF IInv, ClientInv, RootStored, Known
<1>8. WriterInv'
  BY <1>1 DEF SwapHead, IInv, TypeOK, WriterInv, RootStored
<1>9. MergeInv'
  BY <1>1 DEF SwapHead, IInv, TypeOK, MergeInv, RootOf
<1>10. AckedInHistory' /\ AckedInv'
  <2>1. CASE head' = head /\ acked' = acked
    BY <2>1, <1>1, SameHistory
  <2>2. CASE TestAndUpdateHead(seen[c], target[c]) /\ acked' = acked \cup {up[c]}
    BY <2>2, <1>1, <1>2, SwapExtendsHistory DEF TestAndUpdateHead
  <2> QED
    BY <2>1, <2>2 DEF SwapHead
<1> QED
  BY <1>5, <1>6, <1>7, <1>8, <1>9, <1>10 DEF IInv

(* The end of a REST request. *)
LEMMA ReturnType ==
  ASSUME IInv, NEW w \in Writers, Return(w)
  PROVE  /\ pc' \in [Procs -> ClientPc \cup WriterPc]
         /\ pc'[w] = "idle"
         /\ \A x \in Procs \ {w} : pc'[x] = pc[x]
         /\ \A x \in Clients : pc'[x] = pc[x]
         /\ \A x \in Writers : pc'[x] \in WriterPc
         /\ lock' \in Writers \cup {Nobody}
         /\ view' \in [Writers -> Trees] /\ newRoot' \in [Writers -> Trees]
         /\ edit' \in [Writers -> Edits]
         /\ \A x \in Writers \ {w} : newRoot'[x] = newRoot[x]
BY BranchAssumption, EmptyTreeType, NoEditType
   DEF Return, IInv, TypeOK, ClientPc, WriterPc, Procs

LEMMA CreateCommitStep ==
  ASSUME IInv, NEW w \in Writers, CreateCommit(w)
  PROVE  IInv'
<1> USE BranchAssumption DEF Procs
<1> DEFINE r == [root |-> newRoot[w], parent |-> head, second |-> NoCommit]
<1>1. /\ pc[w] = "applied" /\ fsRoots' = fsRoots /\ head' = head /\ left' = left
      /\ base' = base /\ up' = up /\ attempt' = attempt /\ lost' = lost /\ acked' = acked
  BY DEF CreateCommit, clientVars
<1>2. r \in Row /\ r.parent = head /\ r.second = NoCommit /\ r.root = newRoot[w]
  BY DEF IInv, TypeOK, Row, OptCommit
<1>3. r.parent \in Known /\ r.second \in Known
  BY <1>2 DEF IInv, HeadStored, RootStored, Known
<1>4. RootStored(newRoot[w])
  BY <1>1 DEF IInv, WriterInv, RootStored
<1>5. CASE Return(w) /\ UNCHANGED <<commits, row, seen, target>>
  <2>1. AckedInHistory' /\ AckedInv' /\ RowsKnown'
    BY <1>1, <1>5, SameHistory
  <2>2. TypeOK'
    BY <1>1, <1>5, ReturnType DEF IInv, TypeOK
  <2>3. HeadStored'
    BY <1>1, <1>5 DEF IInv, HeadStored, RootStored
  <2>4. ClientInv'
    BY <1>1, <1>5, ReturnType DEF IInv, ClientInv, RootStored, Known
  <2>5. WriterInv'
    BY <1>1, <1>5, ReturnType DEF IInv, WriterInv, RootStored
  <2>6. MergeInv'
    BY <1>1, <1>5, ReturnType DEF IInv, MergeInv, RootOf
  <2> QED
    BY <2>1, <2>2, <2>3, <2>4, <2>5, <2>6 DEF IInv
<1>6. CASE /\ \E id \in CommitIds : InsertCommit(id, r)
                                  /\ target' = [target EXCEPT ![w] = id]
           /\ seen' = [seen EXCEPT ![w] = head]
           /\ pc' = [pc EXCEPT ![w] = "cas"]
           /\ UNCHANGED writerVars
  <2>1. PICK id \in CommitIds : InsertCommit(id, r) /\ target' = [target EXCEPT ![w] = id]
    BY <1>6
  <2> HIDE DEF r
  <2>2. /\ id \notin commits /\ commits' = commits \cup {id} /\ commits' \subseteq CommitIds
        /\ row' \in [CommitIds -> Row] /\ row'[id] = r
        /\ \A k \in commits : row'[k] = row[k]
        /\ RowsKnown' /\ AckedInv' /\ AckedInHistory'
    BY <1>1, <1>2, <1>3, <2>1, InsertKeepsHistory
  <2>3. view' = view /\ edit' = edit /\ newRoot' = newRoot /\ lock' = lock
    BY <1>6 DEF writerVars
  <2>4. TypeOK'
    <3>1. /\ pc' \in [Procs -> ClientPc \cup WriterPc]
          /\ \A x \in Clients : pc'[x] \in ClientPc
          /\ \A x \in Writers : pc'[x] \in WriterPc
      BY <1>6 DEF IInv, TypeOK, ClientPc, WriterPc
    <3>2. seen' \in [Procs -> OptCommit] /\ target' \in [Procs -> OptCommit]
      BY <1>6, <2>1 DEF IInv, TypeOK, OptCommit
    <3> QED
      BY <1>1, <2>2, <2>3, <3>1, <3>2 DEF IInv, TypeOK
  <2>5. HeadStored'
    BY <1>1, <2>2 DEF IInv, HeadStored, RootStored
  <2>6. \A x \in Clients : pc'[x] = pc[x] /\ seen'[x] = seen[x] /\ target'[x] = target[x]
    BY <1>6, <2>1 DEF IInv, TypeOK
  <2>7. ClientInv'
    BY <1>1, <2>2, <2>6 DEF IInv, ClientInv, RootStored, Known
  <2>8. WriterInv'
    BY <1>1, <1>2, <1>4, <1>6, <2>1, <2>2, <2>3 DEF IInv, TypeOK, WriterInv, RootStored
  <2>9. MergeInv'
    <3> SUFFICES ASSUME NEW x \in Clients, (pc[x] = "cas" /\ target[x] # up[x])'
                 PROVE  (row[target[x]].root =
                           MergeTrees(RootOf(row[up[x]].parent), RootOf(seen[x]),
                                      row[up[x]].root))'
      BY DEF MergeInv
    <3> QED
      BY <1>1, <2>1, <2>6, InsertKeepsMerge
  <2> QED
    BY <2>2, <2>4, <2>5, <2>7, <2>8, <2>9 DEF IInv
<1> QED
  BY <1>5, <1>6 DEF CreateCommit

(* The compare-and-swap of create_commit, won or lost. *)
LEMMA SwapHeadRestStep ==
  ASSUME IInv, NEW w \in Writers, SwapHeadRest(w)
  PROVE  IInv'
<1> USE BranchAssumption DEF Procs
<1>1. /\ pc[w] = "cas" /\ Return(w)
      /\ commits' = commits /\ row' = row /\ fsRoots' = fsRoots /\ left' = left
      /\ base' = base /\ up' = up /\ attempt' = attempt /\ lost' = lost /\ acked' = acked
      /\ seen' = [seen EXCEPT ![w] = NoCommit] /\ target' = [target EXCEPT ![w] = NoCommit]
  BY DEF SwapHeadRest, Forget, store, clientVars
<1>2. /\ target[w] \in commits /\ RootStored(row[target[w]].root)
      /\ row[target[w]].parent = seen[w]
  BY <1>1 DEF IInv, WriterInv, RootStored
<1>3. head' = head \/ (head = seen[w] /\ head' = target[w])
  BY DEF SwapHeadRest, TestAndUpdateHead
<1>4. head # NoCommit => head' # NoCommit
  BY <1>2, <1>3 DEF IInv, TypeOK
<1>5. /\ seen' \in [Procs -> OptCommit] /\ target' \in [Procs -> OptCommit]
      /\ head' \in OptCommit
      /\ \A x \in Procs \ {w} : seen'[x] = seen[x] /\ target'[x] = target[x]
  BY <1>1, <1>2, <1>3 DEF IInv, TypeOK, OptCommit
<1>6. TypeOK'
  BY <1>1, <1>5, ReturnType DEF IInv, TypeOK
<1>7. RowsKnown' /\ HeadStored'
  BY <1>1, <1>2, <1>3 DEF IInv, RowsKnown, Known, HeadStored, RootStored
<1>8. ClientInv'
  BY <1>1, <1>4, <1>5, ReturnType DEF IInv, ClientInv, RootStored, Known
<1>9. WriterInv'
  BY <1>1, <1>5, ReturnType DEF IInv, WriterInv, RootStored
<1>10. MergeInv'
  BY <1>1, <1>5, ReturnType DEF IInv, MergeInv, RootOf
<1>11. AckedInHistory' /\ AckedInv'
  <2>1. CASE head' = head
    BY <2>1, <1>1, SameHistory
  <2>2. CASE head = seen[w] /\ head' = target[w]
    BY <2>2, <1>1, <1>2, SwapExtendsHistory
  <2> QED
    BY <2>1, <2>2, <1>3
<1> QED
  BY <1>6, <1>7, <1>8, <1>9, <1>10, <1>11 DEF IInv

-----------------------------------------------------------------------------
LEMMA InitInv == Init => IInv
<1> SUFFICES ASSUME Init PROVE IInv
  OBVIOUS
<1> USE BranchAssumption DEF Procs
<1>1. TypeOK
  BY InitType
<1>2. /\ RowsKnown
      /\ HeadStored
  BY DEF Init, RowsKnown, Known, HeadStored, RootStored
<1>3. ClientInv /\ MergeInv
  BY DEF Init, ClientInv, RootStored, MergeInv, Known
<1>4. WriterInv
  BY DEF Init, WriterInv, RootStored
<1>5. AckedInv /\ AckedInHistory
  BY DEF Init, AckedInv, AckedInHistory
<1> QED
  BY <1>1, <1>2, <1>3, <1>4, <1>5 DEF IInv

LEMMA StepInv == IInv /\ [Next]_vars => IInv'
<1> SUFFICES ASSUME IInv, [Next]_vars PROVE IInv'
  OBVIOUS
<1>1. CASE UNCHANGED vars
  BY <1>1 DEF vars, IInv, TypeOK, RowsKnown, HeadStored, RootStored, ClientInv, MergeInv, WriterInv,
     AckedInv, AckedInHistory, InHistory, ParentClosed, Known, RootOf
<1>2. ASSUME NEW c \in Clients, Download(c) \/ PutCommit(c) \/ ClientStep(c)
      PROVE  IInv'
  BY <1>2, QuietClientStep, PutCommitStep, ReadHeadStep, MergeBranchStep, SwapHeadStep
     DEF ClientStep
<1>3. ASSUME NEW w \in Writers, Resolve(w) \/ StartUpload(w) \/ WriterStep(w)
      PROVE  IInv'
  BY <1>3, QuietWriterStep, CreateCommitStep, SwapHeadRestStep DEF WriterStep
<1> QED
  BY <1>1, <1>2, <1>3 DEF Next

LEMMA InvHolds == Spec => []IInv
BY InitInv, StepInv, PTL DEF Spec

(* Type correctness of the branch protocol. *)
THEOREM TypeCorrect == Spec => []TypeOK
<1>1. IInv => TypeOK
  BY DEF IInv
<1> QED
  BY <1>1, InvHolds, PTL

(* HEAD never names a commit that is missing or whose root is missing.    *)
THEOREM HeadAlwaysStored == Spec => []HeadStored
<1>1. IInv => HeadStored
  BY DEF IInv
<1> QED
  BY <1>1, InvHolds, PTL

(* An acknowledged upload stays in the history of HEAD.                   *)
THEOREM AckedStaysInHistory == Spec => []AckedInHistory
<1>1. IInv => AckedInHistory
  BY DEF IInv
<1> QED
  BY <1>1, InvHolds, PTL

-----------------------------------------------------------------------------
(* Only the two compare-and-swap steps move HEAD. *)
LEMMA OnlySwapsMoveHead ==
  ASSUME Next, head' # head
  PROVE  \/ \E c \in Clients : SwapHead(c) /\ TestAndUpdateHead(seen[c], target[c])
         \/ \E w \in Writers : SwapHeadRest(w) /\ TestAndUpdateHead(seen[w], target[w])
<1>1. ASSUME NEW c \in Clients, Download(c) \/ PutCommit(c) \/ ClientStep(c)
      PROVE  SwapHead(c) /\ TestAndUpdateHead(seen[c], target[c])
  BY <1>1 DEF Download, PutCommit, ClientStep, RecvFs, StartUpdate, RootStored, ReadHead,
              MergeBranch, SwapHead, Reply
<1>2. ASSUME NEW w \in Writers, Resolve(w) \/ StartUpload(w) \/ WriterStep(w)
      PROVE  SwapHeadRest(w) /\ TestAndUpdateHead(seen[w], target[w])
  BY <1>2 DEF Resolve, StartUpload, WriterStep, AcquireRepoLock, ResolveUpload,
              ApplyTreeUpdate, CreateCommit, SwapHeadRest
<1> QED
  BY <1>1, <1>2 DEF Next

(* Every HEAD move, by a client or by REST, is to a child of the old HEAD. *)
THEOREM HeadAlwaysAdvances == Spec => HeadAdvances
<1>1. IInv /\ [Next]_vars =>
        [head' # head => head' \in CommitIds /\ row'[head'].parent = head]_vars
  <2> SUFFICES ASSUME IInv, Next, head' # head
               PROVE  head' \in CommitIds /\ row'[head'].parent = head
    BY DEF vars
  <2>1. CASE \E c \in Clients : SwapHead(c) /\ TestAndUpdateHead(seen[c], target[c])
    BY <2>1 DEF SwapHead, TestAndUpdateHead, store, IInv, TypeOK, ClientInv, RootStored
  <2>2. CASE \E w \in Writers : SwapHeadRest(w) /\ TestAndUpdateHead(seen[w], target[w])
    BY <2>2 DEF SwapHeadRest, TestAndUpdateHead, store, IInv, TypeOK, WriterInv, RootStored
  <2> QED
    BY <2>1, <2>2, OnlySwapsMoveHead
<1> QED
  BY <1>1, InvHolds, PTL DEF Spec, HeadAdvances

-----------------------------------------------------------------------------
(* The merge keeps everything of HEAD that the remote side left alone. *)
LEMMA MergeChangesOnlyRemoteEdits ==
  ASSUME NEW b \in Trees, NEW h \in Trees, NEW r \in Trees, NEW q \in Paths,
         b[q] = r[q],
         ~(q \in Copies /\ b[q[1]] # r[q[1]] /\ q[2] = r[q[1]])
  PROVE  MergeTrees(b, h, r)[q] = h[q]
BY DEF MergeTrees, Kept, RenamesRemote

(* An edit of the remote side is in the merge, in place or as a conflict copy. *)
LEMMA MergeKeepsRemoteEdits ==
  ASSUME NEW b \in Trees, NEW h \in Trees, NEW r \in Trees, NEW n \in Names,
         r[n] # Absent, b[n] # r[n]
  PROVE  MergeTrees(b, h, r)[n] = r[n] \/ MergeTrees(b, h, r)[<<n, r[n]>>] = r[n]
<1> USE BranchAssumption
<1>1. n \in Paths /\ n \notin Copies
  BY DEF Paths, Copies
<1>2. r[n] \in Versions
  BY <1>1 DEF Trees, Slot
<1>3. <<n, r[n]>> \in Copies /\ <<n, r[n]>> \in Paths
  BY <1>2 DEF Copies, Paths
<1>4. CASE RenamesRemote(b[n], h[n], r[n])
  BY <1>3, <1>4 DEF MergeTrees
<1>5. CASE ~RenamesRemote(b[n], h[n], r[n])
  BY <1>1, <1>5 DEF MergeTrees, RenamesRemote, Kept
<1> QED
  BY <1>4, <1>5

(* What the winning compare-and-swap of a client installs: its own tree on *)
(* top of its base, or the merge of its tree with the old HEAD.            *)
LEMMA ClientInstalls ==
  ASSUME IInv, NEW c \in Clients, SwapHead(c), TestAndUpdateHead(seen[c], target[c])
  PROVE  LET b == RootOf(row[up[c]].parent)
             r == row[up[c]].root
         IN  /\ b \in Trees /\ r \in Trees /\ RootOf(head) \in Trees
             /\ \/ RootOf(head) = b /\ RootOf(head)' = r
                \/ RootOf(head)' = MergeTrees(b, RootOf(head), r)
<1> USE BranchAssumption
<1>1. pc[c] = "cas" /\ head = seen[c] /\ head' = target[c] /\ row' = row /\ up' = up
  BY DEF SwapHead, TestAndUpdateHead, store
<1>2. /\ target[c] \in commits /\ up[c] \in commits
      /\ row[target[c]].parent = seen[c]
  BY <1>1 DEF IInv, ClientInv, RootStored
<1>3. up[c] \in CommitIds /\ target[c] \in CommitIds /\ target[c] # NoCommit
  BY <1>2 DEF IInv, TypeOK
<1>4. row[up[c]].root \in Trees /\ row[up[c]].parent \in OptCommit
  BY <1>3 DEF IInv, TypeOK, Row
<1>5. RootOf(row[up[c]].parent) \in Trees /\ RootOf(head) \in Trees
  BY <1>4, RootOfType DEF IInv, TypeOK
<1>6. RootOf(head)' = row[target[c]].root
  BY <1>1, <1>3 DEF RootOf
<1>7. CASE target[c] = up[c]
  BY <1>1, <1>2, <1>4, <1>5, <1>6, <1>7
<1>8. CASE target[c] # up[c]
  BY <1>1, <1>4, <1>5, <1>6, <1>8 DEF IInv, MergeInv
<1> QED
  BY <1>7, <1>8

(* A client's upload never undoes what another writer committed, clients   *)
(* and REST requests alike.                                                *)
THEOREM ClientNeverUndoes == Spec => ClientNoLostUpdate
<1>1. IInv /\ [Next]_vars => [\A c \in Clients : ~Undoes(c)]_vars
  <2> SUFFICES ASSUME IInv, Next, NEW c \in Clients, Undoes(c)
               PROVE  FALSE
    BY DEF vars
  <2>1. pc[c] = "cas" /\ pc'[c] # "cas" /\ head' # head
    BY DEF Undoes
  <2>2. SwapHead(c) /\ TestAndUpdateHead(seen[c], target[c])
    <3>1. CASE \E d \in Clients : SwapHead(d) /\ TestAndUpdateHead(seen[d], target[d])
      BY <2>1, <3>1 DEF SwapHead, IInv, TypeOK, Procs
    <3>2. CASE \E w \in Writers : SwapHeadRest(w) /\ TestAndUpdateHead(seen[w], target[w])
      BY <2>1, <3>2, BranchAssumption DEF SwapHeadRest, Return, IInv, TypeOK, Procs
    <3> QED
      BY <2>1, <3>1, <3>2, OnlySwapsMoveHead
  <2> DEFINE b == RootOf(row[up[c]].parent)
             r == row[up[c]].root
  <2>3. PICK q \in Paths \ ClientTouches(c) : RootOf(head)'[q] # RootOf(head)[q]
    BY DEF Undoes, Touches
  <2>4. /\ b[q] = r[q]
        /\ ~(q \in Copies /\ b[q[1]] # r[q[1]] /\ q[2] = r[q[1]])
    BY <2>3 DEF ClientTouches
  <2>5. /\ b \in Trees /\ r \in Trees /\ RootOf(head) \in Trees
        /\ \/ RootOf(head) = b /\ RootOf(head)' = r
           \/ RootOf(head)' = MergeTrees(b, RootOf(head), r)
    BY <2>2, ClientInstalls
  <2> HIDE DEF b, r
  <2>6. MergeTrees(b, RootOf(head), r)[q] = RootOf(head)[q]
    BY <2>3, <2>4, <2>5, MergeChangesOnlyRemoteEdits
  <2> QED
    BY <2>3, <2>4, <2>5, <2>6
<1> QED
  BY <1>1, InvHolds, PTL DEF Spec, ClientNoLostUpdate

(* Only its own winning compare-and-swap takes a client from cas to done. *)
LEMMA OnlySwapFinishes ==
  ASSUME IInv, Next, NEW c \in Clients, pc[c] = "cas", pc'[c] = "done"
  PROVE  SwapHead(c) /\ TestAndUpdateHead(seen[c], target[c])
<1> USE BranchAssumption DEF Procs, IInv, TypeOK
<1>1. ASSUME NEW d \in Clients, Download(d) \/ PutCommit(d) \/ ClientStep(d)
      PROVE  SwapHead(c) /\ TestAndUpdateHead(seen[c], target[c])
  BY <1>1 DEF Download, PutCommit, ClientStep, RecvFs, StartUpdate, RootStored, ReadHead,
              MergeBranch, SwapHead, Reply
<1>2. ASSUME NEW w \in Writers, Resolve(w) \/ StartUpload(w) \/ WriterStep(w)
      PROVE  FALSE
  <2>1. pc'[c] = pc[c]
    BY <1>2 DEF Resolve, StartUpload, WriterStep, AcquireRepoLock, ResolveUpload,
                ApplyTreeUpdate, CreateCommit, SwapHeadRest, Return
  <2> QED
    BY <2>1
<1> QED
  BY <1>1, <1>2 DEF Next

(* What a client uploaded is in the tree its acknowledged upload produced. *)
THEOREM UploadAlwaysLands == Spec => UploadLands
<1> DEFINE LandsAt(c, n) ==
      LET r == row[up[c]].root[n] IN
      r # Absent /\ r # RootOf(row[up[c]].parent)[n] =>
         \/ RootOf(head)'[n] = r
         \/ RootOf(head)'[<<n, r>>] = r
<1>1. IInv /\ [Next]_vars =>
        [\A c \in Clients : pc[c] = "cas" /\ pc'[c] = "done" =>
            \A n \in Names : LandsAt(c, n)]_vars
  <2> SUFFICES ASSUME IInv, Next, NEW c \in Clients, pc[c] = "cas", pc'[c] = "done",
                      NEW n \in Names
               PROVE  LandsAt(c, n)
    BY DEF vars
  <2> DEFINE b == RootOf(row[up[c]].parent)
             r == row[up[c]].root
  <2>1. /\ b \in Trees /\ r \in Trees /\ RootOf(head) \in Trees
        /\ \/ RootOf(head) = b /\ RootOf(head)' = r
           \/ RootOf(head)' = MergeTrees(b, RootOf(head), r)
    BY OnlySwapFinishes, ClientInstalls
  <2> SUFFICES ASSUME r[n] # Absent, b[n] # r[n]
               PROVE  RootOf(head)'[n] = r[n] \/ RootOf(head)'[<<n, r[n]>>] = r[n]
    OBVIOUS
  <2> HIDE DEF b, r
  <2>2. \/ MergeTrees(b, RootOf(head), r)[n] = r[n]
        \/ MergeTrees(b, RootOf(head), r)[<<n, r[n]>>] = r[n]
    BY <2>1, MergeKeepsRemoteEdits
  <2> QED
    BY <2>1, <2>2
<1> QED
  <2>1. Spec => [][\A c \in Clients : pc[c] = "cas" /\ pc'[c] = "done" =>
                       \A n \in Names : LandsAt(c, n)]_vars
    BY <1>1, InvHolds, PTL DEF Spec
  <2> QED
    BY <2>1 DEF UploadLands, Lands

-----------------------------------------------------------------------------
(* A library written only by uploads: create_file_from_blocks holds the    *)
(* per-repo mutex from its look at the tree to its compare-and-swap, so    *)
(* HEAD cannot move in between.                                            *)
Edited(w) == RewriteDir(HeadTree, HeadTree, edit[w])
Holding == {"uploadLocked", "uploadRead", "applied", "cas"}

LockInv ==
  \A w \in Writers :
    /\ pc[w] \in Holding \cup {"idle", "upload"}
    /\ pc[w] \in Holding => lock = w
    /\ pc[w] = "uploadRead" => view[w] = HeadTree
    /\ pc[w] = "applied" => newRoot[w] = Edited(w)
    /\ pc[w] = "cas" => seen[w] = head /\ row[target[w]].root = Edited(w)

UploadInv == IInv /\ LockInv

LEMMA UploadIsNext == UploadNext => Next
BY DEF UploadNext, Next

(* Rewriting a directory of a tree changes the edited entry and no other. *)
LEMMA RewriteOwnTree ==
  ASSUME NEW t \in Trees, NEW e \in Edits, NEW q \in Paths, q # e.name
  PROVE  RewriteDir(t, t, e)[q] = t[q]
BY DEF RewriteDir

(* The steps of an upload before its commit. *)
LEMMA LockInvQuiet ==
  ASSUME UploadInv, NEW w \in Writers,
         \/ StartUpload(w) \/ AcquireRepoLock(w)
         \/ ResolveUpload(w) \/ ApplyTreeUpdate(w)
  PROVE  LockInv'
<1> USE BranchAssumption DEF Procs, Holding
<1>1. /\ head' = head /\ row' = row /\ seen' = seen /\ target' = target
      /\ HeadTree' = HeadTree
  BY DEF StartUpload, AcquireRepoLock, ResolveUpload, ApplyTreeUpdate, store,
         HeadTree, RootOf
<1> SUFFICES ASSUME NEW x \in Writers
             PROVE  /\ pc'[x] \in Holding \cup {"idle", "upload"}
                    /\ pc'[x] \in Holding => lock' = x
                    /\ pc'[x] = "uploadRead" => view'[x] = HeadTree
                    /\ pc'[x] = "applied" =>
                         newRoot'[x] = RewriteDir(HeadTree, HeadTree, edit'[x])
                    /\ pc'[x] = "cas" =>
                         /\ seen[x] = head
                         /\ row[target[x]].root = RewriteDir(HeadTree, HeadTree, edit'[x])
  BY <1>1 DEF LockInv, Edited
<1>2. /\ pc[x] \in Holding \cup {"idle", "upload"}
      /\ pc[x] \in Holding => lock = x
      /\ pc[x] = "uploadRead" => view[x] = HeadTree
      /\ pc[x] = "applied" => newRoot[x] = RewriteDir(HeadTree, HeadTree, edit[x])
      /\ pc[x] = "cas" =>
           /\ seen[x] = head
           /\ row[target[x]].root = RewriteDir(HeadTree, HeadTree, edit[x])
  BY DEF UploadInv, LockInv, Edited
<1>3. pc \in [Procs -> ClientPc \cup WriterPc] /\ view \in [Writers -> Trees]
      /\ newRoot \in [Writers -> Trees] /\ edit \in [Writers -> Edits]
  BY DEF UploadInv, IInv, TypeOK
<1>4. CASE StartUpload(w)
  BY <1>2, <1>3, <1>4 DEF StartUpload
<1>5. CASE AcquireRepoLock(w)
  BY <1>2, <1>3, <1>5 DEF AcquireRepoLock
<1>6. CASE ResolveUpload(w)
  BY <1>2, <1>3, <1>6 DEF ResolveUpload
<1>7. CASE ApplyTreeUpdate(w)
  <2>1. pc[w] = "uploadRead" /\ lock' = lock
    BY <1>7 DEF ApplyTreeUpdate, UploadInv, LockInv
  <2>2. view[w] = HeadTree
    BY <2>1 DEF UploadInv, LockInv
  <2> QED
    BY <1>2, <1>3, <1>7, <2>1, <2>2 DEF ApplyTreeUpdate
<1> QED
  BY <1>4, <1>5, <1>6, <1>7

(* Once the request has returned, no other upload is affected. *)
LEMMA LockInvReturn ==
  ASSUME UploadInv, NEW w \in Writers, pc[w] \in {"applied", "cas"}, Return(w)
  PROVE  LockInv'
<1> USE BranchAssumption DEF Procs, Holding
<1>1. \A x \in Writers \ {w} : pc[x] \in {"idle", "upload"}
  BY DEF UploadInv, LockInv
<1>2. \A x \in Writers : pc'[x] \in {"idle", "upload"}
  BY <1>1 DEF Return, UploadInv, IInv, TypeOK
<1> QED
  BY <1>2 DEF LockInv

(* The new commit's tree is the tree of HEAD with one entry edited. *)
LEMMA LockInvCommit ==
  ASSUME UploadInv, NEW w \in Writers, CreateCommit(w)
  PROVE  LockInv'
<1> USE BranchAssumption DEF Procs, Holding
<1> DEFINE r == [root |-> newRoot[w], parent |-> head, second |-> NoCommit]
<1>1. CASE Return(w)
  BY <1>1, LockInvReturn DEF CreateCommit
<1>2. CASE /\ \E id \in CommitIds : InsertCommit(id, r)
                                  /\ target' = [target EXCEPT ![w] = id]
           /\ seen' = [seen EXCEPT ![w] = head]
           /\ pc' = [pc EXCEPT ![w] = "cas"]
           /\ UNCHANGED writerVars
  <2>1. PICK id \in CommitIds : InsertCommit(id, r) /\ target' = [target EXCEPT ![w] = id]
    BY <1>2
  <2>2. id \notin commits /\ row' = [row EXCEPT ![id] = r]
    BY <2>1, FreshIdUnused DEF InsertCommit, UploadInv, IInv, TypeOK
  <2>3. head' = head /\ pc[w] = "applied" /\ edit' = edit /\ lock' = lock
    BY <1>2 DEF CreateCommit, writerVars
  <2>4. HeadTree' = HeadTree
    BY <2>2, <2>3 DEF HeadTree, RootOf, UploadInv, IInv, TypeOK, HeadStored
  <2>5. lock = w /\ newRoot[w] = RewriteDir(HeadTree, HeadTree, edit[w])
    BY <2>3 DEF UploadInv, LockInv, Edited
  <2>6. \A x \in Writers \ {w} : pc'[x] \in {"idle", "upload"}
    BY <1>2, <2>5 DEF UploadInv, LockInv, IInv, TypeOK
  <2>7. /\ pc'[w] = "cas" /\ seen'[w] = head /\ target'[w] = id
        /\ row'[id].root = newRoot[w]
    BY <1>2, <2>1, <2>2 DEF UploadInv, IInv, TypeOK
  <2> QED
    BY <2>3, <2>4, <2>5, <2>6, <2>7 DEF LockInv, Edited
<1> QED
  BY <1>1, <1>2 DEF CreateCommit

LEMMA UploadInvHolds == UploadSpec => []UploadInv
<1>1. Init => UploadInv
  BY InitInv, BranchAssumption DEF Init, UploadInv, LockInv, Holding, Procs
<1>2. UploadInv /\ [UploadNext]_vars => UploadInv'
  <2> SUFFICES ASSUME UploadInv, [UploadNext]_vars PROVE UploadInv'
    OBVIOUS
  <2>1. IInv'
    BY StepInv, UploadIsNext DEF UploadInv
  <2>2. CASE UNCHANGED vars
    BY <2>1, <2>2 DEF UploadInv, LockInv, Edited, HeadTree, RootOf, vars
  <2>3. ASSUME NEW w \in Writers, StartUpload(w) \/ WriterStep(w)
        PROVE  UploadInv'
    <3>1. CASE SwapHeadRest(w)
      BY <2>1, <3>1, LockInvReturn DEF SwapHeadRest, UploadInv
    <3> QED
      BY <2>1, <2>3, <3>1, LockInvQuiet, LockInvCommit DEF WriterStep, UploadInv
  <2> QED
    BY <2>2, <2>3 DEF UploadNext
<1> QED
  BY <1>1, <1>2, PTL DEF UploadSpec

(* While nothing but uploads writes a library, none of them undoes what    *)
(* another one committed: what the mutex around the whole of               *)
(* create_file_from_blocks buys, and the other REST requests lack.         *)
THEOREM UploadsNeverUndo == UploadSpec => RestNoLostUpdate
<1>1. UploadInv /\ [UploadNext]_vars => [\A w \in Writers : ~Undoes(w)]_vars
  <2> SUFFICES ASSUME UploadInv, UploadNext, NEW w \in Writers, Undoes(w)
               PROVE  FALSE
    BY DEF vars
  <2> USE BranchAssumption DEF Procs
  <2>1. pc[w] = "cas" /\ pc'[w] # "cas" /\ head' # head
    BY DEF Undoes
  <2>2. row' = row /\ head' = target[w]
    <3>1. PICK v \in Writers : StartUpload(v) \/ WriterStep(v)
      BY DEF UploadNext
    <3>2. SwapHeadRest(v) /\ TestAndUpdateHead(seen[v], target[v])
      BY <2>1, <3>1 DEF StartUpload, WriterStep, AcquireRepoLock, ResolveUpload,
                        ApplyTreeUpdate, CreateCommit, SwapHeadRest
    <3>3. v = w
      BY <2>1, <3>2 DEF SwapHeadRest, Return, UploadInv, IInv, TypeOK
    <3> QED
      BY <3>2, <3>3 DEF SwapHeadRest, TestAndUpdateHead, store
  <2>3. target[w] \in commits /\ row[target[w]].root = Edited(w)
    BY <2>1 DEF UploadInv, LockInv, IInv, WriterInv
  <2>4. RootOf(head)' = RewriteDir(HeadTree, HeadTree, edit[w])
    BY <2>2, <2>3 DEF RootOf, Edited, UploadInv, IInv, TypeOK
  <2>5. PICK q \in Paths \ {edit[w].name} : RootOf(head)'[q] # RootOf(head)[q]
    BY DEF Undoes, Touches
  <2>6. HeadTree \in Trees /\ edit[w] \in Edits
    BY RootOfType DEF HeadTree, UploadInv, IInv, TypeOK
  <2> QED
    BY <2>4, <2>5, <2>6, RewriteOwnTree DEF HeadTree
<1> QED
  BY <1>1, UploadInvHolds, PTL DEF UploadSpec, RestNoLostUpdate
=============================================================================
