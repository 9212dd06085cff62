------------------------------ MODULE GcProofs ------------------------------
(***************************************************************************)
(* Proofs about Gc, for any number of clients, uploads, blocks, commits    *)
(* and passes: a library with unlimited history keeps every past HEAD,     *)
(* block by block, whatever a pass and the uploads interleave, as long as  *)
(* no upload outlasts the grace window or contains a leftover block; no    *)
(* pass takes anything of a commit that it retains and that was complete   *)
(* when it walked, whatever the retention; and a pass that comes to its    *)
(* end has collected what is garbage.                                      *)
(***************************************************************************)
EXTENDS MCGcPasses, TLAPS

USE DEF objects, store, blockVars, uploadVars, marks, gcVars, vars

-----------------------------------------------------------------------------
(* The collector's snapshot, in every setting *)

(* Row ids are handed out once, and the snapshot is of rows handed out.     *)
(* What was complete at the walk is complete, and none of its blocks is     *)
(* going to be deleted.                                                     *)
SnapshotInv ==
  /\ commits \subseteq 1 .. made /\ glist \subseteq 1 .. made /\ gkeep \subseteq glist
  /\ gwhole \subseteq gkeep
  /\ gpc = "pruneFs" => \A k \in gkeep : row[k].root \in greach
  /\ gpc \in {"idle", "read", "walk"} => gwhole = {}
  /\ \A k \in gwhole : Complete(k) /\ row[k].root \subseteq gfiles \cap galive
  /\ orphans \cap galive = {}
  /\ gpc \notin {"verify", "delete"} => orphans = {}

(* What is on disk is live, or on the list, or was written since the pass   *)
(* began, or was looked at and found fresh.                                 *)
ListInv ==
  /\ gpc # "idle" => gnow <= clock
  /\ gpc \in {"verify", "delete"} =>
       \A b \in disk : b \in galive \/ b \in orphans \/ gnow - mtime[b] < MinBlockAge

-----------------------------------------------------------------------------
(* A library with unlimited history *)

Active(p) == pc[p] # "idle"

(* Rows are only ever added, every stored tree is some row's, and HEAD only *)
(* ever moves to a commit that is complete.                                 *)
StoreInv ==
  /\ commits = 1 .. made
  /\ \A t \in fs : t = {} \/ \E k \in commits : row[k].root = t
  /\ head \in heads \cup {NoCommit}
  /\ heads \subseteq commits
  /\ \A k \in heads : Complete(k)
  /\ \A k \in commits : row[k].parent \in heads \cup {NoCommit}

(* What an upload has established, step by step. *)
Established(p) ==
  /\ p \in Clients /\ pc[p] \in {"fs", "blocks", "loop", "cas"} =>
       up[p] \in commits /\ row[up[p]].root = tree[p]
  /\ p \in Clients /\ pc[p] \in {"loop", "cas"} =>
       RootStored(tree[p]) /\ tree[p] \subseteq files \cap disk
  /\ p \in Writers /\ pc[p] = "stored" => tree[p] \subseteq disk
  /\ pc[p] = "cas" => target[p] \in commits /\ Complete(target[p])

(* No upload is older than the grace window, seen from now and seen from    *)
(* the time the pass took its snapshot.                                     *)
InTime(p) ==
  Active(p) =>
    /\ started[p] <= clock /\ clock - started[p] <= MaxUploadTime
    /\ gpc # "idle" => gnow - started[p] <= MaxUploadTime

(* The blocks of an upload belong to a stored tree or are younger than it.  *)
Young(p) ==
  Active(p) => \A b \in tree[p] \cap disk : b \in Referenced \/ mtime[b] >= started[p]

UploadInv == \A p \in Procs : Established(p) /\ InTime(p) /\ Young(p)

(* What the pass counts, or will count, as live, and what it spares.        *)
Alive == IF gpc \in {"idle", "read"} THEN Referenced
         ELSE IF gpc = "walk" THEN AliveBlocks(gkeep) ELSE galive
Spared(b) == b \in Alive \/ (gpc # "idle" /\ gnow - mtime[b] < MinBlockAge)

SparedInv == \A t \in fs : \A b \in t \cap files \cap disk : Spared(b)

PassInv ==
  /\ gpc # "idle" => gnow <= clock
  /\ gpc \notin {"pruneFs", "pruneCommits"}
  /\ gkeep \subseteq commits
  /\ gpc \in {"verify", "delete"} => orphans \cap galive = {}

HistoryInv == StoreInv /\ UploadInv /\ SparedInv /\ PassInv

-----------------------------------------------------------------------------
(* Types *)

StoreTypes ==
  /\ clock \in Time
  /\ made \in 0 .. MaxCommits
  /\ commits \subseteq Ids
  /\ row \in [Ids -> [root : Trees, parent : Ids \cup {NoCommit}, ctime : Time]]
  /\ fs \subseteq Trees /\ files \subseteq Blocks
  /\ head \in Ids \cup {NoCommit}
  /\ heads \subseteq Ids

BlockTypes == disk \subseteq Blocks /\ mtime \in [Blocks -> Time]

PcValues == {"idle", "fs", "blocks", "loop", "cas", "stored"}

UploadTypes ==
  /\ pc \in [Procs -> PcValues]
  /\ tree \in [Procs -> Trees] /\ todo \in [Procs -> Trees]
  /\ up \in [Procs -> Ids \cup {NoCommit}]
  /\ seen \in [Procs -> Ids \cup {NoCommit}]
  /\ target \in [Procs -> Ids \cup {NoCommit}]
  /\ started \in [Procs -> Time]
  /\ abandoned \in Nat

PassTypes ==
  /\ gpc \in {"idle", "read", "walk", "pruneFs", "pruneCommits", "list", "verify", "delete"}
  /\ gnow \in Time /\ ghead \in Ids \cup {NoCommit}
  /\ glist \subseteq Ids /\ gkeep \subseteq glist
  /\ greach \subseteq Trees /\ gfiles \subseteq Blocks /\ galive \subseteq Blocks
  /\ gwhole \subseteq Ids /\ orphans \subseteq Blocks
  /\ passes \in Nat

LEMMA TypeParts == TypeOK <=> StoreTypes /\ BlockTypes /\ UploadTypes /\ PassTypes
BY DEF TypeOK, StoreTypes, BlockTypes, UploadTypes, PassTypes, PcValues

LEMMA TypePartsNext ==
  ASSUME StoreTypes', BlockTypes', UploadTypes', PassTypes'
  PROVE  TypeOK'
BY DEF TypeOK, StoreTypes, BlockTypes, UploadTypes, PassTypes, PcValues

LEMMA Small == 0 \in Time /\ NoCommit \in Ids \cup {NoCommit} /\ {} \in Trees /\ Time \subseteq Nat
BY GcAssumption DEF Time, Trees

LEMMA InitTypes ==
  ASSUME Init
  PROVE  TypeOK
<1>1. MaxCommits \in Nat \ {0} /\ InitialTrees \subseteq Trees /\ 1 \in Ids
  BY GcAssumption DEF Ids
<1>2. PICK t \in InitialTrees \cup {{}} :
        /\ \/ made = 0 /\ t = {} /\ commits = {} /\ head = NoCommit /\ heads = {}
           \/ made = 1 /\ t \in InitialTrees /\ commits = {1} /\ head = 1 /\ heads = {1}
        /\ row = [k \in Ids |-> [root |-> t, parent |-> NoCommit, ctime |-> 0]]
        /\ fs = {t} /\ files = t /\ disk = t
  BY DEF Init
<1>3. t \in Trees /\ t \subseteq Blocks
  BY <1>1 DEF Trees
<1>4. [root |-> t, parent |-> NoCommit, ctime |-> 0]
        \in [root : Trees, parent : Ids \cup {NoCommit}, ctime : Time]
  BY <1>3, Small
<1>5. row \in [Ids -> [root : Trees, parent : Ids \cup {NoCommit}, ctime : Time]]
  BY <1>2, <1>4
<1>6. StoreTypes
  <2>1. clock = 0 /\ fs \subseteq Trees /\ files \subseteq Blocks
    BY <1>2, <1>3 DEF Init
  <2>2. made \in 0 .. MaxCommits /\ commits \subseteq Ids /\ head \in Ids \cup {NoCommit} /\ heads \subseteq Ids
    BY <1>1, <1>2
  <2> QED
    BY <1>5, <2>1, <2>2, Small DEF StoreTypes
<1>7. BlockTypes
  BY <1>2, <1>3, Small DEF Init, BlockTypes
<1>8. UploadTypes
  BY Small DEF Init, UploadTypes, PcValues
<1>9. PassTypes
  BY Small DEF Init, PassTypes
<1> QED
  BY <1>6, <1>7, <1>8, <1>9, TypeParts

(* What the building blocks of the actions do. *)
LEMMA InsertTyped ==
  ASSUME StoreTypes, NEW t \in Trees, NEW parent \in Ids \cup {NoCommit}, NEW ctime \in Time,
         InsertCommit(t, parent, ctime)
  PROVE  /\ made + 1 \in Ids /\ made' = made + 1 /\ made' \in 0 .. MaxCommits
         /\ commits' = commits \cup {made + 1} /\ commits' \subseteq Ids
         /\ row' \in [Ids -> [root : Trees, parent : Ids \cup {NoCommit}, ctime : Time]]
         /\ row'[made + 1].root = t /\ row'[made + 1].parent = parent
         /\ \A k \in Ids : k # made + 1 => row'[k] = row[k]
<1>1. made + 1 \in Ids /\ made' = made + 1 /\ made' \in 0 .. MaxCommits
  BY GcAssumption DEF InsertCommit, StoreTypes, Ids
<1>2. PICK r : r = [root |-> t, parent |-> parent, ctime |-> IF Retention THEN ctime ELSE 0]
  OBVIOUS
<1>3. /\ r \in [root : Trees, parent : Ids \cup {NoCommit}, ctime : Time]
      /\ r.root = t /\ r.parent = parent
  BY <1>2, Small
<1>4. row' = [row EXCEPT ![made + 1] = r]
  BY <1>2 DEF InsertCommit
<1>5. row \in [Ids -> [root : Trees, parent : Ids \cup {NoCommit}, ctime : Time]]
  BY DEF StoreTypes
<1>6. row' \in [Ids -> [root : Trees, parent : Ids \cup {NoCommit}, ctime : Time]]
  BY <1>3, <1>4, <1>5
<1>7. row'[made + 1] = r /\ \A k \in Ids : k # made + 1 => row'[k] = row[k]
  BY <1>1, <1>4, <1>5
<1>8. commits' = commits \cup {made + 1} /\ commits' \subseteq Ids
  BY <1>1 DEF InsertCommit, StoreTypes
<1> QED
  BY <1>1, <1>3, <1>6, <1>7, <1>8

(* The locals of upload p become these values; nobody else's change. *)
Local(p, a, t, u, s, g, d, st) ==
  /\ pc' = [pc EXCEPT ![p] = a]
  /\ tree' = [tree EXCEPT ![p] = t]
  /\ up' = [up EXCEPT ![p] = u]
  /\ seen' = [seen EXCEPT ![p] = s]
  /\ target' = [target EXCEPT ![p] = g]
  /\ todo' = [todo EXCEPT ![p] = d]
  /\ started' = [started EXCEPT ![p] = st]

OtherLocals(p) ==
  \A q \in Procs \ {p} :
    /\ pc'[q] = pc[q] /\ tree'[q] = tree[q] /\ up'[q] = up[q]
    /\ target'[q] = target[q] /\ started'[q] = started[q]

(* ... and these are the values that p's locals have after the step. *)
Landed(p, a, t, u, g, st) ==
  pc'[p] = a /\ tree'[p] = t /\ up'[p] = u /\ target'[p] = g /\ started'[p] = st

LEMMA Same ==
  ASSUME UploadTypes, NEW p \in Procs
  PROVE  /\ pc = [pc EXCEPT ![p] = pc[p]] /\ tree = [tree EXCEPT ![p] = tree[p]]
         /\ up = [up EXCEPT ![p] = up[p]] /\ seen = [seen EXCEPT ![p] = seen[p]]
         /\ target = [target EXCEPT ![p] = target[p]] /\ todo = [todo EXCEPT ![p] = todo[p]]
         /\ started = [started EXCEPT ![p] = started[p]]
BY DEF UploadTypes

LEMMA LocalTyped ==
  ASSUME UploadTypes, NEW p \in Procs, NEW a \in PcValues,
         NEW t \in Trees, NEW d \in Trees, NEW u \in Ids \cup {NoCommit},
         NEW s \in Ids \cup {NoCommit}, NEW g \in Ids \cup {NoCommit}, NEW st \in Time,
         Local(p, a, t, u, s, g, d, st), abandoned' \in Nat
  PROVE  UploadTypes' /\ OtherLocals(p) /\ Landed(p, a, t, u, g, st)
<1>1. /\ pc' \in [Procs -> PcValues] /\ pc'[p] = a
      /\ \A q \in Procs \ {p} : pc'[q] = pc[q]
  BY DEF UploadTypes, Local
<1>2. /\ tree' \in [Procs -> Trees] /\ tree'[p] = t
      /\ \A q \in Procs \ {p} : tree'[q] = tree[q]
  BY DEF UploadTypes, Local
<1>3. /\ up' \in [Procs -> Ids \cup {NoCommit}] /\ up'[p] = u
      /\ \A q \in Procs \ {p} : up'[q] = up[q]
  BY DEF UploadTypes, Local
<1>4. seen' \in [Procs -> Ids \cup {NoCommit}]
  BY DEF UploadTypes, Local
<1>5. /\ target' \in [Procs -> Ids \cup {NoCommit}] /\ target'[p] = g
      /\ \A q \in Procs \ {p} : target'[q] = target[q]
  BY DEF UploadTypes, Local
<1>6. todo' \in [Procs -> Trees]
  BY DEF UploadTypes, Local
<1>7. /\ started' \in [Procs -> Time] /\ started'[p] = st
      /\ \A q \in Procs \ {p} : started'[q] = started[q]
  BY DEF UploadTypes, Local
<1> QED
  BY <1>1, <1>2, <1>3, <1>4, <1>5, <1>6, <1>7 DEF UploadTypes, OtherLocals, Landed

LEMMA FinishLocal ==
  ASSUME NEW p, Finish(p)
  PROVE  Local(p, "idle", {}, NoCommit, NoCommit, NoCommit, {}, 0)
BY DEF Finish, Local

(* The commits an upload points to have rows. *)
PointersInv ==
  \A p \in Procs :
    /\ p \in Clients /\ pc[p] \in {"fs", "blocks", "loop", "cas"} => up[p] \in Ids
    /\ pc[p] = "cas" => target[p] \in Ids

TypeInv == TypeOK /\ PointersInv

LEMMA LocalInv ==
  ASSUME UploadTypes, PointersInv, NEW p \in Procs, NEW a \in PcValues,
         NEW t \in Trees, NEW d \in Trees, NEW u \in Ids \cup {NoCommit},
         NEW s \in Ids \cup {NoCommit}, NEW g \in Ids \cup {NoCommit}, NEW st \in Time,
         Local(p, a, t, u, s, g, d, st), abandoned' \in Nat,
         p \in Clients /\ a \in {"fs", "blocks", "loop", "cas"} => u \in Ids,
         a = "cas" => g \in Ids
  PROVE  UploadTypes' /\ PointersInv'
<1>0. UploadTypes' /\ OtherLocals(p) /\ Landed(p, a, t, u, g, st)
  BY LocalTyped
<1>1. /\ UploadTypes' /\ OtherLocals(p) /\ pc'[p] = a /\ up'[p] = u /\ target'[p] = g
  BY <1>0 DEF Landed
<1>2. SUFFICES ASSUME NEW q \in Procs
               PROVE  /\ q \in Clients /\ pc'[q] \in {"fs", "blocks", "loop", "cas"} => up'[q] \in Ids
                      /\ pc'[q] = "cas" => target'[q] \in Ids
  BY <1>1 DEF PointersInv
<1>3. CASE q = p
  BY <1>1, <1>3
<1>4. CASE q # p
  <2>1. pc'[q] = pc[q] /\ up'[q] = up[q] /\ target'[q] = target[q]
    BY <1>1, <1>4 DEF OtherLocals
  <2> QED
    BY <2>1 DEF PointersInv
<1> QED
  BY <1>3, <1>4

LEMMA FinishTyped ==
  ASSUME UploadTypes, PointersInv, NEW p \in Procs, Finish(p), abandoned' \in Nat
  PROVE  UploadTypes' /\ PointersInv'
<1>1. "idle" \in PcValues /\ {} \in Trees /\ NoCommit \in Ids \cup {NoCommit} /\ 0 \in Time
  BY Small DEF PcValues
<1>2. Local(p, "idle", {}, NoCommit, NoCommit, NoCommit, {}, 0)
  BY FinishLocal
<1> QED
  BY <1>1, <1>2, LocalInv

LEMMA WriteTyped ==
  ASSUME BlockTypes, clock \in Time, NEW b \in Blocks, WriteBlock(b)
  PROVE  BlockTypes'
BY DEF BlockTypes, WriteBlock

LEMMA EndPassTyped ==
  ASSUME PassTypes, EndPass
  PROVE  PassTypes'
BY Small DEF PassTypes, EndPass

LEMMA RootTyped ==
  ASSUME StoreTypes, NEW k \in Ids \cup {NoCommit}
  PROVE  /\ RootOf(k) \in Trees
         /\ k \in Ids => row[k].parent \in Ids \cup {NoCommit} /\ row[k].root \in Trees
<1>1. 0 \notin Ids
  BY DEF Ids
<1> QED
  BY <1>1, Small DEF StoreTypes, RootOf, NoCommit

(* The uploads' actions, seen from their locals. *)
LEMMA PutCommitShape ==
  ASSUME UploadTypes, NEW c \in Procs, PutCommit(c)
  PROVE  /\ pc[c] = "idle" /\ UNCHANGED <<fs, files, disk, mtime, head, heads>>
         /\ \E t \in Trees, ctime \in Time :
              /\ MayContain(t) /\ InsertCommit(t, head, ctime)
              /\ Local(c, "fs", t, made + 1, seen[c], target[c], todo[c], clock)
<1>1. PICK t \in Trees, ctime \in Time :
        MayContain(t) /\ Begin(c, t) /\ InsertCommit(t, head, ctime)
  BY DEF PutCommit
<1>2. seen' = [seen EXCEPT ![c] = seen[c]] /\ target' = [target EXCEPT ![c] = target[c]]
  BY Same DEF PutCommit
<1>3. todo' = [todo EXCEPT ![c] = todo[c]]
  BY Same DEF PutCommit
<1>4. Local(c, "fs", t, made + 1, seen[c], target[c], todo[c], clock)
  BY <1>1, <1>2, <1>3 DEF PutCommit, Begin, Local
<1> QED
  BY <1>1, <1>4 DEF PutCommit, Begin

(* Objects of the upload's tree arrive. *)
Packed(c) ==
  /\ fs \subseteq fs' /\ fs' \subseteq fs \cup {tree[c]}
  /\ files \subseteq files' /\ files' \subseteq files \cup tree[c]

LEMMA RecvFsShape ==
  ASSUME UploadTypes, NEW c \in Procs, RecvFs(c)
  PROVE  /\ pc[c] = "fs" /\ Packed(c)
         /\ UNCHANGED <<made, commits, row, disk, mtime, head, heads>>
         /\ \/ Local(c, "fs", tree[c], up[c], seen[c], target[c], todo[c], started[c])
            \/ Local(c, "blocks", tree[c], up[c], seen[c], target[c],
                     tree[c] \ RootOf(row[up[c]].parent), started[c])
<1>1. /\ tree' = [tree EXCEPT ![c] = tree[c]] /\ up' = [up EXCEPT ![c] = up[c]]
      /\ seen' = [seen EXCEPT ![c] = seen[c]] /\ target' = [target EXCEPT ![c] = target[c]]
      /\ started' = [started EXCEPT ![c] = started[c]]
  BY Same DEF RecvFs
<1>2. /\ pc[c] = "fs" /\ Packed(c)
      /\ UNCHANGED <<made, commits, row, disk, mtime, head, heads>>
  BY DEF RecvFs, Packed
<1>3. CASE UNCHANGED <<pc, todo>>
  <2>1. pc' = [pc EXCEPT ![c] = "fs"] /\ todo' = [todo EXCEPT ![c] = todo[c]]
    BY <1>2, <1>3, Same
  <2> QED
    BY <1>1, <1>2, <2>1 DEF Local
<1>4. CASE /\ pc' = [pc EXCEPT ![c] = "blocks"]
           /\ todo' = [todo EXCEPT ![c] = tree[c] \ RootOf(row[up[c]].parent)]
  BY <1>1, <1>2, <1>4 DEF Local
<1> QED
  BY <1>3, <1>4 DEF RecvFs

LEMMA PutBlockShape ==
  ASSUME UploadTypes, NEW c \in Procs, PutBlock(c)
  PROVE  /\ pc[c] = "blocks" /\ UNCHANGED <<made, commits, row, fs, files, head, heads>>
         /\ \E b \in todo[c] :
              /\ WriteBlock(b)
              /\ Local(c, "blocks", tree[c], up[c], seen[c], target[c], todo[c] \ {b}, started[c])
<1>1. PICK b \in todo[c] : WriteBlock(b) /\ todo' = [todo EXCEPT ![c] = todo[c] \ {b}]
  BY DEF PutBlock
<1>2. /\ tree' = [tree EXCEPT ![c] = tree[c]] /\ up' = [up EXCEPT ![c] = up[c]]
      /\ seen' = [seen EXCEPT ![c] = seen[c]] /\ target' = [target EXCEPT ![c] = target[c]]
      /\ started' = [started EXCEPT ![c] = started[c]]
  BY Same DEF PutBlock
<1>3. pc' = [pc EXCEPT ![c] = "blocks"]
  BY Same DEF PutBlock
<1>4. Local(c, "blocks", tree[c], up[c], seen[c], target[c], todo[c] \ {b}, started[c])
  BY <1>1, <1>2, <1>3 DEF Local
<1> QED
  BY <1>1, <1>4 DEF PutBlock

LEMMA StartUpdateShape ==
  ASSUME UploadTypes, NEW c \in Procs, StartUpdate(c)
  PROVE  /\ pc[c] = "blocks" /\ UNCHANGED <<made, commits, row, fs, files, disk, mtime, head, heads>>
         /\ \/ Local(c, "fs", tree[c], up[c], seen[c], target[c], todo[c], started[c])
            \/ Local(c, "blocks", tree[c], up[c], seen[c], target[c],
                     Checked(tree[c], row[up[c]].parent) \ disk, started[c])
            \/ /\ Local(c, "loop", tree[c], up[c], seen[c], target[c], todo[c], started[c])
               /\ RootStored(tree[c])
               /\ Checked(tree[c], row[up[c]].parent) \subseteq files \cap disk
            \/ Finish(c)
<1>1. /\ tree = [tree EXCEPT ![c] = tree[c]] /\ up = [up EXCEPT ![c] = up[c]]
      /\ seen = [seen EXCEPT ![c] = seen[c]] /\ target = [target EXCEPT ![c] = target[c]]
      /\ started = [started EXCEPT ![c] = started[c]] /\ todo = [todo EXCEPT ![c] = todo[c]]
      /\ pc = [pc EXCEPT ![c] = pc[c]]
  BY Same
<1>2. pc[c] = "blocks" /\ UNCHANGED <<made, commits, row, fs, files, disk, mtime, head, heads>>
  BY DEF StartUpdate
<1>3. CASE /\ pc' = [pc EXCEPT ![c] = "fs"]
           /\ UNCHANGED <<tree, up, seen, target, todo, started>>
  BY <1>1, <1>2, <1>3 DEF Local
<1>4. CASE /\ todo' = [todo EXCEPT ![c] = Checked(tree[c], row[up[c]].parent) \ disk]
           /\ UNCHANGED <<pc, tree, up, seen, target, started>>
  BY <1>1, <1>2, <1>4 DEF Local
<1>5. CASE /\ Arrived(tree[c], row[up[c]].parent)
           /\ Checked(tree[c], row[up[c]].parent) \ disk = {}
           /\ pc' = [pc EXCEPT ![c] = "loop"]
           /\ UNCHANGED <<tree, up, seen, target, todo, started>>
  BY <1>1, <1>2, <1>5 DEF Local, Arrived
<1> QED
  BY <1>2, <1>3, <1>4, <1>5 DEF StartUpdate

(* A merge commit: its tree, and the step to the compare-and-swap. *)
Commit(p, m) ==
  /\ Readable(head)
  /\ fs' = fs \cup {m} /\ files \subseteq files' /\ files' \subseteq files \cup tree[p]
  /\ m \ RootOf(head) \subseteq files'
  /\ InsertCommit(m, head, clock)
  /\ Local(p, "cas", tree[p], up[p], head, made + 1, todo[p], started[p])

LEMMA ReadHeadShape ==
  ASSUME UploadTypes, NEW c \in Procs, ReadHead(c)
  PROVE  /\ pc[c] = "loop" /\ UNCHANGED <<disk, mtime, head, heads>>
         /\ \/ /\ UNCHANGED <<made, commits, row, fs, files>>
               /\ Local(c, "cas", tree[c], up[c], head, up[c], todo[c], started[c])
            \/ \E m \in SUBSET (RootOf(head) \cup tree[c]) :
                 m \ RootOf(head) \subseteq disk /\ Commit(c, m)
            \/ Finish(c) /\ UNCHANGED <<made, commits, row, fs, files>>
<1>1. /\ tree = [tree EXCEPT ![c] = tree[c]] /\ up = [up EXCEPT ![c] = up[c]]
      /\ started = [started EXCEPT ![c] = started[c]] /\ todo = [todo EXCEPT ![c] = todo[c]]
  BY Same
<1>2. pc[c] = "loop" /\ UNCHANGED <<disk, mtime, head, heads>>
  BY DEF ReadHead
<1>3. PICK m : m = Merged(RootOf(row[up[c]].parent), RootOf(head), tree[c])
  OBVIOUS
<1>4. m \subseteq RootOf(head) \cup tree[c]
  BY <1>3 DEF Merged
<1>5. CASE /\ seen' = [seen EXCEPT ![c] = head] /\ target' = [target EXCEPT ![c] = up[c]]
           /\ pc' = [pc EXCEPT ![c] = "cas"] /\ UNCHANGED <<store, tree, up, todo, started>>
  BY <1>1, <1>2, <1>5 DEF Local
<1>6. CASE /\ Readable(head) /\ m \ RootOf(head) \subseteq files \cap disk
           /\ fs' = fs \cup {m} /\ UNCHANGED files /\ InsertCommit(m, head, clock)
           /\ seen' = [seen EXCEPT ![c] = head] /\ target' = [target EXCEPT ![c] = made + 1]
           /\ pc' = [pc EXCEPT ![c] = "cas"] /\ UNCHANGED <<tree, up, todo, started>>
  <2>1. Local(c, "cas", tree[c], up[c], head, made + 1, todo[c], started[c])
    BY <1>1, <1>6 DEF Local
  <2> QED
    BY <1>2, <1>4, <1>6, <2>1 DEF Commit
<1>7. CASE Finish(c) /\ UNCHANGED store
  BY <1>2, <1>7
<1> QED
  BY <1>3, <1>5, <1>6, <1>7 DEF ReadHead

LEMMA SwapHeadShape ==
  ASSUME UploadTypes, NEW c \in Procs, SwapHead(c)
  PROVE  /\ pc[c] = "cas" /\ c \in Clients
         /\ UNCHANGED <<made, commits, row, fs, files, disk, mtime>>
         /\ \/ SetHead(target[c]) /\ Finish(c)
            \/ /\ UNCHANGED <<head, heads>>
               /\ \E a \in {"loop", "blocks"} :
                    Local(c, a, tree[c], up[c], seen[c], target[c], todo[c], started[c])
<1>1. /\ tree = [tree EXCEPT ![c] = tree[c]] /\ up = [up EXCEPT ![c] = up[c]]
      /\ seen = [seen EXCEPT ![c] = seen[c]] /\ target = [target EXCEPT ![c] = target[c]]
      /\ started = [started EXCEPT ![c] = started[c]] /\ todo = [todo EXCEPT ![c] = todo[c]]
  BY Same
<1>2. pc[c] = "cas" /\ c \in Clients /\ UNCHANGED <<made, commits, row, fs, files, disk, mtime>>
  BY DEF SwapHead
<1>3. CASE SetHead(target[c]) /\ Finish(c)
  BY <1>2, <1>3
<1>4. CASE /\ pc' \in {[pc EXCEPT ![c] = s] : s \in {"loop", "blocks"}}
           /\ UNCHANGED <<head, heads, tree, up, seen, target, todo, started>>
  <2>1. PICK a \in {"loop", "blocks"} : pc' = [pc EXCEPT ![c] = a]
    BY <1>4
  <2>2. Local(c, a, tree[c], up[c], seen[c], target[c], todo[c], started[c])
    BY <1>1, <1>4, <2>1 DEF Local
  <2> QED
    BY <1>2, <1>4, <2>2
<1> QED
  BY <1>3, <1>4 DEF SwapHead

LEMMA StoreBlockShape ==
  ASSUME UploadTypes, NEW w \in Procs, StoreBlock(w)
  PROVE  /\ pc[w] = "idle" /\ UNCHANGED <<made, commits, row, fs, files, head, heads>>
         /\ \E b \in Blocks :
              /\ MayContain({b}) /\ WriteBlock(b)
              /\ Local(w, "stored", {b}, up[w], seen[w], target[w], todo[w], clock)
<1>1. PICK b \in Blocks : MayContain({b}) /\ Begin(w, {b}) /\ WriteBlock(b)
  BY DEF StoreBlock
<1>2. /\ up' = [up EXCEPT ![w] = up[w]] /\ todo' = [todo EXCEPT ![w] = todo[w]]
      /\ seen' = [seen EXCEPT ![w] = seen[w]] /\ target' = [target EXCEPT ![w] = target[w]]
  BY Same DEF StoreBlock
<1>3. Local(w, "stored", {b}, up[w], seen[w], target[w], todo[w], clock)
  BY <1>1, <1>2 DEF StoreBlock, Begin, Local
<1> QED
  BY <1>1, <1>3 DEF StoreBlock, Begin

LEMMA CreateFileShape ==
  ASSUME UploadTypes, NEW w \in Procs, CreateFile(w)
  PROVE  /\ pc[w] = "stored" /\ UNCHANGED <<disk, mtime, head, heads>>
         /\ \/ Commit(w, RootOf(head) \cup tree[w])
            \/ Finish(w) /\ UNCHANGED <<made, commits, row, fs, files>>
<1>1. /\ tree = [tree EXCEPT ![w] = tree[w]] /\ up = [up EXCEPT ![w] = up[w]]
      /\ started = [started EXCEPT ![w] = started[w]] /\ todo = [todo EXCEPT ![w] = todo[w]]
  BY Same
<1>2. pc[w] = "stored" /\ UNCHANGED <<disk, mtime, head, heads>>
  BY DEF CreateFile
<1>3. PICK t : t = RootOf(head) \cup tree[w]
  OBVIOUS
<1>4. CASE /\ Readable(head) /\ fs' = fs \cup {t} /\ files' = files \cup tree[w]
           /\ InsertCommit(t, head, clock)
           /\ seen' = [seen EXCEPT ![w] = head] /\ target' = [target EXCEPT ![w] = made + 1]
           /\ pc' = [pc EXCEPT ![w] = "cas"] /\ UNCHANGED <<tree, up, todo, started>>
  <2>1. Local(w, "cas", tree[w], up[w], head, made + 1, todo[w], started[w])
    BY <1>1, <1>4 DEF Local
  <2> QED
    BY <1>2, <1>3, <1>4, <2>1 DEF Commit
<1>5. CASE Finish(w) /\ UNCHANGED store
  BY <1>2, <1>5
<1> QED
  BY <1>3, <1>4, <1>5 DEF CreateFile

LEMMA SwapHeadRestShape ==
  ASSUME NEW w, SwapHeadRest(w)
  PROVE  /\ pc[w] = "cas" /\ UNCHANGED <<made, commits, row, fs, files, disk, mtime>> /\ Finish(w)
         /\ SetHead(target[w]) \/ UNCHANGED <<head, heads>>
BY DEF SwapHeadRest

LEMMA UploadFrame ==
  ASSUME TypeOK, NEW p, ClientStep(p) \/ WriterStep(p) \/ Abandon(p)
  PROVE  UNCHANGED <<clock, gcVars>> /\ abandoned' \in Nat
<1>1. abandoned \in Nat
  BY DEF TypeOK
<1>2. CASE ClientStep(p)
  BY <1>1, <1>2 DEF ClientStep, PutCommit, RecvFs, PutBlock, StartUpdate, ReadHead, SwapHead
<1>3. CASE WriterStep(p)
  BY <1>1, <1>3 DEF WriterStep, StoreBlock, CreateFile, SwapHeadRest
<1>4. CASE Abandon(p)
  BY <1>1, <1>4 DEF Abandon
<1> QED
  BY <1>2, <1>3, <1>4

LocalTypes == StoreTypes /\ BlockTypes /\ UploadTypes /\ PointersInv

LEMMA CommitTyped ==
  ASSUME LocalTypes, NEW p \in Procs, NEW m \in Trees, Commit(p, m), abandoned' \in Nat,
         p \in Clients => up[p] \in Ids, UNCHANGED <<clock, head, heads, disk, mtime>>
  PROVE  LocalTypes'
<1>1. StoreTypes /\ BlockTypes /\ UploadTypes /\ PointersInv
  BY DEF LocalTypes
<1>2. head \in Ids \cup {NoCommit} /\ clock \in Time
  BY <1>1 DEF StoreTypes
<1>3. /\ tree[p] \in Trees /\ up[p] \in Ids \cup {NoCommit} /\ todo[p] \in Trees
      /\ started[p] \in Time /\ "cas" \in PcValues
  BY <1>1 DEF UploadTypes, PcValues
<1>4. made + 1 \in Ids /\ StoreTypes'
  BY <1>1, <1>2, <1>3, InsertTyped DEF StoreTypes, Commit, Trees
<1>5. /\ Local(p, "cas", tree[p], up[p], head, made + 1, todo[p], started[p])
      /\ made + 1 \in Ids \cup {NoCommit}
  BY <1>4 DEF Commit
<1>6. UploadTypes' /\ PointersInv'
  BY <1>1, <1>2, <1>3, <1>4, <1>5, LocalInv
<1>7. BlockTypes'
  BY <1>1 DEF BlockTypes
<1> QED
  BY <1>4, <1>6, <1>7 DEF LocalTypes

LEMMA StepTypes ==
  ASSUME LocalTypes, NEW p \in Procs, abandoned' \in Nat, UNCHANGED clock,
         \/ p \in Clients /\ ClientStep(p)
         \/ p \in Writers /\ WriterStep(p)
         \/ Abandon(p)
  PROVE  LocalTypes'
<1>1. StoreTypes /\ BlockTypes /\ UploadTypes /\ PointersInv
  BY DEF LocalTypes
<1>2. head \in Ids \cup {NoCommit} /\ clock \in Time /\ clock' = clock
  BY <1>1 DEF StoreTypes
<1>3. /\ tree[p] \in Trees /\ todo[p] \in Trees /\ up[p] \in Ids \cup {NoCommit}
      /\ seen[p] \in Ids \cup {NoCommit} /\ target[p] \in Ids \cup {NoCommit}
      /\ started[p] \in Time
  BY <1>1 DEF UploadTypes
<1>4. PcValues = {"idle", "fs", "blocks", "loop", "cas", "stored"}
  BY DEF PcValues
<1>5. /\ p \in Clients /\ pc[p] \in {"fs", "blocks", "loop", "cas"} => up[p] \in Ids
      /\ pc[p] = "cas" => target[p] \in Ids
  BY <1>1 DEF PointersInv
<1>6. ASSUME UNCHANGED <<made, commits, row, fs, files, head, heads>>
      PROVE  StoreTypes'
  BY <1>1, <1>2, <1>6 DEF StoreTypes
<1>7. ASSUME UNCHANGED <<disk, mtime>>
      PROVE  BlockTypes'
  BY <1>1, <1>7 DEF BlockTypes
<1>8. ASSUME NEW d \in Trees, NEW a \in {"fs", "blocks", "loop"}, p \in Clients,
             pc[p] \in {"fs", "blocks", "loop", "cas"},
             Local(p, a, tree[p], up[p], seen[p], target[p], d, started[p])
      PROVE  UploadTypes' /\ PointersInv'
  <2>1. a \in PcValues /\ up[p] \in Ids /\ a # "cas"
    BY <1>4, <1>5, <1>8
  <2> QED
    BY <1>1, <1>3, <1>8, <2>1, LocalInv
<1>9. CASE p \in Clients /\ PutCommit(p)
  <2>1. PICK t \in Trees, ctime \in Time :
          /\ InsertCommit(t, head, ctime)
          /\ Local(p, "fs", t, made + 1, seen[p], target[p], todo[p], clock)
    BY <1>1, <1>9, PutCommitShape
  <2>2. UNCHANGED <<fs, files, disk, mtime, head, heads>>
    BY <1>1, <1>9, PutCommitShape
  <2>3. made + 1 \in Ids /\ StoreTypes'
    BY <1>1, <1>2, <2>1, <2>2, InsertTyped DEF StoreTypes
  <2>4. "fs" \in PcValues /\ made + 1 \in Ids \cup {NoCommit}
    BY <1>4, <2>3
  <2>5. UploadTypes' /\ PointersInv'
    BY <1>1, <1>2, <1>3, <2>1, <2>3, <2>4, LocalInv
  <2> QED
    BY <1>7, <2>2, <2>3, <2>5 DEF LocalTypes
<1>10. CASE p \in Clients /\ RecvFs(p)
  <2>1. /\ pc[p] = "fs" /\ Packed(p)
        /\ UNCHANGED <<made, commits, row, disk, mtime, head, heads>>
        /\ \/ Local(p, "fs", tree[p], up[p], seen[p], target[p], todo[p], started[p])
           \/ Local(p, "blocks", tree[p], up[p], seen[p], target[p],
                    tree[p] \ RootOf(row[up[p]].parent), started[p])
    BY <1>1, <1>10, RecvFsShape
  <2>2. tree[p] \ RootOf(row[up[p]].parent) \in Trees
    BY <1>3 DEF Trees
  <2>3. UploadTypes' /\ PointersInv'
    BY <1>3, <1>8, <1>10, <2>1, <2>2
  <2>4. StoreTypes'
    BY <1>1, <1>2, <1>3, <2>1 DEF StoreTypes, Packed, Trees
  <2> QED
    BY <1>7, <2>1, <2>3, <2>4 DEF LocalTypes
<1>11. CASE p \in Clients /\ PutBlock(p)
  <2>1. /\ pc[p] = "blocks" /\ UNCHANGED <<made, commits, row, fs, files, head, heads>>
    BY <1>1, <1>11, PutBlockShape
  <2>2. PICK b \in todo[p] :
          /\ WriteBlock(b)
          /\ Local(p, "blocks", tree[p], up[p], seen[p], target[p], todo[p] \ {b}, started[p])
    BY <1>1, <1>11, PutBlockShape
  <2>3. b \in Blocks /\ todo[p] \ {b} \in Trees
    BY <1>3 DEF Trees
  <2>4. BlockTypes'
    BY <1>1, <1>2, <2>2, <2>3, WriteTyped
  <2>5. UploadTypes' /\ PointersInv'
    BY <1>8, <1>11, <2>1, <2>2, <2>3
  <2> QED
    BY <1>6, <2>1, <2>4, <2>5 DEF LocalTypes
<1>12. CASE p \in Clients /\ StartUpdate(p)
  <2>1. /\ pc[p] = "blocks" /\ UNCHANGED <<made, commits, row, fs, files, disk, mtime, head, heads>>
        /\ \/ Local(p, "fs", tree[p], up[p], seen[p], target[p], todo[p], started[p])
           \/ Local(p, "blocks", tree[p], up[p], seen[p], target[p],
                     Checked(tree[p], row[up[p]].parent) \ disk, started[p])
           \/ Local(p, "loop", tree[p], up[p], seen[p], target[p], todo[p], started[p])
           \/ Finish(p)
    BY <1>1, <1>12, StartUpdateShape
  <2>2. Checked(tree[p], row[up[p]].parent) \ disk \in Trees
    BY <1>3 DEF Trees, Checked
  <2>3. UploadTypes' /\ PointersInv'
    BY <1>1, <1>3, <1>8, <1>12, <2>1, <2>2, FinishTyped
  <2> QED
    BY <1>6, <1>7, <2>1, <2>3 DEF LocalTypes
<1>13. CASE p \in Clients /\ ReadHead(p)
  <2>1. /\ pc[p] = "loop" /\ UNCHANGED <<disk, mtime, head, heads>>
        /\ \/ /\ UNCHANGED <<made, commits, row, fs, files>>
              /\ Local(p, "cas", tree[p], up[p], head, up[p], todo[p], started[p])
           \/ \E m \in SUBSET (RootOf(head) \cup tree[p]) :
                m \ RootOf(head) \subseteq disk /\ Commit(p, m)
           \/ Finish(p) /\ UNCHANGED <<made, commits, row, fs, files>>
    BY <1>1, <1>13, ReadHeadShape
  <2>2. CASE \E m \in SUBSET (RootOf(head) \cup tree[p]) : Commit(p, m)
    <3>1. PICK m \in SUBSET (RootOf(head) \cup tree[p]) : Commit(p, m)
      BY <2>2
    <3>2. m \in Trees
      BY <1>1, <1>2, <1>3, RootTyped DEF Trees
    <3> QED
      BY <1>2, <1>5, <1>13, <2>1, <3>1, <3>2, CommitTyped
  <2>3. CASE /\ UNCHANGED <<made, commits, row, fs, files>>
             /\ Local(p, "cas", tree[p], up[p], head, up[p], todo[p], started[p])
    <3>1. "cas" \in PcValues /\ up[p] \in Ids
      BY <1>4, <1>5, <1>13, <2>1
    <3>2. UploadTypes' /\ PointersInv'
      BY <1>1, <1>2, <1>3, <2>3, <3>1, LocalInv
    <3> QED
      BY <1>6, <1>7, <2>1, <2>3, <3>2 DEF LocalTypes
  <2>4. CASE Finish(p) /\ UNCHANGED <<made, commits, row, fs, files>>
    BY <1>1, <1>6, <1>7, <2>1, <2>4, FinishTyped DEF LocalTypes
  <2> QED
    BY <2>1, <2>2, <2>3, <2>4
<1>14. CASE p \in Clients /\ SwapHead(p)
  <2>1. /\ pc[p] = "cas" /\ UNCHANGED <<made, commits, row, fs, files, disk, mtime>>
        /\ \/ SetHead(target[p]) /\ Finish(p)
           \/ /\ UNCHANGED <<head, heads>>
              /\ \E a \in {"loop", "blocks"} :
                   Local(p, a, tree[p], up[p], seen[p], target[p], todo[p], started[p])
    BY <1>1, <1>14, SwapHeadShape
  <2>2. UploadTypes' /\ PointersInv'
    BY <1>1, <1>3, <1>8, <1>14, <2>1, FinishTyped
  <2>3. StoreTypes'
    BY <1>1, <1>2, <1>5, <2>1 DEF StoreTypes, SetHead
  <2> QED
    BY <1>7, <2>1, <2>2, <2>3 DEF LocalTypes
<1>15. CASE p \in Writers /\ StoreBlock(p)
  <2>1. UNCHANGED <<made, commits, row, fs, files, head, heads>>
    BY <1>1, <1>15, StoreBlockShape
  <2>2. PICK b \in Blocks :
          /\ WriteBlock(b)
          /\ Local(p, "stored", {b}, up[p], seen[p], target[p], todo[p], clock)
    BY <1>1, <1>15, StoreBlockShape
  <2>3. BlockTypes' /\ {b} \in Trees /\ "stored" \in PcValues
    BY <1>1, <1>2, <1>4, <2>2, WriteTyped DEF Trees
  <2>4. UploadTypes' /\ PointersInv'
    BY <1>1, <1>2, <1>3, <2>2, <2>3, LocalInv
  <2> QED
    BY <1>6, <2>1, <2>3, <2>4 DEF LocalTypes
<1>16. CASE p \in Writers /\ CreateFile(p)
  <2>1. /\ UNCHANGED <<disk, mtime, head, heads>>
        /\ \/ Commit(p, RootOf(head) \cup tree[p])
           \/ Finish(p) /\ UNCHANGED <<made, commits, row, fs, files>>
    BY <1>1, <1>16, CreateFileShape
  <2>2. CASE Commit(p, RootOf(head) \cup tree[p])
    <3>1. RootOf(head) \cup tree[p] \in Trees
      BY <1>1, <1>2, <1>3, RootTyped DEF Trees
    <3>2. p \notin Clients
      BY <1>16, GcAssumption
    <3> QED
      BY <1>2, <2>1, <2>2, <3>1, <3>2, CommitTyped
  <2>3. CASE Finish(p) /\ UNCHANGED <<made, commits, row, fs, files>>
    BY <1>1, <1>6, <1>7, <2>1, <2>3, FinishTyped DEF LocalTypes
  <2> QED
    BY <2>1, <2>2, <2>3
<1>17. CASE p \in Writers /\ SwapHeadRest(p)
  <2>1. /\ pc[p] = "cas" /\ UNCHANGED <<made, commits, row, fs, files, disk, mtime>> /\ Finish(p)
        /\ SetHead(target[p]) \/ UNCHANGED <<head, heads>>
    BY <1>17, SwapHeadRestShape
  <2>2. StoreTypes'
    BY <1>1, <1>2, <1>5, <2>1 DEF StoreTypes, SetHead
  <2>3. UploadTypes' /\ PointersInv'
    BY <1>1, <2>1, FinishTyped
  <2> QED
    BY <1>7, <2>1, <2>2, <2>3 DEF LocalTypes
<1>18. CASE Abandon(p)
  BY <1>1, <1>6, <1>7, <1>18, FinishTyped DEF Abandon, LocalTypes
<1> QED
  BY <1>9, <1>10, <1>11, <1>12, <1>13, <1>14, <1>15, <1>16, <1>17, <1>18 DEF ClientStep, WriterStep

LEMMA PassStepTypes ==
  ASSUME TypeOK, GcStep
  PROVE  StoreTypes' /\ BlockTypes' /\ PassTypes' /\ UNCHANGED Others
<1>1. StoreTypes /\ BlockTypes /\ PassTypes
  BY TypeParts
<1>2. UNCHANGED Others
  BY DEF GcStep, GcStart, GcReadCommits, GcWalk, GcPruneFs, GcPruneCommits, GcList,
         GcVerifyHead, GcDelete, GcEnd, GcStop
<1>3. UNCHANGED <<clock, made, row, head, heads>>
  BY <1>2 DEF Others
<1>4. ASSUME commits' \subseteq commits, fs' \subseteq fs, files' \subseteq files
      PROVE  StoreTypes'
  BY <1>1, <1>3, <1>4 DEF StoreTypes
<1>5. ASSUME UNCHANGED <<disk, mtime>>
      PROVE  BlockTypes'
  BY <1>1, <1>5 DEF BlockTypes
<1>6. CASE GcStart
  BY <1>1, <1>2, <1>4, <1>5, <1>6 DEF GcStart, PassTypes, StoreTypes
<1>7. ASSUME EndPass, UNCHANGED <<commits, fs, files, disk, mtime>>
      PROVE  StoreTypes' /\ BlockTypes' /\ PassTypes'
  BY <1>1, <1>4, <1>5, <1>7, EndPassTyped
<1>8. CASE GcReadCommits
  <2>1. CASE EndPass
    BY <1>2, <1>7, <1>8, <2>1 DEF GcReadCommits
  <2>2. CASE /\ glist' = commits /\ gkeep' = KeepCommits(commits, gnow) /\ gpc' = "walk"
             /\ UNCHANGED <<gnow, ghead, greach, gfiles, galive, gwhole, orphans, passes>>
    <3>1. gkeep' \subseteq glist' /\ glist' \subseteq Ids
      BY <1>1, <2>2 DEF KeepCommits, StoreTypes
    <3>2. PassTypes'
      BY <1>1, <2>2, <3>1 DEF PassTypes
    <3> QED
      BY <1>2, <1>4, <1>5, <1>8, <3>2 DEF GcReadCommits
  <2> QED
    BY <1>8, <2>1, <2>2 DEF GcReadCommits
<1>9. CASE GcWalk
  <2>1. gkeep \subseteq Ids
    BY <1>1 DEF PassTypes
  <2>2. \A k \in gkeep : row[k].root \in Trees /\ row[k].root \subseteq Blocks
    BY <1>1, <2>1, RootTyped DEF Trees
  <2>3. /\ greach' \subseteq Trees /\ gfiles' \subseteq Blocks /\ galive' \subseteq Blocks
        /\ gwhole' \subseteq gkeep
    BY <1>9, <2>2 DEF GcWalk, ReachableRoots, ReachableFiles, AliveBlocks, Below
  <2>4. gpc' \in {"pruneFs", "list"} /\ UNCHANGED <<gnow, ghead, glist, gkeep, orphans, passes>>
    BY <1>9 DEF GcWalk
  <2>5. PassTypes'
    BY <1>1, <2>3, <2>4 DEF PassTypes
  <2> QED
    BY <1>2, <1>4, <1>5, <1>9, <2>5 DEF GcWalk
<1>10. CASE GcPruneFs
  BY <1>1, <1>2, <1>4, <1>5, <1>10 DEF GcPruneFs, PassTypes
<1>11. CASE GcPruneCommits
  BY <1>1, <1>2, <1>4, <1>5, <1>11 DEF GcPruneCommits, PassTypes
<1>12. CASE GcList
  BY <1>1, <1>2, <1>4, <1>5, <1>12 DEF GcList, PassTypes, BlockTypes
<1>13. CASE GcVerifyHead
  <2>1. CASE EndPass
    BY <1>2, <1>7, <1>13, <2>1 DEF GcVerifyHead
  <2>2. CASE gpc' = "delete" /\ UNCHANGED <<gnow, ghead, glist, gkeep, greach, gfiles, galive, gwhole, orphans, passes>>
    BY <1>1, <1>2, <1>4, <1>5, <1>13, <2>2 DEF GcVerifyHead, PassTypes
  <2> QED
    BY <1>13, <2>1, <2>2 DEF GcVerifyHead
<1>14. CASE GcDelete
  <2>1. PICK b \in orphans :
          /\ orphans' = orphans \ {b}
          /\ disk' = IF Fresh(b) THEN disk ELSE disk \ {b}
          /\ mtime' = IF Fresh(b) THEN mtime ELSE [mtime EXCEPT ![b] = 0]
    BY <1>14 DEF GcDelete
  <2>2. BlockTypes'
    BY <1>1, <2>1, Small DEF BlockTypes
  <2>3. PassTypes'
    BY <1>1, <1>14, <2>1 DEF PassTypes, GcDelete
  <2> QED
    BY <1>2, <1>4, <1>14, <2>2, <2>3 DEF GcDelete
<1>15. CASE GcEnd
  BY <1>2, <1>7, <1>15 DEF GcEnd
<1>16. CASE GcStop
  BY <1>2, <1>7, <1>16 DEF GcStop
<1> QED
  BY <1>6, <1>8, <1>9, <1>10, <1>11, <1>12, <1>13, <1>14, <1>15, <1>16 DEF GcStep

LEMMA NextTypes ==
  ASSUME TypeInv, [Next]_vars
  PROVE  TypeInv'
<1>1. StoreTypes /\ BlockTypes /\ UploadTypes /\ PassTypes /\ PointersInv /\ TypeOK
  BY TypeParts DEF TypeInv
<1>2. LocalTypes
  BY <1>1 DEF LocalTypes
<1>3. ASSUME UNCHANGED uploadVars
      PROVE  UploadTypes' /\ PointersInv'
  BY <1>1, <1>3 DEF UploadTypes, PointersInv
<1>4. CASE Tick
  <2>1. clock' \in Time
    BY <1>1, <1>4, GcAssumption DEF Tick, StoreTypes, Time
  <2>2. StoreTypes'
    BY <1>1, <1>4, <2>1 DEF Tick, StoreTypes
  <2>3. BlockTypes' /\ PassTypes'
    BY <1>1, <1>4 DEF Tick, BlockTypes, PassTypes
  <2> QED
    BY <1>3, <1>4, <2>2, <2>3, TypePartsNext DEF Tick, TypeInv
<1>5. ASSUME NEW p \in Procs,
             \/ p \in Clients /\ ClientStep(p)
             \/ p \in Writers /\ WriterStep(p)
             \/ Abandon(p)
      PROVE  TypeInv'
  <2>1. UNCHANGED <<clock, gcVars>> /\ abandoned' \in Nat
    BY <1>1, <1>5, UploadFrame
  <2>2. LocalTypes'
    BY <1>2, <1>5, <2>1, StepTypes
  <2>3. PassTypes'
    BY <1>1, <2>1 DEF PassTypes
  <2> QED
    BY <2>2, <2>3, TypePartsNext DEF LocalTypes, TypeInv
<1>6. CASE GcStep
  <2>1. UNCHANGED uploadVars
    BY <1>1, <1>6, PassStepTypes DEF Others
  <2> QED
    BY <1>1, <1>3, <1>6, <2>1, PassStepTypes, TypePartsNext DEF TypeInv
<1>7. CASE UNCHANGED vars
  BY <1>1, <1>7 DEF TypeInv, TypeOK, PointersInv
<1> QED
  BY <1>4, <1>5, <1>6, <1>7 DEF Next, Procs

LEMMA InitTypeInv == Init => TypeInv
<1>1. ASSUME Init
      PROVE  PointersInv
  BY <1>1 DEF Init, PointersInv
<1> QED
  BY <1>1, InitTypes DEF TypeInv

LEMMA TypeInvariance == Spec => []TypeInv
<1>1. TypeInv /\ [Next]_vars => TypeInv'
  BY NextTypes
<1> QED
  BY <1>1, InitTypeInv, PTL DEF Spec

(* The store, the uploads and the collector keep their types.  That the    *)
(* commits that become HEAD are rows needs the pointers of the uploads.    *)
THEOREM TypeCorrectness == Spec => []TypeOK
BY TypeInvariance, PTL DEF TypeInv

-----------------------------------------------------------------------------
(* Retained trees, whatever the retention settings *)

(* No step of an upload takes anything away, and rows are written once. *)
Grows ==
  /\ commits' = commits \cup (made + 1 .. made') /\ disk \subseteq disk'
  /\ fs \subseteq fs' /\ files \subseteq files'
  /\ heads \subseteq heads' /\ made <= made'
  /\ \A k \in 1 .. made : row'[k] = row[k]
  /\ \A b \in disk : mtime'[b] = mtime[b]
  /\ \A b \in disk' \ disk : mtime'[b] = clock
  /\ UNCHANGED <<clock, gcVars>>

LEMMA InsertGrows ==
  ASSUME StoreTypes, NEW t, NEW parent, NEW ctime, InsertCommit(t, parent, ctime)
  PROVE  /\ made' = made + 1 /\ made <= made'
         /\ commits' = commits \cup (made + 1 .. made')
         /\ \A k \in 1 .. made : row'[k] = row[k]
<1>1. made \in Nat /\ made' = made + 1 /\ commits' = commits \cup {made + 1}
  BY GcAssumption DEF StoreTypes, InsertCommit
<1>2. PICK r : row' = [row EXCEPT ![made + 1] = r]
  BY Zenon DEF InsertCommit
<1>3. \A k \in 1 .. made : k \in Ids /\ k # made + 1
  BY <1>1, GcAssumption DEF StoreTypes, Ids
<1>4. \A k \in 1 .. made : row'[k] = row[k]
  BY <1>2, <1>3 DEF StoreTypes
<1> QED
  BY <1>1, <1>4

LEMMA WriteGrows ==
  ASSUME BlockTypes, NEW b \in Blocks, WriteBlock(b)
  PROVE  /\ disk \subseteq disk'
         /\ \A x \in disk : mtime'[x] = mtime[x]
         /\ \A x \in disk' \ disk : mtime'[x] = clock
BY DEF BlockTypes, WriteBlock

LEMMA StepGrows ==
  ASSUME TypeInv, NEW p \in Procs,
         \/ p \in Clients /\ ClientStep(p)
         \/ p \in Writers /\ WriterStep(p)
         \/ Abandon(p)
  PROVE  Grows
<1>1. StoreTypes /\ BlockTypes /\ UploadTypes /\ TypeOK
  BY TypeParts DEF TypeInv
<1>2. UNCHANGED <<clock, gcVars>>
  BY <1>1, UploadFrame
<1>3. made \in Nat /\ todo[p] \subseteq Blocks
  BY <1>1 DEF StoreTypes, UploadTypes, Trees
<1>4. ASSUME UNCHANGED <<disk, mtime>>
      PROVE  /\ disk \subseteq disk'
             /\ \A x \in disk : mtime'[x] = mtime[x]
             /\ \A x \in disk' \ disk : mtime'[x] = clock
  BY <1>4
<1>5. ASSUME UNCHANGED <<made, commits, row>>
      PROVE  /\ commits' = commits \cup (made + 1 .. made') /\ made <= made'
             /\ \A k \in 1 .. made : row'[k] = row[k]
  BY <1>3, <1>5
<1>6. CASE PutCommit(p)
  BY <1>1, <1>2, <1>4, <1>6, PutCommitShape, InsertGrows DEF Grows
<1>7. CASE RecvFs(p)
  BY <1>1, <1>2, <1>4, <1>5, <1>7, RecvFsShape DEF Grows, Packed
<1>8. CASE PutBlock(p)
  BY <1>1, <1>2, <1>3, <1>5, <1>8, PutBlockShape, WriteGrows DEF Grows
<1>9. CASE StartUpdate(p)
  BY <1>1, <1>2, <1>4, <1>5, <1>9, StartUpdateShape DEF Grows
<1>10. CASE ReadHead(p)
  BY <1>1, <1>2, <1>4, <1>5, <1>10, ReadHeadShape, InsertGrows DEF Grows, Commit
<1>11. CASE SwapHead(p)
  BY <1>1, <1>2, <1>4, <1>5, <1>11, SwapHeadShape DEF Grows, SetHead
<1>12. CASE StoreBlock(p)
  BY <1>1, <1>2, <1>3, <1>5, <1>12, StoreBlockShape, WriteGrows DEF Grows
<1>13. CASE CreateFile(p)
  BY <1>1, <1>2, <1>4, <1>5, <1>13, CreateFileShape, InsertGrows DEF Grows, Commit
<1>14. CASE SwapHeadRest(p)
  BY <1>1, <1>2, <1>4, <1>5, <1>14, SwapHeadRestShape DEF Grows, SetHead
<1>15. CASE Abandon(p)
  BY <1>1, <1>2, <1>4, <1>5, <1>15 DEF Grows, Abandon
<1> QED
  BY <1>6, <1>7, <1>8, <1>9, <1>10, <1>11, <1>12, <1>13, <1>14, <1>15 DEF ClientStep, WriterStep

(* Growth keeps what is complete. *)
LEMMA GrowsComplete ==
  ASSUME Grows, NEW k \in 1 .. made, Complete(k)
  PROVE  Complete(k)' /\ row'[k] = row[k]
<1>1. row'[k] = row[k] /\ k \in commits'
  BY DEF Grows, Complete
<1>2. fs \subseteq fs' /\ files \subseteq files' /\ disk \subseteq disk'
  BY DEF Grows
<1> QED
  BY <1>1, <1>2 DEF Complete, RootStored

LEMMA SnapshotStep ==
  ASSUME TypeInv, SnapshotInv, [Next]_vars
  PROVE  SnapshotInv' /\ \A k \in gkeep : RootStored(row[k].root) => RootStored(row[k].root)'
<1>1. StoreTypes /\ BlockTypes /\ PassTypes /\ TypeOK
  BY TypeParts DEF TypeInv
<1>2. made \in Nat
  BY <1>1 DEF StoreTypes
<1>3. /\ commits \subseteq 1 .. made /\ glist \subseteq 1 .. made /\ gkeep \subseteq glist
      /\ gwhole \subseteq gkeep
      /\ gpc = "pruneFs" => \A k \in gkeep : row[k].root \in greach
      /\ gpc \in {"idle", "read", "walk"} => gwhole = {}
      /\ \A k \in gwhole : Complete(k) /\ row[k].root \subseteq gfiles \cap galive
      /\ orphans \cap galive = {}
      /\ gpc \notin {"verify", "delete"} => orphans = {}
  BY DEF SnapshotInv
<1>4. CASE Grows
  <2>1. \A k \in gkeep : k \in 1 .. made /\ row'[k] = row[k]
    BY <1>3, <1>4 DEF Grows
  <2>2. commits' \subseteq 1 .. made' /\ made' \in Nat /\ 1 .. made \subseteq 1 .. made'
    <3>1. made <= made' /\ commits' = commits \cup (made + 1 .. made')
      BY <1>4 DEF Grows
    <3>2. made' \in Nat
      BY NextTypes DEF TypeInv, TypeOK
    <3>3. commits \subseteq 1 .. made
      BY <1>3
    <3> QED
      BY <1>2, <3>1, <3>2, <3>3
  <2>3. UNCHANGED gcVars /\ fs \subseteq fs'
    BY <1>4 DEF Grows
  <2>4. \A k \in gwhole : Complete(k)' /\ row'[k].root \subseteq gfiles \cap galive
    BY <1>3, <1>4, <2>1, GrowsComplete
  <2> QED
    BY <1>3, <2>1, <2>2, <2>3, <2>4 DEF SnapshotInv, RootStored
<1>5. ASSUME UNCHANGED <<made, row, fs, files>>
      PROVE  \A k \in gkeep : RootStored(row[k].root) => RootStored(row[k].root)'
  BY <1>5 DEF RootStored
<1>6. ASSUME UNCHANGED <<made, commits, row>>, EndPass
      PROVE  SnapshotInv'
  BY <1>3, <1>6 DEF EndPass, SnapshotInv
<1>7. ASSUME UNCHANGED <<made, row, glist, gkeep, marks>>, commits' \subseteq commits,
             gpc' # "pruneFs", gpc' \in {"idle", "read", "walk"} => gwhole = {},
             \A k \in gwhole : Complete(k)', orphans' \cap galive = {},
             gpc' \notin {"verify", "delete"} => orphans' = {}
      PROVE  SnapshotInv'
  BY <1>3, <1>7 DEF SnapshotInv
<1>8. ASSUME UNCHANGED <<row, commits, fs, files, disk>>
      PROVE  \A k \in gwhole : Complete(k)'
  BY <1>3, <1>8 DEF Complete, RootStored
<1>9. CASE Tick \/ UNCHANGED vars
  <2>1. UNCHANGED <<store, blockVars, gcVars>>
    BY <1>9 DEF Tick
  <2> QED
    BY <1>3, <1>5, <1>8, <2>1 DEF SnapshotInv
<1>10. CASE GcStart
  BY <1>3, <1>5, <1>7, <1>8, <1>10 DEF GcStart, Others
<1>11. CASE GcReadCommits
  <2>1. CASE EndPass
    BY <1>5, <1>6, <1>11, <2>1 DEF GcReadCommits, Others
  <2>2. CASE /\ glist' = commits /\ gkeep' = KeepCommits(commits, gnow) /\ gpc' = "walk"
             /\ UNCHANGED <<marks, orphans>>
    <3>1. /\ gkeep' \subseteq glist' /\ UNCHANGED <<made, commits, row, fs, files>>
          /\ gpc = "read"
      BY <1>11, <2>2 DEF KeepCommits, GcReadCommits, Others
    <3> QED
      BY <1>3, <1>5, <2>2, <3>1 DEF SnapshotInv
  <2> QED
    BY <1>11, <2>1, <2>2 DEF GcReadCommits
<1>12. CASE GcWalk
  <2>1. /\ gpc = "walk" /\ UNCHANGED <<made, commits, row, fs, files, disk, glist, gkeep, orphans>>
        /\ greach' = {row[k].root : k \in gkeep} /\ gwhole' = {k \in gkeep : Complete(k)}
        /\ gfiles' = Below(gkeep) /\ galive' = Below(gkeep) \cap files
        /\ gpc' \in {"pruneFs", "list"}
    BY <1>12 DEF GcWalk, Others, ReachableRoots, ReachableFiles, AliveBlocks
  <2>2. ASSUME NEW k \in gwhole'
        PROVE  Complete(k)' /\ row[k].root \subseteq gfiles' \cap galive'
    <3>1. k \in gkeep /\ Complete(k)
      BY <2>1, <2>2
    <3>2. row[k].root \subseteq Below(gkeep) /\ row[k].root \subseteq files
      BY <3>1 DEF Below, Complete
    <3> QED
      BY <2>1, <3>1, <3>2 DEF Complete, RootStored
  <2> QED
    BY <1>3, <1>5, <2>1, <2>2 DEF SnapshotInv
<1>13. CASE GcPruneFs
  <2>1. /\ UNCHANGED <<made, commits, row, disk, glist, gkeep, marks, orphans>>
        /\ gpc' = "pruneCommits" /\ gpc = "pruneFs"
        /\ fs' = fs \cap greach /\ files' = files \cap gfiles
    BY <1>13 DEF GcPruneFs, Others
  <2>2. \A k \in gkeep : RootStored(row[k].root) => RootStored(row[k].root)'
    BY <1>3, <2>1 DEF RootStored
  <2>3. \A k \in gwhole : Complete(k)'
    BY <1>3, <2>1, <2>2 DEF Complete, RootStored
  <2> QED
    BY <1>3, <1>7, <2>1, <2>2, <2>3
<1>14. CASE GcPruneCommits
  <2>1. /\ UNCHANGED <<made, row, fs, files, disk, glist, gkeep, marks, orphans>>
        /\ gpc' = "list" /\ gpc = "pruneCommits" /\ commits' = commits \ (glist \ gkeep)
    BY <1>14 DEF GcPruneCommits, Others
  <2>2. \A k \in gwhole : Complete(k)'
    BY <1>3, <2>1 DEF Complete, RootStored
  <2> QED
    BY <1>3, <1>5, <1>7, <2>1, <2>2
<1>15. CASE GcList
  BY <1>3, <1>5, <1>7, <1>8, <1>15 DEF GcList, Others
<1>16. CASE GcVerifyHead
  <2>1. CASE EndPass
    BY <1>5, <1>6, <1>16, <2>1 DEF GcVerifyHead, Others
  <2>2. CASE gpc' = "delete" /\ UNCHANGED <<glist, gkeep, marks, orphans>>
    BY <1>3, <1>5, <1>7, <1>8, <1>16, <2>2 DEF GcVerifyHead, Others
  <2> QED
    BY <1>16, <2>1, <2>2 DEF GcVerifyHead
<1>17. CASE GcDelete
  <2>1. PICK b \in orphans :
          orphans' = orphans \ {b} /\ disk' = IF Fresh(b) THEN disk ELSE disk \ {b}
    BY <1>17 DEF GcDelete
  <2>2. /\ UNCHANGED <<made, commits, row, fs, files, glist, gkeep, marks, gpc>> /\ gpc = "delete"
    BY <1>17 DEF GcDelete, Others
  <2>3. \A k \in gwhole : Complete(k)'
    BY <1>3, <2>1, <2>2 DEF Complete, RootStored
  <2> QED
    BY <1>3, <1>5, <1>7, <2>1, <2>2, <2>3
<1>18. CASE GcEnd \/ GcStop
  BY <1>5, <1>6, <1>18 DEF GcEnd, GcStop, Others
<1> QED
  BY <1>4, <1>9, <1>10, <1>11, <1>12, <1>13, <1>14, <1>15, <1>16, <1>17, <1>18, StepGrows
  DEF Next, GcStep, Procs

LEMMA SnapshotInvariance == Spec => [](TypeInv /\ SnapshotInv)
<1>1. Init => SnapshotInv
  <2>1. ASSUME Init
        PROVE  SnapshotInv
    <3>1. /\ commits \subseteq 1 .. made /\ glist = {} /\ gkeep = {} /\ gpc = "idle"
          /\ gwhole = {} /\ orphans = {}
      BY <2>1 DEF Init
    <3> QED
      BY <3>1 DEF SnapshotInv
  <2> QED
    BY <2>1
<1>2. TypeInv /\ SnapshotInv /\ [Next]_vars => SnapshotInv'
  BY SnapshotStep
<1> QED
  BY <1>1, <1>2, TypeInvariance, PTL DEF Spec

(* What a pass retains and found complete when it walked, row, root, file   *)
(* objects and blocks, is complete until the pass ends: neither the pruning *)
(* nor the deletions take anything of it, whatever the retention settings,  *)
(* the clocks and the number of uploads.                                    *)
THEOREM TreesAreRetained == Spec => []RetainedTreesKept
<1>1. SnapshotInv => RetainedTreesKept
  BY DEF SnapshotInv, RetainedTreesKept
<1> QED
  BY <1>1, SnapshotInvariance, PTL

(* Pruning never takes the root of a commit it retains, not even one that   *)
(* arrives after the walk.                                                  *)
THEOREM LateRootsAreKept == Spec => LateRootsKept
<1>1. TypeInv /\ SnapshotInv /\ [Next]_vars =>
        [\A k \in gkeep : RootStored(row[k].root) => RootStored(row[k].root)']_vars
  BY SnapshotStep
<1>2. Spec => [][\A k \in gkeep : RootStored(row[k].root) => RootStored(row[k].root)']_vars
  BY <1>1, SnapshotInvariance, PTL DEF Spec
<1> QED
  BY <1>2 DEF LateRootsKept

-----------------------------------------------------------------------------
(* What a pass collects *)

LEMMA ListStep ==
  ASSUME TypeInv, ListInv, [Next]_vars, MinBlockAge > 0
  PROVE  ListInv' /\ Collects
<1>1. StoreTypes /\ BlockTypes /\ PassTypes /\ TypeOK
  BY TypeParts DEF TypeInv
<1>2. /\ clock \in Nat /\ gnow \in Nat /\ MinBlockAge \in Nat /\ disk \subseteq Blocks
      /\ \A b \in Blocks : mtime[b] \in Nat
  BY <1>1, Small, GcAssumption DEF StoreTypes, PassTypes, BlockTypes
<1>3. /\ gpc # "idle" => gnow <= clock
      /\ gpc \in {"verify", "delete"} =>
           \A b \in disk : b \in galive \/ b \in orphans \/ gnow - mtime[b] < MinBlockAge
  BY DEF ListInv
<1>4. CASE Grows
  <2>1. UNCHANGED <<clock, gpc, gnow, galive, orphans>>
    BY <1>4 DEF Grows
  <2>2. ASSUME NEW b \in disk', gpc \in {"verify", "delete"}
        PROVE  b \in galive \/ b \in orphans \/ gnow - mtime'[b] < MinBlockAge
    <3>1. CASE b \in disk
      BY <1>3, <1>4, <2>2, <3>1 DEF Grows
    <3>2. CASE b \notin disk
      <4>1. mtime'[b] = clock /\ gnow <= clock
        BY <1>3, <1>4, <2>2, <3>2 DEF Grows
      <4> QED
        BY <1>2, <4>1
    <3> QED
      BY <3>1, <3>2
  <2> QED
    BY <1>3, <2>1, <2>2 DEF ListInv, Collects
<1>5. CASE Tick
  <2>1. clock' = clock + 1 /\ UNCHANGED <<gpc, gnow, disk, mtime, galive, orphans>>
    BY <1>5 DEF Tick
  <2>2. gpc # "idle" => gnow <= clock'
    BY <1>2, <1>3, <2>1
  <2> QED
    BY <1>3, <2>1, <2>2 DEF ListInv, Collects
<1>6. CASE UNCHANGED vars
  BY <1>3, <1>6 DEF ListInv, Collects
<1>7. CASE GcStart
  BY <1>2, <1>7 DEF GcStart, Others, ListInv, Collects
<1>8. ASSUME EndPass, ~(gpc = "delete" /\ orphans = {})
      PROVE  ListInv' /\ Collects
  BY <1>8 DEF EndPass, ListInv, Collects
<1>9. ASSUME UNCHANGED <<clock, gnow>>, gpc # "idle", gpc' \notin {"idle", "verify", "delete"}
      PROVE  ListInv' /\ Collects
  BY <1>3, <1>9 DEF ListInv, Collects
<1>10. CASE GcReadCommits
  BY <1>8, <1>9, <1>10 DEF GcReadCommits, Others
<1>11. CASE GcWalk \/ GcPruneFs \/ GcPruneCommits
  BY <1>9, <1>11 DEF GcWalk, GcPruneFs, GcPruneCommits, Others
<1>12. CASE GcList
  BY <1>3, <1>12 DEF GcList, Others, ListInv, Collects
<1>13. CASE GcVerifyHead
  <2>1. CASE EndPass
    BY <1>8, <1>13, <2>1 DEF GcVerifyHead
  <2>2. CASE gpc' = "delete" /\ UNCHANGED <<gnow, galive, orphans>>
    BY <1>3, <1>13, <2>2 DEF GcVerifyHead, Others, ListInv, Collects
  <2> QED
    BY <1>13, <2>1, <2>2 DEF GcVerifyHead
<1>14. CASE GcDelete
  <2>1. PICK b \in orphans :
          /\ orphans' = orphans \ {b}
          /\ disk' = IF Fresh(b) THEN disk ELSE disk \ {b}
          /\ mtime' = IF Fresh(b) THEN mtime ELSE [mtime EXCEPT ![b] = 0]
    BY <1>14 DEF GcDelete
  <2>2. gpc = "delete" /\ UNCHANGED <<clock, gpc, gnow, galive>>
    BY <1>14 DEF GcDelete, Others
  <2>3. ASSUME NEW x \in disk'
        PROVE  x \in galive \/ x \in orphans' \/ gnow - mtime'[x] < MinBlockAge
    <3>1. x \in disk /\ mtime'[x] = mtime[x]
      BY <1>1, <1>2, <2>1, <2>3 DEF BlockTypes
    <3>2. CASE x = b
      BY <2>1, <2>3, <3>1, <3>2 DEF Fresh
    <3>3. CASE x # b
      BY <1>3, <2>1, <2>2, <3>1, <3>3
    <3> QED
      BY <3>2, <3>3
  <2> QED
    BY <1>3, <2>2, <2>3 DEF ListInv, Collects
<1>15. CASE GcEnd
  <2>1. \A b \in disk : b \in galive \/ gnow - mtime[b] < MinBlockAge
    BY <1>3, <1>15 DEF GcEnd
  <2> QED
    BY <1>15, <2>1 DEF GcEnd, EndPass, ListInv, Collects
<1>16. CASE GcStop
  BY <1>8, <1>16 DEF GcStop
<1> QED
  BY <1>4, <1>5, <1>6, <1>7, <1>10, <1>11, <1>12, <1>13, <1>14, <1>15, <1>16, StepGrows
  DEF Next, GcStep, Procs

(* A pass that comes to its end leaves only live blocks and blocks inside   *)
(* the grace window, whatever was uploaded beside it, for every window      *)
(* longer than nothing.                                                     *)
THEOREM GarbageIsCollected ==
  ASSUME MinBlockAge > 0
  PROVE  Spec => [][Collects]_vars
<1>1. Init => ListInv
  BY DEF Init, ListInv
<1>2. TypeInv /\ ListInv /\ [Next]_vars => ListInv'
  BY ListStep
<1>3. TypeInv /\ ListInv /\ [Next]_vars => [Collects]_vars
  BY ListStep
<1>4. Spec => [](TypeInv /\ ListInv)
  BY <1>1, <1>2, TypeInvariance, PTL DEF Spec
<1> QED
  BY <1>3, <1>4, PTL DEF Spec

-----------------------------------------------------------------------------
(* Every past HEAD of a library with unlimited history *)

TreesReferenced == \A t \in fs : t \cap files \subseteq Referenced

LEMMA StoredIsReferenced == StoreInv => TreesReferenced
BY DEF StoreInv, TreesReferenced, Referenced, Below, RootStored

LEMMA StoredIsReferencedNext == StoreInv' => TreesReferenced'
BY StoredIsReferenced, PTL

(* What is spared. *)
LEMMA ReferencedSpared ==
  ASSUME SparedInv, NEW b \in Referenced, b \in disk
  PROVE  Spared(b)
<1>1. PICK k \in commits : RootStored(row[k].root) /\ b \in row[k].root /\ b \in files
  BY DEF Referenced, Below
<1>2. row[k].root \in fs
  BY <1>1 DEF RootStored
<1> QED
  BY <1>1, <1>2 DEF SparedInv

LEMMA UploadSpared ==
  ASSUME TypeInv, Grace, SparedInv, UploadInv, NEW p \in Procs, Active(p),
         NEW b \in tree[p], b \in disk, gpc # "idle"
  PROVE  Spared(b)
<1>1. b \in Referenced \/ mtime[b] >= started[p]
  BY DEF UploadInv, Young
<1>2. CASE mtime[b] >= started[p]
  <2>1. /\ gnow \in Nat /\ started[p] \in Nat /\ mtime[b] \in Nat
        /\ MaxUploadTime \in Nat /\ MinBlockAge \in Nat
    BY GcAssumption, Small DEF TypeInv, TypeOK
  <2>2. gnow - started[p] <= MaxUploadTime /\ MaxUploadTime < MinBlockAge
    BY DEF UploadInv, InTime, Grace
  <2>3. gnow - mtime[b] < MinBlockAge
    BY <1>2, <2>1, <2>2
  <2> QED
    BY <2>3 DEF Spared
<1> QED
  BY <1>1, <1>2, ReferencedSpared

LEMMA HeadRoot ==
  ASSUME StoreInv, NEW k \in heads \cup {NoCommit}
  PROVE  /\ RootOf(k) \subseteq files \cap disk
         /\ \A b \in RootOf(k) : b \in Referenced
<1>1. CASE k = NoCommit
  BY <1>1 DEF RootOf
<1>2. CASE k # NoCommit
  <2>1. k \in heads /\ k \in commits /\ RootOf(k) = row[k].root
    BY <1>2 DEF StoreInv, RootOf
  <2>2. RootStored(row[k].root) /\ row[k].root \subseteq files \cap disk
    BY <2>1 DEF StoreInv, Complete
  <2> QED
    BY <2>1, <2>2 DEF Referenced, Below
<1> QED
  BY <1>1, <1>2

(* Growth keeps what is complete, referenced and spared. *)
LEMMA GrowsKeeps ==
  ASSUME Grows, StoreInv, PassInv
  PROVE  /\ commits \subseteq commits' /\ \A k \in commits : row'[k] = row[k]
         /\ \A k \in commits : Complete(k) => Complete(k)'
         /\ Referenced \subseteq Referenced'
         /\ \A b \in disk : Spared(b) => Spared(b)'
<1>1. commits \subseteq commits' /\ \A k \in commits : row'[k] = row[k]
  BY DEF Grows, StoreInv
<1>2. \A t : RootStored(t) => t = {} \/ t \in fs'
  BY DEF Grows, RootStored
<1>3. \A k \in commits : Complete(k) => Complete(k)'
  BY <1>1, <1>2 DEF Grows, Complete, RootStored
<1>4. Referenced \subseteq Referenced'
  <2>1. SUFFICES ASSUME NEW b \in Referenced
                 PROVE  b \in Referenced'
    OBVIOUS
  <2>2. PICK k \in commits : RootStored(row[k].root) /\ b \in row[k].root
    BY DEF Referenced, Below
  <2>3. k \in commits' /\ b \in row'[k].root /\ (row'[k].root = {} \/ row'[k].root \in fs')
    BY <1>1, <1>2, <2>2
  <2>4. b \in files'
    BY DEF Referenced, Grows
  <2> QED
    BY <2>3, <2>4 DEF Referenced, Below, RootStored
<1>5. gkeep \subseteq commits /\ UNCHANGED <<gpc, gnow, gkeep, galive>>
  BY DEF PassInv, Grows
<1>6. AliveBlocks(gkeep) \subseteq AliveBlocks(gkeep)'
  <2>1. SUFFICES ASSUME NEW b \in AliveBlocks(gkeep)
                 PROVE  b \in AliveBlocks(gkeep)'
    OBVIOUS
  <2>2. PICK k \in gkeep : RootStored(row[k].root) /\ b \in row[k].root
    BY DEF AliveBlocks, ReachableFiles, Below
  <2>3. k \in gkeep' /\ b \in row'[k].root /\ (row'[k].root = {} \/ row'[k].root \in fs')
    BY <1>1, <1>2, <1>5, <2>2
  <2>4. b \in files'
    BY DEF AliveBlocks, Grows
  <2> QED
    BY <2>3, <2>4 DEF AliveBlocks, ReachableFiles, Below, RootStored
<1>7. Alive \subseteq Alive'
  BY <1>4, <1>5, <1>6 DEF Alive
<1>8. \A b \in disk : mtime'[b] = mtime[b]
  BY DEF Grows
<1>9. \A b \in disk : Spared(b) => Spared(b)'
  BY <1>5, <1>7, <1>8 DEF Spared
<1> QED
  BY <1>1, <1>3, <1>4, <1>9

(* An upload's step keeps the invariant, given what it does to the store    *)
(* and to the locals of its own.                                            *)
LEMMA GrowStep ==
  ASSUME TypeInv, TypeInv', Grace, HistoryInv, Grows, NEW p \in Procs, OtherLocals(p),
         \A t \in fs' \ fs : \E k \in commits' : row'[k].root = t,
         \A t \in fs' : \A b \in t \cap files' \cap disk :
           (t \in fs /\ b \in files) \/ (gpc # "idle" => Spared(b)),
         \A k \in commits' \ commits : row'[k].parent = head,
         UNCHANGED <<head, heads>> \/ \E k \in commits : SetHead(k) /\ Complete(k),
         Established(p)', InTime(p)', Young(p)'
  PROVE  HistoryInv'
<1>1. StoreInv /\ UploadInv /\ SparedInv /\ PassInv
  BY DEF HistoryInv
<1>2. /\ commits \subseteq commits' /\ \A k \in commits : row'[k] = row[k]
      /\ \A k \in commits : Complete(k) => Complete(k)'
      /\ Referenced \subseteq Referenced'
      /\ \A b \in disk : Spared(b) => Spared(b)'
  BY <1>1, GrowsKeeps
<1>3. /\ made \in Nat /\ made' \in Nat /\ made <= made' /\ clock \in Nat /\ gnow \in Nat
      /\ MaxUploadTime \in Nat /\ MinBlockAge \in Nat
  BY GcAssumption, Small DEF TypeInv, TypeOK, Grows
<1>4. StoreInv'
  <2>1. commits' = 1 .. made'
    <3>1. commits' = (1 .. made) \cup (made + 1 .. made')
      BY <1>1 DEF Grows, StoreInv
    <3> QED
      BY <1>3, <3>1
  <2>2. \A t \in fs' : t = {} \/ \E k \in commits' : row'[k].root = t
    BY <1>1, <1>2 DEF StoreInv
  <2>3. /\ heads \subseteq heads' /\ head' \in heads' \cup {NoCommit} /\ heads' \subseteq commits'
        /\ \A k \in heads' : k \in heads \/ (k \in commits /\ Complete(k))
    BY <1>1, <1>2 DEF StoreInv, SetHead
  <2>4. \A k \in heads' : Complete(k)'
    BY <1>1, <1>2, <2>3 DEF StoreInv
  <2>5. \A k \in commits' : row'[k].parent \in heads' \cup {NoCommit}
    BY <1>1, <1>2, <2>3 DEF StoreInv
  <2> QED
    BY <2>1, <2>2, <2>3, <2>4, <2>5 DEF StoreInv
<1>5. PassInv'
  BY <1>1, <1>2 DEF PassInv, Grows
<1>6. SparedInv'
  <2>1. SUFFICES ASSUME NEW t \in fs', NEW b \in t, b \in files', b \in disk'
                 PROVE  Spared(b)'
    BY DEF SparedInv
  <2>2. CASE gpc \in {"idle", "read"}
    <3>1. b \in Referenced'
      BY <1>4, <2>1, StoredIsReferencedNext DEF TreesReferenced
    <3>2. gpc' \in {"idle", "read"}
      BY <2>2 DEF Grows
    <3> QED
      BY <3>1, <3>2 DEF Spared, Alive
  <2>3. CASE gpc \notin {"idle", "read"} /\ b \in disk
    <3>1. Spared(b)
      BY <1>1, <2>1, <2>3 DEF SparedInv
    <3> QED
      BY <1>2, <2>3, <3>1
  <2>4. CASE gpc \notin {"idle", "read"} /\ b \notin disk
    <3>1. mtime'[b] = clock /\ gnow <= clock /\ UNCHANGED <<gpc, gnow>>
      BY <1>1, <2>1, <2>4 DEF Grows, PassInv
    <3>2. gnow - clock < MinBlockAge
      BY <1>3, <3>1 DEF Grace
    <3> QED
      BY <2>4, <3>1, <3>2 DEF Spared
  <2> QED
    BY <2>2, <2>3, <2>4
<1>7. ASSUME NEW q \in Procs, q # p
      PROVE  Established(q)' /\ InTime(q)' /\ Young(q)'
  <2>1. /\ pc'[q] = pc[q] /\ tree'[q] = tree[q] /\ up'[q] = up[q]
        /\ target'[q] = target[q] /\ started'[q] = started[q]
    BY <1>7 DEF OtherLocals
  <2>2. Established(q) /\ InTime(q) /\ Young(q)
    BY <1>1, <1>7 DEF UploadInv
  <2>3. /\ disk \subseteq disk' /\ fs \subseteq fs' /\ files \subseteq files'
        /\ UNCHANGED <<clock, gpc, gnow>>
    BY DEF Grows
  <2>4. Established(q)'
    BY <1>2, <2>1, <2>2, <2>3 DEF Established, RootStored
  <2>5. InTime(q)'
    BY <2>1, <2>2, <2>3 DEF InTime, Active
  <2>6. ASSUME Active(q), NEW b \in tree[q], b \in disk'
        PROVE  b \in Referenced' \/ mtime'[b] >= started[q]
    <3>1. CASE b \in disk
      BY <1>2, <2>2, <2>6, <3>1 DEF Young, Grows
    <3>2. CASE b \notin disk
      <4>1. mtime'[b] = clock /\ started[q] <= clock
        BY <2>2, <2>6, <3>2 DEF Grows, InTime
      <4>2. started[q] \in Nat
        BY <1>7, Small DEF TypeInv, TypeOK
      <4> QED
        BY <1>3, <4>1, <4>2
    <3> QED
      BY <3>1, <3>2
  <2>7. Young(q)'
    BY <2>1, <2>6 DEF Young, Active
  <2> QED
    BY <2>4, <2>5, <2>7
<1> QED
  BY <1>4, <1>5, <1>6, <1>7 DEF HistoryInv, UploadInv

(* An upload that stays active keeps its tree and its start. *)
LEMMA StaysYoung ==
  ASSUME TypeInv, HistoryInv, Grows, NEW p \in Procs, Active(p),
         tree'[p] = tree[p], started'[p] = started[p]
  PROVE  InTime(p)' /\ Young(p)'
<1>1. StoreInv /\ PassInv /\ InTime(p) /\ Young(p)
  BY DEF HistoryInv, UploadInv
<1>2. Referenced \subseteq Referenced' /\ UNCHANGED <<clock, gpc, gnow>>
  BY <1>1, GrowsKeeps DEF Grows
<1>3. InTime(p)'
  BY <1>1, <1>2 DEF InTime, Active
<1>4. ASSUME NEW b \in tree[p], b \in disk'
      PROVE  b \in Referenced' \/ mtime'[b] >= started[p]
  <2>1. CASE b \in disk
    BY <1>1, <1>2, <1>4, <2>1 DEF Young, Grows
  <2>2. CASE b \notin disk
    <3>1. mtime'[b] = clock /\ started[p] <= clock
      BY <1>1, <1>4, <2>2 DEF Grows, InTime
    <3>2. started[p] \in Nat /\ clock \in Nat
      BY Small DEF TypeInv, TypeOK
    <3> QED
      BY <3>1, <3>2
  <2> QED
    BY <2>1, <2>2
<1>5. Young(p)'
  BY <1>4 DEF Young
<1> QED
  BY <1>3, <1>5

Kept(p) == Established(p)' /\ InTime(p)' /\ Young(p)'

LEMMA FinishKept ==
  ASSUME TypeInv, NEW p \in Procs, Finish(p), abandoned' \in Nat
  PROVE  OtherLocals(p) /\ Kept(p)
<1>1. UploadTypes
  BY TypeParts DEF TypeInv
<1>2. "idle" \in PcValues /\ {} \in Trees /\ NoCommit \in Ids \cup {NoCommit} /\ 0 \in Time
  BY Small DEF PcValues
<1>3. Local(p, "idle", {}, NoCommit, NoCommit, NoCommit, {}, 0)
  BY FinishLocal
<1>4. OtherLocals(p) /\ Landed(p, "idle", {}, NoCommit, NoCommit, 0)
  BY <1>1, <1>2, <1>3, LocalTyped
<1>5. pc'[p] = "idle"
  BY <1>4 DEF Landed
<1> QED
  BY <1>4, <1>5 DEF Kept, Established, InTime, Young, Active

(* A step to the locals (a, tree, up, g) of an upload that stays active. *)
LEMMA LocalKept ==
  ASSUME TypeInv, HistoryInv, Grows, NEW p \in Procs, Active(p), abandoned' \in Nat,
         NEW a \in PcValues, NEW s \in Ids \cup {NoCommit}, NEW g \in Ids \cup {NoCommit},
         NEW d \in Trees,
         Local(p, a, tree[p], up[p], s, g, d, started[p])
  PROVE  /\ OtherLocals(p) /\ InTime(p)' /\ Young(p)'
         /\ pc'[p] = a /\ tree'[p] = tree[p] /\ up'[p] = up[p] /\ target'[p] = g
<1>1. UploadTypes
  BY TypeParts DEF TypeInv
<1>2. tree[p] \in Trees /\ up[p] \in Ids \cup {NoCommit} /\ started[p] \in Time
  BY <1>1 DEF UploadTypes
<1>3. OtherLocals(p) /\ Landed(p, a, tree[p], up[p], g, started[p])
  BY <1>1, <1>2, LocalTyped
<1>4. /\ pc'[p] = a /\ tree'[p] = tree[p] /\ up'[p] = up[p] /\ target'[p] = g
      /\ started'[p] = started[p]
  BY <1>3 DEF Landed
<1> QED
  BY <1>3, <1>4, StaysYoung

LEMMA CommitKept ==
  ASSUME TypeInv, TypeInv', Grace, HistoryInv, Grows, NEW p \in Procs, Active(p),
         abandoned' \in Nat, NEW m \in SUBSET (RootOf(head) \cup tree[p]), Commit(p, m),
         m \ RootOf(head) \subseteq disk, UNCHANGED <<head, heads, disk>>,
         p \in Clients => pc[p] = "loop"
  PROVE  HistoryInv'
<1>1. StoreTypes /\ UploadTypes
  BY TypeParts DEF TypeInv
<1>2. /\ head \in Ids \cup {NoCommit} /\ clock \in Time
      /\ tree[p] \in Trees /\ todo[p] \in Trees /\ "cas" \in PcValues
  BY <1>1 DEF StoreTypes, UploadTypes, PcValues
<1>3. m \in Trees
  BY <1>1, <1>2, RootTyped DEF Trees
<1>4. /\ fs' = fs \cup {m} /\ files \subseteq files' /\ files' \subseteq files \cup tree[p]
      /\ m \ RootOf(head) \subseteq files' /\ InsertCommit(m, head, clock)
      /\ Local(p, "cas", tree[p], up[p], head, made + 1, todo[p], started[p])
  BY DEF Commit
<1>5. /\ made + 1 \in Ids /\ commits' = commits \cup {made + 1}
      /\ row'[made + 1].root = m /\ row'[made + 1].parent = head
  BY <1>1, <1>2, <1>3, <1>4, InsertTyped
<1>6. StoreInv /\ UploadInv /\ SparedInv /\ PassInv /\ Established(p)
  BY DEF HistoryInv, UploadInv
<1>7. /\ OtherLocals(p) /\ InTime(p)' /\ Young(p)'
      /\ pc'[p] = "cas" /\ tree'[p] = tree[p] /\ up'[p] = up[p] /\ target'[p] = made + 1
  <2>1. made + 1 \in Ids \cup {NoCommit}
    BY <1>5
  <2> QED
    BY <1>2, <1>4, <2>1, LocalKept
<1>8. RootOf(head) \subseteq files \cap disk /\ \A b \in RootOf(head) : b \in Referenced
  BY <1>6, HeadRoot DEF StoreInv
<1>9. m \subseteq files' \cap disk
  BY <1>4, <1>8
<1>10. Established(p)'
  <2>1. PICK k : k = made + 1
    OBVIOUS
  <2>2. target'[p] \in commits' /\ Complete(target[p])'
    <3>1. /\ row'[k].root = m /\ target'[p] = k /\ k \in commits' /\ m \in fs'
          /\ m \subseteq files' \cap disk'
      BY <1>4, <1>5, <1>7, <1>9, <2>1
    <3> QED
      BY <3>1 DEF Complete, RootStored
  <2>3. ASSUME p \in Clients
        PROVE  /\ up[p] \in commits /\ row[up[p]].root = tree[p]
               /\ RootStored(tree[p]) /\ tree[p] \subseteq files \cap disk
    BY <1>6, <2>3 DEF Established
  <2>4. ASSUME p \in Clients
        PROVE  /\ up'[p] \in commits' /\ row'[up'[p]].root = tree'[p]
               /\ RootStored(tree[p])' /\ tree'[p] \subseteq files' \cap disk'
    <3>1. row'[up[p]] = row[up[p]] /\ up[p] \in commits'
      BY <1>6, <2>3, <2>4, GrowsKeeps
    <3> QED
      BY <1>4, <1>7, <2>3, <2>4, <3>1 DEF RootStored
  <2> QED
    BY <1>7, <2>2, <2>4 DEF Established
<1>11. \A b \in (RootOf(head) \cup tree[p]) \cap disk : gpc # "idle" => Spared(b)
  BY <1>6, <1>8, UploadSpared, ReferencedSpared
<1>12. \A t \in fs' : \A b \in t \cap files' \cap disk :
         (t \in fs /\ b \in files) \/ (gpc # "idle" => Spared(b))
  BY <1>4, <1>11
<1> QED
  BY <1>4, <1>5, <1>7, <1>10, <1>12, GrowStep

LEMMA UploadStepKeepsHistory ==
  ASSUME TypeInv, TypeInv', Grace, HistoryInv, NEW p \in Procs,
         \/ p \in Clients /\ ClientStep(p)
         \/ p \in Writers /\ WriterStep(p)
         \/ Abandon(p)
  PROVE  HistoryInv'
<1>1. StoreTypes /\ BlockTypes /\ UploadTypes /\ TypeOK
  BY TypeParts DEF TypeInv
<1>2. Grows /\ abandoned' \in Nat /\ UNCHANGED <<clock, gcVars>>
  BY <1>1, StepGrows, UploadFrame
<1>3. StoreInv /\ UploadInv /\ SparedInv /\ PassInv /\ Established(p)
  BY DEF HistoryInv, UploadInv
<1>4. /\ head \in Ids \cup {NoCommit} /\ clock \in Time /\ clock \in Nat
      /\ tree[p] \in Trees /\ todo[p] \in Trees /\ up[p] \in Ids \cup {NoCommit}
      /\ seen[p] \in Ids \cup {NoCommit} /\ target[p] \in Ids \cup {NoCommit}
      /\ started[p] \in Time /\ PcValues = {"idle", "fs", "blocks", "loop", "cas", "stored"}
      /\ MaxUploadTime \in Nat /\ gnow \in Nat
  BY <1>1, Small, GcAssumption DEF StoreTypes, UploadTypes, PcValues, TypeOK
<1>5. /\ \A k \in commits : row'[k] = row[k] /\ (Complete(k) => Complete(k)')
      /\ Referenced \subseteq Referenced' /\ commits \subseteq commits'
      /\ fs \subseteq fs' /\ files \subseteq files' /\ disk \subseteq disk'
  BY <1>2, <1>3, GrowsKeeps DEF Grows
<1>6. ASSUME UNCHANGED <<commits, fs, files>>,
             UNCHANGED <<head, heads>> \/ \E k \in commits : SetHead(k) /\ Complete(k),
             OtherLocals(p), Kept(p)
      PROVE  HistoryInv'
  BY <1>2, <1>6, GrowStep DEF Kept
<1>7. p \in Clients => p \notin Writers
  BY GcAssumption
<1>8. ASSUME NEW a \in {"fs", "blocks", "loop"}, NEW d \in Trees, p \in Clients, 
             pc[p] \in {"fs", "blocks", "loop", "cas"},
             Local(p, a, tree[p], up[p], seen[p], target[p], d, started[p]),
             a = "loop" => RootStored(tree[p]) /\ tree[p] \subseteq files \cap disk
      PROVE  OtherLocals(p) /\ Kept(p)
  <2>1. Active(p) /\ a \in PcValues
    BY <1>4, <1>8 DEF Active
  <2>2. /\ OtherLocals(p) /\ InTime(p)' /\ Young(p)'
        /\ pc'[p] = a /\ tree'[p] = tree[p] /\ up'[p] = up[p] /\ target'[p] = target[p]
    BY <1>2, <1>4, <1>8, <2>1, LocalKept
  <2>3. up[p] \in commits /\ row[up[p]].root = tree[p]
    BY <1>3, <1>8 DEF Established
  <2>4. up'[p] \in commits' /\ row'[up'[p]].root = tree'[p]
    BY <1>5, <2>2, <2>3
  <2>5. a = "loop" => RootStored(tree[p])' /\ tree'[p] \subseteq files' \cap disk'
    BY <1>5, <1>8, <2>2 DEF RootStored
  <2>6. a # "cas" /\ a # "stored"
    BY <1>8
  <2>7. Established(p)'
    BY <2>2, <2>4, <2>5, <2>6 DEF Established
  <2> QED
    BY <2>2, <2>7 DEF Kept
<1>9. CASE p \in Clients /\ PutCommit(p)
  <2>1. PICK t \in Trees, ctime \in Time :
          /\ MayContain(t) /\ InsertCommit(t, head, ctime)
          /\ Local(p, "fs", t, made + 1, seen[p], target[p], todo[p], clock)
    BY <1>1, <1>9, PutCommitShape
  <2>2. UNCHANGED <<fs, files, disk, mtime, head, heads>>
    BY <1>1, <1>9, PutCommitShape
  <2>3. /\ made + 1 \in Ids /\ commits' = commits \cup {made + 1}
        /\ row'[made + 1].root = t /\ row'[made + 1].parent = head
    BY <1>1, <1>4, <2>1, InsertTyped
  <2>4. "fs" \in PcValues /\ made + 1 \in Ids \cup {NoCommit}
    BY <1>4, <2>3
  <2>5. OtherLocals(p) /\ Landed(p, "fs", t, made + 1, target[p], clock)
    BY <1>1, <1>2, <1>4, <2>1, <2>4, LocalTyped
  <2>6. pc'[p] = "fs" /\ tree'[p] = t /\ up'[p] = made + 1 /\ started'[p] = clock
    BY <2>5 DEF Landed
  <2>7. Established(p)'
    BY <2>3, <2>6 DEF Established
  <2>8. InTime(p)'
    <3>1. gpc # "idle" => gnow <= clock
      BY <1>3 DEF PassInv
    <3>2. clock - clock <= MaxUploadTime /\ (gpc # "idle" => gnow - clock <= MaxUploadTime)
      BY <1>4, <3>1
    <3>3. UNCHANGED <<clock, gpc, gnow>> /\ clock <= clock
      BY <1>2, <1>4
    <3> QED
      BY <2>6, <3>2, <3>3 DEF InTime
  <2>9. \A b \in t \cap disk : b \in Referenced'
    BY <1>5, <2>1 DEF MayContain, Grace
  <2>10. Young(p)'
    BY <2>2, <2>6, <2>9 DEF Young
  <2> QED
    BY <1>2, <2>2, <2>3, <2>5, <2>7, <2>8, <2>10, GrowStep
<1>10. CASE p \in Clients /\ RecvFs(p)
  <2>1. /\ pc[p] = "fs" /\ Packed(p)
        /\ UNCHANGED <<made, commits, row, disk, mtime, head, heads>>
        /\ \/ Local(p, "fs", tree[p], up[p], seen[p], target[p], todo[p], started[p])
           \/ Local(p, "blocks", tree[p], up[p], seen[p], target[p],
                    tree[p] \ RootOf(row[up[p]].parent), started[p])
    BY <1>1, <1>10, RecvFsShape
  <2>2. tree[p] \ RootOf(row[up[p]].parent) \in Trees
    BY <1>4 DEF Trees
  <2>3. OtherLocals(p) /\ Kept(p)
    BY <1>4, <1>8, <1>10, <2>1, <2>2
  <2>4. up[p] \in commits' /\ row'[up[p]].root = tree[p]
    BY <1>3, <1>5, <1>10, <2>1 DEF Established
  <2>5. \A b \in tree[p] \cap disk : gpc # "idle" => Spared(b)
    BY <1>3, <2>1, UploadSpared DEF Active
  <2>6. \A t \in fs' \ fs : \E k \in commits' : row'[k].root = t
    BY <2>1, <2>4 DEF Packed
  <2>7. \A t \in fs' : \A b \in t \cap files' \cap disk :
          (t \in fs /\ b \in files) \/ (gpc # "idle" => Spared(b))
    BY <2>1, <2>5 DEF Packed
  <2>8. commits' \ commits = {}
    BY <2>1
  <2> QED
    BY <1>2, <2>1, <2>3, <2>6, <2>7, <2>8, GrowStep DEF Kept
<1>11. CASE p \in Clients /\ PutBlock(p)
  <2>1. /\ pc[p] = "blocks" /\ UNCHANGED <<made, commits, row, fs, files, head, heads>>
    BY <1>1, <1>11, PutBlockShape
  <2>2. PICK b \in todo[p] :
          Local(p, "blocks", tree[p], up[p], seen[p], target[p], todo[p] \ {b}, started[p])
    BY <1>1, <1>11, PutBlockShape
  <2>3. todo[p] \ {b} \in Trees
    BY <1>4 DEF Trees
  <2>4. OtherLocals(p) /\ Kept(p)
    BY <1>8, <1>11, <2>1, <2>2, <2>3
  <2> QED
    BY <1>6, <2>1, <2>4
<1>12. CASE p \in Clients /\ StartUpdate(p)
  <2>1. /\ pc[p] = "blocks" /\ UNCHANGED <<made, commits, row, fs, files, disk, mtime, head, heads>>
        /\ \/ Local(p, "fs", tree[p], up[p], seen[p], target[p], todo[p], started[p])
           \/ Local(p, "blocks", tree[p], up[p], seen[p], target[p],
                     Checked(tree[p], row[up[p]].parent) \ disk, started[p])
           \/ /\ Local(p, "loop", tree[p], up[p], seen[p], target[p], todo[p], started[p])
              /\ RootStored(tree[p])
              /\ Checked(tree[p], row[up[p]].parent) \subseteq files \cap disk
           \/ Finish(p)
    BY <1>1, <1>12, StartUpdateShape
  <2>2. Checked(tree[p], row[up[p]].parent) \ disk \in Trees
    BY <1>4 DEF Trees, Checked
  <2>3. tree[p] \ Checked(tree[p], row[up[p]].parent) \subseteq files \cap disk
    <3>1. up[p] \in commits
      BY <1>3, <1>12, <2>1 DEF Established
    <3>2. row[up[p]].parent \in heads \cup {NoCommit}
      BY <1>3, <3>1 DEF StoreInv
    <3>3. CASE row[up[p]].parent \in commits
      <4>1. row[up[p]].parent # NoCommit
        BY <1>1, <3>3 DEF StoreTypes, Ids, NoCommit
      <4>2. Complete(row[up[p]].parent)
        BY <1>3, <3>2, <4>1 DEF StoreInv
      <4> QED
        BY <3>3, <4>2 DEF Checked, Complete
    <3>4. CASE row[up[p]].parent \notin commits
      BY <3>4 DEF Checked
    <3> QED
      BY <3>3, <3>4
  <2>4. CASE Finish(p)
    BY <1>2, <1>6, <2>1, <2>4, FinishKept
  <2>5. CASE Local(p, "fs", tree[p], up[p], seen[p], target[p], todo[p], started[p])
    BY <1>4, <1>6, <1>8, <1>12, <2>1, <2>5
  <2>6. CASE Local(p, "blocks", tree[p], up[p], seen[p], target[p],
                     Checked(tree[p], row[up[p]].parent) \ disk, started[p])
    BY <1>6, <1>8, <1>12, <2>1, <2>2, <2>6
  <2>7. CASE /\ Local(p, "loop", tree[p], up[p], seen[p], target[p], todo[p], started[p])
             /\ RootStored(tree[p])
             /\ Checked(tree[p], row[up[p]].parent) \subseteq files \cap disk
    <3>1. tree[p] \subseteq files \cap disk
      BY <2>3, <2>7
    <3> QED
      BY <1>4, <1>6, <1>8, <1>12, <2>1, <2>7, <3>1
  <2> QED
    BY <2>1, <2>4, <2>5, <2>6, <2>7
<1>13. CASE p \in Clients /\ ReadHead(p)
  <2>1. /\ pc[p] = "loop" /\ UNCHANGED <<disk, mtime, head, heads>>
        /\ \/ /\ UNCHANGED <<made, commits, row, fs, files>>
              /\ Local(p, "cas", tree[p], up[p], head, up[p], todo[p], started[p])
           \/ \E m \in SUBSET (RootOf(head) \cup tree[p]) :
                m \ RootOf(head) \subseteq disk /\ Commit(p, m)
           \/ Finish(p) /\ UNCHANGED <<made, commits, row, fs, files>>
    BY <1>1, <1>13, ReadHeadShape
  <2>2. Active(p) /\ "cas" \in PcValues
    BY <1>4, <2>1 DEF Active
  <2>3. CASE \E m \in SUBSET (RootOf(head) \cup tree[p]) :
                m \ RootOf(head) \subseteq disk /\ Commit(p, m)
    BY <1>2, <2>1, <2>2, <2>3, CommitKept
  <2>4. CASE /\ UNCHANGED <<made, commits, row, fs, files>>
             /\ Local(p, "cas", tree[p], up[p], head, up[p], todo[p], started[p])
    <3>1. /\ OtherLocals(p) /\ InTime(p)' /\ Young(p)'
          /\ pc'[p] = "cas" /\ tree'[p] = tree[p] /\ up'[p] = up[p] /\ target'[p] = up[p]
      BY <1>2, <1>4, <2>2, <2>4, LocalKept
    <3>2. /\ up[p] \in commits /\ row[up[p]].root = tree[p]
          /\ RootStored(tree[p]) /\ tree[p] \subseteq files \cap disk
      BY <1>3, <1>13, <2>1 DEF Established
    <3>4. /\ up[p] \in commits' /\ row'[up[p]].root = tree[p]
          /\ RootStored(tree[p])' /\ tree[p] \subseteq files' \cap disk'
      BY <2>1, <2>4, <3>1, <3>2 DEF RootStored
    <3>5. Complete(target[p])'
      BY <3>1, <3>4 DEF Complete, RootStored
    <3>6. Established(p)'
      BY <3>1, <3>4, <3>5 DEF Established
    <3> QED
      BY <1>6, <2>1, <2>4, <3>1, <3>6 DEF Kept
  <2>5. CASE Finish(p) /\ UNCHANGED <<made, commits, row, fs, files>>
    BY <1>2, <1>6, <2>1, <2>5, FinishKept
  <2> QED
    BY <2>1, <2>3, <2>4, <2>5
<1>14. CASE p \in Clients /\ SwapHead(p)
  <2>1. /\ pc[p] = "cas" /\ UNCHANGED <<made, commits, row, fs, files, disk, mtime>>
        /\ \/ SetHead(target[p]) /\ Finish(p)
           \/ /\ UNCHANGED <<head, heads>>
              /\ \E a \in {"loop", "blocks"} :
                   Local(p, a, tree[p], up[p], seen[p], target[p], todo[p], started[p])
    BY <1>1, <1>14, SwapHeadShape
  <2>2. /\ target[p] \in commits /\ Complete(target[p])
        /\ RootStored(tree[p]) /\ tree[p] \subseteq files \cap disk
    BY <1>3, <1>14, <2>1 DEF Established
  <2>3. CASE SetHead(target[p]) /\ Finish(p)
    BY <1>2, <1>6, <2>1, <2>2, <2>3, FinishKept
  <2>4. CASE /\ UNCHANGED <<head, heads>>
             /\ \E a \in {"loop", "blocks"} :
                  Local(p, a, tree[p], up[p], seen[p], target[p], todo[p], started[p])
    BY <1>4, <1>6, <1>8, <1>14, <2>1, <2>2, <2>4
  <2> QED
    BY <2>1, <2>3, <2>4
<1>15. CASE p \in Writers /\ StoreBlock(p)
  <2>1. UNCHANGED <<made, commits, row, fs, files, head, heads>>
    BY <1>1, <1>15, StoreBlockShape
  <2>2. PICK b \in Blocks :
          /\ MayContain({b}) /\ WriteBlock(b)
          /\ Local(p, "stored", {b}, up[p], seen[p], target[p], todo[p], clock)
    BY <1>1, <1>15, StoreBlockShape
  <2>3. {b} \in Trees /\ "stored" \in PcValues
    BY <1>4 DEF Trees
  <2>4. OtherLocals(p) /\ Landed(p, "stored", {b}, up[p], target[p], clock)
    BY <1>1, <1>2, <1>4, <2>2, <2>3, LocalTyped
  <2>5. pc'[p] = "stored" /\ tree'[p] = {b} /\ started'[p] = clock
    BY <2>4 DEF Landed
  <2>6. b \in disk'
    BY <2>2 DEF WriteBlock
  <2>7. Established(p)'
    BY <2>5, <2>6 DEF Established
  <2>8. InTime(p)'
    <3>1. gpc # "idle" => gnow <= clock
      BY <1>3 DEF PassInv
    <3>2. clock - clock <= MaxUploadTime /\ (gpc # "idle" => gnow - clock <= MaxUploadTime)
      BY <1>4, <3>1
    <3>3. UNCHANGED <<clock, gpc, gnow>> /\ clock <= clock
      BY <1>2, <1>4
    <3> QED
      BY <2>5, <3>2, <3>3 DEF InTime
  <2>9. b \in Referenced' \/ mtime'[b] >= clock
    <3>1. CASE b \in disk
      BY <1>5, <2>2, <3>1 DEF MayContain, Grace
    <3>2. CASE b \notin disk
      BY <1>2, <1>4, <2>6, <3>2 DEF Grows
    <3> QED
      BY <3>1, <3>2
  <2>10. Young(p)'
    BY <2>5, <2>9 DEF Young
  <2> QED
    BY <1>6, <2>1, <2>4, <2>7, <2>8, <2>10 DEF Kept
<1>16. CASE p \in Writers /\ CreateFile(p)
  <2>1. /\ pc[p] = "stored" /\ UNCHANGED <<disk, mtime, head, heads>>
        /\ \/ Commit(p, RootOf(head) \cup tree[p])
           \/ Finish(p) /\ UNCHANGED <<made, commits, row, fs, files>>
    BY <1>1, <1>16, CreateFileShape
  <2>2. CASE Commit(p, RootOf(head) \cup tree[p])
    <3>1. tree[p] \subseteq disk /\ Active(p)
      BY <1>3, <1>16, <2>1 DEF Established, Active
    <3>2. (RootOf(head) \cup tree[p]) \ RootOf(head) \subseteq disk
      BY <3>1
    <3> QED
      BY <1>2, <1>7, <1>16, <2>1, <2>2, <3>1, <3>2, CommitKept
  <2>3. CASE Finish(p) /\ UNCHANGED <<made, commits, row, fs, files>>
    BY <1>2, <1>6, <2>1, <2>3, FinishKept
  <2> QED
    BY <2>1, <2>2, <2>3
<1>17. CASE p \in Writers /\ SwapHeadRest(p)
  <2>1. /\ pc[p] = "cas" /\ UNCHANGED <<made, commits, row, fs, files, disk, mtime>> /\ Finish(p)
        /\ SetHead(target[p]) \/ UNCHANGED <<head, heads>>
    BY <1>17, SwapHeadRestShape
  <2>2. target[p] \in commits /\ Complete(target[p])
    BY <1>3, <2>1 DEF Established
  <2> QED
    BY <1>2, <1>6, <2>1, <2>2, FinishKept
<1>18. CASE Abandon(p)
  BY <1>2, <1>6, <1>18, FinishKept DEF Abandon
<1> QED
  BY <1>9, <1>10, <1>11, <1>12, <1>13, <1>14, <1>15, <1>16, <1>17, <1>18 DEF ClientStep, WriterStep

(* A step of the collector that leaves the store and the disk alone. *)
LEMMA QuietStep ==
  ASSUME TypeInv, HistoryInv, UNCHANGED <<Others, commits, fs, files, disk, mtime>>,
         \A p \in Procs : InTime(p)', \A b \in disk : Spared(b) /\ b \in Referenced => Spared(b)', PassInv'
  PROVE  HistoryInv'
<1>1. UNCHANGED <<clock, made, row, head, heads, pc, tree, up, target, started, commits, fs, files, disk, mtime>>
  BY DEF Others
<1>2. StoreInv /\ UploadInv /\ SparedInv
  BY DEF HistoryInv
<1>3. StoreInv'
  BY <1>1, <1>2 DEF StoreInv, Complete, RootStored
<1>4. Referenced' = Referenced
  BY <1>1 DEF Referenced, Below, RootStored
<1>5. \A p \in Procs : Established(p)' /\ Young(p)'
  BY <1>1, <1>2, <1>4 DEF UploadInv, Established, Young, Active, Complete, RootStored
<1>6. \A t \in fs : t \cap files \subseteq Referenced
  BY <1>2, StoredIsReferenced DEF TreesReferenced
<1>7. SparedInv'
  BY <1>1, <1>2, <1>6 DEF SparedInv
<1> QED
  BY <1>3, <1>5, <1>7 DEF HistoryInv, UploadInv

LEMMA PassStepKeepsHistory ==
  ASSUME TypeInv, Grace, HistoryInv, GcStep
  PROVE  HistoryInv'
<1>1. StoreTypes /\ BlockTypes /\ PassTypes /\ UploadTypes /\ TypeOK
  BY TypeParts DEF TypeInv
<1>2. StoreInv /\ UploadInv /\ SparedInv /\ PassInv
  BY DEF HistoryInv
<1>3. UNCHANGED <<clock, made, row, head, heads, pc, tree, up, target, started>> /\ UNCHANGED Others
  BY <1>1, PassStepTypes DEF Others
<1>4. clock \in Nat
  BY <1>1, Small DEF StoreTypes
<1>5. ASSUME UNCHANGED gnow, gpc # "idle"
      PROVE  \A p \in Procs : InTime(p)'
  BY <1>2, <1>3, <1>5 DEF UploadInv, InTime, Active
<1>6. ASSUME EndPass, UNCHANGED <<commits, fs, files, disk, mtime>>
      PROVE  HistoryInv'
  <2>1. gpc' = "idle" /\ gkeep' = {}
    BY <1>6 DEF EndPass
  <2>2. \A p \in Procs : InTime(p)'
    BY <1>2, <1>3, <2>1 DEF UploadInv, InTime, Active
  <2>3. \A b \in Referenced : b \in Referenced'
    BY <1>3, <1>6 DEF Referenced, Below, RootStored
  <2>4. PassInv'
    BY <2>1 DEF PassInv
  <2>5. \A b \in disk : Spared(b) /\ b \in Referenced => Spared(b)'
    BY <2>1, <2>3 DEF Spared, Alive
  <2> QED
    BY <1>3, <1>6, <2>2, <2>4, <2>5, QuietStep
<1>7. CASE GcStart
  <2>1. /\ gpc = "idle" /\ gpc' = "read" /\ gnow' = clock
        /\ UNCHANGED <<commits, fs, files, disk, mtime, gkeep>>
    BY <1>7 DEF GcStart
  <2>2. \A p \in Procs : InTime(p)'
    BY <1>2, <1>3, <2>1 DEF UploadInv, InTime, Active
  <2>3. \A b \in Referenced : b \in Referenced'
    BY <1>3, <2>1 DEF Referenced, Below, RootStored
  <2>4. \A b \in disk : Spared(b) /\ b \in Referenced => Spared(b)'
    BY <2>1, <2>3 DEF Spared, Alive
  <2>5. PassInv'
    BY <1>2, <1>3, <1>4, <2>1 DEF PassInv
  <2> QED
    BY <1>3, <2>1, <2>2, <2>4, <2>5, QuietStep
<1>8. CASE GcReadCommits
  <2>1. CASE EndPass
    BY <1>6, <1>8, <2>1 DEF GcReadCommits
  <2>2. CASE /\ glist' = commits /\ gkeep' = KeepCommits(commits, gnow) /\ gpc' = "walk"
             /\ UNCHANGED <<gnow, galive>>
    <3>1. gpc = "read" /\ UNCHANGED <<commits, fs, files, disk, mtime>>
      BY <1>8 DEF GcReadCommits
    <3>2. gkeep' = commits
      BY <2>2 DEF KeepCommits, Grace
    <3>3. \A b \in Referenced : b \in AliveBlocks(gkeep)'
      BY <1>3, <3>1, <3>2 DEF Referenced, AliveBlocks, ReachableFiles, Below, RootStored
    <3>4. \A b \in disk : Spared(b) /\ b \in Referenced => Spared(b)'
      BY <2>2, <3>3 DEF Spared, Alive
    <3>5. PassInv'
      BY <1>2, <1>3, <2>2, <3>1, <3>2 DEF PassInv
    <3> QED
      BY <1>3, <1>5, <2>2, <3>1, <3>4, <3>5, QuietStep
  <2> QED
    BY <1>8, <2>1, <2>2 DEF GcReadCommits
<1>9. CASE GcWalk
  <2>1. /\ gpc = "walk" /\ gpc' = "list" /\ galive' = AliveBlocks(gkeep)
        /\ UNCHANGED <<commits, fs, files, disk, mtime, gnow, gkeep>>
    BY <1>9 DEF GcWalk, Grace
  <2>2. \A b \in disk : Spared(b) => Spared(b)'
    BY <2>1 DEF Spared, Alive
  <2>3. PassInv'
    BY <1>2, <1>3, <2>1 DEF PassInv
  <2> QED
    BY <1>3, <1>5, <2>1, <2>2, <2>3, QuietStep
<1>10. CASE GcPruneFs \/ GcPruneCommits
  BY <1>2, <1>10 DEF PassInv, GcPruneFs, GcPruneCommits
<1>11. CASE GcList
  <2>1. /\ gpc = "list" /\ gpc' = "verify" /\ orphans' = disk \ galive
        /\ UNCHANGED <<commits, fs, files, disk, mtime, gnow, gkeep, galive>>
    BY <1>11 DEF GcList
  <2>2. \A b \in disk : Spared(b) => Spared(b)'
    BY <2>1 DEF Spared, Alive
  <2>3. PassInv'
    BY <1>2, <1>3, <2>1 DEF PassInv
  <2> QED
    BY <1>3, <1>5, <2>1, <2>2, <2>3, QuietStep
<1>12. CASE GcVerifyHead
  <2>1. CASE EndPass
    BY <1>6, <1>12, <2>1 DEF GcVerifyHead
  <2>2. CASE gpc' = "delete" /\ UNCHANGED <<gnow, gkeep, galive, orphans>>
    <3>1. gpc = "verify" /\ UNCHANGED <<commits, fs, files, disk, mtime>>
      BY <1>12 DEF GcVerifyHead
    <3>2. \A b \in disk : Spared(b) => Spared(b)'
      BY <2>2, <3>1 DEF Spared, Alive
    <3>3. PassInv'
      BY <1>2, <1>3, <2>2, <3>1 DEF PassInv
    <3> QED
      BY <1>3, <1>5, <2>2, <3>1, <3>2, <3>3, QuietStep
  <2> QED
    BY <1>12, <2>1, <2>2 DEF GcVerifyHead
<1>13. CASE GcDelete
  <2>1. PICK x \in orphans :
          /\ orphans' = orphans \ {x}
          /\ disk' = IF Fresh(x) THEN disk ELSE disk \ {x}
          /\ mtime' = IF Fresh(x) THEN mtime ELSE [mtime EXCEPT ![x] = 0]
    BY <1>13 DEF GcDelete
  <2>2. gpc = "delete" /\ UNCHANGED <<commits, fs, files, gpc, gnow, gkeep, galive>>
    BY <1>13 DEF GcDelete
  <2>3. disk' \subseteq disk /\ \A b \in disk' : mtime'[b] = mtime[b]
    BY <1>1, <2>1 DEF BlockTypes
  <2>4. \A b \in disk : Spared(b) => b \in disk'
    <3>1. SUFFICES ASSUME Spared(x), x \in disk
                   PROVE  Fresh(x)
      BY <2>1
    <3>2. x \notin galive
      BY <1>2, <2>1, <2>2 DEF PassInv
    <3>3. gnow - mtime[x] < MinBlockAge
      BY <2>2, <3>1, <3>2 DEF Spared, Alive
    <3>4. MinBlockAge > 0
      BY GcAssumption DEF Grace
    <3> QED
      BY <3>1, <3>3, <3>4 DEF Fresh
  <2>5. Referenced' = Referenced
    BY <1>3, <2>2 DEF Referenced, Below, RootStored
  <2>6. \A t \in fs : t \cap files \cap disk \subseteq disk'
    BY <1>2, <2>4 DEF SparedInv
  <2>7. ASSUME NEW k, Complete(k)
        PROVE  Complete(k)'
    <3>1. row[k].root \subseteq files \cap disk'
      BY <2>6, <2>7 DEF Complete, RootStored
    <3> QED
      BY <1>3, <2>2, <2>7, <3>1 DEF Complete, RootStored
  <2>8. StoreInv'
    BY <1>2, <1>3, <2>2, <2>7 DEF StoreInv
  <2>9. SparedInv'
    BY <1>2, <2>2, <2>3 DEF SparedInv, Spared, Alive
  <2>10. PassInv'
    BY <1>2, <1>3, <2>1, <2>2 DEF PassInv
  <2>11. ASSUME NEW p \in Procs
         PROVE  Established(p)' /\ InTime(p)' /\ Young(p)'
    <3>1. Established(p) /\ InTime(p) /\ Young(p)
      BY <1>2, <2>11 DEF UploadInv
    <3>2. Active(p) => tree[p] \cap disk \subseteq disk'
      BY <1>2, <2>2, <2>4, <2>11, UploadSpared
    <3>3. InTime(p)'
      BY <1>5, <2>2, <2>11
    <3>4. Young(p)'
      BY <1>3, <2>3, <2>5, <3>1 DEF Young, Active
    <3>5. UNCHANGED <<pc, up, tree, target, row, commits, fs, files>>
      BY <1>3, <2>2
    <3>6. pc[p] # "idle" => tree[p] \cap disk \subseteq disk'
      BY <3>2 DEF Active
    <3>7. pc[p] = "cas" => Complete(target[p])'
      <4>1. SUFFICES ASSUME pc[p] = "cas"
                     PROVE  Complete(target[p])'
        OBVIOUS
      <4>2. Complete(target[p])
        BY <3>1, <4>1 DEF Established
      <4> QED
        BY <2>6, <3>5, <4>2 DEF Complete, RootStored
    <3>8. Established(p)'
      BY <3>1, <3>5, <3>6, <3>7 DEF Established, RootStored
    <3> QED
      BY <3>3, <3>4, <3>8
  <2> QED
    BY <2>8, <2>9, <2>10, <2>11 DEF HistoryInv, UploadInv
<1>14. CASE GcEnd \/ GcStop
  BY <1>6, <1>14 DEF GcEnd, GcStop
<1> QED
  BY <1>7, <1>8, <1>9, <1>10, <1>11, <1>12, <1>13, <1>14 DEF GcStep

LEMMA NextKeepsHistory ==
  ASSUME TypeInv, Grace, HistoryInv, [Next]_vars
  PROVE  HistoryInv'
<1>1. TypeInv' /\ StoreInv /\ UploadInv /\ SparedInv /\ PassInv
  BY NextTypes DEF HistoryInv
<1>2. ASSUME UNCHANGED <<store, head, blockVars, uploadVars, heads, gcVars>>,
             \A p \in Procs : InTime(p)', PassInv'
      PROVE  HistoryInv'
  <2>1. StoreInv'
    BY <1>1, <1>2 DEF StoreInv, Complete, RootStored
  <2>2. Referenced' = Referenced /\ AliveBlocks(gkeep)' = AliveBlocks(gkeep)
    BY <1>2 DEF Referenced, AliveBlocks, ReachableFiles, Below, RootStored
  <2>3. SparedInv'
    BY <1>1, <1>2, <2>2 DEF SparedInv, Spared, Alive
  <2>4. \A p \in Procs : Established(p)' /\ Young(p)'
    BY <1>1, <1>2, <2>2 DEF UploadInv, Established, Young, Active, Complete, RootStored
  <2> QED
    BY <1>2, <2>1, <2>3, <2>4 DEF HistoryInv, UploadInv
<1>3. CASE Tick
  <2>1. clock \in Nat /\ gnow \in Nat /\ MaxUploadTime \in Nat /\ \A p \in Procs : started[p] \in Nat
    BY Small, GcAssumption DEF TypeInv, TypeOK
  <2>2. /\ clock' = clock + 1 /\ \A p \in Procs : pc[p] # "idle" => clock - started[p] < MaxUploadTime
        /\ UNCHANGED <<store, head, blockVars, uploadVars, heads, gcVars>>
    BY <1>3 DEF Tick
  <2>3. ASSUME NEW p \in Procs, Active(p)
        PROVE  /\ started[p] <= clock' /\ clock' - started[p] <= MaxUploadTime
               /\ gpc # "idle" => gnow - started[p] <= MaxUploadTime
    <3>1. /\ started[p] <= clock /\ clock - started[p] < MaxUploadTime
          /\ gpc # "idle" => gnow - started[p] <= MaxUploadTime
      BY <1>1, <2>2, <2>3 DEF UploadInv, InTime, Active
    <3> QED
      BY <2>1, <2>2, <3>1
  <2>4. \A p \in Procs : InTime(p)'
    BY <2>2, <2>3 DEF InTime, Active
  <2>5. gpc # "idle" => gnow <= clock'
    BY <1>1, <2>1, <2>2 DEF PassInv
  <2>6. PassInv'
    BY <1>1, <2>2, <2>5 DEF PassInv
  <2> QED
    BY <1>2, <2>2, <2>4, <2>6
<1>4. CASE UNCHANGED vars
  <2>1. PassInv' /\ \A p \in Procs : InTime(p)'
    BY <1>1, <1>4 DEF PassInv, UploadInv, InTime, Active
  <2> QED
    BY <1>2, <1>4, <2>1
<1> QED
  BY <1>1, <1>3, <1>4, UploadStepKeepsHistory, PassStepKeepsHistory DEF Next, Procs

LEMMA InitHistory ==
  ASSUME Init
  PROVE  HistoryInv
<1>1. PICK t \in InitialTrees \cup {{}} :
        /\ \/ made = 0 /\ t = {} /\ commits = {} /\ head = NoCommit /\ heads = {}
           \/ made = 1 /\ t \in InitialTrees /\ commits = {1} /\ head = 1 /\ heads = {1}
        /\ row = [k \in Ids |-> [root |-> t, parent |-> NoCommit, ctime |-> 0]]
        /\ fs = {t} /\ files = t /\ disk = t
  BY DEF Init
<1>2. 1 \in Ids
  BY GcAssumption DEF Ids
<1>3. commits = 1 .. made /\ \A k \in commits : row[k].root = t /\ row[k].parent = NoCommit
  <2>0. 1 .. 0 = {} /\ 1 .. 1 = {1}
    OBVIOUS
  <2>1. commits = 1 .. made /\ commits \subseteq {1}
    <3>1. CASE made = 0 /\ commits = {}
      BY <2>0, <3>1
    <3>2. CASE made = 1 /\ commits = {1}
      BY <2>0, <3>2
    <3> QED
      BY <1>1, <3>1, <3>2
  <2>2. row[1] = [root |-> t, parent |-> NoCommit, ctime |-> 0]
    BY <1>1, <1>2
  <2> QED
    BY <2>1, <2>2
<1>4. \A k \in commits : Complete(k)
  BY <1>1, <1>3 DEF Complete, RootStored
<1>5. StoreInv
  BY <1>1, <1>3, <1>4 DEF StoreInv
<1>6. UploadInv
  BY DEF Init, UploadInv, Established, InTime, Young, Active
<1>7. TreesReferenced /\ gpc = "idle" /\ gkeep = {}
  BY <1>5, StoredIsReferenced DEF Init
<1>8. SparedInv /\ PassInv
  BY <1>7 DEF SparedInv, PassInv, Spared, Alive, TreesReferenced
<1> QED
  BY <1>5, <1>6, <1>8 DEF HistoryInv

(* Nothing limits the history, no upload outlasts the grace window and none *)
(* contains a leftover block: then every commit that has ever been HEAD can *)
(* be downloaded in full, whatever any number of uploads and passes         *)
(* interleave.                                                              *)
THEOREM HistoryIsKept ==
  ASSUME Grace
  PROVE  Spec => []HistoryRestorable
<1>1. Init => HistoryInv
  BY InitHistory
<1>2. TypeInv /\ HistoryInv /\ [Next]_vars => HistoryInv'
  BY NextKeepsHistory
<1>3. HistoryInv => HistoryRestorable
  BY DEF HistoryInv, StoreInv, Complete, HistoryRestorable, Readable
<1> QED
  BY <1>1, <1>2, <1>3, TypeInvariance, PTL DEF Spec

(* The same of the instances TLC explores, where a library with unlimited   *)
(* history stands beside one with a limit: HistoryKept holds of the former. *)
THEOREM PassesKeepHistory == PassesSpec => []HistoryKept
<1> DEFINE Inv == setting = "unlimited" => TypeInv /\ HistoryInv
<1>1. PassesInit => Inv
  BY InitHistory, InitTypeInv DEF PassesInit
<1>2. Inv /\ [PassesNext]_<<vars, setting>> => Inv'
  <2> SUFFICES ASSUME Inv, [PassesNext]_<<vars, setting>>, setting' = "unlimited"
               PROVE  (TypeInv /\ HistoryInv)'
    OBVIOUS
  <2>1. setting = "unlimited" /\ [Next]_vars
    BY DEF PassesNext
  <2> QED
    BY <2>1, NextTypes, NextKeepsHistory, Windows
<1>3. Inv => HistoryKept
  BY DEF HistoryKept, HistoryInv, StoreInv, Complete, HistoryRestorable, Readable
<1> QED
  BY <1>1, <1>2, <1>3, PTL DEF PassesSpec
=============================================================================
