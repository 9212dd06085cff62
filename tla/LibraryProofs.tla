---------------------------- MODULE LibraryProofs ----------------------------
(***************************************************************************)
(* Proofs about Library: its type invariant, and that a delete or restore  *)
(* broken off anywhere loses no committed content.                         *)
(***************************************************************************)
EXTENDS Library, TLAPS

(* The actions of one request and of one upload. *)
RequestStep(p) == DeleteStep(p) \/ RestoreStep(p) \/ DropStep(p) \/ PurgeStep(p)

USE DEF repoRow, rows, archive, local, counters, history, vars

(* An upload that has stored its block knows which commit it makes. *)
OwnCommit == \A p \in Procs : pc[p] \in {"commit", "swap"} => mine[p] \in Commits

TypeInv == TypeOK /\ OwnCommit

(* Type correctness of every step of a request. *)
LEMMA TypeRequest ==
  ASSUME TypeInv, NEW p \in Requests, RequestStep(p)
  PROVE  TypeInv'
<1> USE LibraryAssumption DEF TypeInv, TypeOK, OwnCommit, Procs, Commits, Heads, NoCommit, NoRow, Labels,
            Goto
<1>1. CASE StartDelete(p)
  BY <1>1 DEF StartDelete
<1>2. CASE AddDeletedRepo(p)
  BY <1>2 DEF AddDeletedRepo
<1>3. CASE ArchiveAndDelete(p)
  BY <1>3 DEF ArchiveAndDelete
<1>4. CASE StartRestore(p)
  BY <1>4 DEF StartRestore
<1>5. CASE CreateRow(p)
  BY <1>5 DEF CreateRow
<1>6. CASE CopyFrom(p)
  BY <1>6 DEF CopyFrom
<1>7. CASE SetHead(p)
  BY <1>7 DEF SetHead
<1>8. CASE AddMember(p)
  BY <1>8 DEF AddMember
<1>9. CASE DropCommits(p)
  BY <1>9 DEF DropCommits
<1>10. CASE DropFs(p)
  BY <1>10 DEF DropFs
<1>11. CASE DropTrash(p)
  BY <1>11 DEF DropTrash
<1>12. CASE StartPurge(p)
  BY <1>12 DEF StartPurge
<1>13. CASE RemoveDir(p)
  BY <1>13 DEF RemoveDir
<1> QED
  BY <1>1, <1>2, <1>3, <1>4, <1>5, <1>6, <1>7, <1>8, <1>9, <1>10, <1>11, <1>12, <1>13
  DEF RequestStep, DeleteStep, RestoreStep, DropStep, PurgeStep

(* Type correctness of every step of an upload, of the sweep and of a      *)
(* failure.                                                                *)
LEMMA TypeOther ==
  ASSUME TypeInv,
         \/ \E w \in Writers : UploadStep(w)
         \/ \E p \in Procs : Fail(p)
         \/ SweepStep
  PROVE  TypeInv'
<1> USE LibraryAssumption DEF TypeInv, TypeOK, OwnCommit, Procs, Commits, Heads, NoCommit, NoRow, Labels,
            Goto
<1>1. ASSUME NEW w \in Writers, UploadBlock(w) PROVE TypeInv'
  BY <1>1 DEF UploadBlock
<1>2. ASSUME NEW w \in Writers, UploadCommit(w) PROVE TypeInv'
  <2>1. CASE live
    <3>1. mine[w] \in Commits
      BY <1>2 DEF UploadCommit
    <3> QED
      BY <1>2, <2>1, <3>1 DEF UploadCommit
  <2>2. CASE ~live
    BY <1>2, <2>2 DEF UploadCommit
  <2> QED
    BY <2>1, <2>2
<1>3. ASSUME NEW w \in Writers, UploadSwap(w) PROVE TypeInv'
  BY <1>3 DEF UploadSwap
<1>4. ASSUME NEW p \in Procs, Fail(p) PROVE TypeInv'
  BY <1>4 DEF Fail
<1>5. CASE SweepReadRepo
  BY <1>5 DEF SweepReadRepo
<1>6. CASE SweepReadTrash
  BY <1>6 DEF SweepReadTrash
<1>7. CASE SweepRemove
  BY <1>7 DEF SweepRemove
<1> QED
  BY <1>1, <1>2, <1>3, <1>4, <1>5, <1>6, <1>7 DEF UploadStep, SweepStep

(* The initial state is well typed. *)
LEMMA TypeInit == Init => TypeInv
<1> SUFFICES ASSUME Init PROVE TypeInv
  OBVIOUS
<1>1. live \in BOOLEAN /\ member \in BOOLEAN /\ purged \in BOOLEAN
  BY LibraryAssumption DEF Init
<1> QED
  BY <1>1, LibraryAssumption
  DEF Init, TypeInv, TypeOK, OwnCommit, Procs, Commits, Heads, NoCommit, NoRow, Labels

(* The tables, the directory and the requests' locals keep their types     *)
(* through every interleaving, failures included.                          *)
THEOREM TypeCorrect == Spec => []TypeOK
<1>1. Init => TypeInv
  BY TypeInit
<1>2. TypeInv /\ [Next]_vars => TypeInv'
  <2>1. ASSUME TypeInv, Next PROVE TypeInv'
    BY <2>1, TypeRequest, TypeOther DEF Next, RequestStep
  <2>2. ASSUME TypeInv, UNCHANGED vars PROVE TypeInv'
    BY <2>2 DEF TypeInv, TypeOK, OwnCommit
  <2> QED
    BY <2>1, <2>2
<1>3. TypeInv => TypeOK
  BY DEF TypeInv
<1> QED
  BY <1>1, <1>2, <1>3, PTL DEF Spec

-----------------------------------------------------------------------------
(* Commit k is in the tables, or in an archive the trash row leads to. *)
Kept(k) ==
  \/ k \in commits /\ k \in fs
  \/ trash # NoRow /\ k \in arCommits /\ k \in arFs

(* Only the requests of SafeSetting run. *)
NoPurge ==
  /\ purged = FALSE /\ spc = "idle"
  /\ \A p \in Procs : pc[p] \notin {"purgeDropCommits", "purgeDropFs", "purgeDropTrash",
                                    "removeDir"}

(* Each commit row comes with its tree and its data, live or archived, and *)
(* a library without a repos row has no rows.                              *)
Closed ==
  /\ commits \subseteq fs /\ arCommits \subseteq arFs
  /\ commits \subseteq disk /\ arCommits \subseteq disk
  /\ ~live => commits = {} /\ fs = {}

(* What a delete relies on when it replaces the archive. *)
DeleteSafe ==
  \A p \in Requests :
    /\ pc[p] \in {"addTrash", "archive"} => arCommits = {} /\ arFs = {}
    /\ pc[p] = "archive" => trash # NoRow

(* What a restore relies on when it drops the archive. *)
RestoreSafe ==
  \A p \in Requests :
    /\ pc[p] \in {"setHead", "member", "restoreDropCommits", "restoreDropFs", "restoreDropTrash"}
         => arCommits \subseteq commits /\ arFs \subseteq fs
    /\ pc[p] = "restoreDropFs" => arCommits = {}

(* Acknowledged uploads, HEAD and the uploads about to swap HEAD are kept. *)
AllKept ==
  /\ \A k \in acked : k \in disk /\ Kept(k)
  /\ head # NoCommit => head \in disk /\ Kept(head)
  /\ \A w \in Writers : pc[w] = "commit" => mine[w] \in disk
  /\ \A w \in Writers : pc[w] = "swap" => mine[w] \in disk /\ Kept(mine[w])

IndInv == TypeInv /\ NoPurge /\ Closed /\ DeleteSafe /\ RestoreSafe /\ AllKept

(* A step of the only request keeps the invariant. *)
LEMMA SafeRequest ==
  ASSUME SafeSetting, IndInv, NEW p \in Requests, RequestStep(p), TypeInv'
  PROVE  IndInv'
<1> USE LibraryAssumption
    DEF IndInv, NoPurge, Closed, DeleteSafe, RestoreSafe, AllKept, Kept, Goto, Procs
<1>t. /\ p \in Procs /\ pc \in [Procs -> Labels]
      /\ \A q \in Requests : q = p
      /\ \A w \in Writers : w # p /\ w \in Procs
  BY DEF SafeSetting, TypeInv, TypeOK
<1>n. trash \in Heads \cup {NoRow} /\ saved \in [Procs -> Heads] /\ NoRow \notin Heads
  BY DEF TypeInv, TypeOK, Heads, Commits, NoCommit, NoRow
<1>1. CASE StartDelete(p)
  BY <1>1, <1>t DEF StartDelete, SafeSetting, HalfRestored
<1>2. CASE AddDeletedRepo(p)
  BY <1>2, <1>t, <1>n DEF AddDeletedRepo
<1>3. CASE ArchiveAndDelete(p)
  BY <1>3, <1>t DEF ArchiveAndDelete
<1>4. CASE StartRestore(p)
  BY <1>4, <1>t DEF StartRestore
<1>5. CASE CreateRow(p)
  BY <1>5, <1>t DEF CreateRow
<1>6. CASE CopyFrom(p)
  BY <1>6, <1>t DEF CopyFrom
<1>7. CASE SetHead(p)
  BY <1>7, <1>t DEF SetHead
<1>8. CASE AddMember(p)
  BY <1>8, <1>t DEF AddMember
<1>9. CASE DropCommits(p)
  BY <1>9, <1>t DEF DropCommits
<1>10. CASE DropFs(p)
  BY <1>10, <1>t DEF DropFs
<1>11. CASE DropTrash(p)
  BY <1>11, <1>t DEF DropTrash
<1>12. ~PurgeStep(p)
  BY <1>t DEF PurgeStep, StartPurge, RemoveDir, SafeSetting
<1> QED
  BY <1>1, <1>2, <1>3, <1>4, <1>5, <1>6, <1>7, <1>8, <1>9, <1>10, <1>11, <1>12
  DEF RequestStep, DeleteStep, RestoreStep, DropStep

(* A step of an upload, or a failure, keeps the invariant. *)
LEMMA SafeOther ==
  ASSUME SafeSetting, IndInv, TypeInv',
         \/ \E w \in Writers : UploadStep(w)
         \/ \E p \in Procs : Fail(p)
         \/ SweepStep
  PROVE  IndInv'
<1> USE LibraryAssumption
    DEF IndInv, NoPurge, Closed, DeleteSafe, RestoreSafe, AllKept, Kept, Goto, Procs
<1>t. /\ pc \in [Procs -> Labels] /\ mine \in [Procs -> Heads]
      /\ \A q \in Requests : q \in Procs /\ q \notin Writers
      /\ \A w \in Writers : w \in Procs
  BY DEF TypeInv, TypeOK
<1>1. ASSUME NEW w \in Writers, UploadBlock(w) PROVE IndInv'
  BY <1>1, <1>t DEF UploadBlock
<1>2. ASSUME NEW w \in Writers, UploadCommit(w) PROVE IndInv'
  BY <1>2, <1>t DEF UploadCommit
<1>3. ASSUME NEW w \in Writers, UploadSwap(w) PROVE IndInv'
  BY <1>3, <1>t DEF UploadSwap
<1>4. ASSUME NEW p \in Procs, Fail(p) PROVE IndInv'
  BY <1>4, <1>t DEF Fail
<1>5. ~SweepStep
  BY DEF SweepStep, SweepReadRepo, SweepReadTrash, SweepRemove, SafeSetting
<1> QED
  BY <1>1, <1>2, <1>3, <1>4, <1>5 DEF UploadStep

(* The invariant holds throughout. *)
LEMMA Invariance ==
  ASSUME SafeSetting
  PROVE  Spec => []IndInv
<1>1. Init => IndInv
  <2> SUFFICES ASSUME Init PROVE IndInv
    OBVIOUS
  <2>1. TypeInv
    BY TypeInit
  <2> QED
    BY <2>1, LibraryAssumption
    DEF Init, IndInv, NoPurge, Closed, DeleteSafe, RestoreSafe, AllKept, Kept, Procs
<1>2. IndInv /\ [Next]_vars => IndInv'
  <2>1. ASSUME IndInv, Next PROVE IndInv'
    <3>1. TypeInv'
      BY <2>1, TypeRequest, TypeOther DEF Next, RequestStep, IndInv
    <3> QED
      BY <2>1, <3>1, SafeRequest, SafeOther DEF Next, RequestStep
  <2>2. ASSUME IndInv, UNCHANGED vars PROVE IndInv'
    BY <2>2
    DEF IndInv, TypeInv, TypeOK, OwnCommit, NoPurge, Closed, DeleteSafe, RestoreSafe,
        AllKept, Kept
  <2> QED
    BY <2>1, <2>2
<1> QED
  BY <1>1, <1>2, PTL DEF Spec

(* However many uploads run and wherever deletes and restores break off,   *)
(* every acknowledged upload stays in the library or restorable, with its  *)
(* data on disk.                                                           *)
THEOREM ContentSurvives ==
  ASSUME SafeSetting
  PROVE  Spec => []ContentReachable
<1>1. IndInv => ContentReachable
  BY DEF IndInv, AllKept, Kept, Closed, ContentReachable, InLibrary, Restorable
<1> QED
  BY <1>1, Invariance, PTL

(* Under the same assumptions HEAD of a library that is not in the trash   *)
(* can be checked out.                                                     *)
THEOREM HeadStaysReadable ==
  ASSUME SafeSetting
  PROVE  Spec => []HeadReadable
<1>1. IndInv => HeadReadable
  BY DEF IndInv, AllKept, Kept, Closed, HeadReadable, InLibrary
<1> QED
  BY <1>1, Invariance, PTL
=============================================================================
