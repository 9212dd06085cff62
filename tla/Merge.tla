-------------------------------- MODULE Merge --------------------------------
(***************************************************************************)
(* The server-side three-way merge of directory trees (merge_trees), run   *)
(* when an upload's parent is no longer HEAD: base is the tree the client  *)
(* started from, head the library's current tree, remote the client's.     *)
(*                                                                         *)
(* An entry of a directory is a file with a version, or a directory with   *)
(* the set of its entries: an object is named by its content, so comparing *)
(* contents is comparing ids.  A name is a pair: what the file was called, *)
(* and a mark that is 0 until a conflict renames it.  The mark stands for  *)
(* the "(SFConflict <modifier> <time>)" suffix: a file's comes from its    *)
(* own last modification, a directory's from the clock.                    *)
(*                                                                         *)
(* Trees have two levels, where the recursion of merge_level is unrolled.  *)
(***************************************************************************)
EXTENDS Integers, FiniteSets

CONSTANTS
  Names,      \* names in a library's root directory
  SubNames,   \* names in the directories below
  Versions    \* versions of a file

(* A conflict copy is marked with its version, so no version is the mark of *)
(* a name no conflict has touched.                                          *)
Setting == Versions \subseteq Nat \ {0}
ASSUME MarksTellApart == Setting

VARIABLES base, head, remote, phase, merged, conflict, keptDeleted
vars == <<base, head, remote, phase, merged, conflict, keptDeleted>>

-----------------------------------------------------------------------------
(* Trees *)

DirMark == -1
Plain(n) == <<n, 0>>
File(n, v) == [name |-> n, kind |-> "file", ver |-> v, sub |-> {}]
Dir(n, d) == [name |-> n, kind |-> "dir", ver |-> 0, sub |-> d]

(* Every directory whose names are ns, each of them absent or one of the   *)
(* given entries.                                                          *)
Directories(ns, entries(_)) ==
  {UNION {f[n] : n \in ns} :
     f \in {g \in [ns -> {{}} \cup UNION {{{e} : e \in entries(n)} : n \in ns}] :
              \A n \in ns : \A e \in g[n] : e.name = Plain(n)}}

Flat == Directories(SubNames, LAMBDA n : {File(Plain(n), v) : v \in Versions})
Trees == Directories(Names, LAMBDA n : {File(Plain(n), v) : v \in Versions}
                                         \cup {Dir(Plain(n), d) : d \in Flat})

(* A slot of merge_level: the entry of that name, if there is one. *)
Slot(d, n) == {e \in d : e.name = n}
FilesIn(slot) == {e \in slot : e.kind = "file"}
DirsIn(slot) == {e \in slot : e.kind = "dir"}
SameId(s, t) == \E e \in s, f \in t : <<e.kind, e.ver, e.sub>> = <<f.kind, f.ver, f.sub>>

Renamed(slot, mark) == {[e EXCEPT !.name = <<e.name[1], mark>>] : e \in slot}

-----------------------------------------------------------------------------
(* choose_file: what becomes of the files among the three slots.  Copy     *)
(* keeps the head file, if any, and renames the remote one; CopyDir keeps  *)
(* the head file and renames the remote directory.                         *)
Drop == [do |-> "drop", keep |-> {}]
Emit(s) == [do |-> "emit", keep |-> s]
Copy(s) == [do |-> "copy", keep |-> s]
CopyDir(s) == [do |-> "copyDir", keep |-> s]

(* The last writer wins. *)
Mutant_LastWriterWins(b, h, r) == Emit(r)

TwoFiles(b, h, r) ==
  IF SameId(h, r) THEN Emit(h)
  ELSE IF SameId(b, h) THEN Emit(r)
  ELSE IF SameId(b, r) THEN Emit(h)
  ELSE Copy(h)

(* A file that gives way to a directory is gone, changed or not. *)
Mutant_DirectoryWins(b, h, r) ==
  IF FilesIn(b) # {}
    THEN IF SameId(b, r) \/ h # {} THEN Drop ELSE Emit(r)
    ELSE IF h = {} \/ SameId(b, h) THEN Emit(r) ELSE Copy({})

(* Only remote has a file; head has nothing or a directory. *)
RemoteFile(b, h, r) ==
  IF FilesIn(b) # {}
    THEN IF SameId(b, r) THEN Drop ELSE IF h # {} THEN Copy({}) ELSE Emit(r)
    ELSE IF h = {} \/ SameId(b, h) THEN Emit(r) ELSE Copy({})

(* Only head has a file; remote has nothing or a directory. *)
HeadFile(b, h, r) ==
  IF FilesIn(b) # {}
    THEN IF SameId(b, h) THEN Drop ELSE IF r # {} THEN CopyDir(h) ELSE Emit(h)
    ELSE IF r = {} \/ SameId(b, r) THEN Emit(h) ELSE CopyDir(h)

ChooseFile(b, h, r) ==
  CASE FilesIn(h) # {} /\ FilesIn(r) # {} -> TwoFiles(b, h, r)
    [] FilesIn(h) = {} /\ FilesIn(r) # {} -> RemoteFile(b, h, r)
    [] FilesIn(h) # {} /\ FilesIn(r) = {} -> HeadFile(b, h, r)
    [] FilesIn(h) = {} /\ FilesIn(r) = {} -> Drop

(* choose_dir: drop the directory, emit one side's, or merge the three one *)
(* level down and emit the result under one side's entry.                  *)

(* An unchanged directory survives its deletion. *)
Mutant_KeepUnchangedDir(b, s) ==
  [do |-> IF DirsIn(b) = {} \/ SameId(b, s) THEN "emit" ELSE "recurse", side |-> s]

(* Only side s has a directory. *)
OneDir(b, s) ==
  [do |-> IF DirsIn(b) = {} THEN "emit" ELSE IF SameId(b, s) THEN "drop" ELSE "recurse",
   side |-> s]

TwoDirs(b, h, r) ==
  [do |-> IF SameId(h, r) \/ SameId(b, h) \/ SameId(b, r) THEN "emit" ELSE "recurse",
   side |-> IF ~SameId(h, r) /\ SameId(b, h) THEN r ELSE h]

ChooseDir(b, h, r) ==
  CASE DirsIn(h) # {} /\ DirsIn(r) # {} -> TwoDirs(b, h, r)
    [] DirsIn(h) # {} /\ DirsIn(r) = {} -> OneDir(b, h)
    [] DirsIn(h) = {} /\ DirsIn(r) # {} -> OneDir(b, r)
    [] DirsIn(h) = {} /\ DirsIn(r) = {} -> [do |-> "drop", side |-> {}]

(* A new entry counts as one that was deleted. *)
Mutant_NewIsKept(b, h, r) == (h = {}) # (r = {})

(* One side deleted the entry: what is emitted is kept for the other's sake. *)
DeletedBySome(b, h, r) == b # {} /\ (h = {}) # (r = {})

Children(slot) == UNION {e.sub : e \in DirsIn(slot)}

(* One name of merge_level.  The directory part works on the slots the     *)
(* file part leaves, where a remote directory may have been renamed; child *)
(* is the merge one level down.                                            *)
MergeName(child, b, h, r) ==
  LET file == ChooseFile(b, h, r)
      copy == IF file.do = "copy" THEN UNION {Renamed(FilesIn(r), e.ver) : e \in FilesIn(r)} ELSE {}
      rr == IF file.do = "copyDir" THEN Renamed(r, DirMark) ELSE r
      dir == ChooseDir(b, h, rr)
      goesOn == dir.do = "recurse"
  IN [entries |-> file.keep \cup copy
                    \cup CASE dir.do = "drop" -> {}
                           [] dir.do = "emit" -> dir.side
                           [] goesOn -> {[e EXCEPT !.sub = child.entries] : e \in dir.side},
      conflict |-> file.do \in {"copy", "copyDir"} \/ (goesOn /\ child.conflict),
      kept |-> \/ DeletedBySome(b, h, r) /\ (file.do = "emit" \/ dir.do # "drop")
               \/ goesOn /\ child.kept]

(* merge_level groups the three directories by name and collects what each *)
(* name yields.                                                            *)
NamesIn(b, h, r) == {e.name : e \in b \cup h \cup r}

MergeLevel(of) ==
  [entries |-> UNION {of[n].entries : n \in DOMAIN of},
   conflict |-> \E n \in DOMAIN of : of[n].conflict,
   kept |-> \E n \in DOMAIN of : of[n].kept]

(* The lowest level holds files only, nothing is merged below it. *)
Below == [entries |-> {}, conflict |-> FALSE, kept |-> FALSE]

MergeFlat(b, h, r) ==
  MergeLevel([n \in NamesIn(b, h, r) |->
                MergeName(Below, Slot(b, n), Slot(h, n), Slot(r, n))])

MergeTrees(b, h, r) ==
  MergeLevel([n \in NamesIn(b, h, r) |->
                LET bs == Slot(b, n)
                    hs == Slot(h, n)
                    rs == Slot(r, n)
                IN  MergeName(MergeFlat(Children(bs), Children(hs), Children(rs)), bs, hs, rs)])

-----------------------------------------------------------------------------
Init ==
  /\ base \in Trees /\ head \in Trees /\ remote \in Trees
  /\ phase = "uploaded"
  /\ merged = {} /\ conflict = FALSE /\ keptDeleted = FALSE

(* merge_branch merges the upload; the result becomes HEAD. *)
MergeBranch ==
  /\ phase = "uploaded"
  /\ LET m == MergeTrees(base, head, remote) IN
       /\ merged' = m.entries
       /\ conflict' = m.conflict
       /\ keptDeleted' = m.kept
  /\ phase' = "merged"
  /\ UNCHANGED <<base, head, remote>>

Next == MergeBranch
Spec == Init /\ [][Next]_vars

-----------------------------------------------------------------------------
(* The files of a tree, with their paths. *)
Contents(d) ==
  {<<<<e.name>>, e.ver>> : e \in FilesIn(d)}
    \cup UNION {{<<<<e.name, f.name>>, f.ver>> : f \in e.sub} : e \in DirsIn(d)}

(* A path without the marks conflicts put on it. *)
Origin(path) == [i \in DOMAIN path |-> path[i][1]]
Origins(d) == {<<Origin(c[1]), c[2]>> : c \in Contents(d)}

Done == phase = "merged"

(* Whatever either side added or changed since base is in the merged tree: *)
(* head's under its path, remote's under its path or as a conflict copy.   *)
NoWorkLost ==
  Done => /\ Contents(head) \ Contents(base) \subseteq Contents(merged)
          /\ \A c \in Contents(remote) \ Contents(base) :
               <<Origin(c[1]), c[2]>> \in Origins(merged)

(* The merged tree holds nothing but what one side added or changed and    *)
(* what neither side deleted: no deletion is undone except by a change of  *)
(* the other side.                                                         *)
NothingRevived ==
  Done => \A o \in Origins(merged) :
            \/ o \in Origins(head) \cap Origins(remote)
            \/ o \in (Origins(head) \cup Origins(remote)) \ Origins(base)

(* "Within one directory a name is unique" (merge_level), in the merged    *)
(* tree as in the merged ones.                                             *)
UniqueNames ==
  LET Unique(d) == \A e, f \in d : e.name = f.name => e = f
  IN  Done => Unique(merged) /\ \A e \in merged : Unique(e.sub)

(* A side that did not change yields to the other one, and equal sides     *)
(* stay: a merge never disturbs a tree that needs no merging.              *)
OneSidedIsTaken ==
  Done => /\ head = base => merged = remote
          /\ remote = base \/ head = remote => merged = head

(* Who is head and who is remote decides about names only. *)
SidesCommute ==
  Done => Origins(MergeTrees(base, remote, head).entries) = Origins(merged)

(* conflict says that an entry was renamed, and kept_deleted that a path   *)
(* one side had deleted is still there because the other side changed it   *)
(* (MergeOutcome).                                                         *)
FlagsHonest ==
  LET Marked(d) == {e \in d : e.name[2] # 0}
      Paths(d) == {<<e.name[1]>> : e \in d}
                    \cup UNION {{<<e.name[1], f.name[1]>> : f \in e.sub} : e \in d}
  IN  Done => /\ conflict <=> \/ Marked(merged) # {}
                              \/ \E e \in merged : Marked(e.sub) # {}
              /\ keptDeleted <=>
                   \E p \in Paths(base) \cap Paths(merged) :
                     (p \in Paths(head)) # (p \in Paths(remote))

-----------------------------------------------------------------------------
(* What merge_trees promises. *)

(* Whatever either side added or changed since the base is in the merged    *)
(* tree, under its path or as a conflict copy (merge_trees).                *)
(* No two of them share a name, which would hide one: "within one directory *)
(* a name is unique" (merge_level).                                         *)
MergeLosesNothing == NoWorkLost /\ UniqueNames

(* A merge undoes no deletion except for a change of the other side, and    *)
(* where one side changed nothing the other side's tree is the result.      *)
MergeRevivesNothing == NothingRevived /\ OneSidedIsTaken

(* Which side is head decides about names only (choose_file, choose_dir).   *)
MergeCommutes == SidesCommute

(* The flags that word the merge commit say what happened (MergeOutcome).   *)
MergeFlagsHonest == FlagsHonest
=============================================================================
