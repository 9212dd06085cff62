--------------------------- MODULE ServicesProofs ---------------------------
(***************************************************************************)
(* Theorems about the services of MCServices: first the merge, then the    *)
(* outbox, then the services beside each other.                            *)
(*                                                                         *)
(* The merge is a function, and the theorems say what it makes of any      *)
(* three trees, for any set of names and of versions.  The argument goes   *)
(* the way merge_level goes:                                               *)
(*                                                                         *)
(*   - a slot is nothing, one file or one directory, and comparing ids is  *)
(*     comparing slots (SlotKinds, SameIdIsEqual);                         *)
(*   - one name: where one side changed at most its entry is taken         *)
(*     (NameTaken); where both did, NameMerged says what is emitted,       *)
(*     renamed and recursed into, whatever the table's row;                *)
(*   - what that means for each entry (the Yield lemmas): the files of the *)
(*     name follow the three-way rule, what is below the name is what the  *)
(*     children merged to, marks and flags agree;                          *)
(*   - one directory (the Level lemmas): names do not interfere, because a *)
(*     mark changes only the second half of a name;                        *)
(*   - the lower level has nothing below it (FlatMerge), and its promise   *)
(*     is what the upper level's children rest on (TreeIsLevel).           *)
(*                                                                         *)
(* The outbox, for any number of messages, senders, restarts, faults and   *)
(* requests: where no lease runs out under a sender, a message is in       *)
(* flight once at most, every delivery beyond the first is accounted for   *)
(* by a lost answer or a lost note, and a sent message stays sent.         *)
(*                                                                         *)
(* The other services bring their invariants along (UploadsProofs,         *)
(* BlockFilesProofs, TreeOpsProofs), which the composition keeps.          *)
(***************************************************************************)
EXTENDS MCServices, FiniteSetTheorems, TLAPS

-----------------------------------------------------------------------------
(* Directories *)

Unique(d) == \A e, f \in d : e.name = f.name => e = f
FileOf(e, ns) == \E x \in ns, v \in Versions : e = File(Plain(x), v)
DirOf(e, ns) == \E x \in ns, d \in Flat : e = Dir(Plain(x), d)
FlatDir(d) == (\A e \in d : FileOf(e, SubNames)) /\ Unique(d)
TreeDir(d) == (\A e \in d : FileOf(e, Names) \/ DirOf(e, Names)) /\ Unique(d)

(* A list of files: each under a name of its own.                           *)
LEMMA FlatShape ==
  ASSUME NEW d \in Flat
  PROVE  FlatDir(d)
<1> DEFINE E(n) == {File(Plain(n), v) : v \in Versions}
<1>1. PICK f \in [SubNames -> {{}} \cup UNION {{{e} : e \in E(n)} : n \in SubNames}] :
        /\ d = UNION {f[n] : n \in SubNames}
        /\ \A n \in SubNames : \A e \in f[n] : e.name = Plain(n)
  BY DEF Flat, Directories
<1>2. ASSUME NEW n \in SubNames, NEW e \in f[n]
      PROVE  f[n] = {e} /\ \E v \in Versions : e = File(Plain(n), v)
  <2>0. PICK m \in SubNames : \E g \in E(m) : f[n] = {g}
    BY <1>1, <1>2
  <2>1. PICK g \in E(m) : f[n] = {g}
    BY <2>0
  <2>2. PICK v \in Versions : g = File(Plain(m), v)
    BY <2>1
  <2>3. e = g /\ e.name = Plain(n)
    BY <2>1, <1>1, <1>2
  <2> QED
    BY <2>1, <2>2, <2>3 DEF File, Plain
<1>3. ASSUME NEW e \in d
      PROVE  \E n \in SubNames : e \in f[n]
  BY <1>1
<1>4. ASSUME NEW e \in d, NEW g \in d, e.name = g.name
      PROVE  e = g
  <2>1. PICK n \in SubNames : e \in f[n]
    BY <1>3
  <2>2. PICK m \in SubNames : g \in f[m]
    BY <1>3
  <2>3. Plain(n) = Plain(m)
    BY <1>1, <1>4, <2>1, <2>2
  <2> QED
    BY <2>1, <2>2, <2>3, <1>2 DEF Plain
<1> QED
  BY <1>2, <1>3, <1>4 DEF FlatDir, FileOf, Unique

(* A tree: files and lists of files, each under a name of its own.          *)
LEMMA TreeShape ==
  ASSUME NEW d \in Trees
  PROVE  TreeDir(d)
<1> DEFINE E(n) == {File(Plain(n), v) : v \in Versions} \cup {Dir(Plain(n), s) : s \in Flat}
<1>1. PICK f \in [Names -> {{}} \cup UNION {{{e} : e \in E(n)} : n \in Names}] :
        /\ d = UNION {f[n] : n \in Names}
        /\ \A n \in Names : \A e \in f[n] : e.name = Plain(n)
  BY DEF Trees, Directories
<1>2. ASSUME NEW n \in Names, NEW e \in f[n]
      PROVE  f[n] = {e} /\ (FileOf(e, Names) \/ DirOf(e, Names))
  <2>0. PICK m \in Names : \E g \in E(m) : f[n] = {g}
    BY <1>1, <1>2
  <2>1. PICK g \in E(m) : f[n] = {g}
    BY <2>0
  <2>2. e = g
    BY <2>1, <1>2
  <2> QED
    BY <2>1, <2>2 DEF FileOf, DirOf
<1>3. ASSUME NEW e \in d
      PROVE  \E n \in Names : e \in f[n]
  BY <1>1
<1>4. ASSUME NEW e \in d, NEW g \in d, e.name = g.name
      PROVE  e = g
  <2>1. PICK n \in Names : e \in f[n]
    BY <1>3
  <2>2. PICK m \in Names : g \in f[m]
    BY <1>3
  <2>3. Plain(n) = Plain(m)
    BY <1>1, <1>4, <2>1, <2>2
  <2> QED
    BY <2>1, <2>2, <2>3, <1>2 DEF Plain
<1> QED
  BY <1>2, <1>3, <1>4 DEF TreeDir, Unique

-----------------------------------------------------------------------------
(* Slots *)

FileSlot(s, n) == \E v \in Versions : s = {File(n, v)}
DirSlot(s, n, ds) == \E d \in ds : s = {Dir(n, d)}
IsSlot(s, n, ds) == s = {} \/ FileSlot(s, n) \/ DirSlot(s, n, ds)

LEMMA FileFields ==
  ASSUME NEW n, NEW v
  PROVE  /\ File(n, v).name = n /\ File(n, v).kind = "file"
         /\ File(n, v).ver = v /\ File(n, v).sub = {}
BY DEF File

LEMMA DirFields ==
  ASSUME NEW n, NEW d
  PROVE  Dir(n, d).name = n /\ Dir(n, d).kind = "dir" /\ Dir(n, d).ver = 0 /\ Dir(n, d).sub = d
BY DEF Dir

LEMMA NoEntry ==
  /\ FilesIn({}) = {} /\ DirsIn({}) = {} /\ Children({}) = {}
  /\ \A s : ~SameId({}, s) /\ ~SameId(s, {})
BY DEF FilesIn, DirsIn, Children, SameId

LEMMA OneFile ==
  ASSUME NEW n, NEW v
  PROVE  LET s == {File(n, v)} IN
         FilesIn(s) = s /\ DirsIn(s) = {} /\ Children(s) = {} /\ s # {}
BY DEF File, FilesIn, DirsIn, Children

LEMMA OneDirectory ==
  ASSUME NEW n, NEW d
  PROVE  LET s == {Dir(n, d)} IN
         FilesIn(s) = {} /\ DirsIn(s) = s /\ Children(s) = d /\ s # {}
<1> DEFINE s == {Dir(n, d)}
<1>1. FilesIn(s) = {} /\ DirsIn(s) = s /\ s # {}
  BY DEF Dir, FilesIn, DirsIn
<1>2. {e.sub : e \in s} = {d}
  BY DEF Dir
<1>3. Children(s) = UNION {d}
  BY <1>1, <1>2, Zenon DEF Children
<1> HIDE DEF s
<1>4. Children(s) = d
  BY <1>3
<1> QED
  BY <1>1, <1>4 DEF s

(* A slot is empty, a file or a directory, and never two of these.          *)
LEMMA SlotKinds ==
  ASSUME NEW s, NEW n, NEW ds, IsSlot(s, n, ds)
  PROVE  /\ s = {} <=> FilesIn(s) = {} /\ DirsIn(s) = {}
         /\ FileSlot(s, n) <=> FilesIn(s) # {}
         /\ DirSlot(s, n, ds) <=> DirsIn(s) # {}
         /\ FileSlot(s, n) => FilesIn(s) = s /\ DirsIn(s) = {} /\ Children(s) = {}
         /\ DirSlot(s, n, ds) => FilesIn(s) = {} /\ DirsIn(s) = s /\ Children(s) \in ds
                                 /\ s = {Dir(n, Children(s))}
         /\ s = {} => Children(s) = {}
<1>1. s = {} => FilesIn(s) = {} /\ DirsIn(s) = {} /\ Children(s) = {}
  BY NoEntry
<1>2. FileSlot(s, n) => FilesIn(s) = s /\ DirsIn(s) = {} /\ Children(s) = {} /\ s # {}
  BY OneFile, Zenon DEF FileSlot
<1>3. DirSlot(s, n, ds) => /\ FilesIn(s) = {} /\ DirsIn(s) = s /\ Children(s) \in ds /\ s # {}
                           /\ s = {Dir(n, Children(s))}
  <2> SUFFICES ASSUME NEW d \in ds, s = {Dir(n, d)}
               PROVE  /\ FilesIn(s) = {} /\ DirsIn(s) = s /\ Children(s) \in ds /\ s # {}
                      /\ s = {Dir(n, Children(s))}
    BY DEF DirSlot
  <2>1. FilesIn(s) = {} /\ DirsIn(s) = s /\ Children(s) = d /\ s # {}
    BY OneDirectory, Zenon
  <2> QED
    BY <2>1
<1>4. s = {} \/ FileSlot(s, n) \/ DirSlot(s, n, ds)
  BY DEF IsSlot
<1> QED
  BY <1>1, <1>2, <1>3, <1>4

LEMMA SlotIsOneKind ==
  ASSUME NEW s, NEW n, NEW ds, IsSlot(s, n, ds)
  PROVE  /\ s = {} <=> FilesIn(s) = {} /\ DirsIn(s) = {}
         /\ \/ FilesIn(s) = s /\ DirsIn(s) = {}
            \/ FilesIn(s) = {} /\ DirsIn(s) = s
<1>1. s = {} \/ FileSlot(s, n) \/ DirSlot(s, n, ds)
  BY DEF IsSlot
<1> QED
  BY <1>1, SlotKinds, NoEntry

LEMMA SameIdOne ==
  ASSUME NEW e, NEW f
  PROVE  SameId({e}, {f}) <=> e.kind = f.kind /\ e.ver = f.ver /\ e.sub = f.sub
<1>1. SameId({e}, {f}) <=> <<e.kind, e.ver, e.sub>> = <<f.kind, f.ver, f.sub>>
  BY Zenon DEF SameId
<1> QED
  BY <1>1

(* Entries of one name have the same id when they are the same.             *)
LEMMA SameIdIsEqual ==
  ASSUME NEW n, NEW ds, NEW s, NEW t, IsSlot(s, n, ds), IsSlot(t, n, ds)
  PROVE  SameId(s, t) <=> s = t /\ s # {}
<1>1. CASE s = {} \/ t = {}
  BY <1>1, NoEntry
<1>2. ASSUME NEW v, NEW w, s = {File(n, v)}, t = {File(n, w)}
      PROVE  SameId(s, t) <=> s = t
  <2>1. SameId(s, t) <=> /\ File(n, v).kind = File(n, w).kind /\ File(n, v).ver = File(n, w).ver
                         /\ File(n, v).sub = File(n, w).sub
    BY <1>2, SameIdOne, Zenon
  <2> QED
    BY <1>2, <2>1 DEF File
<1>3. ASSUME NEW v, NEW w, s = {Dir(n, v)}, t = {Dir(n, w)}
      PROVE  SameId(s, t) <=> s = t
  <2>1. SameId(s, t) <=> /\ Dir(n, v).kind = Dir(n, w).kind /\ Dir(n, v).ver = Dir(n, w).ver
                         /\ Dir(n, v).sub = Dir(n, w).sub
    BY <1>3, SameIdOne, Zenon
  <2> QED
    BY <1>3, <2>1 DEF Dir
<1>4. ASSUME NEW v, NEW w, s = {Dir(n, v)}, t = {File(n, w)}
      PROVE  ~SameId(s, t) /\ s # t
  <2>1. SameId(s, t) <=> /\ Dir(n, v).kind = File(n, w).kind /\ Dir(n, v).ver = File(n, w).ver
                         /\ Dir(n, v).sub = File(n, w).sub
    BY <1>4, SameIdOne, Zenon
  <2> QED
    BY <1>4, <2>1 DEF Dir, File
<1>5. ASSUME NEW v, NEW w, s = {File(n, v)}, t = {Dir(n, w)}
      PROVE  ~SameId(s, t) /\ s # t
  <2>1. SameId(s, t) <=> /\ File(n, v).kind = Dir(n, w).kind /\ File(n, v).ver = Dir(n, w).ver
                         /\ File(n, v).sub = Dir(n, w).sub
    BY <1>5, SameIdOne, Zenon
  <2> QED
    BY <1>5, <2>1 DEF Dir, File
<1> QED
  BY <1>1, <1>2, <1>3, <1>4, <1>5, OneFile, OneDirectory DEF IsSlot, FileSlot, DirSlot
-----------------------------------------------------------------------------
(* One name *)

Outcome(m, entries, conf, kept) ==
  m.entries = entries /\ (m.conflict <=> conf) /\ (m.kept <=> kept)

(* The two halves of MergeName, put together. *)
Copied(do, r) == IF do = "copy" THEN UNION {Renamed(FilesIn(r), e.ver) : e \in FilesIn(r)} ELSE {}
Left(do, r) == IF do = "copyDir" THEN Renamed(r, DirMark) ELSE r
Part(child, act, side) ==
  CASE act = "drop" -> {}
    [] act = "emit" -> side
    [] act = "recurse" -> {[e EXCEPT !.sub = child.entries] : e \in side}
Conflicts(child, do, act) == do \in {"copy", "copyDir"} \/ (act = "recurse" /\ child.conflict)
Keeps(child, b, h, r, do, act) ==
  \/ DeletedBySome(b, h, r) /\ (do = "emit" \/ act # "drop")
  \/ act = "recurse" /\ child.kept

LEMMA Assembled ==
  ASSUME NEW child, NEW b, NEW h, NEW r, NEW do, NEW keep, NEW act, NEW side,
         ChooseFile(b, h, r) = [do |-> do, keep |-> keep],
         ChooseDir(b, h, Left(do, r)) = [do |-> act, side |-> side]
  PROVE  Outcome(MergeName(child, b, h, r),
                 keep \cup Copied(do, r) \cup Part(child, act, side),
                 Conflicts(child, do, act), Keeps(child, b, h, r, do, act))
<1> DEFINE choice == ChooseFile(b, h, r)
           cp == IF choice.do = "copy"
                   THEN UNION {Renamed(FilesIn(r), e.ver) : e \in FilesIn(r)} ELSE {}
           r2 == IF choice.do = "copyDir" THEN Renamed(r, DirMark) ELSE r
           dir == ChooseDir(b, h, r2)
           m == MergeName(child, b, h, r)
<1>1. choice.do = do /\ choice.keep = keep
  OBVIOUS
<1>2. cp = Copied(do, r) /\ r2 = Left(do, r)
  BY <1>1, Zenon DEF Copied, Left
<1>3. dir.do = act /\ dir.side = side
  BY <1>2
<1>4. m = [entries |-> choice.keep \cup cp
                       \cup CASE dir.do = "drop" -> {}
                              [] dir.do = "emit" -> dir.side
                              [] dir.do = "recurse" ->
                                   {[e EXCEPT !.sub = child.entries] : e \in dir.side},
           conflict |-> choice.do \in {"copy", "copyDir"} \/ (dir.do = "recurse" /\ child.conflict),
           kept |-> \/ DeletedBySome(b, h, r) /\ (choice.do = "emit" \/ dir.do # "drop")
                    \/ dir.do = "recurse" /\ child.kept]
  BY Zenon DEF MergeName
<1> HIDE DEF choice, cp, r2, dir, m
<1>5. /\ m.conflict <=> Conflicts(child, do, act)
      /\ m.kept <=> Keeps(child, b, h, r, do, act)
  BY <1>1, <1>3, <1>4 DEF Conflicts, Keeps
<1>6. m.entries = keep \cup cp \cup Part(child, act, side)
  BY <1>1, <1>3, <1>4 DEF Part
<1> QED
  BY <1>2, <1>5, <1>6 DEF Outcome, m

Slots(n, ds, b, h, r) == IsSlot(b, n, ds) /\ IsSlot(h, n, ds) /\ IsSlot(r, n, ds)

(* One side is as the base has it, or both sides agree. *)
OneSided(b, h, r) == b = h \/ b = r \/ h = r
Taken(b, h, r) == IF b = h THEN r ELSE h

(* Where one side changed at most, its entry is the result. *)
LEMMA NameTaken ==
  ASSUME NEW n, NEW ds, NEW child, NEW b, NEW h, NEW r, Slots(n, ds, b, h, r),
         OneSided(b, h, r)
  PROVE  Outcome(MergeName(child, b, h, r), Taken(b, h, r), FALSE, FALSE)
<1> DEFINE t == Taken(b, h, r)
<1>1. /\ SameId(h, r) <=> h = r /\ h # {}
      /\ SameId(b, h) <=> b = h /\ b # {}
      /\ SameId(b, r) <=> b = r /\ b # {}
  BY SameIdIsEqual DEF Slots
<1>2. \A s \in {b, h, r} :
        /\ s = {} <=> FilesIn(s) = {} /\ DirsIn(s) = {}
        /\ \/ FilesIn(s) = s /\ DirsIn(s) = {}
           \/ FilesIn(s) = {} /\ DirsIn(s) = s
  BY SlotIsOneKind DEF Slots
<1>3. t \in {h, r}
  BY DEF Taken
<1>4. ChooseFile(b, h, r) = [do |-> IF FilesIn(t) # {} THEN "emit" ELSE "drop", keep |-> FilesIn(t)]
  BY <1>1, <1>2
  DEF ChooseFile, TwoFiles, RemoteFile, HeadFile, Emit, Drop, OneSided, Taken
<1>5. PICK side : /\ ChooseDir(b, h, r) = [do |-> IF DirsIn(t) # {} THEN "emit" ELSE "drop",
                                           side |-> side]
                  /\ DirsIn(t) # {} => side = t
  <2>1. CASE DirsIn(h) # {} /\ DirsIn(r) # {}
    BY <2>1, <1>1, <1>2 DEF ChooseDir, TwoDirs, OneSided, Taken
  <2>2. CASE DirsIn(h) # {} /\ DirsIn(r) = {}
    BY <2>2, <1>1, <1>2 DEF ChooseDir, OneDir, OneSided, Taken
  <2>3. CASE DirsIn(h) = {} /\ DirsIn(r) # {}
    BY <2>3, <1>1, <1>2 DEF ChooseDir, OneDir, OneSided, Taken
  <2>4. CASE DirsIn(h) = {} /\ DirsIn(r) = {}
    BY <2>4, <1>1, <1>2 DEF ChooseDir, OneSided, Taken
  <2> QED
    BY <2>1, <2>2, <2>3, <2>4
<1> DEFINE do == IF FilesIn(t) # {} THEN "emit" ELSE "drop"
           act == IF DirsIn(t) # {} THEN "emit" ELSE "drop"
<1>6. /\ t = {} <=> FilesIn(t) = {} /\ DirsIn(t) = {}
      /\ \/ FilesIn(t) = t /\ DirsIn(t) = {}
         \/ FilesIn(t) = {} /\ DirsIn(t) = t
  BY <1>2, <1>3
<1>7. Copied(do, r) = {} /\ Left(do, r) = r /\ Part(child, act, side) = DirsIn(t)
  BY <1>5, <1>6 DEF Copied, Left, Part
<1>8. ~Conflicts(child, do, act)
  BY DEF Conflicts
<1>9. ~Keeps(child, b, h, r, do, act)
  BY <1>6 DEF Keeps, DeletedBySome, Taken, OneSided
<1>10. FilesIn(t) \cup {} \cup DirsIn(t) = t
  BY <1>6
<1>11. Outcome(MergeName(child, b, h, r), FilesIn(t) \cup Copied(do, r) \cup Part(child, act, side),
               Conflicts(child, do, act), Keeps(child, b, h, r, do, act))
  BY <1>4, <1>5, <1>7, Assembled
<1> HIDE DEF t, do, act
<1> QED
  BY <1>7, <1>8, <1>9, <1>10, <1>11 DEF Outcome, t

(* What the merge one level down has to bring along: where one side of it   *)
(* changed at most, it took that side.                                      *)
Settled(child, b, h, r) ==
  OneSided(b, h, r) => Outcome(child, Taken(b, h, r), FALSE, FALSE)

LEMMA RenamedDir ==
  ASSUME NEW n, NEW d, NEW mark
  PROVE  Renamed({Dir(n, d)}, mark) = {Dir(<<n[1], mark>>, d)}
BY DEF Renamed, Dir

LEMMA RenamedFile ==
  ASSUME NEW n, NEW v, NEW mark
  PROVE  Renamed({File(n, v)}, mark) = {File(<<n[1], mark>>, v)}
BY DEF Renamed, File

LEMMA CopiedFile ==
  ASSUME NEW n, NEW v
  PROVE  Copied("copy", {File(n, v)}) = {File(<<n[1], v>>, v)}
<1> DEFINE s == {File(n, v)}
<1>1. FilesIn(s) = s
  BY OneFile
<1>2. {Renamed(s, e.ver) : e \in s} = {Renamed(s, v)}
  BY DEF File
<1>3. Copied("copy", s) = UNION {Renamed(s, v)}
  BY <1>1, <1>2, Zenon DEF Copied
<1>4. Renamed(s, v) = {File(<<n[1], v>>, v)}
  BY RenamedFile
<1> HIDE DEF s
<1> QED
  BY <1>3, <1>4 DEF s

LEMMA Refilled ==
  ASSUME NEW child, NEW n, NEW d
  PROVE  Part(child, "recurse", {Dir(n, d)}) = {Dir(n, child.entries)}
<1>1. Part(child, "recurse", {Dir(n, d)})
        = {[e EXCEPT !.sub = child.entries] : e \in {Dir(n, d)}}
  BY Zenon DEF Part
<1>2. [Dir(n, d) EXCEPT !.sub = child.entries] = Dir(n, child.entries)
  BY DEF Dir
<1> QED
  BY <1>1, <1>2

(* Where both sides changed: neither file is lost, the directories are      *)
(* merged, and of a file and a directory head's keeps the name.             *)
MergedFiles(h, r) ==
  FilesIn(h) \cup IF h = {} THEN FilesIn(r) ELSE Copied("copy", r)
MergedDirs(child, n, h, r) ==
  IF DirsIn(h) # {} \/ (h = {} /\ DirsIn(r) # {}) THEN {Dir(n, child.entries)}
  ELSE IF DirsIn(r) # {} THEN {Dir(<<n[1], DirMark>>, child.entries)}
  ELSE {}

BothChanged(n, ds, child, b, h, r) ==
  /\ Slots(n, ds, b, h, r)
  /\ ~OneSided(b, h, r)
  /\ Settled(child, Children(b), Children(h), Children(r))

LEMMA MergedFilesOnly ==
  ASSUME NEW n, NEW ds, NEW child, NEW b, NEW h, NEW r, BothChanged(n, ds, child, b, h, r),
         DirsIn(h) = {}, DirsIn(r) = {}
  PROVE  Outcome(MergeName(child, b, h, r),
                 MergedFiles(h, r) \cup MergedDirs(child, n, h, r),
                 (h # {} /\ r # {}) \/ child.conflict,
                 h = {} \/ r = {} \/ child.kept)
<1>1. /\ SameId(h, r) <=> h = r /\ h # {}
      /\ SameId(b, h) <=> b = h /\ b # {}
      /\ SameId(b, r) <=> b = r /\ b # {}
  BY SameIdIsEqual DEF Slots, BothChanged
<1>2. /\ h = {} <=> FilesIn(h) = {} /\ DirsIn(h) = {}
      /\ r = {} <=> FilesIn(r) = {} /\ DirsIn(r) = {}
      /\ FilesIn(h) = h /\ FilesIn(r) = r
  BY SlotIsOneKind, NoEntry DEF Slots, BothChanged
<1>3. b # h /\ b # r /\ h # r
  BY DEF BothChanged, OneSided
<1> DEFINE do == IF h = {} \/ r = {} THEN "emit" ELSE "copy"
           keep == IF h = {} THEN r ELSE h
<1>4. ChooseFile(b, h, r) = [do |-> do, keep |-> keep]
  BY <1>1, <1>2, <1>3 DEF ChooseFile, TwoFiles, RemoteFile, HeadFile, Emit, Copy
<1>5. Left(do, r) = r /\ ChooseDir(b, h, r) = [do |-> "drop", side |-> {}]
  BY DEF Left, ChooseDir
<1>6. Outcome(MergeName(child, b, h, r), keep \cup Copied(do, r) \cup Part(child, "drop", {}),
              Conflicts(child, do, "drop"), Keeps(child, b, h, r, do, "drop"))
  BY <1>4, <1>5, Assembled
<1>7. Part(child, "drop", {}) = {} /\ MergedDirs(child, n, h, r) = {}
  BY DEF Part, MergedDirs
<1>8. keep \cup Copied(do, r) = MergedFiles(h, r)
  <2>1. r = {} => Copied("copy", r) = {}
    BY NoEntry DEF Copied
  <2> QED
    BY <2>1, <1>2, <1>3 DEF Copied, MergedFiles
<1>9. ~child.conflict /\ ~child.kept
  <2>1. Children(h) = {} /\ Children(r) = {}
    BY Zenon DEF Children
  <2> QED
    BY <2>1 DEF BothChanged, Settled, OneSided, Outcome
<1>10. Conflicts(child, do, "drop") <=> (h # {} /\ r # {}) \/ child.conflict
  BY <1>9 DEF Conflicts
<1>11. Keeps(child, b, h, r, do, "drop") <=> h = {} \/ r = {} \/ child.kept
  BY <1>9, <1>3 DEF Keeps, DeletedBySome
<1> HIDE DEF do, keep
<1> QED
  BY <1>6, <1>7, <1>8, <1>10, <1>11 DEF Outcome

LEMMA MergedTwoDirs ==
  ASSUME NEW n, NEW ds, NEW child, NEW b, NEW h, NEW r, BothChanged(n, ds, child, b, h, r),
         DirsIn(h) # {}, DirsIn(r) # {}
  PROVE  Outcome(MergeName(child, b, h, r),
                 MergedFiles(h, r) \cup MergedDirs(child, n, h, r),
                 child.conflict, child.kept)
<1>1. /\ SameId(h, r) <=> h = r /\ h # {}
      /\ SameId(b, h) <=> b = h /\ b # {}
      /\ SameId(b, r) <=> b = r /\ b # {}
  BY SameIdIsEqual DEF Slots, BothChanged
<1>2. FilesIn(h) = {} /\ FilesIn(r) = {} /\ h # {} /\ r # {} /\ h = {Dir(n, Children(h))}
  BY SlotKinds, NoEntry DEF Slots, BothChanged
<1>3. b # h /\ b # r /\ h # r
  BY DEF BothChanged, OneSided
<1>4. ChooseFile(b, h, r) = [do |-> "drop", keep |-> {}]
  BY <1>2 DEF ChooseFile, Drop
<1>5. Left("drop", r) = r /\ ChooseDir(b, h, r) = [do |-> "recurse", side |-> h]
  BY <1>1, <1>3 DEF Left, ChooseDir, TwoDirs
<1>6. Outcome(MergeName(child, b, h, r),
              {} \cup Copied("drop", r) \cup Part(child, "recurse", h),
              Conflicts(child, "drop", "recurse"), Keeps(child, b, h, r, "drop", "recurse"))
  BY <1>4, <1>5, Assembled
<1>7. Part(child, "recurse", h) = MergedDirs(child, n, h, r)
  BY <1>2, Refilled DEF MergedDirs
<1>8. Copied("drop", r) = {} /\ MergedFiles(h, r) = {}
  BY <1>2 DEF Copied, MergedFiles
<1>9. Conflicts(child, "drop", "recurse") <=> child.conflict
  BY DEF Conflicts
<1>10. Keeps(child, b, h, r, "drop", "recurse") <=> child.kept
  BY <1>2 DEF Keeps, DeletedBySome
<1> QED
  BY <1>6, <1>7, <1>8, <1>9, <1>10 DEF Outcome

DirGoes(child, b, name, d, act) ==
  /\ OneDir(b, {Dir(name, d)}) = [do |-> act, side |-> {Dir(name, d)}]
  /\ Part(child, act, {Dir(name, d)}) = {Dir(name, child.entries)}
  /\ (act = "recurse" /\ child.conflict) <=> child.conflict
  /\ (act = "recurse" /\ child.kept) <=> child.kept

(* A directory only one side has: against a base without one it is taken as *)
(* it is, which is also what merging it with nothing yields.                *)
LEMMA OneDirMerged ==
  ASSUME NEW child, NEW b, NEW n, NEW ds, NEW name, NEW d \in ds,
         IsSlot(b, n, ds), DirsIn(b) # {} => b # {Dir(n, d)},
         DirsIn(b) = {} => child.entries = d /\ ~child.conflict /\ ~child.kept
  PROVE  \E act \in {"emit", "recurse"} : DirGoes(child, b, name, d, act)
<1> DEFINE s == {Dir(name, d)}
<1>1. CASE DirsIn(b) = {}
  <2>1. OneDir(b, s) = [do |-> "emit", side |-> s]
    BY <1>1 DEF OneDir
  <2>2. child.entries = d /\ ~child.conflict /\ ~child.kept
    BY <1>1
  <2>3. Part(child, "emit", s) = s
    BY DEF Part
  <2> QED
    BY <2>1, <2>2, <2>3 DEF DirGoes
<1>2. CASE DirsIn(b) # {}
  <2>1. PICK x \in ds : b = {Dir(n, x)}
    BY <1>2, SlotKinds DEF DirSlot
  <2>2. ~SameId(b, s)
    <3>1. SameId(b, s) <=> /\ Dir(n, x).kind = Dir(name, d).kind
                           /\ Dir(n, x).ver = Dir(name, d).ver
                           /\ Dir(n, x).sub = Dir(name, d).sub
      BY <2>1, SameIdOne, Zenon
    <3> QED
      BY <3>1, <2>1, <1>2 DEF Dir
  <2>3. OneDir(b, s) = [do |-> "recurse", side |-> s]
    BY <1>2, <2>2 DEF OneDir
  <2>4. Part(child, "recurse", s) = {Dir(name, child.entries)}
    BY Refilled
  <2> QED
    BY <2>3, <2>4 DEF DirGoes
<1> QED
  BY <1>1, <1>2

LEMMA MergedHeadDir ==
  ASSUME NEW n, NEW ds, NEW child, NEW b, NEW h, NEW r, BothChanged(n, ds, child, b, h, r),
         DirsIn(h) # {}, DirsIn(r) = {}
  PROVE  Outcome(MergeName(child, b, h, r),
                 MergedFiles(h, r) \cup MergedDirs(child, n, h, r),
                 r # {} \/ child.conflict, r = {} \/ child.kept)
<1> DEFINE do == IF r = {} THEN "drop" ELSE "copy"
           d == Children(h)
<1>1. /\ SameId(b, h) <=> b = h /\ b # {}
      /\ SameId(b, r) <=> b = r /\ b # {}
  BY SameIdIsEqual DEF Slots, BothChanged
<1>2. FilesIn(h) = {} /\ h # {} /\ h = {Dir(n, d)} /\ d \in ds /\ FilesIn(r) = r
  BY SlotKinds, SlotIsOneKind, NoEntry DEF Slots, BothChanged
<1>3. b # h /\ b # r
  BY DEF BothChanged, OneSided
<1>4. ChooseFile(b, h, r) = [do |-> do, keep |-> {}]
  BY <1>1, <1>2, <1>3 DEF ChooseFile, RemoteFile, Drop, Copy
<1>5. DirsIn(b) = {} => child.entries = d /\ ~child.conflict /\ ~child.kept
  <2> SUFFICES ASSUME DirsIn(b) = {}
               PROVE  child.entries = d /\ ~child.conflict /\ ~child.kept
    OBVIOUS
  <2>1. Children(b) = {} /\ Children(r) = {}
    BY Zenon DEF Children
  <2>2. Taken(Children(b), Children(h), Children(r)) = d
    BY <2>1 DEF Taken
  <2> QED
    BY <2>1, <2>2 DEF BothChanged, Settled, OneSided, Outcome
<1>6. PICK act \in {"emit", "recurse"} :
        /\ OneDir(b, h) = [do |-> act, side |-> h]
        /\ Part(child, act, h) = {Dir(n, child.entries)}
        /\ (act = "recurse" /\ child.conflict) <=> child.conflict
        /\ (act = "recurse" /\ child.kept) <=> child.kept
  <2>1. IsSlot(b, n, ds) /\ (DirsIn(b) # {} => b # {Dir(n, d)})
    BY <1>2, <1>3 DEF BothChanged, Slots
  <2> HIDE DEF d
  <2>2. \E act \in {"emit", "recurse"} : DirGoes(child, b, n, d, act)
    BY <2>1, <1>2, <1>5, OneDirMerged
  <2> QED
    BY <2>2, <1>2 DEF DirGoes
<1>7. Left(do, r) = r /\ ChooseDir(b, h, r) = [do |-> act, side |-> h]
  BY <1>6 DEF Left, ChooseDir
<1>8. Outcome(MergeName(child, b, h, r), {} \cup Copied(do, r) \cup Part(child, act, h),
              Conflicts(child, do, act), Keeps(child, b, h, r, do, act))
  BY <1>4, <1>7, Assembled
<1>9. {} \cup Copied(do, r) = MergedFiles(h, r)
  <2>1. r = {} => Copied("copy", r) = {}
    BY NoEntry DEF Copied
  <2> QED
    BY <2>1, <1>2 DEF Copied, MergedFiles
<1>10. MergedDirs(child, n, h, r) = {Dir(n, child.entries)}
  BY DEF MergedDirs
<1>11. Conflicts(child, do, act) <=> r # {} \/ child.conflict
  BY <1>6 DEF Conflicts
<1>12. Keeps(child, b, h, r, do, act) <=> r = {} \/ child.kept
  BY <1>2, <1>3, <1>6 DEF Keeps, DeletedBySome
<1> HIDE DEF do
<1> QED
  BY <1>6, <1>8, <1>9, <1>10, <1>11, <1>12 DEF Outcome

LEMMA MergedRemoteDir ==
  ASSUME NEW n, NEW ds, NEW child, NEW b, NEW h, NEW r, BothChanged(n, ds, child, b, h, r),
         DirsIn(h) = {}, DirsIn(r) # {}
  PROVE  Outcome(MergeName(child, b, h, r),
                 MergedFiles(h, r) \cup MergedDirs(child, n, h, r),
                 h # {} \/ child.conflict, h = {} \/ child.kept)
<1> DEFINE do == IF h = {} THEN "drop" ELSE "copyDir"
           d == Children(r)
           name == IF h = {} THEN n ELSE <<n[1], DirMark>>
           s == {Dir(name, d)}
<1>1. /\ SameId(b, h) <=> b = h /\ b # {}
      /\ SameId(b, r) <=> b = r /\ b # {}
  BY SameIdIsEqual DEF Slots, BothChanged
<1>2. FilesIn(r) = {} /\ r # {} /\ r = {Dir(n, d)} /\ d \in ds /\ FilesIn(h) = h
  BY SlotKinds, SlotIsOneKind, NoEntry DEF Slots, BothChanged
<1>3. b # h /\ b # r
  BY DEF BothChanged, OneSided
<1>4. ChooseFile(b, h, r) = [do |-> do, keep |-> h]
  BY <1>1, <1>2, <1>3 DEF ChooseFile, HeadFile, Drop, CopyDir
<1>5. DirsIn(b) = {} => child.entries = d /\ ~child.conflict /\ ~child.kept
  <2> SUFFICES ASSUME DirsIn(b) = {}
               PROVE  child.entries = d /\ ~child.conflict /\ ~child.kept
    OBVIOUS
  <2>1. Children(b) = {} /\ Children(h) = {}
    BY Zenon DEF Children
  <2>2. Taken(Children(b), Children(h), Children(r)) = d
    BY <2>1 DEF Taken
  <2> QED
    BY <2>1, <2>2 DEF BothChanged, Settled, OneSided, Outcome
<1>6. PICK act \in {"emit", "recurse"} :
        /\ OneDir(b, s) = [do |-> act, side |-> s]
        /\ Part(child, act, s) = {Dir(name, child.entries)}
        /\ (act = "recurse" /\ child.conflict) <=> child.conflict
        /\ (act = "recurse" /\ child.kept) <=> child.kept
  <2>1. IsSlot(b, n, ds) /\ (DirsIn(b) # {} => b # {Dir(n, d)})
    BY <1>2, <1>3 DEF BothChanged, Slots
  <2> HIDE DEF d, name
  <2>2. \E act \in {"emit", "recurse"} : DirGoes(child, b, name, d, act)
    BY <2>1, <1>2, <1>5, OneDirMerged
  <2> QED
    BY <2>2 DEF DirGoes
<1>7. Left(do, r) = s
  <2>1. h # {} => Left(do, r) = Renamed({Dir(n, d)}, DirMark)
    BY <1>2 DEF Left
  <2>2. h = {} => Left(do, r) = {Dir(n, d)}
    BY <1>2 DEF Left
  <2> QED
    BY <2>1, <2>2, RenamedDir
<1>8. ChooseDir(b, h, s) = [do |-> act, side |-> s]
  <2>1. DirsIn(s) # {}
    BY OneDirectory
  <2> HIDE DEF s
  <2> QED
    BY <2>1, <1>6 DEF ChooseDir
<1>9. Outcome(MergeName(child, b, h, r), h \cup Copied(do, r) \cup Part(child, act, s),
              Conflicts(child, do, act), Keeps(child, b, h, r, do, act))
  <2> HIDE DEF s, do
  <2> QED
    BY <1>4, <1>7, <1>8, Assembled
<1>10. h \cup Copied(do, r) = MergedFiles(h, r)
  <2>1. Copied("copy", r) = {}
    BY <1>2 DEF Copied
  <2> QED
    BY <2>1, <1>2 DEF Copied, MergedFiles
<1>11. MergedDirs(child, n, h, r) = {Dir(name, child.entries)}
  BY DEF MergedDirs
<1>12. Conflicts(child, do, act) <=> h # {} \/ child.conflict
  BY <1>6 DEF Conflicts
<1>13. Keeps(child, b, h, r, do, act) <=> h = {} \/ child.kept
  BY <1>2, <1>3, <1>6 DEF Keeps, DeletedBySome
<1> HIDE DEF do, s, name
<1> QED
  BY <1>6, <1>9, <1>10, <1>11, <1>12, <1>13 DEF Outcome

LEMMA NameMerged ==
  ASSUME NEW n, NEW ds, NEW child, NEW b, NEW h, NEW r, BothChanged(n, ds, child, b, h, r)
  PROVE  Outcome(MergeName(child, b, h, r),
                 MergedFiles(h, r) \cup MergedDirs(child, n, h, r),
                 \/ h # {} /\ r # {} /\ (FilesIn(h) # {} \/ FilesIn(r) # {})
                 \/ child.conflict,
                 h = {} \/ r = {} \/ child.kept)
<1>1. \A s \in {h, r} :
        /\ s = {} <=> FilesIn(s) = {} /\ DirsIn(s) = {}
        /\ \/ FilesIn(s) = s /\ DirsIn(s) = {}
           \/ FilesIn(s) = {} /\ DirsIn(s) = s
  BY SlotIsOneKind DEF Slots, BothChanged
<1>2. CASE DirsIn(h) = {} /\ DirsIn(r) = {}
  BY <1>1, <1>2, MergedFilesOnly DEF Outcome
<1>3. CASE DirsIn(h) # {} /\ DirsIn(r) # {}
  BY <1>1, <1>3, MergedTwoDirs DEF Outcome
<1>4. CASE DirsIn(h) # {} /\ DirsIn(r) = {}
  BY <1>1, <1>4, MergedHeadDir DEF Outcome
<1>5. CASE DirsIn(h) = {} /\ DirsIn(r) # {}
  BY <1>1, <1>5, MergedRemoteDir DEF Outcome
<1> QED
  BY <1>2, <1>3, <1>4, <1>5

-----------------------------------------------------------------------------
(* What one name yields, entry by entry *)

OneName(n, ds, child, b, h, r) ==
  /\ Slots(n, ds, b, h, r)
  /\ n = Plain(n[1])
  /\ Settled(child, Children(b), Children(h), Children(r))

Kept(n, h, e) == \E v \in Versions : h = {File(n, v)} /\ e = File(n, v)
Renames(n, h, r, e) ==
  \E v \in Versions : r = {File(n, v)} /\ e = File(IF h = {} THEN n ELSE <<n[1], v>>, v)
Merges(n, child, h, r, e) ==
  /\ DirsIn(h) # {} \/ DirsIn(r) # {}
  /\ e = Dir(IF DirsIn(h) # {} \/ h = {} THEN n ELSE <<n[1], DirMark>>, child.entries)

LEMMA Yield ==
  ASSUME NEW n, NEW ds, NEW child, NEW b, NEW h, NEW r, OneName(n, ds, child, b, h, r),
         ~OneSided(b, h, r), NEW e
  PROVE  e \in MergeName(child, b, h, r).entries
           <=> Kept(n, h, e) \/ Renames(n, h, r, e) \/ Merges(n, child, h, r, e)
<1>1. MergeName(child, b, h, r).entries = MergedFiles(h, r) \cup MergedDirs(child, n, h, r)
  BY NameMerged DEF OneName, BothChanged, Outcome
<1>2. e \in MergedDirs(child, n, h, r) <=> Merges(n, child, h, r, e)
  BY NoEntry DEF MergedDirs, Merges
<1>3. IsSlot(h, n, ds) /\ IsSlot(r, n, ds)
  BY DEF OneName, Slots
<1>4. e \in FilesIn(h) <=> Kept(n, h, e)
  <2>1. CASE FileSlot(h, n)
    BY <2>1, <1>3, SlotKinds DEF FileSlot, Kept
  <2>2. CASE ~FileSlot(h, n)
    BY <2>2, <1>3, SlotKinds DEF FileSlot, Kept
  <2> QED
    BY <2>1, <2>2
<1>5. e \in (IF h = {} THEN FilesIn(r) ELSE Copied("copy", r)) <=> Renames(n, h, r, e)
  <2>1. CASE FileSlot(r, n)
    <3>1. PICK v \in Versions : r = {File(n, v)}
      BY <2>1 DEF FileSlot
    <3>2. ASSUME NEW w, r = {File(n, w)}
          PROVE  w = v
      <4>1. File(n, w) = File(n, v)
        BY <3>1, <3>2
      <4> QED
        BY <4>1 DEF File
    <3>3. FilesIn(r) = {File(n, v)} /\ Copied("copy", r) = {File(<<n[1], v>>, v)}
      BY <3>1, OneFile, CopiedFile
    <3> QED
      BY <3>1, <3>2, <3>3 DEF Renames
  <2>2. CASE ~FileSlot(r, n)
    <3>1. FilesIn(r) = {}
      BY <2>2, <1>3, SlotKinds
    <3>2. Copied("copy", r) = {}
      BY <3>1 DEF Copied
    <3> QED
      BY <2>2, <3>1, <3>2 DEF Renames, FileSlot
  <2> QED
    BY <2>1, <2>2
<1> QED
  BY <1>1, <1>2, <1>4, <1>5 DEF MergedFiles

LEMMA YieldTaken ==
  ASSUME NEW n, NEW ds, NEW child, NEW b, NEW h, NEW r, OneName(n, ds, child, b, h, r),
         OneSided(b, h, r)
  PROVE  /\ MergeName(child, b, h, r).entries = Taken(b, h, r)
         /\ Taken(b, h, r) \in {h, r}
         /\ ~MergeName(child, b, h, r).conflict
         /\ ~MergeName(child, b, h, r).kept
BY NameTaken DEF OneName, Outcome, Taken

FileEntry(e, x) ==
  e = File(<<x, e.name[2]>>, e.ver) /\ e.ver \in Versions /\ e.name[2] \in {0, e.ver}
DirEntry(e, x, subs) ==
  e = Dir(<<x, e.name[2]>>, e.sub) /\ e.sub \in subs /\ e.name[2] \in {0, DirMark}

LEMMA SlotEntry ==
  ASSUME NEW s, NEW n, NEW ds, IsSlot(s, n, ds), n = Plain(n[1]), NEW e \in s
  PROVE  /\ s = {e} /\ e.name = n /\ e.name[2] = 0
         /\ FileEntry(e, n[1]) \/ DirEntry(e, n[1], ds)
<1>1. n[2] = 0 /\ n = <<n[1], 0>>
  BY DEF Plain
<1>2. ASSUME NEW v \in Versions, s = {File(n, v)}
      PROVE  s = {e} /\ e.name = n /\ FileEntry(e, n[1])
  BY <1>1, <1>2 DEF FileEntry, File
<1>3. ASSUME NEW d \in ds, s = {Dir(n, d)}
      PROVE  s = {e} /\ e.name = n /\ DirEntry(e, n[1], ds)
  BY <1>1, <1>3 DEF DirEntry, Dir
<1> QED
  BY <1>1, <1>2, <1>3 DEF IsSlot, FileSlot, DirSlot

LEMMA YieldShape ==
  ASSUME NEW n, NEW ds, NEW child, NEW b, NEW h, NEW r, OneName(n, ds, child, b, h, r),
         NEW e \in MergeName(child, b, h, r).entries
  PROVE  FileEntry(e, n[1]) \/ DirEntry(e, n[1], ds \cup {child.entries})
<1>1. CASE OneSided(b, h, r)
  <2>1. PICK s \in {h, r} : e \in s
    BY <1>1, YieldTaken
  <2>2. FileEntry(e, n[1]) \/ DirEntry(e, n[1], ds)
    BY <2>1, SlotEntry DEF OneName, Slots
  <2> QED
    BY <2>2 DEF DirEntry
<1>2. CASE ~OneSided(b, h, r)
  <2>1. n = <<n[1], 0>>
    BY DEF OneName, Plain
  <2>2. CASE Kept(n, h, e)
    BY <2>1, <2>2 DEF Kept, FileEntry, File
  <2>3. CASE Renames(n, h, r, e)
    BY <2>1, <2>3 DEF Renames, FileEntry, File
  <2>4. CASE Merges(n, child, h, r, e)
    BY <2>1, <2>4 DEF Merges, DirEntry, Dir
  <2> QED
    BY <1>2, <2>2, <2>3, <2>4, Yield
<1> QED
  BY <1>1, <1>2

(* Of the entries one name yields no two get the same name: a file's mark is *)
(* its version, a directory's is DirMark, and what is kept has none.        *)
LEMMA YieldUnique ==
  ASSUME Setting, NEW n, NEW ds, NEW child, NEW b, NEW h, NEW r,
         OneName(n, ds, child, b, h, r)
  PROVE  Unique(MergeName(child, b, h, r).entries)
<1> SUFFICES ASSUME NEW e \in MergeName(child, b, h, r).entries,
                    NEW f \in MergeName(child, b, h, r).entries, e.name = f.name
             PROVE  e = f
  BY DEF Unique
<1>1. CASE OneSided(b, h, r)
  <2>1. PICK s \in {h, r} : e \in s /\ f \in s
    BY <1>1, YieldTaken
  <2> QED
    BY <2>1, SlotEntry DEF OneName, Slots
<1>2. CASE ~OneSided(b, h, r)
  <2>1. n = <<n[1], 0>> /\ h # r
    BY <1>2 DEF OneName, Plain, OneSided
  <2>2. \A g \in {e, f} : Kept(n, h, g) \/ Renames(n, h, r, g) \/ Merges(n, child, h, r, g)
    BY <1>2, Yield
  <2>3. Versions \subseteq Nat \ {0} /\ DirMark = -1
    BY DEF Setting, DirMark
  <2>4. ASSUME NEW g, Kept(n, h, g)
        PROVE  g.name = n /\ h = {g} /\ h # {} /\ DirsIn(h) = {}
    <3>1. PICK v \in Versions : h = {File(n, v)} /\ g = File(n, v)
      BY <2>4 DEF Kept
    <3>2. DirsIn({File(n, v)}) = {} /\ File(n, v).name = n
      BY OneFile, FileFields
    <3> QED
      BY <3>1, <3>2
  <2>5. ASSUME NEW g, Renames(n, h, r, g)
        PROVE  /\ DirsIn(r) = {}
               /\ h = {} => g.name = n /\ r = {g}
               /\ h # {} => \E v \in Versions : r = {File(n, v)} /\ g = File(<<n[1], v>>, v)
    <3>1. PICK v \in Versions :
            r = {File(n, v)} /\ g = File(IF h = {} THEN n ELSE <<n[1], v>>, v)
      BY <2>5 DEF Renames
    <3>2. DirsIn({File(n, v)}) = {} /\ File(n, v).name = n
      BY OneFile, FileFields
    <3> QED
      BY <3>1, <3>2
  <2>6. ASSUME NEW g, Merges(n, child, h, r, g)
        PROVE  g.name = IF DirsIn(h) # {} \/ h = {} THEN n ELSE <<n[1], DirMark>>
    BY <2>6 DEF Merges, Dir
  <2>7. ASSUME NEW g, NEW k, Kept(n, h, g), Renames(n, h, r, k)
        PROVE  g.name # k.name
    BY <2>1, <2>3, <2>4, <2>5, <2>7 DEF File
  <2>8. ASSUME NEW g, NEW k, Kept(n, h, g), Merges(n, child, h, r, k)
        PROVE  g.name # k.name
    BY <2>1, <2>3, <2>4, <2>6, <2>8
  <2>9. ASSUME NEW g, NEW k, Renames(n, h, r, g), Merges(n, child, h, r, k)
        PROVE  g.name # k.name
    <3>1. h # {} /\ DirsIn(h) # {}
      BY <2>5, <2>9, NoEntry DEF Merges
    <3> QED
      BY <3>1, <2>1, <2>3, <2>5, <2>6, <2>9 DEF File
  <2>10. ASSUME NEW g, NEW k, Renames(n, h, r, g), Renames(n, h, r, k), g.name = k.name
         PROVE  g = k
    <3>1. CASE h = {}
      BY <3>1, <2>5, <2>10
    <3>2. CASE h # {}
      <4>1. PICK v \in Versions : r = {File(n, v)} /\ g = File(<<n[1], v>>, v)
        BY <3>2, <2>5, <2>10
      <4>2. PICK w \in Versions : r = {File(n, w)} /\ k = File(<<n[1], w>>, w)
        BY <3>2, <2>5, <2>10
      <4>3. File(n, v) = File(n, w)
        BY <4>1, <4>2
      <4>4. v = w
        BY <4>3, FileFields
      <4> QED
        BY <4>1, <4>2, <4>4
    <3> QED
      BY <3>1, <3>2
  <2>11. ASSUME NEW g, NEW k, Merges(n, child, h, r, g), Merges(n, child, h, r, k)
         PROVE  g = k
    BY <2>11 DEF Merges
  <2>12. ASSUME NEW g, NEW k, Kept(n, h, g), Kept(n, h, k)
         PROVE  g = k
    BY <2>4, <2>12
  <2> QED
    BY <2>2, <2>7, <2>8, <2>9, <2>10, <2>11, <2>12
<1> QED
  BY <1>1, <1>2

(* The three-way rule: what both sides have, and what a side has and the    *)
(* base has not.                                                            *)
Three(inBase, inHead, inRemote) ==
  (inHead /\ inRemote) \/ ((inHead \/ inRemote) /\ ~inBase)

LEMMA YieldFiles ==
  ASSUME NEW n, NEW ds, NEW child, NEW b, NEW h, NEW r, OneName(n, ds, child, b, h, r), NEW v
  PROVE  (\E e \in MergeName(child, b, h, r).entries : e.kind = "file" /\ e.ver = v)
           <=> v \in Versions
               /\ Three(b = {File(n, v)}, h = {File(n, v)}, r = {File(n, v)})
<1> DEFINE m == MergeName(child, b, h, r).entries
<1>1. ASSUME NEW s \in {b, h, r}
      PROVE  (\E e \in s : e.kind = "file" /\ e.ver = v) <=> v \in Versions /\ s = {File(n, v)}
  <2>1. CASE s = {}
    BY <2>1
  <2>2. ASSUME NEW w \in Versions, s = {File(n, w)}
        PROVE  (\E e \in s : e.kind = "file" /\ e.ver = v) <=> v \in Versions /\ s = {File(n, v)}
    <3>1. (\E e \in s : e.kind = "file" /\ e.ver = v) <=> w = v
      BY <2>2 DEF File
    <3>2. s = {File(n, v)} => File(n, w) = File(n, v)
      BY <2>2
    <3>3. File(n, w) = File(n, v) => w = v
      BY DEF File
    <3> QED
      BY <2>2, <3>1, <3>2, <3>3
  <2>3. ASSUME NEW d \in ds, s = {Dir(n, d)}
        PROVE  (\E e \in s : e.kind = "file" /\ e.ver = v) <=> v \in Versions /\ s = {File(n, v)}
    <3>1. ~\E e \in s : e.kind = "file" /\ e.ver = v
      BY <2>3 DEF Dir
    <3>2. s # {File(n, v)}
      <4>1. Dir(n, d) # File(n, v)
        BY FileFields, DirFields
      <4> QED
        BY <2>3, <4>1
    <3> QED
      BY <3>1, <3>2
  <2> QED
    BY <2>1, <2>2, <2>3 DEF OneName, Slots, IsSlot, FileSlot, DirSlot
<1>2. CASE OneSided(b, h, r)
  <2>1. m = Taken(b, h, r)
    BY <1>2, YieldTaken
  <2> QED
    BY <1>1, <1>2, <2>1 DEF Three, Taken, OneSided
<1>3. CASE ~OneSided(b, h, r)
  <2>1. b # h /\ b # r /\ h # r
    BY <1>3 DEF OneSided
  <2>2. ASSUME NEW e \in m, e.kind = "file", e.ver = v
        PROVE  v \in Versions /\ (h = {File(n, v)} \/ r = {File(n, v)})
    <3>1. ~Merges(n, child, h, r, e)
      BY <2>2 DEF Merges, Dir
    <3>2. Kept(n, h, e) \/ Renames(n, h, r, e)
      BY <3>1, <1>3, Yield
    <3> QED
      BY <3>2, <2>2 DEF Kept, Renames, File
  <2>3. ASSUME v \in Versions, h = {File(n, v)}
        PROVE  \E e \in m : e.kind = "file" /\ e.ver = v
    <3>1. Kept(n, h, File(n, v))
      BY <2>3 DEF Kept
    <3>2. File(n, v) \in m
      BY <3>1, <1>3, Yield
    <3> QED
      BY <3>2 DEF File
  <2>4. ASSUME v \in Versions, r = {File(n, v)}
        PROVE  \E e \in m : e.kind = "file" /\ e.ver = v
    <3> DEFINE e == File(IF h = {} THEN n ELSE <<n[1], v>>, v)
    <3>1. Renames(n, h, r, e)
      BY <2>4 DEF Renames
    <3>2. e \in m
      BY <3>1, <1>3, Yield
    <3>3. e.kind = "file" /\ e.ver = v
      BY DEF File
    <3> HIDE DEF e
    <3> QED
      BY <3>2, <3>3
  <2>5. Three(b = {File(n, v)}, h = {File(n, v)}, r = {File(n, v)})
          <=> h = {File(n, v)} \/ r = {File(n, v)}
    BY <2>1 DEF Three
  <2> HIDE DEF m
  <2>6. (\E e \in m : e.kind = "file" /\ e.ver = v)
          <=> v \in Versions /\ (h = {File(n, v)} \/ r = {File(n, v)})
    BY <2>2, <2>3, <2>4
  <2> QED
    BY <2>5, <2>6 DEF m
<1> QED
  BY <1>2, <1>3

(* Everything below the entries of a directory. *)
Subs(d) == UNION {e.sub : e \in d}

LEMMA SubsOfSlot ==
  ASSUME NEW s, NEW n, NEW ds, IsSlot(s, n, ds)
  PROVE  Subs(s) = Children(s)
<1>1. CASE s = {}
  BY <1>1, NoEntry DEF Subs
<1>2. CASE FileSlot(s, n)
  <2>1. PICK v \in Versions : s = {File(n, v)}
    BY <1>2 DEF FileSlot
  <2>2. \A e \in s : e.sub = {}
    BY <2>1, FileFields
  <2>3. Children(s) = {}
    BY <1>2, SlotKinds
  <2> QED
    BY <2>2, <2>3 DEF Subs
<1>3. CASE DirSlot(s, n, ds)
  BY <1>3, SlotKinds, Zenon DEF Subs, Children
<1> QED
  BY <1>1, <1>2, <1>3 DEF IsSlot

(* What is below the merged entries is the merge of what is below. *)
LEMMA YieldSubs ==
  ASSUME NEW n, NEW ds, NEW child, NEW b, NEW h, NEW r, OneName(n, ds, child, b, h, r)
  PROVE  Subs(MergeName(child, b, h, r).entries) = child.entries
<1> DEFINE m == MergeName(child, b, h, r).entries
<1>1. Settled(child, Children(b), Children(h), Children(r))
  BY DEF OneName
<1>2. CASE OneSided(b, h, r)
  <2>1. m = Taken(b, h, r)
    BY <1>2, YieldTaken
  <2>2. Subs(h) = Children(h) /\ Subs(r) = Children(r)
    BY SubsOfSlot DEF OneName, Slots
  <2>3. OneSided(Children(b), Children(h), Children(r))
        /\ Taken(Children(b), Children(h), Children(r)) = Children(Taken(b, h, r))
    BY <1>2 DEF OneSided, Taken
  <2>4. Subs(m) = Children(Taken(b, h, r))
    BY <2>1, <2>2 DEF Taken
  <2> QED
    BY <2>3, <2>4, <1>1 DEF Settled, Outcome
<1>3. CASE ~OneSided(b, h, r)
  <2>1. ASSUME NEW e \in m
        PROVE  e.sub = {} \/ e.sub = child.entries
    <3>1. CASE Kept(n, h, e)
      BY <3>1, FileFields DEF Kept
    <3>2. CASE Renames(n, h, r, e)
      BY <3>2, FileFields DEF Renames
    <3>3. CASE Merges(n, child, h, r, e)
      BY <3>3, DirFields DEF Merges
    <3> QED
      BY <3>1, <3>2, <3>3, <1>3, Yield
  <2>2. CASE DirsIn(h) # {} \/ DirsIn(r) # {}
    <3> DEFINE e == Dir(IF DirsIn(h) # {} \/ h = {} THEN n ELSE <<n[1], DirMark>>, child.entries)
    <3>1. Merges(n, child, h, r, e)
      BY <2>2 DEF Merges
    <3>2. e \in m
      BY <3>1, <1>3, Yield
    <3>3. e.sub = child.entries
      BY DirFields
    <3> HIDE DEF e, m
    <3> QED
      BY <2>1, <3>2, <3>3 DEF Subs, m
  <2>3. CASE DirsIn(h) = {} /\ DirsIn(r) = {}
    <3>1. Children(h) = {} /\ Children(r) = {}
      BY <2>3, Zenon DEF Children
    <3>2. child.entries = {}
      BY <3>1, <1>1 DEF Settled, OneSided, Taken, Outcome
    <3> HIDE DEF m
    <3> QED
      BY <2>1, <3>2 DEF Subs, m
  <2> QED
    BY <2>2, <2>3
<1> QED
  BY <1>2, <1>3

(* A name reports a conflict when an entry of it, or below it, was renamed. *)
LEMMA YieldConflict ==
  ASSUME Setting, NEW n, NEW ds, NEW child, NEW b, NEW h, NEW r,
         OneName(n, ds, child, b, h, r)
  PROVE  MergeName(child, b, h, r).conflict
           <=> (\E e \in MergeName(child, b, h, r).entries : e.name[2] # 0) \/ child.conflict
<1> DEFINE m == MergeName(child, b, h, r)
<1>1. CASE OneSided(b, h, r)
  <2>1. ~m.conflict /\ m.entries \in {h, r}
    BY <1>1, YieldTaken
  <2>2. \A e \in m.entries : e.name[2] = 0
    BY <2>1, SlotEntry DEF OneName, Slots
  <2>3. OneSided(Children(b), Children(h), Children(r))
    BY <1>1 DEF OneSided
  <2>4. ~child.conflict
    BY <2>3 DEF OneName, Settled, Outcome
  <2> QED
    BY <2>1, <2>2, <2>4
<1>2. CASE ~OneSided(b, h, r)
  <2>1. m.conflict <=> \/ h # {} /\ r # {} /\ (FilesIn(h) # {} \/ FilesIn(r) # {})
                       \/ child.conflict
    BY <1>2, NameMerged DEF OneName, BothChanged, Outcome
  <2>2. n = <<n[1], 0>> /\ n[2] = 0 /\ Versions \subseteq Nat \ {0} /\ DirMark # 0
    BY DEF OneName, Plain, Setting, DirMark
  <2>3. IsSlot(h, n, ds) /\ IsSlot(r, n, ds)
    BY DEF OneName, Slots
  <2>4. CASE h # {} /\ FilesIn(r) # {}
    <3>1. PICK v \in Versions : r = {File(n, v)}
      BY <2>3, <2>4, SlotKinds DEF FileSlot
    <3> DEFINE e == File(<<n[1], v>>, v)
    <3>2. Renames(n, h, r, e)
      BY <2>4, <3>1 DEF Renames
    <3>3. e \in m.entries /\ e.name[2] = v /\ v # 0
      BY <3>2, <1>2, Yield, FileFields, <2>2
    <3>4. r # {}
      BY <3>1
    <3> HIDE DEF e, m
    <3> QED
      BY <2>1, <2>4, <3>3, <3>4 DEF m
  <2>5. CASE h # {} /\ DirsIn(r) # {} /\ DirsIn(h) = {}
    <3>1. FilesIn(h) # {} /\ r # {}
      BY <2>3, <2>5, SlotIsOneKind, NoEntry
    <3> DEFINE e == Dir(<<n[1], DirMark>>, child.entries)
    <3>2. Merges(n, child, h, r, e)
      BY <2>5 DEF Merges
    <3>3. e \in m.entries /\ e.name[2] # 0
      BY <3>2, <1>2, Yield, DirFields, <2>2
    <3> HIDE DEF e, m
    <3> QED
      BY <2>1, <2>5, <3>1, <3>3 DEF m
  <2>6. CASE h = {} \/ (FilesIn(r) = {} /\ (DirsIn(r) = {} \/ DirsIn(h) # {}))
    <3>1. m.conflict <=> child.conflict
      BY <2>1, <2>3, <2>6, SlotIsOneKind
    <3>2. ASSUME NEW e \in m.entries
          PROVE  e.name[2] = 0
      <4>1. CASE Kept(n, h, e)
        BY <4>1, <2>2, FileFields DEF Kept
      <4>2. CASE Renames(n, h, r, e)
        <5>1. PICK v \in Versions :
                r = {File(n, v)} /\ e = File(IF h = {} THEN n ELSE <<n[1], v>>, v)
          BY <4>2 DEF Renames
        <5>2. h = {}
          BY <5>1, <2>6, OneFile
        <5> QED
          BY <5>1, <5>2, <2>2, FileFields
      <4>3. CASE Merges(n, child, h, r, e)
        BY <4>3, <2>6, <2>2, DirFields DEF Merges
      <4> QED
        BY <4>1, <4>2, <4>3, <1>2, Yield
    <3> HIDE DEF m
    <3> QED
      BY <3>1, <3>2 DEF m
  <2> QED
    BY <2>4, <2>5, <2>6
<1> QED
  BY <1>1, <1>2

(* A name reports a kept deletion when the base and the result have it and  *)
(* only one side still did, or when something below it says so.             *)
LEMMA YieldKept ==
  ASSUME NEW n, NEW ds, NEW child, NEW b, NEW h, NEW r, OneName(n, ds, child, b, h, r)
  PROVE  MergeName(child, b, h, r).kept
           <=> \/ b # {} /\ MergeName(child, b, h, r).entries # {} /\ (h = {}) # (r = {})
               \/ child.kept
<1> DEFINE m == MergeName(child, b, h, r)
<1>1. CASE OneSided(b, h, r)
  <2>1. ~m.kept /\ m.entries = Taken(b, h, r)
    BY <1>1, YieldTaken
  <2>2. OneSided(Children(b), Children(h), Children(r))
    BY <1>1 DEF OneSided
  <2>3. ~child.kept
    BY <2>2 DEF OneName, Settled, Outcome
  <2> QED
    BY <1>1, <2>1, <2>3 DEF OneSided, Taken
<1>2. CASE ~OneSided(b, h, r)
  <2>1. m.kept <=> h = {} \/ r = {} \/ child.kept
    BY <1>2, NameMerged DEF OneName, BothChanged, Outcome
  <2>2. b # h /\ b # r /\ h # r
    BY <1>2 DEF OneSided
  <2>3. m.entries # {}
    <3>1. IsSlot(h, n, ds) /\ IsSlot(r, n, ds)
      BY DEF OneName, Slots
    <3>2. CASE DirsIn(h) # {} \/ DirsIn(r) # {}
      <4>1. PICK e : Merges(n, child, h, r, e)
        BY <3>2 DEF Merges
      <4> QED
        BY <4>1, <1>2, Yield
    <3>3. CASE DirsIn(h) = {} /\ DirsIn(r) = {}
      <4>1. PICK e : Kept(n, h, e) \/ Renames(n, h, r, e)
        BY <2>2, <3>1, <3>3, SlotKinds DEF IsSlot, FileSlot, Kept, Renames
      <4> QED
        BY <4>1, <1>2, Yield
    <3> QED
      BY <3>2, <3>3
  <2> HIDE DEF m
  <2> QED
    BY <2>1, <2>2, <2>3 DEF m
<1> QED
  BY <1>1, <1>2

(* Head's changes keep their name: its file, and its directory with what the *)
(* merge one level down kept of it.                                         *)
LEMMA YieldHead ==
  ASSUME NEW n, NEW ds, NEW child, NEW b, NEW h, NEW r, OneName(n, ds, child, b, h, r),
         NEW e \in h
  PROVE  /\ e.kind = "file" /\ b # h => e \in MergeName(child, b, h, r).entries
         /\ e.kind = "dir" => \A f \in e.sub \ Children(b) :
              f \in child.entries =>
                \E g \in MergeName(child, b, h, r).entries :
                  g.kind = "dir" /\ g.name = n /\ f \in g.sub
<1> DEFINE m == MergeName(child, b, h, r).entries
<1>0. IsSlot(h, n, ds)
  BY DEF OneName, Slots
<1>1. CASE OneSided(b, h, r)
  <2>1. b # h => m = h
    BY <1>1, YieldTaken DEF Taken
  <2>2. e.kind = "dir" => e.sub = Children(h) /\ e.name = n
    <3>1. CASE FileSlot(h, n)
      BY <3>1, FileFields DEF FileSlot
    <3>2. CASE DirSlot(h, n, ds)
      <4>1. h = {Dir(n, Children(h))}
        BY <3>2, <1>0, SlotKinds
      <4> QED
        BY <4>1, DirFields
    <3> QED
      BY <3>1, <3>2, <1>0 DEF IsSlot
  <2> HIDE DEF m
  <2> QED
    BY <2>1, <2>2 DEF m
<1>2. CASE ~OneSided(b, h, r)
  <2>1. CASE e.kind = "file"
    <3>1. PICK v \in Versions : h = {File(n, v)}
      BY <2>1, <1>0, DirFields DEF IsSlot, FileSlot, DirSlot
    <3>2. Kept(n, h, e)
      BY <3>1 DEF Kept
    <3> QED
      BY <2>1, <3>2, <1>2, Yield
  <2>2. CASE e.kind = "dir"
    <3>1. DirsIn(h) # {}
      BY <2>2 DEF DirsIn
    <3> DEFINE g == Dir(n, child.entries)
    <3>2. Merges(n, child, h, r, g)
      BY <3>1 DEF Merges
    <3>3. g \in m
      BY <3>2, <1>2, Yield
    <3>4. g.kind = "dir" /\ g.name = n /\ g.sub = child.entries
      BY DirFields
    <3> HIDE DEF g, m
    <3> QED
      BY <2>2, <3>3, <3>4 DEF m
  <2> QED
    BY <2>1, <2>2
<1> QED
  BY <1>1, <1>2

-----------------------------------------------------------------------------
(* One directory: the names are merged each by itself *)

DirLevel(d, ds) ==
  Unique(d) /\ \A e \in d : IsSlot({e}, e.name, ds) /\ e.name = Plain(e.name[1])

LEMMA FlatLevel ==
  ASSUME NEW d, FlatDir(d)
  PROVE  DirLevel(d, {})
<1>1. ASSUME NEW e \in d
      PROVE  IsSlot({e}, e.name, {}) /\ e.name = Plain(e.name[1])
  <2>1. PICK x \in SubNames, v \in Versions : e = File(Plain(x), v)
    BY DEF FlatDir, FileOf
  <2>2. e.name = Plain(x) /\ Plain(x)[1] = x
    BY <2>1, FileFields DEF Plain
  <2> QED
    BY <2>1, <2>2 DEF IsSlot, FileSlot
<1> QED
  BY <1>1 DEF DirLevel, FlatDir

LEMMA TreeLevel ==
  ASSUME NEW d, TreeDir(d)
  PROVE  DirLevel(d, Flat)
<1>1. ASSUME NEW e \in d
      PROVE  IsSlot({e}, e.name, Flat) /\ e.name = Plain(e.name[1])
  <2>1. CASE FileOf(e, Names)
    <3>1. PICK x \in Names, v \in Versions : e = File(Plain(x), v)
      BY <2>1 DEF FileOf
    <3>2. e.name = Plain(x) /\ Plain(x)[1] = x
      BY <3>1, FileFields DEF Plain
    <3> QED
      BY <3>1, <3>2 DEF IsSlot, FileSlot
  <2>2. CASE DirOf(e, Names)
    <3>1. PICK x \in Names, s \in Flat : e = Dir(Plain(x), s)
      BY <2>2 DEF DirOf
    <3>2. e.name = Plain(x) /\ Plain(x)[1] = x
      BY <3>1, DirFields DEF Plain
    <3> QED
      BY <3>1, <3>2 DEF IsSlot, DirSlot
  <2> QED
    BY <2>1, <2>2 DEF TreeDir
<1> QED
  BY <1>1 DEF DirLevel, TreeDir

LEMMA SlotOf ==
  ASSUME NEW d, NEW ds, DirLevel(d, ds), NEW n
  PROVE  /\ IsSlot(Slot(d, n), n, ds)
         /\ \A e \in d : e.name = n => Slot(d, n) = {e}
         /\ \A e \in Slot(d, n) : e \in d /\ e.name = n
<1>1. \A e \in d : e.name = n => Slot(d, n) = {e}
  BY DEF DirLevel, Unique, Slot
<1>2. \A e \in Slot(d, n) : e \in d /\ e.name = n
  BY DEF Slot
<1>3. IsSlot(Slot(d, n), n, ds)
  <2>1. CASE Slot(d, n) = {}
    BY <2>1 DEF IsSlot
  <2>2. CASE Slot(d, n) # {}
    BY <2>2, <1>1, <1>2 DEF DirLevel
  <2> QED
    BY <2>1, <2>2
<1> QED
  BY <1>1, <1>2, <1>3

(* A level of the merge, c giving what its children merged to. *)
Level(ds, b, h, r, c, of) ==
  /\ DirLevel(b, ds) /\ DirLevel(h, ds) /\ DirLevel(r, ds)
  /\ of = [n \in NamesIn(b, h, r) |-> MergeName(c[n], Slot(b, n), Slot(h, n), Slot(r, n))]
  /\ \A n \in NamesIn(b, h, r) :
       Settled(c[n], Children(Slot(b, n)), Children(Slot(h, n)), Children(Slot(r, n)))

LEMMA LevelName ==
  ASSUME NEW ds, NEW b, NEW h, NEW r, NEW c, NEW of, Level(ds, b, h, r, c, of),
         NEW n \in NamesIn(b, h, r)
  PROVE  /\ of[n] = MergeName(c[n], Slot(b, n), Slot(h, n), Slot(r, n))
         /\ OneName(n, ds, c[n], Slot(b, n), Slot(h, n), Slot(r, n))
<1>1. PICK e \in b \cup h \cup r : n = e.name
  BY DEF NamesIn
<1>2. n = Plain(n[1])
  BY <1>1 DEF Level, DirLevel
<1>3. Slots(n, ds, Slot(b, n), Slot(h, n), Slot(r, n))
  BY SlotOf DEF Slots, Level
<1> QED
  BY <1>2, <1>3 DEF Level, OneName

(* A directory's entries are what its names yield, each under its own name. *)
LEMMA LevelEntry ==
  ASSUME NEW ds, NEW b, NEW h, NEW r, NEW c, NEW of, Level(ds, b, h, r, c, of)
  PROVE  /\ \A e \in MergeLevel(of).entries :
              \E n \in NamesIn(b, h, r) : e \in of[n].entries /\ e.name[1] = n[1] /\ n = Plain(n[1])
         /\ \A n \in NamesIn(b, h, r) : of[n].entries \subseteq MergeLevel(of).entries
         /\ MergeLevel(of).conflict <=> \E n \in NamesIn(b, h, r) : of[n].conflict
         /\ MergeLevel(of).kept <=> \E n \in NamesIn(b, h, r) : of[n].kept
<1>1. DOMAIN of = NamesIn(b, h, r)
  BY DEF Level
<1>2. /\ MergeLevel(of).entries = UNION {of[n].entries : n \in NamesIn(b, h, r)}
      /\ MergeLevel(of).conflict <=> \E n \in NamesIn(b, h, r) : of[n].conflict
      /\ MergeLevel(of).kept <=> \E n \in NamesIn(b, h, r) : of[n].kept
  BY <1>1 DEF MergeLevel
<1>3. ASSUME NEW n \in NamesIn(b, h, r), NEW e \in of[n].entries
      PROVE  e.name[1] = n[1] /\ n = Plain(n[1])
  <2>1. /\ of[n] = MergeName(c[n], Slot(b, n), Slot(h, n), Slot(r, n))
        /\ OneName(n, ds, c[n], Slot(b, n), Slot(h, n), Slot(r, n))
    BY LevelName
  <2>2. FileEntry(e, n[1]) \/ DirEntry(e, n[1], ds \cup {c[n].entries})
    BY <1>3, <2>1, YieldShape
  <2>3. e.name[1] = n[1]
    <3>1. ASSUME NEW x, NEW k
          PROVE  <<x, k>>[1] = x
      OBVIOUS
    <3>2. e.name = <<n[1], e.name[2]>>
      BY <2>2, FileFields, DirFields DEF FileEntry, DirEntry
    <3> QED
      BY <3>1, <3>2
  <2> QED
    BY <2>1, <2>3 DEF OneName
<1> QED
  BY <1>2, <1>3

LEMMA LevelUnique ==
  ASSUME Setting, NEW ds, NEW b, NEW h, NEW r, NEW c, NEW of, Level(ds, b, h, r, c, of)
  PROVE  Unique(MergeLevel(of).entries)
<1> SUFFICES ASSUME NEW e \in MergeLevel(of).entries, NEW f \in MergeLevel(of).entries,
                    e.name = f.name
             PROVE  e = f
  BY DEF Unique
<1>1. PICK n \in NamesIn(b, h, r) : e \in of[n].entries /\ e.name[1] = n[1] /\ n = Plain(n[1])
  BY LevelEntry
<1>2. PICK k \in NamesIn(b, h, r) : f \in of[k].entries /\ f.name[1] = k[1] /\ k = Plain(k[1])
  BY LevelEntry
<1>3. n = k
  BY <1>1, <1>2
<1>4. Unique(of[n].entries)
  BY LevelName, YieldUnique
<1> QED
  BY <1>1, <1>2, <1>3, <1>4 DEF Unique

HasFile(d, x, v) == \E e \in d : e.kind = "file" /\ e.name[1] = x /\ e.ver = v

LEMMA FileInSlot ==
  ASSUME NEW d, NEW ds, DirLevel(d, ds), NEW x, NEW v
  PROVE  HasFile(d, x, v) <=> v \in Versions /\ Slot(d, Plain(x)) = {File(Plain(x), v)}
<1> DEFINE n == Plain(x)
<1>1. n[1] = x
  BY DEF Plain
<1>2. ASSUME NEW e \in d, e.kind = "file", e.name[1] = x, e.ver = v
      PROVE  v \in Versions /\ Slot(d, n) = {File(n, v)}
  <2>1. e.name = n /\ IsSlot({e}, n, ds)
    BY <1>2 DEF DirLevel
  <2>2. Slot(d, n) = {e}
    BY <2>1, SlotOf
  <2>3. ~DirSlot({e}, n, ds)
    BY <1>2, DirFields DEF DirSlot
  <2>4. PICK w \in Versions : {e} = {File(n, w)}
    BY <2>1, <2>3 DEF IsSlot, FileSlot
  <2>5. e = File(n, w)
    BY <2>4
  <2>6. w = v
    BY <2>5, <1>2, FileFields
  <2> QED
    BY <2>2, <2>4, <2>6
<1>3. ASSUME v \in Versions, Slot(d, n) = {File(n, v)}
      PROVE  HasFile(d, x, v)
  <2>1. File(n, v) \in d
    BY <1>3 DEF Slot
  <2>2. File(n, v).kind = "file" /\ File(n, v).name[1] = x /\ File(n, v).ver = v
    BY <1>1, FileFields
  <2> QED
    BY <2>1, <2>2 DEF HasFile
<1> QED
  BY <1>2, <1>3 DEF HasFile

(* The files of a merged directory follow the three-way rule, one by one. *)
LEMMA LevelFiles ==
  ASSUME NEW ds, NEW b, NEW h, NEW r, NEW c, NEW of, Level(ds, b, h, r, c, of), NEW x, NEW v
  PROVE  HasFile(MergeLevel(of).entries, x, v)
           <=> Three(HasFile(b, x, v), HasFile(h, x, v), HasFile(r, x, v))
<1> DEFINE n == Plain(x)
           F == {File(n, v)}
           m == MergeLevel(of).entries
<1>1. n[1] = x
  BY DEF Plain
<1>2. /\ HasFile(b, x, v) <=> v \in Versions /\ Slot(b, n) = F
      /\ HasFile(h, x, v) <=> v \in Versions /\ Slot(h, n) = F
      /\ HasFile(r, x, v) <=> v \in Versions /\ Slot(r, n) = F
  BY FileInSlot DEF Level
<1>3. CASE n \in NamesIn(b, h, r)
  <2>1. (\E e \in of[n].entries : e.kind = "file" /\ e.ver = v)
          <=> v \in Versions /\ Three(Slot(b, n) = F, Slot(h, n) = F, Slot(r, n) = F)
    BY <1>3, LevelName, YieldFiles
  <2>2. HasFile(m, x, v) <=> \E e \in of[n].entries : e.kind = "file" /\ e.ver = v
    <3>1. ASSUME NEW e \in m, e.name[1] = x
          PROVE  e \in of[n].entries
      <4>1. PICK k \in NamesIn(b, h, r) :
              e \in of[k].entries /\ e.name[1] = k[1] /\ k = Plain(k[1])
        BY LevelEntry
      <4> QED
        BY <4>1, <3>1
    <3>2. ASSUME NEW e \in of[n].entries
          PROVE  e \in m /\ e.name[1] = x
      <4>1. /\ of[n] = MergeName(c[n], Slot(b, n), Slot(h, n), Slot(r, n))
            /\ OneName(n, ds, c[n], Slot(b, n), Slot(h, n), Slot(r, n))
        BY <1>3, LevelName
      <4>2. FileEntry(e, n[1]) \/ DirEntry(e, n[1], ds \cup {c[n].entries})
        BY <3>2, <4>1, YieldShape
      <4>3. e.name = <<n[1], e.name[2]>>
        BY <4>2, FileFields, DirFields DEF FileEntry, DirEntry
      <4>4. e \in m
        BY <1>3, <3>2, LevelEntry
      <4> HIDE DEF n
      <4>5. e.name[1] = n[1]
        BY <4>3
      <4> QED
        BY <4>4, <4>5, <1>1
    <3> HIDE DEF m, n
    <3> QED
      BY <3>1, <3>2 DEF HasFile
  <2> HIDE DEF m, n, F
  <2> QED
    BY <2>1, <2>2, <1>2 DEF Three, m
<1>4. CASE n \notin NamesIn(b, h, r)
  <2>1. Slot(b, n) = {} /\ Slot(h, n) = {} /\ Slot(r, n) = {}
    BY <1>4 DEF Slot, NamesIn
  <2>2. ~HasFile(b, x, v) /\ ~HasFile(h, x, v) /\ ~HasFile(r, x, v)
    BY <1>2, <2>1
  <2>3. ASSUME NEW e \in m
        PROVE  e.name[1] # x
    <3>1. PICK k \in NamesIn(b, h, r) :
            e \in of[k].entries /\ e.name[1] = k[1] /\ k = Plain(k[1])
      BY LevelEntry
    <3> QED
      BY <3>1, <1>4
  <2> HIDE DEF m
  <2> QED
    BY <2>2, <2>3 DEF HasFile, Three, m
<1> QED
  BY <1>3, <1>4

LEMMA LevelHead ==
  ASSUME NEW ds, NEW b, NEW h, NEW r, NEW c, NEW of, Level(ds, b, h, r, c, of),
         NEW e \in h, e.kind = "file", e \notin b
  PROVE  e \in MergeLevel(of).entries
<1> DEFINE n == e.name
<1>1. n \in NamesIn(b, h, r)
  BY DEF NamesIn
<1>2. Slot(h, n) = {e} /\ Slot(b, n) # {e}
  <2>1. DirLevel(h, ds) /\ DirLevel(b, ds)
    BY DEF Level
  <2>2. Slot(h, n) = {e}
    BY <2>1, SlotOf
  <2> QED
    BY <2>2 DEF Slot
<1>3. e \in of[n].entries
  BY <1>1, <1>2, LevelName, YieldHead
<1> QED
  BY <1>1, <1>3, LevelEntry

(* A level at which one side changed at most. *)
LEMMA LevelTaken ==
  ASSUME NEW ds, NEW b, NEW h, NEW r, NEW c, NEW of, Level(ds, b, h, r, c, of),
         OneSided(b, h, r)
  PROVE  Outcome(MergeLevel(of), Taken(b, h, r), FALSE, FALSE)
<1> DEFINE t == Taken(b, h, r)
           m == MergeLevel(of)
<1>1. ASSUME NEW n \in NamesIn(b, h, r)
      PROVE  of[n].entries = Slot(t, n) /\ ~of[n].conflict /\ ~of[n].kept
  <2>1. OneSided(Slot(b, n), Slot(h, n), Slot(r, n))
    BY DEF OneSided
  <2>2. Taken(Slot(b, n), Slot(h, n), Slot(r, n)) = Slot(t, n)
    BY DEF Taken, OneSided
  <2>3. /\ of[n] = MergeName(c[n], Slot(b, n), Slot(h, n), Slot(r, n))
        /\ OneName(n, ds, c[n], Slot(b, n), Slot(h, n), Slot(r, n))
    BY LevelName
  <2> QED
    BY <2>1, <2>2, <2>3, YieldTaken
<1>2. t \in {h, r}
  BY DEF Taken
<1>3. m.entries = t
  <2>1. ASSUME NEW e \in t
        PROVE  e \in m.entries
    <3>1. e.name \in NamesIn(b, h, r)
      BY <1>2, <2>1 DEF NamesIn
    <3>2. e \in Slot(t, e.name)
      BY <2>1 DEF Slot
    <3> QED
      BY <3>1, <3>2, <1>1, LevelEntry
  <2>2. ASSUME NEW e \in m.entries
        PROVE  e \in t
    <3>1. PICK n \in NamesIn(b, h, r) : e \in of[n].entries
      BY LevelEntry
    <3>2. e \in Slot(t, n)
      BY <3>1, <1>1
    <3> QED
      BY <3>2 DEF Slot
  <2> HIDE DEF m, t
  <2> QED
    BY <2>1, <2>2
<1>4. ~m.conflict /\ ~m.kept
  BY <1>1, LevelEntry
<1> QED
  BY <1>3, <1>4 DEF Outcome

Named(d, x) == \E e \in d : e.name[1] = x

LEMMA NamedInSlot ==
  ASSUME NEW d, NEW ds, DirLevel(d, ds), NEW x
  PROVE  Named(d, x) <=> Slot(d, Plain(x)) # {}
<1>1. Plain(x)[1] = x
  BY DEF Plain
<1>2. ASSUME NEW e \in d, e.name[1] = x
      PROVE  e \in Slot(d, Plain(x))
  BY <1>2 DEF DirLevel, Slot
<1>3. ASSUME NEW e \in Slot(d, Plain(x))
      PROVE  e \in d /\ e.name[1] = x
  BY <1>1, <1>3 DEF Slot
<1> QED
  BY <1>2, <1>3 DEF Named

LEMMA LevelNamed ==
  ASSUME NEW ds, NEW b, NEW h, NEW r, NEW c, NEW of, Level(ds, b, h, r, c, of), NEW x,
         NEW e
  PROVE  e \in MergeLevel(of).entries /\ e.name[1] = x
           <=> Plain(x) \in NamesIn(b, h, r) /\ e \in of[Plain(x)].entries
<1>1. Plain(x)[1] = x
  BY DEF Plain
<1>2. ASSUME e \in MergeLevel(of).entries, e.name[1] = x
      PROVE  Plain(x) \in NamesIn(b, h, r) /\ e \in of[Plain(x)].entries
  <2>1. PICK k \in NamesIn(b, h, r) :
          e \in of[k].entries /\ e.name[1] = k[1] /\ k = Plain(k[1])
    BY <1>2, LevelEntry
  <2> QED
    BY <2>1, <1>2
<1>3. ASSUME NEW n, n = Plain(x), n \in NamesIn(b, h, r), e \in of[n].entries
      PROVE  e \in MergeLevel(of).entries /\ e.name[1] = x
  <2>1. /\ of[n] = MergeName(c[n], Slot(b, n), Slot(h, n), Slot(r, n))
        /\ OneName(n, ds, c[n], Slot(b, n), Slot(h, n), Slot(r, n))
    BY <1>3, LevelName
  <2>2. FileEntry(e, n[1]) \/ DirEntry(e, n[1], ds \cup {c[n].entries})
    <3>1. e \in MergeName(c[n], Slot(b, n), Slot(h, n), Slot(r, n)).entries
      BY <1>3, <2>1
    <3> QED
      BY <3>1, <2>1, YieldShape
  <2>3. e.name = <<n[1], e.name[2]>>
    BY <2>2, FileFields, DirFields DEF FileEntry, DirEntry
  <2>4. e.name[1] = n[1]
    BY <2>3
  <2>5. e \in MergeLevel(of).entries
    BY <1>3, LevelEntry
  <2> QED
    BY <2>4, <2>5, <1>1, <1>3
<1> QED
  BY <1>2, <1>3

LEMMA LevelConflict ==
  ASSUME Setting, NEW ds, NEW b, NEW h, NEW r, NEW c, NEW of, Level(ds, b, h, r, c, of)
  PROVE  MergeLevel(of).conflict
           <=> \/ \E e \in MergeLevel(of).entries : e.name[2] # 0
               \/ \E n \in NamesIn(b, h, r) : c[n].conflict
<1>1. ASSUME NEW n \in NamesIn(b, h, r)
      PROVE  of[n].conflict <=> (\E e \in of[n].entries : e.name[2] # 0) \/ c[n].conflict
  <2>1. /\ of[n] = MergeName(c[n], Slot(b, n), Slot(h, n), Slot(r, n))
        /\ OneName(n, ds, c[n], Slot(b, n), Slot(h, n), Slot(r, n))
    BY LevelName
  <2> QED
    BY <2>1, YieldConflict
<1>2. \A e \in MergeLevel(of).entries : \E n \in NamesIn(b, h, r) : e \in of[n].entries
  BY LevelEntry
<1>3. \A n \in NamesIn(b, h, r) : of[n].entries \subseteq MergeLevel(of).entries
  BY LevelEntry
<1>4. MergeLevel(of).conflict <=> \E n \in NamesIn(b, h, r) : of[n].conflict
  BY LevelEntry
<1> QED
  BY <1>1, <1>2, <1>3, <1>4

LEMMA LevelKept ==
  ASSUME NEW ds, NEW b, NEW h, NEW r, NEW c, NEW of, Level(ds, b, h, r, c, of)
  PROVE  MergeLevel(of).kept
           <=> \/ \E x : Named(b, x) /\ Named(MergeLevel(of).entries, x)
                         /\ Named(h, x) # Named(r, x)
               \/ \E n \in NamesIn(b, h, r) : c[n].kept
<1> DEFINE m == MergeLevel(of).entries
<1>1. ASSUME NEW n \in NamesIn(b, h, r)
      PROVE  /\ n = Plain(n[1])
             /\ of[n].kept <=> \/ Slot(b, n) # {} /\ of[n].entries # {}
                                  /\ (Slot(h, n) = {}) # (Slot(r, n) = {})
                               \/ c[n].kept
  <2>1. /\ of[n] = MergeName(c[n], Slot(b, n), Slot(h, n), Slot(r, n))
        /\ OneName(n, ds, c[n], Slot(b, n), Slot(h, n), Slot(r, n))
    BY LevelName
  <2>2. n = Plain(n[1])
    BY <2>1 DEF OneName
  <2> QED
    BY <2>1, <2>2, YieldKept
<1>2. ASSUME NEW x
      PROVE  /\ Named(b, x) <=> Slot(b, Plain(x)) # {}
             /\ Named(h, x) <=> Slot(h, Plain(x)) # {}
             /\ Named(r, x) <=> Slot(r, Plain(x)) # {}
             /\ Named(m, x) <=> Plain(x) \in NamesIn(b, h, r) /\ of[Plain(x)].entries # {}
  <2>1. Named(m, x) <=> Plain(x) \in NamesIn(b, h, r) /\ of[Plain(x)].entries # {}
    <3>1. \A e : e \in m /\ e.name[1] = x
                   <=> Plain(x) \in NamesIn(b, h, r) /\ e \in of[Plain(x)].entries
      BY LevelNamed
    <3> HIDE DEF m
    <3> QED
      BY <3>1 DEF Named
  <2>2. DirLevel(b, ds) /\ DirLevel(h, ds) /\ DirLevel(r, ds)
    BY DEF Level
  <2>3. /\ Named(b, x) <=> Slot(b, Plain(x)) # {}
        /\ Named(h, x) <=> Slot(h, Plain(x)) # {}
        /\ Named(r, x) <=> Slot(r, Plain(x)) # {}
    BY <2>2, NamedInSlot
  <2> QED
    BY <2>1, <2>3
<1>3. MergeLevel(of).kept <=> \E n \in NamesIn(b, h, r) : of[n].kept
  BY LevelEntry
<1>4. ASSUME NEW n \in NamesIn(b, h, r), Slot(b, n) # {}, of[n].entries # {},
             (Slot(h, n) = {}) # (Slot(r, n) = {})
      PROVE  \E x : Named(b, x) /\ Named(m, x) /\ Named(h, x) # Named(r, x)
  <2>1. PICK x : n = Plain(x)
    BY <1>1
  <2> HIDE DEF m
  <2>2. Named(b, x) /\ Named(m, x) /\ Named(h, x) # Named(r, x)
    BY <1>2, <1>4, <2>1
  <2> QED
    BY <2>2
<1>5. ASSUME NEW x, Named(b, x), Named(m, x), Named(h, x) # Named(r, x)
      PROVE  \E n \in NamesIn(b, h, r) :
               /\ Slot(b, n) # {} /\ of[n].entries # {}
               /\ (Slot(h, n) = {}) # (Slot(r, n) = {})
  <2> HIDE DEF m
  <2>1. Plain(x) \in NamesIn(b, h, r)
    BY <1>2, <1>5
  <2>2. Slot(b, Plain(x)) # {} /\ of[Plain(x)].entries # {}
    BY <1>2, <1>5
  <2>3. (Slot(h, Plain(x)) = {}) # (Slot(r, Plain(x)) = {})
    BY <1>2, <1>5 DEF Named
  <2> QED
    BY <2>1, <2>2, <2>3
<1> HIDE DEF m
<1> QED
  BY <1>1, <1>3, <1>4, <1>5 DEF m

-----------------------------------------------------------------------------
(* The lower level, which holds files only *)

Has(d, y, v) == \E f \in d : f.name[1] = y /\ f.ver = v

FlatSlots(b, h, r) ==
  [n \in NamesIn(b, h, r) |-> MergeName(Below, Slot(b, n), Slot(h, n), Slot(r, n))]
Nothing(b, h, r) == [n \in NamesIn(b, h, r) |-> Below]

LEMMA FlatIsLevel ==
  ASSUME NEW b, NEW h, NEW r, FlatDir(b), FlatDir(h), FlatDir(r)
  PROVE  /\ Level({}, b, h, r, Nothing(b, h, r), FlatSlots(b, h, r))
         /\ MergeFlat(b, h, r) = MergeLevel(FlatSlots(b, h, r))
<1>1. DirLevel(b, {}) /\ DirLevel(h, {}) /\ DirLevel(r, {})
  BY FlatLevel
<1>2. ASSUME NEW n
      PROVE  Children(Slot(b, n)) = {} /\ Children(Slot(h, n)) = {} /\ Children(Slot(r, n)) = {}
  <2>1. ASSUME NEW d, DirLevel(d, {})
        PROVE  Children(Slot(d, n)) = {}
    <3>1. IsSlot(Slot(d, n), n, {})
      BY <2>1, SlotOf
    <3>2. ~DirSlot(Slot(d, n), n, {})
      BY DEF DirSlot
    <3> QED
      BY <3>1, <3>2, SlotKinds DEF IsSlot
  <2> QED
    BY <1>1, <2>1
<1>3. Settled(Below, {}, {}, {})
  BY DEF Settled, Taken, Outcome, Below
<1>4. Level({}, b, h, r, Nothing(b, h, r), FlatSlots(b, h, r))
  BY <1>1, <1>2, <1>3 DEF Level, Nothing, FlatSlots
<1>5. MergeFlat(b, h, r) = MergeLevel(FlatSlots(b, h, r))
  BY Zenon DEF MergeFlat, FlatSlots
<1> QED
  BY <1>4, <1>5

LEMMA YieldFlat ==
  ASSUME NEW n, NEW child, NEW b, NEW h, NEW r, OneName(n, {}, child, b, h, r),
         NEW e \in MergeName(child, b, h, r).entries
  PROVE  FileEntry(e, n[1])
<1>1. CASE OneSided(b, h, r)
  <2>1. PICK s \in {h, r} : e \in s
    BY <1>1, YieldTaken
  <2>2. FileEntry(e, n[1]) \/ DirEntry(e, n[1], {})
    BY <2>1, SlotEntry DEF OneName, Slots
  <2> QED
    BY <2>2 DEF DirEntry
<1>2. CASE ~OneSided(b, h, r)
  <2>1. ~Merges(n, child, h, r, e)
    <3>1. \A s \in {h, r} : IsSlot(s, n, {}) /\ ~DirSlot(s, n, {})
      BY DEF OneName, Slots, DirSlot
    <3> QED
      BY <3>1, SlotKinds DEF Merges
  <2>2. Kept(n, h, e) \/ Renames(n, h, r, e)
    BY <1>2, <2>1, Yield
  <2>3. \E k, v : e = File(k, v)
    BY <2>2 DEF Kept, Renames
  <2>4. e.kind = "file"
    BY <2>3, FileFields
  <2>5. ~DirEntry(e, n[1], {} \cup {child.entries})
    BY <2>4, DirFields DEF DirEntry
  <2>6. FileEntry(e, n[1]) \/ DirEntry(e, n[1], {} \cup {child.entries})
    BY YieldShape
  <2> QED
    BY <2>5, <2>6
<1> QED
  BY <1>1, <1>2

(* What the merge of two lists of files promises. *)
FlatPromise(b, h, r, m) ==
  /\ \A e \in m.entries : FileEntry(e, e.name[1])
  /\ Unique(m.entries)
  /\ \A y, v : Has(m.entries, y, v) <=> Three(Has(b, y, v), Has(h, y, v), Has(r, y, v))
  /\ h \ b \subseteq m.entries
  /\ m.conflict <=> \E e \in m.entries : e.name[2] # 0
  /\ m.kept <=> \E y : Named(b, y) /\ Named(m.entries, y) /\ Named(h, y) # Named(r, y)
  /\ Settled(m, b, h, r)

LEMMA FilesOnly ==
  ASSUME NEW d, \A e \in d : e.kind = "file", NEW y, NEW v
  PROVE  Has(d, y, v) <=> HasFile(d, y, v)
BY DEF Has, HasFile

LEMMA FlatKinds ==
  ASSUME NEW d, FlatDir(d)
  PROVE  \A e \in d : e.kind = "file" /\ e.name[2] = 0 /\ e.sub = {}
<1> TAKE e \in d
<1>1. PICK y \in SubNames, v \in Versions : e = File(Plain(y), v)
  BY DEF FlatDir, FileOf
<1> QED
  BY <1>1, FileFields DEF Plain

(* merge_level keeps that promise where it recurses no further.             *)
LEMMA FlatMerge ==
  ASSUME Setting, NEW b, NEW h, NEW r, FlatDir(b), FlatDir(h), FlatDir(r)
  PROVE  FlatPromise(b, h, r, MergeFlat(b, h, r))
<1> DEFINE of == FlatSlots(b, h, r)
           c == Nothing(b, h, r)
           m == MergeFlat(b, h, r)
<1>1. Level({}, b, h, r, c, of) /\ m = MergeLevel(of)
  BY FlatIsLevel
<1>2. \A n \in NamesIn(b, h, r) : c[n] = Below
  BY DEF Nothing
<1> HIDE DEF of, c, m
<1>3. ASSUME NEW e \in m.entries
      PROVE  FileEntry(e, e.name[1]) /\ e.kind = "file"
  <2>1. PICK n \in NamesIn(b, h, r) : e \in of[n].entries /\ e.name[1] = n[1]
    BY <1>1, LevelEntry
  <2>2. /\ of[n] = MergeName(c[n], Slot(b, n), Slot(h, n), Slot(r, n))
        /\ OneName(n, {}, c[n], Slot(b, n), Slot(h, n), Slot(r, n))
    BY <1>1, LevelName
  <2>3. FileEntry(e, n[1])
    BY <2>1, <2>2, YieldFlat
  <2>4. e.kind = "file"
    BY <2>3, FileFields DEF FileEntry
  <2> QED
    BY <2>1, <2>3, <2>4
<1>4. Unique(m.entries)
  BY <1>1, LevelUnique
<1>5. ASSUME NEW y, NEW v
      PROVE  Has(m.entries, y, v) <=> Three(Has(b, y, v), Has(h, y, v), Has(r, y, v))
  <2>1. HasFile(m.entries, y, v)
          <=> Three(HasFile(b, y, v), HasFile(h, y, v), HasFile(r, y, v))
    BY <1>1, LevelFiles
  <2>2. /\ Has(m.entries, y, v) <=> HasFile(m.entries, y, v)
        /\ Has(b, y, v) <=> HasFile(b, y, v)
        /\ Has(h, y, v) <=> HasFile(h, y, v)
        /\ Has(r, y, v) <=> HasFile(r, y, v)
    BY <1>3, FilesOnly, FlatKinds
  <2> QED
    BY <2>1, <2>2 DEF Three
<1>6. h \ b \subseteq m.entries
  BY <1>1, LevelHead, FlatKinds
<1>7. m.conflict <=> \E e \in m.entries : e.name[2] # 0
  <2>1. \A n \in NamesIn(b, h, r) : ~c[n].conflict
    BY <1>2 DEF Below
  <2>2. m.conflict <=> \/ \E e \in m.entries : e.name[2] # 0
                       \/ \E n \in NamesIn(b, h, r) : c[n].conflict
    BY <1>1, LevelConflict
  <2> QED
    BY <2>1, <2>2
<1>8. m.kept <=> \E y : Named(b, y) /\ Named(m.entries, y) /\ Named(h, y) # Named(r, y)
  <2>1. \A n \in NamesIn(b, h, r) : ~c[n].kept
    BY <1>2 DEF Below
  <2>2. m.kept <=> \/ \E x : Named(b, x) /\ Named(m.entries, x) /\ Named(h, x) # Named(r, x)
                   \/ \E n \in NamesIn(b, h, r) : c[n].kept
    BY <1>1, LevelKept
  <2> QED
    BY <2>1, <2>2
<1>9. Settled(m, b, h, r)
  BY <1>1, LevelTaken DEF Settled
<1> QED
  BY <1>3, <1>4, <1>5, <1>6, <1>7, <1>8, <1>9 DEF FlatPromise, m

-----------------------------------------------------------------------------
(* The upper level *)

TreeChildren(b, h, r) ==
  [n \in NamesIn(b, h, r) |->
     MergeFlat(Children(Slot(b, n)), Children(Slot(h, n)), Children(Slot(r, n)))]
TreeSlots(b, h, r) ==
  [n \in NamesIn(b, h, r) |->
     MergeName(TreeChildren(b, h, r)[n], Slot(b, n), Slot(h, n), Slot(r, n))]

LEMMA ChildrenFlat ==
  ASSUME NEW d, TreeDir(d), NEW n
  PROVE  FlatDir(Children(Slot(d, n)))
<1>1. IsSlot(Slot(d, n), n, Flat)
  BY TreeLevel, SlotOf
<1>2. Children(Slot(d, n)) = {} \/ Children(Slot(d, n)) \in Flat
  BY <1>1, SlotKinds DEF IsSlot
<1>3. FlatDir({})
  BY DEF FlatDir, Unique
<1> QED
  BY <1>2, <1>3, FlatShape

(* The upper level rests on the promise of the lower one.                   *)
LEMMA TreeIsLevel ==
  ASSUME Setting, NEW b, NEW h, NEW r, TreeDir(b), TreeDir(h), TreeDir(r)
  PROVE  /\ Level(Flat, b, h, r, TreeChildren(b, h, r), TreeSlots(b, h, r))
         /\ MergeTrees(b, h, r) = MergeLevel(TreeSlots(b, h, r))
         /\ \A n \in NamesIn(b, h, r) :
              FlatPromise(Children(Slot(b, n)), Children(Slot(h, n)), Children(Slot(r, n)),
                          TreeChildren(b, h, r)[n])
<1> DEFINE c == TreeChildren(b, h, r)
<1>1. DirLevel(b, Flat) /\ DirLevel(h, Flat) /\ DirLevel(r, Flat)
  BY TreeLevel
<1>2. ASSUME NEW n \in NamesIn(b, h, r)
      PROVE  c[n] = MergeFlat(Children(Slot(b, n)), Children(Slot(h, n)), Children(Slot(r, n)))
  BY DEF TreeChildren
<1>3. ASSUME NEW n \in NamesIn(b, h, r)
      PROVE  FlatPromise(Children(Slot(b, n)), Children(Slot(h, n)), Children(Slot(r, n)), c[n])
  <2>1. /\ FlatDir(Children(Slot(b, n))) /\ FlatDir(Children(Slot(h, n)))
        /\ FlatDir(Children(Slot(r, n)))
    BY ChildrenFlat
  <2> HIDE DEF c
  <2> QED
    BY <1>2, <2>1, FlatMerge
<1>4. Level(Flat, b, h, r, c, TreeSlots(b, h, r))
  <2>1. \A n \in NamesIn(b, h, r) :
          Settled(c[n], Children(Slot(b, n)), Children(Slot(h, n)), Children(Slot(r, n)))
    BY <1>3 DEF FlatPromise
  <2>2. TreeSlots(b, h, r) = [n \in NamesIn(b, h, r) |->
                                MergeName(c[n], Slot(b, n), Slot(h, n), Slot(r, n))]
    BY Zenon DEF TreeSlots
  <2> HIDE DEF c
  <2> QED
    BY <1>1, <2>1, <2>2 DEF Level
<1>5. MergeTrees(b, h, r) = MergeLevel(TreeSlots(b, h, r))
  <2> DEFINE M == [n \in NamesIn(b, h, r) |->
                     MergeName(MergeFlat(Children(Slot(b, n)), Children(Slot(h, n)),
                                         Children(Slot(r, n))),
                               Slot(b, n), Slot(h, n), Slot(r, n))]
  <2>1. MergeTrees(b, h, r) = MergeLevel(M)
    BY Zenon DEF MergeTrees
  <2>2. M = TreeSlots(b, h, r)
    BY <1>2 DEF TreeSlots
  <2> HIDE DEF M
  <2> QED
    BY <2>1, <2>2
<1> QED
  BY <1>3, <1>4, <1>5

(* What is below a name, marked or not. *)
Under(d, x) == UNION {e.sub : e \in {g \in d : g.name[1] = x}}

LEMMA TreeUnder ==
  ASSUME NEW d, TreeDir(d), NEW x
  PROVE  Under(d, x) = Children(Slot(d, Plain(x))) /\ FlatDir(Under(d, x))
<1> DEFINE s == Slot(d, Plain(x))
<1>1. DirLevel(d, Flat)
  BY TreeLevel
<1>2. Plain(x)[1] = x
  BY DEF Plain
<1>3. {g \in d : g.name[1] = x} = s
  BY <1>1, <1>2 DEF DirLevel, Slot
<1>4. Subs(s) = Children(s)
  BY <1>1, SlotOf, SubsOfSlot
<1>5. Under(d, x) = Subs(s)
  BY <1>3, Zenon DEF Under, Subs
<1>6. FlatDir(Children(s))
  BY ChildrenFlat
<1> QED
  BY <1>4, <1>5, <1>6

(* What is below a merged name is the merge of what is below it. *)
LEMMA MergedUnder ==
  ASSUME Setting, NEW b, NEW h, NEW r, TreeDir(b), TreeDir(h), TreeDir(r), NEW x
  PROVE  /\ Under(MergeTrees(b, h, r).entries, x)
              = MergeFlat(Under(b, x), Under(h, x), Under(r, x)).entries
         /\ FlatPromise(Under(b, x), Under(h, x), Under(r, x),
                        MergeFlat(Under(b, x), Under(h, x), Under(r, x)))
<1> DEFINE n == Plain(x)
           of == TreeSlots(b, h, r)
           c == TreeChildren(b, h, r)
           m == MergeTrees(b, h, r).entries
           f == MergeFlat(Under(b, x), Under(h, x), Under(r, x))
<1>1. Level(Flat, b, h, r, c, of) /\ MergeTrees(b, h, r) = MergeLevel(of)
  BY TreeIsLevel
<1>2. /\ Under(b, x) = Children(Slot(b, n)) /\ FlatDir(Under(b, x))
      /\ Under(h, x) = Children(Slot(h, n)) /\ FlatDir(Under(h, x))
      /\ Under(r, x) = Children(Slot(r, n)) /\ FlatDir(Under(r, x))
  BY TreeUnder
<1>3. FlatPromise(Under(b, x), Under(h, x), Under(r, x), f)
  BY <1>2, FlatMerge
<1>4. ASSUME NEW e
      PROVE  e \in m /\ e.name[1] = x <=> n \in NamesIn(b, h, r) /\ e \in of[n].entries
  <2> HIDE DEF of, c
  <2> QED
    BY <1>1, LevelNamed
<1>5. CASE n \in NamesIn(b, h, r)
  <2>1. c[n] = f
    BY <1>2, <1>5 DEF TreeChildren
  <2> HIDE DEF of, c, f, m, n
  <2>2. Subs(of[n].entries) = c[n].entries
    BY <1>1, <1>5, LevelName, YieldSubs
  <2>3. {g \in m : g.name[1] = x} = of[n].entries
    BY <1>4, <1>5
  <2>4. Under(m, x) = Subs(of[n].entries)
    BY <2>3, Zenon DEF Under, Subs
  <2> QED
    BY <2>1, <2>2, <2>4, <1>3 DEF m, f
<1>6. CASE n \notin NamesIn(b, h, r)
  <2>1. Slot(b, n) = {} /\ Slot(h, n) = {} /\ Slot(r, n) = {}
    BY <1>6 DEF Slot, NamesIn
  <2>2. Under(b, x) = {} /\ Under(h, x) = {} /\ Under(r, x) = {}
    BY <1>2, <2>1, NoEntry
  <2> HIDE DEF of, c, f, m, n
  <2>3. f.entries = {}
    BY <1>3, <2>2 DEF FlatPromise, Settled, OneSided, Taken, Outcome
  <2>4. {g \in m : g.name[1] = x} = {}
    BY <1>4, <1>6
  <2>5. Under(m, x) = {}
    BY <2>4 DEF Under
  <2> QED
    BY <2>3, <2>5, <1>3 DEF m, f
<1> QED
  BY <1>5, <1>6

(* The shape of a merged tree. *)
Kinds(e) == (e.kind = "file" /\ e.sub = {}) \/ e.kind = "dir"

LEMMA TreeKinds ==
  ASSUME NEW d, TreeDir(d)
  PROVE  \A e \in d : Kinds(e) /\ e.name = Plain(e.name[1])
<1> TAKE e \in d
<1>0. e.name = Plain(e.name[1])
  BY TreeLevel DEF DirLevel
<1>1. CASE FileOf(e, Names)
  <2>1. PICK x \in Names, v \in Versions : e = File(Plain(x), v)
    BY <1>1 DEF FileOf
  <2>2. e.kind = "file" /\ e.sub = {}
    BY <2>1, FileFields
  <2> QED
    BY <1>0, <2>2 DEF Kinds
<1>2. CASE DirOf(e, Names)
  <2>1. PICK x \in Names, s \in Flat : e = Dir(Plain(x), s)
    BY <1>2 DEF DirOf
  <2>2. e.kind = "dir"
    BY <2>1, DirFields
  <2> QED
    BY <1>0, <2>2 DEF Kinds
<1> QED
  BY <1>1, <1>2 DEF TreeDir

LEMMA MergedKinds ==
  ASSUME Setting, NEW b, NEW h, NEW r, TreeDir(b), TreeDir(h), TreeDir(r)
  PROVE  \A e \in MergeTrees(b, h, r).entries : Kinds(e) /\ Unique(e.sub)
<1> DEFINE of == TreeSlots(b, h, r)
           c == TreeChildren(b, h, r)
<1>1. Level(Flat, b, h, r, c, of) /\ MergeTrees(b, h, r) = MergeLevel(of)
  BY TreeIsLevel
<1>2. \A n \in NamesIn(b, h, r) : Unique(c[n].entries)
  BY TreeIsLevel DEF FlatPromise
<1> HIDE DEF of, c
<1> TAKE e \in MergeTrees(b, h, r).entries
<1>3. PICK n \in NamesIn(b, h, r) : e \in of[n].entries
  BY <1>1, LevelEntry
<1>4. /\ of[n] = MergeName(c[n], Slot(b, n), Slot(h, n), Slot(r, n))
      /\ OneName(n, Flat, c[n], Slot(b, n), Slot(h, n), Slot(r, n))
  BY <1>1, LevelName
<1>5. FileEntry(e, n[1]) \/ DirEntry(e, n[1], Flat \cup {c[n].entries})
  BY <1>3, <1>4, YieldShape
<1>6. CASE FileEntry(e, n[1])
  <2>1. e.kind = "file" /\ e.sub = {}
    BY <1>6, FileFields DEF FileEntry
  <2> QED
    BY <2>1 DEF Kinds, Unique
<1>7. CASE DirEntry(e, n[1], Flat \cup {c[n].entries})
  <2>1. e.kind = "dir" /\ e.sub \in Flat \cup {c[n].entries}
    BY <1>7, DirFields DEF DirEntry
  <2>2. \A s \in Flat : Unique(s)
    BY FlatShape DEF FlatDir
  <2> QED
    BY <1>2, <2>1, <2>2 DEF Kinds
<1> QED
  BY <1>5, <1>6, <1>7

-----------------------------------------------------------------------------
(* Files by the path they started from *)

LEMMA OriginOfOne ==
  ASSUME NEW a
  PROVE  Origin(<<a>>) = <<a[1]>>
BY DEF Origin

LEMMA OriginOfTwo ==
  ASSUME NEW a, NEW k
  PROVE  Origin(<<a, k>>) = <<a[1], k[1]>>
BY DEF Origin

LEMMA ContentsAre ==
  ASSUME NEW d, NEW c
  PROVE  c \in Contents(d)
           <=> \/ \E e \in d : e.kind = "file" /\ c = <<<<e.name>>, e.ver>>
               \/ \E e \in d : e.kind = "dir"
                               /\ \E f \in e.sub : c = <<<<e.name, f.name>>, f.ver>>
BY DEF Contents, FilesIn, DirsIn

LEMMA OriginForm ==
  ASSUME NEW d, \A e \in d : Kinds(e), NEW o
  PROVE  o \in Origins(d)
           <=> \/ \E x, v : o = <<<<x>>, v>> /\ HasFile(d, x, v)
               \/ \E x, y, v : o = <<<<x, y>>, v>> /\ Has(Under(d, x), y, v)
<1>1. ASSUME NEW c \in Contents(d), o = <<Origin(c[1]), c[2]>>
      PROVE  \/ \E x, v : o = <<<<x>>, v>> /\ HasFile(d, x, v)
             \/ \E x, y, v : o = <<<<x, y>>, v>> /\ Has(Under(d, x), y, v)
  <2>1. CASE \E e \in d : e.kind = "file" /\ c = <<<<e.name>>, e.ver>>
    <3>1. PICK e \in d : e.kind = "file" /\ c = <<<<e.name>>, e.ver>>
      BY <2>1
    <3>2. o = <<<<e.name[1]>>, e.ver>>
      BY <1>1, <3>1, OriginOfOne
    <3>3. HasFile(d, e.name[1], e.ver)
      BY <3>1 DEF HasFile
    <3> QED
      BY <3>2, <3>3
  <2>2. CASE \E e \in d : e.kind = "dir" /\ \E f \in e.sub : c = <<<<e.name, f.name>>, f.ver>>
    <3>1. PICK e \in d : e.kind = "dir" /\ \E f \in e.sub : c = <<<<e.name, f.name>>, f.ver>>
      BY <2>2
    <3>2. PICK f \in e.sub : c = <<<<e.name, f.name>>, f.ver>>
      BY <3>1
    <3>3. o = <<<<e.name[1], f.name[1]>>, f.ver>>
      BY <1>1, <3>2, OriginOfTwo
    <3>4. f \in Under(d, e.name[1])
      BY <3>1, <3>2 DEF Under
    <3>5. Has(Under(d, e.name[1]), f.name[1], f.ver)
      BY <3>4 DEF Has
    <3> QED
      BY <3>3, <3>5
  <2> QED
    BY <2>1, <2>2, ContentsAre
<1>2. ASSUME NEW x, NEW v, o = <<<<x>>, v>>, HasFile(d, x, v)
      PROVE  o \in Origins(d)
  <2>1. PICK e \in d : e.kind = "file" /\ e.name[1] = x /\ e.ver = v
    BY <1>2 DEF HasFile
  <2> DEFINE c == <<<<e.name>>, e.ver>>
  <2>2. c \in Contents(d)
    BY <2>1, ContentsAre
  <2>3. c[1] = <<e.name>> /\ c[2] = e.ver
    OBVIOUS
  <2>4. o = <<Origin(c[1]), c[2]>>
    BY <1>2, <2>1, <2>3, OriginOfOne
  <2> HIDE DEF c
  <2> QED
    BY <2>2, <2>4 DEF Origins
<1>3. ASSUME NEW x, NEW y, NEW v, o = <<<<x, y>>, v>>, Has(Under(d, x), y, v)
      PROVE  o \in Origins(d)
  <2>1. PICK f \in Under(d, x) : f.name[1] = y /\ f.ver = v
    BY <1>3 DEF Has
  <2>2. PICK e \in d : e.name[1] = x /\ f \in e.sub
    BY DEF Under
  <2>3. e.kind = "dir"
    BY <2>2 DEF Kinds
  <2> DEFINE c == <<<<e.name, f.name>>, f.ver>>
  <2>4. c \in Contents(d)
    BY <2>2, <2>3, ContentsAre
  <2>5. c[1] = <<e.name, f.name>> /\ c[2] = f.ver
    OBVIOUS
  <2>6. o = <<Origin(c[1]), c[2]>>
    BY <1>3, <2>1, <2>2, <2>5, OriginOfTwo
  <2> HIDE DEF c
  <2> QED
    BY <2>4, <2>6 DEF Origins
<1> QED
  BY <1>1, <1>2, <1>3 DEF Origins

LEMMA OriginFile ==
  ASSUME NEW d, \A e \in d : Kinds(e), NEW x, NEW v
  PROVE  <<<<x>>, v>> \in Origins(d) <=> HasFile(d, x, v)
<1> DEFINE o == <<<<x>>, v>>
<1>1. ASSUME NEW a, NEW w, o = <<<<a>>, w>>
      PROVE  a = x /\ w = v
  BY <1>1
<1>2. ASSUME NEW a, NEW y, NEW w
      PROVE  o # <<<<a, y>>, w>>
  <2>1. <<x>> # <<a, y>>
    OBVIOUS
  <2> QED
    BY <2>1
<1>3. o \in Origins(d)
        <=> \/ \E a, w : o = <<<<a>>, w>> /\ HasFile(d, a, w)
            \/ \E a, y, w : o = <<<<a, y>>, w>> /\ Has(Under(d, a), y, w)
  BY OriginForm, Zenon
<1>4. o = <<<<x>>, v>>
  OBVIOUS
<1> HIDE DEF o
<1> QED
  BY <1>1, <1>2, <1>3, <1>4

LEMMA OriginSub ==
  ASSUME NEW d, \A e \in d : Kinds(e), NEW x, NEW y, NEW v
  PROVE  <<<<x, y>>, v>> \in Origins(d) <=> Has(Under(d, x), y, v)
<1> DEFINE o == <<<<x, y>>, v>>
<1>1. ASSUME NEW a, NEW k, NEW w, o = <<<<a, k>>, w>>
      PROVE  a = x /\ k = y /\ w = v
  BY <1>1
<1>2. ASSUME NEW a, NEW w
      PROVE  o # <<<<a>>, w>>
  <2>1. <<x, y>> # <<a>>
    OBVIOUS
  <2> QED
    BY <2>1
<1>3. o \in Origins(d)
        <=> \/ \E a, w : o = <<<<a>>, w>> /\ HasFile(d, a, w)
            \/ \E a, k, w : o = <<<<a, k>>, w>> /\ Has(Under(d, a), k, w)
  BY OriginForm, Zenon
<1>4. o = <<<<x, y>>, v>>
  OBVIOUS
<1> HIDE DEF o
<1> QED
  BY <1>1, <1>2, <1>3, <1>4

(* The files of a merged tree follow the three-way rule, whatever the       *)
(* conflicts made of their names.                                           *)
LEMMA ThreeWay ==
  ASSUME NEW b, NEW h, NEW r, TreeDir(b), TreeDir(h), TreeDir(r), NEW o
  PROVE  o \in Origins(MergeTrees(b, h, r).entries)
           <=> Three(o \in Origins(b), o \in Origins(h), o \in Origins(r))
<1> DEFINE m == MergeTrees(b, h, r).entries
<1>1. Setting
  BY MarksTellApart
<1>2. \A d \in {b, h, r, m} : \A e \in d : Kinds(e)
  BY <1>1, TreeKinds, MergedKinds
<1>3. ASSUME NEW x, NEW v
      PROVE  HasFile(m, x, v) <=> Three(HasFile(b, x, v), HasFile(h, x, v), HasFile(r, x, v))
  BY <1>1, TreeIsLevel, LevelFiles
<1>4. ASSUME NEW x, NEW y, NEW v
      PROVE  Has(Under(m, x), y, v)
               <=> Three(Has(Under(b, x), y, v), Has(Under(h, x), y, v), Has(Under(r, x), y, v))
  <2>1. /\ Under(m, x) = MergeFlat(Under(b, x), Under(h, x), Under(r, x)).entries
        /\ FlatPromise(Under(b, x), Under(h, x), Under(r, x),
                       MergeFlat(Under(b, x), Under(h, x), Under(r, x)))
    BY <1>1, MergedUnder
  <2> HIDE DEF m
  <2> QED
    BY <2>1 DEF FlatPromise
<1> HIDE DEF m
<1>5. ASSUME NEW x, NEW v, o = <<<<x>>, v>>
      PROVE  o \in Origins(m) <=> Three(o \in Origins(b), o \in Origins(h), o \in Origins(r))
  <2>1. \A d \in {b, h, r, m} : o \in Origins(d) <=> HasFile(d, x, v)
    BY <1>2, <1>5, OriginFile
  <2> QED
    BY <1>3, <2>1 DEF Three
<1>6. ASSUME NEW x, NEW y, NEW v, o = <<<<x, y>>, v>>
      PROVE  o \in Origins(m) <=> Three(o \in Origins(b), o \in Origins(h), o \in Origins(r))
  <2>1. \A d \in {b, h, r, m} : o \in Origins(d) <=> Has(Under(d, x), y, v)
    BY <1>2, <1>6, OriginSub
  <2> QED
    BY <1>4, <2>1 DEF Three
<1>7. CASE \E d \in {b, h, r, m} : o \in Origins(d)
  <2>1. PICK d \in {b, h, r, m} : o \in Origins(d)
    BY <1>7
  <2>2. \/ \E x, v : o = <<<<x>>, v>>
        \/ \E x, y, v : o = <<<<x, y>>, v>>
    BY <1>2, <2>1, OriginForm
  <2> QED
    BY <1>5, <1>6, <2>2 DEF m
<1>8. CASE ~\E d \in {b, h, r, m} : o \in Origins(d)
  BY <1>8 DEF Three, m
<1> QED
  BY <1>7, <1>8

(* The files of a merged tree, by the paths they started from: those both   *)
(* sides have, and those a side has and the base has not (merge_trees).     *)
THEOREM ThreeWayRule ==
  \A b, h, r \in Trees :
    Origins(MergeTrees(b, h, r).entries)
      = (Origins(h) \cap Origins(r)) \cup ((Origins(h) \cup Origins(r)) \ Origins(b))
<1> TAKE b, h, r \in Trees
<1>1. TreeDir(b) /\ TreeDir(h) /\ TreeDir(r)
  BY TreeShape
<1>2. \A o : o \in Origins(MergeTrees(b, h, r).entries)
              <=> Three(o \in Origins(b), o \in Origins(h), o \in Origins(r))
  BY <1>1, ThreeWay
<1> QED
  BY <1>2 DEF Three

-----------------------------------------------------------------------------
(* The merge of three trees *)

(* What head added or changed is in the merged tree, under its path.        *)
LEMMA HeadKept ==
  ASSUME NEW b, NEW h, NEW r, TreeDir(b), TreeDir(h), TreeDir(r),
         NEW c \in Contents(h) \ Contents(b)
  PROVE  c \in Contents(MergeTrees(b, h, r).entries)
<1> DEFINE of == TreeSlots(b, h, r)
           ch == TreeChildren(b, h, r)
           m == MergeTrees(b, h, r).entries
<1>0. Setting
  BY MarksTellApart
<1>1. Level(Flat, b, h, r, ch, of) /\ m = MergeLevel(of).entries
  BY <1>0, TreeIsLevel
<1>2. \A n \in NamesIn(b, h, r) :
        Children(Slot(h, n)) \ Children(Slot(b, n)) \subseteq ch[n].entries
  BY <1>0, TreeIsLevel DEF FlatPromise
<1> HIDE DEF of, ch, m
<1>3. CASE \E e \in h : e.kind = "file" /\ c = <<<<e.name>>, e.ver>>
  <2>1. PICK e \in h : e.kind = "file" /\ c = <<<<e.name>>, e.ver>>
    BY <1>3
  <2>2. e \notin b
    BY <2>1, ContentsAre
  <2>3. e \in m
    BY <1>1, <2>1, <2>2, LevelHead
  <2> QED
    BY <2>1, <2>3, ContentsAre DEF m
<1>4. CASE \E e \in h : e.kind = "dir" /\ \E f \in e.sub : c = <<<<e.name, f.name>>, f.ver>>
  <2>1. PICK e \in h : e.kind = "dir" /\ \E f \in e.sub : c = <<<<e.name, f.name>>, f.ver>>
    BY <1>4
  <2>2. PICK f \in e.sub : c = <<<<e.name, f.name>>, f.ver>>
    BY <2>1
  <2> DEFINE n == e.name
  <2>3. n \in NamesIn(b, h, r)
    BY DEF NamesIn
  <2>4. e \in Slot(h, n)
    BY DEF Slot
  <2>5. f \in Children(Slot(h, n))
    BY <2>1, <2>4 DEF Children, DirsIn
  <2>6. f \notin Children(Slot(b, n))
    <3>1. SUFFICES ASSUME f \in Children(Slot(b, n))
                   PROVE  FALSE
      OBVIOUS
    <3>2. PICK g \in b : g.kind = "dir" /\ g.name = n /\ f \in g.sub
      BY <3>1 DEF Children, DirsIn, Slot
    <3> QED
      BY <3>2, <2>2, ContentsAre
  <2>7. f \in ch[n].entries
    BY <1>2, <2>3, <2>5, <2>6
  <2> HIDE DEF n
  <2>8. PICK g \in of[n].entries : g.kind = "dir" /\ g.name = n /\ f \in g.sub
    BY <1>1, <2>1, <2>2, <2>3, <2>4, <2>6, <2>7, LevelName, YieldHead
  <2>9. g \in m
    BY <1>1, <2>3, <2>8, LevelEntry
  <2> QED
    BY <2>2, <2>8, <2>9, ContentsAre DEF m, n
<1> QED
  BY <1>3, <1>4, ContentsAre

(* In a tree without conflict copies the path a file started from is its    *)
(* path.                                                                    *)
LEMMA PlainPaths ==
  ASSUME NEW d, NEW t, TreeDir(d), TreeDir(t), NEW c \in Contents(t) \ Contents(d)
  PROVE  <<Origin(c[1]), c[2]>> \in Origins(t) \ Origins(d)
<1> DEFINE o == <<Origin(c[1]), c[2]>>
<1>0. \A k \in {d, t} : \A e \in k : Kinds(e) /\ e.name = Plain(e.name[1])
  BY TreeKinds
<1>1. o \in Origins(t)
  BY DEF Origins
<1>2. CASE \E e \in t : e.kind = "file" /\ c = <<<<e.name>>, e.ver>>
  <2>1. PICK e \in t : e.kind = "file" /\ c = <<<<e.name>>, e.ver>>
    BY <1>2
  <2>2. o = <<<<e.name[1]>>, e.ver>>
    BY <2>1, OriginOfOne
  <2>3. ~HasFile(d, e.name[1], e.ver)
    <3>1. SUFFICES ASSUME NEW g \in d, g.kind = "file", g.name[1] = e.name[1], g.ver = e.ver
                   PROVE  FALSE
      BY DEF HasFile
    <3>2. g.name = e.name
      BY <1>0, <3>1
    <3> QED
      BY <2>1, <3>1, <3>2, ContentsAre
  <2> HIDE DEF o
  <2> QED
    BY <1>0, <1>1, <2>2, <2>3, OriginFile DEF o
<1>3. CASE \E e \in t : e.kind = "dir" /\ \E f \in e.sub : c = <<<<e.name, f.name>>, f.ver>>
  <2>1. PICK e \in t : e.kind = "dir" /\ \E f \in e.sub : c = <<<<e.name, f.name>>, f.ver>>
    BY <1>3
  <2>2. PICK f \in e.sub : c = <<<<e.name, f.name>>, f.ver>>
    BY <2>1
  <2>3. o = <<<<e.name[1], f.name[1]>>, f.ver>>
    BY <2>2, OriginOfTwo
  <2>4. ~Has(Under(d, e.name[1]), f.name[1], f.ver)
    <3>1. SUFFICES ASSUME NEW k \in Under(d, e.name[1]), k.name[1] = f.name[1], k.ver = f.ver
                   PROVE  FALSE
      BY DEF Has
    <3>2. PICK g \in d : g.name[1] = e.name[1] /\ k \in g.sub
      BY DEF Under
    <3>3. g.kind = "dir" /\ g.name = e.name
      BY <1>0, <3>2 DEF Kinds
    <3>4. f \in Under(t, e.name[1])
      BY <2>1, <2>2 DEF Under
    <3>5. \A s : FlatDir(s) => \A q \in s : q.name = Plain(q.name[1])
      BY FlatLevel DEF DirLevel
    <3>6. FlatDir(Under(d, e.name[1])) /\ FlatDir(Under(t, e.name[1]))
      BY TreeUnder
    <3>7. k.name = f.name
      BY <3>1, <3>4, <3>5, <3>6
    <3> QED
      BY <2>2, <3>1, <3>2, <3>3, <3>7, ContentsAre
  <2> HIDE DEF o
  <2> QED
    BY <1>0, <1>1, <2>3, <2>4, OriginSub DEF o
<1> QED
  BY <1>2, <1>3, ContentsAre

LEMMA TreeTaken ==
  ASSUME NEW b, NEW h, NEW r, TreeDir(b), TreeDir(h), TreeDir(r), OneSided(b, h, r)
  PROVE  MergeTrees(b, h, r).entries = Taken(b, h, r)
<1>1. Level(Flat, b, h, r, TreeChildren(b, h, r), TreeSlots(b, h, r))
      /\ MergeTrees(b, h, r) = MergeLevel(TreeSlots(b, h, r))
  BY MarksTellApart, TreeIsLevel
<1> QED
  BY <1>1, LevelTaken DEF Outcome

LEMMA TreeUnique ==
  ASSUME NEW b, NEW h, NEW r, TreeDir(b), TreeDir(h), TreeDir(r)
  PROVE  /\ Unique(MergeTrees(b, h, r).entries)
         /\ \A e \in MergeTrees(b, h, r).entries : Unique(e.sub)
<1>1. Setting
  BY MarksTellApart
<1>2. Level(Flat, b, h, r, TreeChildren(b, h, r), TreeSlots(b, h, r))
      /\ MergeTrees(b, h, r) = MergeLevel(TreeSlots(b, h, r))
  BY <1>1, TreeIsLevel
<1> QED
  BY <1>1, <1>2, LevelUnique, MergedKinds

(* The conflict flag of a tree says that a name in it carries a mark.       *)
LEMMA TreeConflict ==
  ASSUME NEW b, NEW h, NEW r, TreeDir(b), TreeDir(h), TreeDir(r)
  PROVE  MergeTrees(b, h, r).conflict
           <=> \/ \E e \in MergeTrees(b, h, r).entries : e.name[2] # 0
               \/ \E e \in MergeTrees(b, h, r).entries : \E f \in e.sub : f.name[2] # 0
<1> DEFINE of == TreeSlots(b, h, r)
           c == TreeChildren(b, h, r)
           m == MergeTrees(b, h, r)
<1>0. Setting
  BY MarksTellApart
<1>1. Level(Flat, b, h, r, c, of) /\ m = MergeLevel(of)
  BY <1>0, TreeIsLevel
<1>2. \A n \in NamesIn(b, h, r) :
        c[n].conflict <=> \E f \in c[n].entries : f.name[2] # 0
  BY <1>0, TreeIsLevel DEF FlatPromise
<1> HIDE DEF of, c, m
<1>3. m.conflict <=> \/ \E e \in m.entries : e.name[2] # 0
                     \/ \E n \in NamesIn(b, h, r) : c[n].conflict
  BY <1>0, <1>1, LevelConflict
<1>4. \A n \in NamesIn(b, h, r) : Subs(of[n].entries) = c[n].entries
  BY <1>1, LevelName, YieldSubs
<1>5. /\ \A e \in m.entries : \E n \in NamesIn(b, h, r) : e \in of[n].entries
      /\ \A n \in NamesIn(b, h, r) : of[n].entries \subseteq m.entries
  BY <1>1, LevelEntry
<1>6. (\E n \in NamesIn(b, h, r) : c[n].conflict)
        <=> \E e \in m.entries : \E f \in e.sub : f.name[2] # 0
  <2>1. ASSUME NEW n \in NamesIn(b, h, r), c[n].conflict
        PROVE  \E e \in m.entries : \E f \in e.sub : f.name[2] # 0
    <3>1. PICK f \in Subs(of[n].entries) : f.name[2] # 0
      BY <1>2, <1>4, <2>1
    <3>2. PICK e \in of[n].entries : f \in e.sub
      BY DEF Subs
    <3> QED
      BY <1>5, <3>1, <3>2
  <2>2. ASSUME NEW e \in m.entries, NEW f \in e.sub, f.name[2] # 0
        PROVE  \E n \in NamesIn(b, h, r) : c[n].conflict
    <3>1. PICK n \in NamesIn(b, h, r) : e \in of[n].entries
      BY <1>5
    <3>2. f \in Subs(of[n].entries)
      BY <2>2, <3>1 DEF Subs
    <3> QED
      BY <1>2, <1>4, <2>2, <3>2
  <2> QED
    BY <2>1, <2>2
<1> QED
  BY <1>3, <1>6 DEF m

(* The kept flag of a tree says that a deleted path is still there.         *)
LEMMA TreeKept ==
  ASSUME NEW b, NEW h, NEW r, TreeDir(b), TreeDir(h), TreeDir(r), NEW m,
         m = MergeTrees(b, h, r)
  PROVE  m.kept
           <=> \/ \E x : Named(b, x) /\ Named(m.entries, x) /\ Named(h, x) # Named(r, x)
               \/ \E x, y : /\ Named(Under(b, x), y) /\ Named(Under(m.entries, x), y)
                           /\ Named(Under(h, x), y) # Named(Under(r, x), y)
<1> DEFINE of == TreeSlots(b, h, r)
           c == TreeChildren(b, h, r)
           K(x, y) == /\ Named(Under(b, x), y) /\ Named(Under(m.entries, x), y)
                      /\ Named(Under(h, x), y) # Named(Under(r, x), y)
<1>0. Setting
  BY MarksTellApart
<1>1. Level(Flat, b, h, r, c, of) /\ m = MergeLevel(of)
  BY <1>0, TreeIsLevel
<1>2. m.kept <=> \/ \E x : Named(b, x) /\ Named(m.entries, x) /\ Named(h, x) # Named(r, x)
                 \/ \E n \in NamesIn(b, h, r) : c[n].kept
  <2> HIDE DEF of, c
  <2> QED
    BY <1>1, LevelKept
<1>3. ASSUME NEW x, Plain(x) \in NamesIn(b, h, r)
      PROVE  c[Plain(x)].kept <=> \E y : K(x, y)
  <2> DEFINE f == MergeFlat(Under(b, x), Under(h, x), Under(r, x))
  <2>1. c[Plain(x)] = f
    <3>1. /\ Under(b, x) = Children(Slot(b, Plain(x))) /\ Under(h, x) = Children(Slot(h, Plain(x)))
          /\ Under(r, x) = Children(Slot(r, Plain(x)))
      BY TreeUnder
    <3> QED
      BY <1>3, <3>1 DEF TreeChildren
  <2>2. Under(m.entries, x) = f.entries /\ FlatPromise(Under(b, x), Under(h, x), Under(r, x), f)
    BY <1>0, MergedUnder
  <2> HIDE DEF c, f
  <2>3. f.kept <=> \E y : /\ Named(Under(b, x), y) /\ Named(f.entries, y)
                          /\ Named(Under(h, x), y) # Named(Under(r, x), y)
    BY <2>2 DEF FlatPromise
  <2> QED
    BY <2>1, <2>2, <2>3
<1>4. \A n \in NamesIn(b, h, r) : \E x : n = Plain(x)
  BY <1>1, LevelName DEF OneName
<1>5. ASSUME NEW x, NEW y, K(x, y)
      PROVE  Plain(x) \in NamesIn(b, h, r)
  <2>1. PICK f \in Under(b, x) : TRUE
    BY <1>5 DEF Named
  <2>2. PICK e \in b : e.name[1] = x
    BY <2>1 DEF Under
  <2>3. e.name = Plain(x)
    BY <2>2, TreeKinds
  <2> QED
    BY <2>3 DEF NamesIn
<1>6. (\E n \in NamesIn(b, h, r) : c[n].kept) <=> \E x, y : K(x, y)
  <2> HIDE DEF c, K
  <2> QED
    BY <1>3, <1>4, <1>5
<1> QED
  BY <1>2, <1>6

-----------------------------------------------------------------------------
(* The merge's specification *)

(* The merged tree and the flags are what merge_trees made of the three.    *)
MergeInv ==
  /\ base \in Trees /\ head \in Trees /\ remote \in Trees
  /\ Done => LET m == MergeTrees(base, head, remote) IN
               merged = m.entries /\ conflict = m.conflict /\ keptDeleted = m.kept

(* The merge reads three trees and writes neither of them: MergeInv holds   *)
(* in every reachable state (merge_branch).                                 *)
THEOREM MergeInvariant == Spec => []MergeInv
<1>1. Init => MergeInv
  BY DEF Init, MergeInv, Done
<1>2. MergeInv /\ [Next]_vars => MergeInv'
  BY DEF MergeInv, Done, Next, MergeBranch, vars
<1> QED
  BY <1>1, <1>2, PTL DEF Spec

LEMMA ThreeTrees ==
  ASSUME MergeInv
  PROVE  TreeDir(base) /\ TreeDir(head) /\ TreeDir(remote)
BY TreeShape DEF MergeInv

(* merge_trees loses no file that a side added or changed since the base:   *)
(* head's files keep their paths, remote's are there under the path they    *)
(* started from, and no two entries of a directory share a name.            *)
THEOREM LosesNothing == Spec => []MergeLosesNothing
<1>1. MergeInv => MergeLosesNothing
  <2> SUFFICES ASSUME MergeInv, Done
               PROVE  MergeLosesNothing
    BY DEF MergeLosesNothing, NoWorkLost, UniqueNames
  <2>1. TreeDir(base) /\ TreeDir(head) /\ TreeDir(remote)
    BY ThreeTrees
  <2>2. merged = MergeTrees(base, head, remote).entries
    BY DEF MergeInv
  <2>3. Contents(head) \ Contents(base) \subseteq Contents(merged)
    BY <2>1, <2>2, HeadKept
  <2>4. ASSUME NEW c \in Contents(remote) \ Contents(base)
        PROVE  <<Origin(c[1]), c[2]>> \in Origins(merged)
    <3> DEFINE o == <<Origin(c[1]), c[2]>>
    <3>1. o \in Origins(remote) /\ o \notin Origins(base)
      BY <2>1, <2>4, PlainPaths
    <3> HIDE DEF o
    <3>2. o \in Origins(merged)
      BY <2>1, <2>2, <3>1, ThreeWay DEF Three
    <3> QED
      BY <3>2 DEF o
  <2>5. Unique(merged) /\ \A e \in merged : Unique(e.sub)
    BY <2>1, <2>2, TreeUnique
  <2> QED
    BY <2>3, <2>4, <2>5 DEF MergeLosesNothing, NoWorkLost, UniqueNames, Unique
<1> QED
  BY <1>1, MergeInvariant, PTL

(* merge_trees brings back no file that a side deleted and the other left   *)
(* alone, and takes the tree of the one side that changed.                  *)
THEOREM RevivesNothing == Spec => []MergeRevivesNothing
<1>1. MergeInv => MergeRevivesNothing
  <2> SUFFICES ASSUME MergeInv, Done
               PROVE  MergeRevivesNothing
    BY DEF MergeRevivesNothing, NothingRevived, OneSidedIsTaken
  <2>1. TreeDir(base) /\ TreeDir(head) /\ TreeDir(remote)
    BY ThreeTrees
  <2>2. merged = MergeTrees(base, head, remote).entries
    BY DEF MergeInv
  <2>3. ASSUME NEW o \in Origins(merged)
        PROVE  \/ o \in Origins(head) \cap Origins(remote)
               \/ o \in (Origins(head) \cup Origins(remote)) \ Origins(base)
    BY <2>1, <2>2, <2>3, ThreeWay DEF Three
  <2>4. /\ head = base => merged = remote
        /\ remote = base \/ head = remote => merged = head
    BY <2>1, <2>2, TreeTaken DEF OneSided, Taken
  <2> QED
    BY <2>3, <2>4 DEF MergeRevivesNothing, NothingRevived, OneSidedIsTaken
<1> QED
  BY <1>1, MergeInvariant, PTL

(* The files of the merged tree are the same whichever side is head: who    *)
(* uploads last decides which file keeps its name, not which file is kept.  *)
THEOREM Commutes == Spec => []MergeCommutes
<1>1. MergeInv => MergeCommutes
  <2> SUFFICES ASSUME MergeInv, Done
               PROVE  Origins(MergeTrees(base, remote, head).entries) = Origins(merged)
    BY DEF MergeCommutes, SidesCommute
  <2>1. TreeDir(base) /\ TreeDir(head) /\ TreeDir(remote)
    BY ThreeTrees
  <2>2. merged = MergeTrees(base, head, remote).entries
    BY DEF MergeInv
  <2>3. \A o : o \in Origins(MergeTrees(base, remote, head).entries) <=> o \in Origins(merged)
    BY <2>1, <2>2, ThreeWay DEF Three
  <2> QED
    BY <2>3
<1> QED
  BY <1>1, MergeInvariant, PTL

(* The paths of a tree, without the marks. *)
PathsOf(d) ==
  {<<e.name[1]>> : e \in d} \cup UNION {{<<e.name[1], f.name[1]>> : f \in e.sub} : e \in d}

LEMMA PathsAre ==
  ASSUME NEW d, NEW p
  PROVE  p \in PathsOf(d) <=> \/ \E x : p = <<x>> /\ Named(d, x)
                             \/ \E x, y : p = <<x, y>> /\ Named(Under(d, x), y)
<1>1. (\E x, y : p = <<x, y>> /\ Named(Under(d, x), y))
        <=> \E e \in d : \E f \in e.sub : p = <<e.name[1], f.name[1]>>
  BY DEF Named, Under
<1>2. (\E x : p = <<x>> /\ Named(d, x)) <=> \E e \in d : p = <<e.name[1]>>
  BY DEF Named
<1> QED
  BY <1>1, <1>2 DEF PathsOf

(* What a path of one or of two names says. *)
LEMMA PathNamed ==
  ASSUME NEW d, NEW x
  PROVE  /\ <<x>> \in PathsOf(d) <=> Named(d, x)
         /\ \A y : <<x, y>> \in PathsOf(d) <=> Named(Under(d, x), y)
<1>1. \A a, y : <<x>> # <<a, y>> /\ <<a, y>> # <<x>>
  OBVIOUS
<1>2. \A a : <<x>> = <<a>> => x = a
  OBVIOUS
<1>3. \A y, a, k : <<x, y>> = <<a, k>> => x = a /\ y = k
  OBVIOUS
<1>4. <<x>> \in PathsOf(d) <=> Named(d, x)
  <2> DEFINE p == <<x>>
  <2>1. p \in PathsOf(d) <=> \/ \E a : p = <<a>> /\ Named(d, a)
                            \/ \E a, k : p = <<a, k>> /\ Named(Under(d, a), k)
    BY PathsAre, Zenon
  <2> QED
    BY <1>1, <1>2, <2>1
<1>5. ASSUME NEW y
      PROVE  <<x, y>> \in PathsOf(d) <=> Named(Under(d, x), y)
  <2> DEFINE p == <<x, y>>
  <2>1. p \in PathsOf(d) <=> \/ \E a : p = <<a>> /\ Named(d, a)
                            \/ \E a, k : p = <<a, k>> /\ Named(Under(d, a), k)
    BY PathsAre, Zenon
  <2>2. \A a : p # <<a>>
    OBVIOUS
  <2> QED
    BY <1>3, <2>1, <2>2
<1> QED
  BY <1>4, <1>5

(* The merge commit speaks of a conflict exactly when an entry was renamed, *)
(* and of a kept deletion exactly when a path that one side deleted is      *)
(* there (MergeOutcome).                                                    *)
THEOREM FlagsAreHonest == Spec => []MergeFlagsHonest
<1>1. MergeInv => MergeFlagsHonest
  <2> DEFINE Marked(d) == {e \in d : e.name[2] # 0}
             Back(p) == (p \in PathsOf(head)) # (p \in PathsOf(remote))
  <2> SUFFICES ASSUME MergeInv, Done
               PROVE  /\ conflict <=> \/ Marked(merged) # {}
                                      \/ \E e \in merged : Marked(e.sub) # {}
                      /\ keptDeleted <=> \E p \in PathsOf(base) \cap PathsOf(merged) : Back(p)
    BY DEF MergeFlagsHonest, FlagsHonest, PathsOf
  <2>1. TreeDir(base) /\ TreeDir(head) /\ TreeDir(remote)
    BY ThreeTrees
  <2> DEFINE m == MergeTrees(base, head, remote)
             Root(x) == /\ Named(base, x) /\ Named(merged, x)
                        /\ Named(head, x) # Named(remote, x)
             Lower(x, y) == /\ Named(Under(base, x), y) /\ Named(Under(merged, x), y)
                            /\ Named(Under(head, x), y) # Named(Under(remote, x), y)
  <2>2. merged = m.entries /\ conflict = m.conflict /\ keptDeleted = m.kept
    BY DEF MergeInv
  <2>3. conflict <=> \/ Marked(merged) # {}
                     \/ \E e \in merged : Marked(e.sub) # {}
    BY <2>1, <2>2, TreeConflict
  <2>4. keptDeleted <=> (\E x : Root(x)) \/ (\E x, y : Lower(x, y))
    BY <2>1, <2>2, TreeKept
  <2>5. ASSUME NEW x
        PROVE  Root(x) <=> <<x>> \in PathsOf(base) \cap PathsOf(merged) /\ Back(<<x>>)
    <3>1. \A d \in {base, head, remote, merged} : <<x>> \in PathsOf(d) <=> Named(d, x)
      BY PathNamed
    <3> QED
      BY <3>1 DEF Named
  <2>6. ASSUME NEW x, NEW y
        PROVE  Lower(x, y) <=> /\ <<x, y>> \in PathsOf(base) \cap PathsOf(merged)
                               /\ Back(<<x, y>>)
    <3>1. \A d \in {base, head, remote, merged} :
            <<x, y>> \in PathsOf(d) <=> Named(Under(d, x), y)
      BY PathNamed
    <3> QED
      BY <3>1 DEF Named
  <2>7. \A p \in PathsOf(base) : (\E x : p = <<x>>) \/ (\E x, y : p = <<x, y>>)
    BY PathsAre
  <2> HIDE DEF Marked, Back, Root, Lower, m
  <2>8. keptDeleted <=> \E p \in PathsOf(base) \cap PathsOf(merged) : Back(p)
    BY <2>4, <2>5, <2>6, <2>7
  <2> QED
    BY <2>3, <2>8
<1> QED
  BY <1>1, MergeInvariant, PTL

-----------------------------------------------------------------------------
(* The outbox *)

USE DEF senders, mailVars

Rows == [status : {"none", "pending", "sent", "failed", "deleted"}, attempts : Nat,
         due : BOOLEAN, lease : {"none", "live", "expired"}]

MailTypeInv ==
  /\ row \in [Messages -> Rows]
  /\ pc \in [Senders -> {"idle", "reread", "drain", "send", "record"}]
  /\ msg \in [Senders -> Messages \cup {NoMessage}]
  /\ tries \in [Senders -> Nat]
  /\ batch \in [Senders -> SUBSET (Messages \X Nat)]
  /\ answer \in [Senders -> {"none", "accepted", "refused", "unreadable"}]
  /\ delivered \in [Messages -> Nat]
  /\ excused \in [Messages -> Nat]
  /\ \A s \in Senders : pc[s] \in {"reread", "send", "record"} => msg[s] \in Messages

(* Only a row that waits is claimed.  Whoever has a message in flight holds *)
(* the lease of its row, unless the row was deleted, and is the only one.   *)
FlightInv ==
  \A m \in Messages :
    /\ row[m].lease = "live" => row[m].status = "pending"
    /\ \A s \in Senders : InFlight(s, m) =>
         \/ row[m].status = "deleted"
         \/ row[m].status = "pending" /\ row[m].lease = "live"
    /\ \A s, t \in Senders : InFlight(s, m) /\ InFlight(t, m) => s = t

(* An answer is kept until it is noted down. *)
AnswerInv ==
  \A s \in Senders :
    answer[s] = "accepted" => pc[s] = "record" /\ delivered[msg[s]] > 0

(* A delivery that is neither excused nor in the table is known to the      *)
(* sender that has the message in flight.                                   *)
Heard(m) == \E s \in Senders : InFlight(s, m) /\ answer[s] = "accepted"
Unheard(m) == \E s \in Senders : InFlight(s, m) /\ answer[s] # "accepted"
CountInv ==
  \A m \in Messages :
    /\ delivered[m] <= 1 + excused[m]
    /\ Unheard(m) => delivered[m] <= excused[m]
    /\ row[m].status \in {"none", "pending", "failed"} /\ ~Heard(m)
         => delivered[m] <= excused[m]

SentInv == \A m \in Messages : row[m].status = "sent" => delivered[m] > 0

MailInv == MailTypeInv /\ FlightInv /\ AnswerInv /\ CountInv /\ SentInv

-----------------------------------------------------------------------------
LEMMA MailInitInv ==
  ASSUME MailInit
  PROVE  MailInv
<1>1. \A m \in Messages : row[m] = NoRow /\ delivered[m] = 0 /\ excused[m] = 0
  BY DEF MailInit
<1>2. \A s \in Senders : pc[s] = "idle" /\ answer[s] = "none"
  BY DEF MailInit
<1>3. NoRow \in Rows
  BY DEF NoRow, Rows
<1>4. MailTypeInv
  BY <1>1, <1>2, <1>3 DEF MailInit, MailTypeInv
<1>5. FlightInv /\ AnswerInv /\ SentInv
  BY <1>1, <1>2 DEF FlightInv, AnswerInv, SentInv, InFlight, NoRow
<1>6. CountInv
  BY <1>1, <1>2 DEF CountInv, Unheard, InFlight
<1> QED
  BY <1>4, <1>5, <1>6 DEF MailInv

(* A step of the table alone: a row keeps its status and its lease, or is   *)
(* new, or goes, or is queued, or loses a lease that nobody needs.          *)
RowStep(m) ==
  \/ row'[m].status = row[m].status /\ row'[m].lease = row[m].lease
  \/ row[m].status \in {"none", "failed"} /\ row'[m].status = "pending" /\ row'[m].lease # "live"
  \/ row'[m].status = "deleted" /\ row'[m].lease = "none"
  \/ /\ row'[m].status = row[m].status /\ row'[m].lease # "live"
     /\ \A s \in Senders : ~InFlight(s, m)

(* ... and the senders, if they move, begin or end a drain. *)
Apart ==
  /\ UNCHANGED <<answer, delivered, excused>>
  /\ \A s \in Senders : \/ UNCHANGED <<pc[s], msg[s]>>
                        \/ /\ pc[s] \notin {"send", "record"}
                           /\ pc'[s] \notin {"send", "record"}

LEMMA TableStep ==
  ASSUME MailInv, MailTypeInv', Apart, \A m \in Messages : RowStep(m)
  PROVE  MailInv'
<1> USE DEF MailInv
<1>1. \A s \in Senders, m \in Messages : InFlight(s, m)' <=> InFlight(s, m)
  BY DEF Apart, InFlight
<1>2. \A m \in Messages : (Heard(m)' <=> Heard(m)) /\ (Unheard(m)' <=> Unheard(m))
  BY <1>1 DEF Heard, Unheard, Apart
<1>3. FlightInv'
  BY <1>1 DEF FlightInv, RowStep
<1>4. AnswerInv'
  BY DEF AnswerInv, Apart
<1>5. CountInv'
  <2> SUFFICES ASSUME NEW m \in Messages
               PROVE  /\ delivered'[m] <= 1 + excused'[m]
                      /\ Unheard(m)' => delivered'[m] <= excused'[m]
                      /\ row'[m].status \in {"none", "pending", "failed"} /\ ~Heard(m)'
                           => delivered'[m] <= excused'[m]
    BY DEF CountInv
  <2>1. row'[m].status \in {"none", "pending", "failed"}
          => row[m].status \in {"none", "pending", "failed"}
    BY DEF RowStep
  <2>2. delivered' = delivered /\ excused' = excused
    BY DEF Apart
  <2> QED
    BY <1>2, <2>1, <2>2 DEF CountInv
<1>6. SentInv'
  BY DEF SentInv, RowStep, Apart
<1> QED
  BY <1>3, <1>4, <1>5, <1>6

-----------------------------------------------------------------------------
(* What makes and removes rows, and what time does to them *)

LEMMA StepEnqueue ==
  ASSUME MailInv, NEW m \in Messages, Enqueue(m)
  PROVE  MailInv'
<1>1. NewRow \in Rows /\ NewRow.status = "pending" /\ NewRow.lease = "none" /\ NoRow.status = "none"
  BY DEF NewRow, NoRow, Rows
<1>2. row \in [Messages -> Rows] /\ row[m].status = "none" /\ row' = [row EXCEPT ![m] = NewRow]
  BY <1>1 DEF MailInv, MailTypeInv, Enqueue
<1>3. MailTypeInv'
  BY <1>1, <1>2 DEF MailInv, MailTypeInv, Enqueue
<1>4. \A n \in Messages : RowStep(n)
  BY <1>1, <1>2 DEF RowStep
<1>5. Apart
  BY DEF Apart, Enqueue
<1> QED
  BY <1>3, <1>4, <1>5, TableStep

LEMMA DeletedRow ==
  /\ [NoRow EXCEPT !.status = "deleted"] \in Rows
  /\ [NoRow EXCEPT !.status = "deleted"].status = "deleted"
  /\ [NoRow EXCEPT !.status = "deleted"].lease = "none"
BY DEF NoRow, Rows

LEMMA StepDelete ==
  ASSUME MailInv, NEW m \in Messages, Delete(m)
  PROVE  MailInv'
<1>1. PICK r : r = [NoRow EXCEPT !.status = "deleted"]
  OBVIOUS
<1>2. r \in Rows /\ r.status = "deleted" /\ r.lease = "none"
  BY <1>1, DeletedRow
<1>3. row \in [Messages -> Rows] /\ row' = [row EXCEPT ![m] = r]
  BY <1>1 DEF MailInv, MailTypeInv, Delete
<1>4. MailTypeInv'
  BY <1>2, <1>3 DEF MailInv, MailTypeInv, Delete
<1>5. \A n \in Messages : RowStep(n)
  BY <1>2, <1>3 DEF RowStep
<1>6. Apart
  BY DEF Apart, Delete
<1> QED
  BY <1>4, <1>5, <1>6, TableStep

LEMMA StepSendTest ==
  ASSUME MailInv, NEW s \in Requests, NEW m \in Messages, SendTest(s, m)
  PROVE  MailInv'
<1>1. NewRow \in Rows /\ NewRow.status = "pending" /\ NewRow.lease = "none" /\ NoRow.status = "none"
  BY DEF NewRow, NoRow, Rows
<1>2. row \in [Messages -> Rows] /\ row[m].status = "none" /\ row' = [row EXCEPT ![m] = NewRow]
  BY <1>1 DEF MailInv, MailTypeInv, SendTest
<1>3. s \in Senders
  BY DEF Senders
<1>4. MailTypeInv'
  <2>1. <<m, 0>> \in Messages \X Nat
    OBVIOUS
  <2>2. batch' \in [Senders -> SUBSET (Messages \X Nat)]
    BY <1>3, <2>1 DEF MailInv, MailTypeInv, SendTest
  <2>3. row' \in [Messages -> Rows]
    BY <1>1, <1>2
  <2>4. /\ pc' = [pc EXCEPT ![s] = "drain"]
        /\ UNCHANGED <<tries, msg, answer, worker, faults, delivered, excused>>
    BY DEF SendTest, Goto
  <2> QED
    BY <1>3, <2>2, <2>3, <2>4 DEF MailInv, MailTypeInv
<1>5. \A n \in Messages : RowStep(n)
  BY <1>1, <1>2 DEF RowStep
<1>6. Apart
  BY <1>3 DEF Apart, SendTest, Goto, MailInv, MailTypeInv
<1> QED
  BY <1>4, <1>5, <1>6, TableStep

LEMMA StepRequeue ==
  ASSUME MailInv, NEW s \in Requests, NEW m \in Messages, Requeue(s, m)
  PROVE  MailInv'
<1>1. PICK r : r = [row[m] EXCEPT !.status = "pending", !.due = TRUE]
  OBVIOUS
<1>2. row \in [Messages -> Rows] /\ row[m].status = "failed" /\ row[m].lease # "live"
  BY DEF MailInv, MailTypeInv, FlightInv, Requeue
<1>3. row' = [row EXCEPT ![m] = r]
  BY <1>1, <1>2 DEF Requeue
<1>4. r \in Rows /\ r.status = "pending" /\ r.lease # "live"
  BY <1>1, <1>2 DEF Rows
<1>5. s \in Senders
  BY DEF Senders
<1>6. MailTypeInv'
  <2>1. row' \in [Messages -> Rows]
    BY <1>2, <1>3, <1>4
  <2>2. /\ pc' = [pc EXCEPT ![s] = "reread"] /\ msg' = [msg EXCEPT ![s] = m]
        /\ UNCHANGED <<tries, batch, answer, delivered, excused>>
    BY DEF Requeue, Goto
  <2> QED
    BY <1>5, <2>1, <2>2 DEF MailInv, MailTypeInv
<1>7. \A n \in Messages : RowStep(n)
  BY <1>2, <1>3, <1>4 DEF RowStep
<1>8. Apart
  BY <1>5 DEF Apart, Requeue, Goto, MailInv, MailTypeInv
<1> QED
  BY <1>6, <1>7, <1>8, TableStep

LEMMA StepReread ==
  ASSUME MailInv, NEW s \in Senders, Reread(s)
  PROVE  MailInv'
<1>1. msg[s] \in Messages /\ row[msg[s]].attempts \in Nat
  BY DEF MailInv, MailTypeInv, Reread, Rows
<1>2. Read(msg[s]) \in SUBSET (Messages \X Nat)
  BY <1>1 DEF Read
<1>3. batch' \in [Senders -> SUBSET (Messages \X Nat)]
  BY <1>2 DEF MailInv, MailTypeInv, Reread
<1>4. MailTypeInv'
  BY <1>3 DEF MailInv, MailTypeInv, Reread, Goto
<1>5. \A n \in Messages : RowStep(n)
  BY DEF RowStep, Reread
<1>6. Apart
  BY DEF Apart, Reread, Goto, MailInv, MailTypeInv
<1> QED
  BY <1>4, <1>5, <1>6, TableStep

LEMMA StepBackoffOver ==
  ASSUME MailInv, NEW m \in Messages, BackoffOver(m)
  PROVE  MailInv'
<1>1. PICK r : r = [row[m] EXCEPT !.due = TRUE]
  OBVIOUS
<1>2. row \in [Messages -> Rows] /\ row' = [row EXCEPT ![m] = r]
  BY <1>1 DEF MailInv, MailTypeInv, BackoffOver
<1>3. r \in Rows /\ r.status = row[m].status /\ r.lease = row[m].lease
  BY <1>1, <1>2 DEF Rows
<1>4. MailTypeInv'
  BY <1>2, <1>3 DEF MailInv, MailTypeInv, BackoffOver
<1>5. \A n \in Messages : RowStep(n)
  BY <1>2, <1>3 DEF RowStep
<1>6. Apart
  BY DEF Apart, BackoffOver
<1> QED
  BY <1>4, <1>5, <1>6, TableStep

LEMMA StepLeaseRunsOut ==
  ASSUME ~SlowSends, MailInv, NEW m \in Messages, LeaseRunsOut(m)
  PROVE  MailInv'
<1>1. PICK r : r = [row[m] EXCEPT !.lease = "expired"]
  OBVIOUS
<1>2. row \in [Messages -> Rows] /\ row' = [row EXCEPT ![m] = r]
  BY <1>1 DEF MailInv, MailTypeInv, LeaseRunsOut
<1>3. r \in Rows /\ r.status = row[m].status /\ r.lease = "expired"
  BY <1>1, <1>2 DEF Rows
<1>4. MailTypeInv'
  BY <1>2, <1>3 DEF MailInv, MailTypeInv, LeaseRunsOut
<1>5. \A n \in Messages : RowStep(n)
  BY <1>2, <1>3 DEF RowStep, LeaseRunsOut
<1>6. Apart
  BY DEF Apart, LeaseRunsOut
<1> QED
  BY <1>4, <1>5, <1>6, TableStep

(* Leases that ran out are nobody's. *)
LEMMA StepStartDrain ==
  ASSUME MailInv, NEW w \in Workers, StartDrain(w)
  PROVE  MailInv'
<1>1. w \in Senders /\ row \in [Messages -> Rows]
  BY DEF Senders, MailInv, MailTypeInv
<1>2. \A n \in Messages : row[n].lease = "expired" =>
        LET r == [row[n] EXCEPT !.lease = "none"]
        IN  r \in Rows /\ r.status = row[n].status /\ r.lease = "none"
  BY <1>1 DEF Rows
<1>3. \A n \in Messages : \A s \in Senders : row[n].lease = "expired" /\ Pending(n) => ~InFlight(s, n)
  BY DEF MailInv, FlightInv, Pending
<1>4. \A n \in Messages : row'[n] \in Rows /\ RowStep(n)
  <2> SUFFICES ASSUME NEW n \in Messages
               PROVE  row'[n] \in Rows /\ RowStep(n)
    OBVIOUS
  <2>1. CASE Pending(n) /\ row[n].lease = "expired"
    <3>1. row'[n] = [row[n] EXCEPT !.lease = "none"]
      BY <2>1 DEF StartDrain
    <3> QED
      BY <2>1, <3>1, <1>2, <1>3 DEF RowStep
  <2>2. CASE ~(Pending(n) /\ row[n].lease = "expired")
    <3>1. row'[n] = row[n]
      BY <2>2 DEF StartDrain
    <3> QED
      BY <3>1, <1>1 DEF RowStep
  <2> QED
    BY <2>1, <2>2
<1>5. row' \in [Messages -> Rows]
  BY <1>4 DEF StartDrain
<1>6. \A n \in Messages : Read(n) \in SUBSET (Messages \X Nat)
  BY <1>1 DEF Read, Rows
<1>7. PICK ready \in SUBSET Messages : batch' = [batch EXCEPT ![w] = UNION {Read(m) : m \in ready}]
  BY DEF StartDrain
<1>8. batch' \in [Senders -> SUBSET (Messages \X Nat)]
  <2>1. UNION {Read(m) : m \in ready} \in SUBSET (Messages \X Nat)
    BY <1>6
  <2> QED
    BY <1>1, <1>7, <2>1 DEF MailInv, MailTypeInv
<1>9. MailTypeInv'
  BY <1>1, <1>5, <1>8 DEF MailInv, MailTypeInv, StartDrain, Goto
<1>10. Apart
  BY <1>1 DEF Apart, StartDrain, Goto, MailInv, MailTypeInv
<1> QED
  BY <1>4, <1>9, <1>10, TableStep

LEMMA StepEndDrain ==
  ASSUME MailInv, NEW s \in Senders, EndDrain(s)
  PROVE  MailInv'
<1>1. PICK r : r = [NoRow EXCEPT !.status = "deleted"]
  OBVIOUS
<1>2. r \in Rows /\ r.status = "deleted" /\ r.lease = "none"
  BY <1>1, DeletedRow
<1>3. PICK old : row' = [m \in Messages |-> IF m \in old THEN r ELSE row[m]]
  BY <1>1 DEF EndDrain
<1>4. MailTypeInv'
  BY <1>2, <1>3 DEF MailInv, MailTypeInv, EndDrain, Goto
<1>5. \A n \in Messages : RowStep(n)
  BY <1>2, <1>3 DEF RowStep
<1>6. Apart
  BY DEF Apart, EndDrain, Goto, MailInv, MailTypeInv
<1> QED
  BY <1>4, <1>5, <1>6, TableStep

LEMMA StepRestart ==
  ASSUME MailInv, Restart
  PROVE  MailInv'
<1>1. MailTypeInv'
  BY DEF MailInv, MailTypeInv, Restart
<1>2. (\A n \in Messages : RowStep(n)) /\ Apart
  BY DEF RowStep, Apart, Restart
<1> QED
  BY <1>1, <1>2, TableStep

LEMMA StepStutter ==
  ASSUME MailInv, UNCHANGED mailVars
  PROVE  MailInv'
<1>1. MailTypeInv'
  BY DEF MailInv, MailTypeInv
<1>2. (\A n \in Messages : RowStep(n)) /\ Apart
  BY DEF RowStep, Apart
<1> QED
  BY <1>1, <1>2, TableStep

-----------------------------------------------------------------------------
(* An attempt *)

(* A claim is of a row whose lease is free: nobody else has its message. *)
LEMMA StepClaim ==
  ASSUME MailInv, NEW s \in Senders, Claim(s)
  PROVE  MailInv'
<1> USE DEF MailInv
<1>1. PICK t \in batch[s] :
        /\ pc[s] = "drain"
        /\ batch' = [batch EXCEPT ![s] = @ \ {t}]
        /\ \/ /\ Claimable(t[1], t[2])
              /\ row' = [row EXCEPT ![t[1]].attempts = @ + 1, ![t[1]].lease = "live"]
              /\ msg' = [msg EXCEPT ![s] = t[1]]
              /\ tries' = [tries EXCEPT ![s] = t[2] + 1]
              /\ Goto(s, "send")
           \/ ~Claimable(t[1], t[2]) /\ UNCHANGED <<row, msg, tries, pc>>
        /\ UNCHANGED <<answer, worker, faults, orders, delivered, excused>>
  BY DEF Claim
<1>2. t[1] \in Messages /\ t[2] \in Nat
  BY DEF MailTypeInv
<1>3. batch' \in [Senders -> SUBSET (Messages \X Nat)]
  BY <1>1 DEF MailTypeInv
<1>4. CASE ~Claimable(t[1], t[2]) /\ UNCHANGED <<row, msg, tries, pc>>
  <2>1. MailTypeInv'
    BY <1>1, <1>3, <1>4 DEF MailTypeInv
  <2>2. (\A n \in Messages : RowStep(n)) /\ Apart
    BY <1>1, <1>4 DEF RowStep, Apart
  <2> QED
    BY <2>1, <2>2, TableStep
<1>5. CASE /\ Claimable(t[1], t[2])
           /\ row' = [row EXCEPT ![t[1]].attempts = @ + 1, ![t[1]].lease = "live"]
           /\ msg' = [msg EXCEPT ![s] = t[1]]
           /\ tries' = [tries EXCEPT ![s] = t[2] + 1]
           /\ Goto(s, "send")
  <2>1. PICK m \in Messages : m = t[1]
    BY <1>2
  <2>2. /\ row[m] \in Rows /\ row[m].status = "pending" /\ row[m].lease # "live"
        /\ row \in [Messages -> Rows]
    BY <1>5, <2>1 DEF Claimable, Pending, MailTypeInv
  <2>3. PICK r : r = [row[m] EXCEPT !.attempts = @ + 1, !.lease = "live"]
    OBVIOUS
  <2>4. r \in Rows /\ r.status = "pending" /\ r.lease = "live"
    <3>1. row[m].attempts + 1 \in Nat
      BY <2>2 DEF Rows
    <3> QED
      BY <2>2, <2>3, <3>1 DEF Rows
  <2>5. row' = [row EXCEPT ![m] = r]
    BY <1>5, <2>1, <2>2, <2>3
  <2>6. /\ pc' = [pc EXCEPT ![s] = "send"] /\ msg' = [msg EXCEPT ![s] = m]
        /\ UNCHANGED <<answer, delivered, excused>> /\ pc[s] = "drain"
    BY <1>1, <1>5, <2>1 DEF Goto
  <2>7. MailTypeInv'
    <3>1. row' \in [Messages -> Rows]
      BY <2>2, <2>4, <2>5
    <3>2. tries' \in [Senders -> Nat]
      BY <1>2, <1>5 DEF MailTypeInv
    <3> QED
      BY <1>3, <2>1, <2>6, <3>1, <3>2 DEF MailTypeInv
  <2>8. \A u \in Senders : ~InFlight(u, m)
    BY <2>2 DEF FlightInv
  <2>9. \A u \in Senders, n \in Messages :
          InFlight(u, n)' <=> InFlight(u, n) \/ (u = s /\ n = m)
    BY <2>6 DEF InFlight, MailTypeInv
  <2>10. FlightInv'
    BY <2>2, <2>4, <2>5, <2>8, <2>9 DEF FlightInv
  <2>11. AnswerInv'
    BY <2>6 DEF AnswerInv, MailTypeInv
  <2>12. SentInv'
    BY <2>2, <2>4, <2>5, <2>6 DEF SentInv
  <2>13. CountInv'
    <3>1. delivered[m] <= excused[m]
      BY <2>2, <2>8 DEF CountInv, Heard
    <3>2. \A n \in Messages : n # m =>
            /\ Heard(n)' <=> Heard(n)
            /\ Unheard(n)' <=> Unheard(n)
            /\ row'[n] = row[n]
      BY <2>2, <2>5, <2>6, <2>9 DEF Heard, Unheard
    <3>3. \A n \in Messages : delivered[n] \in Nat /\ excused[n] \in Nat
      BY DEF MailTypeInv
    <3> QED
      BY <2>6, <3>1, <3>2, <3>3 DEF CountInv
  <2> QED
    BY <2>7, <2>10, <2>11, <2>12, <2>13
<1> QED
  BY <1>1, <1>4, <1>5

(* What the mail server accepts is counted once, and excused if nobody      *)
(* hears of it.                                                             *)
LEMMA StepSend ==
  ASSUME MailInv, NEW s \in Senders, Send(s)
  PROVE  MailInv'
<1> USE DEF MailInv
<1>1. PICK m \in Messages : m = msg[s]
  BY DEF Send, MailTypeInv
<1>2. /\ pc[s] = "send" /\ pc' = [pc EXCEPT ![s] = "record"]
      /\ InFlight(s, m) /\ answer[s] # "accepted"
      /\ UNCHANGED <<tries, row, msg, batch>>
  BY <1>1 DEF Send, Goto, InFlight, AnswerInv
<1>3. PICK a \in {"accepted", "refused", "unreadable"} :
        /\ answer' = [answer EXCEPT ![s] = a]
        /\ \/ /\ a = "accepted"
              /\ delivered' = [delivered EXCEPT ![m] = @ + 1] /\ UNCHANGED excused
           \/ /\ a # "accepted"
              /\ delivered' = [delivered EXCEPT ![m] = @ + 1]
              /\ excused' = [excused EXCEPT ![m] = @ + 1]
           \/ a # "accepted" /\ UNCHANGED <<delivered, excused>>
  BY <1>1 DEF Send
<1>4. /\ delivered' \in [Messages -> Nat] /\ excused' \in [Messages -> Nat]
      /\ \A n \in Messages : n # m => delivered'[n] = delivered[n] /\ excused'[n] = excused[n]
      /\ \A n \in Messages : delivered'[n] >= delivered[n]
  BY <1>3 DEF MailTypeInv
<1>5. delivered[m] <= excused[m] /\ delivered[m] \in Nat /\ excused[m] \in Nat
  BY <1>2 DEF CountInv, Unheard, MailTypeInv
<1>6. /\ a = "accepted" => delivered'[m] <= 1 + excused'[m] /\ delivered'[m] > 0
      /\ a # "accepted" => delivered'[m] <= excused'[m]
  BY <1>3, <1>5 DEF MailTypeInv
<1>7. MailTypeInv'
  BY <1>2, <1>3, <1>4 DEF MailTypeInv
<1>8. \A u \in Senders, n \in Messages : InFlight(u, n)' <=> InFlight(u, n)
  BY <1>2 DEF InFlight, MailTypeInv
<1>9. FlightInv'
  BY <1>2, <1>8 DEF FlightInv
<1>10. \A u \in Senders : u # s => answer'[u] = answer[u] /\ pc'[u] = pc[u]
  BY <1>2, <1>3 DEF MailTypeInv
<1>11. answer'[s] = a /\ pc'[s] = "record"
  BY <1>2, <1>3 DEF MailTypeInv
<1>12. AnswerInv'
  <2>1. \A u \in Senders : answer[u] = "accepted" => msg[u] \in Messages
    BY DEF AnswerInv, MailTypeInv
  <2>2. \A n \in Messages : delivered[n] \in Nat /\ delivered'[n] \in Nat
    BY <1>4 DEF MailTypeInv
  <2>3. ASSUME NEW u \in Senders, u # s, answer'[u] = "accepted"
        PROVE  pc'[u] = "record" /\ delivered'[msg'[u]] > 0
    BY <1>2, <1>4, <1>10, <2>1, <2>2, <2>3 DEF AnswerInv
  <2> QED
    BY <1>1, <1>2, <1>6, <1>11, <2>3 DEF AnswerInv
<1>13. CountInv'
  <2>1. \A n \in Messages : n # m => (Heard(n)' <=> Heard(n)) /\ (Unheard(n)' <=> Unheard(n))
    <3>1. \A n \in Messages : n # m => ~InFlight(s, n)
      BY <1>1 DEF InFlight
    <3> QED
      BY <1>8, <1>10, <3>1 DEF Heard, Unheard
  <2>2. \A u \in Senders : InFlight(u, m)' => u = s
    BY <1>2, <1>8 DEF FlightInv
  <2>3. Unheard(m)' => a # "accepted"
    BY <1>11, <2>2 DEF Unheard
  <2>4. ~Heard(m)' => a # "accepted"
    BY <1>2, <1>8, <1>11 DEF Heard
  <2>5. \A n \in Messages : n # m =>
          /\ delivered'[n] <= 1 + excused'[n]
          /\ Unheard(n)' => delivered'[n] <= excused'[n]
          /\ row'[n].status \in {"none", "pending", "failed"} /\ ~Heard(n)'
               => delivered'[n] <= excused'[n]
    BY <1>2, <1>4, <2>1 DEF CountInv
  <2>6. delivered'[m] <= 1 + excused'[m]
    BY <1>4, <1>6
  <2> QED
    BY <1>6, <2>3, <2>4, <2>5, <2>6 DEF CountInv
<1>14. SentInv'
  <2>1. \A n \in Messages : delivered[n] \in Nat /\ delivered'[n] \in Nat
    BY <1>4 DEF MailTypeInv
  <2> QED
    BY <1>2, <1>4, <2>1 DEF SentInv
<1> QED
  BY <1>7, <1>9, <1>12, <1>13, <1>14

(* The outcome is written whatever the row says; it says that it is leased  *)
(* or that it is gone.                                                      *)
LEMMA StepRecord ==
  ASSUME MailInv, NEW s \in Senders, Record(s)
  PROVE  MailInv'
<1> USE DEF MailInv
<1>1. PICK m \in Messages : m = msg[s]
  BY DEF Record, MailTypeInv
<1>2. /\ pc[s] = "record" /\ pc' = [pc EXCEPT ![s] = "drain"]
      /\ msg' = [msg EXCEPT ![s] = NoMessage] /\ answer' = [answer EXCEPT ![s] = "none"]
      /\ tries' = [tries EXCEPT ![s] = 0]
      /\ UNCHANGED <<batch, delivered, excused>>
  BY DEF Record, Goto
<1>3. InFlight(s, m) /\ \A u \in Senders : u # s => ~InFlight(u, m)
  BY <1>1, <1>2 DEF InFlight, FlightInv
<1>4. row[m].status \in {"deleted", "pending"} /\ row \in [Messages -> Rows] /\ row[m] \in Rows
  BY <1>3 DEF FlightInv, MailTypeInv
<1>5. PICK r : r = IF row[m].status = "deleted" THEN row[m] ELSE After(s)
  OBVIOUS
<1>6. row' = [row EXCEPT ![m] = r]
  BY <1>1, <1>5 DEF Record
<1>7. /\ r \in Rows /\ r.lease # "live" /\ r.status \in {"deleted", "sent", "pending", "failed"}
      /\ r.status = "sent" => answer[s] = "accepted"
      /\ r.status \in {"pending", "failed"} => answer[s] # "accepted"
  <2>1. CASE row[m].status = "deleted"
    BY <1>4, <1>5, <2>1 DEF FlightInv
  <2>2. CASE row[m].status # "deleted"
    <3>1. PICK st \in {"sent", "pending", "failed"} :
            /\ r = [row[m] EXCEPT !.status = st, !.due = FALSE, !.lease = "none"]
            /\ st = "sent" <=> answer[s] = "accepted"
      BY <1>1, <1>5, <2>2 DEF After
    <3> QED
      BY <1>4, <3>1 DEF Rows
  <2> QED
    BY <2>1, <2>2
<1>8. MailTypeInv'
  <2>1. row' \in [Messages -> Rows]
    BY <1>4, <1>6, <1>7
  <2> QED
    BY <1>2, <2>1 DEF MailTypeInv
<1>9. \A u \in Senders, n \in Messages : InFlight(u, n)' <=> u # s /\ InFlight(u, n)
  BY <1>2 DEF InFlight, MailTypeInv
<1>10. /\ \A u \in Senders : u # s => answer'[u] = answer[u] /\ pc'[u] = pc[u] /\ msg'[u] = msg[u]
       /\ answer'[s] = "none"
       /\ row'[m] = r /\ \A n \in Messages : n # m => row'[n] = row[n]
  BY <1>2, <1>4, <1>6 DEF MailTypeInv
<1>11. FlightInv'
  BY <1>3, <1>7, <1>9, <1>10 DEF FlightInv
<1>12. AnswerInv'
  BY <1>2, <1>10 DEF AnswerInv
<1>13. SentInv'
  BY <1>1, <1>2, <1>7, <1>10 DEF SentInv, AnswerInv
<1>14. CountInv'
  <2>1. \A n \in Messages : n # m => (Heard(n)' <=> Heard(n)) /\ (Unheard(n)' <=> Unheard(n))
    <3>1. \A n \in Messages : n # m => ~InFlight(s, n)
      BY <1>1 DEF InFlight
    <3> QED
      BY <1>9, <1>10, <3>1 DEF Heard, Unheard
  <2>2. ~Unheard(m)'
    BY <1>3, <1>9 DEF Unheard
  <2>3. answer[s] # "accepted" => delivered[m] <= excused[m]
    BY <1>3 DEF CountInv, Unheard
  <2>4. row'[m].status \in {"none", "pending", "failed"} => delivered[m] <= excused[m]
    BY <1>7, <1>10, <2>3
  <2> QED
    BY <1>2, <1>10, <2>1, <2>2, <2>4 DEF CountInv
<1> QED
  BY <1>8, <1>11, <1>12, <1>13, <1>14

-----------------------------------------------------------------------------
(* Faults *)

(* Of the senders that stop, one at most knows of an acceptance of m. *)
LEMMA LostNotes ==
  ASSUME MailInv, NEW S \in SUBSET Senders, NEW m \in Messages
  PROVE  LET lost == {s \in S : msg[s] = m /\ answer[s] = "accepted"}
         IN  /\ Cardinality(lost) \in Nat
             /\ (\E s \in S : InFlight(s, m) /\ answer[s] = "accepted") => Cardinality(lost) = 1
<1> DEFINE lost == {s \in S : msg[s] = m /\ answer[s] = "accepted"}
<1>1. \A s \in lost : InFlight(s, m)
  BY DEF MailInv, AnswerInv, InFlight
<1>2. \A s, t \in lost : s = t
  BY <1>1 DEF MailInv, FlightInv
<1>3. lost = {} \/ \E s \in lost : lost = {s}
  BY <1>2
<1>4. Cardinality({}) = 0
  BY FS_EmptySet
<1>5. \A s \in Senders : Cardinality({s}) = 1
  BY FS_Singleton
<1>6. (\E s \in S : InFlight(s, m) /\ answer[s] = "accepted") => lost # {}
  BY DEF InFlight
<1>7. lost # {} => Cardinality(lost) = 1
  <2>1. lost # {} => \E s \in Senders : lost = {s}
    BY <1>3
  <2> QED
    BY <1>5, <2>1
<1>8. lost = {} => Cardinality(lost) = 0
  BY <1>4
<1> HIDE DEF lost
<1>9. Cardinality(lost) \in Nat /\ (lost # {} => Cardinality(lost) = 1)
  BY <1>7, <1>8
<1> QED
  BY <1>6, <1>9 DEF lost

LEMMA StepStop ==
  ASSUME MailInv, NEW S \in SUBSET Senders, Stop(S), UNCHANGED <<row, delivered>>
  PROVE  MailInv'
<1> USE DEF MailInv
<1>1. \A s \in Senders :
        /\ s \in S => pc'[s] = "idle" /\ answer'[s] = "none"
        /\ s \notin S => pc'[s] = pc[s] /\ answer'[s] = answer[s] /\ msg'[s] = msg[s]
  BY DEF Stop
<1>2. \A m \in Messages :
        /\ excused'[m] \in Nat /\ excused'[m] >= excused[m]
        /\ (\E s \in S : InFlight(s, m) /\ answer[s] = "accepted") => excused'[m] = excused[m] + 1
  <2> SUFFICES ASSUME NEW m \in Messages
               PROVE  /\ excused'[m] \in Nat /\ excused'[m] >= excused[m]
                      /\ (\E s \in S : InFlight(s, m) /\ answer[s] = "accepted")
                           => excused'[m] = excused[m] + 1
    OBVIOUS
  <2>1. PICK n : n = Cardinality({s \in S : msg[s] = m /\ answer[s] = "accepted"})
    OBVIOUS
  <2>2. n \in Nat /\ ((\E s \in S : InFlight(s, m) /\ answer[s] = "accepted") => n = 1)
    BY <2>1, LostNotes
  <2>3. excused'[m] = excused[m] + n /\ excused[m] \in Nat
    BY <2>1 DEF Stop, MailTypeInv
  <2> QED
    BY <2>2, <2>3
<1>3. MailTypeInv'
  <2>1. /\ pc' \in [Senders -> {"idle", "reread", "drain", "send", "record"}]
        /\ msg' \in [Senders -> Messages \cup {NoMessage}]
        /\ tries' \in [Senders -> Nat]
    BY DEF Stop, MailTypeInv
  <2>2. /\ batch' \in [Senders -> SUBSET (Messages \X Nat)]
        /\ answer' \in [Senders -> {"none", "accepted", "refused", "unreadable"}]
    BY DEF Stop, MailTypeInv
  <2>3. excused' \in [Messages -> Nat]
    BY <1>2 DEF Stop
  <2> QED
    BY <1>1, <2>1, <2>2, <2>3 DEF MailTypeInv
<1>4. \A s \in Senders, m \in Messages : InFlight(s, m)' <=> s \notin S /\ InFlight(s, m)
  BY <1>1 DEF InFlight
<1>5. FlightInv'
  BY <1>4 DEF FlightInv
<1>6. AnswerInv'
  BY <1>1 DEF AnswerInv
<1>7. SentInv'
  BY DEF SentInv
<1>8. CountInv'
  <2> SUFFICES ASSUME NEW m \in Messages
               PROVE  /\ delivered[m] <= 1 + excused'[m]
                      /\ Unheard(m)' => delivered[m] <= excused'[m]
                      /\ row[m].status \in {"none", "pending", "failed"} /\ ~Heard(m)'
                           => delivered[m] <= excused'[m]
    BY DEF CountInv
  <2>1. delivered[m] \in Nat /\ excused[m] \in Nat /\ excused'[m] \in Nat /\ excused'[m] >= excused[m]
    BY <1>2 DEF MailTypeInv
  <2>2. Unheard(m)' => Unheard(m)
    BY <1>1, <1>4 DEF Unheard
  <2>3. Heard(m) /\ ~Heard(m)' => excused'[m] = excused[m] + 1
    BY <1>1, <1>2, <1>4 DEF Heard
  <2> QED
    BY <2>1, <2>2, <2>3 DEF CountInv
<1> QED
  BY <1>3, <1>5, <1>6, <1>7, <1>8

LEMMA MailNextInv ==
  ASSUME ~SlowSends, MailInv, [MailNext]_mailVars
  PROVE  MailInv'
<1>1. ASSUME NEW s \in Senders, DbError(s)
      PROVE  MailInv'
  BY <1>1, StepStop DEF DbError
<1>2. ASSUME Crash
      PROVE  MailInv'
  BY <1>2, StepStop DEF Crash
<1>3. ASSUME NEW s \in Senders, SenderStep(s)
      PROVE  MailInv'
  BY <1>3, StepReread, StepClaim, StepSend, StepRecord, StepEndDrain DEF SenderStep
<1>4. ASSUME NEW m \in Messages, Enqueue(m) \/ Delete(m) \/ BackoffOver(m) \/ LeaseRunsOut(m)
      PROVE  MailInv'
  BY <1>4, StepEnqueue, StepDelete, StepBackoffOver, StepLeaseRunsOut
<1> QED
  BY <1>1, <1>2, <1>3, <1>4, StepSendTest, StepRequeue, StepStartDrain, StepRestart, StepStutter
     DEF MailNext

(* The invariant holds in every state, where no lease runs out under the    *)
(* sender that holds it.                                                    *)
THEOREM MailInvariance ==
  ASSUME ~SlowSends
  PROVE  MailSpec => []MailInv
<1>1. MailInit => MailInv
  BY MailInitInv
<1>2. MailInv /\ [MailNext]_mailVars => MailInv'
  BY MailNextInv
<1> QED
  BY <1>1, <1>2, PTL DEF MailSpec

-----------------------------------------------------------------------------
(* The table and the senders keep their types. *)
THEOREM MailTypeCorrectness ==
  ASSUME ~SlowSends
  PROVE  MailSpec => []MailTypeOK
<1>1. MailInv => MailTypeOK
  BY DEF MailInv, MailTypeInv, FlightInv, MailTypeOK, Rows, Pending
<1> QED
  BY <1>1, MailInvariance, PTL

(* The conditional UPDATE of claim is enough: however many drains, retries, *)
(* test mails and restarted workers overlap, no message is in flight twice, *)
(* and the mail server accepts it a second time only after an answer or a   *)
(* note of its acceptance was lost.                                         *)
THEOREM SentOnce ==
  ASSUME ~SlowSends
  PROVE  MailSpec => []MailOnce
<1>1. MailInv => MailOnce
  BY DEF MailInv, FlightInv, CountInv, MailOnce
<1> QED
  BY <1>1, MailInvariance, PTL

(* What a step does to the status of a row. *)
Moves(m) ==
  \/ row'[m].status = row[m].status
  \/ row'[m].status = "deleted"
  \/ row[m].status # "sent" /\ row'[m].status = "pending"
  \/ row[m].status # "sent" /\ row'[m].status = "failed"
  \/ row[m].status # "sent" /\ row'[m].status = "sent" /\ delivered[m] > 0

LEMMA StatusMoves ==
  ASSUME MailInv, MailNext, NEW m \in Messages
  PROVE  Moves(m)
<1> USE DEF Moves
<1>1. row \in [Messages -> Rows]
  BY DEF MailInv, MailTypeInv
<1>2. ASSUME NEW n \in Messages, Enqueue(n) \/ Delete(n) \/ BackoffOver(n) \/ LeaseRunsOut(n)
      PROVE  Moves(m)
  <2>1. CASE Enqueue(n)
    BY <1>1, <2>1 DEF Enqueue, NewRow, NoRow
  <2>2. CASE Delete(n)
    BY <1>1, <2>2, DeletedRow DEF Delete
  <2>3. CASE BackoffOver(n) \/ LeaseRunsOut(n)
    BY <1>1, <2>3 DEF BackoffOver, LeaseRunsOut, Rows
  <2> QED
    BY <1>2, <2>1, <2>2, <2>3
<1>3. ASSUME NEW s \in Requests, NEW n \in Messages, SendTest(s, n) \/ Requeue(s, n)
      PROVE  Moves(m)
  <2>1. CASE SendTest(s, n)
    BY <1>1, <2>1 DEF SendTest, NewRow, NoRow
  <2>2. CASE Requeue(s, n)
    BY <1>1, <2>2 DEF Requeue, Rows
  <2> QED
    BY <1>3, <2>1, <2>2
<1>4. ASSUME NEW w \in Workers, StartDrain(w)
      PROVE  Moves(m)
  BY <1>1, <1>4 DEF StartDrain, Rows
<1>5. ASSUME NEW s \in Senders, Claim(s)
      PROVE  Moves(m)
  <2>1. PICK t \in batch[s] :
          \/ row' = [row EXCEPT ![t[1]].attempts = @ + 1, ![t[1]].lease = "live"]
          \/ row' = row
    BY <1>5 DEF Claim
  <2>2. CASE row' = [row EXCEPT ![t[1]].attempts = @ + 1, ![t[1]].lease = "live"]
    BY <1>1, <2>2 DEF Rows
  <2> QED
    BY <2>1, <2>2
<1>6. ASSUME NEW s \in Senders, Record(s)
      PROVE  Moves(m)
  <2>1. msg[s] \in Messages /\ InFlight(s, msg[s])
    BY <1>6 DEF MailInv, MailTypeInv, Record, InFlight
  <2>2. row[msg[s]].status # "sent" /\ (answer[s] = "accepted" => delivered[msg[s]] > 0)
    BY <2>1 DEF MailInv, FlightInv, AnswerInv
  <2>3. CASE m = msg[s] /\ row[m].status # "deleted"
    <3>1. row'[m] = After(s)
      BY <1>1, <1>6, <2>3 DEF Record
    <3>2. PICK st \in {"sent", "pending", "failed"} :
            /\ row'[m] = [row[m] EXCEPT !.status = st, !.due = FALSE, !.lease = "none"]
            /\ st = "sent" <=> answer[s] = "accepted"
      BY <2>3, <3>1 DEF After
    <3>3. row'[m].status = st
      BY <1>1, <3>2 DEF Rows
    <3> QED
      BY <2>2, <2>3, <3>2, <3>3
  <2>4. CASE ~(m = msg[s] /\ row[m].status # "deleted")
    <3>1. row'[m] = row[m]
      BY <1>1, <1>6, <2>1, <2>4 DEF Record
    <3> QED
      BY <3>1
  <2> QED
    BY <2>3, <2>4
<1>7. ASSUME NEW s \in Senders, EndDrain(s)
      PROVE  Moves(m)
  <2>1. row'[m] = row[m] \/ row'[m] = [NoRow EXCEPT !.status = "deleted"]
    BY <1>7 DEF EndDrain
  <2> QED
    BY <2>1, DeletedRow
<1>8. ASSUME NEW s \in Senders, Reread(s) \/ Send(s) \/ DbError(s)
      PROVE  Moves(m)
  BY <1>8 DEF Reread, Send, DbError
<1> QED
  BY <1>2, <1>3, <1>4, <1>5, <1>6, <1>7, <1>8 DEF MailNext, SenderStep, Crash, Restart

(* mark_sent and mark_attempt_failed write the row without looking at it,   *)
(* and yet a message that reads as sent was accepted and is never queued or *)
(* failed again.                                                            *)
THEOREM SentIsFinal ==
  ASSUME ~SlowSends
  PROVE  MailSpec => [][SentStaysSent]_mailVars
<1>1. MailInv /\ [MailNext]_mailVars => [SentStaysSent]_mailVars
  <2> SUFFICES ASSUME MailInv, MailNext, NEW m \in Messages
               PROVE  /\ row'[m].status = "sent" => delivered[m] > 0
                      /\ row[m].status = "sent" => row'[m].status \in {"sent", "deleted"}
    BY DEF SentStaysSent
  <2> QED
    BY StatusMoves DEF Moves, MailInv, SentInv
<1> QED
  BY <1>1, MailInvariance, PTL DEF MailSpec

HIDE DEF senders, mailVars

-----------------------------------------------------------------------------
(* The services beside each other *)

(* A library without files is a tree. *)
LEMMA EmptyTree == {} \in Trees
<1> DEFINE f == [n \in Names |-> {}]
<1>1. {} = UNION {f[n] : n \in Names}
  OBVIOUS
<1> QED
  BY <1>1 DEF Trees, Directories

(* The merge does what it does alone; where another service runs, it has    *)
(* the empty tree three times.                                              *)
LEMMA MergeAlone == ServicesSpec => Spec
<1>1. ServicesInit => Init
  BY EmptyTree DEF ServicesInit, NothingToMerge, Init
<1>2. [ServicesNext]_servicesVars => [Next]_vars
  BY DEF ServicesNext, servicesVars, Mailing, Uploading, Storing
<1> QED
  BY <1>1, <1>2, PTL DEF ServicesSpec, Spec

(* What merge_trees promises holds in the composition as well. *)
THEOREM MergeKeepsItsPromises ==
  ServicesSpec => [](/\ MergeLosesNothing /\ MergeRevivesNothing
                     /\ MergeCommutes /\ MergeFlagsHonest)
BY MergeAlone, LosesNothing, RevivesNothing, Commutes, FlagsAreHonest, PTL

(* The outbox does what it does alone, whatever service runs beside it. *)
LEMMA OutboxAlone == ServicesSpec => MailSpec
<1>1. ServicesInit => MailInit
  BY DEF ServicesInit
<1>2. [ServicesNext]_servicesVars => [MailNext]_mailVars
  BY DEF ServicesNext, servicesVars, Mailing, Uploading, Storing
<1> QED
  BY <1>1, <1>2, PTL DEF ServicesSpec, MailSpec

(* The conditional UPDATE of claim lets one sender at a time have a message, *)
(* and the mail server accepts it again only after an answer or the record   *)
(* of one was lost: for any messages and requests of the composition.        *)
THEOREM MailIsSentOnce == ServicesSpec => []MailOnce
<1>1. MailSpec => []MailOnce
  BY PromptSends, SentOnce
<1> QED
  BY <1>1, OutboxAlone, PTL

(* mark_attempt_failed, a retry and a restart leave a sent message alone. *)
THEOREM SentMailIsFinal == ServicesSpec => MailSentIsFinal
<1>1. MailSpec => []MailInv /\ [][SentStaysSent]_mailVars
  BY PromptSends, MailInvariance, SentIsFinal
<1>2. MailInv /\ [SentStaysSent]_mailVars => [SentStaysSent]_servicesVars
  BY DEF MailInv, SentInv, SentStaysSent, mailVars
<1> QED
  BY <1>1, <1>2, OutboxAlone, PTL DEF MailSentIsFinal

(* The invariants of the uploads, while they are the service. *)
SteadyInv == service = "steady" => Steady!BaseInv /\ Steady!WholeInv /\ Steady!SizeInv

LEMMA SteadySetting == Steady!Setting
BY SomeUploads

LEMMA SteadyInvariance == ServicesSpec => []SteadyInv
<1>1. ServicesInit => SteadyInv
  BY SteadySetting, Steady!BaseInit, Steady!WholeInit, Steady!SizeInit
     DEF ServicesInit, SteadyInv
<1>2. SteadyInv /\ [ServicesNext]_servicesVars => SteadyInv'
  <2> SUFFICES ASSUME SteadyInv, [ServicesNext]_servicesVars, service' = "steady"
               PROVE  (Steady!BaseInv /\ Steady!WholeInv /\ Steady!SizeInv)'
    BY DEF SteadyInv
  <2>1. service = "steady" /\ [Steady!Next]_(Steady!vars)
    BY DEF ServicesNext, servicesVars, uploadVars, Mailing, Uploading, Storing, Steady!vars,
       Steady!server, Steady!local
  <2> QED
    BY <2>1, SteadySetting, Steady!BaseNext, Steady!WholeNext, Steady!SizeNext DEF SteadyInv
<1> QED
  BY <1>1, <1>2, PTL DEF ServicesSpec

(* What finalize commits is the file the client sent, for any set of        *)
(* transfers whose entries stay to the end.                                 *)
THEOREM UploadsAreWhole == ServicesSpec => []UploadsWhole
<1>1. SteadyInv => UploadsWhole
  BY DEF SteadyInv, UploadsWhole, Steady!WholeInv, Steady!Kept, Steady!UploadsWhole
<1> QED
  BY <1>1, SteadyInvariance, PTL

(* adjust_repo_size gives the size of all the files committed to a library  *)
(* that was not empty, for any set of transfers.                            *)
THEOREM UploadsAreSized == ServicesSpec => []UploadsSized
<1>1. SteadyInv => UploadsSized
  BY SteadySetting, Steady!SizeBalances DEF SteadyInv, UploadsSized
<1> QED
  BY <1>1, SteadyInvariance, PTL

(* The invariant of the block store, in the mode that the service has. *)
BlockInv ==
  /\ service = "lazy" => Lazy!IInv
  /\ service = "sealed" => Sealed!IInv
  /\ service \notin {"lazy", "sealed"} => Clear!IInv

LEMMA SafeStores ==
  /\ Clear!SafeSetting /\ Lazy!SafeSetting /\ Sealed!SafeSetting
  /\ Clear!OneLength /\ Lazy!OneLength /\ Sealed!OneLength
BY SafeBlocks

LEMMA BlockSteps ==
  ASSUME [ServicesNext]_servicesVars
  PROVE  /\ service' = service
         /\ service = "lazy" => [Lazy!Next]_(Lazy!vars)
         /\ service = "sealed" => [Sealed!Next]_(Sealed!vars)
         /\ service \notin {"lazy", "sealed"} => [Clear!Next]_(Clear!vars)
<1> USE DEF ServicesNext, servicesVars, blockVars, Mailing, Uploading, Storing
<1>1. service' = service
  OBVIOUS
<1>2. service = "lazy" => [Lazy!Next]_(Lazy!vars)
  BY DEF Lazy!vars, Lazy!disk, Lazy!local, Lazy!history
<1>3. service = "sealed" => [Sealed!Next]_(Sealed!vars)
  BY DEF Sealed!vars, Sealed!disk, Sealed!local, Sealed!history
<1>4. service \notin {"lazy", "sealed"} => [Clear!Next]_(Clear!vars)
  BY DEF Clear!vars, Clear!disk, Clear!local, Clear!history
<1> QED
  BY <1>1, <1>2, <1>3, <1>4

LEMMA BlockInvariance == ServicesSpec => []BlockInv
<1>1. ServicesInit => BlockInv
  <2> SUFFICES ASSUME ServicesInit
               PROVE  BlockInv
    OBVIOUS
  <2>1. /\ service = "lazy" => Lazy!Init
        /\ service = "sealed" => Sealed!Init
        /\ service \notin {"lazy", "sealed"} => Clear!Init
    BY DEF ServicesInit
  <2> QED
    BY <2>1, SafeStores, Lazy!InitInv, Sealed!InitInv, Clear!InitInv DEF BlockInv
<1>2. BlockInv /\ [ServicesNext]_servicesVars => BlockInv'
  BY BlockSteps, SafeStores, Lazy!NextInv, Sealed!NextInv, Clear!NextInv DEF BlockInv
<1> QED
  BY <1>1, <1>2, PTL DEF ServicesSpec

(* A write that was answered with Ok has stored its block, in each of the   *)
(* modes of encryption and for any number of tasks, removals beside them    *)
(* included (write_block_with_id).                                          *)
THEOREM AcknowledgedBlocksAreStored == ServicesSpec => []BlocksStored
<1>1. BlockInv => BlocksStored
  BY DEF BlockInv, BlocksStored, Lazy!IInv, Sealed!IInv, Clear!IInv
<1> QED
  BY <1>1, BlockInvariance, PTL

(* One tracked write at most is told that it created the block              *)
(* (write_block_with_id_tracked).                                           *)
THEOREM BlocksHaveOneCreator == ServicesSpec => []BlockHasOneCreator
<1>1. BlockInv => BlockHasOneCreator
  BY SafeStores DEF BlockInv, BlockHasOneCreator, Lazy!IInv, Sealed!IInv, Clear!IInv,
     Lazy!CreatorInv, Sealed!CreatorInv, Clear!CreatorInv, Clear!BlockHasOneCreator
<1> QED
  BY <1>1, BlockInvariance, PTL

(* No step but a removal takes a readable block away, in each of the modes  *)
(* (store_block).                                                           *)
THEOREM BlocksGetNeverWorse == ServicesSpec => BlocksNeverWorse
<1> DEFINE A == /\ service = "plain" => Clear!BlocksNeverWorse
                /\ service = "lazy" => Lazy!BlocksNeverWorse
                /\ service = "sealed" => Sealed!BlocksNeverWorse
<1>1. BlockInv /\ [ServicesNext]_servicesVars => [A]_servicesVars
  BY BlockSteps, SafeStores, Lazy!NeverWorse, Sealed!NeverWorse, Clear!NeverWorse DEF BlockInv
<1> QED
  BY <1>1, BlockInvariance, PTL DEF ServicesSpec, BlocksNeverWorse

(* The tree operations do what they do alone. *)
LEMMA TreeAlone == ServicesSpec => Library!Spec
<1>1. ServicesInit => Library!Init
  BY DEF ServicesInit
<1>2. [ServicesNext]_servicesVars => [Library!Next]_(Library!vars)
  BY DEF ServicesNext, servicesVars, treeVars, Mailing, Uploading, Storing, Library!vars,
     Library!accounts
<1> QED
  BY <1>1, <1>2, PTL DEF ServicesSpec, Library!Spec

LEMMA TreeSetting == Library!Setting
BY RootedFolders

(* Names stay unique in every directory, whatever sequence of renames,      *)
(* moves, copies, batches and WebDAV requests came (rename_entry).          *)
THEOREM NamesAreUnique == ServicesSpec => []TreeNamesUnique
<1>1. Library!Spec => []Library!UniqueNames
  BY TreeSetting, Library!NamesStayUnique
<1> QED
  BY <1>1, TreeAlone, PTL DEF TreeNamesUnique

(* The stored size and the adjustments on their way add up to the size of   *)
(* the tree, in any library and for any number of requests, until one of    *)
(* them is lost, races the computation of a size of zero, or is that of a   *)
(* copied directory (adjust_repo_size).                                     *)
THEOREM SizeIsCounted == ServicesSpec => []SizeCounted
<1>1. Library!Spec => []Library!SizeCounted
  BY TreeSetting, Library!SizeIsExact
<1> QED
  BY <1>1, TreeAlone, PTL DEF SizeCounted

(* A MOVE or COPY that succeeds did what it was asked to do, whatever the   *)
(* target held before (move_copy_handler).                                  *)
THEOREM WebDavIsDone == ServicesSpec => []WebDavDone
<1>1. Library!Spec => []Library!WebDavDone
  BY TreeSetting, Library!WebDavKeepsItsPromise
<1> QED
  BY <1>1, TreeAlone, PTL DEF WebDavDone

(* No operation but a delete takes content out of the library, not even one *)
(* that stops half-way (move_entry, batch_move, do_move).                   *)
THEOREM ContentIsKept == ServicesSpec => NothingVanishes
<1>1. Library!Spec => [][Library!NothingVanishes]_(Library!vars)
  BY TreeSetting, Library!ContentStays
<1>2. [Library!NothingVanishes]_(Library!vars) => [Library!NothingVanishes]_servicesVars
  BY DEF Library!NothingVanishes, Library!vars, Library!accounts
<1> QED
  BY <1>1, <1>2, TreeAlone, PTL DEF NothingVanishes

-----------------------------------------------------------------------------
(* The uploads keep their types, disturbed or not. *)
UploadInv == IF service = "shaken" THEN Shaken!BaseInv ELSE Steady!BaseInv

LEMMA UploadInvariance == ServicesSpec => []UploadInv
<1>0. Steady!Setting /\ Shaken!Setting
  BY SomeUploads
<1>1. ServicesInit => UploadInv
  BY <1>0, Steady!BaseInit, Shaken!BaseInit DEF ServicesInit, UploadInv
<1>2. UploadInv /\ [ServicesNext]_servicesVars => UploadInv'
  <2> SUFFICES ASSUME UploadInv, [ServicesNext]_servicesVars
               PROVE  UploadInv'
    OBVIOUS
  <2>1. /\ service' = service
        /\ service = "shaken" => [Shaken!Next]_(Shaken!vars)
        /\ service # "shaken" => [Steady!Next]_(Steady!vars)
    BY DEF ServicesNext, servicesVars, uploadVars, Mailing, Uploading, Storing, Steady!vars,
       Steady!server, Steady!local, Shaken!vars, Shaken!server, Shaken!local
  <2> QED
    BY <1>0, <2>1, Steady!BaseNext, Shaken!BaseNext DEF UploadInv
<1> QED
  BY <1>1, <1>2, PTL DEF ServicesSpec

(* Type correctness of all services. *)
THEOREM TypesAreKept == ServicesSpec => []TypeOK
<1>1. UploadInv => IF service = "shaken" THEN Shaken!TypeOK ELSE Steady!TypeOK
  BY Steady!BaseTypes, Shaken!BaseTypes DEF UploadInv
<1>2. BlockInv => Clear!TypeOK
  BY DEF BlockInv, Lazy!IInv, Sealed!IInv, Clear!IInv, Lazy!Types, Sealed!Types, Clear!Types,
     Lazy!TypeOK, Sealed!TypeOK, Clear!TypeOK
<1>3. MailSpec => []MailTypeOK
  BY PromptSends, MailTypeCorrectness
<1>4. Library!Spec => []Library!TypeOK
  BY TreeSetting, Library!TypeCorrectness
<1>5. /\ (IF service = "shaken" THEN Shaken!TypeOK ELSE Steady!TypeOK)
      /\ MailTypeOK
      /\ Clear!TypeOK
      /\ Library!TypeOK
      => TypeOK
  BY DEF TypeOK
<1> QED
  BY <1>1, <1>2, <1>3, <1>4, <1>5, UploadInvariance, BlockInvariance, OutboxAlone, TreeAlone, PTL
=============================================================================
