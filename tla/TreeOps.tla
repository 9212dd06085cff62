------------------------------- MODULE TreeOps -------------------------------
(***************************************************************************)
(* What the tree operations do to a library's tree: rename, move, delete,  *)
(* mkdir and the batches of the REST and web APIs, each one commit, and    *)
(* the WebDAV MOVE and COPY, which are up to three such calls.  How two    *)
(* calls race for HEAD is the Branch module's subject; here a call reads   *)
(* the tree and commits in one step.  The stored size is adjusted in a     *)
(* step of its own, later, or never.                                       *)
(*                                                                         *)
(* A tree is a set of entries.  A path is the sequence of its names, and a *)
(* name <<"x", 1>> stands for "x (1)".  Being a set, the tree cannot hold  *)
(* two equal entries; two different ones may share a path, which           *)
(* UniqueNames is about.                                                   *)
(***************************************************************************)
EXTENDS Integers, FiniteSets, SequencesExt

CONSTANTS
  InitialTree, \* entries [path, id], where id is a content or "dir"
  Names,       \* names clients choose
  Careful,     \* clients choose names that are free in the target
               \* directory, and keep away from a WebDAV request's library
  MaxOps       \* bound

VARIABLES
  tree,
  deleted,     \* contents of deleted entries, which the trash is to hold
  size,        \* repos.size; every file is one unit
  owing,       \* who has committed and not yet adjusted the size
  due,         \* by how much
  drifted,     \* history: an adjustment was lost, met another one at a size
               \* of zero, or was that of a copied directory
  req,         \* the WebDAV request in progress
  ops

accounts == <<size, owing, due, drifted>>
vars == <<tree, deleted, accounts, req, ops>>
unasked == <<deleted, accounts>>

Callers == {"rest", "dav"}

NoRequest == [pc |-> "idle", kind |-> "none", src |-> <<>>, dst |-> <<>>, start |-> {}]

Init ==
  /\ tree = InitialTree
  /\ deleted = {}
  /\ size = Cardinality({e \in InitialTree : e.id # "dir"})
  /\ owing = {} /\ due = [c \in Callers |-> 0] /\ drifted = FALSE
  /\ req = NoRequest /\ ops = 0

-----------------------------------------------------------------------------
(* Trees.  Subtree returns the entry at p and what is below it.            *)

Subtree(t, p) == {e \in t : IsPrefix(p, e.path)}
Without(t, p) == t \ Subtree(t, p)
Exists(t, p) == \E e \in t : e.path = p
IsDir(t, p) == p = <<>> \/ \E e \in t : e.path = p /\ e.id = "dir"
Dirs(t) == {<<>>} \cup {e.path : e \in {f \in t : f.id = "dir"}}
Contents(t) == {e.id : e \in t} \ {"dir"}
FileCount(t) == Cardinality({e \in t : e.id # "dir"})

(* The entries of s, which were at or below `from`, at or below `to`. *)
Rebase(s, from, to) ==
  {[e EXCEPT !.path = to \o SubSeq(@, Len(from) + 1, Len(@))] : e \in s}

(* update_dir_tree_no_commit: directory d with the content it has in the    *)
(* tree `now`, and `new` added to it, replaces the one in the tree `base`.  *)
AddTo(base, now, d, new) ==
  (base \ {e \in base : IsStrictPrefix(d, e.path)})
    \cup {e \in now : IsStrictPrefix(d, e.path)} \cup new

(* A collision is resolved by leaving the name as it is. *)
Mutant_NameKept(t, d, n) == n

(* generate_unique_filename: the first "n (k)" that is free, if n is taken. *)
FreeName(t, d, n) ==
  LET taken(m) == Exists(t, Append(d, m))
      k == CHOOSE i \in 1..(Cardinality(t) + 1) :
             /\ ~taken(Append(n, i))
             /\ \A j \in 1..(i - 1) : taken(Append(n, j))
  IN IF taken(n) THEN Append(n, k) ELSE n

(* The setting of the theorems: names are strings, and the library begins   *)
(* as a finite tree whose entries hang in directories, each under a name of *)
(* its own.                                                                 *)
Setting ==
  /\ Names \subseteq STRING
  /\ IsFiniteSet(InitialTree)
  /\ InitialTree \subseteq [path : Seq(Seq(STRING)) \ {<<>>}, id : STRING]
  /\ \A e \in InitialTree : \A k \in 1..(Len(e.path) - 1) :
       IsDir(InitialTree, SubSeq(e.path, 1, k))
  /\ \A e, f \in InitialTree : e.path = f.path => e = f

-----------------------------------------------------------------------------
(* The service calls.  Each returns the trees it may commit: none where it  *)
(* reports an error, and the caller may be told of an error in any case.    *)

(* rename_entry: nobody looks whether the new name is free. *)
Renamed(t, p, n) ==
  IF Exists(t, p)
  THEN {Without(t, p) \cup Rebase(Subtree(t, p), p, Append(Front(p), n))}
  ELSE {}

IsSelfOrSubpath(p, d) == IsPrefix(p, d)

(* The destination is resolved in HEAD, where the entry still is. *)
Mutant_DestinationFromHead(t, p, d) ==
  IF Exists(t, p) /\ ~IsSelfOrSubpath(p, d) /\ IsDir(t, d)
  THEN {AddTo(Without(t, p), t, d, Rebase(Subtree(t, p), p, Append(d, Last(p))))}
  ELSE {}

(* The removal is committed before the destination is written. *)
Mutant_RemovalFirst(t, p, d) ==
  IF Exists(t, p) /\ ~IsSelfOrSubpath(p, d) /\ IsDir(t, d)
  THEN {Without(t, p),
        Without(t, p) \cup Rebase(Subtree(t, p), p, Append(d, Last(p)))}
  ELSE {}

(* move_entry: the entry is taken out, the destination is resolved in the   *)
(* resulting tree, and the entry is added unless its name is taken there.   *)
Moved(t, p, d) ==
  LET rest == Without(t, p)
      arrived == Append(d, Last(p))
      new == IF Exists(rest, arrived) THEN {} ELSE Rebase(Subtree(t, p), p, arrived)
  IN IF Exists(t, p) /\ ~IsSelfOrSubpath(p, d) /\ IsDir(t, d) /\ IsDir(rest, d)
     THEN {AddTo(rest, rest, d, new)}
     ELSE {}

(* Paste entry n[1] of directory s, as it is in the tree t, into directory d *)
(* of the tree acc, under n[2] or a free name; and the entries ns one after  *)
(* the other.                                                               *)
PasteOne(t, s, acc, d, n) ==
  acc \cup Rebase(Subtree(t, Append(s, n[1])), Append(s, n[1]),
                  Append(d, FreeName(acc, d, n[2])))
Pasted(t, s, base, d, ns) ==
  FoldLeft(LAMBDA acc, n : PasteOne(t, s, acc, d, n), base, ns)

Selected(t, s, ns) == \A i \in DOMAIN ns : Exists(t, Append(s, ns[i]))
NoneInto(t, s, d, ns) ==
  \A i \in DOMAIN ns : LET p == Append(s, ns[i])
                       IN IsDir(t, p) => ~IsSelfOrSubpath(p, d)

(* batch_copy: names are planned against the destination as it is, and made *)
(* unique once more when they are written.                                  *)
Copied(t, s, d, ns) ==
  IF Selected(t, s, ns) /\ NoneInto(t, s, d, ns) /\ IsDir(t, s) /\ IsDir(t, d)
  THEN {Pasted(t, s, t, d, [i \in DOMAIN ns |-> <<ns[i], FreeName(t, d, ns[i])>>])}
  ELSE {}

(* batch_move: names are planned against the destination and those already  *)
(* planned; a move within the directory is refused.                         *)
BatchMoved(t, s, d, ns) ==
  LET rest == {e \in t : \A i \in DOMAIN ns : ~IsPrefix(Append(s, ns[i]), e.path)}
  IN IF /\ Selected(t, s, ns) /\ d # s /\ NoneInto(t, s, d, ns)
        /\ IsDir(t, s) /\ IsDir(t, d) /\ IsDir(rest, d)
     THEN {Pasted(t, s, rest, d, [i \in DOMAIN ns |-> <<ns[i], ns[i]>>])}
     ELSE {}

(* The caller has committed, and is to adjust the size by delta. *)
Owe(c, delta) ==
  /\ c \notin owing /\ owing' = owing \cup {c}
  /\ due' = [due EXCEPT ![c] = delta]
  /\ UNCHANGED size

(* adjust_repo_size: a size of zero is computed anew, the sum never drops   *)
(* below zero.                                                              *)
Adjusted(delta) ==
  IF size = 0 THEN FileCount(tree)
  ELSE IF size + delta < 0 THEN 0 ELSE size + delta

(* Only the entry's own size is subtracted, which is zero for directories. *)
Mutant_EntryOnly(t, p) == Cardinality({e \in t : e.path = p /\ e.id # "dir"})

(* compute_tree_size of a directory, or the size of the file *)
DeletedSize(t, p) == FileCount(Subtree(t, p))

(* delete_file, delete_dir and delete_dirent, up to the commit *)
DeleteEntry(c, p) ==
  /\ tree' = Without(tree, p)
  /\ deleted' = deleted \cup Contents(Subtree(tree, p))
  /\ Owe(c, -DeletedSize(tree, p))
  /\ UNCHANGED drifted

(* The entry of a directory carries a size of zero. *)
CopySize(t, s, ns) ==
  Cardinality({i \in DOMAIN ns : ~IsDir(t, Append(s, ns[i]))})

(* batch_copy, up to the commit *)
CopyEntries(c, s, d, ns) ==
  /\ tree' \in Copied(tree, s, d, ns)
  /\ Owe(c, CopySize(tree, s, ns))
  /\ drifted' = (drifted \/ \E i \in DOMAIN ns : IsDir(tree, Append(s, ns[i])))
  /\ UNCHANGED deleted

-----------------------------------------------------------------------------
(* REST and web requests *)

Begin ==
  /\ ops < MaxOps /\ ops' = ops + 1
  /\ Careful => req.pc = "idle"

Free(d, n) == Careful => ~Exists(tree, Append(d, n))

Rename(p, n) ==
  /\ Begin /\ Last(p) # n /\ Free(Front(p), n)
  /\ tree' \in Renamed(tree, p, n)
  /\ UNCHANGED <<unasked, req>>

Move(p, d) ==
  /\ Begin /\ (d # Front(p) => Free(d, Last(p)))
  /\ tree' \in Moved(tree, p, d)
  /\ UNCHANGED <<unasked, req>>

Delete(p) ==
  /\ Begin /\ Exists(tree, p)
  /\ DeleteEntry("rest", p)
  /\ UNCHANGED req

(* create_dir_by_path: nothing happens if the name is taken. *)
Mkdir(d, n) ==
  /\ Begin /\ IsDir(tree, d) /\ ~Exists(tree, Append(d, n))
  /\ tree' = tree \cup {[path |-> Append(d, n), id |-> "dir"]}
  /\ UNCHANGED <<unasked, req>>

BatchMove(s, d, ns) ==
  /\ Begin
  /\ tree' \in BatchMoved(tree, s, d, ns)
  /\ UNCHANGED <<unasked, req>>

BatchCopy(s, d, ns) ==
  /\ Begin
  /\ CopyEntries("rest", s, d, ns)
  /\ UNCHANGED req

(* batch_delete: the entries go in one commit. *)
BatchDelete(s, ns) ==
  LET gone == {e \in tree : \E i \in DOMAIN ns : IsPrefix(Append(s, ns[i]), e.path)}
  IN
  /\ Begin /\ Selected(tree, s, ns)
  /\ tree' = tree \ gone
  /\ deleted' = deleted \cup Contents(gone)
  /\ Owe("rest", -FileCount(gone))
  /\ UNCHANGED <<drifted, req>>

(* The last part of a call: the size is adjusted.  Where it is computed     *)
(* anew beside a commit whose adjustment is to come, that commit counts     *)
(* twice; and a sum below zero is cut off.                                  *)
AdjustSize(c) ==
  LET other == due[IF c = "rest" THEN "dav" ELSE "rest"]
  IN
  /\ c \in owing /\ owing' = owing \ {c} /\ due' = [due EXCEPT ![c] = 0]
  /\ size' = Adjusted(due[c])
  /\ drifted' = (drifted \/ (other # 0 /\ (size = 0 \/ size + due[c] < 0)))
  /\ UNCHANGED <<tree, deleted, req, ops>>

(* It fails, or the request or the process is gone: the commit stays.       *)
Forgone(c) ==
  /\ owing' = owing \ {c} /\ due' = [due EXCEPT ![c] = 0]
  /\ drifted' = (drifted \/ due[c] # 0)
  /\ UNCHANGED size

AdjustmentLost ==
  /\ "rest" \in owing /\ Forgone("rest")
  /\ UNCHANGED <<tree, deleted, req, ops>>

-----------------------------------------------------------------------------
(* WebDAV MOVE and COPY.  What the request knows of the tree it read when   *)
(* it began; the calls work on the tree as it is by then.                   *)

(* move_copy_handler: the checks.  A source that is gone is only noticed by *)
(* the call itself, after the target was deleted.  A Careful client makes   *)
(* no request whose last call would find another entry under the source's   *)
(* name in the target directory, as a COPY within a directory does.         *)
DavBegin(kind, p, q, overwrite) ==
  /\ req.pc = "idle" /\ ops < MaxOps /\ ops' = ops + 1
  /\ p # <<>> /\ q # <<>> /\ p # q
  /\ IsDir(tree, p) => ~IsStrictPrefix(p, q)
  /\ IsDir(tree, Front(q))
  /\ Exists(tree, q) => overwrite
  /\ Careful => \/ Front(p) = Front(q) /\ kind = "move"
                \/ Last(p) = Last(q)
                \/ ~Exists(tree, Append(Front(q), Last(p)))
  /\ req' = [pc |-> IF Exists(tree, q) THEN "delete" ELSE "call",
             kind |-> kind, src |-> p, dst |-> q, start |-> tree]
  /\ UNCHANGED <<tree, unasked>>

(* A call of the request comes after the whole of the call before. *)
Ready(l) == req.pc = l /\ "dav" \notin owing

Ended == req' = NoRequest
DavGoto(l) == req' = [req EXCEPT !.pc = l]

(* The target goes, as delete_dirent does it.  A name that is gone by now   *)
(* is no error.                                                             *)
DavDelete ==
  /\ req.pc = "delete"
  /\ DeleteEntry("dav", req.dst)
  /\ DavGoto("call")
  /\ UNCHANGED ops

(* do_move within a directory is a rename; else the entry keeps its name,   *)
(* and a second call renames what has that name in the target directory.    *)
DavMove ==
  LET from == Front(req.src)
      to == Front(req.dst)
      same == from = to
  IN
  /\ Ready("call") /\ req.kind = "move"
  /\ tree' \in IF same THEN Renamed(tree, req.src, Last(req.dst))
                       ELSE Moved(tree, req.src, to)
  /\ DavGoto(IF same \/ Last(req.src) = Last(req.dst) THEN "done" ELSE "rename")
  /\ UNCHANGED <<unasked, ops>>

DavCopy ==
  LET s == Front(req.src)
      ns == <<Last(req.src)>>
  IN
  /\ Ready("call") /\ req.kind = "copy"
  /\ CopyEntries("dav", s, Front(req.dst), ns)
  /\ DavGoto(IF Last(req.src) = Last(req.dst) THEN "done" ELSE "rename")
  /\ UNCHANGED ops

DavRename ==
  /\ Ready("rename")
  /\ tree' \in Renamed(tree, Append(Front(req.dst), Last(req.src)), Last(req.dst))
  /\ DavGoto("done")
  /\ UNCHANGED <<unasked, ops>>

(* The answer; or a call fails, or the client is gone, and the request ends *)
(* where it stands.                                                         *)
DavEnd ==
  /\ req.pc # "idle"
  /\ Ended /\ Forgone("dav")
  /\ UNCHANGED <<tree, deleted, ops>>

-----------------------------------------------------------------------------
Paths(t) == {e.path : e \in t}
Chosen == {<<n>> : n \in Names}

(* One or two entries of a directory, none of them twice *)
Batches(t, s) ==
  LET here == {Last(p) : p \in {q \in Paths(t) : Front(q) = s}}
  IN {<<n>> : n \in here} \cup {p \in here \X here : p[1] # p[2]}

Request ==
  \/ \E p \in Paths(tree), n \in Chosen : Rename(p, n)
  \/ \E p \in Paths(tree), d \in Dirs(tree) : Move(p, d)
  \/ \E p \in Paths(tree) : Delete(p)
  \/ \E d \in Dirs(tree), n \in Chosen : Mkdir(d, n)
  \/ \E s, d \in Dirs(tree) : \E ns \in Batches(tree, s) :
       \/ BatchMove(s, d, ns)
       \/ BatchCopy(s, d, ns)
  \/ \E s \in Dirs(tree) : \E ns \in Batches(tree, s) : BatchDelete(s, ns)

Accounting == (\E c \in Callers : AdjustSize(c)) \/ AdjustmentLost

WebDav ==
  \/ \E kind \in {"move", "copy"}, p \in Paths(tree) \cup {<<n>> : n \in Chosen},
        d \in Dirs(tree), n \in Chosen, overwrite \in BOOLEAN : DavBegin(kind, p, Append(d, n), overwrite)
  \/ DavDelete \/ DavMove \/ DavCopy \/ DavRename \/ DavEnd

Next == Request \/ Accounting \/ WebDav

Spec == Init /\ [][Next]_vars

-----------------------------------------------------------------------------
(* Type invariant: entries hang in directories, and the size is a size *)
TypeOK ==
  /\ \A e \in tree : e.path # <<>> /\ IsDir(tree, Front(e.path))
  /\ size \in Nat /\ owing \subseteq Callers /\ due \in [Callers -> Int]
  /\ req.pc \in {"idle", "delete", "call", "rename", "done"}

(* Only a delete takes content out of the library: a move, a rename, a copy *)
(* or a request that stops half-way leaves every content in the tree, since *)
(* "a move never writes a trash entry" (move_entry).                        *)
NothingVanishes == Contents(tree) \subseteq Contents(tree') \cup deleted'

(* "Names are unique within a directory" (rename_entry). *)
UniqueNames == \A e, f \in tree : e.path = f.path => e = f

(* The size that quotas are checked against and the adjustments on their    *)
(* way, of requests that overlap, add up to the size of the tree, although  *)
(* it is only ever adjusted (adjust_repo_size), as long as none of them is  *)
(* lost, none meets a size of zero beside another, and no directory is      *)
(* copied.  Two deletes that measure one entry before either has committed  *)
(* subtract it twice; a call being one step here, that race is left out.    *)
SizeCounted == drifted \/ size + due["rest"] + due["dav"] = FileCount(tree)

(* A MOVE or COPY that was answered with success did what WebDAV says: the  *)
(* source, as it was when the request came, is what the target is now, and  *)
(* all else is as it was.                                                   *)
WebDavDone ==
  req.pc = "done" =>
    LET source == Subtree(req.start, req.src)
        others == Without(req.start, req.dst)
    IN tree = Rebase(source, req.src, req.dst)
                \cup (IF req.kind = "move" THEN Without(others, req.src) ELSE others)
=============================================================================
