---------------------------- MODULE TreeOpsProofs ----------------------------
(***************************************************************************)
(* Proofs about TreeOps, for any tree that hangs in directories, any names *)
(* and any number of requests.  A tree is a set of entries with paths:     *)
(* lemmas about prefixes give what pruning, grafting and rebasing do to a  *)
(* set of entries, these what each call makes of the tree and of its       *)
(* number of files, and these the two inductive invariants: TreeInv holds  *)
(* whatever clients do, CarefulInv where they choose free names.  The      *)
(* latter says for each stage of a WebDAV MOVE or COPY what the finished   *)
(* calls have made of the tree the request began with.                     *)
(***************************************************************************)
EXTENDS TreeOps, SequenceTheorems, FiniteSetTheorems, WellFoundedInduction, TLAPS

-----------------------------------------------------------------------------
(* Paths *)

(* A path is a prefix of another one if it agrees with it as far as it goes. *)
LEMMA PrefixIs ==
  ASSUME NEW S, NEW p \in Seq(S), NEW q \in Seq(S)
  PROVE  IsPrefix(p, q) <=> Len(p) <= Len(q) /\ \A i \in 1..Len(p) : p[i] = q[i]
<1>1. SubSeq(p, 1, Len(p)) = p
  BY SubSeqFull
<1>2. ASSUME Len(p) <= Len(q)
      PROVE  /\ SubSeq(q, 1, Len(p)) \in Seq(S)
             /\ Len(SubSeq(q, 1, Len(p))) = Len(p)
             /\ \A i \in 1..Len(p) : SubSeq(q, 1, Len(p))[i] = q[i]
  <2>1. Len(p) \in Nat /\ Len(q) \in Nat /\ \A i \in 1..Len(p) : q[i] \in S
    BY <1>2, LenProperties, ElementOfSeq
  <2>2. /\ SubSeq(q, 1, Len(p)) \in Seq(S)
        /\ Len(SubSeq(q, 1, Len(p))) = IF 1 <= Len(p) THEN Len(p) - 1 + 1 ELSE 0
        /\ \A i \in 1..(Len(p) - 1 + 1) : SubSeq(q, 1, Len(p))[i] = q[1 + i - 1]
    BY <2>1, SubSeqProperties
  <2> QED
    BY <2>1, <2>2
<1>3. ASSUME Len(p) <= Len(q), \A i \in 1..Len(p) : p[i] = q[i]
      PROVE  p = SubSeq(q, 1, Len(p))
  <2>1. \A i \in 1..Len(p) : p[i] = SubSeq(q, 1, Len(p))[i]
    BY <1>2, <1>3
  <2> QED
    BY <2>1, <1>2, <1>3, SeqEqual
<1> QED
  BY <1>1, <1>2, <1>3 DEF IsPrefix

LEMMA PrefixOrder ==
  ASSUME NEW S, NEW p \in Seq(S), NEW q \in Seq(S), NEW r \in Seq(S)
  PROVE  /\ IsPrefix(<<>>, p) /\ IsPrefix(p, p)
         /\ IsPrefix(p, q) /\ IsPrefix(q, r) => IsPrefix(p, r)
         /\ IsPrefix(p, q) /\ IsPrefix(q, p) => p = q
         /\ IsPrefix(p, r) /\ IsPrefix(q, r) => IsPrefix(p, q) \/ IsPrefix(q, p)
<1>0. Len(p) \in Nat /\ Len(q) \in Nat /\ Len(r) \in Nat /\ <<>> \in Seq(S) /\ Len(<<>>) = 0
  BY LenProperties, EmptySeq
<1>1. IsPrefix(<<>>, p) /\ IsPrefix(p, p)
  <2>1. ASSUME NEW s \in Seq(S), Len(s) = 0
        PROVE  IsPrefix(s, p)
    <3>1. IsPrefix(s, p) <=> Len(s) <= Len(p) /\ \A i \in 1..Len(s) : s[i] = p[i]
      BY PrefixIs
    <3> QED
      BY <1>0, <2>1, <3>1
  <2>2. IsPrefix(p, p)
    <3>1. IsPrefix(p, p) <=> Len(p) <= Len(p) /\ \A i \in 1..Len(p) : p[i] = p[i]
      BY PrefixIs
    <3> QED
      BY <1>0, <3>1
  <2> QED
    BY <1>0, <2>1, <2>2
<1>2. IsPrefix(p, q) /\ IsPrefix(q, r) => IsPrefix(p, r)
  BY <1>0, PrefixIs
<1>3. IsPrefix(p, q) /\ IsPrefix(q, p) => p = q
  BY <1>0, PrefixIs, SeqEqual
<1>4. IsPrefix(p, r) /\ IsPrefix(q, r) => IsPrefix(p, q) \/ IsPrefix(q, p)
  BY <1>0, PrefixIs
<1> QED
  BY <1>1, <1>2, <1>3, <1>4

(* What is above an entry of a directory: the entry and what is above it. *)
LEMMA PrefixAppend ==
  ASSUME NEW S, NEW p \in Seq(S), NEW d \in Seq(S), NEW n \in S
  PROVE  /\ Append(d, n) \in Seq(S) /\ Append(d, n) # <<>>
         /\ IsPrefix(p, Append(d, n)) <=> p = Append(d, n) \/ IsPrefix(p, d)
         /\ ~IsPrefix(Append(d, n), d)
         /\ Front(Append(d, n)) = d /\ Last(Append(d, n)) = n
<1> DEFINE q == Append(d, n)
<1>1. /\ q \in Seq(S) /\ q # <<>> /\ Len(q) = Len(d) + 1
      /\ (\A i \in 1..Len(d) : q[i] = d[i]) /\ q[Len(d) + 1] = n
  BY AppendProperties
<1>2. Len(p) \in Nat /\ Len(d) \in Nat
  BY LenProperties
<1> HIDE DEF q
<1>3. IsPrefix(p, d) => IsPrefix(p, q)
  BY <1>1, <1>2, PrefixIs
<1>4. ASSUME IsPrefix(p, q)
      PROVE  p = q \/ IsPrefix(p, d)
  <2>1. Len(p) <= Len(q) /\ \A i \in 1..Len(p) : p[i] = q[i]
    BY <1>1, <1>4, PrefixIs
  <2>2. CASE Len(p) = Len(q)
    BY <1>1, <2>1, <2>2, SeqEqual
  <2>3. CASE Len(p) <= Len(d)
    BY <1>1, <1>2, <2>1, <2>3, PrefixIs
  <2> QED
    BY <1>1, <1>2, <2>1, <2>2, <2>3
<1>5. ~IsPrefix(q, d)
  BY <1>1, <1>2, PrefixIs
<1>6. IsPrefix(q, q)
  BY <1>1, PrefixOrder
<1>7. Front(q) = d
  <2>1. \A i \in 1..Len(d) : q[i] \in S
    BY <1>1, <1>2, ElementOfSeq
  <2>2. /\ SubSeq(q, 1, Len(d)) \in Seq(S)
        /\ Len(SubSeq(q, 1, Len(d))) = IF 1 <= Len(d) THEN Len(d) - 1 + 1 ELSE 0
        /\ \A i \in 1..(Len(d) - 1 + 1) : SubSeq(q, 1, Len(d))[i] = q[1 + i - 1]
    BY <1>2, <2>1, SubSeqProperties
  <2>3. \A i \in 1..Len(d) : SubSeq(q, 1, Len(d))[i] = d[i]
    BY <1>1, <1>2, <2>2
  <2>4. SubSeq(q, 1, Len(d)) = d
    BY <1>2, <2>2, <2>3, SeqEqual
  <2> QED
    BY <1>1, <1>2, <2>4 DEF Front
<1> QED
  BY <1>1, <1>3, <1>4, <1>5, <1>6, <1>7 DEF Last, q

LEMMA FrontLast ==
  ASSUME NEW S, NEW p \in Seq(S), p # <<>>
  PROVE  Front(p) \in Seq(S) /\ Last(p) \in S /\ p = Append(Front(p), Last(p))
<1>1. PICK s \in Seq(S), n \in S : p = Append(s, n)
  BY SequenceEmptyOrAppend
<1> QED
  BY <1>1, PrefixAppend

LEMMA PrefixRest ==
  ASSUME NEW S, NEW p \in Seq(S), NEW q \in Seq(S), IsPrefix(p, q)
  PROVE  SubSeq(q, Len(p) + 1, Len(q)) \in Seq(S) /\ q = p \o SubSeq(q, Len(p) + 1, Len(q))
<1> DEFINE r == SubSeq(q, Len(p) + 1, Len(q))
<1>1. Len(p) \in Nat /\ Len(q) \in Nat /\ Len(p) <= Len(q) /\ \A i \in 1..Len(p) : p[i] = q[i]
  BY LenProperties, PrefixIs
<1>2. \A i \in (Len(p) + 1)..Len(q) : q[i] \in S
  BY <1>1, ElementOfSeq
<1>3. /\ r \in Seq(S)
      /\ Len(r) = IF Len(p) + 1 <= Len(q) THEN Len(q) - (Len(p) + 1) + 1 ELSE 0
      /\ \A i \in 1..(Len(q) - (Len(p) + 1) + 1) : r[i] = q[Len(p) + 1 + i - 1]
  BY <1>1, <1>2, SubSeqProperties
<1> HIDE DEF r
<1> DEFINE c == p \o r
<1>4. /\ c \in Seq(S) /\ Len(c) = Len(p) + Len(r)
      /\ \A i \in 1..(Len(p) + Len(r)) :
           c[i] = IF i <= Len(p) THEN p[i] ELSE r[i - Len(p)]
  BY <1>3, ConcatProperties
<1> HIDE DEF c
<1>5. Len(c) = Len(q)
  BY <1>1, <1>3, <1>4
<1>6. ASSUME NEW i \in 1..Len(q)
      PROVE  c[i] = q[i]
  <2>1. c[i] = IF i <= Len(p) THEN p[i] ELSE r[i - Len(p)]
    BY <1>1, <1>3, <1>4
  <2>2. CASE i <= Len(p)
    BY <1>1, <2>1, <2>2
  <2>3. CASE i > Len(p)
    <3>1. i - Len(p) \in 1..(Len(q) - (Len(p) + 1) + 1) /\ i = Len(p) + 1 + (i - Len(p)) - 1
      BY <1>1, <2>3
    <3>2. r[i - Len(p)] = q[Len(p) + 1 + (i - Len(p)) - 1]
      BY <1>3, <3>1
    <3> QED
      BY <1>1, <2>1, <2>3, <3>1, <3>2
  <2> QED
    BY <1>1, <2>2, <2>3
<1>7. c \in Seq(S) /\ Len(c) = Len(q) /\ \A i \in 1..Len(c) : c[i] = q[i]
  BY <1>4, <1>5, <1>6
<1>8. c = q
  BY <1>7, SeqEqual
<1> QED
  BY <1>3, <1>8 DEF r, c

LEMMA RestOfConcat ==
  ASSUME NEW S, NEW p \in Seq(S), NEW r \in Seq(S)
  PROVE  /\ p \o r \in Seq(S) /\ IsPrefix(p, p \o r)
         /\ SubSeq(p \o r, Len(p) + 1, Len(p \o r)) = r
<1> DEFINE q == p \o r
<1>1. /\ q \in Seq(S) /\ Len(q) = Len(p) + Len(r) /\ Len(p) \in Nat /\ Len(r) \in Nat
      /\ \A i \in 1..(Len(p) + Len(r)) : q[i] = IF i <= Len(p) THEN p[i] ELSE r[i - Len(p)]
  BY ConcatProperties, LenProperties
<1> HIDE DEF q
<1>2. IsPrefix(p, q)
  BY <1>1, PrefixIs
<1> DEFINE s == SubSeq(q, Len(p) + 1, Len(q))
<1>3. s \in Seq(S) /\ q = p \o s
  BY <1>1, <1>2, PrefixRest
<1> HIDE DEF s
<1>4. s = r
  BY <1>3, ConcatSimplifications DEF q
<1> QED
  BY <1>1, <1>2, <1>4 DEF q, s

(* Concatenation, as far as paths need it. *)
Cat(p, r) == p \o r

LEMMA CatPath ==
  ASSUME NEW S, NEW p \in Seq(S), NEW r \in Seq(S)
  PROVE  Cat(p, r) \in Seq(S) /\ IsPrefix(p, Cat(p, r)) /\ Cat(p, <<>>) = p
BY RestOfConcat, ConcatEmptySeq DEF Cat

LEMMA CatAssoc ==
  ASSUME NEW S, NEW p \in Seq(S), NEW r \in Seq(S), NEW s \in Seq(S)
  PROVE  Cat(Cat(p, r), s) = Cat(p, Cat(r, s))
BY ConcatAssociative DEF Cat

LEMMA CatCancel ==
  ASSUME NEW S, NEW p \in Seq(S), NEW r \in Seq(S), NEW s \in Seq(S), Cat(p, r) = Cat(p, s)
  PROVE  r = s
BY ConcatSimplifications DEF Cat

LEMMA CatSplit ==
  ASSUME NEW S, NEW p \in Seq(S), NEW q \in Seq(S), IsPrefix(p, q)
  PROVE  \E r \in Seq(S) : q = Cat(p, r)
<1> DEFINE r == SubSeq(q, Len(p) + 1, Len(q))
<1>1. r \in Seq(S) /\ q = Cat(p, r)
  BY PrefixRest DEF Cat
<1> QED
  BY <1>1

(* The path that Rebase gives to an entry at p. *)
Shifted(p, from, to) == to \o SubSeq(p, Len(from) + 1, Len(p))

LEMMA ShiftedCat ==
  ASSUME NEW S, NEW from \in Seq(S), NEW to \in Seq(S), NEW r \in Seq(S)
  PROVE  Shifted(Cat(from, r), from, to) = Cat(to, r)
<1>1. SubSeq(from \o r, Len(from) + 1, Len(from \o r)) = r
  BY RestOfConcat
<1> QED
  BY <1>1 DEF Shifted, Cat

LEMMA ShiftedPath ==
  ASSUME NEW S, NEW from \in Seq(S), NEW to \in Seq(S), NEW p \in Seq(S), IsPrefix(from, p)
  PROVE  /\ Shifted(p, from, to) \in Seq(S) /\ IsPrefix(to, Shifted(p, from, to))
         /\ Shifted(from, from, to) = to
<1>1. PICK r \in Seq(S) : p = Cat(from, r)
  BY CatSplit
<1>2. Shifted(p, from, to) = Cat(to, r)
  BY <1>1, ShiftedCat
<1>3. <<>> \in Seq(S) /\ from = Cat(from, <<>>) /\ to = Cat(to, <<>>)
  BY EmptySeq, CatPath
<1> DEFINE none == <<>>
<1> HIDE DEF none
<1>a. none \in Seq(S)
  BY <1>3 DEF none
<1>b. Shifted(Cat(from, none), from, to) = Cat(to, none)
  BY <1>a, ShiftedCat
<1>4. Shifted(Cat(from, <<>>), from, to) = Cat(to, <<>>)
  BY <1>b DEF none
<1>5. Shifted(from, from, to) = to
  BY <1>3, <1>4
<1>6. Cat(to, r) \in Seq(S) /\ IsPrefix(to, Cat(to, r))
  BY CatPath
<1> QED
  BY <1>2, <1>5, <1>6

LEMMA ShiftedInjective ==
  ASSUME NEW S, NEW from \in Seq(S), NEW to \in Seq(S), NEW p \in Seq(S), NEW q \in Seq(S),
         IsPrefix(from, p), IsPrefix(from, q), Shifted(p, from, to) = Shifted(q, from, to)
  PROVE  p = q
<1>1. PICK r \in Seq(S) : p = Cat(from, r)
  BY CatSplit
<1>2. PICK s \in Seq(S) : q = Cat(from, s)
  BY CatSplit
<1>3. Cat(to, r) = Cat(to, s)
  BY <1>1, <1>2, ShiftedCat
<1>4. r = s
  BY <1>3, CatCancel
<1> QED
  BY <1>1, <1>2, <1>4

LEMMA ShiftedTwice ==
  ASSUME NEW S, NEW from \in Seq(S), NEW mid \in Seq(S), NEW to \in Seq(S), NEW p \in Seq(S),
         IsPrefix(from, p)
  PROVE  Shifted(Shifted(p, from, mid), mid, to) = Shifted(p, from, to)
<1>1. PICK r \in Seq(S) : p = Cat(from, r)
  BY CatSplit
<1>2. Shifted(p, from, mid) = Cat(mid, r) /\ Shifted(p, from, to) = Cat(to, r)
  BY <1>1, ShiftedCat
<1>3. Shifted(Cat(mid, r), mid, to) = Cat(to, r)
  BY ShiftedCat
<1> QED
  BY <1>2, <1>3

LEMMA ShiftedPrefix ==
  ASSUME NEW S, NEW from \in Seq(S), NEW to \in Seq(S), NEW p \in Seq(S), IsPrefix(from, p),
         NEW u \in Seq(S), IsPrefix(u, Shifted(p, from, to)), ~IsPrefix(u, to)
  PROVE  \E v \in Seq(S) : IsPrefix(from, v) /\ IsPrefix(v, p) /\ u = Shifted(v, from, to)
<1>1. PICK r \in Seq(S) : p = Cat(from, r)
  BY CatSplit
<1>2. Shifted(p, from, to) = Cat(to, r)
  BY <1>1, ShiftedCat
<1>a. Cat(to, r) \in Seq(S) /\ IsPrefix(to, Cat(to, r)) /\ IsPrefix(u, Cat(to, r))
  BY <1>2, CatPath
<1>3. IsPrefix(to, u)
  BY <1>a, PrefixOrder
<1>4. PICK w \in Seq(S) : u = Cat(to, w)
  BY <1>3, CatSplit
<1>5. PICK x \in Seq(S) : Cat(to, r) = Cat(u, x)
  BY <1>a, CatSplit
<1>b. Cat(w, x) \in Seq(S)
  BY CatPath
<1>6. Cat(to, r) = Cat(to, Cat(w, x))
  BY <1>4, <1>5, CatAssoc
<1>7. r = Cat(w, x)
  BY <1>b, <1>6, CatCancel
<1> DEFINE v == Cat(from, w)
<1>8. p = Cat(v, x)
  BY <1>1, <1>7, CatAssoc
<1>c. v \in Seq(S) /\ IsPrefix(from, v)
  BY CatPath
<1>9. IsPrefix(v, Cat(v, x))
  BY <1>c, CatPath
<1>10. u = Shifted(v, from, to)
  BY <1>4, ShiftedCat
<1> QED
  BY <1>8, <1>9, <1>c, <1>10

-----------------------------------------------------------------------------
(* Names and paths of this library *)

Name == Seq(STRING \cup Nat)
Path == Seq(Name)

LEMMA RootPath == <<>> \in Path
BY EmptySeq DEF Path

LEMMA PathOrder ==
  ASSUME NEW p \in Path, NEW q \in Path, NEW r \in Path
  PROVE  /\ IsPrefix(<<>>, p) /\ IsPrefix(p, p)
         /\ IsPrefix(p, q) /\ IsPrefix(q, r) => IsPrefix(p, r)
         /\ IsPrefix(p, q) /\ IsPrefix(q, p) => p = q
         /\ IsPrefix(p, r) /\ IsPrefix(q, r) => IsPrefix(p, q) \/ IsPrefix(q, p)
BY PrefixOrder DEF Path

LEMMA PathAppend ==
  ASSUME NEW p \in Path, NEW d \in Path, NEW n \in Name
  PROVE  /\ Append(d, n) \in Path /\ Append(d, n) # <<>>
         /\ IsPrefix(p, Append(d, n)) <=> p = Append(d, n) \/ IsPrefix(p, d)
         /\ ~IsPrefix(Append(d, n), d)
         /\ Front(Append(d, n)) = d /\ Last(Append(d, n)) = n
BY PrefixAppend DEF Path

LEMMA PathEnds ==
  ASSUME NEW p \in Path, p # <<>>
  PROVE  Front(p) \in Path /\ Last(p) \in Name /\ p = Append(Front(p), Last(p))
BY FrontLast DEF Path

LEMMA PathShifted ==
  ASSUME NEW from \in Path, NEW to \in Path, NEW p \in Path, IsPrefix(from, p)
  PROVE  /\ Shifted(p, from, to) \in Path /\ IsPrefix(to, Shifted(p, from, to))
         /\ Shifted(from, from, to) = to
BY ShiftedPath DEF Path

LEMMA PathInjective ==
  ASSUME NEW from \in Path, NEW to \in Path, NEW p \in Path, NEW q \in Path,
         IsPrefix(from, p), IsPrefix(from, q), Shifted(p, from, to) = Shifted(q, from, to)
  PROVE  p = q
BY ShiftedInjective DEF Path

LEMMA PathTwice ==
  ASSUME NEW from \in Path, NEW mid \in Path, NEW to \in Path, NEW p \in Path,
         IsPrefix(from, p)
  PROVE  Shifted(Shifted(p, from, mid), mid, to) = Shifted(p, from, to)
BY ShiftedTwice DEF Path

LEMMA PathPrefix ==
  ASSUME NEW from \in Path, NEW to \in Path, NEW p \in Path, IsPrefix(from, p),
         NEW u \in Path, IsPrefix(u, Shifted(p, from, to)), ~IsPrefix(u, to)
  PROVE  \E v \in Path : IsPrefix(from, v) /\ IsPrefix(v, p) /\ u = Shifted(v, from, to)
BY ShiftedPrefix DEF Path

(* No path is below two entries of one directory. *)
LEMMA Siblings ==
  ASSUME NEW d \in Path, NEW n \in Name, NEW m \in Name, NEW p \in Path,
         IsPrefix(Append(d, n), p), IsPrefix(Append(d, m), p)
  PROVE  n = m
<1> DEFINE a == Append(d, n)
           b == Append(d, m)
<1>1. /\ a \in Path /\ b \in Path /\ ~IsPrefix(a, d) /\ ~IsPrefix(b, d)
      /\ Last(a) = n /\ Last(b) = m
  BY PathAppend
<1>2. \A u \in Path : /\ IsPrefix(u, a) => u = a \/ IsPrefix(u, d)
                      /\ IsPrefix(u, b) => u = b \/ IsPrefix(u, d)
  BY PathAppend
<1>3. IsPrefix(a, p) /\ IsPrefix(b, p)
  OBVIOUS
<1> HIDE DEF a, b
<1>4. IsPrefix(a, b) \/ IsPrefix(b, a)
  BY <1>1, <1>3, PathOrder
<1>5. a = b
  BY <1>1, <1>2, <1>4
<1> QED
  BY <1>1, <1>5

-----------------------------------------------------------------------------
(* Trees *)

(* Contents are strings; the provers do not know that "dir" is one. *)
Ids == STRING \cup {"dir"}
Entry == [path : Path \ {<<>>}, id : Ids]

(* Every entry hangs in directories. *)
Rooted(t) == \A e \in t : \A q \in Path : IsStrictPrefix(q, e.path) => IsDir(t, q)
IsTree(t) == IsFiniteSet(t) /\ t \subseteq Entry /\ Rooted(t)
Unique(t) == \A e, f \in t : e.path = f.path => e = f

LEMMA EntryIs ==
  ASSUME NEW e \in Entry
  PROVE  /\ e.path \in Path /\ e.path # <<>> /\ e.id \in Ids
         /\ e = [path |-> e.path, id |-> e.id]
BY DEF Entry

LEMMA EntryMade ==
  ASSUME NEW p \in Path, p # <<>>, NEW i \in Ids
  PROVE  /\ [path |-> p, id |-> i] \in Entry
         /\ [path |-> p, id |-> i].path = p /\ [path |-> p, id |-> i].id = i
BY DEF Entry

(* An entry that Rebase moves. *)
At(e, from, to) == [path |-> Shifted(e.path, from, to), id |-> e.id]

LEMMA RebaseIs ==
  ASSUME NEW s, s \subseteq Entry, NEW from, NEW to
  PROVE  Rebase(s, from, to) = {At(e, from, to) : e \in s}
<1>0. ASSUME NEW e \in Entry, NEW x
      PROVE  [e EXCEPT !.path = x] = [path |-> x, id |-> e.id]
  BY DEF Entry
<1>1. ASSUME NEW e \in s
      PROVE  [e EXCEPT !.path = to \o SubSeq(@, Len(from) + 1, Len(@))] = At(e, from, to)
  <2>1. [e EXCEPT !.path = to \o SubSeq(e.path, Len(from) + 1, Len(e.path))]
          = [path |-> to \o SubSeq(e.path, Len(from) + 1, Len(e.path)), id |-> e.id]
    BY <1>0
  <2> QED
    BY <2>1 DEF At, Shifted
<1> QED
  BY <1>1 DEF Rebase

LEMMA InSubtree ==
  ASSUME NEW t, NEW p, NEW e
  PROVE  /\ e \in Subtree(t, p) <=> e \in t /\ IsPrefix(p, e.path)
         /\ e \in Without(t, p) <=> e \in t /\ ~IsPrefix(p, e.path)
BY DEF Subtree, Without

(* What is not there has nothing below it. *)
LEMMA NothingBelow ==
  ASSUME NEW t, IsTree(t), NEW p \in Path, p # <<>>, ~Exists(t, p), NEW e \in t
  PROVE  ~IsPrefix(p, e.path)
<1> SUFFICES ASSUME IsPrefix(p, e.path)
             PROVE  FALSE
  OBVIOUS
<1>1. p # e.path
  BY DEF Exists
<1>2. IsDir(t, p)
  BY <1>1 DEF IsTree, Rooted, IsStrictPrefix
<1> QED
  BY <1>2 DEF IsDir, Exists

(* What is above a directory is a directory. *)
LEMMA AboveDir ==
  ASSUME NEW t, IsTree(t), NEW d \in Path, IsDir(t, d), NEW p \in Path, IsPrefix(p, d)
  PROVE  IsDir(t, p)
<1>1. CASE d = <<>>
  <2>1. IsPrefix(d, p)
    BY <1>1, PathOrder
  <2> QED
    BY <1>1, <2>1, PathOrder DEF IsDir
<1>2. CASE d # <<>>
  <2>1. PICK e \in t : e.path = d
    BY <1>2 DEF IsDir
  <2> QED
    BY <2>1 DEF IsTree, Rooted, IsStrictPrefix
<1> QED
  BY <1>1, <1>2

(* An entry and everything below it is taken out of a tree. *)
LEMMA Pruned ==
  ASSUME NEW t, IsTree(t), NEW p \in Path, p # <<>>
  PROVE  /\ IsTree(Without(t, p))
         /\ \A d \in Path : IsDir(t, d) /\ ~IsPrefix(p, d) => IsDir(Without(t, p), d)
         /\ Unique(t) => Unique(Without(t, p))
         /\ ~Exists(Without(t, p), p)
<1>1. IsFiniteSet(Without(t, p)) /\ Without(t, p) \subseteq t
  BY FS_Subset DEF IsTree, Without
<1>2. ASSUME NEW d \in Path, IsDir(t, d), ~IsPrefix(p, d)
      PROVE  IsDir(Without(t, p), d)
  BY <1>2, InSubtree DEF IsDir
<1>3. ASSUME NEW e \in Without(t, p), NEW q \in Path, IsStrictPrefix(q, e.path)
      PROVE  IsDir(Without(t, p), q)
  <2>1. e \in t /\ ~IsPrefix(p, e.path) /\ e.path \in Path
    BY InSubtree, EntryIs DEF IsTree
  <2>2. IsDir(t, q) /\ ~IsPrefix(p, q)
    BY <1>3, <2>1, PathOrder DEF IsTree, Rooted, IsStrictPrefix
  <2> QED
    BY <1>2, <2>2
<1>4. ~Exists(Without(t, p), p)
  BY InSubtree, PathOrder DEF Exists
<1> QED
  BY <1>1, <1>2, <1>3, <1>4 DEF IsTree, Rooted, Unique

(* A copy of a sub-tree is put into a directory. *)
LEMMA Grafted ==
  ASSUME NEW t, IsTree(t), NEW b, IsTree(b), NEW p \in Path, p # <<>>,
         NEW d \in Path, IsDir(b, d), NEW n \in Name
  PROVE  LET g == Rebase(Subtree(t, p), p, Append(d, n))
         IN  /\ IsTree(b \cup g)
             /\ \A e \in g : e.path \in Path /\ IsPrefix(Append(d, n), e.path)
             /\ \A c : IsDir(b, c) => IsDir(b \cup g, c)
             /\ Unique(t) /\ Unique(b) /\ ~Exists(b, Append(d, n)) => Unique(b \cup g) /\ b \cap g = {}
<1> DEFINE s == Subtree(t, p)
           q == Append(d, n)
           g == Rebase(s, p, q)
<1>1. s \subseteq Entry /\ IsFiniteSet(s) /\ \A e \in s : e \in t /\ IsPrefix(p, e.path) /\ e.path \in Path
  BY InSubtree, FS_Subset, EntryIs DEF IsTree, Subtree
<1>2. g = {At(e, p, q) : e \in s}
  BY <1>1, RebaseIs
<1>3. q \in Path /\ q # <<>> /\ \A u \in Path : IsPrefix(u, q) => u = q \/ IsPrefix(u, d)
  BY PathAppend
<1> HIDE DEF s, q, g
<1>4. IsFiniteSet(g)
  <2> DEFINE f == [e \in s |-> At(e, p, q)]
  <2>1. f \in Surjection(s, g)
    BY <1>2 DEF Surjection
  <2> QED
    BY <1>1, <2>1, FS_Surjection
<1>5. ASSUME NEW e \in s
      PROVE  /\ At(e, p, q) \in Entry /\ At(e, p, q).path = Shifted(e.path, p, q)
             /\ At(e, p, q).id = e.id
             /\ Shifted(e.path, p, q) \in Path /\ IsPrefix(q, Shifted(e.path, p, q))
  <2>1. Shifted(e.path, p, q) \in Path /\ IsPrefix(q, Shifted(e.path, p, q))
    BY <1>1, <1>3, PathShifted
  <2>2. Shifted(e.path, p, q) # <<>>
    BY <1>3, <2>1, PathOrder
  <2>3. e.id \in Ids
    BY <1>1, EntryIs
  <2> QED
    BY <2>1, <2>2, <2>3, EntryMade DEF At
<1>6. \A e \in g : e \in Entry /\ e.path \in Path /\ IsPrefix(q, e.path)
  BY <1>2, <1>5
<1>7. \A c : IsDir(b, c) => IsDir(b \cup g, c)
  BY DEF IsDir
<1>8. Rooted(b \cup g)
  <2>1. ASSUME NEW e \in b, NEW u \in Path, IsStrictPrefix(u, e.path)
        PROVE  IsDir(b \cup g, u)
    BY <1>7, <2>1 DEF IsTree, Rooted
  <2>2. ASSUME NEW e \in s, NEW u \in Path, IsStrictPrefix(u, At(e, p, q).path)
        PROVE  IsDir(b \cup g, u)
    <3>1. IsPrefix(u, Shifted(e.path, p, q)) /\ u # Shifted(e.path, p, q)
      BY <1>5, <2>2 DEF IsStrictPrefix
    <3>2. CASE IsPrefix(u, d)
      BY <1>7, <3>2, AboveDir
    <3>3. ASSUME NEW v \in Path, IsPrefix(p, v), IsPrefix(v, e.path), u = Shifted(v, p, q)
          PROVE  IsDir(b \cup g, u)
      <4>1. IsStrictPrefix(v, e.path)
        BY <3>1, <3>3 DEF IsStrictPrefix
      <4>2. IsDir(t, v) /\ v # <<>>
        <5>1. IsDir(t, v)
          BY <1>1, <4>1 DEF IsTree, Rooted
        <5>2. v # <<>>
          BY <3>3, PathOrder, RootPath
        <5> QED
          BY <5>1, <5>2
      <4>3. PICK f \in t : f.path = v /\ f.id = "dir"
        BY <4>2 DEF IsDir
      <4>4. f \in s
        BY <3>3, <4>3, InSubtree DEF s
      <4>5. At(f, p, q) \in g /\ At(f, p, q).path = u /\ At(f, p, q).id = "dir"
        BY <1>2, <1>5, <3>3, <4>3, <4>4
      <4> QED
        BY <4>5 DEF IsDir
    <3>4. CASE u = q
      <4>1. IsPrefix(p, p) /\ IsPrefix(p, e.path) /\ q = Shifted(p, p, q)
        BY <1>1, <1>3, PathOrder, PathShifted
      <4> QED
        BY <3>3, <3>4, <4>1
    <3>5. CASE ~IsPrefix(u, q)
      <4>1. \E v \in Path : IsPrefix(p, v) /\ IsPrefix(v, e.path) /\ u = Shifted(v, p, q)
        BY <1>1, <1>3, <3>1, <3>5, PathPrefix
      <4> QED
        BY <3>3, <4>1
    <3> QED
      BY <1>3, <3>2, <3>4, <3>5
  <2> QED
    BY <1>2, <2>1, <2>2 DEF Rooted
<1>9. IsTree(b \cup g)
  BY <1>4, <1>6, <1>8, FS_Union DEF IsTree
<1>10. ASSUME Unique(t), Unique(b), ~Exists(b, q)
       PROVE  Unique(b \cup g) /\ b \cap g = {}
  <2>1. \A e \in b, f \in g : e.path # f.path
    BY <1>3, <1>6, <1>10, NothingBelow
  <2>2. ASSUME NEW e \in s, NEW f \in s, At(e, p, q).path = At(f, p, q).path
        PROVE  At(e, p, q) = At(f, p, q)
    <3>1. e.path = f.path
      BY <1>1, <1>3, <1>5, <2>2, PathInjective
    <3> QED
      BY <1>1, <1>10, <3>1 DEF Unique
  <2>3. Unique(g)
    BY <1>2, <2>2 DEF Unique
  <2> QED
    BY <1>10, <2>1, <2>3 DEF Unique
<1> QED
  BY <1>6, <1>7, <1>9, <1>10 DEF q, g, s

-----------------------------------------------------------------------------
(* Folds over batches of one and of two entries *)

LEMMA MaxOne == Max({1}) = 1
BY DEF Max
LEMMA MaxTwo == Max({2}) = 2 /\ Max({1, 2}) = 2
BY DEF Max

LEMMA PastedOne ==
  ASSUME NEW t, NEW s, NEW b, NEW d, NEW ns, DOMAIN ns = {1}
  PROVE  Pasted(t, s, b, d, ns) = PasteOne(t, s, b, d, ns[1])
<1> DEFINE F(f) == [u \in SUBSET DOMAIN ns |->
                      IF u = {} THEN b ELSE PasteOne(t, s, f[u \ {Max(u)}], d, ns[Max(u)])]
           it == CHOOSE f : f = F(f)
           g == [u \in SUBSET DOMAIN ns |-> IF u = {} THEN b ELSE PasteOne(t, s, b, d, ns[1])]
<1>1. Pasted(t, s, b, d, ns) = it[DOMAIN ns]
  BY DEF Pasted, FoldLeft, MapThenFoldSet
<1>2. g = F(g)
  BY MaxOne
<1>3. it = F(it)
  BY <1>2
<1> HIDE DEF it
<1>4. it[{}] = b
  BY <1>3
<1>5. it[{1}] = PasteOne(t, s, it[{1} \ {Max({1})}], d, ns[Max({1})])
  BY <1>3
<1> QED
  BY <1>1, <1>4, <1>5, MaxOne

LEMMA PastedTwo ==
  ASSUME NEW t, NEW s, NEW b, NEW d, NEW ns, DOMAIN ns = {1, 2}
  PROVE  Pasted(t, s, b, d, ns) = PasteOne(t, s, PasteOne(t, s, b, d, ns[1]), d, ns[2])
<1> DEFINE F(f) == [u \in SUBSET DOMAIN ns |->
                      IF u = {} THEN b ELSE PasteOne(t, s, f[u \ {Max(u)}], d, ns[Max(u)])]
           it == CHOOSE f : f = F(f)
           One(n) == PasteOne(t, s, b, d, ns[n])
           g == [u \in SUBSET DOMAIN ns |->
                   CASE u = {} -> b
                     [] u = {1} -> One(1)
                     [] u = {2} -> One(2)
                     [] OTHER -> PasteOne(t, s, One(1), d, ns[2])]
<1>1. Pasted(t, s, b, d, ns) = it[DOMAIN ns]
  BY DEF Pasted, FoldLeft, MapThenFoldSet
<1>2. g = F(g)
  <2>1. ASSUME NEW u \in SUBSET DOMAIN ns
        PROVE  g[u] = IF u = {} THEN b ELSE PasteOne(t, s, g[u \ {Max(u)}], d, ns[Max(u)])
    <3>1. u = {} \/ u = {1} \/ u = {2} \/ u = {1, 2}
      OBVIOUS
    <3>2. g[{}] = b /\ g[{1}] = One(1) /\ g[{2}] = One(2)
          /\ g[{1, 2}] = PasteOne(t, s, One(1), d, ns[2])
      <4>1. {1} # {} /\ {2} # {} /\ {1, 2} # {} /\ {1} # {2} /\ {1, 2} # {1} /\ {1, 2} # {2}
        OBVIOUS
      <4>2. {} \in SUBSET DOMAIN ns /\ {1} \in SUBSET DOMAIN ns /\ {2} \in SUBSET DOMAIN ns
            /\ {1, 2} \in SUBSET DOMAIN ns
        OBVIOUS
      <4> QED
        BY <4>1, <4>2
    <3>3. {1} \ {Max({1})} = {} /\ {2} \ {Max({2})} = {} /\ {1, 2} \ {Max({1, 2})} = {1}
      BY MaxOne, MaxTwo
    <3> HIDE DEF g
    <3> QED
      BY <3>1, <3>2, <3>3, MaxOne, MaxTwo
  <2>2. F(g) = [u \in SUBSET DOMAIN ns |-> g[u]]
    BY <2>1
  <2> QED
    BY <2>2
<1>3. it = F(it)
  BY <1>2
<1> HIDE DEF it
<1>4. it[{}] = b
  BY <1>3
<1>5. it[{1}] = PasteOne(t, s, it[{1} \ {Max({1})}], d, ns[Max({1})])
  BY <1>3
<1>6. it[{1, 2}] = PasteOne(t, s, it[{1, 2} \ {Max({1, 2})}], d, ns[Max({1, 2})])
  BY <1>3
<1> QED
  BY <1>1, <1>4, <1>5, <1>6, MaxOne, MaxTwo
-----------------------------------------------------------------------------
(* Counting files *)

LEMMA CountUnion ==
  ASSUME NEW a, NEW b, IsFiniteSet(a), IsFiniteSet(b), a \cap b = {}
  PROVE  /\ FileCount(a) \in Nat /\ FileCount(b) \in Nat
         /\ FileCount(a \cup b) = FileCount(a) + FileCount(b)
<1> DEFINE F(t) == {e \in t : e.id # "dir"}
<1>1. IsFiniteSet(F(a)) /\ IsFiniteSet(F(b))
  BY FS_Subset
<1>2. F(a \cup b) = F(a) \cup F(b) /\ F(a) \cap F(b) = {}
  OBVIOUS
<1>a. /\ FileCount(a) = Cardinality(F(a)) /\ FileCount(b) = Cardinality(F(b))
      /\ FileCount(a \cup b) = Cardinality(F(a \cup b))
  BY DEF FileCount
<1> HIDE DEF F
<1>3. Cardinality(F(a)) \in Nat /\ Cardinality(F(b)) \in Nat
  BY <1>1, FS_CardinalityType
<1>4. Cardinality(F(a) \cup F(b))
        = Cardinality(F(a)) + Cardinality(F(b)) - Cardinality(F(a) \cap F(b))
  BY <1>1, FS_Union
<1>5. Cardinality(F(a) \cap F(b)) = 0
  BY <1>2, FS_EmptySet
<1>6. Cardinality(F(a \cup b)) = Cardinality(F(a) \cup F(b))
  BY <1>2
<1>7. FileCount(a) \in Nat /\ FileCount(b) \in Nat
  BY <1>3, <1>a
<1>8. FileCount(a \cup b) = FileCount(a) + FileCount(b) - 0
  BY <1>4, <1>5, <1>6, <1>a
<1> QED
  BY <1>7, <1>8

LEMMA CountPruned ==
  ASSUME NEW t, IsFiniteSet(t), NEW p
  PROVE  /\ IsFiniteSet(Subtree(t, p)) /\ IsFiniteSet(Without(t, p))
         /\ FileCount(t) \in Nat /\ FileCount(Subtree(t, p)) \in Nat
         /\ FileCount(Without(t, p)) \in Nat
         /\ FileCount(t) = FileCount(Without(t, p)) + FileCount(Subtree(t, p))
<1> DEFINE w == Without(t, p)
           s == Subtree(t, p)
<1>1. IsFiniteSet(s) /\ IsFiniteSet(w)
  BY FS_Subset DEF Subtree, Without
<1>2. t = w \cup s /\ w \cap s = {}
  BY DEF Subtree, Without
<1> HIDE DEF w, s
<1>3. FileCount(w) \in Nat /\ FileCount(s) \in Nat /\ FileCount(w \cup s) = FileCount(w) + FileCount(s)
  BY <1>1, <1>2, CountUnion
<1>4. FileCount(t) = FileCount(w) + FileCount(s)
  BY <1>2, <1>3
<1>5. FileCount(t) \in Nat
  BY <1>3, <1>4
<1> QED
  BY <1>1, <1>3, <1>4, <1>5 DEF w, s

LEMMA Rebased ==
  ASSUME NEW s, s \subseteq Entry, IsFiniteSet(s), NEW from \in Path, NEW to \in Path,
         \A e \in s : IsPrefix(from, e.path)
  PROVE  /\ IsFiniteSet(Rebase(s, from, to))
         /\ FileCount(Rebase(s, from, to)) = FileCount(s)
         /\ Contents(Rebase(s, from, to)) = Contents(s)
<1> DEFINE g == {At(e, from, to) : e \in s}
           F(t) == {e \in t : e.id # "dir"}
           f == [e \in s |-> At(e, from, to)]
           h == [e \in F(s) |-> At(e, from, to)]
<1>1. Rebase(s, from, to) = g
  BY RebaseIs
<1>2. \A e \in s : At(e, from, to).id = e.id /\ At(e, from, to).path = Shifted(e.path, from, to)
  BY DEF At
<1>3. IsFiniteSet(g)
  <2>1. f \in Surjection(s, g)
    BY DEF Surjection
  <2> QED
    BY <2>1, FS_Surjection
<1>4. h \in Bijection(F(s), F(g))
  <2>1. ASSUME NEW e \in s, NEW c \in s, At(e, from, to) = At(c, from, to)
        PROVE  e = c
    <3>1. e.path \in Path /\ c.path \in Path /\ e.id = c.id
          /\ Shifted(e.path, from, to) = Shifted(c.path, from, to)
      BY <1>2, <2>1, EntryIs
    <3>2. e.path = c.path
      BY <3>1, PathInjective
    <3> QED
      BY <3>1, <3>2, EntryIs
  <2>2. h \in Injection(F(s), F(g))
    BY <1>2, <2>1 DEF Injection, IsInjective
  <2>3. h \in Surjection(F(s), F(g))
    BY <1>2 DEF Surjection
  <2> QED
    BY <2>2, <2>3 DEF Bijection
<1>5. IsFiniteSet(F(s)) /\ Cardinality(F(g)) = Cardinality(F(s))
  BY <1>4, FS_Subset, FS_Bijection DEF ExistsBijection
<1>6. Contents(g) = Contents(s)
  BY <1>2 DEF Contents
<1> QED
  BY <1>1, <1>3, <1>5, <1>6 DEF FileCount

-----------------------------------------------------------------------------
(* Free names *)

LEMMA Suffixed ==
  ASSUME NEW n \in Name, NEW i \in Nat
  PROVE  Append(n, i) \in Name /\ \A j \in Nat : Append(n, i) = Append(n, j) => i = j
BY AppendProperties, AppendInjective DEF Name

(* Of one suffix more than there are entries one is free, and one is the    *)
(* first.                                                                   *)
LEMMA FirstFree ==
  ASSUME NEW t, IsFiniteSet(t), NEW d \in Path, NEW n \in Name
  PROVE  \E i \in 1..(Cardinality(t) + 1) :
           /\ ~Exists(t, Append(d, Append(n, i)))
           /\ \A j \in 1..(i - 1) : Exists(t, Append(d, Append(n, j)))
<1> DEFINE N == 1..(Cardinality(t) + 1)
           taken(i) == Exists(t, Append(d, Append(n, i)))
           free == {i \in N : ~taken(i)}
<1>0. Cardinality(t) \in Nat
  BY FS_CardinalityType
<1>1. free # {}
  <2> SUFFICES ASSUME \A i \in N : taken(i)
               PROVE  FALSE
    OBVIOUS
  <2> DEFINE f == [i \in N |-> CHOOSE e \in t : e.path = Append(d, Append(n, i))]
  <2>1. \A i \in N : f[i] \in t /\ f[i].path = Append(d, Append(n, i))
    BY DEF Exists
  <2>a. DOMAIN f = N
    OBVIOUS
  <2> HIDE DEF f
  <2>2. ASSUME NEW i \in N, NEW j \in N, f[i] = f[j]
        PROVE  i = j
    <3>0. f[i].path = Append(d, Append(n, i)) /\ f[j].path = Append(d, Append(n, j))
      BY <2>1
    <3>a. i \in Nat /\ j \in Nat
      BY <1>0
    <3>1. Append(d, Append(n, i)) = Append(d, Append(n, j)) /\ i \in Nat /\ j \in Nat
      BY <2>2, <3>0, <3>a
    <3>2. Append(n, i) \in Name /\ Append(n, j) \in Name
      BY <3>1, Suffixed
    <3>3. Append(n, i) = Append(n, j)
      BY <3>1, <3>2, AppendInjective DEF Path
    <3> QED
      BY <3>1, <3>3, Suffixed
  <2>3. f \in Injection(N, t)
    <3>1. f \in [N -> t]
      BY <2>1, <2>a DEF f
    <3> QED
      BY <2>2, <3>1 DEF Injection, IsInjective
  <2>4. Cardinality(N) <= Cardinality(t)
    BY <2>3, FS_Injection
  <2>5. Cardinality(N) = Cardinality(t) + 1
    BY <1>0, FS_Interval
  <2> QED
    BY <1>0, <2>4, <2>5
<1> DEFINE less == {ss \in Nat \X Nat : ss[1] < ss[2]}
<1>2. PICK i \in free : \A j \in free : ~(<<j, i>> \in less)
  <2>1. free \subseteq Nat
    BY <1>0
  <2>2. IsWellFoundedOn(less, Nat)
    BY NatLessThanWellFounded DEF OpToRel
  <2> HIDE DEF free, less
  <2> QED
    BY <1>1, <2>1, <2>2, WFMin
<1>3. ASSUME NEW j \in free
      PROVE  ~(j < i)
  <2>1. j \in Nat /\ i \in Nat
    BY <1>0
  <2>2. j < i => <<j, i>> \in less
    BY <2>1
  <2> QED
    BY <1>2, <2>2
<1>4. ASSUME NEW j \in 1..(i - 1)
      PROVE  taken(j)
  BY <1>0, <1>3
<1> QED
  BY <1>4

LEMMA FreeNameIs ==
  ASSUME NEW t, IsFiniteSet(t), NEW d \in Path, NEW n \in Name
  PROVE  /\ FreeName(t, d, n) \in Name
         /\ ~Exists(t, Append(d, FreeName(t, d, n)))
         /\ ~Exists(t, Append(d, n)) => FreeName(t, d, n) = n
<1> DEFINE k == CHOOSE i \in 1..(Cardinality(t) + 1) :
                  /\ ~Exists(t, Append(d, Append(n, i)))
                  /\ \A j \in 1..(i - 1) : Exists(t, Append(d, Append(n, j)))
<1>1. k \in 1..(Cardinality(t) + 1) /\ ~Exists(t, Append(d, Append(n, k)))
  BY FirstFree
<1>2. FreeName(t, d, n) = IF Exists(t, Append(d, n)) THEN Append(n, k) ELSE n
  BY DEF FreeName
<1> HIDE DEF k
<1>3. Append(n, k) \in Name
  BY <1>1, FS_CardinalityType, Suffixed
<1> QED
  BY <1>1, <1>2, <1>3
-----------------------------------------------------------------------------
(* What the calls make of a tree *)

LEMMA SubtreeIs ==
  ASSUME NEW t, IsTree(t), NEW p
  PROVE  /\ Subtree(t, p) \subseteq Entry /\ IsFiniteSet(Subtree(t, p))
         /\ \A e \in Subtree(t, p) : IsPrefix(p, e.path)
BY InSubtree, FS_Subset DEF IsTree, Subtree

(* A graft adds the files of the sub-tree. *)
LEMMA GraftCounts ==
  ASSUME NEW t, IsTree(t), NEW b, IsTree(b), NEW p \in Path, p # <<>>,
         NEW d \in Path, IsDir(b, d), NEW n \in Name
  PROVE  LET g == Rebase(Subtree(t, p), p, Append(d, n))
         IN  /\ Contents(b \cup g) = Contents(b) \cup Contents(Subtree(t, p))
             /\ Unique(t) /\ Unique(b) /\ ~Exists(b, Append(d, n))
                  => FileCount(b \cup g) = FileCount(b) + FileCount(Subtree(t, p))
<1> DEFINE s == Subtree(t, p)
           q == Append(d, n)
           g == Rebase(s, p, q)
<1>1. q \in Path
  BY PathAppend
<1>2. IsFiniteSet(g) /\ FileCount(g) = FileCount(s) /\ Contents(g) = Contents(s)
  BY <1>1, SubtreeIs, Rebased
<1>3. Unique(t) /\ Unique(b) /\ ~Exists(b, q) => b \cap g = {}
  BY Grafted
<1> HIDE DEF s, q, g
<1>4. Contents(b \cup g) = Contents(b) \cup Contents(g)
  BY DEF Contents
<1>5. b \cap g = {} => FileCount(b \cup g) = FileCount(b) + FileCount(g)
  BY <1>2, CountUnion DEF IsTree
<1> QED
  BY <1>2, <1>3, <1>4, <1>5 DEF s, q, g

LEMMA ContentsPruned ==
  ASSUME NEW t, NEW p
  PROVE  Contents(t) = Contents(Without(t, p)) \cup Contents(Subtree(t, p))
BY DEF Contents, Without, Subtree

(* A sub-tree is taken out of the tree and put elsewhere: nothing is lost, and *)
(* where the name is free nothing is hidden.                                   *)
LEMMA Relocated ==
  ASSUME NEW t, IsTree(t), NEW p \in Path, p # <<>>,
         NEW d \in Path, IsDir(Without(t, p), d), NEW n \in Name
  PROVE  LET u == Without(t, p) \cup Rebase(Subtree(t, p), p, Append(d, n))
         IN  /\ IsTree(u) /\ Contents(u) = Contents(t)
             /\ Unique(t) /\ ~Exists(Without(t, p), Append(d, n))
                  => Unique(u) /\ FileCount(u) = FileCount(t)
<1> DEFINE b == Without(t, p)
           g == Rebase(Subtree(t, p), p, Append(d, n))
<1>1. IsTree(b) /\ (Unique(t) => Unique(b))
  BY Pruned
<1>2. IsDir(b, d)
  OBVIOUS
<1>3. FileCount(t) = FileCount(b) + FileCount(Subtree(t, p))
  BY CountPruned DEF IsTree
<1>4. Contents(t) = Contents(b) \cup Contents(Subtree(t, p))
  BY ContentsPruned
<1> HIDE DEF b
<1>5. IsTree(b \cup g) /\ (Unique(t) /\ Unique(b) /\ ~Exists(b, Append(d, n)) => Unique(b \cup g))
  BY <1>1, <1>2, Grafted
<1>6. /\ Contents(b \cup g) = Contents(b) \cup Contents(Subtree(t, p))
      /\ Unique(t) /\ Unique(b) /\ ~Exists(b, Append(d, n))
           => FileCount(b \cup g) = FileCount(b) + FileCount(Subtree(t, p))
  BY <1>1, <1>2, GraftCounts
<1> HIDE DEF g
<1> QED
  BY <1>1, <1>3, <1>4, <1>5, <1>6 DEF b, g

LEMMA ParentStays ==
  ASSUME NEW t, IsTree(t), NEW p \in Path, p # <<>>, Exists(t, p)
  PROVE  IsDir(t, Front(p)) /\ IsDir(Without(t, p), Front(p))
<1>1. /\ Front(p) \in Path /\ Last(p) \in Name /\ p = Append(Front(p), Last(p))
  BY PathEnds
<1>2. IsPrefix(Front(p), p) /\ Front(p) # p /\ ~IsPrefix(p, Front(p))
  <2>1. \A f \in Path, l \in Name :
          ~IsPrefix(Append(f, l), f) /\ (IsPrefix(f, Append(f, l)) <=> f = Append(f, l) \/ IsPrefix(f, f))
    BY PathAppend
  <2>2. IsPrefix(Front(p), Front(p))
    BY <1>1, PathOrder
  <2>3. ~IsPrefix(p, Front(p)) /\ (IsPrefix(Front(p), p) <=> Front(p) = p \/ IsPrefix(Front(p), Front(p)))
    BY <1>1, <2>1
  <2> QED
    BY <2>2, <2>3
<1>3. IsDir(t, Front(p))
  BY <1>1, <1>2 DEF Exists, IsTree, Rooted, IsStrictPrefix
<1> QED
  BY <1>1, <1>2, <1>3, Pruned

(* rename_entry *)
LEMMA RenamedTree ==
  ASSUME NEW t, IsTree(t), NEW p \in Path, p # <<>>, NEW n \in Name, NEW u \in Renamed(t, p, n)
  PROVE  /\ IsTree(u) /\ Contents(u) = Contents(t) /\ Exists(t, p)
         /\ u = Without(t, p) \cup Rebase(Subtree(t, p), p, Append(Front(p), n))
         /\ Unique(t) /\ ~Exists(t, Append(Front(p), n))
              => Unique(u) /\ FileCount(u) = FileCount(t)
<1>1. Exists(t, p) /\ u = Without(t, p) \cup Rebase(Subtree(t, p), p, Append(Front(p), n))
  BY DEF Renamed
<1>2. Front(p) \in Path /\ IsDir(Without(t, p), Front(p))
  BY <1>1, PathEnds, ParentStays
<1>3. ~Exists(t, Append(Front(p), n)) => ~Exists(Without(t, p), Append(Front(p), n))
  BY DEF Exists, Without
<1> QED
  BY <1>1, <1>2, <1>3, Relocated

(* move_entry *)
LEMMA MovedTree ==
  ASSUME NEW t, IsTree(t), NEW p \in Path, p # <<>>, NEW d \in Path, NEW u \in Moved(t, p, d)
  PROVE  /\ IsTree(u) /\ Exists(t, p)
         /\ ~Exists(Without(t, p), Append(d, Last(p))) =>
              /\ u = Without(t, p) \cup Rebase(Subtree(t, p), p, Append(d, Last(p)))
              /\ Contents(u) = Contents(t)
              /\ Unique(t) => Unique(u) /\ FileCount(u) = FileCount(t)
<1> DEFINE rest == Without(t, p)
           q == Append(d, Last(p))
           g == Rebase(Subtree(t, p), p, q)
           new == IF Exists(rest, q) THEN {} ELSE g
<1>1. Exists(t, p) /\ IsDir(rest, d) /\ u = AddTo(rest, rest, d, new)
  BY DEF Moved
<1>2. u = rest \cup new
  BY <1>1 DEF AddTo
<1>3. IsTree(rest)
  BY Pruned
<1>4. Last(p) \in Name
  BY PathEnds
<1>5. /\ IsTree(rest \cup g) /\ Contents(rest \cup g) = Contents(t)
      /\ Unique(t) /\ ~Exists(rest, q) => Unique(rest \cup g) /\ FileCount(rest \cup g) = FileCount(t)
  BY <1>1, <1>4, Relocated
<1> HIDE DEF rest, g, q
<1>6. CASE Exists(rest, q)
  BY <1>1, <1>2, <1>3, <1>6 DEF rest, g, q
<1>7. CASE ~Exists(rest, q)
  BY <1>1, <1>2, <1>5, <1>7 DEF rest, g, q
<1> QED
  BY <1>6, <1>7

LEMMA PastedTree ==
  ASSUME NEW t, IsTree(t), NEW acc, IsTree(acc), NEW s \in Path, NEW d \in Path, IsDir(acc, d),
         NEW n, n[1] \in Name, n[2] \in Name
  PROVE  LET u == PasteOne(t, s, acc, d, n)
             p == Append(s, n[1])
         IN  /\ IsTree(u) /\ IsDir(u, d) /\ Contents(u) = Contents(acc) \cup Contents(Subtree(t, p))
             /\ Unique(t) /\ Unique(acc)
                  => Unique(u) /\ FileCount(u) = FileCount(acc) + FileCount(Subtree(t, p))
             /\ ~Exists(acc, Append(d, n[2])) => u = acc \cup Rebase(Subtree(t, p), p, Append(d, n[2]))
<1> DEFINE p == Append(s, n[1])
           m == FreeName(acc, d, n[2])
           g == Rebase(Subtree(t, p), p, Append(d, m))
           u == PasteOne(t, s, acc, d, n)
<1>1. p \in Path /\ p # <<>>
  BY PathAppend
<1>2. /\ m \in Name /\ ~Exists(acc, Append(d, m))
      /\ ~Exists(acc, Append(d, n[2])) => m = n[2]
  BY FreeNameIs DEF IsTree
<1>3. u = acc \cup g
  BY DEF PasteOne
<1> HIDE DEF p, m, u
<1>4. /\ IsTree(acc \cup g) /\ IsDir(acc \cup g, d)
      /\ Unique(t) /\ Unique(acc) /\ ~Exists(acc, Append(d, m)) => Unique(acc \cup g)
  BY <1>1, <1>2, Grafted
<1>5. /\ Contents(acc \cup g) = Contents(acc) \cup Contents(Subtree(t, p))
      /\ Unique(t) /\ Unique(acc) /\ ~Exists(acc, Append(d, m))
           => FileCount(acc \cup g) = FileCount(acc) + FileCount(Subtree(t, p))
  BY <1>1, <1>2, GraftCounts
<1>6. ~Exists(acc, Append(d, n[2])) => g = Rebase(Subtree(t, p), p, Append(d, n[2]))
  BY <1>2
<1> HIDE DEF g
<1> QED
  BY <1>2, <1>3, <1>4, <1>5, <1>6 DEF u, p

(* Batches hold one or two entries of the directory. *)
LEMMA BatchIs ==
  ASSUME NEW t, IsTree(t), NEW s \in Path, NEW ns \in Batches(t, s)
  PROVE  /\ DOMAIN ns = {1} \/ (DOMAIN ns = {1, 2} /\ ns[1] # ns[2])
         /\ \A i \in DOMAIN ns : ns[i] \in Name
<1> DEFINE here == {Last(p) : p \in {q \in Paths(t) : Front(q) = s}}
<1>1. here \subseteq Name
  <2>1. \A p \in Paths(t) : p \in Path /\ p # <<>>
    BY EntryIs DEF Paths, IsTree
  <2> QED
    BY <2>1, PathEnds
<1>2. ns \in {<<n>> : n \in here} \cup {p \in here \X here : p[1] # p[2]}
  BY DEF Batches
<1> HIDE DEF here
<1>3. CASE ns \in {<<n>> : n \in here}
  <2>1. PICK n \in here : ns = <<n>>
    BY <1>3
  <2>2. DOMAIN ns = {1} /\ ns[1] = n
    BY <2>1
  <2>3. \A i \in DOMAIN ns : ns[i] \in Name
    BY <1>1, <2>2
  <2> QED
    BY <2>2, <2>3
<1>4. CASE ns \in {p \in here \X here : p[1] # p[2]}
  <2>1. PICK n \in here, m \in here : ns = <<n, m>>
    BY <1>4
  <2>2. DOMAIN ns = {1, 2} /\ ns[1] = n /\ ns[2] = m
    BY <2>1
  <2>3. \A i \in DOMAIN ns : ns[i] \in Name
    BY <1>1, <2>2
  <2>4. ns[1] # ns[2]
    BY <1>4
  <2> QED
    BY <2>2, <2>3, <2>4
<1> QED
  BY <1>2, <1>3, <1>4

(* What is left when a batch is taken out. *)
Rest(t, s, ns) == {e \in t : \A i \in DOMAIN ns : ~IsPrefix(Append(s, ns[i]), e.path)}

LEMMA RestOne ==
  ASSUME NEW t, NEW s, NEW ns, DOMAIN ns = {1}
  PROVE  Rest(t, s, ns) = Without(t, Append(s, ns[1]))
BY DEF Rest, Without, Subtree

LEMMA RestTwo ==
  ASSUME NEW t, IsTree(t), NEW s \in Path, NEW ns, DOMAIN ns = {1, 2},
         ns[1] \in Name, ns[2] \in Name, ns[1] # ns[2]
  PROVE  LET p == Append(s, ns[1])
             q == Append(s, ns[2])
         IN  /\ Rest(t, s, ns) = Without(Without(t, p), q)
             /\ Subtree(Without(t, p), q) = Subtree(t, q)
<1> DEFINE p == Append(s, ns[1])
           q == Append(s, ns[2])
<1>1. \A e \in t : ~(IsPrefix(p, e.path) /\ IsPrefix(q, e.path))
  BY Siblings, EntryIs DEF IsTree
<1>2. Rest(t, s, ns) = {e \in t : ~IsPrefix(p, e.path) /\ ~IsPrefix(q, e.path)}
  BY DEF Rest
<1> HIDE DEF p, q
<1>3. Rest(t, s, ns) = Without(Without(t, p), q) /\ Subtree(Without(t, p), q) = Subtree(t, q)
  BY <1>1, <1>2 DEF Without, Subtree
<1> QED
  BY <1>3 DEF p, q

(* A batch is taken out of a tree: it stays a tree, and the files that are  *)
(* gone are those of the entries.                                           *)
LEMMA BatchPruned ==
  ASSUME NEW t, IsTree(t), NEW s \in Path, NEW ns \in Batches(t, s)
  PROVE  IsTree(Rest(t, s, ns)) /\ (Unique(t) => Unique(Rest(t, s, ns)))
<1>1. CASE DOMAIN ns = {1}
  <2>1. Append(s, ns[1]) \in Path /\ Append(s, ns[1]) # <<>>
    BY <1>1, BatchIs, PathAppend
  <2> QED
    BY <1>1, <2>1, RestOne, Pruned
<1>2. CASE DOMAIN ns = {1, 2} /\ ns[1] # ns[2]
  <2> DEFINE p == Append(s, ns[1])
             q == Append(s, ns[2])
  <2>1. ns[1] \in Name /\ ns[2] \in Name
    BY <1>2, BatchIs
  <2>2. p \in Path /\ p # <<>> /\ q \in Path /\ q # <<>>
    BY <2>1, PathAppend
  <2>3. Rest(t, s, ns) = Without(Without(t, p), q)
    BY <1>2, <2>1, RestTwo
  <2> HIDE DEF p, q
  <2>4. IsTree(Without(t, p)) /\ (Unique(t) => Unique(Without(t, p)))
    BY <2>2, Pruned
  <2>5. /\ IsTree(Without(Without(t, p), q))
        /\ Unique(Without(t, p)) => Unique(Without(Without(t, p), q))
    BY <2>2, <2>4, Pruned
  <2> QED
    BY <2>3, <2>4, <2>5
<1> QED
  BY <1>1, <1>2, BatchIs

(* batch_move *)
LEMMA BatchMovedTree ==
  ASSUME NEW t, IsTree(t), NEW s \in Path, NEW d \in Path, NEW ns \in Batches(t, s),
         NEW u \in BatchMoved(t, s, d, ns)
  PROVE  /\ IsTree(u) /\ Contents(u) = Contents(t)
         /\ Unique(t) => Unique(u) /\ FileCount(u) = FileCount(t)
<1> DEFINE rest == Rest(t, s, ns)
           ms == [i \in DOMAIN ns |-> <<ns[i], ns[i]>>]
<1>1. IsDir(rest, d) /\ u = Pasted(t, s, rest, d, ms)
  BY DEF BatchMoved, Rest
<1>2. IsTree(rest) /\ (Unique(t) => Unique(rest))
  BY BatchPruned
<1>3. DOMAIN ms = DOMAIN ns /\ \A i \in DOMAIN ns : ms[i][1] = ns[i] /\ ms[i][2] = ns[i]
  OBVIOUS
<1> HIDE DEF ms
<1>4. CASE DOMAIN ns = {1}
  <2> DEFINE p == Append(s, ns[1])
  <2>1. u = PasteOne(t, s, rest, d, ms[1])
    BY <1>1, <1>3, <1>4, PastedOne
  <2>2. ms[1][1] = ns[1] /\ ms[1][1] \in Name /\ ms[1][2] \in Name
    BY <1>3, <1>4, BatchIs
  <2>3. rest = Without(t, p)
    BY <1>4, RestOne
  <2> HIDE DEF rest
  <2>4. /\ IsTree(u) /\ Contents(u) = Contents(rest) \cup Contents(Subtree(t, p))
        /\ Unique(t) /\ Unique(rest) => Unique(u) /\ FileCount(u) = FileCount(rest) + FileCount(Subtree(t, p))
    BY <1>1, <1>2, <2>1, <2>2, PastedTree
  <2> HIDE DEF p
  <2>5. Contents(t) = Contents(rest) \cup Contents(Subtree(t, p))
    BY <2>3, ContentsPruned
  <2>6. FileCount(t) = FileCount(rest) + FileCount(Subtree(t, p))
    BY <2>3, CountPruned DEF IsTree
  <2> QED
    BY <1>2, <2>4, <2>5, <2>6
<1>5. CASE DOMAIN ns = {1, 2} /\ ns[1] # ns[2]
  <2> DEFINE p == Append(s, ns[1])
             q == Append(s, ns[2])
             v == PasteOne(t, s, rest, d, ms[1])
             w == Without(t, p)
  <2>1. u = PasteOne(t, s, v, d, ms[2])
    BY <1>1, <1>3, <1>5, PastedTwo
  <2>2. /\ ms[1][1] = ns[1] /\ ms[1][1] \in Name /\ ms[1][2] \in Name
        /\ ms[2][1] = ns[2] /\ ms[2][1] \in Name /\ ms[2][2] \in Name
    BY <1>3, <1>5, BatchIs
  <2>3. rest = Without(w, q) /\ Subtree(w, q) = Subtree(t, q)
    BY <1>5, <2>2, RestTwo
  <2> HIDE DEF rest
  <2>4. /\ IsTree(v) /\ IsDir(v, d) /\ Contents(v) = Contents(rest) \cup Contents(Subtree(t, p))
        /\ Unique(t) /\ Unique(rest) => Unique(v) /\ FileCount(v) = FileCount(rest) + FileCount(Subtree(t, p))
    BY <1>1, <1>2, <2>2, PastedTree
  <2> HIDE DEF v
  <2>5. /\ IsTree(u) /\ Contents(u) = Contents(v) \cup Contents(Subtree(t, q))
        /\ Unique(t) /\ Unique(v) => Unique(u) /\ FileCount(u) = FileCount(v) + FileCount(Subtree(t, q))
    <3> DEFINE n == ms[2]
    <3>1. u = PasteOne(t, s, v, d, n) /\ n[1] \in Name /\ n[2] \in Name /\ q = Append(s, n[1])
      BY <2>1, <2>2
    <3> HIDE DEF n, q
    <3> QED
      BY <2>4, <3>1, PastedTree
  <2>6. p \in Path /\ p # <<>>
    BY <2>2, PathAppend
  <2> HIDE DEF p, q
  <2>7. IsFiniteSet(w)
    BY <2>6, Pruned DEF IsTree
  <2>8. /\ Contents(t) = Contents(w) \cup Contents(Subtree(t, p))
        /\ Contents(w) = Contents(rest) \cup Contents(Subtree(t, q))
    BY <2>3, ContentsPruned
  <2>9. /\ FileCount(t) = FileCount(w) + FileCount(Subtree(t, p)) /\ FileCount(Subtree(t, p)) \in Nat
        /\ FileCount(w) = FileCount(rest) + FileCount(Subtree(w, q))
        /\ FileCount(rest) \in Nat /\ FileCount(Subtree(w, q)) \in Nat
    BY <2>3, <2>7, CountPruned DEF IsTree
  <2> HIDE DEF w
  <2>10. Contents(u) = Contents(t)
    BY <2>4, <2>5, <2>8
  <2>11. ASSUME Unique(t)
         PROVE  Unique(u) /\ FileCount(u) = FileCount(t)
    BY <1>2, <2>3, <2>4, <2>5, <2>9, <2>11
  <2> QED
    BY <2>5, <2>10, <2>11
<1> QED
  BY <1>4, <1>5, BatchIs

(* A file is all there is at and below its path. *)
LEMMA OneFileCounts ==
  ASSUME NEW t, IsTree(t), Unique(t), NEW p \in Path, p # <<>>, Exists(t, p), ~IsDir(t, p)
  PROVE  FileCount(Subtree(t, p)) = 1
<1>1. PICK e \in t : e.path = p
  BY DEF Exists
<1>2. \A f \in Subtree(t, p) : f = e
  <2>1. ASSUME NEW f \in t, IsPrefix(p, f.path), f.path # p
        PROVE  FALSE
    BY <2>1 DEF IsTree, Rooted, IsStrictPrefix
  <2> QED
    BY <1>1, <2>1, InSubtree DEF Unique
<1>3. e \in Subtree(t, p) /\ e.id # "dir"
  BY <1>1, InSubtree, PathOrder DEF IsDir
<1>4. {f \in Subtree(t, p) : f.id # "dir"} = {e}
  BY <1>2, <1>3
<1> QED
  BY <1>4, FS_Singleton DEF FileCount

IsBatch(ns) ==
  /\ DOMAIN ns = {1} \/ (DOMAIN ns = {1, 2} /\ ns[1] # ns[2])
  /\ \A i \in DOMAIN ns : ns[i] \in Name

(* The files among the entries of a batch *)
LEMMA CopySizeIs ==
  ASSUME NEW t, NEW s, NEW ns, IsBatch(ns)
  PROVE  /\ CopySize(t, s, ns) \in Nat
         /\ (\A i \in DOMAIN ns : ~IsDir(t, Append(s, ns[i])))
              => CopySize(t, s, ns) = IF DOMAIN ns = {1} THEN 1 ELSE 2
<1> DEFINE F == {i \in DOMAIN ns : ~IsDir(t, Append(s, ns[i]))}
<1>1. IsFiniteSet({1}) /\ Cardinality({1}) = 1
  BY FS_Singleton
<1>2. IsFiniteSet({1, 2}) /\ Cardinality({1, 2}) = 2
  <2>1. IsFiniteSet({1} \cup {2}) /\ Cardinality({1} \cup {2}) = Cardinality({1}) + 1
    BY <1>1, FS_AddElement
  <2>2. {1} \cup {2} = {1, 2}
    OBVIOUS
  <2> QED
    BY <1>1, <2>1, <2>2
<1>3. IsFiniteSet(DOMAIN ns) /\ F \subseteq DOMAIN ns
  BY <1>1, <1>2 DEF IsBatch
<1>4. Cardinality(F) \in Nat
  BY <1>3, FS_Subset, FS_CardinalityType
<1>5. ASSUME \A i \in DOMAIN ns : ~IsDir(t, Append(s, ns[i]))
      PROVE  F = DOMAIN ns
  BY <1>5
<1> HIDE DEF F
<1>6. (\A i \in DOMAIN ns : ~IsDir(t, Append(s, ns[i])))
        => Cardinality(F) = IF DOMAIN ns = {1} THEN 1 ELSE 2
  <2>1. DOMAIN ns = {1} \/ DOMAIN ns = {1, 2}
    BY DEF IsBatch
  <2>2. 2 \notin {1} /\ 2 \in {1, 2}
    OBVIOUS
  <2> QED
    BY <1>1, <1>2, <1>5, <2>1, <2>2
<1> QED
  BY <1>4, <1>6 DEF CopySize, F

(* batch_copy: nothing goes, and the files are as many more as were asked    *)
(* for.                                                                      *)
LEMMA CopiedTree ==
  ASSUME NEW t, IsTree(t), NEW s \in Path, NEW d \in Path, NEW ns, IsBatch(ns),
         NEW u \in Copied(t, s, d, ns)
  PROVE  /\ IsTree(u) /\ Contents(t) \subseteq Contents(u)
         /\ Unique(t) => Unique(u)
         /\ Unique(t) /\ (\A i \in DOMAIN ns : ~IsDir(t, Append(s, ns[i])))
              => FileCount(u) = FileCount(t) + CopySize(t, s, ns)
<1> DEFINE ms == [i \in DOMAIN ns |-> <<ns[i], FreeName(t, d, ns[i])>>]
           files == \A i \in DOMAIN ns : ~IsDir(t, Append(s, ns[i]))
<1>1. IsDir(t, d) /\ Selected(t, s, ns) /\ u = Pasted(t, s, t, d, ms)
  BY DEF Copied
<1>2. \A i \in DOMAIN ns : FreeName(t, d, ns[i]) \in Name
  BY FreeNameIs DEF IsTree, IsBatch
<1>3. /\ DOMAIN ms = DOMAIN ns
      /\ \A i \in DOMAIN ns : ms[i][1] = ns[i] /\ ms[i][1] \in Name /\ ms[i][2] \in Name
  BY <1>2 DEF IsBatch
<1> HIDE DEF ms
<1>4. FileCount(t) \in Nat
  BY CountPruned DEF IsTree
<1>5. ASSUME NEW i \in DOMAIN ns, files, Unique(t)
      PROVE  FileCount(Subtree(t, Append(s, ns[i]))) = 1
  <2>1. Append(s, ns[i]) \in Path /\ Append(s, ns[i]) # <<>>
    BY PathAppend DEF IsBatch
  <2>2. Exists(t, Append(s, ns[i])) /\ ~IsDir(t, Append(s, ns[i]))
    BY <1>1, <1>5 DEF Selected
  <2> QED
    BY <1>5, <2>1, <2>2, OneFileCounts
<1>6. files => CopySize(t, s, ns) = IF DOMAIN ns = {1} THEN 1 ELSE 2
  BY CopySizeIs
<1> HIDE DEF files
<1>7. CASE DOMAIN ns = {1}
  <2> DEFINE n == ms[1]
             p == Append(s, n[1])
  <2>1. u = PasteOne(t, s, t, d, n)
    BY <1>1, <1>3, <1>7, PastedOne
  <2>2. n[1] = ns[1] /\ n[1] \in Name /\ n[2] \in Name
    BY <1>3, <1>7
  <2> HIDE DEF n
  <2>3. /\ IsTree(u) /\ Contents(u) = Contents(t) \cup Contents(Subtree(t, p))
        /\ Unique(t) => Unique(u) /\ FileCount(u) = FileCount(t) + FileCount(Subtree(t, p))
    BY <1>1, <2>1, <2>2, PastedTree
  <2>4. files /\ Unique(t) => FileCount(Subtree(t, p)) = 1
    BY <1>5, <1>7, <2>2
  <2> HIDE DEF p
  <2>5. files /\ Unique(t) => FileCount(u) = FileCount(t) + CopySize(t, s, ns)
    BY <1>6, <1>7, <2>3, <2>4
  <2> QED
    BY <2>3, <2>5 DEF files
<1>8. CASE DOMAIN ns = {1, 2} /\ ns[1] # ns[2]
  <2> DEFINE n == ms[1]
             m == ms[2]
             p == Append(s, n[1])
             q == Append(s, m[1])
             v == PasteOne(t, s, t, d, n)
  <2>1. u = PasteOne(t, s, v, d, m)
    BY <1>1, <1>3, <1>8, PastedTwo
  <2>2. /\ n[1] = ns[1] /\ n[1] \in Name /\ n[2] \in Name
        /\ m[1] = ns[2] /\ m[1] \in Name /\ m[2] \in Name
    BY <1>3, <1>8
  <2> HIDE DEF n, m
  <2>3. /\ IsTree(v) /\ IsDir(v, d) /\ Contents(v) = Contents(t) \cup Contents(Subtree(t, p))
        /\ Unique(t) => Unique(v) /\ FileCount(v) = FileCount(t) + FileCount(Subtree(t, p))
    BY <1>1, <2>2, PastedTree
  <2> HIDE DEF v
  <2>4. /\ IsTree(u) /\ Contents(u) = Contents(v) \cup Contents(Subtree(t, q))
        /\ Unique(t) /\ Unique(v) => Unique(u) /\ FileCount(u) = FileCount(v) + FileCount(Subtree(t, q))
    BY <2>1, <2>2, <2>3, PastedTree
  <2>5. files /\ Unique(t) => FileCount(Subtree(t, p)) = 1 /\ FileCount(Subtree(t, q)) = 1
    BY <1>5, <1>8, <2>2
  <2> HIDE DEF p, q
  <2>6. files => CopySize(t, s, ns) = 2
    <3>1. 2 \notin {1} /\ 2 \in {1, 2}
      OBVIOUS
    <3> QED
      BY <1>6, <1>8, <3>1
  <2>7. files /\ Unique(t) => FileCount(u) = FileCount(t) + CopySize(t, s, ns)
    BY <1>4, <2>3, <2>4, <2>5, <2>6
  <2> QED
    BY <2>3, <2>4, <2>7 DEF files
<1> QED
  BY <1>7, <1>8 DEF IsBatch

(* A COPY of one entry under its own name, where that is free *)
LEMMA CopiedOne ==
  ASSUME NEW t, IsTree(t), NEW s \in Path, NEW d \in Path, NEW n \in Name,
         NEW u \in Copied(t, s, d, <<n>>)
  PROVE  LET p == Append(s, n)
         IN  /\ Exists(t, p) /\ (IsDir(t, p) => ~IsPrefix(p, d)) /\ IsDir(t, d)
             /\ ~Exists(t, Append(d, n)) => u = t \cup Rebase(Subtree(t, p), p, Append(d, n))
<1> DEFINE ns == <<n>>
           ms == [i \in DOMAIN ns |-> <<ns[i], FreeName(t, d, ns[i])>>]
           p == Append(s, n)
           m == ms[1]
<1>1. DOMAIN ns = {1} /\ ns[1] = n
  OBVIOUS
<1>2. /\ IsDir(t, d) /\ Selected(t, s, ns) /\ NoneInto(t, s, d, ns)
      /\ u = Pasted(t, s, t, d, ms)
  BY DEF Copied
<1> HIDE DEF ns
<1>3. DOMAIN ms = {1} /\ m[1] = n /\ m[2] = FreeName(t, d, n)
  BY <1>1
<1> HIDE DEF ms
<1>4. u = PasteOne(t, s, t, d, m)
  BY <1>2, <1>3, PastedOne
<1>5. Exists(t, p) /\ (IsDir(t, p) => ~IsPrefix(p, d))
  BY <1>1, <1>2 DEF Selected, NoneInto, IsSelfOrSubpath
<1>6. m[2] \in Name /\ (~Exists(t, Append(d, n)) => m[2] = n)
  BY <1>3, FreeNameIs DEF IsTree
<1> HIDE DEF m
<1>7. ~Exists(t, Append(d, m[2])) => u = t \cup Rebase(Subtree(t, Append(s, m[1])), Append(s, m[1]), Append(d, m[2]))
  BY <1>2, <1>3, <1>4, <1>6, PastedTree
<1>8. ~Exists(t, Append(d, n)) => u = t \cup Rebase(Subtree(t, p), p, Append(d, n))
  BY <1>3, <1>6, <1>7
<1> QED
  BY <1>2, <1>5, <1>8

(* batch_delete *)
Gone(t, s, ns) == {e \in t : \E i \in DOMAIN ns : IsPrefix(Append(s, ns[i]), e.path)}

LEMMA BatchGone ==
  ASSUME NEW t, IsTree(t), NEW s, NEW ns
  PROVE  /\ t \ Gone(t, s, ns) = Rest(t, s, ns) /\ FileCount(Gone(t, s, ns)) \in Nat
         /\ FileCount(t) = FileCount(Rest(t, s, ns)) + FileCount(Gone(t, s, ns))
         /\ Contents(t) = Contents(Rest(t, s, ns)) \cup Contents(Gone(t, s, ns))
<1> DEFINE gone == Gone(t, s, ns)
           rest == Rest(t, s, ns)
<1>1. t \ gone = rest /\ rest \cap gone = {} /\ t = rest \cup gone
  BY DEF Rest, Gone
<1> HIDE DEF gone, rest
<1>2. IsFiniteSet(rest) /\ IsFiniteSet(gone)
  BY <1>1, FS_Subset DEF IsTree
<1>3. FileCount(gone) \in Nat /\ FileCount(rest \cup gone) = FileCount(rest) + FileCount(gone)
  BY <1>1, <1>2, CountUnion
<1>4. Contents(rest \cup gone) = Contents(rest) \cup Contents(gone)
  BY DEF Contents
<1> QED
  BY <1>1, <1>3, <1>4 DEF gone, rest

-----------------------------------------------------------------------------
(* The invariants.  TreeInv holds whatever clients do; CarefulInv, of        *)
(* clients that choose free names, says what a WebDAV request in progress    *)
(* has made of the tree it began with.                                       *)

RequestType ==
  [pc : {"idle", "delete", "call", "rename", "done"}, kind : {"none", "move", "copy"},
   src : Path, dst : Path, start : SUBSET Entry]

(* A size, and nothing due from those who owe nothing *)
Accounts ==
  /\ size \in Nat /\ owing \subseteq Callers /\ due \in [Callers -> Int] /\ drifted \in BOOLEAN
  /\ \A c \in Callers : c \notin owing => due[c] = 0

TreeInv ==
  /\ IsTree(tree) /\ Accounts /\ req \in RequestType
  /\ req.pc # "idle" => req.src # <<>> /\ req.dst # <<>> /\ req.kind # "none"

(* The path of the source's name in the target directory *)
Arrival(src, dst) == Append(Front(dst), Last(src))

(* What move_copy_handler made sure of, for a Careful client. *)
Admitted(start, kind, src, dst) ==
  /\ IsTree(start) /\ Unique(start)
  /\ src # dst /\ IsDir(start, Front(dst))
  /\ IsDir(start, src) => ~IsStrictPrefix(src, dst)
  /\ \/ Front(src) = Front(dst) /\ kind = "move"
     \/ Last(src) = Last(dst)
     \/ ~Exists(start, Arrival(src, dst))

(* The tree when the source is at the path `to`, and the old target is gone *)
Placed(start, kind, src, dst, to) ==
  Rebase(Subtree(start, src), src, to)
    \cup (IF kind = "move" THEN Without(Without(start, dst), src) ELSE Without(start, dst))

DavInv ==
  LET start == req.start
      src == req.src
      dst == req.dst
  IN
  /\ req.pc # "idle" => Admitted(start, req.kind, src, dst)
  /\ req.pc = "delete" => tree = start
  /\ req.pc = "call" => tree = Without(start, dst)
  /\ req.pc = "rename" =>
       /\ Last(src) # Last(dst) /\ ~Exists(start, Arrival(src, dst))
       /\ tree = Placed(start, req.kind, src, dst, Arrival(src, dst))
  /\ req.pc = "done" => tree = Placed(start, req.kind, src, dst, dst)

CarefulInv ==
  /\ Unique(tree) /\ DavInv
  /\ SizeCounted

-----------------------------------------------------------------------------
(* The requests *)

(* A step leaves a tree and a size.  In the second case nothing that a       *)
(* Careful client relies on is lost.                                         *)
Sound == IsTree(tree') /\ Accounts'
Safe ==
  /\ Unique(tree') /\ NothingVanishes
  /\ SizeCounted => SizeCounted'

(* A call that leaves the size alone *)
LEMMA Kept ==
  ASSUME TreeInv, UNCHANGED accounts
  PROVE  /\ Accounts'
         /\ FileCount(tree') = FileCount(tree) => (SizeCounted => SizeCounted')
BY DEF TreeInv, Accounts, accounts, SizeCounted

(* A call that is to adjust the size by as much as its commit has changed it *)
LEMMA OweIs ==
  ASSUME TreeInv, IsTree(tree'), NEW c \in Callers, NEW delta \in Int, Owe(c, delta),
         drifted' \in BOOLEAN
  PROVE  /\ Sound
         /\ (drifted' \/ (~drifted /\ FileCount(tree') = FileCount(tree) + delta))
              => (SizeCounted => SizeCounted')
<1>1. /\ UNCHANGED size /\ owing' = owing \cup {c} /\ due' = [due EXCEPT ![c] = delta]
      /\ size \in Nat /\ owing \subseteq Callers /\ due \in [Callers -> Int]
      /\ \A x \in Callers : x \notin owing => due[x] = 0
      /\ due[c] = 0 /\ due'[c] = delta /\ \A x \in Callers \ {c} : due'[x] = due[x]
  BY DEF Owe, TreeInv, Accounts
<1>2. Sound
  BY <1>1 DEF Sound, Accounts
<1>3. FileCount(tree) \in Nat /\ FileCount(tree') \in Nat
  BY CountPruned DEF TreeInv, IsTree
<1>4. due["rest"] \in Int /\ due["dav"] \in Int
  BY <1>1 DEF Callers
<1>5. due'["rest"] + due'["dav"] = due["rest"] + due["dav"] + delta
  BY <1>1, <1>4 DEF Callers
<1>6. ASSUME FileCount(tree') = FileCount(tree) + delta,
             size + due["rest"] + due["dav"] = FileCount(tree)
      PROVE  size' + due'["rest"] + due'["dav"] = FileCount(tree')
  <2>1. due'["rest"] \in Int /\ due'["dav"] \in Int
    BY <1>2 DEF Sound, Accounts, Callers
  <2> QED
    BY <1>1, <1>3, <1>4, <1>5, <1>6, <2>1
<1> QED
  BY <1>2, <1>6 DEF SizeCounted

(* adjust_repo_size, or its loss *)
LEMMA ForgoneIs ==
  ASSUME TreeInv, NEW c \in Callers, Forgone(c), tree' = tree
  PROVE  Accounts' /\ (SizeCounted => SizeCounted')
<1>1. /\ UNCHANGED size /\ owing' = owing \ {c} /\ due' = [due EXCEPT ![c] = 0]
      /\ size \in Nat /\ owing \subseteq Callers /\ due \in [Callers -> Int]
      /\ \A x \in Callers : x \notin owing => due[x] = 0
  BY DEF Forgone, TreeInv, Accounts
<1>2. drifted \in BOOLEAN /\ drifted' = (drifted \/ due[c] # 0)
  BY Zenon DEF Forgone, TreeInv, Accounts
<1>3. drifted' \in BOOLEAN
  BY <1>2, Zenon
<1>4. due'[c] = 0 /\ \A x \in Callers \ {c} : due'[x] = due[x]
  BY <1>1
<1>5. Accounts'
  BY <1>1, <1>3, <1>4 DEF Accounts
<1>6. ASSUME due[c] = 0
      PROVE  due'["rest"] = due["rest"] /\ due'["dav"] = due["dav"]
  BY <1>4, <1>6 DEF Callers
<1>7. SizeCounted => SizeCounted'
  <2>1. CASE drifted \/ due[c] # 0
    BY <1>2, <2>1, Zenon DEF SizeCounted
  <2>2. CASE ~drifted /\ due[c] = 0
    BY <1>1, <1>6, <2>2 DEF SizeCounted
  <2> QED
    BY <2>1, <2>2
<1> QED
  BY <1>5, <1>7

LEMMA AdjustIs ==
  ASSUME TreeInv, NEW c \in Callers, AdjustSize(c)
  PROVE  Accounts' /\ (SizeCounted => SizeCounted')
<1> DEFINE x == IF c = "rest" THEN "dav" ELSE "rest"
           clash == due[x] # 0 /\ (size = 0 \/ size + due[c] < 0)
<1>1. /\ owing' = owing \ {c} /\ due' = [due EXCEPT ![c] = 0]
      /\ size' = Adjusted(due[c]) /\ tree' = tree
      /\ size \in Nat /\ owing \subseteq Callers /\ due \in [Callers -> Int]
      /\ \A y \in Callers : y \notin owing => due[y] = 0
  BY DEF AdjustSize, TreeInv, Accounts
<1>2. drifted \in BOOLEAN /\ drifted' = (drifted \/ clash)
  BY Zenon DEF AdjustSize, TreeInv, Accounts
<1>3. drifted' \in BOOLEAN
  BY <1>2, Zenon
<1>4. due'[c] = 0 /\ \A y \in Callers \ {c} : due'[y] = due[y]
  BY <1>1
<1>5. FileCount(tree) \in Nat
  BY CountPruned DEF TreeInv, IsTree
<1>6. size' \in Nat
  BY <1>1, <1>5 DEF Adjusted
<1>7. Accounts'
  BY <1>1, <1>3, <1>4, <1>6 DEF Accounts
<1>8. /\ due[c] \in Int /\ due[x] \in Int /\ due'[x] = due[x]
      /\ due["rest"] + due["dav"] = due[c] + due[x]
      /\ due'["rest"] + due'["dav"] = due[x]
  BY <1>1, <1>4 DEF Callers
<1>9. ASSUME ~clash, size + due[c] + due[x] = FileCount(tree)
      PROVE  size' + due[x] = FileCount(tree)
  <2> HIDE DEF x
  <2>1. CASE size = 0
    BY <1>1, <1>5, <1>8, <1>9, <2>1 DEF Adjusted
  <2>2. CASE size # 0 /\ size + due[c] < 0
    BY <1>1, <1>5, <1>8, <1>9, <2>2
  <2>3. CASE size # 0 /\ ~(size + due[c] < 0)
    BY <1>1, <1>5, <1>8, <1>9, <2>3 DEF Adjusted
  <2> QED
    BY <2>1, <2>2, <2>3
<1>10. SizeCounted => SizeCounted'
  <2>1. CASE drifted \/ clash
    BY <1>2, <2>1, Zenon DEF SizeCounted
  <2>2. CASE ~drifted /\ ~clash
    <3>1. SizeCounted => size + due[c] + due[x] = FileCount(tree)
      BY <1>1, <1>8, <2>2 DEF SizeCounted, Callers
    <3>2. size' + due[x] = FileCount(tree) => size' + due'["rest"] + due'["dav"] = FileCount(tree)
      BY <1>1, <1>4, <1>6, <1>8 DEF Callers
    <3> HIDE DEF x, clash
    <3> QED
      BY <1>1, <1>9, <2>2, <3>1, <3>2 DEF SizeCounted
  <2> QED
    BY <2>1, <2>2
<1> QED
  BY <1>7, <1>10

(* Neither touches the tree. *)
LEMMA AccountingStep ==
  ASSUME TreeInv, Accounting
  PROVE  /\ TreeInv' /\ (CarefulInv => CarefulInv') /\ NothingVanishes
<1>1. Accounts' /\ (SizeCounted => SizeCounted') /\ UNCHANGED <<tree, deleted, req>>
  <2>1. ASSUME NEW c \in Callers, AdjustSize(c)
        PROVE  Accounts' /\ (SizeCounted => SizeCounted') /\ UNCHANGED <<tree, deleted, req>>
    BY <2>1, AdjustIs DEF AdjustSize
  <2>2. ASSUME AdjustmentLost
        PROVE  Accounts' /\ (SizeCounted => SizeCounted') /\ UNCHANGED <<tree, deleted, req>>
    BY <2>2, ForgoneIs DEF AdjustmentLost, Callers
  <2> QED
    BY <2>1, <2>2 DEF Accounting
<1> QED
  BY <1>1 DEF TreeInv, CarefulInv, DavInv, NothingVanishes

LEMMA PathsIn ==
  ASSUME NEW t, IsTree(t)
  PROVE  /\ \A p \in Paths(t) : p \in Path /\ p # <<>> /\ Exists(t, p)
         /\ \A d \in Dirs(t) : d \in Path /\ IsDir(t, d)
<1>1. \A p \in Paths(t) : p \in Path /\ p # <<>> /\ Exists(t, p)
  BY EntryIs DEF Paths, IsTree, Exists
<1>2. ASSUME NEW d \in Dirs(t)
      PROVE  d \in Path /\ IsDir(t, d)
  <2>1. CASE d = <<>>
    BY <2>1, RootPath DEF IsDir
  <2>2. CASE d # <<>>
    <3>1. PICK e \in t : e.path = d /\ e.id = "dir"
      BY <2>2 DEF Dirs
    <3> QED
      BY <3>1, EntryIs DEF IsTree, IsDir
  <2> QED
    BY <2>1, <2>2
<1> QED
  BY <1>1, <1>2

LEMMA ChosenNames ==
  ASSUME Setting, NEW n \in Chosen
  PROVE  n \in Name
<1>1. PICK x \in Names : n = <<x>>
  BY DEF Chosen
<1>2. x \in STRING \cup Nat
  BY DEF Setting
<1>3. ASSUME NEW S, NEW y \in S
      PROVE  <<y>> \in Seq(S)
  OBVIOUS
<1> QED
  BY <1>1, <1>2, <1>3 DEF Name

LEMMA RenameStep ==
  ASSUME Setting, TreeInv, NEW p \in Paths(tree), NEW n \in Chosen, Rename(p, n)
  PROVE  Sound /\ (Careful /\ Unique(tree) => Safe)
<1>0. IsTree(tree)
  BY DEF TreeInv
<1>1. p \in Path /\ p # <<>> /\ n \in Name
  BY <1>0, PathsIn, ChosenNames
<1>2. tree' \in Renamed(tree, p, n) /\ UNCHANGED accounts
      /\ (Careful => ~Exists(tree, Append(Front(p), n)))
  BY DEF Rename, Free, unasked
<1>3. /\ IsTree(tree') /\ Contents(tree') = Contents(tree)
      /\ Unique(tree) /\ ~Exists(tree, Append(Front(p), n))
           => Unique(tree') /\ FileCount(tree') = FileCount(tree)
  BY <1>0, <1>1, <1>2, RenamedTree
<1> QED
  BY <1>0, <1>2, <1>3, Kept DEF Sound, Safe, NothingVanishes

LEMMA MoveStep ==
  ASSUME Setting, TreeInv, NEW p \in Paths(tree), NEW d \in Dirs(tree), Move(p, d)
  PROVE  Sound /\ (Careful /\ Unique(tree) => Safe)
<1> DEFINE q == Append(d, Last(p))
<1>0. IsTree(tree)
  BY DEF TreeInv
<1>1. p \in Path /\ p # <<>> /\ d \in Path
  BY <1>0, PathsIn
<1>2. tree' \in Moved(tree, p, d) /\ UNCHANGED accounts
      /\ (Careful /\ d # Front(p) => ~Exists(tree, q))
  BY DEF Move, Free, unasked
<1>3. ASSUME Careful
      PROVE  ~Exists(Without(tree, p), q)
  <2>1. CASE d = Front(p)
    <3>1. q = p
      BY <1>1, <2>1, PathEnds
    <3> QED
      BY <1>0, <1>1, <3>1, Pruned
  <2>2. CASE d # Front(p)
    <3>1. ~Exists(tree, q)
      BY <1>2, <1>3, <2>2
    <3> HIDE DEF q
    <3> QED
      BY <3>1, InSubtree DEF Exists
  <2> QED
    BY <2>1, <2>2
<1>4. /\ IsTree(tree')
      /\ ~Exists(Without(tree, p), q) =>
           /\ Contents(tree') = Contents(tree)
           /\ Unique(tree) => Unique(tree') /\ FileCount(tree') = FileCount(tree)
  BY <1>0, <1>1, <1>2, MovedTree
<1> HIDE DEF q
<1> QED
  BY <1>0, <1>2, <1>3, <1>4, Kept DEF Sound, Safe, NothingVanishes

(* delete_dirent, also as a WebDAV request's first call *)
LEMMA DeleteStep ==
  ASSUME TreeInv, NEW c \in Callers, NEW p \in Path, p # <<>>, DeleteEntry(c, p)
  PROVE  Sound /\ (Unique(tree) => Safe)
<1>0. IsTree(tree)
  BY DEF TreeInv
<1>1. /\ tree' = Without(tree, p) /\ deleted' = deleted \cup Contents(Subtree(tree, p))
      /\ Owe(c, -FileCount(Subtree(tree, p))) /\ drifted' = drifted
  BY DEF DeleteEntry, DeletedSize
<1>2. IsTree(Without(tree, p)) /\ (Unique(tree) => Unique(Without(tree, p)))
  BY <1>0, Pruned
<1>3. /\ FileCount(tree) = FileCount(Without(tree, p)) + FileCount(Subtree(tree, p))
      /\ FileCount(Without(tree, p)) \in Nat /\ FileCount(Subtree(tree, p)) \in Nat
  BY <1>0, CountPruned DEF IsTree
<1>4. Contents(tree) = Contents(Without(tree, p)) \cup Contents(Subtree(tree, p))
  BY ContentsPruned
<1> DEFINE delta == -FileCount(Subtree(tree, p))
<1>5. delta \in Int /\ FileCount(tree') = FileCount(tree) + delta /\ Owe(c, delta)
  BY <1>1, <1>3
<1>6. IsTree(tree')
  BY <1>1, <1>2
<1> HIDE DEF delta
<1>7. Sound /\ (SizeCounted => SizeCounted')
  <2>1. drifted' = drifted /\ drifted \in BOOLEAN
    BY <1>1 DEF TreeInv, Accounts
  <2> QED
    BY <1>5, <1>6, <2>1, OweIs
<1> QED
  BY <1>1, <1>2, <1>4, <1>7 DEF Safe, NothingVanishes

LEMMA MkdirStep ==
  ASSUME Setting, TreeInv, NEW d \in Dirs(tree), NEW n \in Chosen, Mkdir(d, n)
  PROVE  Sound /\ (Unique(tree) => Safe)
<1> DEFINE p == Append(d, n)
           e == [path |-> p, id |-> "dir"]
<1>0. IsTree(tree)
  BY DEF TreeInv
<1>1. d \in Path /\ n \in Name /\ IsDir(tree, d)
  BY <1>0, PathsIn, ChosenNames
<1>2. tree' = tree \cup {e} /\ UNCHANGED accounts /\ ~Exists(tree, p)
  BY DEF Mkdir, unasked
<1>3. p \in Path /\ p # <<>> /\ \A q \in Path : IsPrefix(q, p) => q = p \/ IsPrefix(q, d)
  BY <1>1, PathAppend
<1> HIDE DEF p
<1>4. e \in Entry /\ e.path = p /\ e.id = "dir"
  BY <1>3, EntryMade DEF Ids
<1> HIDE DEF e
<1>5. Rooted(tree \cup {e})
  <2>1. \A q : IsDir(tree, q) => IsDir(tree \cup {e}, q)
    BY DEF IsDir
  <2>2. \A q \in Path : IsStrictPrefix(q, p) => IsDir(tree, q)
    BY <1>0, <1>1, <1>3, AboveDir DEF IsStrictPrefix
  <2> QED
    BY <1>0, <1>4, <2>1, <2>2 DEF Rooted, IsTree
<1>6. IsTree(tree \cup {e})
  BY <1>0, <1>4, <1>5, FS_AddElement DEF IsTree
<1>7. Unique(tree) => Unique(tree \cup {e})
  BY <1>2, <1>4 DEF Unique, Exists
<1>8. {f \in tree \cup {e} : f.id # "dir"} = {f \in tree : f.id # "dir"}
  BY <1>4
<1>9. Contents(tree) \subseteq Contents(tree \cup {e})
  BY DEF Contents
<1> QED
  BY <1>0, <1>2, <1>6, <1>7, <1>8, <1>9, Kept DEF Sound, Safe, NothingVanishes, FileCount

LEMMA BatchMoveStep ==
  ASSUME TreeInv, NEW s \in Dirs(tree), NEW d \in Dirs(tree), NEW ns \in Batches(tree, s),
         BatchMove(s, d, ns)
  PROVE  Sound /\ (Unique(tree) => Safe)
<1>0. IsTree(tree)
  BY DEF TreeInv
<1>1. s \in Path /\ d \in Path
  BY <1>0, PathsIn
<1>2. tree' \in BatchMoved(tree, s, d, ns) /\ UNCHANGED accounts
  BY DEF BatchMove, unasked
<1>3. /\ IsTree(tree') /\ Contents(tree') = Contents(tree)
      /\ Unique(tree) => Unique(tree') /\ FileCount(tree') = FileCount(tree)
  BY <1>0, <1>1, <1>2, BatchMovedTree
<1> QED
  BY <1>0, <1>2, <1>3, Kept DEF Sound, Safe, NothingVanishes

(* batch_copy, also as a WebDAV request's call *)
LEMMA CopyStep ==
  ASSUME TreeInv, NEW c \in Callers, NEW s \in Path, NEW d \in Path, NEW ns, IsBatch(ns),
         CopyEntries(c, s, d, ns)
  PROVE  Sound /\ (Unique(tree) => Safe)
<1> DEFINE delta == CopySize(tree, s, ns)
           files == \A i \in DOMAIN ns : ~IsDir(tree, Append(s, ns[i]))
<1>0. IsTree(tree) /\ drifted \in BOOLEAN
  BY DEF TreeInv, Accounts
<1>1. tree' \in Copied(tree, s, d, ns) /\ Owe(c, delta)
  BY DEF CopyEntries
<1>2. /\ IsTree(tree') /\ Contents(tree) \subseteq Contents(tree')
      /\ Unique(tree) => Unique(tree')
      /\ Unique(tree) /\ files => FileCount(tree') = FileCount(tree) + delta
  BY <1>0, <1>1, CopiedTree
<1>3. delta \in Int
  BY CopySizeIs
<1>4. drifted' = (drifted \/ ~files)
  BY Zenon DEF CopyEntries
<1>5. drifted' \in BOOLEAN
  BY <1>0, <1>4, Zenon
<1> HIDE DEF delta
<1>6. /\ Sound
      /\ (drifted' \/ (~drifted /\ FileCount(tree') = FileCount(tree) + delta))
           => (SizeCounted => SizeCounted')
  BY <1>1, <1>2, <1>3, <1>5, OweIs
<1> HIDE DEF files
<1>7. Unique(tree) => (SizeCounted => SizeCounted')
  BY <1>2, <1>4, <1>6, Zenon
<1> QED
  BY <1>2, <1>6, <1>7 DEF Safe, NothingVanishes

LEMMA BatchCopyStep ==
  ASSUME TreeInv, NEW s \in Dirs(tree), NEW d \in Dirs(tree), NEW ns \in Batches(tree, s),
         BatchCopy(s, d, ns)
  PROVE  Sound /\ (Unique(tree) => Safe)
<1>0. IsTree(tree)
  BY DEF TreeInv
<1>1. s \in Path /\ d \in Path /\ IsBatch(ns)
  BY <1>0, PathsIn, BatchIs DEF IsBatch
<1>2. CopyEntries("rest", s, d, ns) /\ "rest" \in Callers
  BY DEF BatchCopy, Callers
<1> QED
  BY <1>1, <1>2, CopyStep

LEMMA BatchDeleteStep ==
  ASSUME TreeInv, NEW s \in Dirs(tree), NEW ns \in Batches(tree, s), BatchDelete(s, ns)
  PROVE  Sound /\ (Unique(tree) => Safe)
<1> DEFINE gone == Gone(tree, s, ns)
           rest == Rest(tree, s, ns)
           delta == -FileCount(gone)
<1>0. IsTree(tree)
  BY DEF TreeInv
<1>1. s \in Path
  BY <1>0, PathsIn
<1>2. /\ tree' = tree \ gone /\ deleted' = deleted \cup Contents(gone)
      /\ Owe("rest", delta) /\ drifted' = drifted
  BY DEF BatchDelete, Gone
<1>3. IsTree(rest) /\ (Unique(tree) => Unique(rest))
  BY <1>0, <1>1, BatchPruned
<1>4. /\ tree \ gone = rest /\ FileCount(gone) \in Nat
      /\ FileCount(tree) = FileCount(rest) + FileCount(gone)
      /\ Contents(tree) = Contents(rest) \cup Contents(gone)
  BY <1>0, BatchGone
<1>5. FileCount(rest) \in Nat
  BY <1>3, CountPruned DEF IsTree
<1> HIDE DEF gone, rest
<1>a. tree' = rest
  BY <1>2, <1>4
<1>6. delta \in Int /\ FileCount(tree') = FileCount(tree) + delta
  BY <1>4, <1>5, <1>a
<1> HIDE DEF delta
<1>7. IsTree(tree')
  BY <1>2, <1>3, <1>4
<1>8. Sound /\ (SizeCounted => SizeCounted')
  <2>1. drifted' = drifted /\ drifted \in BOOLEAN /\ "rest" \in Callers
    BY <1>2 DEF TreeInv, Accounts, Callers
  <2> QED
    BY <1>2, <1>6, <1>7, <2>1, OweIs
<1> QED
  BY <1>2, <1>3, <1>4, <1>8 DEF Safe, NothingVanishes

LEMMA RequestStep ==
  ASSUME Setting, TreeInv, Request
  PROVE  /\ Sound /\ (Careful /\ Unique(tree) => Safe)
         /\ req' = req /\ (Careful => req.pc = "idle")
<1>1. ASSUME NEW p \in Paths(tree), NEW n \in Chosen, Rename(p, n)
      PROVE  /\ Sound /\ (Careful /\ Unique(tree) => Safe)
             /\ req' = req /\ (Careful => req.pc = "idle")
  BY <1>1, RenameStep DEF Rename, Begin
<1>2. ASSUME NEW p \in Paths(tree), NEW d \in Dirs(tree), Move(p, d)
      PROVE  /\ Sound /\ (Careful /\ Unique(tree) => Safe)
             /\ req' = req /\ (Careful => req.pc = "idle")
  BY <1>2, MoveStep DEF Move, Begin
<1>3. ASSUME NEW p \in Paths(tree), Delete(p)
      PROVE  /\ Sound /\ (Careful /\ Unique(tree) => Safe)
             /\ req' = req /\ (Careful => req.pc = "idle")
  <2>1. p \in Path /\ p # <<>>
    BY PathsIn DEF TreeInv
  <2> QED
    BY <1>3, <2>1, DeleteStep DEF Delete, Begin, Callers
<1>4. ASSUME NEW d \in Dirs(tree), NEW n \in Chosen, Mkdir(d, n)
      PROVE  /\ Sound /\ (Careful /\ Unique(tree) => Safe)
             /\ req' = req /\ (Careful => req.pc = "idle")
  BY <1>4, MkdirStep DEF Mkdir, Begin
<1>5. ASSUME NEW s \in Dirs(tree), NEW d \in Dirs(tree), NEW ns \in Batches(tree, s),
             BatchMove(s, d, ns)
      PROVE  /\ Sound /\ (Careful /\ Unique(tree) => Safe)
             /\ req' = req /\ (Careful => req.pc = "idle")
  BY <1>5, BatchMoveStep DEF BatchMove, Begin
<1>6. ASSUME NEW s \in Dirs(tree), NEW d \in Dirs(tree), NEW ns \in Batches(tree, s),
             BatchCopy(s, d, ns)
      PROVE  /\ Sound /\ (Careful /\ Unique(tree) => Safe)
             /\ req' = req /\ (Careful => req.pc = "idle")
  BY <1>6, BatchCopyStep DEF BatchCopy, Begin
<1>7. ASSUME NEW s \in Dirs(tree), NEW ns \in Batches(tree, s), BatchDelete(s, ns)
      PROVE  /\ Sound /\ (Careful /\ Unique(tree) => Safe)
             /\ req' = req /\ (Careful => req.pc = "idle")
  BY <1>7, BatchDeleteStep DEF BatchDelete, Begin
<1> QED
  BY <1>1, <1>2, <1>3, <1>4, <1>5, <1>6, <1>7 DEF Request

-----------------------------------------------------------------------------
(* WebDAV requests *)

LEMMA ArrivalIs ==
  ASSUME NEW src \in Path, src # <<>>, NEW dst \in Path, dst # <<>>
  PROVE  /\ Front(src) \in Path /\ Last(src) \in Name /\ src = Append(Front(src), Last(src))
         /\ Front(dst) \in Path /\ Last(dst) \in Name /\ dst = Append(Front(dst), Last(dst))
         /\ Arrival(src, dst) \in Path /\ Arrival(src, dst) # <<>>
         /\ Front(Arrival(src, dst)) = Front(dst) /\ Last(Arrival(src, dst)) = Last(src)
         /\ Last(src) = Last(dst) => Arrival(src, dst) = dst
         /\ Last(src) # Last(dst) => \A p \in Path : ~(IsPrefix(Arrival(src, dst), p) /\ IsPrefix(dst, p))
<1> DEFINE d == Front(dst)
           n == Last(src)
           m == Last(dst)
           a == Append(d, n)
<1>1. /\ Front(src) \in Path /\ n \in Name /\ src = Append(Front(src), n)
      /\ d \in Path /\ m \in Name /\ dst = Append(d, m)
  BY PathEnds
<1>2. a = Arrival(src, dst)
  BY DEF Arrival
<1> HIDE DEF d, n, m
<1>3. a \in Path /\ a # <<>> /\ Front(a) = d /\ Last(a) = n
  BY <1>1, PathAppend
<1>4. n = m => a = dst
  BY <1>1
<1>5. n # m => \A p \in Path : ~(IsPrefix(a, p) /\ IsPrefix(dst, p))
  BY <1>1, Siblings
<1> HIDE DEF a
<1> QED
  BY <1>1, <1>2, <1>3, <1>4, <1>5 DEF d, n, m

(* A source that is still there after the target was deleted lies beside    *)
(* the target, and nothing of it was deleted.                               *)
LEMMA Apart ==
  ASSUME NEW start, IsTree(start), NEW src \in Path, src # <<>>, NEW dst \in Path, dst # <<>>,
         src # dst, IsDir(start, Front(dst)), IsDir(start, src) => ~IsStrictPrefix(src, dst),
         Exists(Without(start, dst), src)
  PROVE  /\ ~IsPrefix(src, dst) /\ ~IsPrefix(dst, src)
         /\ Subtree(Without(start, dst), src) = Subtree(start, src)
<1>1. ~IsPrefix(dst, src)
  BY InSubtree DEF Exists
<1>2. ~IsPrefix(src, dst)
  <2> SUFFICES ASSUME IsPrefix(src, dst)
               PROVE  FALSE
    OBVIOUS
  <2> DEFINE d == Front(dst)
             m == Last(dst)
  <2>1. d \in Path /\ m \in Name /\ dst = Append(d, m)
    BY PathEnds
  <2>2. IsDir(start, d)
    OBVIOUS
  <2> HIDE DEF d, m
  <2>3. IsPrefix(src, d)
    BY <2>1, PathAppend
  <2>4. IsDir(start, src)
    BY <2>1, <2>2, <2>3, AboveDir
  <2> QED
    BY <2>4 DEF IsStrictPrefix
<1>3. ASSUME NEW e \in start, IsPrefix(src, e.path)
      PROVE  ~IsPrefix(dst, e.path)
  <2>1. e.path \in Path
    BY EntryIs DEF IsTree
  <2> QED
    BY <1>1, <1>2, <1>3, <2>1, PathOrder
<1> QED
  BY <1>1, <1>2, <1>3 DEF Subtree, Without

(* The name under which the source arrives is free.                         *)
LEMMA ArrivalFree ==
  ASSUME NEW start, NEW kind, NEW src \in Path, src # <<>>, NEW dst \in Path, dst # <<>>,
         Admitted(start, kind, src, dst), ~(Front(src) = Front(dst) /\ kind = "move")
  PROVE  /\ ~Exists(Without(start, dst), Arrival(src, dst))
         /\ Last(src) # Last(dst) => ~Exists(start, Arrival(src, dst))
<1> DEFINE a == Arrival(src, dst)
<1>1. (Last(src) = Last(dst) => a = dst) /\ a \in Path
  BY ArrivalIs
<1>2. ~Exists(Without(start, dst), dst)
  BY Pruned DEF Admitted
<1>3. Last(src) # Last(dst) => ~Exists(start, a)
  BY DEF Admitted
<1> HIDE DEF a
<1>4. ~Exists(start, a) => ~Exists(Without(start, dst), a)
  BY InSubtree DEF Exists
<1> QED
  BY <1>1, <1>2, <1>3, <1>4 DEF a

(* do_move: the first call, on the tree without the target. *)
LEMMA MoveCall ==
  ASSUME NEW start, NEW src \in Path, src # <<>>, NEW dst \in Path, dst # <<>>,
         Admitted(start, "move", src, dst),
         NEW u \in IF Front(src) = Front(dst) THEN Renamed(Without(start, dst), src, Last(dst))
                   ELSE Moved(Without(start, dst), src, Front(dst))
  PROVE  /\ IsTree(u) /\ Unique(u) /\ Contents(u) = Contents(Without(start, dst))
         /\ FileCount(u) = FileCount(Without(start, dst))
         /\ IF Front(src) = Front(dst) \/ Last(src) = Last(dst)
            THEN u = Placed(start, "move", src, dst, dst)
            ELSE /\ ~Exists(start, Arrival(src, dst))
                 /\ u = Placed(start, "move", src, dst, Arrival(src, dst))
<1> DEFINE t == Without(start, dst)
           a == Arrival(src, dst)
<1>1. IsTree(t) /\ Unique(t) /\ ~Exists(t, dst)
  BY Pruned DEF Admitted
<1>2. /\ src \in Path /\ src # <<>> /\ Last(dst) \in Name /\ Front(dst) \in Path
      /\ dst = Append(Front(dst), Last(dst)) /\ (Last(src) = Last(dst) => a = dst)
  BY ArrivalIs
<1>3. ASSUME Exists(t, src)
      PROVE  Subtree(t, src) = Subtree(start, src)
  BY <1>3, Apart DEF Admitted
<1> HIDE DEF a, t
<1>4. CASE Front(src) = Front(dst)
  <2> DEFINE n == Last(dst)
  <2>1. u \in Renamed(t, src, n) /\ Append(Front(src), n) = dst /\ n \in Name
    BY <1>2, <1>4 DEF t
  <2> HIDE DEF n
  <2>2. /\ IsTree(u) /\ Contents(u) = Contents(t) /\ Exists(t, src)
        /\ u = Without(t, src) \cup Rebase(Subtree(t, src), src, Append(Front(src), n))
        /\ Unique(t) /\ ~Exists(t, Append(Front(src), n))
             => Unique(u) /\ FileCount(u) = FileCount(t)
    <3>1. IsTree(t) /\ src \in Path /\ src # <<>> /\ n \in Name /\ u \in Renamed(t, src, n)
      BY <1>1, <1>2, <2>1
    <3> QED
      BY <3>1, RenamedTree
  <2>3. u = Rebase(Subtree(start, src), src, dst) \cup Without(t, src)
    BY <1>3, <2>1, <2>2
  <2>4. u = Placed(start, "move", src, dst, dst)
    BY <2>3 DEF Placed, t
  <2> QED
    BY <1>1, <1>4, <2>1, <2>2, <2>4 DEF t
<1>5. CASE Front(src) # Front(dst)
  <2>1. u \in Moved(t, src, Front(dst)) /\ Append(Front(dst), Last(src)) = a
    BY <1>5 DEF t, a, Arrival
  <2>2. ~Exists(t, a) /\ (Last(src) # Last(dst) => ~Exists(start, a))
    BY <1>2, <1>5, ArrivalFree DEF t, a
  <2>3. ~Exists(Without(t, src), a)
    BY <2>2, InSubtree DEF Exists
  <2>4. /\ IsTree(u) /\ Exists(t, src)
        /\ ~Exists(Without(t, src), Append(Front(dst), Last(src))) =>
             /\ u = Without(t, src) \cup Rebase(Subtree(t, src), src, Append(Front(dst), Last(src)))
             /\ Contents(u) = Contents(t)
             /\ Unique(t) => Unique(u) /\ FileCount(u) = FileCount(t)
    BY <1>1, <1>2, <2>1, MovedTree
  <2>5. /\ u = Rebase(Subtree(start, src), src, a) \cup Without(t, src)
        /\ Contents(u) = Contents(t) /\ Unique(u) /\ FileCount(u) = FileCount(t)
    BY <1>1, <1>3, <2>1, <2>3, <2>4
  <2>6. u = Placed(start, "move", src, dst, a)
    BY <2>5 DEF Placed, t
  <2> QED
    BY <1>2, <1>5, <2>2, <2>4, <2>5, <2>6 DEF t, a
<1> QED
  BY <1>4, <1>5

(* do_copy: the same for the copy. *)
LEMMA CopyCall ==
  ASSUME NEW start, NEW src \in Path, src # <<>>, NEW dst \in Path, dst # <<>>,
         Admitted(start, "copy", src, dst),
         NEW u \in Copied(Without(start, dst), Front(src), Front(dst), <<Last(src)>>)
  PROVE  /\ u = Placed(start, "copy", src, dst, Arrival(src, dst))
         /\ Last(src) # Last(dst) => ~Exists(start, Arrival(src, dst))
<1> DEFINE t == Without(start, dst)
           a == Arrival(src, dst)
           s == Front(src)
           d == Front(dst)
           n == Last(src)
<1>1. IsTree(t)
  BY Pruned DEF Admitted
<1>2. s \in Path /\ n \in Name /\ d \in Path /\ src = Append(s, n) /\ a = Append(d, n)
  BY ArrivalIs DEF Arrival
<1>3. ASSUME Exists(t, src)
      PROVE  Subtree(t, src) = Subtree(start, src)
  BY <1>3, Apart DEF Admitted
<1>4. ~Exists(t, a) /\ (Last(src) # Last(dst) => ~Exists(start, a))
  BY ArrivalFree
<1>5. u \in Copied(t, s, d, <<n>>)
  OBVIOUS
<1> HIDE DEF a, t, s, d, n
<1>6. /\ Exists(t, Append(s, n))
      /\ ~Exists(t, Append(d, n)) => u = t \cup Rebase(Subtree(t, Append(s, n)), Append(s, n), Append(d, n))
  BY <1>1, <1>2, <1>5, CopiedOne
<1>7. u = t \cup Rebase(Subtree(start, src), src, a)
  BY <1>2, <1>3, <1>4, <1>6
<1>8. u = Placed(start, "copy", src, dst, a)
  BY <1>7 DEF Placed, t
<1> QED
  BY <1>4, <1>8 DEF a

(* A sub-tree that is rebased twice *)
LEMMA RebasedTwice ==
  ASSUME NEW s, s \subseteq Entry, NEW from \in Path, NEW mid \in Path, mid # <<>>, NEW to \in Path,
         \A e \in s : IsPrefix(from, e.path)
  PROVE  /\ Rebase(Rebase(s, from, mid), mid, to) = Rebase(s, from, to)
         /\ \A e \in Rebase(s, from, mid) : e \in Entry /\ IsPrefix(mid, e.path)
<1> DEFINE r == {At(e, from, mid) : e \in s}
<1>1. ASSUME NEW e \in s
      PROVE  /\ At(e, from, mid) \in Entry /\ IsPrefix(mid, At(e, from, mid).path)
             /\ At(At(e, from, mid), mid, to) = At(e, from, to)
  <2>1. e.path \in Path /\ e.id \in Ids /\ IsPrefix(from, e.path)
    BY EntryIs
  <2>2. Shifted(e.path, from, mid) \in Path /\ IsPrefix(mid, Shifted(e.path, from, mid))
    BY <2>1, PathShifted
  <2>3. Shifted(Shifted(e.path, from, mid), mid, to) = Shifted(e.path, from, to)
    BY <2>1, PathTwice
  <2>4. Shifted(e.path, from, mid) # <<>>
    BY <2>2, PathOrder
  <2>5. /\ At(e, from, mid) \in Entry /\ At(e, from, mid).path = Shifted(e.path, from, mid)
        /\ At(e, from, mid).id = e.id
    BY <2>1, <2>2, <2>4, EntryMade DEF At
  <2> QED
    BY <2>2, <2>3, <2>5 DEF At
<1>2. Rebase(s, from, mid) = r /\ Rebase(s, from, to) = {At(e, from, to) : e \in s}
  BY RebaseIs
<1>3. r \subseteq Entry /\ \A e \in r : IsPrefix(mid, e.path)
  BY <1>1
<1>4. Rebase(r, mid, to) = {At(e, mid, to) : e \in r}
  BY <1>3, RebaseIs
<1>5. {At(e, mid, to) : e \in r} = {At(e, from, to) : e \in s}
  BY <1>1
<1> HIDE DEF r
<1> QED
  BY <1>2, <1>3, <1>4, <1>5

(* The last call renames what has arrived, and nothing else. *)
LEMMA RenameCall ==
  ASSUME NEW start, NEW kind, NEW src \in Path, src # <<>>, NEW dst \in Path, dst # <<>>,
         Admitted(start, kind, src, dst), Last(src) # Last(dst), ~Exists(start, Arrival(src, dst)),
         NEW t, IsTree(t), Unique(t), t = Placed(start, kind, src, dst, Arrival(src, dst)),
         NEW u \in Renamed(t, Arrival(src, dst), Last(dst))
  PROVE  /\ IsTree(u) /\ Unique(u) /\ Contents(u) = Contents(t) /\ FileCount(u) = FileCount(t)
         /\ u = Placed(start, kind, src, dst, dst)
<1> DEFINE a == Arrival(src, dst)
           s == Subtree(start, src)
           r == Rebase(s, src, a)
           b == IF kind = "move" THEN Without(Without(start, dst), src) ELSE Without(start, dst)
<1>1. IsTree(start)
  BY DEF Admitted
<1>2. /\ a \in Path /\ a # <<>> /\ Front(a) = Front(dst) /\ Last(dst) \in Name
      /\ dst = Append(Front(dst), Last(dst))
      /\ \A p \in Path : ~(IsPrefix(a, p) /\ IsPrefix(dst, p))
  BY ArrivalIs
<1>3. b \subseteq start /\ \A e \in b : ~IsPrefix(dst, e.path)
  BY DEF Without, Subtree
<1>4. s \subseteq Entry /\ \A e \in s : IsPrefix(src, e.path)
  BY <1>1, SubtreeIs
<1>5. t = r \cup b /\ ~Exists(start, a) /\ u \in Renamed(t, a, Last(dst))
  BY DEF Placed
<1> HIDE DEF a, b, s
<1>6. \A e \in start : ~IsPrefix(a, e.path)
  BY <1>1, <1>2, <1>5, NothingBelow
<1>7. /\ Rebase(r, a, dst) = Rebase(s, src, dst)
      /\ \A e \in r : e \in Entry /\ IsPrefix(a, e.path)
  BY <1>2, <1>4, RebasedTwice
<1> HIDE DEF r
<1>8. Subtree(t, a) = r /\ Without(t, a) = b
  BY <1>3, <1>5, <1>6, <1>7 DEF Subtree, Without
<1>9. ~Exists(t, dst)
  <2>1. IsPrefix(dst, dst) /\ ~IsPrefix(a, dst)
    BY <1>2, PathOrder
  <2> QED
    BY <1>3, <1>5, <1>7, <2>1 DEF Exists
<1> DEFINE n == Last(dst)
<1>10. Append(Front(a), n) = dst /\ n \in Name /\ u \in Renamed(t, a, n)
  BY <1>2, <1>5
<1> HIDE DEF n
<1>11. /\ IsTree(u) /\ Contents(u) = Contents(t)
       /\ u = Without(t, a) \cup Rebase(Subtree(t, a), a, Append(Front(a), n))
       /\ Unique(t) /\ ~Exists(t, Append(Front(a), n))
            => Unique(u) /\ FileCount(u) = FileCount(t)
  <2>1. IsTree(t) /\ a \in Path /\ a # <<>> /\ n \in Name /\ u \in Renamed(t, a, n)
    BY <1>2, <1>10
  <2> QED
    BY <2>1, RenamedTree
<1>12. u = Rebase(s, src, dst) \cup b
  BY <1>7, <1>8, <1>10, <1>11
<1>13. u = Placed(start, kind, src, dst, dst)
  BY <1>12 DEF Placed, s, b
<1> QED
  BY <1>9, <1>10, <1>11, <1>13

(* A request goes on: what it knows stays as it is. *)
LEMMA GotoIs ==
  ASSUME req \in RequestType, NEW l \in {"idle", "delete", "call", "rename", "done"}, DavGoto(l)
  PROVE  /\ req' \in RequestType /\ req'.pc = l /\ req'.kind = req.kind
         /\ req'.src = req.src /\ req'.dst = req.dst /\ req'.start = req.start
BY DEF DavGoto, RequestType

LEMMA NoRequestIs ==
  NoRequest \in RequestType /\ NoRequest.pc = "idle"
BY RootPath DEF NoRequest, RequestType

LEMMA OneName ==
  ASSUME NEW n \in Name
  PROVE  IsBatch(<<n>>) /\ \A i \in DOMAIN <<n>> : <<n>>[i] = n
<1>1. DOMAIN <<n>> = {1} /\ <<n>>[1] = n
  OBVIOUS
<1> QED
  BY <1>1 DEF IsBatch

(* What a call finds: the request, its paths and their ends. *)
LEMMA RequestIs ==
  ASSUME TreeInv, req.pc # "idle"
  PROVE  /\ IsTree(tree) /\ req \in RequestType
         /\ req.src \in Path /\ req.src # <<>> /\ req.dst \in Path /\ req.dst # <<>>
         /\ req.kind \in {"move", "copy"}
         /\ Front(req.src) \in Path /\ Last(req.src) \in Name
         /\ Front(req.dst) \in Path /\ Last(req.dst) \in Name
         /\ Arrival(req.src, req.dst) \in Path /\ Arrival(req.src, req.dst) # <<>>
<1>1. /\ IsTree(tree) /\ req \in RequestType
      /\ req.src \in Path /\ req.src # <<>> /\ req.dst \in Path /\ req.dst # <<>>
      /\ req.kind \in {"move", "copy"}
  BY DEF TreeInv, RequestType
<1> QED
  BY <1>1, ArrivalIs

LEMMA BeginSound ==
  ASSUME Setting, TreeInv, NEW kind \in {"move", "copy"},
         NEW p \in Paths(tree) \cup {<<n>> : n \in Chosen}, NEW d \in Dirs(tree),
         NEW n \in Chosen, NEW overwrite \in BOOLEAN, DavBegin(kind, p, Append(d, n), overwrite)
  PROVE  /\ TreeInv' /\ p \in Path /\ Append(d, n) \in Path
         /\ req'.pc = (IF Exists(tree, Append(d, n)) THEN "delete" ELSE "call")
         /\ req'.kind = kind /\ req'.src = p /\ req'.dst = Append(d, n) /\ req'.start = tree
<1> DEFINE q == Append(d, n)
<1>0. IsTree(tree)
  BY DEF TreeInv
<1>1. p \in Path
  <2>1. ASSUME NEW m \in Chosen, p = <<m>>
        PROVE  p \in Path
    <3>1. m \in Name
      BY ChosenNames
    <3>2. ASSUME NEW S, NEW y \in S
          PROVE  <<y>> \in Seq(S)
      OBVIOUS
    <3> QED
      BY <2>1, <3>1, <3>2 DEF Path
  <2>2. p \in Paths(tree) => p \in Path
    BY <1>0, PathsIn
  <2> QED
    BY <2>1, <2>2
<1>2. q \in Path /\ q # <<>>
  BY <1>0, PathsIn, ChosenNames, PathAppend
<1>3. /\ req' = [pc |-> IF Exists(tree, q) THEN "delete" ELSE "call",
                 kind |-> kind, src |-> p, dst |-> q, start |-> tree]
      /\ p # <<>> /\ tree' = tree /\ UNCHANGED accounts
  BY DEF DavBegin, unasked
<1> HIDE DEF q
<1>4. tree \subseteq Entry
  BY <1>0 DEF IsTree
<1>5. /\ req' \in RequestType /\ req'.pc = (IF Exists(tree, q) THEN "delete" ELSE "call")
      /\ req'.kind = kind /\ req'.src = p /\ req'.dst = q /\ req'.start = tree
  BY <1>1, <1>2, <1>3, <1>4 DEF RequestType
<1>6. TreeInv'
  BY <1>2, <1>3, <1>5, Kept DEF TreeInv
<1> QED
  BY <1>1, <1>2, <1>5, <1>6 DEF q

(* Every step of a WebDAV request leaves a tree, whoever works beside it. *)
LEMMA WebDavSound ==
  ASSUME Setting, TreeInv, WebDav
  PROVE  TreeInv'
<1>1. ASSUME NEW kind \in {"move", "copy"}, NEW p \in Paths(tree) \cup {<<n>> : n \in Chosen},
             NEW d \in Dirs(tree), NEW n \in Chosen, NEW overwrite \in BOOLEAN,
             DavBegin(kind, p, Append(d, n), overwrite)
      PROVE  TreeInv'
  BY <1>1, BeginSound
<1>2. CASE DavDelete
  <2>1. req.pc # "idle" /\ DeleteEntry("dav", req.dst) /\ DavGoto("call") /\ "dav" \in Callers
    BY <1>2 DEF DavDelete, Callers
  <2>2. Sound
    BY <2>1, RequestIs, DeleteStep
  <2>3. /\ req' \in RequestType /\ req'.kind = req.kind
        /\ req'.src = req.src /\ req'.dst = req.dst
    BY <2>1, RequestIs, GotoIs
  <2> QED
    BY <2>1, <2>2, <2>3 DEF TreeInv, Sound
<1>3. CASE DavMove
  <2> DEFINE l == IF Front(req.src) = Front(req.dst) \/ Last(req.src) = Last(req.dst)
                  THEN "done" ELSE "rename"
  <2>1. /\ req.pc # "idle" /\ DavGoto(l) /\ UNCHANGED accounts
        /\ \/ tree' \in Renamed(tree, req.src, Last(req.dst))
           \/ tree' \in Moved(tree, req.src, Front(req.dst))
    BY <1>3 DEF DavMove, Ready, unasked
  <2>2. IsTree(tree')
    <3>1. tree' \in Renamed(tree, req.src, Last(req.dst)) => IsTree(tree')
      BY <2>1, RequestIs, RenamedTree
    <3>2. tree' \in Moved(tree, req.src, Front(req.dst)) => IsTree(tree')
      BY <2>1, RequestIs, MovedTree
    <3> QED
      BY <2>1, <3>1, <3>2
  <2>3. l \in {"idle", "delete", "call", "rename", "done"}
    OBVIOUS
  <2> HIDE DEF l
  <2>4. /\ req' \in RequestType /\ req'.kind = req.kind
        /\ req'.src = req.src /\ req'.dst = req.dst
    BY <2>1, <2>3, RequestIs, GotoIs
  <2> QED
    BY <2>1, <2>2, <2>4, Kept DEF TreeInv
<1>4. CASE DavCopy
  <2> DEFINE l == IF Last(req.src) = Last(req.dst) THEN "done" ELSE "rename"
             ns == <<Last(req.src)>>
             s == Front(req.src)
             d == Front(req.dst)
  <2>1. req.pc # "idle" /\ DavGoto(l) /\ CopyEntries("dav", s, d, ns)
    BY <1>4 DEF DavCopy, Ready
  <2>2. l \in {"idle", "delete", "call", "rename", "done"}
    OBVIOUS
  <2>3. IsBatch(ns) /\ s \in Path /\ d \in Path /\ "dav" \in Callers
    BY <2>1, RequestIs, OneName DEF Callers
  <2> HIDE DEF l, ns, s, d
  <2>6. Sound
    BY <2>1, <2>3, CopyStep
  <2>7. /\ req' \in RequestType /\ req'.kind = req.kind
        /\ req'.src = req.src /\ req'.dst = req.dst
    BY <2>1, <2>2, RequestIs, GotoIs
  <2> QED
    BY <2>1, <2>6, <2>7 DEF TreeInv, Sound
<1>5. CASE DavRename
  <2> DEFINE a == Arrival(req.src, req.dst)
             n == Last(req.dst)
  <2>1. /\ req.pc # "idle" /\ DavGoto("done") /\ UNCHANGED accounts
        /\ tree' \in Renamed(tree, a, n)
    BY <1>5 DEF DavRename, Ready, unasked, Arrival
  <2>2. a \in Path /\ a # <<>> /\ n \in Name /\ IsTree(tree)
    BY <2>1, RequestIs
  <2> HIDE DEF a, n
  <2>3. IsTree(tree')
    BY <2>1, <2>2, RenamedTree
  <2>4. /\ req' \in RequestType /\ req'.kind = req.kind
        /\ req'.src = req.src /\ req'.dst = req.dst
    BY <2>1, RequestIs, GotoIs
  <2> QED
    BY <2>1, <2>3, <2>4, Kept DEF TreeInv
<1>6. CASE DavEnd
  <2>1. req' = NoRequest /\ tree' = tree /\ Forgone("dav") /\ "dav" \in Callers
    BY <1>6 DEF DavEnd, Ended, Callers
  <2> QED
    BY <2>1, NoRequestIs, ForgoneIs DEF TreeInv
<1> QED
  BY <1>1, <1>2, <1>3, <1>4, <1>5, <1>6 DEF WebDav

(* The request is as far as its label says: nothing is lost on the way, and  *)
(* what the label promises of the tree holds.                                *)
LEMMA BeginCareful ==
  ASSUME Setting, TreeInv, Careful, CarefulInv, NEW kind \in {"move", "copy"},
         NEW p \in Paths(tree) \cup {<<n>> : n \in Chosen}, NEW d \in Dirs(tree),
         NEW n \in Chosen, NEW overwrite \in BOOLEAN, DavBegin(kind, p, Append(d, n), overwrite)
  PROVE  CarefulInv' /\ NothingVanishes
<1> DEFINE q == Append(d, n)
<1>0. IsTree(tree) /\ Unique(tree)
  BY DEF TreeInv, CarefulInv
<1>1. /\ p \in Path /\ q \in Path
      /\ req'.pc = (IF Exists(tree, q) THEN "delete" ELSE "call")
      /\ req'.kind = kind /\ req'.src = p /\ req'.dst = q /\ req'.start = tree
  BY BeginSound
<1>2. /\ tree' = tree /\ UNCHANGED accounts /\ deleted' = deleted /\ q # <<>>
      /\ p # q /\ IsDir(tree, Front(q)) /\ (IsDir(tree, p) => ~IsStrictPrefix(p, q))
      /\ \/ Front(p) = Front(q) /\ kind = "move"
         \/ Last(p) = Last(q)
         \/ ~Exists(tree, Append(Front(q), Last(p)))
  BY DEF DavBegin, unasked
<1> HIDE DEF q
<1>3. Admitted(tree, kind, p, q)
  BY <1>0, <1>2 DEF Admitted, Arrival
<1>4. ~Exists(tree, q) => Without(tree, q) = tree
  <2>1. ~Exists(tree, q) => \A e \in tree : ~IsPrefix(q, e.path)
    BY <1>0, <1>1, <1>2, NothingBelow
  <2> QED
    BY <2>1 DEF Without, Subtree
<1>5. DavInv'
  BY <1>1, <1>2, <1>3, <1>4 DEF DavInv
<1> QED
  BY <1>0, <1>2, <1>5, Kept DEF CarefulInv, NothingVanishes

LEMMA WebDavCareful ==
  ASSUME Setting, TreeInv, Careful, CarefulInv, WebDav
  PROVE  CarefulInv' /\ NothingVanishes
<1>1. ASSUME NEW kind \in {"move", "copy"}, NEW p \in Paths(tree) \cup {<<n>> : n \in Chosen},
             NEW d \in Dirs(tree), NEW n \in Chosen, NEW overwrite \in BOOLEAN,
             DavBegin(kind, p, Append(d, n), overwrite)
      PROVE  CarefulInv' /\ NothingVanishes
  BY <1>1, BeginCareful
<1> DEFINE start == req.start
           src == req.src
           dst == req.dst
           t == Without(start, dst)
<1>0. ASSUME req.pc # "idle"
      PROVE  /\ src \in Path /\ src # <<>> /\ dst \in Path /\ dst # <<>>
             /\ Admitted(start, req.kind, src, dst)
  BY <1>0, RequestIs DEF CarefulInv, DavInv
<1>a. Unique(tree) /\ SizeCounted
  BY DEF CarefulInv
<1>2. CASE DavDelete
  <2>1. req.pc = "delete" /\ DeleteEntry("dav", dst) /\ DavGoto("call") /\ "dav" \in Callers
    BY <1>2 DEF DavDelete, Callers
  <2>2. Safe
    BY <1>0, <1>a, <2>1, DeleteStep
  <2>3. tree' = t
    BY <2>1 DEF DeleteEntry, CarefulInv, DavInv
  <2>4. /\ req'.pc = "call" /\ req'.kind = req.kind
        /\ req'.src = src /\ req'.dst = dst /\ req'.start = start
    BY <2>1, RequestIs, GotoIs
  <2>5. DavInv'
    BY <1>0, <2>1, <2>3, <2>4 DEF DavInv
  <2> QED
    BY <1>a, <2>2, <2>5 DEF CarefulInv, Safe
<1>3. CASE DavMove
  <2> DEFINE l == IF Front(src) = Front(dst) \/ Last(src) = Last(dst) THEN "done" ELSE "rename"
  <2>1. /\ req.pc = "call" /\ req.kind = "move" /\ DavGoto(l) /\ UNCHANGED accounts
        /\ tree' \in IF Front(src) = Front(dst) THEN Renamed(tree, src, Last(dst))
                     ELSE Moved(tree, src, Front(dst))
    BY <1>3 DEF DavMove, Ready, unasked
  <2>2. tree = t
    BY <2>1 DEF CarefulInv, DavInv
  <2>3. /\ req'.pc = l /\ req'.kind = "move"
        /\ req'.src = src /\ req'.dst = dst /\ req'.start = start
    BY <2>1, RequestIs, GotoIs
  <2>4. /\ src \in Path /\ src # <<>> /\ dst \in Path /\ dst # <<>>
        /\ Admitted(start, "move", src, dst)
        /\ tree' \in IF Front(src) = Front(dst) THEN Renamed(t, src, Last(dst))
                     ELSE Moved(t, src, Front(dst))
    BY <1>0, <2>1, <2>2
  <2> HIDE DEF start, src, dst
  <2>5. /\ Unique(tree') /\ Contents(tree') = Contents(t) /\ FileCount(tree') = FileCount(t)
        /\ IF Front(src) = Front(dst) \/ Last(src) = Last(dst)
           THEN tree' = Placed(start, "move", src, dst, dst)
           ELSE /\ ~Exists(start, Arrival(src, dst))
                /\ tree' = Placed(start, "move", src, dst, Arrival(src, dst))
    BY <2>4, MoveCall
  <2>6. DavInv'
    BY <2>3, <2>4, <2>5 DEF DavInv
  <2> HIDE DEF t, l
  <2> QED
    BY <1>a, <2>1, <2>2, <2>5, <2>6, Kept DEF CarefulInv, NothingVanishes
<1>4. CASE DavCopy
  <2> DEFINE l == IF Last(src) = Last(dst) THEN "done" ELSE "rename"
             ns == <<Last(src)>>
             s == Front(src)
             d == Front(dst)
  <2>1. /\ req.pc = "call" /\ req.kind = "copy" /\ DavGoto(l)
        /\ CopyEntries("dav", s, d, ns) /\ tree' \in Copied(tree, s, d, ns)
    BY <1>4 DEF DavCopy, Ready, CopyEntries
  <2>2. tree = t
    BY <2>1 DEF CarefulInv, DavInv
  <2>3. /\ req'.pc = l /\ req'.kind = "copy"
        /\ req'.src = src /\ req'.dst = dst /\ req'.start = start
    BY <2>1, RequestIs, GotoIs
  <2>4. /\ src \in Path /\ src # <<>> /\ dst \in Path /\ dst # <<>>
        /\ Admitted(start, "copy", src, dst) /\ tree' \in Copied(t, s, d, ns)
    BY <1>0, <2>1, <2>2
  <2> HIDE DEF start, src, dst
  <2>5. /\ tree' = Placed(start, "copy", src, dst, Arrival(src, dst))
        /\ Last(src) # Last(dst) => ~Exists(start, Arrival(src, dst))
        /\ Last(src) = Last(dst) => Arrival(src, dst) = dst
    BY <2>4, CopyCall, ArrivalIs
  <2>6. DavInv'
    BY <2>3, <2>4, <2>5 DEF DavInv
  <2>7. s \in Path /\ d \in Path /\ IsBatch(ns) /\ "dav" \in Callers
    BY <2>4, ArrivalIs, OneName DEF Callers
  <2> HIDE DEF ns, s, d
  <2>8. Safe
    BY <1>a, <2>1, <2>7, CopyStep
  <2> QED
    BY <1>a, <2>6, <2>8 DEF CarefulInv, Safe
<1>5. CASE DavRename
  <2> DEFINE a == Arrival(src, dst)
  <2>1. /\ req.pc = "rename" /\ DavGoto("done") /\ UNCHANGED accounts
        /\ tree' \in Renamed(tree, a, Last(dst))
    BY <1>5 DEF DavRename, Ready, unasked, Arrival
  <2>2. /\ Last(src) # Last(dst) /\ ~Exists(start, a) /\ IsTree(tree)
        /\ tree = Placed(start, req.kind, src, dst, a)
    BY <2>1 DEF CarefulInv, DavInv, TreeInv
  <2>3. /\ req'.pc = "done" /\ req'.kind = req.kind
        /\ req'.src = src /\ req'.dst = dst /\ req'.start = start
    BY <2>1, RequestIs, GotoIs
  <2>4. /\ src \in Path /\ src # <<>> /\ dst \in Path /\ dst # <<>>
        /\ Admitted(start, req.kind, src, dst)
    BY <1>0, <2>1
  <2> HIDE DEF start, src, dst
  <2>5. /\ Unique(tree') /\ Contents(tree') = Contents(tree) /\ FileCount(tree') = FileCount(tree)
        /\ tree' = Placed(start, req.kind, src, dst, dst)
    BY <1>a, <2>1, <2>2, <2>4, RenameCall
  <2>6. DavInv'
    BY <2>3, <2>4, <2>5 DEF DavInv
  <2> QED
    BY <1>a, <2>1, <2>5, <2>6, Kept DEF CarefulInv, NothingVanishes
<1>6. CASE DavEnd
  <2>1. req' = NoRequest /\ tree' = tree /\ Forgone("dav") /\ "dav" \in Callers
    BY <1>6 DEF DavEnd, Ended, Callers
  <2>2. DavInv'
    BY <2>1, NoRequestIs DEF DavInv
  <2> QED
    BY <1>a, <2>1, <2>2, ForgoneIs DEF CarefulInv, NothingVanishes
<1> QED
  BY <1>1, <1>2, <1>3, <1>4, <1>5, <1>6 DEF WebDav

-----------------------------------------------------------------------------
(* The library as it begins *)
LEMMA BeginsAsTree ==
  ASSUME Setting
  PROVE  IsTree(InitialTree) /\ Unique(InitialTree)
<1>1. Seq(Seq(STRING)) \subseteq Path
  <2>1. ASSUME NEW S, NEW T, S \subseteq T
        PROVE  Seq(S) \subseteq Seq(T)
    BY <2>1
  <2>2. Seq(STRING) \subseteq Name
    BY <2>1 DEF Name
  <2> QED
    BY <2>1, <2>2 DEF Path
<1>2. InitialTree \subseteq Entry
  <2>1. ASSUME NEW e \in InitialTree
        PROVE  e \in Entry
    <3>1. e \in [path : Seq(Seq(STRING)) \ {<<>>}, id : STRING]
      BY DEF Setting
    <3>2. e.path \in Path /\ e.path # <<>> /\ e.id \in Ids /\ e = [path |-> e.path, id |-> e.id]
      BY <1>1, <3>1 DEF Ids
    <3> QED
      BY <3>2, EntryMade
  <2> QED
    BY <2>1
<1>3. ASSUME NEW e \in InitialTree, NEW q \in Path, IsStrictPrefix(q, e.path)
      PROVE  IsDir(InitialTree, q)
  <2>1. e.path \in Path
    BY <1>2, EntryIs
  <2>2. IsPrefix(q, e.path) /\ q # e.path
    BY <1>3 DEF IsStrictPrefix
  <2>3. Len(q) <= Len(e.path) /\ SubSeq(q, 1, Len(q)) = SubSeq(e.path, 1, Len(q))
    BY <2>2 DEF IsPrefix
  <2>4. SubSeq(q, 1, Len(q)) = q /\ SubSeq(e.path, 1, Len(e.path)) = e.path
    BY <2>1, SubSeqFull DEF Path
  <2>5. Len(q) \in Nat /\ Len(e.path) \in Nat /\ Len(q) # Len(e.path)
    BY <2>1, <2>2, <2>3, <2>4, LenProperties DEF Path
  <2>6. CASE Len(q) = 0
    BY <2>6, EmptySeq DEF IsDir, Path
  <2>7. CASE Len(q) # 0
    <3>1. Len(q) \in 1..(Len(e.path) - 1)
      BY <2>3, <2>5, <2>7
    <3>2. IsDir(InitialTree, SubSeq(e.path, 1, Len(q)))
      BY <3>1 DEF Setting
    <3> QED
      BY <2>3, <2>4, <3>2
  <2> QED
    BY <2>6, <2>7
<1> QED
  BY <1>2, <1>3 DEF IsTree, Rooted, Unique, Setting

LEMMA InitInv ==
  ASSUME Setting, Init
  PROVE  TreeInv /\ CarefulInv
<1>1. IsTree(tree) /\ Unique(tree)
  BY BeginsAsTree DEF Init
<1>2. req \in RequestType /\ req.pc = "idle"
  BY NoRequestIs DEF Init
<1>3. size = FileCount(tree)
  BY DEF Init, FileCount
<1>4. FileCount(tree) \in Nat
  BY <1>1, CountPruned DEF IsTree
<1>5. DavInv
  BY <1>2 DEF DavInv
<1>6. /\ owing = {} /\ due = [c \in Callers |-> 0] /\ drifted = FALSE
      /\ due["rest"] = 0 /\ due["dav"] = 0
  BY DEF Init, Callers
<1>7. Accounts
  <2>1. size \in Nat
    BY <1>3, <1>4
  <2>2. due \in [Callers -> Int] /\ \A c \in Callers : due[c] = 0
    BY <1>6
  <2> QED
    BY <1>6, <2>1, <2>2, Zenon DEF Accounts
<1>8. SizeCounted
  BY <1>3, <1>4, <1>6 DEF SizeCounted
<1> QED
  BY <1>1, <1>2, <1>5, <1>7, <1>8 DEF TreeInv, CarefulInv

LEMMA NextTreeInv ==
  ASSUME Setting, TreeInv, [Next]_vars
  PROVE  TreeInv'
<1>1. CASE Request
  BY <1>1, RequestStep DEF TreeInv, Sound
<1>2. CASE WebDav
  BY <1>2, WebDavSound
<1>3. CASE Accounting
  BY <1>3, AccountingStep
<1>4. CASE UNCHANGED vars
  <2>1. UNCHANGED <<tree, req>> /\ UNCHANGED accounts
    BY <1>4 DEF vars
  <2> QED
    BY <2>1, Kept DEF TreeInv
<1> QED
  BY <1>1, <1>2, <1>3, <1>4 DEF Next

LEMMA NextCarefulInv ==
  ASSUME Setting, Careful, TreeInv, CarefulInv, [Next]_vars
  PROVE  CarefulInv' /\ (Next => NothingVanishes)
<1>1. CASE Request
  <2>1. Safe /\ req' = req /\ req.pc = "idle"
    BY <1>1, RequestStep DEF CarefulInv
  <2>2. DavInv'
    BY <2>1 DEF DavInv
  <2> QED
    BY <2>1, <2>2 DEF CarefulInv, Safe
<1>2. CASE WebDav
  BY <1>2, WebDavCareful
<1>3. CASE Accounting
  BY <1>3, AccountingStep
<1>4. CASE UNCHANGED vars
  <2>1. UNCHANGED <<tree, deleted, req>> /\ UNCHANGED accounts
    BY <1>4 DEF vars
  <2>2. CarefulInv'
    BY <2>1, Kept DEF CarefulInv, DavInv
  <2>3. NothingVanishes
    BY <2>1 DEF NothingVanishes
  <2> QED
    BY <2>2, <2>3
<1> QED
  BY <1>1, <1>2, <1>3, <1>4 DEF Next

-----------------------------------------------------------------------------
LEMMA TreeTypes == TreeInv => TypeOK
<1> SUFFICES ASSUME TreeInv
             PROVE  TypeOK
  OBVIOUS
<1>1. ASSUME NEW e \in tree
      PROVE  e.path # <<>> /\ IsDir(tree, Front(e.path))
  <2>1. IsTree(tree) /\ e.path \in Path /\ e.path # <<>> /\ Exists(tree, e.path)
    BY EntryIs DEF TreeInv, IsTree, Exists
  <2> QED
    BY <2>1, ParentStays
<1> QED
  BY <1>1 DEF TreeInv, Accounts, TypeOK, RequestType

(* Whatever clients do, and however their requests and WebDAV calls overlap, *)
(* every entry hangs in a directory and the stored size is a size.           *)
THEOREM TypeCorrectness ==
  ASSUME Setting
  PROVE  Spec => []TypeOK
<1>1. Init => TreeInv
  BY InitInv
<1>2. TreeInv /\ [Next]_vars => TreeInv'
  BY NextTreeInv
<1> QED
  BY <1>1, <1>2, TreeTypes, PTL DEF Spec

LEMMA Invariance ==
  ASSUME Setting, Careful
  PROVE  Spec => [](TreeInv /\ CarefulInv)
<1>1. Init => TreeInv /\ CarefulInv
  BY InitInv
<1>2. TreeInv /\ CarefulInv /\ [Next]_vars => TreeInv' /\ CarefulInv'
  BY NextTreeInv, NextCarefulInv
<1> QED
  BY <1>1, <1>2, PTL DEF Spec

(* Clients that choose free names never see two entries of one name, in any  *)
(* directory and after any sequence of renames, moves, copies and batches    *)
(* (rename_entry, batch_move).                                               *)
THEOREM NamesStayUnique ==
  ASSUME Setting, Careful
  PROVE  Spec => []UniqueNames
<1>1. TreeInv /\ CarefulInv => UniqueNames
  BY DEF CarefulInv, Unique, UniqueNames
<1> QED
  BY <1>1, Invariance, PTL

(* A MOVE or COPY that was answered with success has put the source where   *)
(* the client wanted it and left all else alone, although it is up to three *)
(* calls by name (move_copy_handler).                                       *)
THEOREM WebDavKeepsItsPromise ==
  ASSUME Setting, Careful
  PROVE  Spec => []WebDavDone
<1>1. TreeInv /\ CarefulInv => WebDavDone
  BY DEF CarefulInv, DavInv, Placed, WebDavDone
<1> QED
  BY <1>1, Invariance, PTL

(* The stored size and the adjustments on their way add up to the size of   *)
(* the tree, however commits and adjustments of a request and a WebDAV      *)
(* request overlap, until an adjustment is lost, two of them meet at a size *)
(* of zero or a directory is copied (adjust_repo_size).                     *)
THEOREM SizeIsExact ==
  ASSUME Setting, Careful
  PROVE  Spec => []SizeCounted
<1>1. TreeInv /\ CarefulInv => SizeCounted
  BY DEF CarefulInv
<1> QED
  BY <1>1, Invariance, PTL

(* Nothing but a delete takes content out of the library, which the trash   *)
(* then has (move_entry, batch_move, do_move).                              *)
THEOREM ContentStays ==
  ASSUME Setting, Careful
  PROVE  Spec => [][NothingVanishes]_vars
<1>1. TreeInv /\ CarefulInv /\ [Next]_vars => [NothingVanishes]_vars
  BY NextCarefulInv
<1> QED
  BY <1>1, Invariance, PTL DEF Spec
=============================================================================
