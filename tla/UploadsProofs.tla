--------------------------- MODULE UploadsProofs ---------------------------
(***************************************************************************)
(* Proofs about Uploads, for any number of uploads, chunks and troubles.   *)
(* While no upload loses its entry half-way, what is committed is what the *)
(* client sent, and the size of a library that was not empty is that of    *)
(* its files.  The types hold in any case.                                 *)
(***************************************************************************)
EXTENDS Uploads, SequenceTheorems, FiniteSetTheorems, WellFoundedInduction, TLAPS

USE DEF server, local, vars

Entries == [open : BOOLEAN, file : SUBSET Chunks, stream : Seq(Nat), broken : BOOLEAN]
Labels == {"none", "admit", "reserve", "write", "feed", "take", "assemble", "check",
           "commit", "size", "walk", "charge", "finish", "reply"}

Types ==
  /\ entry \in [Files -> Entries]
  /\ reserved \in Nat /\ usage \in Nat
  /\ saved \in [Files -> Seq(Seq(Nat))]
  /\ next \in [Files -> 1 .. (NChunks + 1)]
  /\ req \in [Files -> Labels]
  /\ ids \in [Files -> Seq(Nat)]
  /\ delta \in [Files -> Nat]
  /\ gaveUp \subseteq Files

(* An entry that is not open is empty, and a request carries a chunk. *)
BaseInv ==
  /\ Types
  /\ \A f \in Files : /\ entry[f].open \/ entry[f] = NoEntry
                      /\ req[f] # "none" => next[f] \in Chunks

-----------------------------------------------------------------------------
(* The sum over the files, as the number of committed pairs of a file and   *)
(* its version                                                              *)

Pairs(lens, s) == {p \in s \X Nat : p[2] \in 1 .. lens[p[1]]}
Lens == [f \in Files |-> Len(saved[f])]
Any(s) == CHOOSE x \in s : TRUE

LEMMA PairsFinite ==
  ASSUME Setting, NEW lens \in [Files -> Nat], NEW s \in SUBSET Files
  PROVE  IsFiniteSet(Pairs(lens, s)) /\ Cardinality(Pairs(lens, s)) \in Nat
<1>1. IsFiniteSet(s)
  BY FS_Subset DEF Setting
<1> DEFINE Slice(f) == {f} \X (1 .. lens[f])
<1>2. \A f \in Files : IsFiniteSet(Slice(f))
  <2> SUFFICES ASSUME NEW f \in Files
               PROVE  IsFiniteSet(Slice(f))
    OBVIOUS
  <2>1. IsFiniteSet({f})
    BY FS_Singleton
  <2>2. lens[f] \in Int
    OBVIOUS
  <2>3. IsFiniteSet(1 .. lens[f])
    BY <2>2, FS_Interval
  <2> QED
    BY <2>1, <2>3, FS_Product
<1>3. PICK g : g = [f \in s |-> Slice(f)]
  OBVIOUS
<1>4. PICK slices : slices = {g[f] : f \in s}
  OBVIOUS
<1>5. IsFiniteSet(slices)
  <2>1. g \in Surjection(s, slices)
    BY <1>3, <1>4 DEF Surjection
  <2> QED
    BY <1>1, <2>1, FS_Surjection
<1>6. IsFiniteSet(UNION slices)
  BY <1>2, <1>3, <1>4, <1>5, FS_UNION
<1>7. Pairs(lens, s) \subseteq UNION slices
  BY <1>3, <1>4 DEF Pairs
<1> QED
  BY <1>6, <1>7, FS_Subset, FS_CardinalityType

(* One file's versions and those of the others. *)
LEMMA PairsSplit ==
  ASSUME Setting, NEW lens \in [Files -> Nat], NEW s \in SUBSET Files, NEW c \in s
  PROVE  Cardinality(Pairs(lens, s)) = lens[c] + Cardinality(Pairs(lens, s \ {c}))
<1>1. PICK here : here = {c} \X (1 .. lens[c])
  OBVIOUS
<1>2. PICK rest : rest = Pairs(lens, s \ {c})
  OBVIOUS
<1>3. Pairs(lens, s) = here \cup rest /\ here \cap rest = {}
  BY <1>1, <1>2 DEF Pairs
<1>4. IsFiniteSet(here) /\ Cardinality(here) = lens[c]
  <2>1. IsFiniteSet({c}) /\ Cardinality({c}) = 1
    BY FS_Singleton
  <2>2. IsFiniteSet(1 .. lens[c]) /\ Cardinality(1 .. lens[c]) = lens[c]
    BY FS_Interval
  <2>3. IsFiniteSet(here) /\ Cardinality(here) = Cardinality({c}) * Cardinality(1 .. lens[c])
    BY <1>1, <2>1, <2>2, FS_Product
  <2> QED
    BY <2>1, <2>2, <2>3
<1>5. IsFiniteSet(rest) /\ Cardinality(rest) \in Nat
  BY <1>2, PairsFinite
<1>6. Cardinality(here \cup rest) = Cardinality(here) + Cardinality(rest) - Cardinality({})
  BY <1>3, <1>4, <1>5, FS_Union
<1> QED
  BY <1>2, <1>3, <1>4, <1>5, <1>6, FS_EmptySet

(* g adds up the numbers of versions of every set of files. *)
Adds(g) == g = [s \in SUBSET Files |->
                  IF s = {} THEN 0 ELSE Len(saved[Any(s)]) + g[s \ {Any(s)}]]

LEMMA PairsAdd ==
  ASSUME Setting, Types
  PROVE  Adds([s \in SUBSET Files |-> Cardinality(Pairs(Lens, s))])
<1>1. Lens \in [Files -> Nat]
  BY DEF Lens, Types
<1>2. PICK g : g = [s \in SUBSET Files |-> Cardinality(Pairs(Lens, s))]
  OBVIOUS
<1>3. ASSUME NEW s \in SUBSET Files
      PROVE  g[s] = IF s = {} THEN 0 ELSE Len(saved[Any(s)]) + g[s \ {Any(s)}]
  <2>1. CASE s = {}
    <3>1. Pairs(Lens, s) = {}
      BY <2>1 DEF Pairs
    <3> QED
      BY <1>2, <2>1, <3>1, FS_EmptySet
  <2>2. CASE s # {}
    <3>1. Any(s) \in s
      BY <2>2 DEF Any
    <3>2. g[s \ {Any(s)}] = Cardinality(Pairs(Lens, s \ {Any(s)}))
      BY <1>2
    <3>3. Lens[Any(s)] = Len(saved[Any(s)])
      BY <3>1 DEF Lens
    <3> QED
      BY <1>1, <1>2, <2>2, <3>1, <3>2, <3>3, PairsSplit
  <2> QED
    BY <2>1, <2>2
<1>4. g = [s \in SUBSET Files |-> IF s = {} THEN 0 ELSE Len(saved[Any(s)]) + g[s \ {Any(s)}]]
  BY <1>2, <1>3
<1> QED
  BY <1>2, <1>4 DEF Adds

(* There is one such function: two would differ on a smallest set. *)
LEMMA AddsUnique ==
  ASSUME Setting, NEW g, NEW h, Adds(g), Adds(h)
  PROVE  g[Files] = h[Files]
<1> SUFFICES ASSUME g[Files] # h[Files]
             PROVE  FALSE
  OBVIOUS
<1>1. PICK T : T = {s \in SUBSET Files : g[s] # h[s]}
  OBVIOUS
<1>2. T \subseteq SUBSET Files /\ T # {}
  BY <1>1
<1>3. IsWellFoundedOn(StrictSubsetOrdering(Files), SUBSET Files)
  BY FS_StrictSubsetOrderingWellFounded, FS_FiniteSubsetsOfFinite DEF Setting
<1>4. PICK s \in T : \A r \in T : <<r, s>> \notin StrictSubsetOrdering(Files)
  BY <1>2, <1>3, WFMin
<1>5. s # {}
  BY <1>1, <1>2 DEF Adds
<1>6. Any(s) \in s
  BY <1>5 DEF Any
<1>7. s \ {Any(s)} \notin T
  BY <1>2, <1>4, <1>6 DEF StrictSubsetOrdering
<1>8. g[s \ {Any(s)}] = h[s \ {Any(s)}]
  BY <1>1, <1>2, <1>7
<1>9. g[s] = h[s]
  BY <1>2, <1>5, <1>8 DEF Adds
<1> QED
  BY <1>1, <1>9

(* The walk over the tree counts every committed version of every file. *)
LEMMA TreeSizeCounts ==
  ASSUME Setting, Types
  PROVE  /\ TreeSize = InitialSize + NChunks * Cardinality(Pairs(Lens, Files))
         /\ TreeSize \in Nat
<1>1. PICK g : g = CHOOSE iter : iter = [s \in SUBSET Files |->
                 IF s = {} THEN 0
                 ELSE Len(saved[CHOOSE x \in s : TRUE]) + iter[s \ {CHOOSE x \in s : TRUE}]]
  OBVIOUS
<1>2. TreeSize = InitialSize + NChunks * g[Files]
  BY <1>1 DEF TreeSize, MapThenSumSet, MapThenFoldSet
<1>3. \E h : Adds(h)
  BY PairsAdd
<1>4. Adds(g)
  BY <1>1, <1>3, Zenon DEF Adds, Any
<1>5. PICK h : h = [s \in SUBSET Files |-> Cardinality(Pairs(Lens, s))]
  OBVIOUS
<1>6. Adds(h)
  BY <1>5, PairsAdd
<1>7. g[Files] = Cardinality(Pairs(Lens, Files))
  BY <1>4, <1>5, <1>6, AddsUnique
<1>8. Cardinality(Pairs(Lens, Files)) \in Nat
  <2>1. Lens \in [Files -> Nat]
    BY DEF Lens, Types
  <2> QED
    BY <2>1, PairsFinite
<1>9. NChunks * Cardinality(Pairs(Lens, Files)) \in Nat
  BY <1>8 DEF Setting
<1> QED
  BY <1>2, <1>7, <1>9 DEF Setting

-----------------------------------------------------------------------------
(* The types *)

LEMMA EntryFacts ==
  ASSUME Setting
  PROVE  /\ NoEntry \in Entries /\ ~NoEntry.open /\ NoEntry.stream = <<>> /\ NoEntry.file = {}
         /\ \A e \in Entries : [e EXCEPT !.open = TRUE] \in Entries
         /\ \A e \in Entries : [e EXCEPT !.broken = TRUE] \in Entries
         /\ \A e \in Entries, i \in Chunks : [e EXCEPT !.file = @ \cup {i}] \in Entries
         /\ \A e \in Entries, i \in Chunks : [e EXCEPT !.stream = Append(@, i)] \in Entries
<1>1. NoEntry \in Entries /\ ~NoEntry.open /\ NoEntry.stream = <<>> /\ NoEntry.file = {}
  BY DEF NoEntry, Entries
<1>2. \A e \in Entries : [e EXCEPT !.open = TRUE] \in Entries
  BY DEF Entries
<1>3. \A e \in Entries : [e EXCEPT !.broken = TRUE] \in Entries
  BY DEF Entries
<1>4. \A e \in Entries, i \in Chunks : [e EXCEPT !.file = @ \cup {i}] \in Entries
  BY DEF Entries
<1>5. ASSUME NEW e \in Entries, NEW i \in Chunks
      PROVE  [e EXCEPT !.stream = Append(@, i)] \in Entries
  <2>1. Append(e.stream, i) \in Seq(Nat)
    BY DEF Entries, Chunks, Setting
  <2> QED
    BY <2>1 DEF Entries
<1> QED
  BY <1>1, <1>2, <1>3, <1>4, <1>5

(* What an action may do to the entry of f. *)
EntryStep(f) ==
  \/ UNCHANGED entry
  \/ entry' = [entry EXCEPT ![f] = NoEntry]
  \/ entry' = [entry EXCEPT ![f] = [entry[f] EXCEPT !.open = TRUE]]
  \/ Open(f) /\ entry' = [entry EXCEPT ![f] = [entry[f] EXCEPT !.broken = TRUE]]
  \/ Open(f) /\ next[f] \in Chunks
     /\ entry' = [entry EXCEPT ![f] = [entry[f] EXCEPT !.file = @ \cup {next[f]}]]
  \/ /\ Open(f) /\ next[f] \in Chunks /\ next[f] = Len(entry[f].stream) + 1
     /\ entry' = [entry EXCEPT ![f] = [entry[f] EXCEPT !.stream = Append(@, next[f])]]

LEMMA EntryTyped ==
  ASSUME Setting, BaseInv, NEW f \in Files, EntryStep(f)
  PROVE  /\ entry' \in [Files -> Entries]
         /\ \A g \in Files : entry'[g].open \/ entry'[g] = NoEntry
<1>1. entry \in [Files -> Entries] /\ \A g \in Files : entry[g].open \/ entry[g] = NoEntry
  BY DEF BaseInv, Types
<1>2. CASE UNCHANGED entry
  BY <1>1, <1>2
<1>3. ASSUME NEW e \in Entries, e.open \/ e = NoEntry, entry' = [entry EXCEPT ![f] = e]
      PROVE  /\ entry' \in [Files -> Entries]
             /\ \A g \in Files : entry'[g].open \/ entry'[g] = NoEntry
  BY <1>1, <1>3
<1>4. CASE entry' = [entry EXCEPT ![f] = NoEntry]
  BY <1>3, <1>4, EntryFacts
<1>5. CASE entry' = [entry EXCEPT ![f] = [entry[f] EXCEPT !.open = TRUE]]
  <2>1. PICK e : e = [entry[f] EXCEPT !.open = TRUE]
    OBVIOUS
  <2>2. e \in Entries /\ e.open
    BY <1>1, <2>1, EntryFacts DEF Entries
  <2> QED
    BY <1>3, <1>5, <2>1, <2>2
<1>6. CASE Open(f) /\ entry' = [entry EXCEPT ![f] = [entry[f] EXCEPT !.broken = TRUE]]
  <2>1. PICK e : e = [entry[f] EXCEPT !.broken = TRUE]
    OBVIOUS
  <2>2. e \in Entries /\ e.open
    BY <1>1, <1>6, <2>1, EntryFacts DEF Entries, Open
  <2> QED
    BY <1>3, <1>6, <2>1, <2>2
<1>7. CASE Open(f) /\ next[f] \in Chunks
           /\ entry' = [entry EXCEPT ![f] = [entry[f] EXCEPT !.file = @ \cup {next[f]}]]
  <2>1. PICK e : e = [entry[f] EXCEPT !.file = @ \cup {next[f]}]
    OBVIOUS
  <2>2. e \in Entries /\ e.open
    BY <1>1, <1>7, <2>1, EntryFacts DEF Entries, Open
  <2> QED
    BY <1>3, <1>7, <2>1, <2>2
<1>8. CASE Open(f) /\ next[f] \in Chunks
           /\ entry' = [entry EXCEPT ![f] = [entry[f] EXCEPT !.stream = Append(@, next[f])]]
  <2>1. PICK e : e = [entry[f] EXCEPT !.stream = Append(@, next[f])]
    OBVIOUS
  <2>2. e \in Entries /\ e.open
    BY <1>1, <1>8, <2>1, EntryFacts DEF Entries, Open
  <2> QED
    BY <1>3, <1>8, <2>1, <2>2
<1> QED
  BY <1>2, <1>4, <1>5, <1>6, <1>7, <1>8 DEF EntryStep

(* Every step of f does one of these to its entry. *)
LEMMA EntrySteps ==
  ASSUME BaseInv, NEW f \in Files, Client(f) \/ Handle(f) \/ CleanupStale(f)
  PROVE  EntryStep(f)
<1>1. entry \in [Files -> Entries] /\ (req[f] # "none" => next[f] \in Chunks)
  BY DEF BaseInv, Types
<1>2. CASE Client(f)
  BY <1>2 DEF Client, Send, GiveUp, EntryStep
<1>3. CASE CleanupStale(f)
  BY <1>3 DEF CleanupStale, EntryStep
<1>4. CASE GetOrCreate(f)
  BY <1>1, <1>4 DEF GetOrCreate, EntryStep
<1>5. CASE WriteChunk(f)
  BY <1>1, <1>5 DEF WriteChunk, EntryStep
<1>6. CASE FeedStream(f)
  BY <1>1, <1>6 DEF FeedStream, EntryStep
<1>7. CASE TakeStreamedBlocks(f)
  BY <1>1, <1>7 DEF TakeStreamedBlocks, EntryStep
<1>8. CASE Assemble(f) \/ Finish(f)
  BY <1>8 DEF Assemble, Finish, EntryStep
<1>9. CASE \/ Reserve(f) \/ CheckUploadQuota(f) \/ CommitFile(f) \/ ReadSize(f) \/ WalkTree(f)
           \/ Charge(f) \/ Reply(f)
  BY <1>9 DEF Reserve, CheckUploadQuota, CommitFile, ReadSize, WalkTree, Charge, Reply, EntryStep
<1> QED
  BY <1>2, <1>3, <1>4, <1>5, <1>6, <1>7, <1>8, <1>9 DEF Handle

(* What the requests add to the accounts is a number. *)
LEMMA AccountsTyped ==
  ASSUME Setting, BaseInv, NEW f \in Files, Client(f) \/ Handle(f) \/ CleanupStale(f)
  PROVE  reserved' \in Nat /\ usage' \in Nat /\ delta' \in [Files -> Nat]
<1>1. /\ reserved \in Nat /\ usage \in Nat /\ delta \in [Files -> Nat] /\ delta[f] \in Nat
      /\ NChunks \in Nat /\ TreeSize \in Nat
  BY TreeSizeCounts DEF BaseInv, Types, Setting
<1>2. CASE Client(f) \/ CleanupStale(f)
  BY <1>1, <1>2 DEF Client, Send, GiveUp, CleanupStale
<1>3. CASE GetOrCreate(f) \/ Reserve(f) \/ WriteChunk(f) \/ FeedStream(f) \/ TakeStreamedBlocks(f)
  BY <1>1, <1>3 DEF GetOrCreate, Reserve, WriteChunk, FeedStream, TakeStreamedBlocks
<1>4. CASE Assemble(f) \/ CheckUploadQuota(f) \/ CommitFile(f) \/ Finish(f) \/ Reply(f)
  BY <1>1, <1>4 DEF Assemble, CheckUploadQuota, CommitFile, Finish, Reply
<1>5. CASE ReadSize(f) \/ Charge(f)
  BY <1>1, <1>5 DEF ReadSize, Charge
<1>6. CASE WalkTree(f)
  BY <1>1, <1>6 DEF WalkTree
<1> QED
  BY <1>2, <1>3, <1>4, <1>5, <1>6 DEF Handle

(* What is committed is a sequence of blocks. *)
LEMMA BlocksTyped ==
  ASSUME Setting, BaseInv, NEW f \in Files, Client(f) \/ Handle(f) \/ CleanupStale(f)
  PROVE  ids' \in [Files -> Seq(Nat)] /\ saved' \in [Files -> Seq(Seq(Nat))]
<1>1. /\ ids \in [Files -> Seq(Nat)] /\ saved \in [Files -> Seq(Seq(Nat))]
      /\ <<>> \in Seq(Nat) /\ entry[f].stream \in Seq(Nat) /\ ids[f] \in Seq(Nat)
  BY DEF BaseInv, Types, Entries
<1>2. CASE Client(f) \/ CleanupStale(f)
  BY <1>1, <1>2 DEF Client, Send, GiveUp, CleanupStale
<1>3. CASE GetOrCreate(f) \/ Reserve(f) \/ WriteChunk(f) \/ FeedStream(f) \/ TakeStreamedBlocks(f)
  BY <1>1, <1>3 DEF GetOrCreate, Reserve, WriteChunk, FeedStream, TakeStreamedBlocks, Fail
<1>4. CASE CheckUploadQuota(f) \/ Finish(f) \/ Reply(f) \/ ReadSize(f) \/ WalkTree(f) \/ Charge(f)
  BY <1>1, <1>4 DEF CheckUploadQuota, Finish, Reply, ReadSize, WalkTree, Charge, Fail
<1>5. CASE CommitFile(f)
  <2>1. Append(saved[f], ids[f]) \in Seq(Seq(Nat))
    BY <1>1
  <2> QED
    BY <1>1, <1>5, <2>1 DEF CommitFile, Fail
<1>6. CASE Assemble(f)
  <2>1. PICK bs : bs = [i \in Chunks |-> IF i \in entry[f].file THEN i ELSE Hole]
    OBVIOUS
  <2>2. bs \in [1 .. NChunks -> Nat]
    BY <2>1 DEF Chunks, Hole, Setting
  <2>3. bs \in Seq(Nat)
    BY <2>2 DEF Setting
  <2>4. \/ ids' = [ids EXCEPT ![f] = bs]
        \/ ids' = [ids EXCEPT ![f] = <<>>]
    BY <1>6, <2>1 DEF Assemble, Fail
  <2>5. ids' \in [Files -> Seq(Nat)]
    BY <1>1, <2>3, <2>4
  <2> QED
    BY <1>1, <1>6, <2>5 DEF Assemble
<1> QED
  BY <1>2, <1>3, <1>4, <1>5, <1>6 DEF Handle

(* The control state of a request. *)
LEMMA ControlTyped ==
  ASSUME Setting, BaseInv, NEW f \in Files, Client(f) \/ Handle(f) \/ CleanupStale(f)
  PROVE  /\ next' \in [Files -> 1 .. (NChunks + 1)]
         /\ req' \in [Files -> Labels]
         /\ gaveUp' \subseteq Files
         /\ \A g \in Files : req'[g] # "none" => next'[g] \in Chunks
<1>1. /\ next \in [Files -> 1 .. (NChunks + 1)] /\ req \in [Files -> Labels]
      /\ gaveUp \subseteq Files /\ NChunks \in Nat
      /\ \A g \in Files : req[g] # "none" => next[g] \in Chunks
  BY DEF BaseInv, Types, Setting
<1>2. CASE Client(f) \/ CleanupStale(f)
  BY <1>1, <1>2 DEF Client, Send, GiveUp, CleanupStale, Goto, Labels
<1>3. CASE GetOrCreate(f) \/ Reserve(f) \/ WriteChunk(f)
  BY <1>1, <1>3 DEF GetOrCreate, Reserve, WriteChunk, Fail, Goto, Labels
<1>4. CASE FeedStream(f) \/ TakeStreamedBlocks(f)
  <2>1. PICK l \in {"take", "reply", "check", "assemble"} : req' = [req EXCEPT ![f] = l]
    BY <1>4 DEF FeedStream, AfterFeed, TakeStreamedBlocks, Goto
  <2>2. req[f] # "none" /\ UNCHANGED <<next, gaveUp>>
    BY <1>4 DEF FeedStream, TakeStreamedBlocks
  <2> QED
    BY <1>1, <2>1, <2>2 DEF Labels
<1>5. CASE Assemble(f) \/ CheckUploadQuota(f) \/ CommitFile(f)
  BY <1>1, <1>5 DEF Assemble, CheckUploadQuota, CommitFile, Fail, Goto, Labels
<1>6. CASE ReadSize(f) \/ WalkTree(f) \/ Charge(f) \/ Finish(f)
  BY <1>1, <1>6 DEF ReadSize, WalkTree, Charge, Finish, Fail, Goto, Labels
<1>7. CASE Reply(f)
  <2>1. next[f] \in 1 .. NChunks /\ req' = [req EXCEPT ![f] = "none"] /\ UNCHANGED gaveUp
    BY <1>1, <1>7 DEF Reply, Goto, Chunks
  <2>2. next' = next \/ next' = [next EXCEPT ![f] = @ + 1]
    BY <1>7 DEF Reply
  <2> QED
    BY <1>1, <2>1, <2>2 DEF Labels
<1> QED
  BY <1>2, <1>3, <1>4, <1>5, <1>6, <1>7 DEF Handle

LEMMA BaseInit ==
  ASSUME Setting, Init
  PROVE  BaseInv
<1>1. entry \in [Files -> Entries] /\ \A f \in Files : entry[f] = NoEntry
  BY EntryFacts DEF Init
<1>2. /\ next \in [Files -> 1 .. (NChunks + 1)] /\ req \in [Files -> Labels]
      /\ \A f \in Files : req[f] = "none"
  BY DEF Init, Labels, Setting
<1>3. ids \in [Files -> Seq(Nat)] /\ saved \in [Files -> Seq(Seq(Nat))]
  BY DEF Init
<1> QED
  BY <1>1, <1>2, <1>3 DEF Init, BaseInv, Types, Setting

LEMMA BaseNext ==
  ASSUME Setting, BaseInv, [Next]_vars
  PROVE  BaseInv'
<1>1. CASE UNCHANGED vars
  BY <1>1 DEF BaseInv, Types
<1>2. CASE Restart
  <2>1. entry' \in [Files -> Entries] /\ \A f \in Files : entry'[f] = NoEntry
    BY <1>2, EntryFacts DEF Restart
  <2>2. req' \in [Files -> Labels] /\ \A f \in Files : req'[f] = "none"
    BY <1>2 DEF Restart, Labels
  <2>3. ids' \in [Files -> Seq(Nat)] /\ delta' \in [Files -> Nat] /\ reserved' \in Nat
    BY <1>2 DEF Restart
  <2> QED
    BY <1>2, <2>1, <2>2, <2>3 DEF Restart, BaseInv, Types
<1>3. ASSUME NEW f \in Files, Client(f) \/ Handle(f) \/ CleanupStale(f)
      PROVE  BaseInv'
  BY <1>3, EntrySteps, EntryTyped, AccountsTyped, BlocksTyped, ControlTyped DEF BaseInv, Types
<1> QED
  BY <1>1, <1>2, <1>3 DEF Next

LEMMA BaseTypes == BaseInv => TypeOK
BY DEF BaseInv, Types, TypeOK, Entries, Open

(* The manager's entries, the accounts and the requests keep their types,   *)
(* whatever is lost half-way: in particular no release is paid back twice.  *)
THEOREM TypeCorrectness ==
  ASSUME Setting
  PROVE  Spec => []TypeOK
<1>1. Init => BaseInv
  BY BaseInit
<1>2. BaseInv /\ [Next]_vars => BaseInv'
  BY BaseNext
<1> QED
  BY <1>1, <1>2, BaseTypes, PTL DEF Spec

-----------------------------------------------------------------------------
(* What is committed, as long as no upload loses its entry half-way *)

AtLast == {"take", "assemble", "check", "commit", "size", "walk", "charge", "finish"}

(* The chunks before the next one are in the temp file, until the file is   *)
(* committed and the entry is gone; so is the next one, once written.       *)
Course(f) ==
  /\ req[f] # "none" => f \notin gaveUp
  /\ req[f] \in AtLast => next[f] = NChunks
  /\ f \notin gaveUp /\ next[f] \in Chunks /\ ~(req[f] = "reply" /\ next[f] = NChunks)
       => 1 .. (next[f] - 1) \subseteq entry[f].file
  /\ req[f] \in AtLast \cup {"feed"} \/ (req[f] = "reply" /\ next[f] # NChunks)
       => next[f] \in entry[f].file

(* What was streamed is a prefix of the file. *)
InStream(f) == \A i \in 1 .. Len(entry[f].stream) : entry[f].stream[i] = i

Collected(f) == req[f] \in {"check", "commit"} => ids[f] = Whole

Kept(f) == \A k \in 1 .. Len(saved[f]) : saved[f][k] = Whole

WholeInv == \A f \in Files : Course(f) /\ InStream(f) /\ Collected(f) /\ Kept(f)

(* A step of f leaves the other uploads alone. *)
LEMMA OthersKept ==
  ASSUME BaseInv, NEW f \in Files, Client(f) \/ Handle(f) \/ CleanupStale(f),
         NEW g \in Files, g # f
  PROVE  /\ entry'[g] = entry[g] /\ next'[g] = next[g] /\ req'[g] = req[g]
         /\ ids'[g] = ids[g] /\ saved'[g] = saved[g] /\ delta'[g] = delta[g]
         /\ (g \in gaveUp' <=> g \in gaveUp)
<1>1. entry'[g] = entry[g]
  BY EntrySteps DEF EntryStep, BaseInv, Types
<1>2. next'[g] = next[g]
  BY DEF Client, Send, GiveUp, CleanupStale, Handle, GetOrCreate, Reserve, WriteChunk, FeedStream,
     TakeStreamedBlocks, Assemble, CheckUploadQuota, CommitFile, ReadSize, WalkTree, Charge, Finish,
     Reply, BaseInv, Types
<1>3. req'[g] = req[g]
  BY DEF Client, Send, GiveUp, CleanupStale, Handle, GetOrCreate, Reserve, WriteChunk, FeedStream,
     TakeStreamedBlocks, Assemble, CheckUploadQuota, CommitFile, ReadSize, WalkTree, Charge, Finish,
     Reply, BaseInv, Types, Goto, Fail, AfterFeed
<1>4. ids'[g] = ids[g]
  BY DEF Client, Send, GiveUp, CleanupStale, Handle, GetOrCreate, Reserve, WriteChunk, FeedStream,
     TakeStreamedBlocks, Assemble, CheckUploadQuota, CommitFile, ReadSize, WalkTree, Charge, Finish,
     Reply, BaseInv, Types, Fail
<1>5. saved'[g] = saved[g] /\ delta'[g] = delta[g]
  BY DEF Client, Send, GiveUp, CleanupStale, Handle, GetOrCreate, Reserve, WriteChunk, FeedStream,
     TakeStreamedBlocks, Assemble, CheckUploadQuota, CommitFile, ReadSize, WalkTree, Charge, Finish,
     Reply, BaseInv, Types
<1>6. g \in gaveUp' <=> g \in gaveUp
  BY DEF Client, Send, GiveUp, CleanupStale, Handle, GetOrCreate, Reserve, WriteChunk, FeedStream,
     TakeStreamedBlocks, Assemble, CheckUploadQuota, CommitFile, ReadSize, WalkTree, Charge, Finish,
     Reply, Fail
<1> QED
  BY <1>1, <1>2, <1>3, <1>4, <1>5, <1>6

(* The stream grows at its end, by the chunk that is next. *)
LEMMA StreamKept ==
  ASSUME Setting, BaseInv, NEW f \in Files, InStream(f), EntryStep(f)
  PROVE  InStream(f)'
<1>1. entry \in [Files -> Entries] /\ entry[f] \in Entries /\ entry[f].stream \in Seq(Nat)
  BY DEF BaseInv, Types, Entries
<1>2. CASE UNCHANGED entry
  BY <1>2 DEF InStream
<1>3. CASE entry' = [entry EXCEPT ![f] = NoEntry]
  BY <1>1, <1>3, EntryFacts DEF InStream
<1>4. CASE \/ entry' = [entry EXCEPT ![f] = [entry[f] EXCEPT !.open = TRUE]]
           \/ entry' = [entry EXCEPT ![f] = [entry[f] EXCEPT !.broken = TRUE]]
           \/ entry' = [entry EXCEPT ![f] = [entry[f] EXCEPT !.file = @ \cup {next[f]}]]
  <2>1. entry'[f].stream = entry[f].stream
    BY <1>1, <1>4 DEF Entries
  <2> QED
    BY <2>1 DEF InStream
<1>5. CASE /\ next[f] \in Chunks /\ next[f] = Len(entry[f].stream) + 1
           /\ entry' = [entry EXCEPT ![f] = [entry[f] EXCEPT !.stream = Append(@, next[f])]]
  <2>1. entry'[f].stream = Append(entry[f].stream, next[f])
    BY <1>1, <1>5 DEF Entries
  <2>2. PICK q : q = entry[f].stream
    OBVIOUS
  <2>3. q \in Seq(Nat) /\ next[f] = Len(q) + 1 /\ \A i \in 1 .. Len(q) : q[i] = i
    BY <1>1, <1>5, <2>2 DEF InStream
  <2>4. \A i \in 1 .. Len(Append(q, next[f])) : Append(q, next[f])[i] = i
    BY <2>3
  <2> QED
    BY <2>1, <2>2, <2>4 DEF InStream
<1> QED
  BY <1>2, <1>3, <1>4, <1>5 DEF EntryStep

LEMMA WholeStream ==
  ASSUME Setting, NEW q \in Seq(Nat), Len(q) = NChunks, \A i \in 1 .. Len(q) : q[i] = i
  PROVE  q = Whole
<1>1. q \in [1 .. NChunks -> Nat]
  BY LenProperties
<1> QED
  BY <1>1 DEF Whole, Chunks

(* Chunk after chunk arrives in the temp file. *)
LEMMA CourseKept ==
  ASSUME Setting, ~Disturbed, BaseInv, NEW f \in Files, Course(f),
         Client(f) \/ Handle(f) \/ CleanupStale(f)
  PROVE  Course(f)'
<1> USE DEF Course, AtLast
<1>1. /\ entry \in [Files -> Entries] /\ entry[f] \in Entries
      /\ next \in [Files -> 1 .. (NChunks + 1)] /\ req \in [Files -> Labels]
      /\ NChunks \in Nat /\ next[f] \in Nat /\ Chunks = 1 .. NChunks
      /\ (req[f] # "none" => next[f] \in Chunks)
  BY DEF BaseInv, Types, Setting, Chunks
<1>2. CASE Client(f)
  BY <1>1, <1>2 DEF Client, Send, GiveUp, Goto
<1>3. CASE CleanupStale(f)
  BY <1>1, <1>3 DEF CleanupStale
<1>4. CASE GetOrCreate(f)
  <2>1. entry'[f].file = entry[f].file
    BY <1>1, <1>4 DEF GetOrCreate, Entries
  <2>2. UNCHANGED next /\ req[f] = "admit"
    BY <1>4 DEF GetOrCreate
  <2>3. \/ req'[f] \in {"reserve", "write"} /\ UNCHANGED gaveUp
        \/ req'[f] = "none" /\ gaveUp \subseteq gaveUp'
    BY <1>1, <1>4 DEF GetOrCreate, Fail, Goto
  <2> QED
    BY <1>1, <2>1, <2>2, <2>3
<1>5. CASE Reserve(f) \/ CheckUploadQuota(f) \/ CommitFile(f) \/ ReadSize(f) \/ WalkTree(f) \/ Charge(f)
  <2>1. UNCHANGED <<entry, next>>
    BY <1>5 DEF Reserve, CheckUploadQuota, CommitFile, ReadSize, WalkTree, Charge
  <2>2. \/ req'[f] = "write" /\ req[f] = "reserve" /\ UNCHANGED gaveUp
        \/ req'[f] \in AtLast /\ req[f] \in AtLast /\ UNCHANGED gaveUp
        \/ req'[f] = "none" /\ gaveUp \subseteq gaveUp' /\ req[f] \notin {"none", "reply"}
    BY <1>1, <1>5 DEF Reserve, CheckUploadQuota, CommitFile, ReadSize, WalkTree, Charge, Fail, Goto
  <2> QED
    BY <1>1, <2>1, <2>2
<1>6. CASE WriteChunk(f)
  <2>1. CASE Open(f) /\ entry' = [entry EXCEPT ![f].file = @ \cup {next[f]}] /\ Goto(f, "feed")
             /\ UNCHANGED gaveUp
    <3>1. entry'[f].file = entry[f].file \cup {next[f]}
      BY <1>1, <2>1 DEF Entries
    <3>2. UNCHANGED next /\ req[f] = "write" /\ req'[f] = "feed" /\ UNCHANGED gaveUp
      BY <1>1, <1>6, <2>1 DEF WriteChunk, Goto
    <3> QED
      BY <1>1, <3>1, <3>2
  <2>2. CASE Fail(f) /\ UNCHANGED entry
    <3>1. UNCHANGED <<next, entry>> /\ req[f] = "write" /\ req'[f] = "none" /\ gaveUp \subseteq gaveUp'
      BY <1>1, <1>6, <2>2 DEF WriteChunk, Goto, Fail
    <3> QED
      BY <1>1, <3>1
  <2> QED
    BY <1>6, <2>1, <2>2 DEF WriteChunk
<1>7. CASE FeedStream(f)
  <2>1. entry'[f].file = entry[f].file
    BY <1>1, <1>7 DEF FeedStream, Entries
  <2>2. /\ UNCHANGED <<next, gaveUp>> /\ req[f] = "feed"
        /\ req'[f] = IF next[f] = NChunks THEN "take" ELSE "reply"
    BY <1>1, <1>7 DEF FeedStream, AfterFeed, Goto
  <2> QED
    BY <1>1, <2>1, <2>2
<1>8. CASE TakeStreamedBlocks(f)
  <2>1. entry'[f].file = entry[f].file
    BY <1>1, <1>8 DEF TakeStreamedBlocks, Entries
  <2>2. UNCHANGED <<next, gaveUp>> /\ req[f] = "take" /\ req'[f] \in {"check", "assemble"}
    BY <1>1, <1>8 DEF TakeStreamedBlocks, Goto
  <2> QED
    BY <1>1, <2>1, <2>2
<1>9. CASE Assemble(f)
  <2>1. UNCHANGED <<next, entry>> /\ req[f] = "assemble"
    BY <1>9 DEF Assemble
  <2>2. \/ req'[f] = "check" /\ UNCHANGED gaveUp
        \/ req'[f] = "none" /\ gaveUp \subseteq gaveUp'
    BY <1>1, <1>9 DEF Assemble, Goto, Fail
  <2> QED
    BY <1>1, <2>1, <2>2
<1>10. CASE Finish(f)
  BY <1>1, <1>10 DEF Finish, Goto
<1>11. CASE Reply(f)
  <2>1. UNCHANGED <<entry, gaveUp>> /\ req[f] = "reply" /\ req'[f] = "none"
    BY <1>1, <1>11 DEF Reply, Goto
  <2>2. next'[f] = next[f] + 1 \/ (next[f] # NChunks /\ next'[f] = next[f])
    BY <1>1, <1>11 DEF Reply
  <2> QED
    BY <1>1, <2>1, <2>2
<1> QED
  BY <1>2, <1>3, <1>4, <1>5, <1>6, <1>7, <1>8, <1>9, <1>10, <1>11 DEF Handle

(* Both ways of collecting the blocks give the file. *)
LEMMA CollectedKept ==
  ASSUME Setting, ~Disturbed, BaseInv, NEW f \in Files, Course(f), InStream(f), Collected(f),
         Client(f) \/ Handle(f) \/ CleanupStale(f)
  PROVE  Collected(f)'
<1>1. /\ entry \in [Files -> Entries] /\ entry[f] \in Entries /\ req \in [Files -> Labels]
      /\ ids \in [Files -> Seq(Nat)] /\ NChunks \in Nat /\ Chunks = 1 .. NChunks
  BY DEF BaseInv, Types, Setting, Chunks
<1>2. CASE TakeStreamedBlocks(f)
  <2>1. CASE /\ Open(f) /\ ~entry[f].broken /\ Len(entry[f].stream) = NChunks
             /\ ids' = [ids EXCEPT ![f] = entry[f].stream]
    <3>1. entry[f].stream = Whole
      BY <1>1, <2>1, WholeStream DEF InStream, Entries
    <3> QED
      BY <1>1, <2>1, <3>1 DEF Collected, Whole
  <2>2. CASE Goto(f, "assemble")
    BY <1>1, <2>2 DEF Collected, Goto
  <2> QED
    BY <1>2, <2>1, <2>2 DEF TakeStreamedBlocks
<1>3. CASE Assemble(f)
  <2>1. CASE ids' = [ids EXCEPT ![f] = [i \in Chunks |-> IF i \in entry[f].file THEN i ELSE Hole]]
    <3>1. next[f] = NChunks /\ 1 .. (next[f] - 1) \subseteq entry[f].file /\ next[f] \in entry[f].file
      BY <1>1, <1>3 DEF Course, AtLast, Assemble, BaseInv
    <3>2. \A i \in Chunks : i \in entry[f].file
      BY <1>1, <3>1
    <3>3. [i \in Chunks |-> IF i \in entry[f].file THEN i ELSE Hole] = Whole
      BY <3>2 DEF Whole
    <3> QED
      BY <1>1, <2>1, <3>3 DEF Collected, Whole
  <2>2. CASE Fail(f)
    BY <1>1, <2>2 DEF Collected, Fail, Goto
  <2> QED
    BY <1>3, <2>1, <2>2 DEF Assemble
<1>4. CASE CheckUploadQuota(f)
  BY <1>1, <1>4 DEF Collected, CheckUploadQuota, Fail, Goto, Whole
<1>5. CASE Client(f) \/ CleanupStale(f)
  BY <1>1, <1>5 DEF Collected, Client, Send, GiveUp, CleanupStale, Goto, Whole
<1>6. CASE GetOrCreate(f) \/ Reserve(f) \/ WriteChunk(f) \/ FeedStream(f)
  BY <1>1, <1>6 DEF Collected, GetOrCreate, Reserve, WriteChunk, FeedStream, AfterFeed, Fail, Goto
<1>7. CASE CommitFile(f) \/ ReadSize(f) \/ WalkTree(f) \/ Charge(f) \/ Finish(f) \/ Reply(f)
  BY <1>1, <1>7 DEF Collected, CommitFile, ReadSize, WalkTree, Charge, Finish, Reply, Fail, Goto
<1> QED
  BY <1>2, <1>3, <1>4, <1>5, <1>6, <1>7 DEF Handle

LEMMA KeptKept ==
  ASSUME Setting, BaseInv, NEW f \in Files, Collected(f), Kept(f),
         Client(f) \/ Handle(f) \/ CleanupStale(f)
  PROVE  Kept(f)'
<1>1. saved \in [Files -> Seq(Seq(Nat))] /\ saved[f] \in Seq(Seq(Nat)) /\ ids[f] \in Seq(Nat)
  BY DEF BaseInv, Types
<1>2. CASE CommitFile(f)
  <2>1. CASE saved' = [saved EXCEPT ![f] = Append(@, ids[f])]
    <3>1. ids[f] = Whole
      BY <1>2 DEF CommitFile, Collected
    <3>2. saved'[f] = Append(saved[f], ids[f])
      BY <1>1, <2>1
    <3> QED
      BY <1>1, <3>1, <3>2 DEF Kept, Whole
  <2>2. CASE UNCHANGED saved
    BY <2>2 DEF Kept, Whole
  <2> QED
    BY <1>2, <2>1, <2>2 DEF CommitFile
<1>3. CASE ~CommitFile(f)
  <2>1. UNCHANGED saved
    BY <1>3 DEF Client, Send, GiveUp, CleanupStale, Handle, GetOrCreate, Reserve, WriteChunk,
       FeedStream, TakeStreamedBlocks, Assemble, CheckUploadQuota, ReadSize, WalkTree, Charge,
       Finish, Reply
  <2> QED
    BY <2>1 DEF Kept, Whole
<1> QED
  BY <1>2, <1>3

LEMMA WholeInit ==
  ASSUME Setting, Init
  PROVE  WholeInv
<1> SUFFICES ASSUME NEW f \in Files
             PROVE  Course(f) /\ InStream(f) /\ Collected(f) /\ Kept(f)
  BY DEF WholeInv
<1>1. /\ entry[f] = NoEntry /\ NoEntry.stream = <<>> /\ saved[f] = <<>>
      /\ next[f] = 1 /\ req[f] = "none"
  BY EntryFacts DEF Init
<1> QED
  BY <1>1 DEF Course, AtLast, InStream, Collected, Kept

LEMMA WholeNext ==
  ASSUME Setting, ~Disturbed, BaseInv, WholeInv, [Next]_vars
  PROVE  WholeInv'
<1>1. CASE UNCHANGED vars
  BY <1>1 DEF WholeInv, Course, InStream, Collected, Kept, Whole
<1>2. ASSUME NEW f \in Files, Client(f) \/ Handle(f) \/ CleanupStale(f), NEW g \in Files
      PROVE  Course(g)' /\ InStream(g)' /\ Collected(g)' /\ Kept(g)'
  <2>1. CASE g = f
    BY <1>2, <2>1, EntrySteps, CourseKept, StreamKept, CollectedKept, KeptKept DEF WholeInv
  <2>2. CASE g # f
    <3>1. /\ entry'[g] = entry[g] /\ next'[g] = next[g] /\ req'[g] = req[g]
          /\ ids'[g] = ids[g] /\ saved'[g] = saved[g]
          /\ (g \in gaveUp' <=> g \in gaveUp)
      BY <1>2, <2>2, OthersKept
    <3>2. Course(g) /\ InStream(g) /\ Collected(g) /\ Kept(g)
      BY DEF WholeInv
    <3> QED
      BY <3>1, <3>2 DEF Course, InStream, Collected, Kept, Whole
  <2> QED
    BY <2>1, <2>2
<1> QED
  BY <1>1, <1>2 DEF Next, Restart, WholeInv

(* Whatever chunks are repeated, whichever block writes fail and however    *)
(* often the last chunk is tried: create_file_from_blocks commits the whole *)
(* file, whether its blocks were streamed or read from the temp file.       *)
THEOREM CommittedIsWhole ==
  ASSUME Setting, ~Disturbed
  PROVE  Spec => []UploadsWhole
<1>1. Init => BaseInv /\ WholeInv
  BY BaseInit, WholeInit
<1>2. BaseInv /\ WholeInv /\ [Next]_vars => BaseInv' /\ WholeInv'
  BY BaseNext, WholeNext
<1>3. WholeInv => UploadsWhole
  BY DEF WholeInv, Kept, UploadsWhole
<1> QED
  BY <1>1, <1>2, <1>3, PTL DEF Spec

-----------------------------------------------------------------------------
(* The size of the library *)

(* Committed and not yet charged. *)
Uncharged == {f \in Files : req[f] \in {"size", "charge"}}
LengthPairs == Pairs(Lens, Files)

(* A size that is not zero is never computed anew, and what is missing from *)
(* it is what the committed requests in progress will add.                  *)
SizeInv ==
  /\ usage > 0
  /\ \A f \in Files : req[f] # "walk" /\ (req[f] = "charge" => delta[f] = NChunks)
  /\ usage + NChunks * Cardinality(Uncharged) = InitialSize + NChunks * Cardinality(LengthPairs)

LEMMA CountFacts ==
  ASSUME Setting, BaseInv
  PROVE  /\ IsFiniteSet(Uncharged) /\ Cardinality(Uncharged) \in Nat
         /\ IsFiniteSet(LengthPairs) /\ Cardinality(LengthPairs) \in Nat
<1>1. Lens \in [Files -> Nat]
  BY DEF Lens, BaseInv, Types
<1>2. Uncharged \subseteq Files
  BY DEF Uncharged
<1> QED
  BY <1>1, <1>2, PairsFinite, FS_Subset, FS_CardinalityType DEF Setting, LengthPairs

LEMMA Distribute ==
  ASSUME NEW n \in Nat, NEW c \in Nat
  PROVE  n * c \in Nat /\ n * (c + 1) = n * c + n
OBVIOUS

(* A step that neither commits nor charges. *)
LEMMA SizeKept ==
  ASSUME Setting, BaseInv, SizeInv, UNCHANGED <<usage, saved>>,
         \A f \in Files : /\ req'[f] # "walk"
                          /\ req'[f] \in {"size", "charge"} <=> req[f] \in {"size", "charge"}
                          /\ req'[f] = "charge" => delta'[f] = NChunks
  PROVE  SizeInv'
<1>1. Uncharged' = Uncharged
  BY DEF Uncharged
<1>2. LengthPairs' = LengthPairs
  BY DEF LengthPairs, Pairs, Lens
<1> QED
  BY <1>1, <1>2 DEF SizeInv

LEMMA SizeCommit ==
  ASSUME Setting, BaseInv, SizeInv, NEW f \in Files, CommitFile(f),
         saved' = [saved EXCEPT ![f] = Append(@, ids[f])]
  PROVE  SizeInv'
<1>1. /\ saved \in [Files -> Seq(Seq(Nat))] /\ saved[f] \in Seq(Seq(Nat)) /\ ids[f] \in Seq(Nat)
      /\ req \in [Files -> Labels]
  BY DEF BaseInv, Types
<1>2. req[f] = "commit" /\ UNCHANGED <<usage, delta>>
  BY DEF CommitFile
<1>3. req' = [req EXCEPT ![f] = "size"]
  <2>1. saved' # saved
    <3>1. Len(saved'[f]) = Len(saved[f]) + 1 /\ Len(saved[f]) \in Nat
      BY <1>1
    <3> QED
      BY <3>1
  <2> QED
    BY <2>1 DEF CommitFile, Goto
<1>4. Uncharged' = Uncharged \cup {f} /\ f \notin Uncharged
  BY <1>1, <1>2, <1>3 DEF Uncharged
<1>5. PICK n : n = Len(saved[f]) + 1
  OBVIOUS
<1>6. n \in Nat \ {0} /\ Len(saved[f]) = n - 1
  BY <1>1, <1>5
<1>7. /\ Lens' = [g \in Files |-> Len(saved'[g])]
      /\ \A g \in Files : g # f => Lens'[g] = Lens[g]
      /\ Lens'[f] = n /\ Lens[f] = n - 1
  BY <1>1, <1>6 DEF Lens
<1>8. LengthPairs' = LengthPairs \cup {<<f, n>>} /\ <<f, n>> \notin LengthPairs
  <2>1. LengthPairs = {p \in Files \X Nat : p[2] \in 1 .. Lens[p[1]]}
    BY DEF LengthPairs, Pairs
  <2>2. LengthPairs' = {p \in Files \X Nat : p[2] \in 1 .. Lens'[p[1]]}
    BY DEF LengthPairs, Pairs
  <2>3. ASSUME NEW g \in Files, NEW k \in Nat
        PROVE  k \in 1 .. Lens'[g] <=> k \in 1 .. Lens[g] \/ (g = f /\ k = n)
    <3>1. CASE g = f
      BY <1>6, <1>7, <3>1
    <3>2. CASE g # f
      BY <1>7, <3>2
    <3> QED
      BY <3>1, <3>2
  <2>4. n \notin 1 .. Lens[f]
    BY <1>6, <1>7
  <2> QED
    BY <1>6, <2>1, <2>2, <2>3, <2>4
<1>9. Cardinality(Uncharged \cup {f}) = Cardinality(Uncharged) + 1
  BY <1>4, CountFacts, FS_AddElement
<1>10. Cardinality(LengthPairs \cup {<<f, n>>}) = Cardinality(LengthPairs) + 1
  BY <1>8, CountFacts, FS_AddElement
<1>11. usage' + NChunks * Cardinality(Uncharged') = InitialSize + NChunks * Cardinality(LengthPairs')
  <2>1. PICK u \in Nat : u = Cardinality(Uncharged) /\ Cardinality(Uncharged') = u + 1
    BY <1>4, <1>9, CountFacts
  <2>2. PICK v \in Nat : v = Cardinality(LengthPairs) /\ Cardinality(LengthPairs') = v + 1
    BY <1>8, <1>10, CountFacts
  <2>3. usage + NChunks * u = InitialSize + NChunks * v
    BY <2>1, <2>2 DEF SizeInv
  <2>4. NChunks * (u + 1) = NChunks * u + NChunks /\ NChunks * u \in Nat
    BY Distribute DEF Setting
  <2>5. NChunks * (v + 1) = NChunks * v + NChunks /\ NChunks * v \in Nat
    BY Distribute DEF Setting
  <2>6. NChunks \in Nat /\ usage \in Nat /\ InitialSize \in Nat
    BY DEF Setting, BaseInv, Types
  <2>7. usage + NChunks * (u + 1) = InitialSize + NChunks * (v + 1)
    BY <2>3, <2>4, <2>5, <2>6
  <2> QED
    BY <1>2, <2>1, <2>2, <2>7
<1>12. \A g \in Files : req'[g] # "walk" /\ (req'[g] = "charge" => delta'[g] = NChunks)
  BY <1>1, <1>2, <1>3 DEF SizeInv
<1>13. SizeInv' <=> /\ usage' > 0
                   /\ \A g \in Files : req'[g] # "walk" /\ (req'[g] = "charge" => delta'[g] = NChunks)
                   /\ usage' + NChunks * Cardinality(Uncharged') = InitialSize + NChunks * Cardinality(LengthPairs')
  BY DEF SizeInv
<1> QED
  BY <1>2, <1>11, <1>12, <1>13 DEF SizeInv

LEMMA SizeCharge ==
  ASSUME Setting, BaseInv, SizeInv, NEW f \in Files, Charge(f)
  PROVE  SizeInv'
<1>1. /\ req \in [Files -> Labels] /\ usage \in Nat /\ NChunks \in Nat /\ InitialSize \in Nat
      /\ delta \in [Files -> Nat]
  BY DEF BaseInv, Types, Setting
<1>2. /\ req[f] = "charge" /\ delta[f] = NChunks /\ usage' = usage + NChunks
      /\ req' = [req EXCEPT ![f] = "finish"] /\ UNCHANGED saved
      /\ delta' = [delta EXCEPT ![f] = 0]
  BY DEF Charge, Goto, SizeInv
<1>3. Uncharged' = Uncharged \ {f} /\ f \in Uncharged
  BY <1>1, <1>2 DEF Uncharged
<1>4. LengthPairs' = LengthPairs
  BY <1>2 DEF LengthPairs, Pairs, Lens
<1>5. PICK u, v \in Nat : /\ Cardinality(Uncharged) = u + 1 /\ Cardinality(Uncharged') = u
                          /\ v = Cardinality(LengthPairs)
  <2>1. Cardinality(Uncharged \ {f}) = Cardinality(Uncharged) - 1
    BY <1>3, CountFacts, FS_RemoveElement
  <2>2. IsFiniteSet(Uncharged \ {f}) /\ Cardinality(Uncharged \ {f}) \in Nat
    BY <1>3, CountFacts, FS_RemoveElement, FS_CardinalityType
  <2>3. PICK u \in Nat : u = Cardinality(Uncharged \ {f})
    BY <2>2
  <2>4. Cardinality(Uncharged) = u + 1
    BY <2>1, <2>3, CountFacts
  <2> QED
    BY <1>3, <2>3, <2>4, CountFacts
<1>6. usage' + NChunks * Cardinality(Uncharged') = InitialSize + NChunks * Cardinality(LengthPairs')
  <2>1. usage + NChunks * (u + 1) = InitialSize + NChunks * v
    BY <1>5 DEF SizeInv
  <2>2. NChunks * (u + 1) = NChunks * u + NChunks /\ NChunks * u \in Nat /\ NChunks * v \in Nat
    BY <1>1, <1>5, Distribute
  <2> QED
    BY <1>1, <1>2, <1>4, <1>5, <2>1, <2>2
<1>7. \A g \in Files : req'[g] # "walk" /\ (req'[g] = "charge" => delta'[g] = NChunks)
  BY <1>1, <1>2 DEF SizeInv
<1>8. usage' > 0
  BY <1>1, <1>2 DEF SizeInv
<1>9. SizeInv' <=> /\ usage' > 0
                   /\ \A g \in Files : req'[g] # "walk" /\ (req'[g] = "charge" => delta'[g] = NChunks)
                   /\ usage' + NChunks * Cardinality(Uncharged') = InitialSize + NChunks * Cardinality(LengthPairs')
  BY DEF SizeInv
<1> QED
  BY <1>6, <1>7, <1>8, <1>9

LEMMA SizeInit ==
  ASSUME Setting, InitialSize > 0, Init
  PROVE  SizeInv
<1>1. Uncharged = {} /\ \A f \in Files : req[f] = "none" /\ Len(saved[f]) = 0
  BY DEF Init, Uncharged
<1>2. LengthPairs = {}
  BY <1>1 DEF LengthPairs, Pairs, Lens
<1>3. usage = InitialSize /\ NChunks * 0 = 0 /\ InitialSize \in Nat
  BY DEF Init, Setting
<1> QED
  BY <1>1, <1>2, <1>3, FS_EmptySet DEF SizeInv

LEMMA SizeNext ==
  ASSUME Setting, ~Disturbed, BaseInv, SizeInv, [Next]_vars
  PROVE  SizeInv'
<1>1. CASE UNCHANGED vars
  BY <1>1, SizeKept DEF SizeInv
<1>2. ASSUME NEW f \in Files, Client(f) \/ Handle(f) \/ CleanupStale(f)
      PROVE  SizeInv'
  <2>1. CASE Charge(f)
    BY <2>1, SizeCharge
  <2>2. CASE CommitFile(f) /\ saved' = [saved EXCEPT ![f] = Append(@, ids[f])]
    BY <2>2, SizeCommit
  <2>3. CASE ~Charge(f) /\ ~(CommitFile(f) /\ saved' = [saved EXCEPT ![f] = Append(@, ids[f])])
    <3>1. UNCHANGED <<usage, saved>>
      BY <1>2, <2>3 DEF Client, Send, GiveUp, CleanupStale, Handle, GetOrCreate, Reserve, WriteChunk,
         FeedStream, TakeStreamedBlocks, Assemble, CheckUploadQuota, CommitFile, ReadSize, WalkTree,
         Finish, Reply
    <3>2. req \in [Files -> Labels] /\ delta \in [Files -> Nat] /\ ~(usage = 0) /\ req[f] # "walk"
      BY DEF BaseInv, Types, SizeInv
    <3>3. /\ req'[f] # "walk"
          /\ req'[f] \in {"size", "charge"} <=> req[f] \in {"size", "charge"}
          /\ req'[f] = "charge" => delta'[f] = NChunks
      <4>1. CASE ReadSize(f)
        BY <3>2, <4>1 DEF ReadSize, Goto
      <4>2. CASE Client(f) \/ CleanupStale(f)
        BY <3>2, <4>2 DEF Client, Send, GiveUp, CleanupStale, Goto, SizeInv
      <4>3. CASE FeedStream(f)
        BY <3>2, <4>3 DEF FeedStream, AfterFeed, Goto
      <4>4. CASE GetOrCreate(f) \/ Reserve(f) \/ WriteChunk(f) \/ TakeStreamedBlocks(f)
        BY <3>2, <4>4 DEF GetOrCreate, Reserve, WriteChunk, TakeStreamedBlocks, Fail, Goto
      <4>5. CASE Assemble(f) \/ CheckUploadQuota(f) \/ Finish(f) \/ Reply(f)
        BY <3>2, <4>5 DEF Assemble, CheckUploadQuota, Finish, Reply, Fail, Goto
      <4>6. CASE CommitFile(f)
        BY <2>3, <3>2, <4>6 DEF CommitFile, Fail, Goto
      <4>7. ~WalkTree(f)
        BY <3>2 DEF WalkTree
      <4> QED
        BY <1>2, <2>3, <4>1, <4>2, <4>3, <4>4, <4>5, <4>6, <4>7 DEF Handle
    <3>4. \A g \in Files : g # f => req'[g] = req[g] /\ delta'[g] = delta[g]
      BY <1>2, OthersKept
    <3> QED
      BY <3>1, <3>3, <3>4, SizeKept DEF SizeInv
  <2> QED
    BY <2>1, <2>2, <2>3
<1> QED
  BY <1>1, <1>2 DEF Next, Restart

(* With no upload between its commit and its charge, the balance is even. *)
LEMMA SizeBalances ==
  ASSUME Setting, BaseInv, SizeInv
  PROVE  UploadsSized
<1> SUFFICES ASSUME \A f \in Files : req[f] \notin {"size", "walk", "charge"}
             PROVE  usage = TreeSize
  BY DEF UploadsSized
<1>1. Uncharged = {} /\ Cardinality({}) = 0
  BY FS_EmptySet DEF Uncharged
<1>2. TreeSize = InitialSize + NChunks * Cardinality(LengthPairs)
  BY TreeSizeCounts DEF LengthPairs, BaseInv
<1>3. usage + NChunks * 0 = TreeSize /\ NChunks * 0 = 0 /\ usage \in Nat
  BY <1>1, <1>2 DEF SizeInv, Setting, BaseInv, Types
<1> QED
  BY <1>3

(* adjust_repo_size loses no update: whatever uploads into a library that   *)
(* is not empty run beside each other, its size is that of its files        *)
(* whenever none of them is between its commit and its charge.              *)
THEOREM SizeIsExact ==
  ASSUME Setting, ~Disturbed, InitialSize > 0
  PROVE  Spec => []UploadsSized
<1>1. Init => BaseInv /\ SizeInv
  BY BaseInit, SizeInit
<1>2. BaseInv /\ SizeInv /\ [Next]_vars => BaseInv' /\ SizeInv'
  BY BaseNext, SizeNext
<1>3. BaseInv /\ SizeInv => UploadsSized
  BY SizeBalances
<1> QED
  BY <1>1, <1>2, <1>3, PTL DEF Spec
=============================================================================
