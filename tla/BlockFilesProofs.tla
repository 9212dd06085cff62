-------------------------- MODULE BlockFilesProofs --------------------------
(***************************************************************************)
(* Proofs about BlockFiles, for any number of tasks and crashes, for every *)
(* mode of the encryption at rest, and with removals beside everything     *)
(* else: a block whose write was acknowledged is readable until it is      *)
(* removed, nothing but a removal makes a readable block unreadable, and   *)
(* one writer is told that it created the block.                           *)
(***************************************************************************)
EXTENDS BlockFiles, TLAPS

USE DEF disk, local, history, vars

Labels == {"idle", "cache", "stat", "insert", "stage", "flush", "publish", "settle",
           "unlink", "forget", "raw"}
Kinds == {"write", "tracked", "has", "size", "remove", "convert"}
Lengths == {"none", "short", "plain", "bare", "sealed"}

Types ==
  /\ TypeOK
  /\ up \in BOOLEAN /\ verdict \in BOOLEAN /\ owed \in BOOLEAN /\ doubt \in BOOLEAN
  /\ pc \in [Tasks -> Labels]
  /\ op \in [Tasks -> Operations \cup {"none"}]
  /\ got \in [Tasks -> Lengths]
  /\ replace \in [Tasks -> BOOLEAN]
  /\ crashes \in Nat

(* What a task at a label is doing. *)
Writer(t) == op[t] \in {"write", "tracked"}
Storing(t) == pc[t] \in {"stage", "flush", "publish", "settle"}
KindInv ==
  \A t \in Tasks :
    /\ pc[t] # "idle" => op[t] \in Operations
    /\ pc[t] \in {"unlink", "forget"} => op[t] = "remove"
    /\ pc[t] \in {"cache", "stat", "insert"} => op[t] \notin {"remove", "convert"}
    /\ pc[t] = "raw" => op[t] = "convert"
    /\ Storing(t) => op[t] \in {"write", "tracked", "convert"}
    /\ Storing(t) /\ op[t] = "convert" => replace[t] /\ got[t] # "short"
    /\ OneLength /\ Storing(t) /\ op[t] = "tracked" => ~replace[t]

(* Nothing runs or is cached in a process that is down. *)
DownInv == ~up => cache = "none" /\ \A t \in Tasks : pc[t] = "idle"

(* What is visible was flushed first. *)
FlushInv ==
  /\ durable = TRUE
  /\ \A t \in Tasks : pc[t] = "publish" => temp[t] = "flushed"

(* A task that found the block or has stored it is right unless a removal   *)
(* came since; one that found room for it still finds room or the block.    *)
FileInv ==
  /\ \A t \in Tasks :
       /\ pc[t] = "insert" /\ got[t] = Written /\ t \notin missed => file = Written
       /\ pc[t] = "insert" /\ Writer(t) => got[t] = Written
       /\ Storing(t) /\ ~replace[t] => file \in {"none", Written}
       /\ pc[t] = "settle" /\ t \notin missed => file = Written
  /\ "convert" \in Operations => "short" \notin held
  /\ OneLength /\ "tracked" \in Operations => held \subseteq {"none", Written}

(* A cached entry that no removal has outdated is as good as a look at the  *)
(* file.                                                                    *)
CacheInv == cache = Written /\ ~doubt => file = Written

(* One tracked write created what is there: the next one finds it whole.    *)
CreatorInv ==
  /\ OneLength => creators <= 1
  /\ file = "none" => creators = 0

IInv ==
  /\ Types /\ KindInv /\ DownInv /\ FlushInv /\ FileInv /\ CacheInv /\ CreatorInv
  /\ BlocksStored

-----------------------------------------------------------------------------
(* What a write stores is a whole block that can be read. *)
LEMMA WrittenFacts ==
  ASSUME SafeSetting
  PROVE  Written \in Lengths \ {"none", "short"} /\ Written \in Formats
BY DEF SafeSetting, Written, Formats, Lengths

LEMMA InitInv ==
  ASSUME SafeSetting, Init
  PROVE  IInv
<1>1. file \in Lengths /\ "none" \in Lengths
  BY DEF SafeSetting, Init, Lengths
<1>2. Types
  BY <1>1 DEF Init, Types, TypeOK, Labels, Lengths
<1>3. KindInv /\ DownInv /\ FlushInv /\ CreatorInv /\ BlocksStored
  BY DEF Init, KindInv, DownInv, FlushInv, CreatorInv, BlocksStored, Storing
<1>4. FileInv /\ CacheInv
  BY WrittenFacts DEF Init, FileInv, CacheInv, Storing, SafeSetting, OneLength
<1> QED
  BY <1>2, <1>3, <1>4 DEF IInv

(* A task begins. *)
LEMMA OwnStep ==
  ASSUME SafeSetting, IInv, NEW t \in Tasks, \E o \in Operations : Begin(t, o)
  PROVE  IInv'
<1> USE DEF IInv
<1>1. PICK o \in Operations : Begin(t, o)
  OBVIOUS
<1>2. o \in Kinds /\ First(o) \in {"cache", "stat", "unlink", "raw"}
      /\ (First(o) = "unlink" <=> o = "remove") /\ (First(o) = "raw" <=> o = "convert")
  BY DEF SafeSetting, Kinds, First
<1> HIDE DEF First
<1>3. /\ pc' = [pc EXCEPT ![t] = First(o)] /\ op' = [op EXCEPT ![t] = o]
      /\ up /\ pc[t] = "idle"
      /\ UNCHANGED <<disk, cache, up, got, replace, verdict, history, crashes>>
  BY <1>1 DEF Begin, Goto
<1>4. Types'
  BY <1>2, <1>3 DEF Types, TypeOK, Labels
<1>5. KindInv'
  BY <1>2, <1>3 DEF KindInv, Types, Storing
<1>6. DownInv'
  BY <1>3 DEF DownInv, Types
<1>7. FlushInv' /\ CreatorInv' /\ BlocksStored' /\ CacheInv'
  BY <1>2, <1>3 DEF FlushInv, CreatorInv, BlocksStored, CacheInv, Types, Readable
<1>8. FileInv'
  BY <1>2, <1>3 DEF FileInv, Types, Storing, Writer
<1> QED
  BY <1>4, <1>5, <1>6, <1>7, <1>8

(* A look at the cache. *)
LEMMA StepLookUp ==
  ASSUME SafeSetting, IInv, NEW t \in Tasks, LookUp(t)
  PROVE  IInv'
<1> USE DEF IInv
<1>1. Written \in Lengths \ {"none", "short"} /\ Written \in Formats
  BY WrittenFacts
<1>2. "none" \in Lengths /\ pc \in [Tasks -> Labels]
  BY DEF Lengths, Types
<1>3. Types'
  BY <1>1, <1>2 DEF LookUp, Acknowledge, Goto, Types, TypeOK, Labels, Lengths
<1>4. KindInv'
  BY <1>1, <1>2 DEF LookUp, Acknowledge, Goto, KindInv, Types, TypeOK, Storing, FileInv
<1>5. DownInv'
  BY <1>1, <1>2 DEF LookUp, Acknowledge, Goto, DownInv, Types
<1>6. FlushInv'
  BY <1>1, <1>2 DEF LookUp, Acknowledge, Goto, FlushInv, Types, TypeOK
<1>7. FileInv'
  BY <1>1, <1>2 DEF LookUp, Acknowledge, Goto, FileInv, KindInv, DownInv, Types, TypeOK, Storing, Writer
<1>8. CacheInv'
  BY <1>1, <1>2 DEF LookUp, Acknowledge, Goto, CacheInv, FileInv, KindInv, DownInv, Types, TypeOK, Storing
<1>9. CreatorInv'
  BY <1>1, <1>2 DEF LookUp, Acknowledge, Goto, CreatorInv, FileInv, KindInv, Types, TypeOK, Storing
<1>10. BlocksStored'
  BY <1>1, <1>2 DEF LookUp, Acknowledge, Goto, BlocksStored, Readable, FileInv, CacheInv, KindInv, DownInv,
     Types, TypeOK, Writer
<1> QED
  BY <1>3, <1>4, <1>5, <1>6, <1>7, <1>8, <1>9, <1>10

(* A look at the file. *)
LEMMA StepStat ==
  ASSUME SafeSetting, IInv, NEW t \in Tasks, Stat(t)
  PROVE  IInv'
<1> USE DEF IInv
<1>1. Written \in Lengths \ {"none", "short"} /\ Written \in Formats
  BY WrittenFacts
<1>2. "none" \in Lengths /\ pc \in [Tasks -> Labels]
  BY DEF Lengths, Types
<1>3. Types'
  BY <1>1, <1>2 DEF Stat, Goto, Types, TypeOK, Labels, Lengths
<1>4. KindInv'
  <2>1. /\ \A s \in Tasks \ {t} : pc'[s] = pc[s] /\ got'[s] = got[s] /\ replace'[s] = replace[s]
        /\ UNCHANGED op
    BY <1>2 DEF Stat, Goto, Types
  <2>2. pc[t] = "stat" /\ pc'[t] \in {"insert", "stage", "idle"}
    BY <1>2 DEF Stat, Goto
  <2>3. pc'[t] = "stage" => Writer(t)
    BY <1>2 DEF Stat, Goto, Writer
  <2>4. OneLength /\ pc'[t] = "stage" /\ op[t] = "tracked" => ~replace'[t]
    <3>1. pc'[t] = "stage" => replace'[t] = (file # "none" /\ file # Written)
      BY <1>2 DEF Stat, Goto, Types
    <3>2. OneLength /\ op[t] = "tracked" => file \in {"none", Written}
      BY <2>2 DEF KindInv, FileInv, Types, TypeOK
    <3> QED
      BY <3>1, <3>2
  <2> QED
    BY <2>1, <2>2, <2>3, <2>4 DEF KindInv, Storing, Writer
<1>5. DownInv'
  BY <1>1, <1>2 DEF Stat, Goto, DownInv, Types
<1>6. FlushInv'
  BY <1>1, <1>2 DEF Stat, Goto, FlushInv, Types, TypeOK
<1>7. FileInv'
  BY <1>1, <1>2 DEF Stat, Goto, FileInv, KindInv, DownInv, Types, TypeOK, Storing, Writer
<1>8. CacheInv'
  BY <1>1, <1>2 DEF Stat, Goto, CacheInv, FileInv, KindInv, DownInv, Types, TypeOK, Storing
<1>9. CreatorInv'
  BY <1>1, <1>2 DEF Stat, Goto, CreatorInv, FileInv, KindInv, Types, TypeOK, Storing
<1>10. BlocksStored'
  BY <1>1, <1>2 DEF Stat, Goto, BlocksStored, Readable, FileInv, CacheInv, KindInv, DownInv,
     Types, TypeOK, Writer
<1> QED
  BY <1>3, <1>4, <1>5, <1>6, <1>7, <1>8, <1>9, <1>10

(* A hit is cached. *)
LEMMA StepInsert ==
  ASSUME SafeSetting, IInv, NEW t \in Tasks, Insert(t)
  PROVE  IInv'
<1> USE DEF IInv
<1>1. Written \in Lengths \ {"none", "short"} /\ Written \in Formats
  BY WrittenFacts
<1>2. "none" \in Lengths /\ pc \in [Tasks -> Labels]
  BY DEF Lengths, Types
<1>3. Types'
  BY <1>1, <1>2 DEF Insert, Cached, Acknowledge, Goto, Types, TypeOK, Labels, Lengths
<1>4. KindInv'
  BY <1>1, <1>2 DEF Insert, Cached, Acknowledge, Goto, KindInv, Types, TypeOK, Storing, FileInv
<1>5. DownInv'
  BY <1>1, <1>2 DEF Insert, Cached, Acknowledge, Goto, DownInv, Types
<1>6. FlushInv'
  BY <1>1, <1>2 DEF Insert, Cached, Acknowledge, Goto, FlushInv, Types, TypeOK
<1>7. FileInv'
  BY <1>1, <1>2 DEF Insert, Cached, Acknowledge, Goto, FileInv, KindInv, DownInv, Types, TypeOK, Storing, Writer
<1>8. CacheInv'
  BY <1>1, <1>2 DEF Insert, Cached, Acknowledge, Goto, CacheInv, FileInv, KindInv, DownInv, Types, TypeOK, Storing
<1>9. CreatorInv'
  BY <1>1, <1>2 DEF Insert, Cached, Acknowledge, Goto, CreatorInv, FileInv, KindInv, Types, TypeOK, Storing
<1>10. BlocksStored'
  BY <1>1, <1>2 DEF Insert, Cached, Acknowledge, Goto, BlocksStored, Readable, FileInv, CacheInv, KindInv, DownInv,
     Types, TypeOK, Writer
<1> QED
  BY <1>3, <1>4, <1>5, <1>6, <1>7, <1>8, <1>9, <1>10

(* A temp file is written. *)
LEMMA StepStage ==
  ASSUME SafeSetting, IInv, NEW t \in Tasks, Stage(t)
  PROVE  IInv'
<1> USE DEF IInv
<1>1. Written \in Lengths \ {"none", "short"} /\ Written \in Formats
  BY WrittenFacts
<1>2. "none" \in Lengths /\ pc \in [Tasks -> Labels]
  BY DEF Lengths, Types
<1>3. Types'
  BY <1>1, <1>2 DEF Stage, Goto, Types, TypeOK, Labels, Lengths
<1>4. KindInv'
  BY <1>1, <1>2 DEF Stage, Goto, KindInv, Types, TypeOK, Storing, FileInv
<1>5. DownInv'
  BY <1>1, <1>2 DEF Stage, Goto, DownInv, Types
<1>6. FlushInv'
  BY <1>1, <1>2 DEF Stage, Goto, FlushInv, Types, TypeOK
<1>7. FileInv'
  BY <1>1, <1>2 DEF Stage, Goto, FileInv, KindInv, DownInv, Types, TypeOK, Storing, Writer
<1>8. CacheInv'
  BY <1>1, <1>2 DEF Stage, Goto, CacheInv, FileInv, KindInv, DownInv, Types, TypeOK, Storing
<1>9. CreatorInv'
  BY <1>1, <1>2 DEF Stage, Goto, CreatorInv, FileInv, KindInv, Types, TypeOK, Storing
<1>10. BlocksStored'
  BY <1>1, <1>2 DEF Stage, Goto, BlocksStored, Readable, FileInv, CacheInv, KindInv, DownInv,
     Types, TypeOK, Writer
<1> QED
  BY <1>3, <1>4, <1>5, <1>6, <1>7, <1>8, <1>9, <1>10

(* The temp file is flushed. *)
LEMMA StepFlush ==
  ASSUME SafeSetting, IInv, NEW t \in Tasks, Flush(t)
  PROVE  IInv'
<1> USE DEF IInv
<1>1. Written \in Lengths \ {"none", "short"} /\ Written \in Formats
  BY WrittenFacts
<1>2. "none" \in Lengths /\ pc \in [Tasks -> Labels]
  BY DEF Lengths, Types
<1>3. Types'
  BY <1>1, <1>2 DEF Flush, Goto, Types, TypeOK, Labels, Lengths
<1>4. KindInv'
  BY <1>1, <1>2 DEF Flush, Goto, KindInv, Types, TypeOK, Storing, FileInv
<1>5. DownInv'
  BY <1>1, <1>2 DEF Flush, Goto, DownInv, Types
<1>6. FlushInv'
  BY <1>1, <1>2 DEF Flush, Goto, FlushInv, Types, TypeOK
<1>7. FileInv'
  BY <1>1, <1>2 DEF Flush, Goto, FileInv, KindInv, DownInv, Types, TypeOK, Storing, Writer
<1>8. CacheInv'
  BY <1>1, <1>2 DEF Flush, Goto, CacheInv, FileInv, KindInv, DownInv, Types, TypeOK, Storing
<1>9. CreatorInv'
  BY <1>1, <1>2 DEF Flush, Goto, CreatorInv, FileInv, KindInv, Types, TypeOK, Storing
<1>10. BlocksStored'
  BY <1>1, <1>2 DEF Flush, Goto, BlocksStored, Readable, FileInv, CacheInv, KindInv, DownInv,
     Types, TypeOK, Writer
<1> QED
  BY <1>3, <1>4, <1>5, <1>6, <1>7, <1>8, <1>9, <1>10

(* The block becomes visible. *)
LEMMA StepPublish ==
  ASSUME SafeSetting, IInv, NEW t \in Tasks, Publish(t)
  PROVE  IInv'
<1> USE DEF IInv
<1>1. Written \in Lengths \ {"none", "short"} /\ Written \in Formats
  BY WrittenFacts
<1>2. "none" \in Lengths /\ pc \in [Tasks -> Labels]
  BY DEF Lengths, Types
<1>o. Output(t) = Written
  BY DEF Output, Publish, KindInv, Storing
<1>3. Types'
  <2>1. file' \in held' /\ held' \subseteq Lengths
    BY <1>1, <1>o DEF Publish, Named, Types, TypeOK, Lengths
  <2>2. pc' \in [Tasks -> Labels] /\ creators' \in Nat
    BY <1>2 DEF Publish, Goto, Labels, Types, TypeOK
  <2>3. temp' \in [Tasks -> {"none", "torn", "flushed"}]
    BY DEF Publish, Named, Types, TypeOK
  <2> QED
    BY <2>1, <2>2, <2>3 DEF Publish, Types, TypeOK, Lengths
<1>4. KindInv'
  BY <1>1, <1>2, <1>o DEF Publish, Named, NewBlock, Goto, KindInv, Types, TypeOK, Storing, FileInv
<1>5. DownInv'
  BY <1>1, <1>2, <1>o DEF Publish, Named, NewBlock, Goto, DownInv, Types
<1>6. FlushInv'
  BY <1>1, <1>2, <1>o DEF Publish, Named, NewBlock, Goto, FlushInv, Types, TypeOK
<1>7. FileInv'
  BY <1>1, <1>2, <1>o DEF Publish, Named, NewBlock, Goto, FileInv, KindInv, DownInv, Types, TypeOK, Storing, Writer
<1>8. CacheInv'
  BY <1>1, <1>2, <1>o DEF Publish, Named, NewBlock, Goto, CacheInv, FileInv, KindInv, DownInv, Types, TypeOK, Storing
<1>9. CreatorInv'
  BY <1>1, <1>2, <1>o DEF Publish, Named, NewBlock, Goto, CreatorInv, FileInv, KindInv, Types, TypeOK, Storing
<1>10. BlocksStored'
  BY <1>1, <1>2, <1>o DEF Publish, Named, NewBlock, Goto, BlocksStored, Readable, FileInv, CacheInv, KindInv, DownInv,
     Types, TypeOK, Writer
<1> QED
  BY <1>3, <1>4, <1>5, <1>6, <1>7, <1>8, <1>9, <1>10

(* The write is over. *)
LEMMA StepSettle ==
  ASSUME SafeSetting, IInv, NEW t \in Tasks, Settle(t)
  PROVE  IInv'
<1> USE DEF IInv
<1>1. Written \in Lengths \ {"none", "short"} /\ Written \in Formats
  BY WrittenFacts
<1>2. "none" \in Lengths /\ pc \in [Tasks -> Labels]
  BY DEF Lengths, Types
<1>o. Output(t) = Written
  BY DEF Output, Settle, KindInv, Storing
<1>3. Types'
  BY <1>1, <1>2, <1>o DEF Settle, Cached, Acknowledge, Goto, Types, TypeOK, Labels, Lengths
<1>4. KindInv'
  BY <1>1, <1>2, <1>o DEF Settle, Cached, Acknowledge, Goto, KindInv, Types, TypeOK, Storing, FileInv
<1>5. DownInv'
  BY <1>1, <1>2, <1>o DEF Settle, Cached, Acknowledge, Goto, DownInv, Types
<1>6. FlushInv'
  BY <1>1, <1>2, <1>o DEF Settle, Cached, Acknowledge, Goto, FlushInv, Types, TypeOK
<1>7. FileInv'
  BY <1>1, <1>2, <1>o DEF Settle, Cached, Acknowledge, Goto, FileInv, KindInv, DownInv, Types, TypeOK, Storing, Writer
<1>8. CacheInv'
  BY <1>1, <1>2, <1>o DEF Settle, Cached, Acknowledge, Goto, CacheInv, FileInv, KindInv, DownInv, Types, TypeOK, Storing
<1>9. CreatorInv'
  BY <1>1, <1>2, <1>o DEF Settle, Cached, Acknowledge, Goto, CreatorInv, FileInv, KindInv, Types, TypeOK, Storing
<1>10. BlocksStored'
  BY <1>1, <1>2, <1>o DEF Settle, Cached, Acknowledge, Goto, BlocksStored, Readable, FileInv, CacheInv, KindInv, DownInv,
     Types, TypeOK, Writer
<1> QED
  BY <1>3, <1>4, <1>5, <1>6, <1>7, <1>8, <1>9, <1>10

(* What a removal leaves is of the right type. *)
LEMMA Removed ==
  ASSUME Types, Gone
  PROVE  /\ file' \in held' /\ held' \subseteq Lengths
         /\ missed' \subseteq Tasks /\ doubt' \in BOOLEAN
         /\ owed' \in BOOLEAN /\ creators' \in Nat
<1>1. file' \in held' /\ held' \subseteq Lengths /\ missed' \subseteq Tasks /\ creators' \in Nat
  BY DEF Gone, Types, TypeOK, Lengths
<1>2. owed' \in BOOLEAN /\ doubt' \in BOOLEAN
  BY Zenon DEF Gone
<1> QED
  BY <1>1, <1>2

(* The file is removed. *)
LEMMA StepUnlink ==
  ASSUME SafeSetting, IInv, NEW t \in Tasks, Unlink(t)
  PROVE  IInv'
<1> USE DEF IInv
<1>1. Written \in Lengths \ {"none", "short"} /\ Written \in Formats
  BY WrittenFacts
<1>2. "none" \in Lengths /\ pc \in [Tasks -> Labels]
  BY DEF Lengths, Types
<1>3. Types'
  <2>1. pc' \in [Tasks -> Labels]
    BY <1>2 DEF Unlink, Goto, Labels
  <2>2. CASE Gone
    BY <2>1, <2>2, Removed DEF Unlink, Types, TypeOK, Lengths
  <2>3. CASE UNCHANGED <<file, held, history>>
    BY <2>1, <2>3 DEF Unlink, Types, TypeOK
  <2> QED
    BY <2>2, <2>3 DEF Unlink
<1>4. KindInv'
  BY <1>1, <1>2 DEF Unlink, Gone, Goto, KindInv, Types, TypeOK, Storing, FileInv
<1>5. DownInv'
  BY <1>1, <1>2 DEF Unlink, Gone, Goto, DownInv, Types
<1>6. FlushInv'
  BY <1>1, <1>2 DEF Unlink, Gone, Goto, FlushInv, Types, TypeOK
<1>7. FileInv'
  BY <1>1, <1>2 DEF Unlink, Gone, Goto, FileInv, KindInv, DownInv, Types, TypeOK, Storing, Writer
<1>8. CacheInv'
  BY <1>1, <1>2 DEF Unlink, Gone, Goto, CacheInv, FileInv, KindInv, DownInv, Types, TypeOK, Storing
<1>9. CreatorInv'
  BY <1>1, <1>2 DEF Unlink, Gone, Goto, CreatorInv, FileInv, KindInv, Types, TypeOK, Storing
<1>10. BlocksStored'
  BY <1>1, <1>2 DEF Unlink, Gone, Goto, BlocksStored, Readable, FileInv, CacheInv, KindInv, DownInv,
     Types, TypeOK, Writer
<1> QED
  BY <1>3, <1>4, <1>5, <1>6, <1>7, <1>8, <1>9, <1>10

(* The cached entry is dropped. *)
LEMMA StepForget ==
  ASSUME SafeSetting, IInv, NEW t \in Tasks, Forget(t)
  PROVE  IInv'
<1> USE DEF IInv
<1>1. Written \in Lengths \ {"none", "short"} /\ Written \in Formats
  BY WrittenFacts
<1>2. "none" \in Lengths /\ pc \in [Tasks -> Labels]
  BY DEF Lengths, Types
<1>3. Types'
  BY <1>1, <1>2 DEF Forget, Goto, Types, TypeOK, Labels, Lengths
<1>4. KindInv'
  BY <1>1, <1>2 DEF Forget, Goto, KindInv, Types, TypeOK, Storing, FileInv
<1>5. DownInv'
  BY <1>1, <1>2 DEF Forget, Goto, DownInv, Types
<1>6. FlushInv'
  BY <1>1, <1>2 DEF Forget, Goto, FlushInv, Types, TypeOK
<1>7. FileInv'
  BY <1>1, <1>2 DEF Forget, Goto, FileInv, KindInv, DownInv, Types, TypeOK, Storing, Writer
<1>8. CacheInv'
  BY <1>1, <1>2 DEF Forget, Goto, CacheInv, FileInv, KindInv, DownInv, Types, TypeOK, Storing
<1>9. CreatorInv'
  BY <1>1, <1>2 DEF Forget, Goto, CreatorInv, FileInv, KindInv, Types, TypeOK, Storing
<1>10. BlocksStored'
  BY <1>1, <1>2 DEF Forget, Goto, BlocksStored, Readable, FileInv, CacheInv, KindInv, DownInv,
     Types, TypeOK, Writer
<1> QED
  BY <1>3, <1>4, <1>5, <1>6, <1>7, <1>8, <1>9, <1>10

(* A conversion reads the file. *)
LEMMA StepReadRaw ==
  ASSUME SafeSetting, IInv, NEW t \in Tasks, ReadRaw(t)
  PROVE  IInv'
<1> USE DEF IInv
<1>1. Written \in Lengths \ {"none", "short"} /\ Written \in Formats
  BY WrittenFacts
<1>2. "none" \in Lengths /\ pc \in [Tasks -> Labels]
  BY DEF Lengths, Types
<1>3. Types'
  <2>1. file \in Lengths
    BY DEF Types, TypeOK, Lengths
  <2>2. pc' \in [Tasks -> Labels] /\ got' \in [Tasks -> Lengths] /\ replace' \in [Tasks -> BOOLEAN]
    BY <1>2, <2>1 DEF ReadRaw, Goto, Labels, Types
  <2> QED
    BY <2>2 DEF ReadRaw, Types, TypeOK
<1>4. KindInv'
  BY <1>1, <1>2 DEF ReadRaw, Goto, KindInv, Types, TypeOK, Storing, FileInv
<1>5. DownInv'
  BY <1>1, <1>2 DEF ReadRaw, Goto, DownInv, Types
<1>6. FlushInv'
  BY <1>1, <1>2 DEF ReadRaw, Goto, FlushInv, Types, TypeOK
<1>7. FileInv'
  BY <1>1, <1>2 DEF ReadRaw, Goto, FileInv, KindInv, DownInv, Types, TypeOK, Storing, Writer
<1>8. CacheInv'
  BY <1>1, <1>2 DEF ReadRaw, Goto, CacheInv, FileInv, KindInv, DownInv, Types, TypeOK, Storing
<1>9. CreatorInv'
  BY <1>1, <1>2 DEF ReadRaw, Goto, CreatorInv, FileInv, KindInv, Types, TypeOK, Storing
<1>10. BlocksStored'
  BY <1>1, <1>2 DEF ReadRaw, Goto, BlocksStored, Readable, FileInv, CacheInv, KindInv, DownInv,
     Types, TypeOK, Writer
<1> QED
  BY <1>3, <1>4, <1>5, <1>6, <1>7, <1>8, <1>9, <1>10

(* A block is found unreadable. *)
LEMMA StepVerify ==
  ASSUME SafeSetting, IInv, Verify
  PROVE  IInv'
<1> USE DEF IInv
<1>1. verdict' = TRUE /\ UNCHANGED <<disk, cache, up, local, history, started, crashes>>
  BY DEF Verify
<1>2. Types' /\ KindInv' /\ DownInv'
  BY <1>1 DEF Types, TypeOK, KindInv, DownInv, Storing
<1>3. FlushInv' /\ FileInv' /\ CacheInv' /\ CreatorInv' /\ BlocksStored'
  BY <1>1 DEF FlushInv, FileInv, CacheInv, CreatorInv, BlocksStored, Readable, Storing, Writer
<1> QED
  BY <1>2, <1>3

(* The block goes to the quarantine, whatever it has become since. *)
LEMMA StepQuarantine ==
  ASSUME SafeSetting, IInv, Quarantine
  PROVE  IInv'
<1> USE DEF IInv
<1>1. /\ verdict' = FALSE /\ Gone
      /\ UNCHANGED <<durable, temp, cache, up, local, started, crashes>>
  BY DEF Quarantine
<1>2. Types'
  BY <1>1, Removed DEF Types, TypeOK, Lengths
<1>3. KindInv' /\ DownInv' /\ FlushInv'
  BY <1>1 DEF KindInv, DownInv, FlushInv, Storing
<1>4. FileInv'
  BY <1>1, WrittenFacts DEF Gone, FileInv, Storing, Writer, Types, TypeOK
<1>5. CacheInv'
  <2>1. Written # "none" /\ Written' = Written
    BY WrittenFacts DEF Written
  <2> QED
    BY <1>1, <2>1, Zenon DEF Gone, CacheInv
<1>6. CreatorInv' /\ BlocksStored'
  BY <1>1 DEF Gone, CreatorInv, BlocksStored
<1> QED
  BY <1>2, <1>3, <1>4, <1>5, <1>6

(* An entry of the cache expires. *)
LEMMA StepExpire ==
  ASSUME SafeSetting, IInv, Expire
  PROVE  IInv'
<1> USE DEF IInv
<1>1. /\ cache' = "none" /\ doubt' = FALSE
      /\ UNCHANGED <<disk, up, local, verdict, missed, owed, creators, started, crashes>>
  BY DEF Expire
<1>2. Types' /\ KindInv' /\ DownInv' /\ FlushInv'
  BY <1>1 DEF Types, TypeOK, KindInv, DownInv, FlushInv, Storing
<1>3. FileInv' /\ CacheInv' /\ CreatorInv' /\ BlocksStored'
  BY <1>1, WrittenFacts DEF FileInv, CacheInv, CreatorInv, BlocksStored, Readable, Storing, Writer
<1> QED
  BY <1>2, <1>3

(* The directory is written back. *)
LEMMA StepWrittenBack ==
  ASSUME SafeSetting, IInv, WrittenBack
  PROVE  IInv'
<1> USE DEF IInv
<1>1. /\ held' = {file} /\ file \in held
      /\ UNCHANGED <<file, durable, temp, cache, up, local, verdict, history, started, crashes>>
  BY DEF WrittenBack, Types, TypeOK
<1>2. Types' /\ KindInv' /\ DownInv' /\ FlushInv'
  BY <1>1 DEF Types, TypeOK, KindInv, DownInv, FlushInv, Storing
<1>3. FileInv' /\ CacheInv' /\ CreatorInv' /\ BlocksStored'
  BY <1>1 DEF FileInv, CacheInv, CreatorInv, BlocksStored, Readable, Storing, Writer
<1> QED
  BY <1>2, <1>3

(* What is visible was flushed: a loss of power leaves what was visible at  *)
(* some time since the directory was written back.                          *)
LEMMA SurvivorsWereHeld ==
  ASSUME IInv
  PROVE  Survivors = held
BY DEF Survivors, IInv, FlushInv

(* The process stops: nothing of it is left, and the files stay. *)
LEMMA StepCrash ==
  ASSUME SafeSetting, IInv, Crash
  PROVE  IInv'
<1> USE DEF IInv
<1>1. /\ up' = FALSE /\ cache' = "none" /\ doubt' = FALSE
      /\ pc' = [t \in Tasks |-> "idle"] /\ missed' = {}
      /\ crashes' = crashes + 1
      /\ UNCHANGED <<disk, op, got, replace, verdict, owed, creators, started>>
  BY DEF Crash, Down
<1>2. \A t \in Tasks : pc'[t] = "idle"
  BY <1>1
<1>3. Types'
  <2>1. owed' \in BOOLEAN /\ doubt' \in BOOLEAN /\ verdict' \in BOOLEAN /\ up' \in BOOLEAN
    BY <1>1, Zenon DEF Types
  <2> QED
    BY <1>1, <2>1 DEF Types, TypeOK, Labels
<1>4. KindInv' /\ DownInv' /\ FlushInv'
  BY <1>1, <1>2 DEF KindInv, DownInv, FlushInv, Storing
<1>5. FileInv' /\ CacheInv' /\ CreatorInv' /\ BlocksStored'
  BY <1>1, <1>2, WrittenFacts DEF FileInv, CacheInv, CreatorInv, BlocksStored, Readable, Storing
<1> QED
  BY <1>3, <1>4, <1>5

(* The machine stops: a write is only owed where the name was written back. *)
LEMMA StepPowerLoss ==
  ASSUME SafeSetting, IInv, PowerLoss
  PROVE  IInv'
<1> USE DEF IInv
<1>1. /\ up' = FALSE /\ cache' = "none" /\ doubt' = FALSE
      /\ pc' = [t \in Tasks |-> "idle"] /\ missed' = {}
      /\ file' \in held /\ held' = {file'} /\ durable' = TRUE /\ verdict' = FALSE
      /\ owed' = (owed /\ held = {file})
      /\ creators' = IF file' = "none" THEN 0 ELSE creators
      /\ crashes' = crashes + 1
      /\ UNCHANGED <<temp, op, got, replace, started>>
  BY SurvivorsWereHeld DEF PowerLoss, Down
<1>2. \A t \in Tasks : pc'[t] = "idle"
  BY <1>1
<1>3. Types'
  <2>1. owed' \in BOOLEAN /\ doubt' \in BOOLEAN /\ verdict' \in BOOLEAN /\ up' \in BOOLEAN
    BY <1>1, Zenon DEF Types
  <2>2. creators' \in Nat
    BY <1>1 DEF Types, TypeOK
  <2> QED
    BY <1>1, <2>1, <2>2 DEF Types, TypeOK, Labels
<1>4. KindInv' /\ DownInv' /\ FlushInv'
  BY <1>1, <1>2 DEF KindInv, DownInv, FlushInv, Storing
<1>5. FileInv' /\ CacheInv'
  BY <1>1, <1>2, WrittenFacts DEF FileInv, CacheInv, Storing
<1>6. CreatorInv'
  BY <1>1 DEF CreatorInv, Types, TypeOK
<1>7. BlocksStored'
  BY <1>1 DEF BlocksStored, Readable
<1> QED
  BY <1>3, <1>4, <1>5, <1>6, <1>7

(* The server starts, and removes what was staged and never published. *)
LEMMA StepStartup ==
  ASSUME SafeSetting, IInv, Startup
  PROVE  IInv'
<1> USE DEF IInv
<1>1. /\ up' = TRUE /\ temp' = [t \in Tasks |-> "none"]
      /\ \A t \in Tasks : pc[t] = "idle"
      /\ UNCHANGED <<file, held, durable, cache, local, verdict, history, started, crashes>>
  BY DEF Startup, DownInv
<1>2. Types'
  BY <1>1 DEF Types, TypeOK
<1>3. KindInv' /\ DownInv' /\ FlushInv'
  BY <1>1 DEF KindInv, DownInv, FlushInv, Storing
<1>4. FileInv' /\ CacheInv' /\ CreatorInv' /\ BlocksStored'
  BY <1>1 DEF FileInv, CacheInv, CreatorInv, BlocksStored, Readable, Storing, Writer
<1> QED
  BY <1>2, <1>3, <1>4

LEMMA StepStutter ==
  ASSUME IInv, UNCHANGED vars
  PROVE  IInv'
<1> USE DEF IInv
<1>1. Types' /\ KindInv' /\ DownInv' /\ FlushInv'
  BY DEF Types, TypeOK, KindInv, DownInv, FlushInv, Storing
<1>2. FileInv' /\ CacheInv' /\ CreatorInv' /\ BlocksStored'
  BY DEF FileInv, CacheInv, CreatorInv, BlocksStored, Readable, Storing, Writer
<1> QED
  BY <1>1, <1>2

LEMMA NextInv ==
  ASSUME SafeSetting, IInv, [Next]_vars
  PROVE  IInv'
<1>1. CASE \E t \in Tasks : Step(t)
  <2>1. PICK t \in Tasks : Step(t)
    BY <1>1
  <2> QED
    BY <2>1, OwnStep, StepLookUp, StepStat, StepInsert, StepStage, StepFlush, StepPublish,
       StepSettle, StepUnlink, StepForget, StepReadRaw DEF Step
<1> QED
  BY <1>1, StepVerify, StepQuarantine, StepExpire, StepWrittenBack, StepCrash, StepPowerLoss,
     StepStartup, StepStutter DEF Next

(* The invariant holds in every state, in every safe setting. *)
THEOREM Invariance ==
  ASSUME SafeSetting
  PROVE  Spec => []IInv
<1>1. Init => IInv
  BY InitInv
<1>2. IInv /\ [Next]_vars => IInv'
  BY NextInv
<1> QED
  BY <1>1, <1>2, PTL DEF Spec

-----------------------------------------------------------------------------
(* Every variable of the block's file keeps its type. *)
THEOREM TypeCorrectness ==
  ASSUME SafeSetting
  PROVE  Spec => []TypeOK
<1>1. IInv => TypeOK
  BY DEF IInv, Types
<1> QED
  BY <1>1, Invariance, PTL

(* write_block_with_id answers Ok only for a block that is stored and can   *)
(* be read, unless a removal has outdated the entry or the look it rests    *)
(* on, and so it stays, through crashes, conversions, expired entries and   *)
(* any number of concurrent writers, until remove_block takes it; a loss of *)
(* power spares it once its name was written back.                          *)
THEOREM AcknowledgedIsStored ==
  ASSUME SafeSetting
  PROVE  Spec => []BlocksStored
<1>1. IInv => BlocksStored
  BY DEF IInv
<1> QED
  BY <1>1, Invariance, PTL

(* publish_block tells at most one tracked write between two removals that  *)
(* it created the block.                                                    *)
THEOREM OneCreator ==
  ASSUME SafeSetting, OneLength
  PROVE  Spec => []BlockHasOneCreator
<1>1. IInv => BlockHasOneCreator
  BY DEF IInv, CreatorInv, BlockHasOneCreator
<1> QED
  BY <1>1, Invariance, PTL

(* What a step other than a loss of power leaves of the file: itself,       *)
(* nothing, or what a write stores.                                         *)
LEMMA NeverWorse ==
  ASSUME SafeSetting, IInv, [Next]_vars
  PROVE  BlocksNeverWorse
<1>1. ASSUME NEW t \in Tasks, Publish(t)
      PROVE  file' = file \/ file' = Written
  <2>1. Output(t) = Written
    BY <1>1 DEF Output, Publish, KindInv, Storing, IInv
  <2> QED
    BY <1>1, <2>1 DEF Publish, Named
<1>2. ASSUME NEW t \in Tasks, Step(t)
      PROVE  file' = file \/ file' = "none" \/ file' = Written
  BY <1>1, <1>2 DEF Step, Begin, LookUp, Stat, Insert, Stage, Flush, Settle, Unlink, Gone,
     Forget, ReadRaw
<1>3. PowerLoss => crashes' # crashes /\ file' \in held
  <2>1. PowerLoss => crashes' = crashes + 1 /\ file' \in held
    BY SurvivorsWereHeld DEF PowerLoss, Down
  <2>2. crashes \in Nat
    BY DEF IInv, Types
  <2> QED
    BY <2>1, <2>2
<1>4. PowerLoss \/ file' = file \/ file' = "none" \/ file' = Written
  BY <1>2 DEF Next, Verify, Quarantine, Gone, Expire, WrittenBack, Crash, Startup
<1> QED
  BY <1>3, <1>4, WrittenFacts DEF BlocksNeverWorse, Readable, Formats, Written

(* No step of a writer, of a conversion or of a restart makes a readable    *)
(* block unreadable; a removal takes it, and a loss of power may bring back *)
(* what its name stood for before.                                          *)
THEOREM NothingGetsWorse ==
  ASSUME SafeSetting
  PROVE  Spec => [][BlocksNeverWorse]_vars
<1>1. IInv /\ [Next]_vars => [BlocksNeverWorse]_vars
  BY NeverWorse
<1> QED
  BY <1>1, Invariance, PTL DEF Spec
=============================================================================
