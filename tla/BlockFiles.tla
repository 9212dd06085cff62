----------------------------- MODULE BlockFiles -----------------------------
(* The file of one block: staging and publication by concurrent writers,    *)
(* the cache of what exists, removals beside all of them, the at-rest       *)
(* encryption of new and old blocks, verification, and a process or machine *)
(* that stops at any point.                                                 *)
(* A block's content is its id, so the file is described by its format; the *)
(* format also gives its length.                                            *)
EXTENDS Integers, FiniteSets

CONSTANTS
  Tasks,      \* requests and background tasks of the server
  Mode,       \* at-rest encryption: "off", "lazy" or "on"
  Legacy,     \* what may be stored when the model starts
  Operations, \* what the tasks do
  MaxTasks, MaxCrashes  \* bounds

VARIABLES
  file,       \* "none", or the format of the block's file
  held,       \* what the disk may hold under the block's name: all it was
              \* since the directory was written back
  durable,    \* the file's bytes were flushed before it became visible
  cache,      \* exists_cache: "none", or the length of that format
  temp,       \* each task's temp file: "none", "torn" or "flushed"
  up,         \* the server runs
  pc, op, got, replace, \* locals of the tasks
  verdict,    \* verify-blocks: the block failed the check
  missed,     \* history: tasks that found or stored the block before it was
              \* removed, and have not answered yet
  doubt,      \* history: the cached entry stems from before a removal
  owed,       \* history: a write was acknowledged after the last removal
  creators,   \* history: tracked writes told that they created the block
  started, crashes

disk == <<file, held, durable, temp>>
local == <<pc, op, got, replace>>
history == <<missed, doubt, owed, creators>>
vars == <<disk, cache, up, local, verdict, history, started, crashes>>

(* What a write stores.  Formats differ in length, so a length is given by  *)
(* its format; "short" is an interrupted write of an older version.         *)
Written == IF Mode = "off" THEN "plain" ELSE "sealed"

(* The formats that read_block turns back into the block (decrypt_offload): *)
(* "bare" is ciphertext from before the header, "sealed" has the header.    *)
(* Lazy mode decides by the header and hands bare ciphertext out as it is.  *)
Formats ==
  CASE Mode = "off" -> {"plain"}
    [] Mode = "lazy" -> {"plain", "sealed"}
    [] Mode = "on" -> {"bare", "sealed"}
Readable == file \in Formats

Init ==
  /\ file \in Legacy /\ held = {file} /\ durable = TRUE
  /\ cache = "none"
  /\ temp = [t \in Tasks |-> "none"]
  /\ up = TRUE
  /\ pc = [t \in Tasks |-> "idle"] /\ op = [t \in Tasks |-> "none"]
  /\ got = [t \in Tasks |-> "none"] /\ replace = [t \in Tasks |-> FALSE]
  /\ verdict = FALSE
  /\ missed = {} /\ doubt = FALSE /\ owed = FALSE /\ creators = 0
  /\ started = 0 /\ crashes = 0

Goto(t, l) == pc' = [pc EXCEPT ![t] = l]

(* The operation is answered with Ok.  Where that was a write, the block    *)
(* must be there from now on, unless a removal came after what the answer   *)
(* rests on.                                                                *)
Acknowledge(t, outdated) ==
  owed' = (owed \/ (op[t] \in {"write", "tracked"} /\ ~outdated))

(* exists_cache_insert *)
Cached(t, length) ==
  /\ cache' = length
  /\ doubt' = (t \in missed)
  /\ missed' = missed \ {t}
  /\ Acknowledge(t, t \in missed)

First(o) == CASE o \in {"write", "tracked", "has"} -> "cache"
              [] o = "size" -> "stat"
              [] o = "remove" -> "unlink"
              [] o = "convert" -> "raw"

Begin(t, o) ==
  /\ up /\ pc[t] = "idle" /\ started < MaxTasks
  /\ Goto(t, First(o))
  /\ op' = [op EXCEPT ![t] = o]
  /\ started' = started + 1
  /\ UNCHANGED <<disk, cache, up, got, replace, verdict, history, crashes>>

-----------------------------------------------------------------------------
(* write_block_with_id, its tracked form, has_block and block_size *)

Mutant_AnyLength(t) ==
  /\ pc[t] = "cache"
  /\ \/ cache # "none" /\ Acknowledge(t, doubt) /\ Goto(t, "idle")
     \/ cache = "none" /\ Goto(t, "stat") /\ UNCHANGED owed
  /\ UNCHANGED <<disk, cache, up, op, got, replace, verdict, missed, doubt, creators,
                 started, crashes>>

(* A cached presence is an answer; a write also wants the full length. *)
LookUp(t) ==
  LET hit == IF op[t] = "has" THEN cache # "none" ELSE cache = Written
  IN
  /\ pc[t] = "cache"
  /\ \/ hit /\ Acknowledge(t, doubt) /\ Goto(t, "idle")
     \/ ~hit /\ Goto(t, "stat") /\ UNCHANGED owed
  /\ UNCHANGED <<disk, cache, up, op, got, replace, verdict, missed, doubt, creators,
                 started, crashes>>

(* A block of another length is replaced; one of the right length is a hit, *)
(* except for a tracked write, which tries to create it.                    *)
Stat(t) ==
  LET writes == op[t] \in {"write", "tracked"}
      wrong == file # "none" /\ file # Written
      hit == file # "none" /\ (writes => op[t] = "write" /\ ~wrong)
  IN
  /\ pc[t] = "stat"
  /\ \/ hit /\ Goto(t, "insert") /\ UNCHANGED replace
     \/ /\ ~hit /\ writes
        /\ replace' = [replace EXCEPT ![t] = wrong]
        /\ Goto(t, "stage")
     \/ ~hit /\ ~writes /\ Goto(t, "idle") /\ UNCHANGED replace
  /\ got' = [got EXCEPT ![t] = file]
  /\ UNCHANGED <<disk, cache, up, op, verdict, history, started, crashes>>

(* The length that was found is cached, whatever happened since. *)
Insert(t) ==
  /\ pc[t] = "insert"
  /\ Cached(t, got[t])
  /\ Goto(t, "idle")
  /\ UNCHANGED <<disk, up, op, got, replace, verdict, creators, started, crashes>>

(* stage_block: a temp file of its own is written, then flushed. *)
Stage(t) ==
  /\ pc[t] = "stage"
  /\ temp' = [temp EXCEPT ![t] = "torn"]
  /\ Goto(t, "flush")
  /\ UNCHANGED <<file, held, durable, cache, up, op, got, replace, verdict, history, started, crashes>>

Mutant_NotFlushed(t) ==
  /\ pc[t] = "flush"
  /\ Goto(t, "publish")
  /\ UNCHANGED <<disk, cache, up, op, got, replace, verdict, history, started, crashes>>

(* The flush succeeds, or the write failed and its temp file goes. *)
Flush(t) ==
  /\ pc[t] = "flush"
  /\ \/ temp' = [temp EXCEPT ![t] = "flushed"] /\ Goto(t, "publish")
     \/ temp' = [temp EXCEPT ![t] = "none"] /\ Goto(t, "idle")
  /\ UNCHANGED <<file, held, durable, cache, up, op, got, replace, verdict, history, started, crashes>>

(* What the task stores: a conversion encrypts what it read, a short block  *)
(* stays short.                                                             *)
Output(t) == IF op[t] = "convert" /\ got[t] = "short" THEN "short" ELSE Written
NewBlock(t) == replace[t] \/ file = "none"

(* The temp file becomes the block's file.  The directory is not flushed. *)
Named(t) ==
  /\ file' = Output(t)
  /\ held' = held \cup {Output(t)}
  /\ durable' = (temp[t] = "flushed")

Mutant_RenameAlways(t) ==
  /\ pc[t] = "publish"
  /\ Named(t)
  /\ creators' = IF op[t] = "tracked" THEN creators + 1 ELSE creators
  /\ Goto(t, "settle")
  /\ UNCHANGED <<temp, cache, up, op, got, replace, verdict, missed, doubt, owed, started,
                 crashes>>

(* publish_block: a hard link, which cannot overwrite; a rename where the   *)
(* block is to be replaced.  Either may fail.                               *)
Publish(t) ==
  /\ pc[t] = "publish"
  /\ \/ /\ NewBlock(t)
        /\ Named(t)
        /\ creators' = IF op[t] = "tracked" THEN creators + 1 ELSE creators
        /\ Goto(t, "settle") /\ UNCHANGED temp
     \/ /\ ~NewBlock(t)
        /\ Goto(t, "settle") /\ UNCHANGED <<disk, creators>>
     \/ /\ temp' = [temp EXCEPT ![t] = "none"]
        /\ Goto(t, "idle") /\ UNCHANGED <<file, held, durable, creators>>
  /\ UNCHANGED <<cache, up, op, got, replace, verdict, missed, doubt, owed, started, crashes>>

(* The end of store_block: the temp file goes, the length is cached. *)
Settle(t) ==
  /\ pc[t] = "settle"
  /\ temp' = [temp EXCEPT ![t] = "none"]
  /\ Cached(t, Output(t))
  /\ Goto(t, "idle")
  /\ UNCHANGED <<file, held, durable, up, op, got, replace, verdict, creators, started, crashes>>

-----------------------------------------------------------------------------
(* remove_block: by the collector, or by a request that cleans up after a   *)
(* refused upload.  Other requests use the block at the same time.          *)

Gone ==
  /\ file' = "none" /\ held' = held \cup {"none"}
  /\ missed' = {t \in Tasks : pc[t] \in {"insert", "settle"}}
  /\ doubt' = (cache # "none")
  /\ owed' = FALSE /\ creators' = 0

(* The file cannot be removed, or it goes first and the cached entry later. *)
Unlink(t) ==
  /\ pc[t] = "unlink"
  /\ \/ Gone /\ Goto(t, "forget")
     \/ Goto(t, "idle") /\ UNCHANGED <<file, held, history>>
  /\ UNCHANGED <<durable, temp, cache, up, op, got, replace, verdict, started, crashes>>

Forget(t) ==
  /\ pc[t] = "forget"
  /\ cache' = "none" /\ doubt' = FALSE
  /\ Goto(t, "idle")
  /\ UNCHANGED <<disk, up, op, got, replace, verdict, missed, owed, creators, started, crashes>>

-----------------------------------------------------------------------------
(* convert_legacy_block: what carries the header is left alone, anything    *)
(* else is encrypted and put in place of what is there by then.             *)
ReadRaw(t) ==
  /\ pc[t] = "raw"
  /\ \/ /\ file \in {"none", "sealed"}
        /\ Goto(t, "idle") /\ UNCHANGED <<got, replace>>
     \/ /\ file \in {"plain", "bare", "short"}
        /\ got' = [got EXCEPT ![t] = file]
        /\ replace' = [replace EXCEPT ![t] = TRUE]
        /\ Goto(t, "stage")
  /\ UNCHANGED <<disk, cache, up, op, verdict, history, started, crashes>>

(* verify-blocks --repair is a process of its own, with a cache of its own: *)
(* what it could not read goes to the quarantine at the end of its pass.    *)
Verify ==
  /\ file # "none" /\ ~Readable /\ ~verdict
  /\ verdict' = TRUE
  /\ UNCHANGED <<disk, cache, up, local, history, started, crashes>>

Quarantine ==
  /\ verdict /\ verdict' = FALSE
  /\ Gone
  /\ UNCHANGED <<durable, temp, cache, up, local, started, crashes>>

-----------------------------------------------------------------------------
(* An entry expires, or the cache is emptied: full, or before a collection. *)
Expire ==
  /\ cache # "none" /\ cache' = "none" /\ doubt' = FALSE
  /\ UNCHANGED <<disk, up, local, verdict, missed, owed, creators, started, crashes>>

(* The system writes the directory back, in its own time: nothing in        *)
(* stage_block, publish_block or store_block asks for it.                   *)
WrittenBack ==
  /\ held # {file} /\ held' = {file}
  /\ UNCHANGED <<file, durable, temp, cache, up, local, verdict, history, started, crashes>>

Down ==
  /\ crashes < MaxCrashes /\ crashes' = crashes + 1
  /\ up' = FALSE /\ cache' = "none" /\ doubt' = FALSE
  /\ pc' = [t \in Tasks |-> "idle"] /\ missed' = {}

(* The process stops; the system keeps its files as they are. *)
Crash ==
  /\ up /\ Down
  /\ UNCHANGED <<disk, op, got, replace, verdict, owed, creators, started>>

(* The machine stops.  Of what the name stood for since the directory was   *)
(* written back any may be found, and bytes that were not flushed are lost. *)
(* A write is only owed still if its name was on the disk.                  *)
Survivors ==
  {IF f = file /\ f # "none" /\ ~durable THEN "short" ELSE f : f \in held}

PowerLoss ==
  /\ Down
  /\ file' \in Survivors /\ held' = {file'} /\ durable' = TRUE
  /\ verdict' = FALSE
  /\ owed' = (owed /\ held = {file})
  /\ creators' = IF file' = "none" THEN 0 ELSE creators
  /\ UNCHANGED <<temp, op, got, replace, started>>

(* purge_layout_temp_files, before anything is served *)
Startup ==
  /\ ~up /\ up' = TRUE
  /\ temp' = [t \in Tasks |-> "none"]
  /\ UNCHANGED <<file, held, durable, cache, local, verdict, history, started, crashes>>

Step(t) ==
  \/ \E o \in Operations : Begin(t, o)
  \/ LookUp(t) \/ Stat(t) \/ Insert(t) \/ Stage(t) \/ Flush(t) \/ Publish(t)
  \/ Settle(t) \/ Unlink(t) \/ Forget(t) \/ ReadRaw(t)

Next ==
  \/ \E t \in Tasks : Step(t)
  \/ Verify \/ Quarantine \/ Expire \/ WrittenBack \/ Crash \/ PowerLoss \/ Startup

Spec == Init /\ [][Next]_vars

(* The settings in which the store keeps its promises: no short block of an *)
(* older version is left where old blocks are converted.                    *)
SafeSetting ==
  /\ Mode \in {"off", "lazy", "on"}
  /\ Operations \subseteq {"write", "tracked", "has", "size", "remove", "convert"}
  /\ Legacy \subseteq {"none", "short", "plain", "bare", "sealed"}
  /\ "convert" \in Operations => Mode # "off" /\ "short" \notin Legacy

(* No block of another length is left where uploads ask whether they        *)
(* created theirs: such a block is replaced, and its replacement counted.   *)
OneLength == "tracked" \in Operations => Legacy \subseteq {"none", Written}

-----------------------------------------------------------------------------
(* Type invariant of the file, the cache and the tasks *)
TypeOK ==
  /\ file \in held /\ held \subseteq {"none", "short", "plain", "bare", "sealed"}
  /\ cache \in {"none", "short", "plain", "bare", "sealed"}
  /\ temp \in [Tasks -> {"none", "torn", "flushed"}]
  /\ creators \in Nat /\ missed \subseteq Tasks

(* A write that was answered with Ok is stored and readable, whether it was *)
(* written, repaired or skipped as a duplicate (write_block_with_id), until *)
(* the block is removed, however the removals before that ran beside it.    *)
(* The process may stop at any time; a loss of power spares the block once  *)
(* its name is written back.  Not promised: writes answered from an entry   *)
(* of the cache that a removal had outdated (see NoStaleExists).            *)
BlocksStored == owed => Readable

(* Nothing but a removal makes a readable block unreadable: "an interrupted *)
(* write leaves at most a .tmp, never a short final block" (store_block).   *)
(* A loss of power may bring back what the name stood for before, and no    *)
(* more than that.                                                          *)
BlocksNeverWorse ==
  Readable => \/ Readable' \/ file' = "none"
              \/ crashes' # crashes /\ file' \in held

(* "The publish is exclusive, so only one concurrent call sees was_new":    *)
(* of the tracked writes since the last removal at most one created the     *)
(* block, on which the clean-up after a refused upload relies.              *)
BlockHasOneCreator == creators <= 1

(* "A stale exists must not survive a remove" (remove_block): once no       *)
(* removal is under way, what the cache answers for is there.               *)
NoStaleExists ==
  (cache # "none" /\ \A t \in Tasks : pc[t] # "forget") => file # "none"
=============================================================================
