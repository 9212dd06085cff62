------------------------------ MODULE Uploads ------------------------------
(* Resumable uploads of one user into one library: the chunk requests of    *)
(* try_handle_chunked, the temp-file manager that keeps an upload between   *)
(* them, the reservation of quota, the size of the library and the reaper   *)
(* of abandoned uploads.  A file's content is the sequence of the chunks    *)
(* its blocks were cut from.                                                *)
EXTENDS Integers, Sequences, FiniteSets, FiniteSetsExt

CONSTANTS
  Files,       \* uploads, one client each: the requests of a client do not overlap
  NChunks,     \* chunks per file; a chunk counts one unit of quota
  MaxUploads,  \* entries the manager admits
  Quota,
  InitialSize, \* size of the library before the uploads
  MaxTroubles, \* bound: lost replies, failed writes, lost races and retries
  Disturbed    \* an upload may lose its entry half-way: the server restarts,
               \* the reaper takes it, the temp file cannot be opened, or the
               \* committed last chunk's answer is an error or gets lost

VARIABLES
  entry,       \* the manager's entry of each upload
  reserved,    \* the user's reservation for the library
  usage,       \* repos.size, which the quota is compared with
  saved,       \* what was committed for the upload: a second commit does
               \* not replace the first but gets a name of its own
  next,        \* the chunk the client sends next
  req,         \* the request in progress
  ids,         \* its local: the blocks to be committed
  delta,       \* its local: what adjust_repo_size adds
  gaveUp,      \* clients that stopped
  troubles

server == <<entry, reserved, usage, saved>>
local == <<ids, delta>>
vars == <<server, next, req, local, gaveUp, troubles>>

Chunks == 1 .. NChunks
Hole == 0
NoEntry == [open |-> FALSE, file |-> {}, stream |-> <<>>, broken |-> FALSE]
Open(f) == entry[f].open
Whole == [i \in Chunks |-> i]
(* What a walk over the committed tree adds up to. *)
TreeSize == InitialSize + NChunks * MapThenSumSet(LAMBDA f : Len(saved[f]), Files)

Init ==
  /\ entry = [f \in Files |-> NoEntry]
  /\ reserved = 0 /\ usage = InitialSize
  /\ saved = [f \in Files |-> <<>>]
  /\ next = [f \in Files |-> 1]
  /\ req = [f \in Files |-> "none"]
  /\ ids = [f \in Files |-> <<>>] /\ delta = [f \in Files |-> 0]
  /\ gaveUp = {} /\ troubles = 0

Trouble == troubles < MaxTroubles /\ troubles' = troubles + 1
Goto(f, pc) == req' = [req EXCEPT ![f] = pc]

(* The request ends with an error.  The client sends the chunk again, or    *)
(* it gives up.                                                             *)
Fail(f) ==
  /\ Goto(f, "none")
  /\ ids' = [ids EXCEPT ![f] = <<>>]
  /\ \/ Trouble /\ UNCHANGED gaveUp
     \/ gaveUp' = gaveUp \cup {f} /\ UNCHANGED troubles

-----------------------------------------------------------------------------
(* One chunk request *)

Send(f) ==
  /\ req[f] = "none" /\ f \notin gaveUp /\ next[f] \in Chunks
  /\ Goto(f, "admit")
  /\ UNCHANGED <<server, next, local, gaveUp, troubles>>

GiveUp(f) ==
  /\ req[f] = "none" /\ f \notin gaveUp /\ next[f] \in Chunks
  /\ gaveUp' = gaveUp \cup {f}
  /\ UNCHANGED <<server, next, req, local, troubles>>

(* get_or_create and bind_owner *)
GetOrCreate(f) ==
  /\ req[f] = "admit"
  /\ \/ /\ Open(f) \/ Cardinality({g \in Files : Open(g)}) < MaxUploads
        /\ entry' = [entry EXCEPT ![f].open = TRUE]
        /\ Goto(f, IF next[f] = 1 THEN "reserve" ELSE "write")
        /\ UNCHANGED <<ids, gaveUp, troubles>>
     \/ /\ ~Open(f) /\ Cardinality({g \in Files : Open(g)}) >= MaxUploads
        /\ Fail(f) /\ UNCHANGED entry
  /\ UNCHANGED <<reserved, usage, saved, next, delta>>

(* The first chunk reserves the whole file, every time it is sent. *)
Reserve(f) ==
  /\ req[f] = "reserve"
  /\ \/ /\ usage + reserved + NChunks <= Quota
        /\ reserved' = reserved + NChunks
        /\ Goto(f, "write")
        /\ UNCHANGED <<ids, gaveUp, troubles>>
     \/ /\ usage + reserved + NChunks > Quota
        /\ Fail(f) /\ UNCHANGED reserved
  /\ UNCHANGED <<entry, usage, saved, next, delta>>

(* The entry may be gone by now, or the write fails. *)
WriteChunk(f) ==
  /\ req[f] = "write"
  /\ \/ /\ Open(f)
        /\ entry' = [entry EXCEPT ![f].file = @ \cup {next[f]}]
        /\ Goto(f, "feed")
        /\ UNCHANGED <<ids, gaveUp, troubles>>
     \/ Fail(f) /\ UNCHANGED entry
  /\ UNCHANGED <<reserved, usage, saved, next, delta>>

AfterFeed(f) == Goto(f, IF next[f] = NChunks THEN "take" ELSE "reply")

Mutant_LostBlockStreamed(f) ==
  LET e == entry[f]
      inOrder == ~e.broken /\ next[f] = Len(e.stream) + 1
  IN
  /\ req[f] = "feed"
  /\ \/ /\ Open(f) /\ inOrder
        /\ entry' = [entry EXCEPT ![f].stream = Append(@, next[f])]
        /\ UNCHANGED troubles
     \/ /\ Open(f) /\ inOrder /\ Trouble
        /\ entry' = [entry EXCEPT ![f].stream = Append(@, Hole)]
     \/ /\ ~inOrder
        /\ entry' = IF Open(f) THEN [entry EXCEPT ![f].broken = TRUE] ELSE entry
        /\ UNCHANGED troubles
  /\ AfterFeed(f)
  /\ UNCHANGED <<reserved, usage, saved, next, local, gaveUp>>

(* feed_stream: a chunk in order goes through the chunker into the block    *)
(* store; another one, or a failed block write, ends the streaming.         *)
FeedStream(f) ==
  LET e == entry[f]
      inOrder == ~e.broken /\ next[f] = Len(e.stream) + 1
  IN
  /\ req[f] = "feed"
  /\ \/ /\ Open(f) /\ inOrder
        /\ entry' = [entry EXCEPT ![f].stream = Append(@, next[f])]
        /\ UNCHANGED troubles
     \/ /\ Open(f) /\ inOrder /\ Trouble
        /\ entry' = [entry EXCEPT ![f].broken = TRUE]
     \/ /\ Open(f) /\ ~inOrder
        /\ entry' = [entry EXCEPT ![f].broken = TRUE]
        /\ UNCHANGED troubles
     \/ ~Open(f) /\ UNCHANGED <<entry, troubles>>
  /\ AfterFeed(f)
  /\ UNCHANGED <<reserved, usage, saved, next, local, gaveUp>>

(* take_streamed_blocks: the fast path of an upload that came in order.     *)
(* The write of the last block may fail, and one of the others may have     *)
(* gone; the temp file is still there.                                      *)
TakeStreamedBlocks(f) ==
  LET e == entry[f]
      streamed == Open(f) /\ ~e.broken /\ Len(e.stream) = NChunks
  IN
  /\ req[f] = "take"
  /\ \/ /\ streamed
        /\ ids' = [ids EXCEPT ![f] = e.stream]
        /\ entry' = [entry EXCEPT ![f].broken = TRUE]
        /\ Goto(f, "check")
        /\ UNCHANGED troubles
     \/ /\ streamed /\ Trouble
        /\ entry' = [entry EXCEPT ![f].broken = TRUE]
        /\ Goto(f, "assemble")
        /\ UNCHANGED ids
     \/ /\ ~streamed
        /\ Goto(f, "assemble")
        /\ UNCHANGED <<entry, ids, troubles>>
  /\ UNCHANGED <<reserved, usage, saved, next, delta, gaveUp>>

(* The temp file is read from the start: what was never written reads as    *)
(* zeros.  Its length is right, for the last chunk was just written.  A     *)
(* block write may fail; a file that cannot be opened aborts the upload.    *)
Assemble(f) ==
  /\ req[f] = "assemble"
  /\ \/ /\ Open(f)
        /\ ids' = [ids EXCEPT ![f] =
                     [i \in Chunks |-> IF i \in entry[f].file THEN i ELSE Hole]]
        /\ Goto(f, "check")
        /\ UNCHANGED <<entry, reserved, gaveUp, troubles>>
     \/ Fail(f) /\ UNCHANGED <<entry, reserved>>
     \/ /\ Disturbed /\ Open(f) /\ Fail(f)
        /\ entry' = [entry EXCEPT ![f] = NoEntry]
        /\ reserved' = 0
  /\ UNCHANGED <<usage, saved, next, delta>>

(* upload_file_committed_stream: the quota check, without the reservations. *)
(* A refusal also removes the blocks this request was the first to write    *)
(* (cleanup_uncommitted_blocks): the manager, the temp file and the         *)
(* accounting are as they were, and what a removal beside other requests    *)
(* does to the block store is BlockFiles' subject.                          *)
CheckUploadQuota(f) ==
  /\ req[f] = "check"
  /\ \/ /\ usage + NChunks <= Quota
        /\ Goto(f, "commit")
        /\ UNCHANGED <<ids, gaveUp, troubles>>
     \/ usage + NChunks > Quota /\ Fail(f)
  /\ UNCHANGED <<server, next, delta>>

(* create_file_from_blocks, or the commit loses its race.  These are        *)
(* uploads without replace: no old size is deducted, and a taken name gives *)
(* the file another one.                                                    *)
CommitFile(f) ==
  /\ req[f] = "commit"
  /\ \/ /\ saved' = [saved EXCEPT ![f] = Append(@, ids[f])]
        /\ ids' = [ids EXCEPT ![f] = <<>>]
        /\ Goto(f, "size")
        /\ UNCHANGED <<gaveUp, troubles>>
     \/ Fail(f) /\ UNCHANGED saved
  /\ UNCHANGED <<entry, reserved, usage, next, delta>>

Mutant_AlwaysWalk(f) ==
  /\ req[f] = "size"
  /\ Goto(f, "walk")
  /\ UNCHANGED <<server, next, local, gaveUp, troubles>>

(* adjust_repo_size reads the size: zero means that it was never computed.  *)
(* An error here is the answer to an upload that has been committed.        *)
ReadSize(f) ==
  /\ req[f] = "size"
  /\ \/ /\ usage = 0 /\ Goto(f, "walk")
        /\ UNCHANGED <<local, gaveUp, troubles>>
     \/ /\ usage # 0 /\ Goto(f, "charge")
        /\ delta' = [delta EXCEPT ![f] = NChunks]
        /\ UNCHANGED <<ids, gaveUp, troubles>>
     \/ Disturbed /\ Fail(f) /\ UNCHANGED delta
  /\ UNCHANGED <<server, next>>

(* compute_repo_size *)
WalkTree(f) ==
  /\ req[f] = "walk"
  /\ delta' = [delta EXCEPT ![f] = TreeSize]
  /\ Goto(f, "charge")
  /\ UNCHANGED <<server, next, ids, gaveUp, troubles>>

Mutant_ReleaseOwnShare(f) ==
  /\ req[f] = "charge"
  /\ usage' = usage + delta[f]
  /\ reserved' = reserved - NChunks
  /\ delta' = [delta EXCEPT ![f] = 0]
  /\ Goto(f, "finish")
  /\ UNCHANGED <<entry, saved, next, ids, gaveUp, troubles>>

(* The size is adjusted in one statement; then everything the user reserved *)
(* for the library is released, other uploads' shares included.             *)
Charge(f) ==
  /\ req[f] = "charge"
  /\ usage' = usage + delta[f]
  /\ reserved' = 0
  /\ delta' = [delta EXCEPT ![f] = 0]
  /\ Goto(f, "finish")
  /\ UNCHANGED <<entry, saved, next, ids, gaveUp, troubles>>

Finish(f) ==
  /\ req[f] = "finish"
  /\ entry' = [entry EXCEPT ![f] = NoEntry]
  /\ Goto(f, "reply")
  /\ UNCHANGED <<reserved, usage, saved, next, local, gaveUp, troubles>>

Reply(f) ==
  /\ req[f] = "reply"
  /\ Goto(f, "none")
  /\ \/ next' = [next EXCEPT ![f] = @ + 1] /\ UNCHANGED troubles
     \/ /\ next[f] # NChunks \/ Disturbed
        /\ Trouble /\ UNCHANGED next
  /\ UNCHANGED <<server, local, gaveUp>>

-----------------------------------------------------------------------------
Mutant_ReservationKept(f) ==
  /\ Open(f) /\ f \in gaveUp /\ req[f] = "none"
  /\ entry' = [entry EXCEPT ![f] = NoEntry]
  /\ UNCHANGED <<reserved, usage, saved, next, req, local, gaveUp, troubles>>

(* cleanup_stale goes by the age of the entry, not by its last chunk.       *)
CleanupStale(f) ==
  /\ Open(f)
  /\ Disturbed \/ (f \in gaveUp /\ req[f] = "none")
  /\ entry' = [entry EXCEPT ![f] = NoEntry]
  /\ reserved' = 0
  /\ UNCHANGED <<usage, saved, next, req, local, gaveUp, troubles>>

(* The manager of the next process starts with an empty directory. *)
Restart ==
  /\ Disturbed /\ Trouble
  /\ entry' = [f \in Files |-> NoEntry]
  /\ reserved' = 0
  /\ req' = [f \in Files |-> "none"]
  /\ ids' = [f \in Files |-> <<>>] /\ delta' = [f \in Files |-> 0]
  /\ UNCHANGED <<usage, saved, next, gaveUp>>

Handle(f) ==
  \/ GetOrCreate(f) \/ Reserve(f) \/ WriteChunk(f) \/ FeedStream(f)
  \/ TakeStreamedBlocks(f) \/ Assemble(f) \/ CheckUploadQuota(f)
  \/ CommitFile(f) \/ ReadSize(f) \/ WalkTree(f) \/ Charge(f) \/ Finish(f)
  \/ Reply(f)

Client(f) == Send(f) \/ GiveUp(f)

Next ==
  \/ \E f \in Files : Client(f) \/ Handle(f) \/ CleanupStale(f)
  \/ Restart

Spec == Init /\ [][Next]_vars

(* A request is handled to its end, a client goes on or stops, and the      *)
(* reaper comes round.                                                      *)
Fairness ==
  /\ WF_vars(\E f \in Files : Handle(f))
  /\ WF_vars(\E f \in Files : Client(f))
  /\ WF_vars(\E f \in Files : CleanupStale(f))

(* The parameters the theorems of UploadsProofs are about: any number of    *)
(* files of any number of chunks.                                           *)
Setting == IsFiniteSet(Files) /\ NChunks \in Nat \ {0} /\ InitialSize \in Nat

-----------------------------------------------------------------------------
(* Type invariant of the manager, the accounting and the requests; a        *)
(* reservation that was released for everybody is never paid back twice.    *)
TypeOK ==
  /\ \A f \in Files : /\ entry[f].file \subseteq Chunks
                      /\ Open(f) \/ entry[f] = NoEntry
                      /\ next[f] \in 1 .. (NChunks + 1)
  /\ reserved \in Nat /\ usage \in Nat
  /\ delta \in [Files -> Nat]
  /\ gaveUp \subseteq Files

(* A committed file is what the client sent: whichever way its blocks were  *)
(* collected, streamed or assembled, "the always-written temp file remains  *)
(* the fallback" (feed_stream).                                             *)
UploadsWhole ==
  \A f \in Files : \A k \in 1 .. Len(saved[f]) : saved[f][k] = Whole

(* Between two uploads the library's size is that of its files: the         *)
(* adjustment is "atomic" and "avoids the read-then-write lost update"      *)
(* (adjust_size), the walk gives "a correct baseline" (adjust_repo_size).   *)
UploadsSized ==
  (\A f \in Files : req[f] \notin {"size", "walk", "charge"}) => usage = TreeSize

(* Every upload ends with its entry, its bytes and its reservation          *)
(* released, whether it was committed, refused half-way or abandoned.       *)
NothingLeaks == <>[](reserved = 0 /\ \A f \in DOMAIN entry : ~Open(f))
=============================================================================
