----------------------------- MODULE MCServices -----------------------------
(* Passing instances of the parts around the branch that share no state:    *)
(* the merge of trees and the outbox (the modules this one extends), the    *)
(* tree operations and WebDAV, the files of the block store and resumable   *)
(* uploads.  Each is explored by itself: `service` is fixed in the initial  *)
(* state, and the variables of the others keep their initial values.  The   *)
(* merge takes every triple of trees with one name in the root, two below,  *)
(* and three versions of a file.                                            *)
EXTENDS Merge, MailQueue

CONSTANTS Transfers, FewTransfers, Tasks

(* No lease runs out under the sender that holds it, which the theorems     *)
(* about the outbox rest on.                                                *)
ASSUME PromptSends == ~SlowSends

VARIABLES
  service,
  entry, reserved, usage, saved, next, req, ids, delta, gaveUp, troubles,
  file, held, durable, cache, temp, up, tpc, op, got, replace, verdict, missed,
  doubt, owed, creators, started, crashes,
  tree, deleted, size, owing, due, drifted, dav, ops

uploadVars == <<entry, reserved, usage, saved, next, req, ids, delta, gaveUp,
                troubles>>
blockVars == <<file, held, durable, cache, temp, up, tpc, op, got, replace, verdict,
               missed, doubt, owed, creators, started, crashes>>
treeVars == <<tree, deleted, size, owing, due, drifted, dav, ops>>
servicesVars == <<service, uploadVars, mailVars, vars, blockVars, treeVars>>

-----------------------------------------------------------------------------
(* Three uploads of which the quota has room for two and the manager for    *)
(* two at a time; and two that may lose their entries half-way, into an     *)
(* empty library.                                                           *)
Steady == INSTANCE UploadsProofs
  WITH Files <- Transfers, NChunks <- 2, MaxUploads <- 2, Quota <- 5, InitialSize <- 1,
       MaxTroubles <- 1, Disturbed <- FALSE
Shaken == INSTANCE UploadsProofs
  WITH Files <- FewTransfers, NChunks <- 2, MaxUploads <- 2, Quota <- 5,
       InitialSize <- 0, MaxTroubles <- 1, Disturbed <- TRUE

(* The settings of the theorems in UploadsProofs. *)
ASSUME SomeUploads == Steady!Setting /\ Shaken!Setting

(* A block of a library without encryption at rest; of one on the way to    *)
(* it, where old blocks are converted; and of one where it is required.     *)
Clear == INSTANCE BlockFilesProofs
  WITH Mode <- "off", Legacy <- {"none", "plain"},
       Operations <- {"write", "tracked", "has", "size", "remove"},
       MaxTasks <- 3, MaxCrashes <- 1, pc <- tpc
Lazy == INSTANCE BlockFilesProofs
  WITH Mode <- "lazy", Legacy <- {"none", "plain", "bare"},
       Operations <- {"write", "has", "convert", "remove"},
       MaxTasks <- 3, MaxCrashes <- 1, pc <- tpc
Sealed == INSTANCE BlockFilesProofs
  WITH Mode <- "on", Legacy <- {"none", "short", "plain", "bare"},
       Operations <- {"write", "size", "remove"},
       MaxTasks <- 3, MaxCrashes <- 1, pc <- tpc

(* The settings of the theorems in BlockFilesProofs. *)
ASSUME SafeBlocks ==
  /\ Clear!SafeSetting /\ Lazy!SafeSetting /\ Sealed!SafeSetting
  /\ Clear!OneLength /\ Lazy!OneLength /\ Sealed!OneLength

(* A folder and the root with a file each, of the same name, and three      *)
(* requests.                                                                *)
Folders == {[path |-> <<<<"a">>>>, id |-> "dir"],
            [path |-> <<<<"a">>, <<"x">>>>, id |-> "c1"],
            [path |-> <<<<"x">>>>, id |-> "c2"]}
Library == INSTANCE TreeOpsProofs
  WITH InitialTree <- Folders, Names <- {"x", "y"}, Careful <- TRUE,
       MaxOps <- 3, req <- dav

(* The setting of the theorems in TreeOpsProofs. *)
ASSUME RootedFolders == Library!Setting

-----------------------------------------------------------------------------
NothingToMerge ==
  /\ base = {} /\ head = {} /\ remote = {} /\ phase = "uploaded" /\ merged = {}
  /\ conflict = FALSE /\ keptDeleted = FALSE

ServicesInit ==
  /\ service \in {"steady", "shaken", "outbox", "merge", "plain", "lazy", "sealed", "tree"}
  /\ IF service = "shaken" THEN Shaken!Init ELSE Steady!Init
  /\ MailInit
  /\ IF service = "merge" THEN Init ELSE NothingToMerge
  /\ CASE service = "lazy" -> Lazy!Init
       [] service = "sealed" -> Sealed!Init
       [] service = "plain" -> Clear!Init
       [] OTHER -> Clear!Init /\ file = "none"
  /\ Library!Init

Uploading(s, step) ==
  service = s /\ step /\ UNCHANGED <<service, mailVars, vars, blockVars, treeVars>>
Mailing(step) ==
  /\ service = "outbox" /\ step
  /\ UNCHANGED <<service, uploadVars, vars, blockVars, treeVars>>
Storing(s, step) ==
  service = s /\ step /\ UNCHANGED <<service, uploadVars, mailVars, vars, treeVars>>

ServicesNext ==
  \/ Uploading("steady", Steady!Next)
  \/ Uploading("shaken", Shaken!Next)
  \/ Mailing(MailNext)
  \/ /\ service = "merge" /\ Next
     /\ UNCHANGED <<service, uploadVars, mailVars, blockVars, treeVars>>
  \/ Storing("plain", Clear!Next)
  \/ Storing("lazy", Lazy!Next)
  \/ Storing("sealed", Sealed!Next)
  \/ /\ service = "tree" /\ Library!Next
     /\ UNCHANGED <<service, uploadVars, mailVars, vars, blockVars>>

(* Uploads: a request is handled to its end, a client goes on or stops, and *)
(* the reaper comes round.  Mail: the worker drains on a timer, a drain     *)
(* goes on, backoffs and leases run out.                                    *)
Fairness ==
  /\ WF_servicesVars(Uploading("steady", \E f \in Transfers : Steady!Handle(f)))
  /\ WF_servicesVars(Uploading("steady", \E f \in Transfers : Steady!Client(f)))
  /\ WF_servicesVars(Uploading("steady", \E f \in Transfers : Steady!CleanupStale(f)))
  /\ \A s \in Senders : WF_servicesVars(Mailing(SenderStep(s)))
  /\ WF_servicesVars(Mailing(\E w \in Workers : StartDrain(w)))
  /\ \A m \in Messages : /\ WF_servicesVars(Mailing(BackoffOver(m)))
                         /\ WF_servicesVars(Mailing(LeaseRunsOut(m)))

ServicesSpec == ServicesInit /\ [][ServicesNext]_servicesVars /\ Fairness

-----------------------------------------------------------------------------
(* Type invariants of the services; a reservation that was released for     *)
(* everybody is never paid back twice, and entries hang in directories.     *)
TypeOK ==
  /\ IF service = "shaken" THEN Shaken!TypeOK ELSE Steady!TypeOK
  /\ MailTypeOK
  /\ Clear!TypeOK
  /\ Library!TypeOK

(* A committed upload is what the client sent, whichever way its blocks     *)
(* were collected, as long as no upload loses its entry half-way.           *)
UploadsWhole == service = "steady" => Steady!UploadsWhole

(* The size of a library that is not empty is adjusted exactly, whatever    *)
(* uploads run beside each other (adjust_repo_size).                        *)
UploadsSized == service = "steady" => Steady!UploadsSized

(* Entries and reservations of committed, refused and abandoned uploads are *)
(* all released in the end.                                                 *)
UploadsReleased == service = "steady" => Steady!NothingLeaks

(* A message that reads as sent was accepted by the mail server and stays   *)
(* sent, although mark_attempt_failed writes without a look at the row.     *)
MailSentIsFinal == [][SentStaysSent]_servicesVars

(* A block whose write was answered with Ok can be read until it is         *)
(* removed, after a crash of the server too (write_block_with_id,           *)
(* convert_legacy_block), with removals, conversions and writes beside each *)
(* other.  A loss of power may undo what was not written back.              *)
BlocksStored ==
  /\ service = "plain" => Clear!BlocksStored
  /\ service = "lazy" => Lazy!BlocksStored
  /\ service = "sealed" => Sealed!BlocksStored

(* Nothing but a removal makes a readable block unreadable: not a second    *)
(* writer, not a conversion, not a crash; a loss of power brings back what  *)
(* was there before, never half of a block (store_block).                   *)
BlocksNeverWorse ==
  [][/\ service = "plain" => Clear!BlocksNeverWorse
     /\ service = "lazy" => Lazy!BlocksNeverWorse
     /\ service = "sealed" => Sealed!BlocksNeverWorse]_servicesVars

(* Of the concurrent tracked writes of a block one is told that it created  *)
(* it (write_block_with_id_tracked).                                        *)
BlockHasOneCreator == Clear!BlockHasOneCreator

(* Moves, renames, copies and WebDAV requests that stop half-way leave      *)
(* every content in the library (move_entry, batch_move, do_move).          *)
NothingVanishes == [][Library!NothingVanishes]_servicesVars

(* "Names are unique within a directory" (rename_entry, batch_move).        *)
TreeNamesUnique == Library!UniqueNames

(* The stored size and the adjustments on their way add up to the size of   *)
(* the tree, though it is only ever adjusted, after the commit and in a     *)
(* transaction of its own (adjust_repo_size), until one of them is lost,    *)
(* races the computation of a size of zero, or is that of a copied          *)
(* directory.                                                               *)
SizeCounted == Library!SizeCounted

(* A MOVE or COPY that succeeds has done what WebDAV asks for, although it  *)
(* is up to three commits (move_copy_handler).                              *)
WebDavDone == Library!WebDavDone
=============================================================================
