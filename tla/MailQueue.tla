----------------------------- MODULE MailQueue -----------------------------
(* The outbox: messages are queued as rows, and whoever sends one claims    *)
(* its row first.  Senders are the outbox worker, the worker of the         *)
(* previous generation that still finishes its drain after a restart in     *)
(* place, and the administrator's requests (a retry, a test mail).          *)
(*                                                                          *)
(* Times are reduced to what the queries ask of them: whether a row is due, *)
(* and whether its lease has run out.  The worker is also woken by a nudge; *)
(* since it drains on a timer too, the nudge only makes it faster.          *)
EXTENDS Integers, FiniteSets

CONSTANTS
  Messages,
  Requests,       \* the administrator's requests that send
  MaxAttempts,    \* settings.max_attempts
  SlowSends,      \* a lease may run out under the sender that holds it
  MaxFaults,      \* bound: crashes, failed writes and lost answers
  MaxRestarts, MaxOrders   \* bounds: restarts in place, requests

VARIABLES
  row,         \* the email_messages table
  pc, msg,     \* a sender's control state, and the message it has claimed
  tries,       \* attempt_no of its attempt
  batch,       \* the rows a sender has read and not yet tried
  answer,      \* what came of the attempt
  worker,      \* the worker of this generation
  faults, orders,
  delivered,   \* how often the mail server accepted the message
  excused      \* ... while the answer, or the note of it, got lost

senders == <<pc, msg, tries, batch, answer>>
mailVars == <<row, senders, worker, faults, orders, delivered, excused>>

Workers == 0 .. MaxRestarts
Senders == Workers \cup Requests
NoMessage == "none"

NoRow == [status |-> "none", attempts |-> 0, due |-> FALSE, lease |-> "none"]
NewRow == [NoRow EXCEPT !.status = "pending", !.due = TRUE]
Pending(m) == row[m].status = "pending"
Finished(m) == row[m].status \in {"sent", "failed"}
(* The conditional UPDATE of claim, for a row read with that many attempts. *)
Claimable(m, attempts) ==
  /\ Pending(m) /\ row[m].due
  /\ row[m].attempts = attempts
  /\ row[m].lease # "live"

MailInit ==
  /\ row = [m \in Messages |-> NoRow]
  /\ pc = [s \in Senders |-> "idle"]
  /\ msg = [s \in Senders |-> NoMessage]
  /\ tries = [s \in Senders |-> 0]
  /\ batch = [s \in Senders |-> {}]
  /\ answer = [s \in Senders |-> "none"]
  /\ worker = 0 /\ faults = 0 /\ orders = 0
  /\ delivered = [m \in Messages |-> 0]
  /\ excused = [m \in Messages |-> 0]

Fault == faults < MaxFaults /\ faults' = faults + 1
Order == orders < MaxOrders /\ orders' = orders + 1
Goto(s, l) == pc' = [pc EXCEPT ![s] = l]
Read(m) == {<<m, row[m].attempts>>}

-----------------------------------------------------------------------------
(* What makes and removes rows *)

(* notify *)
Enqueue(m) ==
  /\ row[m] = NoRow
  /\ row' = [row EXCEPT ![m] = NewRow]
  /\ UNCHANGED <<senders, worker, faults, orders, delivered, excused>>

(* delete_message, at any time *)
Delete(m) ==
  /\ row[m].status \in {"pending", "sent", "failed"} /\ Order
  /\ row' = [row EXCEPT ![m] = [NoRow EXCEPT !.status = "deleted"]]
  /\ UNCHANGED <<senders, worker, faults, delivered, excused>>

(* send_test queues a message and attempts it; the worker may be faster. *)
SendTest(s, m) ==
  /\ pc[s] = "idle" /\ row[m] = NoRow /\ Order
  /\ row' = [row EXCEPT ![m] = NewRow]
  /\ batch' = [batch EXCEPT ![s] = {<<m, 0>>}]
  /\ Goto(s, "drain")
  /\ UNCHANGED <<tries, msg, answer, worker, faults, delivered, excused>>

(* retry: requeue, of failed rows only; the attempts go on counting *)
Requeue(s, m) ==
  /\ pc[s] = "idle" /\ row[m].status = "failed" /\ Order
  /\ row' = [row EXCEPT ![m].status = "pending", ![m].due = TRUE]
  /\ msg' = [msg EXCEPT ![s] = m]
  /\ Goto(s, "reread")
  /\ UNCHANGED <<tries, batch, answer, worker, faults, delivered, excused>>

(* ... and the row is read again for the attempt. *)
Reread(s) ==
  /\ pc[s] = "reread"
  /\ batch' = [batch EXCEPT ![s] =
                 IF row[msg[s]].status = "deleted" THEN {} ELSE Read(msg[s])]
  /\ msg' = [msg EXCEPT ![s] = NoMessage]
  /\ Goto(s, "drain")
  /\ UNCHANGED <<tries, row, answer, worker, faults, orders, delivered, excused>>

-----------------------------------------------------------------------------
(* A drain *)

Mutant_NotReaped(w) ==
  /\ w = worker /\ pc[w] = "idle"
  /\ batch' = [batch EXCEPT ![w] =
                 UNION {Read(m) : m \in {n \in Messages :
                          Pending(n) /\ row[n].due /\ row[n].lease = "none"}}]
  /\ Goto(w, "drain")
  /\ UNCHANGED <<tries, row, msg, answer, worker, faults, orders, delivered, excused>>

(* Leases that ran out are cleared, and the rows that are due are read. *)
StartDrain(w) ==
  /\ w = worker /\ pc[w] = "idle"
  /\ row' = [m \in Messages |->
               IF Pending(m) /\ row[m].lease = "expired"
               THEN [row[m] EXCEPT !.lease = "none"] ELSE row[m]]
  /\ batch' = [batch EXCEPT ![w] =
                 UNION {Read(m) : m \in {n \in Messages : Pending(n) /\ row[n].due}}]
  /\ Goto(w, "drain")
  /\ UNCHANGED <<tries, msg, answer, worker, faults, orders, delivered, excused>>

Mutant_CounterOnly(s) ==
  \E t \in batch[s] :
    LET m == t[1]
        mine == Pending(m) /\ row[m].due /\ row[m].attempts = t[2]
    IN
    /\ pc[s] = "drain"
    /\ batch' = [batch EXCEPT ![s] = @ \ {t}]
    /\ IF mine
       THEN /\ row' = [row EXCEPT ![m].attempts = @ + 1, ![m].lease = "live"]
            /\ msg' = [msg EXCEPT ![s] = m]
            /\ tries' = [tries EXCEPT ![s] = t[2] + 1]
            /\ Goto(s, "send")
       ELSE UNCHANGED <<row, msg, tries, pc>>
    /\ UNCHANGED <<answer, worker, faults, orders, delivered, excused>>

(* attempt: the claim, which somebody else may have won. *)
Claim(s) ==
  \E t \in batch[s] :
    LET m == t[1] IN
    /\ pc[s] = "drain"
    /\ batch' = [batch EXCEPT ![s] = @ \ {t}]
    /\ \/ /\ Claimable(m, t[2])
          /\ row' = [row EXCEPT ![m].attempts = @ + 1, ![m].lease = "live"]
          /\ msg' = [msg EXCEPT ![s] = m]
          /\ tries' = [tries EXCEPT ![s] = t[2] + 1]
          /\ Goto(s, "send")
       \/ ~Claimable(m, t[2]) /\ UNCHANGED <<row, msg, tries, pc>>
    /\ UNCHANGED <<answer, worker, faults, orders, delivered, excused>>

(* The mail server accepts or refuses, its acceptance may not be heard of;  *)
(* or the body cannot be decrypted.                                         *)
Send(s) ==
  LET m == msg[s] IN
  /\ pc[s] = "send"
  /\ \/ /\ answer' = [answer EXCEPT ![s] = "accepted"]
        /\ delivered' = [delivered EXCEPT ![m] = @ + 1]
        /\ UNCHANGED <<faults, excused>>
     \/ /\ Fault
        /\ answer' = [answer EXCEPT ![s] = "refused"]
        /\ delivered' = [delivered EXCEPT ![m] = @ + 1]
        /\ excused' = [excused EXCEPT ![m] = @ + 1]
     \/ /\ \E a \in {"refused", "unreadable"} : answer' = [answer EXCEPT ![s] = a]
        /\ UNCHANGED <<faults, delivered, excused>>
  /\ Goto(s, "record")
  /\ UNCHANGED <<tries, row, msg, batch, worker, orders>>

(* The row after the attempt: mark_sent and mark_attempt_failed write it    *)
(* whatever it says by now; a deleted row stays deleted.                    *)
After(s) ==
  LET r == row[msg[s]]
      retry == answer[s] = "refused" /\ tries[s] < MaxAttempts
  IN  [r EXCEPT !.status = IF answer[s] = "accepted" THEN "sent"
                           ELSE IF retry THEN "pending" ELSE "failed",
                !.due = FALSE, !.lease = "none"]

Mutant_SentUnseen(s) ==
  LET m == msg[s] IN
  /\ pc[s] = "record"
  /\ row' = [row EXCEPT ![m] = IF @.status = "deleted" THEN @
                               ELSE [@ EXCEPT !.status = "sent", !.lease = "none"]]
  /\ msg' = [msg EXCEPT ![s] = NoMessage]
  /\ tries' = [tries EXCEPT ![s] = 0]
  /\ answer' = [answer EXCEPT ![s] = "none"]
  /\ Goto(s, "drain")
  /\ UNCHANGED <<batch, worker, faults, orders, delivered, excused>>

Record(s) ==
  LET m == msg[s] IN
  /\ pc[s] = "record"
  /\ row' = [row EXCEPT ![m] = IF @.status = "deleted" THEN @ ELSE After(s)]
  /\ msg' = [msg EXCEPT ![s] = NoMessage]
  /\ tries' = [tries EXCEPT ![s] = 0]
  /\ answer' = [answer EXCEPT ![s] = "none"]
  /\ Goto(s, "drain")
  /\ UNCHANGED <<batch, worker, faults, orders, delivered, excused>>

(* The end of a drain prunes finished rows that are old; of a request, not. *)
EndDrain(s) ==
  /\ pc[s] = "drain" /\ batch[s] = {}
  /\ \E old \in SUBSET {m \in Messages : Finished(m)} :
       /\ s \in Requests => old = {}
       /\ row' = [m \in Messages |->
                    IF m \in old THEN [NoRow EXCEPT !.status = "deleted"] ELSE row[m]]
  /\ Goto(s, "idle")
  /\ UNCHANGED <<tries, msg, batch, answer, worker, faults, orders, delivered, excused>>

-----------------------------------------------------------------------------
(* Faults and time *)

(* The senders of S stop where they are; an acceptance nobody noted down is *)
(* one that will be repeated.                                               *)
Stop(S) ==
  /\ pc' = [s \in Senders |-> IF s \in S THEN "idle" ELSE pc[s]]
  /\ msg' = [s \in Senders |-> IF s \in S THEN NoMessage ELSE msg[s]]
  /\ tries' = [s \in Senders |-> IF s \in S THEN 0 ELSE tries[s]]
  /\ batch' = [s \in Senders |-> IF s \in S THEN {} ELSE batch[s]]
  /\ answer' = [s \in Senders |-> IF s \in S THEN "none" ELSE answer[s]]
  /\ excused' = [m \in Messages |->
       excused[m] + Cardinality({s \in S : msg[s] = m /\ answer[s] = "accepted"})]

(* A database error ends a drain or a request. *)
DbError(s) ==
  /\ pc[s] # "idle" /\ pc[s] # "send" /\ Fault
  /\ Stop({s})
  /\ UNCHANGED <<row, worker, orders, delivered>>

Crash ==
  /\ Fault
  /\ Stop(Senders)
  /\ UNCHANGED <<row, worker, orders, delivered>>

(* A restart in place: the old worker ends once its drain is over. *)
Restart ==
  /\ worker < MaxRestarts
  /\ worker' = worker + 1
  /\ UNCHANGED <<row, senders, faults, orders, delivered, excused>>

InFlight(s, m) == pc[s] \in {"send", "record"} /\ msg[s] = m

BackoffOver(m) ==
  /\ Pending(m) /\ ~row[m].due
  /\ row' = [row EXCEPT ![m].due = TRUE]
  /\ UNCHANGED <<senders, worker, faults, orders, delivered, excused>>

(* One now is stamped per drain, so the lease of a row late in a batch may  *)
(* run out under the sender that holds it: SlowSends.                       *)
LeaseRunsOut(m) ==
  /\ row[m].lease = "live"
  /\ SlowSends \/ \A s \in Senders : ~InFlight(s, m)
  /\ row' = [row EXCEPT ![m].lease = "expired"]
  /\ UNCHANGED <<senders, worker, faults, orders, delivered, excused>>

SenderStep(s) ==
  Reread(s) \/ Claim(s) \/ Send(s) \/ Record(s) \/ EndDrain(s)

MailNext ==
  \/ \E m \in Messages : Enqueue(m) \/ Delete(m) \/ BackoffOver(m) \/ LeaseRunsOut(m)
  \/ \E s \in Requests, m \in Messages : SendTest(s, m) \/ Requeue(s, m)
  \/ \E w \in Workers : StartDrain(w)
  \/ \E s \in Senders : SenderStep(s) \/ DbError(s)
  \/ Crash \/ Restart

MailSpec == MailInit /\ [][MailNext]_mailVars

-----------------------------------------------------------------------------
(* Type invariant of the table and the senders. *)
MailTypeOK ==
  /\ \A m \in Messages :
       /\ row[m].status \in {"none", "pending", "sent", "failed", "deleted"}
       /\ row[m].attempts \in Nat
       /\ row[m].lease = "live" => Pending(m)
       /\ delivered[m] \in Nat
  /\ pc \in [Senders -> {"idle", "reread", "drain", "send", "record"}]
  /\ \A s \in Senders : pc[s] \in {"send", "record"} => msg[s] \in Messages

(* "The lease is what stops a second drain (or a manual retry) from sending *)
(* the same body twice" (attempt): no two senders have one message in       *)
(* flight, and every delivery beyond the first is accounted for by an       *)
(* acceptance that was not heard of or not noted down.                      *)
MailOnce ==
  \A m \in Messages :
    /\ \A s, t \in Senders : InFlight(s, m) /\ InFlight(t, m) => s = t
    /\ delivered[m] <= 1 + excused[m]

(* A message that reads as sent was accepted by the mail server, and is     *)
(* never queued or failed again, although the outcome of an attempt is      *)
(* written without a look at the row.                                       *)
SentStaysSent ==
  \A m \in Messages :
    /\ row'[m].status = "sent" => delivered[m] > 0
    /\ row[m].status = "sent" => row'[m].status \in {"sent", "deleted"}

(* "A process that dies mid-send leaves it pending and it is tried again":  *)
(* every queued message ends as sent, failed or deleted, whoever held it    *)
(* when the process died.                                                   *)
MailDrains == <>[](\A m \in Messages : ~Pending(m))
=============================================================================
