-------------------------------- MODULE Jobs --------------------------------
(* The background task system (server/src/tasks): submission under the      *)
(* admission limits, one driver task per run, the in-memory run table a     *)
(* client polls, the journal of runs in the database, and what happens to   *)
(* all of it when the process dies, when an administrator restarts the      *)
(* server in place, and when recovery replays what was left unfinished.     *)
EXTENDS Naturals, FiniteSets, FiniteSetsExt

CONSTANTS
  Runs,           \* run ids: random, so which fresh one is taken is immaterial
  NoRun,
  Repos,          \* values of the deduplication parameter
  Jobs,           \* the jobs of the catalog this instance submits
  MaxActive,      \* the admission cap on active runs
  MaxRetained,    \* runs the in-memory table keeps
  Budgets         \* bounds: the combinations of submissions, timer ticks,
                  \* disruptions (crashes and restarts) and faults (failed
                  \* journal writes and dropped requests) a behaviour may
                  \* contain, with the rows a recovery pass reads: 50 in the
                  \* code

ASSUME JobsAssumption ==
  /\ NoRun \notin Runs
  /\ Jobs \subseteq {"move", "reindex", "index", "cleanup", "gc"}
  /\ Budgets \subseteq [submits : Nat, ticks : Nat, disruptions : Nat, faults : Nat,
                       limit : Nat]
  /\ \E b \in Budgets : \A c \in Budgets : c.disruptions <= b.disruptions

(* The policies of the catalog, as far as a run's life depends on them, one *)
(* for each kind of job: copies and moves; the rebuild of an index; batches *)
(* of files to index or scan; silent housekeeping; audited maintenance.     *)
Policy == [
  move    |-> [durability |-> "memory",  everyRun |-> TRUE,  stoppable |-> FALSE,
               chunked |-> FALSE, timed |-> TRUE,  dedup |-> FALSE, periodic |-> FALSE,
               permits |-> 8],
  reindex |-> [durability |-> "durable", everyRun |-> TRUE,  stoppable |-> TRUE,
               chunked |-> TRUE,  timed |-> TRUE,  dedup |-> TRUE,  periodic |-> FALSE,
               permits |-> 4],
  index   |-> [durability |-> "memory",  everyRun |-> TRUE,  stoppable |-> TRUE,
               chunked |-> TRUE,  timed |-> TRUE,  dedup |-> FALSE, periodic |-> FALSE,
               permits |-> 4],
  cleanup |-> [durability |-> "audit",   everyRun |-> FALSE, stoppable |-> TRUE,
               chunked |-> FALSE, timed |-> FALSE, dedup |-> FALSE, periodic |-> TRUE,
               permits |-> 1],
  gc      |-> [durability |-> "audit",   everyRun |-> TRUE,  stoppable |-> TRUE,
               chunked |-> TRUE,  timed |-> TRUE,  dedup |-> FALSE, periodic |-> TRUE,
               permits |-> 1]]

VARIABLES
  st,        \* the run table: a run's state, "absent" when it has none
  params,    \* whether the entry still holds its input (dropped at the end)
  info,      \* what was submitted, and the run whose work this one continues
  drv,       \* where the run's driver task is; "dropped" when the request
             \* that was to spawn it went away first
  sem,       \* the generation whose permits the driver waits for
  report,    \* the outcome of the body
  cancels,   \* runs whose cancellation token was fired
  row,       \* the journal
  phase,     \* the process: "up", "draining", "stopped" (between two
             \* generations) or "down"
  gen,       \* the server generation
  pass,      \* the recovery pass each generation starts
  budget,    \* what is left of the bounds
  unclosed,  \* runs whose last journal write failed
  orphans,   \* runs declared interrupted whose driver is alive
  started,   \* runs whose body was executed, of jobs that are not durable
  judged,    \* work of durable jobs with a verdict
  passedOver \* unfinished rows of dead runs that the last recovery pass to
             \* read the journal did not take up

bounds == <<budget, unclosed>>
table == <<st, params>>
driver == <<drv, sem, report, cancels>>
ghosts == <<orphans, started, judged, passedOver>>
vars == <<table, info, driver, row, phase, gen, pass, bounds, ghosts>>

ActiveStates == {"queued", "running", "yielded"}
(* Succeeded, Failed and TimedOut are one state here: nothing in this       *)
(* module tells them apart.                                                 *)
TerminalStates == {"finished", "cancelled", "interrupted"}

Job(r) == info[r].job
Durable(j) == Policy[j].durability = "durable"
(* A row is written when the run is submitted. *)
Journaled(j) == Policy[j].durability # "memory" /\ Policy[j].everyRun
Work(r) == info[r].work

Active == {r \in Runs : st[r] \in ActiveStates}
Done == {r \in Runs : st[r] \in TerminalStates}
Live(r) == drv[r] \notin {"none", "dropped", "gone"}
(* Between the spawn of the driver and its end. *)
HasToken(r) == drv[r] \in {"permit", "body", "record"}

NoInfo == [job |-> "none", repo |-> "none", origin |-> "none", work |-> NoRun]
(* A row of the journal, open until finished_at is set. *)
NoRow == [status |-> "none", lease |-> "none", attempt |-> 0]
Unfinished(r) == row[r].status = "open"
IdlePass == [pc |-> "idle", todo |-> {}, cur |-> NoRun, new |-> NoRun]
Generations == 1 .. (1 + Max({b.disruptions : b \in Budgets}))

(* The first generation is up and has nothing to recover. *)
Init ==
  /\ st = [r \in Runs |-> "absent"]
  /\ params = [r \in Runs |-> FALSE]
  /\ info = [r \in Runs |-> NoInfo]
  /\ drv = [r \in Runs |-> "none"]
  /\ sem = [r \in Runs |-> 0]
  /\ report = [r \in Runs |-> "none"]
  /\ cancels = {}
  /\ row = [r \in Runs |-> NoRow]
  /\ phase = "up" /\ gen = 1
  /\ pass = [g \in Generations |-> IdlePass]
  /\ budget \in Budgets /\ unclosed = {}
  /\ orphans = {} /\ started = {} /\ judged = {} /\ passedOver = {}

(* One submission, tick, disruption or failed write less. *)
Spend(kind) ==
  budget[kind] > 0 /\ budget' = [budget EXCEPT ![kind] = @ - 1]
Take(kind) == Spend(kind) /\ UNCHANGED unclosed

(* A journal write: done, or failed and leaving the rows of open unclosed. *)
Written == UNCHANGED bounds
Fault(open) == Spend("faults") /\ unclosed' = unclosed \cup open

Closed(r) == [row[r] EXCEPT !.status = "closed", !.lease = "none"]
(* The row of r gets its verdict, or the error of the write is only logged. *)
CloseRow(r) ==
  \/ Written /\ row' = [row EXCEPT ![r] = Closed(r)]
  \/ Fault({r}) /\ UNCHANGED row

-----------------------------------------------------------------------------
(* Submission *)

Mutant_DedupOnlyRunning(j, p) ==
  /\ Cardinality(Active) < MaxActive
  /\ Policy[j].dedup =>
       \A s \in Active :
         ~(st[s] = "running" /\ Job(s) = j /\ params[s] /\ info[s].repo = p)

(* RunStore::reserve: the cap and the deduplication, under one write lock.  *)
(* The caps per queue, per user and on the bytes kept refuse more: for a    *)
(* request that is a submission not made, for recovery see RecoverSubmit.   *)
Admits(j, p) ==
  /\ Cardinality(Active) < MaxActive
  /\ Policy[j].dedup =>
       \A s \in Active : ~(Job(s) = j /\ params[s] /\ info[s].repo = p)

(* evict_until_room: the finished runs that make room.  Active runs are     *)
(* never evicted, so the table may outgrow its budget.                      *)
Evictions ==
  LET present == Cardinality(Active) + Cardinality(Done)
      excess  == IF present < MaxRetained THEN 0 ELSE present - MaxRetained + 1
  IN  {E \in SUBSET Done :
         Cardinality(E) = IF excess < Cardinality(Done)
                          THEN excess ELSE Cardinality(Done)}

(* The synchronous half of submit_as, for a fresh run r of job j on p. *)
Reserve(r, j, p, o, w) ==
  /\ drv[r] = "none" /\ r = CHOOSE s \in Runs : drv[s] = "none"
  /\ Admits(j, p)
  /\ \E E \in Evictions :
       /\ st' = [s \in Runs |-> IF s = r THEN "queued"
                                ELSE IF s \in E THEN "absent" ELSE st[s]]
       /\ params' = [s \in Runs |-> s = r \/ (s \notin E /\ params[s])]
  /\ info' = [info EXCEPT ![r] = [job |-> j, repo |-> p, origin |-> o, work |-> w]]
  /\ drv' = [drv EXCEPT ![r] = IF Journaled(j) THEN "journal" ELSE "permit"]
  /\ sem' = [sem EXCEPT ![r] = gen]
  /\ UNCHANGED <<report, cancels>>

(* A request.  A refusal leaves no trace. *)
Submit(r) ==
  /\ phase = "up" /\ Take("submits")
  /\ \E j \in Jobs, p \in Repos : Reserve(r, j, p, "request", r)
  /\ UNCHANGED <<row, phase, gen, pass, ghosts>>

(* A periodic tick with OverlapPolicy::Skip. *)
Tick(r) ==
  /\ phase = "up" /\ Take("ticks")
  /\ \E j \in Jobs, p \in Repos :
       /\ Policy[j].periodic
       /\ \A s \in Active : Job(s) # j
       /\ Reserve(r, j, p, "schedule", r)
  /\ UNCHANGED <<row, phase, gen, pass, ghosts>>

NewRow == [status |-> "open", lease |-> "live", attempt |-> 1]

Mutant_ReservationKept(r) ==
  /\ drv[r] = "journal"
  /\ \/ /\ Written
        /\ row' = [row EXCEPT ![r] = NewRow]
        /\ drv' = [drv EXCEPT ![r] = "permit"]
     \/ /\ Fault({})
        /\ drv' = [drv EXCEPT ![r] = "gone"]
        /\ UNCHANGED row
  /\ UNCHANGED <<table, info, sem, report, cancels, phase, gen, pass, ghosts>>

Mutant_AttemptZero(r) ==
  /\ drv[r] = "journal"
  /\ Written
  /\ row' = [row EXCEPT ![r] = [NewRow EXCEPT !.attempt = 0]]
  /\ drv' = [drv EXCEPT ![r] = "permit"]
  /\ UNCHANGED <<table, info, sem, report, cancels, phase, gen, pass, ghosts>>

(* The awaited half: the row goes into the journal under a lease and the    *)
(* driver is spawned, or the reservation is given back.                     *)
Enqueue(r) ==
  /\ drv[r] = "journal"
  /\ \/ /\ Written
        /\ row' = [row EXCEPT ![r] = NewRow]
        /\ drv' = [drv EXCEPT ![r] = "permit"]
        /\ UNCHANGED table
     \/ /\ Fault({})
        /\ st' = [st EXCEPT ![r] = "absent"]
        /\ params' = [params EXCEPT ![r] = FALSE]
        /\ drv' = [drv EXCEPT ![r] = "gone"]
        /\ UNCHANGED row
  /\ UNCHANGED <<info, sem, report, cancels, phase, gen, pass, ghosts>>

(* The future of the submitting request is dropped while it waits for the   *)
(* journal: the client is gone or the request timed out.  The reservation   *)
(* stays, nothing will drive it, and its row is written or not.             *)
DropRequest(r) ==
  /\ drv[r] = "journal" /\ info[r].origin = "request"
  /\ Take("faults")
  /\ drv' = [drv EXCEPT ![r] = "dropped"]
  /\ row' \in {row, [row EXCEPT ![r] = NewRow]}
  /\ orphans' = orphans \ {r}
  /\ UNCHANGED <<table, info, sem, report, cancels, phase, gen, pass,
                 started, judged, passedOver>>

-----------------------------------------------------------------------------
(* The driver *)

(* The runs that hold a permit of the semaphore r waits for. *)
Holders(r) ==
  {s \in Runs : /\ drv[s] \in {"body", "record"}
                /\ Job(s) = Job(r) /\ sem[s] = sem[r]}

SetState(r, s) == st' = [st EXCEPT ![r] = IF @ = "absent" THEN @ ELSE s]

(* The driver gets its permit and marks the run as running: in the journal, *)
(* where a failure is only logged, and in the table, whatever state the     *)
(* entry is in.                                                             *)
Begin(r) ==
  /\ drv[r] = "permit"
  /\ Cardinality(Holders(r)) < Policy[Job(r)].permits
  /\ \/ /\ Written
        /\ row' = IF Journaled(Job(r))
                  THEN [row EXCEPT ![r].lease = "live"]
                  ELSE row
     \/ Journaled(Job(r)) /\ Fault({}) /\ UNCHANGED row
  /\ SetState(r, "running")
  /\ drv' = [drv EXCEPT ![r] = "body"]
  /\ started' = IF Durable(Job(r)) THEN started ELSE started \cup {r}
  /\ UNCHANGED <<params, info, sem, report, cancels, phase, gen, pass,
                 orphans, judged, passedOver>>

(* A checkpoint of a chunked job parks the run while the server is busy. *)
Park(r) ==
  /\ drv[r] = "body" /\ Policy[Job(r)].chunked
  /\ r \notin cancels
  /\ st[r] = "running"
  /\ SetState(r, "yielded")
  /\ UNCHANGED <<params, info, driver, row, phase, gen, pass, bounds, ghosts>>

Resume(r) ==
  /\ drv[r] = "body" /\ st[r] = "yielded"
  /\ SetState(r, "running")
  /\ UNCHANGED <<params, info, driver, row, phase, gen, pass, bounds, ghosts>>

(* A fired token is seen at a checkpoint, which only a stoppable job has.   *)
(* A parked run ends by its token or by the watchdog, which does not know   *)
(* that it is parked.                                                       *)
Outcomes(r) ==
  (IF st[r] # "yielded" \/ Policy[Job(r)].timed THEN {"finished"} ELSE {})
  \cup (IF st[r] # "yielded" /\ Policy[Job(r)].periodic THEN {"idle"} ELSE {})
  \cup (IF r \in cancels THEN {"cancelled"} ELSE {})

StateOf(o) == IF o = "idle" THEN "finished" ELSE o

(* The body ends, or its panic is caught: mark_terminal. *)
FinishBody(r) ==
  /\ drv[r] = "body"
  /\ \E o \in Outcomes(r) :
       /\ report' = [report EXCEPT ![r] = o]
       /\ SetState(r, StateOf(o))
  /\ params' = [params EXCEPT ![r] = FALSE]
  /\ drv' = [drv EXCEPT ![r] = "record"]
  /\ judged' = IF Durable(Job(r)) THEN judged \cup {Work(r)} ELSE judged
  /\ UNCHANGED <<info, sem, cancels, row, phase, gen, pass, bounds,
                 orphans, started, passedOver>>

(* An idle run of a timer is not an event. *)
Silent(r) == report[r] = "idle" /\ info[r].origin = "schedule"

(* The driver task is over and its locals with it. *)
Gone(r) ==
  /\ drv' = [drv EXCEPT ![r] = "gone"]
  /\ sem' = [sem EXCEPT ![r] = 0]
  /\ report' = [report EXCEPT ![r] = "none"]
  /\ cancels' = cancels \ {r}
  /\ orphans' = orphans \ {r}

Mutant_CancelNotRecorded(r) ==
  LET j == Job(r) IN
  /\ drv[r] = "record"
  /\ Written
  /\ row' = IF Journaled(j) /\ report[r] # "cancelled"
            THEN [row EXCEPT ![r] = Closed(r)] ELSE row
  /\ st' = IF Silent(r) THEN [st EXCEPT ![r] = "absent"] ELSE st
  /\ Gone(r)
  /\ UNCHANGED <<params, info, phase, gen, pass, started, judged, passedOver>>

(* The end of drive: the journal gets the verdict, or a notable run its     *)
(* only row; a silent run is forgotten; the permit and the token go.        *)
Record(r) ==
  LET j == Job(r)
      writes == \/ Journaled(j)
                \/ Policy[j].durability # "memory" /\ ~Silent(r)
  IN
  /\ drv[r] = "record"
  /\ IF writes THEN CloseRow(r) ELSE UNCHANGED <<row, bounds>>
  /\ st' = IF Silent(r) THEN [st EXCEPT ![r] = "absent"] ELSE st
  /\ Gone(r)
  /\ UNCHANGED <<params, info, phase, gen, pass, started, judged, passedOver>>

(* TaskSystem::cancel.  A run that is still being written down has no token *)
(* yet: the request is accepted and nothing happens.                        *)
Cancel(r) ==
  /\ phase = "up"
  /\ r \in Active /\ Policy[Job(r)].stoppable
  /\ HasToken(r) /\ r \notin cancels
  /\ cancels' = cancels \cup {r}
  /\ UNCHANGED <<table, info, drv, sem, report, row, phase, gen, pass, bounds, ghosts>>

(* The sweeper drops a finished run whose hour is up: long after its driver *)
(* has written the journal.                                                 *)
Sweep(r) ==
  /\ phase # "down"
  /\ r \in Done /\ ~Live(r)
  /\ st' = [st EXCEPT ![r] = "absent"]
  /\ UNCHANGED <<params, info, driver, row, phase, gen, pass, bounds, ghosts>>

-----------------------------------------------------------------------------
(* Crashes, restarts and recovery *)

(* The process dies: only the journal survives. *)
Crash ==
  /\ phase # "down" /\ Take("disruptions")
  /\ phase' = "down"
  /\ st' = [r \in Runs |-> "absent"]
  /\ params' = [r \in Runs |-> FALSE]
  /\ drv' = [r \in Runs |-> IF drv[r] = "none" THEN "none" ELSE "gone"]
  /\ sem' = [r \in Runs |-> 0]
  /\ report' = [r \in Runs |-> "none"]
  /\ cancels' = {}
  /\ pass' = [g \in Generations |-> IdlePass]
  /\ orphans' = {}
  /\ UNCHANGED <<info, row, gen, started, judged, passedOver>>

(* Rows whose lease is younger than a restart: what a running recovery pass *)
(* has claimed or submitted, and what became active after the drain.        *)
FreshlyLeased == Active \cup UNION {{pass[g].cur, pass[g].new} : g \in Generations}

(* install_default_jobs of the next generation: fresh permits, and a        *)
(* recovery pass of its own.  late are the unfinished rows whose lease ran  *)
(* out in the meantime: it is set when the row is enqueued, marked running  *)
(* or claimed, never renewed, and read only by a recovery pass.             *)
Generation(late) ==
  /\ gen' = gen + 1
  /\ phase' = "up"
  /\ pass' = [pass EXCEPT ![gen + 1] = [IdlePass EXCEPT !.pc = "read"]]
  /\ row' = [r \in Runs |-> IF r \in late THEN [row[r] EXCEPT !.lease = "expired"]
                            ELSE row[r]]
  /\ UNCHANGED <<table, info, driver, bounds, ghosts>>

UnfinishedRows == {r \in Runs : Unfinished(r)}

(* The server comes back within the lease of a row or after it: the service *)
(* manager may restart it within seconds, the lease is five minutes.        *)
Start ==
  /\ phase = "down"
  /\ \E late \in SUBSET UnfinishedRows : Generation(late)

(* drain, up to its wait: the tokens of the active runs that may be stopped *)
(* are fired.  With nothing active it returns at once.                      *)
Drain ==
  /\ phase = "up" /\ Take("disruptions")
  /\ phase' = IF Active = {} THEN "stopped" ELSE "draining"
  /\ cancels' = cancels \cup {r \in Active : Policy[Job(r)].stoppable /\ HasToken(r)}
  /\ UNCHANGED <<table, info, drv, sem, report, row, gen, pass, ghosts>>

(* The grace is over: interrupt_active.  The drivers are not stopped. *)
InterruptActive ==
  /\ phase = "draining"
  /\ phase' = "stopped"
  /\ st' = [r \in Runs |-> IF r \in Active THEN "interrupted" ELSE st[r]]
  /\ params' = [r \in Runs |-> r \notin Active /\ params[r]]
  /\ orphans' = orphans \cup {r \in Active : Live(r)}
  /\ UNCHANGED <<info, driver, row, gen, pass, bounds, started, judged, passedOver>>

Install ==
  /\ phase = "stopped"
  /\ \E late \in SUBSET (UnfinishedRows \ FreshlyLeased) : Generation(late)

Goto(g, todo) ==
  pass' = [pass EXCEPT ![g] = IF todo = {} THEN IdlePass
                              ELSE [IdlePass EXCEPT !.pc = "loop", !.todo = todo]]

Mutant_LeaseIgnored(r) == Unfinished(r)

(* The filter of recoverable and of claim_for_recovery. *)
Recoverable(r) == Unfinished(r) /\ row[r].lease # "live"

(* As many of the rows as one pass reads.  The code takes the oldest; no    *)
(* property depends on which.                                               *)
Batches(rows) ==
  {b \in SUBSET rows : \/ b = rows /\ Cardinality(rows) <= budget.limit
                       \/ Cardinality(b) = budget.limit}

(* Runs somebody sees to: a driver, or the recovery pass that claimed them. *)
Attended == {r \in Runs : Live(r) \/ \E g \in Generations : pass[g].cur = r}

(* The unfinished rows nobody holds.  When they cannot be read the pass is  *)
(* over.                                                                    *)
RecoverRead(g) ==
  /\ pass[g].pc = "read"
  /\ \E found \in Batches({r \in Runs : Recoverable(r)}) :
       /\ \/ Written /\ Goto(g, {<<r, row[r].attempt>> : r \in found})
          \/ Fault(found) /\ Goto(g, {})
       /\ passedOver' = UnfinishedRows \ (found \cup Attended)
  /\ UNCHANGED <<table, info, driver, row, phase, gen, orphans, started, judged>>

Mutant_AuditReplayed(j) == Policy[j].durability # "memory"

(* Whether recovery may run the job again. *)
Replayable(j) == Durable(j)

(* A row that is not safe to replay is closed; the error of the write is    *)
(* ignored.                                                                 *)
RecoverClose(g) ==
  \E t \in pass[g].todo :
    /\ pass[g].pc = "loop" /\ ~Replayable(Job(t[1]))
    /\ CloseRow(t[1])
    /\ Goto(g, pass[g].todo \ {t})
    /\ UNCHANGED <<table, info, driver, phase, gen, ghosts>>

Mutant_ClosedBeforeReplay(g) ==
  \E t \in pass[g].todo :
    /\ pass[g].pc = "loop" /\ Replayable(Job(t[1]))
    /\ Recoverable(t[1]) /\ row[t[1]].attempt = t[2]
    /\ row' = [row EXCEPT ![t[1]] = Closed(t[1])]
    /\ pass' = [pass EXCEPT ![g].pc = "submit", ![g].cur = t[1],
                            ![g].todo = @ \ {t}]
    /\ UNCHANGED <<table, info, driver, phase, gen, bounds, ghosts>>

(* claim_for_recovery: bump the attempt and renew the lease, unless         *)
(* somebody else got there first or the statement fails.                    *)
RecoverClaim(g) ==
  \E t \in pass[g].todo :
    LET r == t[1]
        mine == Recoverable(r) /\ row[r].attempt = t[2]
    IN
    /\ pass[g].pc = "loop" /\ Replayable(Job(r))
    /\ \/ /\ mine /\ Written
          /\ row' = [row EXCEPT ![r].attempt = @ + 1, ![r].lease = "live"]
          /\ pass' = [pass EXCEPT ![g].pc = "submit", ![g].cur = r,
                                  ![g].todo = @ \ {t}]
       \/ /\ (~mine /\ Written) \/ Fault({r})
          /\ Goto(g, pass[g].todo \ {t})
          /\ UNCHANGED row
    /\ UNCHANGED <<table, info, driver, phase, gen, ghosts>>

(* The claimed work is submitted again.  A refusal, by Admits or by one of  *)
(* the caps that it leaves out, is recorded as the work's failure.          *)
RecoverSubmit(g) ==
  LET r == pass[g].cur IN
  /\ pass[g].pc = "submit"
  /\ \/ /\ \E n \in Runs :
             /\ Reserve(n, Job(r), info[r].repo, "startup", Work(r))
             /\ pass' = [pass EXCEPT ![g].pc = "await", ![g].new = n]
        /\ UNCHANGED <<row, judged>> /\ Written
     \/ /\ CloseRow(r)
        /\ judged' = IF row' = row THEN judged ELSE judged \cup {Work(r)}
        /\ Goto(g, pass[g].todo)
        /\ UNCHANGED <<table, info, driver>>
  /\ UNCHANGED <<phase, gen, orphans, started, passedOver>>

(* Once the replay is written down the abandoned attempt is closed; when it *)
(* could not be written down, the work failed.                              *)
RecoverSettle(g) ==
  LET r == pass[g].cur
      replayed == row[pass[g].new] # NoRow
  IN
  /\ pass[g].pc = "await" /\ drv[pass[g].new] # "journal"
  /\ CloseRow(r)
  /\ judged' = IF replayed \/ row' = row THEN judged ELSE judged \cup {Work(r)}
  /\ Goto(g, pass[g].todo)
  /\ UNCHANGED <<table, info, driver, phase, gen, orphans, started, passedOver>>

-----------------------------------------------------------------------------
DriverStep(r) ==
  \/ Enqueue(r) \/ Begin(r) \/ FinishBody(r) \/ Record(r)

RecoverStep(g) ==
  \/ RecoverRead(g) \/ RecoverClose(g) \/ RecoverClaim(g)
  \/ RecoverSubmit(g) \/ RecoverSettle(g)

Next ==
  \/ \E r \in Runs : \/ Submit(r) \/ Tick(r) \/ DropRequest(r) \/ DriverStep(r)
                     \/ Park(r) \/ Resume(r) \/ Cancel(r) \/ Sweep(r)
  \/ \E g \in Generations : RecoverStep(g)
  \/ Crash \/ Start \/ Drain \/ InterruptActive \/ Install

Spec == Init /\ [][Next]_vars

(* Spawned tasks keep running, a body comes to an end, and a server that    *)
(* went down or is being restarted comes up again.  Fairness of the drivers *)
(* together is less than fairness of each, and is enough: a run takes only  *)
(* finitely many of these steps.                                            *)
FairSpec ==
  /\ Spec
  /\ WF_vars(\E r \in Runs : DriverStep(r))
  /\ WF_vars(\E g \in Generations : RecoverStep(g))
  /\ WF_vars(Start \/ InterruptActive \/ Install)

-----------------------------------------------------------------------------
Pcs == {"none", "journal", "dropped", "permit", "body", "record", "gone"}

(* Type invariant of the run table, the drivers and the journal; a row that *)
(* exists counts its attempts from one.                                     *)
TypeOK ==
  /\ st \in [Runs -> ActiveStates \cup TerminalStates \cup {"absent"}]
  /\ params \in [Runs -> BOOLEAN]
  /\ \A r \in Runs : drv[r] # "none" => /\ Job(r) \in Jobs
                                        /\ info[r].repo \in Repos
                                        /\ Work(r) \in Runs
  /\ drv \in [Runs -> Pcs]
  /\ cancels \subseteq Runs
  /\ \A r \in Runs : row[r] # NoRow =>
       /\ row[r].status \in {"open", "closed"}
       /\ row[r].attempt \in Nat
       /\ Journaled(Job(r)) => row[r].attempt >= 1
  /\ phase \in {"up", "draining", "stopped", "down"}
  /\ gen \in Generations

(* A run a client sees as active has a driver that will end it, unless its  *)
(* request was dropped before the spawn, and a run it sees as finished has  *)
(* none at work, unless a restart declared it interrupted: no early return, *)
(* journal failure, eviction or crash leaves another stuck or falsely       *)
(* finished entry in the table.                                             *)
ActiveIsDriven ==
  \A r \in Runs :
    /\ r \in Active => Live(r) \/ drv[r] = "dropped"
    /\ r \in Done /\ r \notin orphans => drv[r] \in {"record", "gone", "dropped"}

(* The deduplication is a lock: no two bodies of a deduplicated job work on *)
(* one library, except beside a body that a restart left behind.            *)
DedupHolds ==
  \A r, s \in Runs \ orphans :
    /\ r # s /\ drv[r] = "body" /\ drv[s] = "body"
    /\ Job(r) = Job(s) /\ Policy[Job(r)].dedup
    => info[r].repo # info[s].repo

(* Work whose repetition is not declared harmless is executed once, however *)
(* often the process dies and recovery runs.                                *)
NotReplayed ==
  \A r, s \in started : Work(r) = Work(s) => r = s

(* Recovery closes only the rows of runs that are dead or were left behind  *)
(* by a restart: the lease keeps it away from a run that is at work.        *)
RecoverySparesTheLiving ==
  [][\A r \in Runs :
       Unfinished(r) /\ row'[r].status = "closed" /\ drv[r] # "record"
         => ~Live(r) \/ r \in orphans]_vars

(* Durable work written in the journal: what must not get lost. *)
PendingWork ==
  {w \in Runs : \E r \in Runs : Unfinished(r) /\ Work(r) = w /\ Durable(Job(r))}

Durability == INSTANCE Worklist
  WITH Items <- Runs, pending <- PendingWork, judged <- judged

(* The journal and recovery implement the abstract list: at no point        *)
(* between a crash, the claim, the replay and the closing of the old row is *)
(* durable work neither pending nor judged.                                 *)
DurableWorkKept == Durability!Spec

Dropped == {r \in Runs : drv[r] = "dropped"}

(* Once the submissions and the disruptions are over, every run but those   *)
(* of dropped requests ends: permits are released whatever the body does,   *)
(* and nothing waits for a driver that is gone.  The journal is settled as  *)
(* well: a row the last recovery found expired and had room for is replayed *)
(* or closed, and a row stays unfinished only when its own last write       *)
(* failed, when that recovery passed it over, or when its request was       *)
(* dropped.                                                                 *)
WorkSettles ==
  /\ <>[](Active \subseteq Dropped)
  /\ <>[](\A r \in Runs : Unfinished(r) => r \in unclosed \cup passedOver \cup Dropped)
=============================================================================
