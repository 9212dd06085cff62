----------------------------- MODULE JobsProofs -----------------------------
(***************************************************************************)
(* Proofs about Jobs, for every number of runs, libraries, submissions,    *)
(* crashes, restarts, failed writes and dropped requests: a run the table  *)
(* shows as active is driven unless its request was dropped, the           *)
(* deduplication is a lock, work that is not durable is never executed     *)
(* twice, recovery spares the living, and the journal implements the       *)
(* abstract work list.                                                     *)
(***************************************************************************)
EXTENDS Jobs, TLAPS

-----------------------------------------------------------------------------
(* The inductive invariant *)

Infos ==
  [job : Jobs, repo : Repos, origin : {"request", "schedule", "startup"}, work : Runs]
Rows ==
  [status : {"none", "open", "closed"}, lease : {"none", "live", "expired"}, attempt : Nat]
Passes ==
  [pc : {"idle", "read", "loop", "submit", "await"}, todo : SUBSET (Runs \X Nat),
   cur : Runs \cup {NoRun}, new : Runs \cup {NoRun}]

Types ==
  /\ st \in [Runs -> ActiveStates \cup TerminalStates \cup {"absent"}]
  /\ params \in [Runs -> BOOLEAN]
  /\ info \in [Runs -> Infos \cup {NoInfo}]
  /\ drv \in [Runs -> Pcs]
  /\ cancels \subseteq Runs
  /\ row \in [Runs -> Rows]
  /\ phase \in {"up", "draining", "stopped", "down"}
  /\ gen \in Nat \ {0}
  /\ pass \in [Generations -> Passes]
  /\ budget \in [submits : Nat, ticks : Nat, disruptions : Nat, faults : Nat, limit : Nat]
  /\ orphans \subseteq Runs /\ started \subseteq Runs /\ judged \subseteq Runs

(* Every generation after the first was paid for by a disruption. *)
Affordable ==
  gen + budget.disruptions + (IF phase = "up" THEN 0 ELSE 1)
    <= 1 + Max({b.disruptions : b \in Budgets})

Driven(r) == drv[r] \in {"journal", "permit", "body"}

(* A run recovery may lay its hands on. *)
Abandoned(r) == drv[r] \in {"record", "gone", "dropped"} \/ r \in orphans

(* The table and the drivers: an entry is active exactly while its driver   *)
(* has not ended its body, except for an orphan's and for that of a dropped *)
(* request.                                                                 *)
TableInv ==
  \A r \in Runs :
    /\ drv[r] = "none" => st[r] = "absent"
    /\ drv[r] # "none" => info[r] \in Infos
    /\ st[r] \in ActiveStates => Driven(r) \/ drv[r] = "dropped"
    /\ Driven(r) /\ r \notin orphans => st[r] \in ActiveStates /\ params[r]

(* The journal: which rows exist, and whose lease may have run out. *)
JournalInv ==
  \A r \in Runs :
    /\ drv[r] \in {"none", "journal"} => row[r].status = "none"
    /\ row[r].status = "none" => row[r] = NoRow
    /\ drv[r] \in {"permit", "body", "record"} /\ Journaled(Job(r))
         => row[r].status # "none"
    /\ row[r].status # "none" /\ Journaled(Job(r)) => row[r].attempt >= 1
    /\ row[r].status = "open" => row[r].lease # "none"
    /\ row[r].status = "open" /\ row[r].lease = "expired" => Abandoned(r)

(* Nothing runs in a process that is down. *)
DownInv ==
  phase = "down" => /\ \A r \in Runs : drv[r] \in {"none", "gone"}
                    /\ \A g \in Generations : pass[g].pc = "idle"

(* Two runs that are driven and not left behind do not share a lock. *)
LockInv ==
  \A r, s \in Runs \ orphans :
    r # s /\ Driven(r) /\ Driven(s) /\ Job(r) = Job(s) /\ Policy[Job(r)].dedup
      => info[r].repo # info[s].repo

(* Only durable work is ever continued by a second run. *)
OriginInv ==
  /\ \A r \in Runs : drv[r] # "none" /\ ~Durable(Job(r)) => Work(r) = r
  /\ \A r \in started : drv[r] # "none" /\ ~Durable(Job(r))

(* What a recovery pass has noted or claimed. *)
Holding(g) == pass[g].pc \in {"submit", "await"}
Noted(g) == \A t \in pass[g].todo : row[t[1]].status # "none" /\ Abandoned(t[1])
Held(g) ==
  LET r == pass[g].cur IN
  r \in Runs /\ row[r].status # "none" /\ Abandoned(r) /\ Durable(Job(r))
PassInv == \A g \in Generations : Noted(g) /\ (Holding(g) => Held(g))

(* The replay a pass waits for: until the old row is closed, nobody but its *)
(* own driver touches its row.                                              *)
Untouched(n) ==
  /\ row[n].status = "open" => row[n].lease = "live"
  /\ row[n].status = "closed" => Work(n) \in judged
  /\ \A h \in Generations : /\ \A t \in pass[h].todo : t[1] # n
                            /\ Holding(h) => pass[h].cur # n
Replayed(n, r) == n \in Runs /\ drv[n] # "none" /\ Job(n) = Job(r) /\ Work(n) = Work(r)
ReplayInv ==
  \A g \in Generations : pass[g].pc = "await" =>
    Replayed(pass[g].new, pass[g].cur) /\ Untouched(pass[g].new)

(* Durable work that was written down is pending or judged. *)
KeptInv ==
  \A r \in Runs : drv[r] # "none" /\ Durable(Job(r)) =>
    /\ row[r].status # "none" => Work(r) \in PendingWork \cup judged
    /\ drv[r] = "record" => Work(r) \in judged

IInv ==
  /\ Types /\ Affordable /\ DownInv /\ TableInv /\ JournalInv /\ LockInv /\ OriginInv
  /\ PassInv /\ ReplayInv /\ KeptInv

-----------------------------------------------------------------------------
(* Types *)

USE DEF bounds, table, driver, ghosts, vars

(* The largest number of disruptions is a natural number. *)
LEMMA MaxDisruptions ==
  /\ Max({b.disruptions : b \in Budgets}) \in Nat
  /\ \A b \in Budgets : b.disruptions <= Max({c.disruptions : c \in Budgets})
<1> DEFINE D == {b.disruptions : b \in Budgets}
<1>1. D \subseteq Nat
  BY JobsAssumption
<1>2. \E m \in D : \A d \in D : m >= d
  BY JobsAssumption, <1>1
<1>3. Max(D) \in D /\ \A d \in D : Max(D) >= d
  BY <1>2 DEF Max
<1> QED
  BY <1>1, <1>3

(* A run that is written in the journal when it is submitted: so are the   *)
(* durable ones.                                                           *)
LEMMA DurableJournaled ==
  ASSUME NEW j \in Jobs, Durable(j)
  PROVE  Journaled(j)
BY JobsAssumption DEF Durable, Journaled, Policy

(* What a reservation does to the table and to the drivers. *)
Reserved(r, j, p, o, w) ==
    /\ drv[r] = "none"
    /\ \A s \in Runs \ {r} :
         /\ drv'[s] = drv[s] /\ info'[s] = info[s]
         /\ \/ st'[s] = st[s] /\ params'[s] = params[s]
            \/ st[s] \in TerminalStates /\ st'[s] = "absent"
    /\ st'[r] = "queued" /\ params'[r]
    /\ info'[r] = [job |-> j, repo |-> p, origin |-> o, work |-> w]
    /\ info'[r] \in Infos
    /\ drv'[r] = IF Journaled(j) THEN "journal" ELSE "permit"
    /\ \A s \in Runs : s \in Active => ~(/\ Policy[j].dedup /\ Job(s) = j
                                         /\ params[s] /\ info[s].repo = p)
    /\ UNCHANGED <<report, cancels>>
    /\ st' \in [Runs -> ActiveStates \cup TerminalStates \cup {"absent"}]
    /\ params' \in [Runs -> BOOLEAN]
    /\ info' \in [Runs -> Infos \cup {NoInfo}]
    /\ drv' \in [Runs -> Pcs]

LEMMA ReserveFacts ==
  ASSUME Types, NEW r \in Runs, NEW j \in Jobs, NEW p \in Repos,
         NEW o \in {"request", "schedule", "startup"}, NEW w \in Runs,
         Reserve(r, j, p, o, w)
  PROVE  Reserved(r, j, p, o, w)
<1>1. PICK E \in Evictions :
        /\ st' = [s \in Runs |-> IF s = r THEN "queued"
                                 ELSE IF s \in E THEN "absent" ELSE st[s]]
        /\ params' = [s \in Runs |-> s = r \/ (s \notin E /\ params[s])]
  BY DEF Reserve
<1>2. \A s \in E : s \in Runs /\ st[s] \in TerminalStates
  BY <1>1 DEF Evictions, Done
<1>3. info'[r] = [job |-> j, repo |-> p, origin |-> o, work |-> w] /\ info'[r] \in Infos
  BY DEF Reserve, Types, Infos
<1>4. \A s \in Runs \ {r} :
        /\ drv'[s] = drv[s] /\ info'[s] = info[s]
        /\ \/ st'[s] = st[s] /\ params'[s] = params[s]
           \/ st[s] \in TerminalStates /\ st'[s] = "absent"
  <2> SUFFICES ASSUME NEW s \in Runs \ {r}
               PROVE  /\ drv'[s] = drv[s] /\ info'[s] = info[s]
                      /\ \/ st'[s] = st[s] /\ params'[s] = params[s]
                         \/ st[s] \in TerminalStates /\ st'[s] = "absent"
    OBVIOUS
  <2>1. drv'[s] = drv[s] /\ info'[s] = info[s]
    BY DEF Reserve, Types
  <2>2. CASE s \in E
    BY <1>1, <1>2, <2>1, <2>2
  <2>3. CASE s \notin E
    BY <1>1, <2>1, <2>3 DEF Types
  <2> QED
    BY <2>2, <2>3
<1>5. \A s \in Runs : s \in Active => ~(/\ Policy[j].dedup /\ Job(s) = j
                                         /\ params[s] /\ info[s].repo = p)
  BY DEF Reserve, Admits
<1>6. drv[r] = "none" /\ UNCHANGED <<report, cancels>>
  BY DEF Reserve
<1>7. /\ drv'[r] = IF Journaled(j) THEN "journal" ELSE "permit"
      /\ drv' \in [Runs -> Pcs]
  BY DEF Reserve, Types, Pcs
<1>8. /\ st' \in [Runs -> ActiveStates \cup TerminalStates \cup {"absent"}]
      /\ st'[r] = "queued" /\ params'[r]
  BY <1>1 DEF Types, ActiveStates
<1>9. params' \in [Runs -> BOOLEAN]
  BY <1>1
<1>10. info' \in [Runs -> Infos \cup {NoInfo}]
  BY <1>3 DEF Reserve, Types
<1> QED
  BY <1>3, <1>4, <1>5, <1>6, <1>7, <1>8, <1>9, <1>10 DEF Reserved

(* The bounds: only a disruption costs one. *)
Amounts == [submits : Nat, ticks : Nat, disruptions : Nat, faults : Nat, limit : Nat]

LEMMA BoundFacts ==
  ASSUME Types
  PROVE  /\ Written => budget' \in Amounts /\ budget'.disruptions = budget.disruptions
         /\ \A S : Fault(S) => /\ budget' \in Amounts
                               /\ budget'.disruptions = budget.disruptions
         /\ \A k \in {"submits", "ticks", "faults"} :
              Take(k) => /\ budget' \in Amounts
                         /\ budget'.disruptions = budget.disruptions
         /\ Take("disruptions") => /\ budget' \in Amounts
                                   /\ budget'.disruptions = budget.disruptions - 1
BY DEF Types, Amounts, Written, Fault, Take, Spend

(* Closing a row touches that row alone, and may fail. *)
LEMMA CloseFacts ==
  ASSUME Types, NEW r \in Runs, CloseRow(r)
  PROVE  /\ budget' \in Amounts /\ budget'.disruptions = budget.disruptions
         /\ row' \in [Runs -> Rows]
         /\ \A s \in Runs \ {r} : row'[s] = row[s]
         /\ \/ row' = row
            \/ /\ row'[r].status = "closed" /\ row'[r].lease = "none"
               /\ row'[r].attempt = row[r].attempt
<1>1. CASE Written /\ row' = [row EXCEPT ![r] = Closed(r)]
  <2>1. /\ Closed(r) \in Rows
        /\ Closed(r).status = "closed" /\ Closed(r).lease = "none"
        /\ Closed(r).attempt = row[r].attempt
    BY DEF Closed, Types, Rows
  <2> QED
    BY <1>1, <2>1, BoundFacts DEF Types
<1>2. CASE Fault({r}) /\ UNCHANGED row
  BY <1>2, BoundFacts DEF Types
<1> QED
  BY <1>1, <1>2 DEF CloseRow

(* Where a recovery pass goes on. *)
LEMMA GotoFacts ==
  ASSUME Types, NEW g \in Generations, NEW todo \in SUBSET (Runs \X Nat), Goto(g, todo)
  PROVE  /\ pass' \in [Generations -> Passes]
         /\ \A h \in Generations \ {g} : pass'[h] = pass[h]
         /\ pass'[g].todo = todo /\ pass'[g].pc \in {"idle", "loop"}
         /\ pass'[g].new = NoRun /\ pass'[g].cur = NoRun
<1>1. CASE todo = {}
  BY <1>1 DEF Goto, Types, Passes, IdlePass
<1>2. CASE todo # {}
  BY <1>2 DEF Goto, Types, Passes, IdlePass
<1> QED
  BY <1>1, <1>2

(* The next generation has a place for its recovery pass. *)
LEMMA NextGeneration ==
  ASSUME Types, Affordable, phase # "up"
  PROVE  gen + 1 \in Generations
BY MaxDisruptions DEF Types, Affordable, Generations

(* A new generation starts its pass, and lets leases run out. *)
LEMMA GenerationFacts ==
  ASSUME Types, Affordable, phase # "up", NEW late \in SUBSET Runs, Generation(late)
  PROVE  /\ gen' = gen + 1 /\ phase' = "up" /\ gen + 1 \in Generations
         /\ pass' \in [Generations -> Passes]
         /\ \A h \in Generations \ {gen + 1} : pass'[h] = pass[h]
         /\ pass'[gen + 1] = [IdlePass EXCEPT !.pc = "read"]
         /\ pass'[gen + 1].todo = {} /\ pass'[gen + 1].pc = "read"
         /\ row' \in [Runs -> Rows]
         /\ \A r \in Runs : /\ row'[r].status = row[r].status
                            /\ row'[r].attempt = row[r].attempt
                            /\ r \in late => row'[r].lease = "expired"
                            /\ r \notin late => row'[r] = row[r]
         /\ UNCHANGED <<table, info, driver, bounds, ghosts>>
<1>1. gen + 1 \in Generations
  BY NextGeneration
<1>2. [IdlePass EXCEPT !.pc = "read"] \in Passes
  BY DEF IdlePass, Passes
<1>3. /\ pass' \in [Generations -> Passes]
      /\ \A h \in Generations \ {gen + 1} : pass'[h] = pass[h]
      /\ pass'[gen + 1] = [IdlePass EXCEPT !.pc = "read"]
  BY <1>1, <1>2 DEF Generation, Types
<1>4. pass'[gen + 1].todo = {} /\ pass'[gen + 1].pc = "read"
  BY <1>3 DEF IdlePass
<1>5. \A r \in Runs : /\ [row[r] EXCEPT !.lease = "expired"] \in Rows
                     /\ [row[r] EXCEPT !.lease = "expired"].status = row[r].status
                     /\ [row[r] EXCEPT !.lease = "expired"].attempt = row[r].attempt
                     /\ [row[r] EXCEPT !.lease = "expired"].lease = "expired"
  BY DEF Types, Rows
<1>6. row' = [r \in Runs |-> IF r \in late THEN [row[r] EXCEPT !.lease = "expired"]
                             ELSE row[r]]
  BY DEF Generation
<1>7. /\ row' \in [Runs -> Rows]
      /\ \A r \in Runs : /\ row'[r].status = row[r].status
                         /\ row'[r].attempt = row[r].attempt
                         /\ r \in late => row'[r].lease = "expired"
                         /\ r \notin late => row'[r] = row[r]
  BY <1>5, <1>6 DEF Types
<1> QED
  BY <1>1, <1>3, <1>4, <1>7 DEF Generation

(* The claim of a row: the next attempt, under a fresh lease. *)
Claimed(g, t) ==
  /\ row' = [row EXCEPT ![t[1]].attempt = @ + 1, ![t[1]].lease = "live"]
  /\ pass' = [pass EXCEPT ![g].pc = "submit", ![g].cur = t[1], ![g].todo = @ \ {t}]

LEMMA RowUpdate ==
  ASSUME NEW x \in Rows, NEW n \in Nat
  PROVE  LET y == [x EXCEPT !.attempt = n, !.lease = "live"] IN
         /\ y \in Rows /\ y.status = x.status
         /\ y.lease = "live" /\ y.attempt = n
BY DEF Rows

LEMMA ClaimFacts ==
  ASSUME Types, NEW g \in Generations, NEW t \in pass[g].todo, Claimed(g, t)
  PROVE  /\ t[1] \in Runs
         /\ row' \in [Runs -> Rows]
         /\ \A s \in Runs \ {t[1]} : row'[s] = row[s]
         /\ row'[t[1]].status = row[t[1]].status
         /\ row'[t[1]].lease = "live"
         /\ row'[t[1]].attempt = row[t[1]].attempt + 1
         /\ pass' \in [Generations -> Passes]
         /\ \A h \in Generations \ {g} : pass'[h] = pass[h]
         /\ pass'[g].pc = "submit" /\ pass'[g].cur = t[1]
         /\ pass'[g].todo = pass[g].todo \ {t}
<1>1. t \in Runs \X Nat
  BY DEF Types, Passes
<1> DEFINE r == t[1]
<1>2. r \in Runs
  BY <1>1
<1> HIDE DEF r
<1> DEFINE R == [row[r] EXCEPT !.attempt = row[r].attempt + 1, !.lease = "live"]
<1>3. row' = [row EXCEPT ![r] = R]
  BY <1>2 DEF Claimed, Types, Rows, r
<1>4. /\ R \in Rows /\ R.status = row[r].status
      /\ R.lease = "live" /\ R.attempt = row[r].attempt + 1
  <2>1. row[r] \in Rows
    BY <1>2 DEF Types
  <2>2. row[r].attempt + 1 \in Nat
    BY <2>1 DEF Rows
  <2> QED
    BY <2>1, <2>2, RowUpdate
<1> HIDE DEF R
<1> DEFINE P == [pass[g] EXCEPT !.pc = "submit", !.cur = r, !.todo = @ \ {t}]
<1>5. pass' = [pass EXCEPT ![g] = P]
  BY DEF Claimed, Types, Passes, r
<1>6. P \in Passes /\ P.pc = "submit" /\ P.cur = r /\ P.todo = pass[g].todo \ {t}
  BY <1>2 DEF Types, Passes
<1> HIDE DEF P
<1>7. /\ row' \in [Runs -> Rows]
      /\ \A s \in Runs \ {r} : row'[s] = row[s]
      /\ row'[r].status = row[r].status
      /\ row'[r].lease = "live"
      /\ row'[r].attempt = row[r].attempt + 1
  BY <1>2, <1>3, <1>4 DEF Types
<1>8. /\ pass' \in [Generations -> Passes]
      /\ \A h \in Generations \ {g} : pass'[h] = pass[h]
      /\ pass'[g].pc = "submit" /\ pass'[g].cur = r
      /\ pass'[g].todo = pass[g].todo \ {t}
  BY <1>5, <1>6 DEF Types
<1> QED
  BY <1>2, <1>7, <1>8 DEF r

(* The pass waits for the replay it submitted. *)
LEMMA AwaitFacts ==
  ASSUME Types, NEW g \in Generations, NEW n \in Runs,
         pass' = [pass EXCEPT ![g].pc = "await", ![g].new = n]
  PROVE  /\ pass' \in [Generations -> Passes]
         /\ \A h \in Generations \ {g} : pass'[h] = pass[h]
         /\ pass'[g].pc = "await" /\ pass'[g].new = n
         /\ pass'[g].cur = pass[g].cur /\ pass'[g].todo = pass[g].todo
<1> DEFINE P == [pass[g] EXCEPT !.pc = "await", !.new = n]
<1>1. pass' = [pass EXCEPT ![g] = P]
  BY DEF Types, Passes
<1>2. /\ P \in Passes /\ P.pc = "await" /\ P.new = n
      /\ P.cur = pass[g].cur /\ P.todo = pass[g].todo
  BY DEF Types, Passes
<1> HIDE DEF P
<1> QED
  BY <1>1, <1>2 DEF Types

(* The driver marks its run as running: what happens to its row. *)
LEMMA BeginRow ==
  ASSUME Types, NEW r \in Runs, Begin(r)
  PROVE  /\ budget' \in Amounts /\ budget'.disruptions = budget.disruptions
         /\ row' \in [Runs -> Rows]
         /\ \A s \in Runs \ {r} : row'[s] = row[s]
         /\ row'[r].status = row[r].status
         /\ row'[r].attempt = row[r].attempt
         /\ \/ row'[r] = row[r]
            \/ Journaled(Job(r)) /\ row'[r].lease = "live"
<1>1. CASE Written /\ Journaled(Job(r)) /\ row' = [row EXCEPT ![r].lease = "live"]
  <2> DEFINE R == [row[r] EXCEPT !.lease = "live"]
  <2>1. row' = [row EXCEPT ![r] = R]
    BY <1>1 DEF Types, Rows
  <2>2. R \in Rows /\ R.status = row[r].status /\ R.attempt = row[r].attempt
        /\ R.lease = "live"
    BY DEF Types, Rows
  <2> HIDE DEF R
  <2> QED
    BY <1>1, <2>1, <2>2, BoundFacts DEF Types
<1>2. CASE (Written \/ Fault({})) /\ row' = row
  BY <1>2, BoundFacts DEF Types
<1> QED
  BY <1>1, <1>2 DEF Begin

(* The initial state satisfies the invariant. *)
LEMMA InitInv == Init => IInv
<1> SUFFICES ASSUME Init PROVE IInv
  OBVIOUS
<1>1. Types
  BY JobsAssumption
  DEF Init, Types, Pcs, Passes, IdlePass, Rows, NoRow, Generations
<1>2. Affordable
  BY JobsAssumption, MaxDisruptions DEF Init, Affordable
<1>3. TableInv /\ LockInv
  BY DEF Init, TableInv, LockInv, Driven, ActiveStates
<1>4. JournalInv /\ DownInv
  BY DEF Init, JournalInv, NoRow, DownInv
<1>5. OriginInv
  BY DEF Init, OriginInv
<1>6. PassInv /\ ReplayInv
  BY DEF Init, PassInv, ReplayInv, Holding, Noted, IdlePass
<1>7. KeptInv
  BY DEF Init, KeptInv
<1> QED
  BY <1>1, <1>2, <1>3, <1>4, <1>5, <1>6, <1>7 DEF IInv

(* A step of a request, of the timer, of a driver or of the sweeper. *)
RunStep(r) ==
  \/ Submit(r) \/ Tick(r) \/ DropRequest(r) \/ DriverStep(r)
  \/ Park(r) \/ Resume(r) \/ Cancel(r) \/ Sweep(r)

(* A submission or a tick is a reservation for work of its own. *)
Fresh(r) ==
  /\ \E j \in Jobs, p \in Repos, o \in {"request", "schedule"} : Reserve(r, j, p, o, r)
  /\ budget' \in Amounts /\ budget'.disruptions = budget.disruptions
  /\ UNCHANGED <<row, phase, gen, pass, ghosts>>

LEMMA FreshFacts ==
  ASSUME Types, NEW r \in Runs, Submit(r) \/ Tick(r)
  PROVE  Fresh(r)
BY BoundFacts DEF Submit, Tick, Fresh

(* What a pass holds was submitted, for a job and a library. *)
LEMMA HeldInfo ==
  ASSUME IInv, NEW g \in Generations, Holding(g)
  PROVE  LET r == pass[g].cur IN
         /\ r \in Runs /\ drv[r] # "none" /\ info[r] \in Infos
         /\ Job(r) \in Jobs /\ info[r].repo \in Repos /\ Work(r) \in Runs
         /\ Durable(Job(r))
<1> DEFINE r == pass[g].cur
<1>1. r \in Runs /\ row[r].status # "none" /\ Durable(Job(r))
  BY DEF IInv, PassInv, Held
<1> HIDE DEF r
<1>2. drv[r] # "none"
  BY <1>1 DEF IInv, JournalInv
<1>3. info[r] \in Infos
  BY <1>1, <1>2 DEF IInv, TableInv
<1>4. Job(r) \in Jobs /\ info[r].repo \in Repos /\ Work(r) \in Runs
  BY <1>3 DEF Infos, Job, Work
<1> QED
  BY <1>1, <1>2, <1>3, <1>4 DEF r

(* The two outcomes of submitting the claimed work again. *)
Replay(g, n) ==
  LET r == pass[g].cur IN
  /\ Reserve(n, Job(r), info[r].repo, "startup", Work(r))
  /\ pass' = [pass EXCEPT ![g].pc = "await", ![g].new = n]
  /\ Written
  /\ UNCHANGED <<row, phase, gen, ghosts>>
Refuse(g) ==
  LET r == pass[g].cur IN
  /\ CloseRow(r)
  /\ judged' = IF row' = row THEN judged ELSE judged \cup {Work(r)}
  /\ Goto(g, pass[g].todo)
  /\ UNCHANGED <<table, info, driver, phase, gen, orphans, started, passedOver>>

LEMMA SubmitFacts ==
  ASSUME NEW g, RecoverSubmit(g)
  PROVE  pass[g].pc = "submit" /\ ((\E n \in Runs : Replay(g, n)) \/ Refuse(g))
BY DEF RecoverSubmit, Replay, Refuse

(* Types are preserved by the steps of a run. *)
LEMMA TypesRun ==
  ASSUME IInv, NEW r \in Runs, RunStep(r)
  PROVE  Types' /\ Affordable'
<1> USE DEF IInv
<1>0. Types
  OBVIOUS
<1>1. CASE Submit(r) \/ Tick(r)
  <2>1. Fresh(r)
    BY <1>1, FreshFacts
  <2>2. PICK j \in Jobs, p \in Repos, o \in {"request", "schedule"} : Reserve(r, j, p, o, r)
    BY <2>1 DEF Fresh
  <2>3. /\ st' \in [Runs -> ActiveStates \cup TerminalStates \cup {"absent"}]
        /\ params' \in [Runs -> BOOLEAN]
        /\ info' \in [Runs -> Infos \cup {NoInfo}]
        /\ drv' \in [Runs -> Pcs]
        /\ UNCHANGED cancels
    BY <2>2, ReserveFacts DEF Reserved
  <2> QED
    BY <2>1, <2>3 DEF Fresh, Types, Affordable, Amounts
<1>2. CASE Enqueue(r)
  <2>1. budget' \in Amounts /\ budget'.disruptions = budget.disruptions
    BY <1>2, BoundFacts DEF Enqueue
  <2>2. /\ row' \in [Runs -> Rows]
        /\ drv' \in [Runs -> Pcs]
        /\ st' \in [Runs -> ActiveStates \cup TerminalStates \cup {"absent"}]
        /\ params' \in [Runs -> BOOLEAN]
    <3>1. NewRow \in Rows
      BY DEF NewRow, Rows
    <3>2. row' \in [Runs -> Rows]
      BY <1>2, <3>1 DEF Enqueue, Types
    <3>3. drv' \in [Runs -> Pcs]
      BY <1>2 DEF Enqueue, Types, Pcs
    <3>4. /\ st' \in [Runs -> ActiveStates \cup TerminalStates \cup {"absent"}]
          /\ params' \in [Runs -> BOOLEAN]
      BY <1>2 DEF Enqueue, Types
    <3> QED
      BY <3>2, <3>3, <3>4
  <2> QED
    BY <1>2, <2>1, <2>2 DEF Enqueue, Types, Affordable, Amounts
<1>3. CASE Begin(r)
  <2>1. /\ st' \in [Runs -> ActiveStates \cup TerminalStates \cup {"absent"}]
        /\ drv' \in [Runs -> Pcs] /\ started' \subseteq Runs
    BY <1>3 DEF Begin, SetState, Types, ActiveStates, Pcs
  <2>2. /\ row' \in [Runs -> Rows]
        /\ budget' \in Amounts /\ budget'.disruptions = budget.disruptions
    BY <1>3, BeginRow
  <2>3. Affordable'
    BY <1>3, <2>2 DEF Begin, Affordable
  <2> QED
    BY <1>3, <2>1, <2>2, <2>3 DEF Begin, Types, Amounts
<1>4. CASE FinishBody(r)
  <2>1. PICK o \in Outcomes(r) : SetState(r, StateOf(o))
    BY <1>4 DEF FinishBody
  <2>2. StateOf(o) \in {"finished", "cancelled"}
    BY <2>1 DEF Outcomes, StateOf
  <2>3. st' \in [Runs -> ActiveStates \cup TerminalStates \cup {"absent"}]
    BY <2>1, <2>2 DEF SetState, Types, TerminalStates
  <2>4. Work(r) \in Runs
    BY <1>4 DEF FinishBody, TableInv, Infos, Work
  <2> QED
    BY <1>4, <2>3, <2>4 DEF FinishBody, Types, Affordable, Pcs
<1>5. CASE Record(r)
  <2>1. /\ row' \in [Runs -> Rows]
        /\ budget' \in Amounts /\ budget'.disruptions = budget.disruptions
    <3>1. CASE CloseRow(r)
      BY <3>1, CloseFacts
    <3>2. CASE UNCHANGED <<row, bounds>>
      BY <3>2 DEF Types, Amounts
    <3> QED
      BY <1>5, <3>1, <3>2 DEF Record
  <2>2. st' \in [Runs -> ActiveStates \cup TerminalStates \cup {"absent"}]
    BY <1>5 DEF Record, Types
  <2> QED
    BY <1>5, <2>1, <2>2 DEF Record, Gone, Types, Affordable, Pcs, Amounts
<1>6. CASE Park(r) \/ Resume(r)
  BY <1>6 DEF Park, Resume, SetState, Types, Affordable, ActiveStates
<1>7. CASE Cancel(r)
  BY <1>7 DEF Cancel, Types, Affordable
<1>8. CASE Sweep(r)
  BY <1>8 DEF Sweep, Types, Affordable
<1>9. CASE DropRequest(r)
  <2>1. budget' \in Amounts /\ budget'.disruptions = budget.disruptions
    BY <1>9, BoundFacts DEF DropRequest
  <2>2. row' \in [Runs -> Rows]
    BY <1>9 DEF DropRequest, NewRow, Rows, Types
  <2>3. drv' \in [Runs -> Pcs]
    BY <1>9 DEF DropRequest, Types, Pcs
  <2> QED
    BY <1>9, <2>1, <2>2, <2>3 DEF DropRequest, Types, Affordable, Amounts
<1> QED
  BY <1>1, <1>2, <1>3, <1>4, <1>5, <1>6, <1>7, <1>8, <1>9 DEF RunStep, DriverStep

(* Types are preserved by crashes, restarts and new generations. *)
Disruption == Crash \/ Start \/ Drain \/ InterruptActive \/ Install

LEMMA TypesDisruption ==
  ASSUME IInv, Disruption
  PROVE  Types' /\ Affordable'
<1> USE DEF IInv
<1>1. CASE Crash
  <2>1. budget' \in Amounts /\ budget'.disruptions = budget.disruptions - 1
    BY <1>1, BoundFacts DEF Crash
  <2>2. /\ drv' \in [Runs -> Pcs]
        /\ pass' \in [Generations -> Passes]
    BY <1>1 DEF Crash, Types, Pcs, Passes, IdlePass
  <2>3. Types'
    BY <1>1, <2>1, <2>2 DEF Crash, Types, Amounts
  <2>4. Affordable'
    BY <1>1, <2>1, MaxDisruptions DEF Crash, Types, Affordable, Amounts
  <2> QED
    BY <2>3, <2>4
<1>2. ASSUME NEW late \in SUBSET Runs, Generation(late), phase # "up"
      PROVE  Types' /\ Affordable'
  <2>1. Types'
    BY <1>2, GenerationFacts DEF Types
  <2>2. gen' = gen + 1 /\ phase' = "up" /\ UNCHANGED budget
    BY <1>2, GenerationFacts
  <2>3. Affordable'
    BY <1>2, <2>2, MaxDisruptions DEF Types, Affordable
  <2> QED
    BY <2>1, <2>3
<1>3. CASE Start \/ Install
  BY <1>2, <1>3 DEF Start, Install, UnfinishedRows
<1>4. CASE Drain
  <2>1. budget' \in Amounts /\ budget'.disruptions = budget.disruptions - 1
    BY <1>4, BoundFacts DEF Drain
  <2>2. Types'
    BY <1>4, <2>1 DEF Drain, Types, Amounts, Active
  <2>3. Affordable'
    BY <1>4, <2>1, MaxDisruptions DEF Drain, Types, Affordable, Amounts
  <2> QED
    BY <2>2, <2>3
<1>5. CASE InterruptActive
  BY <1>5 DEF InterruptActive, Types, Affordable, TerminalStates, Active
<1> QED
  BY <1>1, <1>3, <1>4, <1>5 DEF Disruption

(* What reading the journal leaves a pass to do. *)
Noticed(g, todo) ==
  /\ todo \in SUBSET (Runs \X Nat)
  /\ \A t \in todo : Recoverable(t[1])
  /\ Goto(g, todo)

LEMMA ReadFacts ==
  ASSUME Types, NEW g, RecoverRead(g)
  PROVE  \E todo : Noticed(g, todo)
<1>1. PICK found \in Batches({r \in Runs : Recoverable(r)}) :
        Goto(g, {<<r, row[r].attempt>> : r \in found}) \/ Goto(g, {})
  BY DEF RecoverRead
<1>2. \A r \in found : r \in Runs /\ Recoverable(r)
  BY DEF Batches
<1> DEFINE todo == {<<r, row[r].attempt>> : r \in found}
<1>3. todo \in SUBSET (Runs \X Nat) /\ \A t \in todo : Recoverable(t[1])
  BY <1>2 DEF Types, Rows
<1>4. CASE Goto(g, todo)
  BY <1>3, <1>4 DEF Noticed
<1>5. CASE Goto(g, {})
  BY <1>5 DEF Noticed
<1> QED
  BY <1>1, <1>4, <1>5

(* Types are preserved by the steps of a recovery pass. *)
LEMMA TypesRecover ==
  ASSUME IInv, NEW g \in Generations, RecoverStep(g)
  PROVE  Types' /\ Affordable'
<1> USE DEF IInv
<1>0. pass[g] \in Passes /\ pass[g].todo \in SUBSET (Runs \X Nat)
  BY DEF Types, Passes
<1>1. CASE RecoverRead(g)
  <2>1. PICK todo : Noticed(g, todo)
    BY <1>1, ReadFacts
  <2>2. pass' \in [Generations -> Passes]
    BY <2>1, GotoFacts DEF Noticed
  <2>3. budget' \in Amounts /\ budget'.disruptions = budget.disruptions
    BY <1>1, BoundFacts DEF RecoverRead
  <2> QED
    BY <1>1, <2>2, <2>3 DEF RecoverRead, Types, Affordable, Amounts
<1>2. CASE RecoverClose(g)
  <2>1. PICK t \in pass[g].todo : CloseRow(t[1]) /\ Goto(g, pass[g].todo \ {t})
    BY <1>2 DEF RecoverClose
  <2>2. t[1] \in Runs /\ pass[g].todo \ {t} \in SUBSET (Runs \X Nat)
    BY <1>0, <2>1
  <2>3. /\ pass' \in [Generations -> Passes] /\ row' \in [Runs -> Rows]
        /\ budget' \in Amounts /\ budget'.disruptions = budget.disruptions
    BY <2>1, <2>2, GotoFacts, CloseFacts
  <2> QED
    BY <1>2, <2>3 DEF RecoverClose, Types, Affordable, Amounts
<1>3. CASE RecoverClaim(g)
  <2>1. PICK t \in pass[g].todo :
          \/ Claimed(g, t) /\ Written
          \/ (Written \/ Fault({t[1]})) /\ Goto(g, pass[g].todo \ {t}) /\ UNCHANGED row
    BY <1>3 DEF RecoverClaim, Claimed
  <2>2. pass[g].todo \ {t} \in SUBSET (Runs \X Nat)
    BY <1>0, <2>1
  <2>3. /\ pass' \in [Generations -> Passes] /\ row' \in [Runs -> Rows]
        /\ budget' \in Amounts /\ budget'.disruptions = budget.disruptions
    <3>1. CASE Claimed(g, t) /\ Written
      BY <3>1, ClaimFacts, BoundFacts
    <3>2. CASE (Written \/ Fault({t[1]})) /\ Goto(g, pass[g].todo \ {t}) /\ UNCHANGED row
      BY <2>2, <3>2, GotoFacts, BoundFacts DEF Types
    <3> QED
      BY <2>1, <3>1, <3>2
  <2> QED
    BY <1>3, <2>3 DEF RecoverClaim, Types, Affordable, Amounts
<1>4. CASE RecoverSubmit(g)
  <2>1. /\ pass[g].cur \in Runs /\ Work(pass[g].cur) \in Runs
        /\ Job(pass[g].cur) \in Jobs /\ info[pass[g].cur].repo \in Repos
    BY <1>4, HeldInfo DEF RecoverSubmit, Holding
  <2>2. ASSUME NEW n \in Runs, Replay(g, n)
        PROVE  Types' /\ Affordable'
    <3>1. /\ st' \in [Runs -> ActiveStates \cup TerminalStates \cup {"absent"}]
          /\ params' \in [Runs -> BOOLEAN]
          /\ info' \in [Runs -> Infos \cup {NoInfo}]
          /\ drv' \in [Runs -> Pcs]
          /\ UNCHANGED cancels
      BY <2>1, <2>2, ReserveFacts DEF Replay, Reserved
    <3>2. pass' \in [Generations -> Passes]
      BY <2>2, AwaitFacts DEF Replay
    <3> QED
      BY <2>2, <3>1, <3>2, BoundFacts DEF Replay, Types, Affordable, Amounts
  <2>3. CASE Refuse(g)
    <3>1. /\ pass' \in [Generations -> Passes] /\ row' \in [Runs -> Rows]
          /\ budget' \in Amounts /\ budget'.disruptions = budget.disruptions
      BY <1>0, <2>1, <2>3, GotoFacts, CloseFacts DEF Refuse
    <3> QED
      BY <2>1, <2>3, <3>1 DEF Refuse, Types, Affordable, Amounts
  <2> QED
    BY <1>4, <2>2, <2>3, SubmitFacts
<1>5. CASE RecoverSettle(g)
  <2>1. pass[g].cur \in Runs /\ Work(pass[g].cur) \in Runs
    BY <1>5, HeldInfo DEF RecoverSettle, Holding
  <2>2. /\ pass' \in [Generations -> Passes] /\ row' \in [Runs -> Rows]
        /\ budget' \in Amounts /\ budget'.disruptions = budget.disruptions
    BY <1>0, <1>5, <2>1, GotoFacts, CloseFacts DEF RecoverSettle
  <2> QED
    BY <1>5, <2>1, <2>2 DEF RecoverSettle, Types, Affordable, Amounts
<1> QED
  BY <1>1, <1>2, <1>3, <1>4, <1>5 DEF RecoverStep

(* Nothing runs while the process is down. *)
LEMMA DownStep ==
  ASSUME IInv, \/ \E r \in Runs : RunStep(r)
               \/ \E g \in Generations : RecoverStep(g)
               \/ Disruption
  PROVE  DownInv'
<1> USE DEF IInv, DownInv
<1>1. ASSUME NEW r \in Runs, RunStep(r) PROVE phase # "down" /\ phase' = phase
  BY <1>1 DEF RunStep, DriverStep, Submit, Tick, DropRequest, Enqueue, Begin, FinishBody, Record,
              Park, Resume, Cancel, Sweep
<1>2. ASSUME NEW g \in Generations, RecoverStep(g) PROVE phase # "down" /\ phase' = phase
  BY <1>2 DEF RecoverStep, RecoverRead, RecoverClose, RecoverClaim, RecoverSubmit,
              RecoverSettle
<1>3. CASE Crash
  BY <1>3 DEF Crash, IdlePass
<1>4. CASE Start \/ Drain \/ InterruptActive \/ Install
  BY <1>4 DEF Start, Drain, InterruptActive, Install, Generation
<1> QED
  BY <1>1, <1>2, <1>3, <1>4 DEF Disruption

-----------------------------------------------------------------------------
(* The table, the locks and the origin of work *)

DriverInv == TableInv /\ LockInv /\ OriginInv

(* A reservation: for work of its own, or for durable work. *)
LEMMA DriverReserve ==
  ASSUME IInv, NEW r \in Runs, NEW j \in Jobs, NEW p \in Repos,
         NEW o \in {"request", "schedule", "startup"}, NEW w \in Runs,
         Reserve(r, j, p, o, w), w = r \/ Durable(j), UNCHANGED <<orphans, started>>
  PROVE  DriverInv'
<1> USE DEF IInv
<1>0. Reserved(r, j, p, o, w)
  BY ReserveFacts
<1>1. /\ drv[r] = "none" /\ st'[r] = "queued" /\ params'[r]
      /\ info'[r] = [job |-> j, repo |-> p, origin |-> o, work |-> w]
      /\ info'[r] \in Infos
      /\ drv'[r] = IF Journaled(j) THEN "journal" ELSE "permit"
  BY <1>0 DEF Reserved
<1>2. \A s \in Runs \ {r} :
        /\ drv'[s] = drv[s] /\ info'[s] = info[s]
        /\ \/ st'[s] = st[s] /\ params'[s] = params[s]
           \/ st[s] \in TerminalStates /\ st'[s] = "absent"
  BY <1>0 DEF Reserved
<1>3. \A s \in Runs : s \in Active => ~(/\ Policy[j].dedup /\ Job(s) = j
                                         /\ params[s] /\ info[s].repo = p)
  BY <1>0 DEF Reserved
<1>4. TableInv'
  <2> SUFFICES ASSUME NEW s \in Runs
               PROVE  /\ drv'[s] = "none" => st'[s] = "absent"
                      /\ drv'[s] # "none" => info'[s] \in Infos
                      /\ st'[s] \in ActiveStates => Driven(s)' \/ drv'[s] = "dropped"
                      /\ Driven(s)' /\ s \notin orphans'
                           => st'[s] \in ActiveStates /\ params'[s]
    BY DEF TableInv
  <2>1. CASE s = r
    BY <1>1, <2>1 DEF Driven, ActiveStates
  <2>2. CASE s # r
    BY <1>2, <2>2 DEF TableInv, Driven, ActiveStates, TerminalStates
  <2> QED
    BY <2>1, <2>2
<1>5. LockInv'
  <2>1. \A s \in Runs \ orphans : s # r /\ Driven(s) /\ Job(s) = j /\ Policy[j].dedup
          => info[s].repo # p
    BY <1>3 DEF TableInv, Active
  <2>2. \A s \in Runs : s # r => /\ Driven(s)' = Driven(s) /\ Job(s)' = Job(s)
                                 /\ info'[s].repo = info[s].repo
    BY <1>2 DEF Driven, Job
  <2>3. Job(r)' = j /\ info'[r].repo = p
    BY <1>1 DEF Job
  <2> QED
    BY <2>1, <2>2, <2>3 DEF LockInv
<1>6. OriginInv'
  <2>1. \A s \in Runs : s # r => /\ drv'[s] = drv[s] /\ Job(s)' = Job(s)
                                 /\ Work(s)' = Work(s)
    BY <1>2 DEF Job, Work
  <2>2. Job(r)' = j /\ Work(r)' = w
    BY <1>1 DEF Job, Work
  <2>3. started \subseteq Runs /\ r \notin started
    BY <1>1 DEF OriginInv, Types
  <2> QED
    BY <2>1, <2>2, <2>3 DEF OriginInv
<1> QED
  BY <1>4, <1>5, <1>6 DEF DriverInv

LEMMA DriverRun ==
  ASSUME IInv, NEW r \in Runs, RunStep(r)
  PROVE  DriverInv'
<1> USE DEF IInv
<1>1. CASE Submit(r) \/ Tick(r)
  <2>1. Fresh(r)
    BY <1>1, FreshFacts
  <2> QED
    BY <2>1, DriverReserve DEF Fresh
<1> SUFFICES ASSUME UNCHANGED info, ~(Submit(r) \/ Tick(r))
             PROVE  DriverInv'
  BY <1>1 DEF RunStep, DriverStep, DropRequest, Enqueue, Begin, FinishBody, Record,
              Park, Resume, Cancel, Sweep
<1> USE DEF DriverInv, TableInv, LockInv, OriginInv, Types, Driven, Job, Work,
            ActiveStates, TerminalStates
<1>2. CASE Enqueue(r)
  BY <1>2 DEF Enqueue
<1>3. CASE Begin(r)
  BY <1>3 DEF Begin, SetState
<1>4. CASE FinishBody(r)
  <2>1. PICK x \in Outcomes(r) : SetState(r, StateOf(x))
    BY <1>4 DEF FinishBody
  <2>2. StateOf(x) \in TerminalStates
    BY <2>1 DEF Outcomes, StateOf
  <2>3. st'[r] \notin ActiveStates
    BY <2>1, <2>2 DEF SetState
  <2>4. \A s \in Runs : s # r => st'[s] = st[s]
    BY <2>1 DEF SetState
  <2> HIDE DEF ActiveStates, TerminalStates
  <2> QED
    BY <1>4, <2>3, <2>4 DEF FinishBody
<1>5. CASE Record(r)
  BY <1>5 DEF Record, Gone
<1>6. CASE Park(r) \/ Resume(r)
  BY <1>6 DEF Park, Resume, SetState
<1>7. CASE Cancel(r)
  BY <1>7 DEF Cancel
<1>8. CASE Sweep(r)
  BY <1>8 DEF Sweep, Done, Live
<1>9. CASE DropRequest(r)
  BY <1>9 DEF DropRequest
<1> QED
  BY <1>2, <1>3, <1>4, <1>5, <1>6, <1>7, <1>8, <1>9 DEF RunStep, DriverStep

LEMMA DriverDisruption ==
  ASSUME IInv, Disruption
  PROVE  DriverInv'
<1> USE DEF IInv, DriverInv, TableInv, LockInv, OriginInv, Types, Driven, Job, Work,
            ActiveStates, TerminalStates
<1>1. CASE Crash
  BY <1>1 DEF Crash
<1>2. CASE Start \/ Install
  BY <1>2 DEF Start, Install, Generation
<1>3. CASE Drain
  BY <1>3 DEF Drain
<1>4. CASE InterruptActive
  BY <1>4 DEF InterruptActive, Active, Live
<1> QED
  BY <1>1, <1>2, <1>3, <1>4 DEF Disruption

LEMMA DriverRecover ==
  ASSUME IInv, NEW g \in Generations, RecoverStep(g)
  PROVE  DriverInv'
<1> USE DEF IInv
<1>1. ASSUME NEW n \in Runs, Replay(g, n), pass[g].pc = "submit"
      PROVE  DriverInv'
  <2>1. /\ Job(pass[g].cur) \in Jobs /\ info[pass[g].cur].repo \in Repos
        /\ Work(pass[g].cur) \in Runs /\ Durable(Job(pass[g].cur))
    BY <1>1, HeldInfo DEF Holding
  <2> QED
    BY <1>1, <2>1, DriverReserve DEF Replay
<1>2. CASE UNCHANGED <<table, info, drv, orphans, started>>
  BY <1>2 DEF DriverInv, TableInv, LockInv, OriginInv, Driven, Job, Work
<1>3. CASE RecoverSubmit(g)
  BY <1>1, <1>2, <1>3, SubmitFacts DEF Refuse
<1> QED
  BY <1>2, <1>3
  DEF RecoverStep, RecoverRead, RecoverClose, RecoverClaim, RecoverSettle

-----------------------------------------------------------------------------
(* The journal *)

(* What no step takes back: a submission, a row, and that a run is         *)
(* abandoned.                                                              *)
Lasting ==
  /\ \A r \in Runs : drv[r] # "none" => drv'[r] # "none" /\ info'[r] = info[r]
  /\ \A r \in Runs : row[r].status # "none" =>
       /\ row'[r].status # "none"
       /\ Abandoned(r) => Abandoned(r)'
  /\ judged \subseteq judged'

(* The drivers and the orphans of a reservation. *)
LEMMA ReserveLasting ==
  ASSUME IInv, NEW r \in Runs, NEW j \in Jobs, NEW p \in Repos,
         NEW o \in {"request", "schedule", "startup"}, NEW w \in Runs,
         Reserve(r, j, p, o, w), UNCHANGED <<row, ghosts>>
  PROVE  Lasting /\ JournalInv'
<1> USE DEF IInv
<1>0. Reserved(r, j, p, o, w)
  BY ReserveFacts
<1>1. /\ drv[r] = "none" /\ drv'[r] = IF Journaled(j) THEN "journal" ELSE "permit"
      /\ info'[r] = [job |-> j, repo |-> p, origin |-> o, work |-> w]
  BY <1>0 DEF Reserved
<1>2. \A s \in Runs \ {r} : drv'[s] = drv[s] /\ info'[s] = info[s]
  BY <1>0 DEF Reserved
<1>3. row[r].status = "none" /\ Job(r)' = j
  BY <1>1 DEF JournalInv, Job
<1>4. Lasting
  BY <1>1, <1>2, <1>3 DEF Lasting, Abandoned
<1>5. \A s \in Runs : s # r => Job(s)' = Job(s) /\ (Abandoned(s) <=> Abandoned(s)')
  BY <1>2 DEF Job, Abandoned
<1>6. JournalInv'
  <2> SUFFICES ASSUME NEW s \in Runs
               PROVE  /\ drv'[s] \in {"none", "journal"} => row'[s].status = "none"
                      /\ row'[s].status = "none" => row'[s] = NoRow
                      /\ drv'[s] \in {"permit", "body", "record"} /\ Journaled(Job(s)')
                           => row'[s].status # "none"
                      /\ row'[s].status # "none" /\ Journaled(Job(s)')
                           => row'[s].attempt >= 1
                      /\ row'[s].status = "open" => row'[s].lease # "none"
                      /\ row'[s].status = "open" /\ row'[s].lease = "expired"
                           => Abandoned(s)'
    BY DEF JournalInv, Journaled, Job
  <2>1. CASE s = r
    BY <1>1, <1>3, <2>1 DEF JournalInv
  <2>2. CASE s # r
    BY <1>2, <1>5, <2>2 DEF JournalInv
  <2> QED
    BY <2>1, <2>2
<1> QED
  BY <1>4, <1>6

LEMMA JournalRun ==
  ASSUME IInv, NEW r \in Runs, RunStep(r)
  PROVE  Lasting /\ JournalInv'
<1> USE DEF IInv
<1>1. CASE Submit(r) \/ Tick(r)
  <2>1. Fresh(r)
    BY <1>1, FreshFacts
  <2> QED
    BY <2>1, ReserveLasting DEF Fresh
<1>2. CASE Enqueue(r)
  <2>1. NewRow.status = "open" /\ NewRow.lease = "live" /\ NewRow.attempt = 1
    BY DEF NewRow
  <2>2. UNCHANGED info
    BY <1>2 DEF Enqueue
  <2> HIDE DEF IInv
  <2> QED
    BY <1>2, <2>1, <2>2
    DEF IInv, Enqueue, Lasting, Abandoned, JournalInv, Types, Journaled, Job
<1>3. CASE Begin(r)
  <2>1. /\ drv[r] = "permit" /\ drv' = [drv EXCEPT ![r] = "body"] /\ UNCHANGED <<info, orphans, judged>>
    BY <1>3 DEF Begin
  <2>2. /\ \A s \in Runs \ {r} : row'[s] = row[s] /\ drv'[s] = drv[s]
        /\ drv'[r] = "body"
        /\ row'[r].status = row[r].status
        /\ row'[r].attempt = row[r].attempt
        /\ \/ row'[r] = row[r]
           \/ Journaled(Job(r)) /\ row'[r].lease = "live"
    BY <1>3, <2>1, BeginRow DEF Types
  <2>3. Lasting
    BY <2>1, <2>2 DEF Lasting, Abandoned
  <2>4. JournalInv'
    BY <2>1, <2>2 DEF JournalInv, Abandoned, Journaled, Job
  <2> QED
    BY <2>3, <2>4
<1>4. CASE FinishBody(r)
  BY <1>4 DEF FinishBody, Lasting, Abandoned, JournalInv, Types, Journaled, Job
<1>5. CASE Record(r)
  <2>1. /\ drv[r] = "record" /\ drv' = [drv EXCEPT ![r] = "gone"]
        /\ orphans' = orphans \ {r} /\ UNCHANGED <<info, judged>>
    BY <1>5 DEF Record, Gone
  <2>2. CASE CloseRow(r)
    <3>1. /\ \A s \in Runs \ {r} : row'[s] = row[s] /\ drv'[s] = drv[s]
          /\ drv'[r] = "gone"
          /\ \/ row' = row
             \/ /\ row'[r].status = "closed" /\ row'[r].lease = "none"
                /\ row'[r].attempt = row[r].attempt
      BY <2>1, <2>2, CloseFacts DEF Types
    <3>2. Journaled(Job(r)) => row[r].status # "none"
      BY <2>1 DEF JournalInv
    <3>3. Lasting
      BY <2>1, <3>1 DEF Lasting, Abandoned
    <3>4. JournalInv'
      BY <2>1, <3>1, <3>2 DEF JournalInv, Abandoned, Journaled, Job
    <3> QED
      BY <3>3, <3>4
  <2>3. CASE UNCHANGED row
    BY <2>1, <2>3 DEF Lasting, Abandoned, JournalInv, Types, Journaled, Job
  <2> QED
    BY <1>5, <2>2, <2>3 DEF Record
<1>6. CASE UNCHANGED <<info, drv, row, orphans, judged>>
  BY <1>6 DEF Lasting, Abandoned, JournalInv, Journaled, Job
<1>7. CASE DropRequest(r)
  <2>1. NewRow.status = "open" /\ NewRow.lease = "live" /\ NewRow.attempt = 1
    BY DEF NewRow
  <2>2. /\ \A s \in Runs \ {r} : row'[s] = row[s] /\ drv'[s] = drv[s]
        /\ drv[r] = "journal" /\ drv'[r] = "dropped"
        /\ row'[r] = row[r] \/ row'[r] = NewRow
        /\ orphans' = orphans \ {r} /\ UNCHANGED <<info, judged>>
    BY <1>7 DEF DropRequest, Types
  <2>3. Lasting
    BY <2>1, <2>2 DEF Lasting, Abandoned
  <2>4. JournalInv'
    BY <2>1, <2>2 DEF JournalInv, Abandoned, Journaled, Job
  <2> QED
    BY <2>3, <2>4
<1> QED
  BY <1>1, <1>2, <1>3, <1>4, <1>5, <1>6, <1>7
  DEF RunStep, DriverStep, Park, Resume, Cancel, Sweep

LEMMA JournalDisruption ==
  ASSUME IInv, Disruption
  PROVE  Lasting /\ JournalInv'
<1> USE DEF IInv
<1>1. CASE Crash
  <2>1. /\ \A r \in Runs : drv'[r] = IF drv[r] = "none" THEN "none" ELSE "gone"
        /\ UNCHANGED <<info, row, judged>>
    BY <1>1 DEF Crash
  <2>2. \A r \in Runs : row[r].status # "none" => drv'[r] = "gone"
    BY <2>1 DEF JournalInv
  <2>3. Lasting
    BY <2>1, <2>2 DEF Lasting, Abandoned
  <2>4. JournalInv'
    BY <2>1, <2>2 DEF JournalInv, Abandoned, Journaled, Job
  <2> QED
    BY <2>3, <2>4
<1>2. ASSUME NEW late \in SUBSET Runs, Generation(late), phase # "up",
             \A r \in late : row[r].status = "open" /\ Abandoned(r)
      PROVE  Lasting /\ JournalInv'
  <2>1. /\ \A r \in Runs : /\ row'[r].status = row[r].status
                           /\ row'[r].attempt = row[r].attempt
                           /\ r \in late => row'[r].lease = "expired"
                           /\ r \notin late => row'[r] = row[r]
        /\ UNCHANGED <<info, drv, orphans, judged>>
    BY <1>2, GenerationFacts
  <2>2. Lasting
    BY <2>1 DEF Lasting, Abandoned
  <2>3. JournalInv'
    BY <1>2, <2>1 DEF JournalInv, Abandoned, Journaled, Job
  <2> QED
    BY <2>2, <2>3
<1>3. CASE Start
  <2>1. \A r \in Runs : row[r].status = "open" => Abandoned(r)
    BY <1>3 DEF Start, DownInv, JournalInv, Abandoned
  <2> QED
    BY <1>2, <1>3, <2>1 DEF Start, UnfinishedRows, Unfinished
<1>4. CASE Install
  <2>1. \A r \in Runs : row[r].status = "open" /\ r \notin Active => Abandoned(r)
    BY DEF JournalInv, TableInv, Types, Pcs, Abandoned, Driven, Active
  <2> QED
    BY <1>2, <1>4, <2>1 DEF Install, UnfinishedRows, Unfinished, FreshlyLeased
<1>5. CASE Drain
  BY <1>5 DEF Drain, Lasting, Abandoned, JournalInv, Journaled, Job
<1>6. CASE InterruptActive
  BY <1>6 DEF InterruptActive, Lasting, Abandoned, JournalInv, Journaled, Job
<1> QED
  BY <1>1, <1>3, <1>4, <1>5, <1>6 DEF Disruption

(* Closing a row that exists, with the drivers left alone. *)
LEMMA JournalClose ==
  ASSUME IInv, NEW r \in Runs, CloseRow(r), row[r].status # "none",
         UNCHANGED <<info, drv, orphans>>, judged \subseteq judged'
  PROVE  Lasting /\ JournalInv'
<1> USE DEF IInv
<1>1. /\ \A s \in Runs \ {r} : row'[s] = row[s]
      /\ \/ row' = row
         \/ /\ row'[r].status = "closed" /\ row'[r].lease = "none"
            /\ row'[r].attempt = row[r].attempt
  BY CloseFacts
<1>2. Lasting
  BY <1>1 DEF Lasting, Abandoned
<1>3. drv[r] \notin {"none", "journal"}
  BY DEF JournalInv
<1>4. JournalInv'
  BY <1>1, <1>3 DEF JournalInv, Abandoned, Journaled, Job
<1> QED
  BY <1>2, <1>4

LEMMA JournalRecover ==
  ASSUME IInv, NEW g \in Generations, RecoverStep(g)
  PROVE  Lasting /\ JournalInv'
<1> USE DEF IInv
<1>0. pass[g].todo \in SUBSET (Runs \X Nat)
  BY DEF Types, Passes
<1>1. CASE UNCHANGED <<info, drv, row, orphans, judged>>
  BY <1>1 DEF Lasting, Abandoned, JournalInv, Journaled, Job
<1>2. CASE RecoverClose(g)
  <2>1. PICK t \in pass[g].todo : CloseRow(t[1]) /\ UNCHANGED <<info, drv, orphans, judged>>
    BY <1>2 DEF RecoverClose
  <2>2. t[1] \in Runs /\ row[t[1]].status # "none"
    BY <1>0, <2>1 DEF PassInv, Noted
  <2> QED
    BY <2>1, <2>2, JournalClose
<1>3. CASE RecoverClaim(g)
  <2>1. UNCHANGED <<info, drv, orphans, judged>>
    BY <1>3 DEF RecoverClaim
  <2>2. ASSUME NEW t \in pass[g].todo, Claimed(g, t)
        PROVE  Lasting /\ JournalInv'
    <3> DEFINE r == t[1]
    <3>1. /\ r \in Runs
          /\ \A s \in Runs \ {r} : row'[s] = row[s]
          /\ row'[r].status = row[r].status
          /\ row'[r].lease = "live"
          /\ row'[r].attempt = row[r].attempt + 1
      BY <2>2, ClaimFacts
    <3>2. row[r].status # "none" /\ row[r].attempt \in Nat
      BY <2>2, <3>1 DEF PassInv, Noted, Types, Rows
    <3> HIDE DEF r
    <3>3. Lasting
      BY <2>1, <3>1, <3>2 DEF Lasting, Abandoned
    <3>4. drv[r] \notin {"none", "journal"}
      BY <3>1, <3>2 DEF JournalInv
    <3>5. row'[r].attempt >= 1
      BY <3>1, <3>2
    <3>6. JournalInv'
      BY <2>1, <3>1, <3>2, <3>4, <3>5 DEF JournalInv, Abandoned, Journaled, Job
    <3> QED
      BY <3>3, <3>6
  <2> QED
    BY <1>1, <1>3, <2>1, <2>2 DEF RecoverClaim, Claimed
<1>4. CASE RecoverSubmit(g)
  <2>1. Holding(g)
    BY <1>4 DEF RecoverSubmit, Holding
  <2>2. /\ pass[g].cur \in Runs /\ row[pass[g].cur].status # "none"
        /\ Job(pass[g].cur) \in Jobs /\ info[pass[g].cur].repo \in Repos
        /\ Work(pass[g].cur) \in Runs
    BY <2>1, HeldInfo DEF PassInv, Held
  <2>3. ASSUME NEW n \in Runs, Replay(g, n)
        PROVE  Lasting /\ JournalInv'
    BY <2>2, <2>3, ReserveLasting DEF Replay
  <2>4. CASE Refuse(g)
    <3>1. CloseRow(pass[g].cur) /\ UNCHANGED <<info, drv, orphans>> /\ judged \subseteq judged'
      BY <2>4 DEF Refuse
    <3> QED
      BY <2>2, <3>1, JournalClose
  <2> QED
    BY <1>4, <2>3, <2>4, SubmitFacts
<1>5. CASE RecoverSettle(g)
  <2>1. /\ pass[g].cur \in Runs /\ row[pass[g].cur].status # "none"
    BY <1>5 DEF RecoverSettle, Holding, PassInv, Held
  <2>2. CloseRow(pass[g].cur) /\ UNCHANGED <<info, drv, orphans>> /\ judged \subseteq judged'
    BY <1>5 DEF RecoverSettle
  <2> QED
    BY <2>1, <2>2, JournalClose
<1> QED
  BY <1>1, <1>2, <1>3, <1>4, <1>5 DEF RecoverStep, RecoverRead

-----------------------------------------------------------------------------
(* The recovery passes *)

(* What a pass has noted and claimed stays so when the pass does not move. *)
LEMMA PassKept ==
  ASSUME IInv, Lasting, NEW g \in Generations
  PROVE  /\ pass'[g].todo \subseteq pass[g].todo => Noted(g)'
         /\ Holding(g) /\ pass'[g].cur = pass[g].cur => Held(g)'
<1> USE DEF IInv
<1>1. \A t \in pass[g].todo : t[1] \in Runs
  BY DEF Types, Passes
<1>2. \A r \in Runs : row[r].status # "none" => Job(r)' = Job(r)
  BY DEF Lasting, JournalInv, Job
<1>3. ASSUME pass'[g].todo \subseteq pass[g].todo PROVE Noted(g)'
  BY <1>1, <1>3 DEF PassInv, Noted, Lasting
<1>4. ASSUME Holding(g), pass'[g].cur = pass[g].cur PROVE Held(g)'
  <2>1. PICK r \in Runs : /\ r = pass[g].cur /\ row[r].status # "none"
                          /\ Abandoned(r) /\ Durable(Job(r))
    BY <1>4 DEF PassInv, Held
  <2>2. row'[r].status # "none" /\ Abandoned(r)' /\ Job(r)' = Job(r)
    BY <1>2, <2>1 DEF Lasting
  <2>3. pass'[g].cur = r
    BY <1>4, <2>1
  <2> QED
    BY <2>1, <2>2, <2>3 DEF Held, Abandoned, Job
<1> QED
  BY <1>3, <1>4

(* How a pass may move: it notes rows nobody holds and claims noted ones.  *)
PassMove(h) ==
  /\ \A t \in pass'[h].todo :
       t \in pass[h].todo \/ (t[1] \in Runs /\ Recoverable(t[1]))
  /\ Holding(h)' =>
       \/ Holding(h) /\ pass'[h].cur = pass[h].cur
       \/ \E t \in pass[h].todo : pass'[h].cur = t[1] /\ Durable(Job(t[1]))

(* How a pass may come to wait for a replay. *)
AwaitMove(h) ==
  pass'[h].pc = "await" =>
    \/ pass[h].pc = "await" /\ pass'[h].new = pass[h].new /\ pass'[h].cur = pass[h].cur
    \/ pass[h].pc = "submit" /\ \E n \in Runs : Replay(h, n)

(* What may happen to the row of a replay a pass waits for. *)
Awaited(n) == \E g \in Generations : pass[g].pc = "await" /\ pass[g].new = n
RowMove(n) ==
  \/ row'[n] = row[n]
  \/ row'[n].status \in {"open", row[n].status} /\ row'[n].lease = "live"
  \/ row'[n].status = "closed" /\ drv[n] = "record"

Moves ==
  /\ \A h \in Generations : PassMove(h) /\ AwaitMove(h)
  /\ \A n \in Runs : Awaited(n) => RowMove(n)

(* An unfinished row without a live lease is abandoned. *)
LEMMA RecoverableAbandoned ==
  ASSUME IInv, NEW r \in Runs, Recoverable(r)
  PROVE  row[r].status # "none" /\ row[r].lease # "live" /\ Abandoned(r)
<1>1. row[r].status = "open" /\ row[r].lease = "expired"
  BY DEF IInv, Recoverable, Unfinished, JournalInv, Types, Rows
<1> QED
  BY <1>1 DEF IInv, JournalInv

LEMMA PassStep ==
  ASSUME IInv, Lasting, Moves
  PROVE  PassInv'
<1> USE DEF IInv
<1> SUFFICES ASSUME NEW g \in Generations
             PROVE  Noted(g)' /\ (Holding(g)' => Held(g)')
  BY DEF PassInv
<1>0. PassMove(g) /\ Noted(g)
  BY DEF Moves, PassInv
<1>1. \A t \in pass[g].todo : t[1] \in Runs
  BY DEF Types, Passes
<1>2. Noted(g)'
  <2> SUFFICES ASSUME NEW t \in pass'[g].todo
               PROVE  row'[t[1]].status # "none" /\ Abandoned(t[1])'
    BY DEF Noted
  <2>1. t[1] \in Runs /\ row[t[1]].status # "none" /\ Abandoned(t[1])
    BY <1>0, <1>1, RecoverableAbandoned DEF PassMove, Noted
  <2> QED
    BY <2>1 DEF Lasting
<1>3. ASSUME Holding(g)' PROVE Held(g)'
  <2>1. CASE Holding(g) /\ pass'[g].cur = pass[g].cur
    BY <2>1, PassKept
  <2>2. ASSUME NEW t \in pass[g].todo, pass'[g].cur = t[1], Durable(Job(t[1]))
        PROVE  Held(g)'
    <3>1. t[1] \in Runs /\ row[t[1]].status # "none" /\ Abandoned(t[1])
      BY <1>0, <1>1 DEF Noted
    <3>2. row'[t[1]].status # "none" /\ Abandoned(t[1])'
      BY <3>1 DEF Lasting
    <3>3. info'[t[1]] = info[t[1]]
      BY <3>1 DEF Lasting, JournalInv
    <3> QED
      BY <2>2, <3>1, <3>2, <3>3 DEF Held, Job, Abandoned
  <2> QED
    BY <1>0, <1>3, <2>1, <2>2 DEF PassMove
<1> QED
  BY <1>2, <1>3

LEMMA ReplayStep ==
  ASSUME IInv, Lasting, Moves
  PROVE  ReplayInv'
<1> USE DEF IInv
<1> SUFFICES ASSUME NEW g \in Generations, pass'[g].pc = "await"
             PROVE  Replayed(pass[g].new, pass[g].cur)' /\ Untouched(pass[g].new)'
  BY DEF ReplayInv
<1>1. ASSUME pass[g].pc = "await", pass'[g].new = pass[g].new, pass'[g].cur = pass[g].cur
      PROVE  Replayed(pass[g].new, pass[g].cur)' /\ Untouched(pass[g].new)'
  <2>1. PICK n \in Runs : n = pass[g].new
    BY <1>1 DEF ReplayInv, Replayed
  <2>2. PICK r \in Runs : r = pass[g].cur /\ row[r].status # "none" /\ Durable(Job(r))
    BY <1>1 DEF PassInv, Holding, Held
  <2>3. Replayed(n, r) /\ Untouched(n)
    BY <1>1, <2>1, <2>2 DEF ReplayInv
  <2>4. drv[r] # "none"
    BY <2>2 DEF JournalInv
  <2>5. info'[n] = info[n] /\ info'[r] = info[r] /\ drv'[n] # "none"
    BY <2>3, <2>4 DEF Lasting, Replayed
  <2>6. Replayed(n, r)'
    BY <2>3, <2>5 DEF Replayed, Job, Work
  <2>7. RowMove(n)
    BY <1>1, <2>1 DEF Moves, Awaited
  <2>8. drv[n] = "record" => Work(n) \in judged
    BY <2>2, <2>3 DEF KeptInv, Replayed
  <2>9. row'[n].status = "open" => row'[n].lease = "live"
    BY <2>3, <2>7 DEF RowMove, Untouched
  <2>10. row'[n].status = "closed" => Work(n)' \in judged'
    <3>1. Work(n)' = Work(n)
      BY <2>5 DEF Work
    <3> QED
      BY <2>3, <2>7, <2>8, <3>1 DEF RowMove, Untouched, Lasting
  <2>11. ASSUME NEW h \in Generations
         PROVE  /\ \A t \in pass'[h].todo : t[1] # n
                /\ Holding(h)' => pass'[h].cur # n
    <3>1. PassMove(h)
      BY DEF Moves
    <3>2. ~Recoverable(n)
      BY <2>3 DEF Untouched, Recoverable, Unfinished
    <3> QED
      BY <2>3, <3>1, <3>2 DEF PassMove, Untouched
  <2>12. Untouched(n)'
    BY <2>9, <2>10, <2>11 DEF Untouched
  <2> QED
    BY <1>1, <2>1, <2>2, <2>6, <2>12 DEF Replayed, Untouched, Job, Work
<1>2. ASSUME pass[g].pc = "submit", NEW n \in Runs, Replay(g, n)
      PROVE  Replayed(pass[g].new, pass[g].cur)' /\ Untouched(pass[g].new)'
  <2>1. PICK r \in Runs : /\ r = pass[g].cur /\ row[r].status # "none" /\ drv[r] # "none"
                          /\ Job(r) \in Jobs /\ info[r].repo \in Repos /\ Work(r) \in Runs
    BY <1>2, HeldInfo DEF PassInv, Holding, Held
  <2>2. Reserved(n, Job(r), info[r].repo, "startup", Work(r))
    BY <1>2, <2>1, ReserveFacts DEF Replay
  <2>3. /\ drv[n] = "none"
        /\ info'[n] = [job |-> Job(r), repo |-> info[r].repo,
                       origin |-> "startup", work |-> Work(r)]
    BY <2>2 DEF Reserved
  <2>4. drv'[n] # "none"
    BY <2>2 DEF Reserved
  <2>5. info'[r] = info[r] /\ r # n
    BY <2>1, <2>3 DEF Lasting
  <2>6. /\ pass'[g].new = n /\ pass'[g].cur = r
        /\ \A h \in Generations : /\ pass'[h].todo = pass[h].todo
                                  /\ Holding(h)' => Holding(h) /\ pass'[h].cur = pass[h].cur
    BY <1>2, <2>1, AwaitFacts DEF Replay, Holding
  <2>7. Replayed(n, r)'
    BY <2>3, <2>4, <2>5 DEF Replayed, Job, Work
  <2>8. row[n].status = "none" /\ row' = row
    BY <1>2, <2>3 DEF JournalInv, Replay
  <2>9. Untouched(n)'
    <3>1. ASSUME NEW h \in Generations
          PROVE  /\ \A t \in pass'[h].todo : t[1] # n
                 /\ Holding(h)' => pass'[h].cur # n
      BY <2>6, <2>8 DEF PassInv, Noted, Held
    <3> QED
      BY <2>8, <3>1 DEF Untouched
  <2> QED
    BY <2>6, <2>7, <2>9 DEF Replayed, Untouched, Job, Work
<1> QED
  BY <1>1, <1>2 DEF Moves, AwaitMove

(* A pass that did not move moved lawfully. *)
LEMMA StillPass ==
  ASSUME NEW h \in Generations, pass'[h] = pass[h]
  PROVE  PassMove(h) /\ AwaitMove(h)
BY DEF PassMove, AwaitMove, Holding

(* A pass that lets go of what it held. *)
LEMMA LetGo ==
  ASSUME NEW h \in Generations, pass'[h].todo \subseteq pass[h].todo,
         pass'[h].pc \notin {"submit", "await"}
  PROVE  PassMove(h) /\ AwaitMove(h)
BY DEF PassMove, AwaitMove, Holding

LEMMA MovesRun ==
  ASSUME IInv, NEW r \in Runs, RunStep(r)
  PROVE  Moves
<1> USE DEF IInv
<1>1. pass' = pass
  BY DEF RunStep, DriverStep, Submit, Tick, DropRequest, Enqueue, Begin, FinishBody, Record,
         Park, Resume, Cancel, Sweep
<1>2. ASSUME NEW n \in Runs PROVE RowMove(n)
  <2>1. CASE Enqueue(r)
    BY <2>1 DEF Enqueue, NewRow, RowMove, Types
  <2>2. CASE Begin(r)
    BY <2>2, BeginRow DEF RowMove
  <2>3. CASE Record(r)
    <3>1. CASE CloseRow(r)
      BY <2>3, <3>1, CloseFacts DEF Record, RowMove
    <3> QED
      BY <2>3, <3>1 DEF Record, RowMove
  <2>4. CASE UNCHANGED row
    BY <2>4 DEF RowMove
  <2>5. CASE DropRequest(r)
    BY <2>5 DEF DropRequest, NewRow, RowMove, Types
  <2> QED
    BY <2>1, <2>2, <2>3, <2>4, <2>5
    DEF RunStep, DriverStep, Submit, Tick, FinishBody, Park, Resume, Cancel, Sweep
<1> QED
  BY <1>1, <1>2, StillPass DEF Moves

LEMMA MovesDisruption ==
  ASSUME IInv, Disruption
  PROVE  Moves
<1> USE DEF IInv
<1>1. CASE Crash
  <2>1. row' = row /\ \A h \in Generations : pass'[h] = IdlePass
    BY <1>1 DEF Crash
  <2>2. IdlePass.todo = {} /\ IdlePass.pc = "idle"
    BY DEF IdlePass
  <2> QED
    BY <2>1, <2>2, LetGo DEF Moves, RowMove
<1>2. ASSUME NEW late \in SUBSET Runs, Generation(late), phase # "up",
             \A n \in late : ~Awaited(n)
      PROVE  Moves
  <2>1. /\ \A h \in Generations \ {gen + 1} : pass'[h] = pass[h]
        /\ gen + 1 \in Generations
        /\ pass'[gen + 1].todo = {} /\ pass'[gen + 1].pc = "read"
        /\ \A r \in Runs : r \notin late => row'[r] = row[r]
    BY <1>2, GenerationFacts
  <2> QED
    BY <1>2, <2>1, LetGo, StillPass DEF Moves, RowMove
<1>3. CASE Start
  <2>1. \A n \in Runs : ~Awaited(n)
    BY <1>3 DEF Start, DownInv, Awaited
  <2> QED
    BY <1>2, <1>3, <2>1 DEF Start, UnfinishedRows
<1>4. CASE Install
  <2>1. \A n \in Runs : Awaited(n) => n \in FreshlyLeased
    BY DEF Awaited, FreshlyLeased
  <2> QED
    BY <1>2, <1>4, <2>1 DEF Install, UnfinishedRows
<1>5. CASE Drain \/ InterruptActive
  BY <1>5, StillPass DEF Drain, InterruptActive, Moves, RowMove
<1> QED
  BY <1>1, <1>3, <1>4, <1>5 DEF Disruption

(* The row a pass works on is not that of a replay some pass waits for. *)
LEMMA OthersReplay ==
  ASSUME IInv, NEW g \in Generations, NEW n \in Runs, Awaited(n)
  PROVE  /\ \A t \in pass[g].todo : t[1] # n
         /\ Holding(g) => pass[g].cur # n
BY DEF IInv, Awaited, ReplayInv, Untouched

LEMMA MovesRecover ==
  ASSUME IInv, NEW g \in Generations, RecoverStep(g)
  PROVE  Moves
<1> USE DEF IInv
<1>0. pass[g].todo \in SUBSET (Runs \X Nat)
  BY DEF Types, Passes
<1>1. CASE RecoverRead(g)
  <2>1. PICK todo : Noticed(g, todo)
    BY <1>1, ReadFacts
  <2>2. todo \in SUBSET (Runs \X Nat) /\ \A t \in todo : t[1] \in Runs /\ Recoverable(t[1])
    BY <2>1 DEF Noticed
  <2>3. /\ \A h \in Generations \ {g} : pass'[h] = pass[h]
        /\ pass'[g].todo = todo /\ pass'[g].pc \in {"idle", "loop"}
    BY <2>1, <2>2, GotoFacts DEF Noticed
  <2>4. PassMove(g) /\ AwaitMove(g)
    BY <2>2, <2>3 DEF PassMove, AwaitMove, Holding
  <2>5. row' = row
    BY <1>1 DEF RecoverRead
  <2> QED
    BY <2>3, <2>4, <2>5, StillPass DEF Moves, RowMove
<1>2. ASSUME NEW todo \in SUBSET pass[g].todo, Goto(g, todo)
      PROVE  \A h \in Generations : PassMove(h) /\ AwaitMove(h)
  <2>1. /\ \A h \in Generations \ {g} : pass'[h] = pass[h]
        /\ pass'[g].todo = todo /\ pass'[g].pc \in {"idle", "loop"}
    BY <1>0, <1>2, GotoFacts
  <2> QED
    BY <2>1, LetGo, StillPass
<1>3. ASSUME NEW r \in Runs, CloseRow(r), ~Awaited(r)
      PROVE  \A n \in Runs : Awaited(n) => RowMove(n)
  BY <1>3, CloseFacts DEF RowMove
<1>4. CASE RecoverClose(g)
  <2>1. PICK t \in pass[g].todo : CloseRow(t[1]) /\ Goto(g, pass[g].todo \ {t})
    BY <1>4 DEF RecoverClose
  <2>2. t[1] \in Runs /\ ~Awaited(t[1])
    BY <1>0, <2>1, OthersReplay
  <2> QED
    BY <1>2, <1>3, <2>1, <2>2 DEF Moves
<1>5. CASE RecoverClaim(g)
  <2>1. PICK t \in pass[g].todo :
          \/ Claimed(g, t) /\ Durable(Job(t[1]))
          \/ Goto(g, pass[g].todo \ {t}) /\ UNCHANGED row
    BY <1>5 DEF RecoverClaim, Claimed, Replayable
  <2>2. CASE Claimed(g, t) /\ Durable(Job(t[1]))
    <3>1. /\ t[1] \in Runs
          /\ \A s \in Runs \ {t[1]} : row'[s] = row[s]
          /\ \A h \in Generations \ {g} : pass'[h] = pass[h]
          /\ pass'[g].pc = "submit" /\ pass'[g].cur = t[1]
          /\ pass'[g].todo = pass[g].todo \ {t}
      BY <2>2, ClaimFacts
    <3>2. PassMove(g) /\ AwaitMove(g)
      BY <2>1, <2>2, <3>1 DEF PassMove, AwaitMove
    <3>3. ~Awaited(t[1])
      BY <3>1, OthersReplay
    <3> QED
      BY <3>1, <3>2, <3>3, StillPass DEF Moves, RowMove
  <2>3. CASE Goto(g, pass[g].todo \ {t}) /\ UNCHANGED row
    BY <1>2, <2>3 DEF Moves, RowMove
  <2> QED
    BY <2>1, <2>2, <2>3
<1>6. CASE RecoverSubmit(g)
  <2>1. pass[g].cur \in Runs /\ ~Awaited(pass[g].cur)
    BY <1>6, HeldInfo, OthersReplay DEF RecoverSubmit, Holding
  <2>2. ASSUME NEW n \in Runs, Replay(g, n)
        PROVE  Moves
    <3>1. /\ \A h \in Generations \ {g} : pass'[h] = pass[h]
          /\ pass'[g].pc = "await" /\ pass'[g].new = n
          /\ pass'[g].cur = pass[g].cur /\ pass'[g].todo = pass[g].todo
      BY <2>2, AwaitFacts DEF Replay
    <3>2. pass[g].pc = "submit"
      BY <1>6 DEF RecoverSubmit
    <3>3. PassMove(g) /\ AwaitMove(g)
      BY <2>2, <3>1, <3>2 DEF PassMove, AwaitMove, Holding
    <3> QED
      BY <2>2, <3>1, <3>3, StillPass DEF Moves, RowMove, Replay
  <2>3. CASE Refuse(g)
    BY <1>2, <1>3, <2>1, <2>3 DEF Refuse, Moves
  <2> QED
    BY <1>6, <2>2, <2>3, SubmitFacts
<1>7. CASE RecoverSettle(g)
  <2>1. pass[g].cur \in Runs /\ ~Awaited(pass[g].cur)
    BY <1>7, HeldInfo, OthersReplay DEF RecoverSettle, Holding
  <2>2. CloseRow(pass[g].cur) /\ Goto(g, pass[g].todo)
    BY <1>7 DEF RecoverSettle
  <2> QED
    BY <1>2, <1>3, <2>1, <2>2 DEF Moves
<1> QED
  BY <1>1, <1>4, <1>5, <1>6, <1>7 DEF RecoverStep

-----------------------------------------------------------------------------
(* The abstract list of work *)

ListStep == Durability!Next \/ UNCHANGED <<PendingWork, judged>>

(* The work of an unfinished row does not change. *)
LEMMA OpenLasting ==
  ASSUME IInv, Lasting, NEW r \in Runs, Unfinished(r)
  PROVE  Job(r)' = Job(r) /\ Work(r)' = Work(r) /\ info'[r] = info[r]
BY DEF IInv, JournalInv, Lasting, Unfinished, Job, Work

(* When no row is opened or closed the pending work is the same. *)
LEMMA SamePending ==
  ASSUME IInv, Lasting, \A r \in Runs : Unfinished(r)' <=> Unfinished(r)
  PROVE  PendingWork' = PendingWork
BY OpenLasting DEF PendingWork

(* When one row is closed, at most its work is no longer pending. *)
LEMMA ClosedPending ==
  ASSUME IInv, Lasting, NEW r \in Runs, ~Unfinished(r)',
         \A s \in Runs \ {r} : Unfinished(s)' <=> Unfinished(s)
  PROVE  /\ PendingWork' \in {PendingWork, PendingWork \ {Work(r)}}
         /\ ~Unfinished(r) \/ ~Durable(Job(r)) => PendingWork' = PendingWork
         /\ \A n \in Runs \ {r} :
              Unfinished(n) /\ Durable(Job(n)) /\ Work(n) = Work(r)
                => PendingWork' = PendingWork
<1>1. \A w \in Runs : w \in PendingWork' <=>
        \E s \in Runs \ {r} : Unfinished(s) /\ Work(s) = w /\ Durable(Job(s))
  BY OpenLasting DEF PendingWork
<1>2. \A w \in Runs : w \in PendingWork <=>
        \/ \E s \in Runs \ {r} : Unfinished(s) /\ Work(s) = w /\ Durable(Job(s))
        \/ Unfinished(r) /\ Work(r) = w /\ Durable(Job(r))
  BY DEF PendingWork
<1>3. PendingWork \subseteq Runs /\ PendingWork' \subseteq Runs
  BY DEF PendingWork
<1>4. CASE \E s \in Runs \ {r} : Unfinished(s) /\ Work(s) = Work(r) /\ Durable(Job(s))
  BY <1>1, <1>2, <1>3, <1>4
<1>5. CASE ~\E s \in Runs \ {r} : Unfinished(s) /\ Work(s) = Work(r) /\ Durable(Job(s))
  <2>1. CASE Unfinished(r) /\ Durable(Job(r))
    BY <1>1, <1>2, <1>3, <1>5, <2>1
  <2>2. CASE ~(Unfinished(r) /\ Durable(Job(r)))
    BY <1>1, <1>2, <1>3, <1>5, <2>2
  <2> QED
    BY <2>1, <2>2
<1> QED
  BY <1>4, <1>5

(* The close of a row, seen from the list: its work was judged, or is      *)
(* judged by this step, or stays pending.                                  *)
LEMMA CloseList ==
  ASSUME IInv, Lasting, NEW r \in Runs, CloseRow(r), row[r].status # "none",
         \/ ~Durable(Job(r)) /\ judged' = judged
         \/ Work(r) \in judged /\ judged' = judged
         \/ /\ judged' = judged
            /\ \E n \in Runs \ {r} : Unfinished(n) /\ Durable(Job(n)) /\ Work(n) = Work(r)
         \/ Durable(Job(r)) /\ judged' = IF row' = row THEN judged ELSE judged \cup {Work(r)}
  PROVE  ListStep
<1> USE DEF IInv
<1>0. Work(r) \in Runs /\ (Durable(Job(r)) => Work(r) \in PendingWork \cup judged)
      /\ (Durable(Job(r)) /\ Unfinished(r) => Work(r) \in PendingWork)
  <2>1. drv[r] # "none"
    BY DEF JournalInv
  <2>2. Work(r) \in Runs
    BY <2>1 DEF TableInv, Infos, Work
  <2> QED
    BY <2>1, <2>2 DEF KeptInv, PendingWork
<1>1. CASE row' = row
  <2>1. PendingWork' = PendingWork
    BY <1>1, SamePending DEF Unfinished
  <2> QED
    BY <1>1, <2>1 DEF ListStep
<1>2. CASE row' # row
  <2>1. ~Unfinished(r)' /\ \A s \in Runs \ {r} : Unfinished(s)' <=> Unfinished(s)
    BY <1>2, CloseFacts DEF Unfinished
  <2>2. CASE PendingWork' = PendingWork /\ judged' = judged
    BY <2>2 DEF ListStep
  <2>3. CASE Work(r) \in judged /\ judged' = judged
    <3>1. CASE Unfinished(r) /\ Durable(Job(r))
      <4>1. PendingWork' \in {PendingWork, PendingWork \ {Work(r)}}
        BY <2>1, ClosedPending
      <4> QED
        BY <1>0, <2>2, <2>3, <3>1, <4>1 DEF ListStep, Durability!Next, Durability!Settle
    <3> QED
      BY <2>1, <2>2, <2>3, <3>1, ClosedPending
  <2>4. CASE Durable(Job(r)) /\ judged' = judged \cup {Work(r)}
    <3>1. PendingWork' \in {PendingWork, PendingWork \ {Work(r)}}
      BY <2>1, ClosedPending
    <3>2. CASE Work(r) \in PendingWork
      BY <1>0, <2>4, <3>1, <3>2 DEF ListStep, Durability!Next, Durability!Judge
    <3>3. CASE Work(r) \notin PendingWork
      BY <1>0, <2>3, <2>4, <3>3
    <3> QED
      BY <3>2, <3>3
  <2>5. CASE ~Durable(Job(r)) /\ judged' = judged
    BY <2>1, <2>2, <2>5, ClosedPending
  <2>6. CASE /\ judged' = judged
             /\ \E n \in Runs \ {r} : Unfinished(n) /\ Durable(Job(n)) /\ Work(n) = Work(r)
    BY <2>1, <2>2, <2>6, ClosedPending
  <2> QED
    BY <1>2, <2>3, <2>4, <2>5, <2>6
<1> QED
  BY <1>1, <1>2

LEMMA ListRun ==
  ASSUME IInv, Lasting, NEW r \in Runs, RunStep(r)
  PROVE  ListStep
<1> USE DEF IInv
<1>1. CASE Enqueue(r) \/ DropRequest(r)
  <2>1. row[r].status = "none" /\ judged' = judged /\ info' = info
    BY <1>1 DEF Enqueue, DropRequest, JournalInv
  <2>2. Work(r) \in Runs
    BY <1>1 DEF Enqueue, DropRequest, TableInv, Infos, Work
  <2>3. CASE row' = [row EXCEPT ![r] = NewRow]
    <3>1. Unfinished(r)' /\ \A s \in Runs \ {r} : Unfinished(s)' <=> Unfinished(s)
      BY <2>3 DEF Unfinished, NewRow, Types
    <3>2. Job(r)' = Job(r) /\ Work(r)' = Work(r)
      BY <2>1 DEF Job, Work
    <3>3. PendingWork' = IF Durable(Job(r)) THEN PendingWork \cup {Work(r)} ELSE PendingWork
      <4>1. ~Unfinished(r)
        BY <2>1 DEF Unfinished
      <4> QED
        BY <2>2, <3>1, <3>2, <4>1, OpenLasting DEF PendingWork
    <3> QED
      BY <2>1, <2>2, <3>3 DEF ListStep, Durability!Next, Durability!Accept
  <2>4. CASE row' = row
    BY <2>1, <2>4, SamePending DEF ListStep, Unfinished
  <2> QED
    BY <1>1, <2>3, <2>4 DEF Enqueue, DropRequest
<1>2. CASE Begin(r)
  <2>1. \A s \in Runs : row'[s].status = row[s].status
    BY <1>2, BeginRow
  <2> QED
    BY <1>2, <2>1, SamePending DEF Begin, ListStep, Unfinished
<1>3. CASE FinishBody(r)
  <2>1. PendingWork' = PendingWork
    BY <1>3, SamePending DEF FinishBody, Unfinished
  <2>2. CASE Durable(Job(r))
    <3>1. Work(r) \in Runs /\ Job(r) \in Jobs
      BY <1>3 DEF FinishBody, TableInv, Infos, Work, Job
    <3>2. row[r].status # "none"
      BY <1>3, <2>2, <3>1, DurableJournaled DEF FinishBody, JournalInv
    <3>3. Work(r) \in PendingWork \cup judged
      BY <1>3, <2>2, <3>2 DEF FinishBody, KeptInv
    <3>4. judged' = judged \cup {Work(r)}
      BY <1>3, <2>2 DEF FinishBody
    <3> QED
      BY <2>1, <3>1, <3>3, <3>4 DEF ListStep, Durability!Next, Durability!Judge
  <2>3. CASE ~Durable(Job(r))
    BY <1>3, <2>1, <2>3 DEF FinishBody, ListStep
  <2> QED
    BY <2>2, <2>3
<1>4. CASE Record(r)
  <2>1. drv[r] = "record" /\ judged' = judged
    BY <1>4 DEF Record
  <2>2. CASE CloseRow(r) /\ row[r].status # "none"
    <3>1. ~Durable(Job(r)) \/ Work(r) \in judged
      BY <2>1 DEF KeptInv
    <3> QED
      BY <2>1, <2>2, <3>1, CloseList
  <2>3. CASE CloseRow(r) /\ row[r].status = "none"
    <3>1. \A s \in Runs : Unfinished(s)' <=> Unfinished(s)
      BY <2>3, CloseFacts DEF Unfinished
    <3> QED
      BY <2>1, <3>1, SamePending DEF ListStep
  <2>4. CASE row' = row
    BY <2>1, <2>4, SamePending DEF ListStep, Unfinished
  <2> QED
    BY <1>4, <2>2, <2>3, <2>4 DEF Record
<1>5. CASE UNCHANGED <<row, judged>>
  BY <1>5, SamePending DEF ListStep, Unfinished
<1> QED
  BY <1>1, <1>2, <1>3, <1>4, <1>5
  DEF RunStep, DriverStep, Submit, Tick, Park, Resume, Cancel, Sweep

LEMMA ListDisruption ==
  ASSUME IInv, Lasting, Disruption
  PROVE  ListStep
<1> USE DEF IInv
<1>1. ASSUME NEW late \in SUBSET Runs, Generation(late), phase # "up"
      PROVE  ListStep
  <2>1. judged' = judged /\ \A r \in Runs : row'[r].status = row[r].status
    BY <1>1, GenerationFacts
  <2> QED
    BY <2>1, SamePending DEF ListStep, Unfinished
<1>2. CASE Start \/ Install
  BY <1>1, <1>2 DEF Start, Install, UnfinishedRows
<1>3. CASE UNCHANGED <<row, judged>>
  BY <1>3, SamePending DEF ListStep, Unfinished
<1> QED
  BY <1>2, <1>3 DEF Disruption, Crash, Drain, InterruptActive

LEMMA ListRecover ==
  ASSUME IInv, Lasting, NEW g \in Generations, RecoverStep(g)
  PROVE  ListStep
<1> USE DEF IInv
<1>0. pass[g].todo \in SUBSET (Runs \X Nat)
  BY DEF Types, Passes
<1>1. CASE UNCHANGED <<row, judged>>
  BY <1>1, SamePending DEF ListStep, Unfinished
<1>2. CASE RecoverClose(g)
  <2>1. PICK t \in pass[g].todo : /\ CloseRow(t[1]) /\ judged' = judged
                                  /\ ~Durable(Job(t[1]))
    BY <1>2 DEF RecoverClose, Replayable
  <2>2. t[1] \in Runs /\ row[t[1]].status # "none"
    BY <1>0, <2>1 DEF PassInv, Noted
  <2> QED
    BY <2>1, <2>2, CloseList
<1>3. CASE RecoverClaim(g)
  <2>1. PICK t \in pass[g].todo : Claimed(g, t) \/ UNCHANGED row
    BY <1>3 DEF RecoverClaim, Claimed
  <2>2. \A s \in Runs : row'[s].status = row[s].status
    BY <2>1, ClaimFacts
  <2> QED
    BY <1>3, <2>2, SamePending DEF RecoverClaim, ListStep, Unfinished
<1>4. CASE RecoverSubmit(g)
  <2>1. /\ pass[g].cur \in Runs /\ row[pass[g].cur].status # "none"
        /\ Durable(Job(pass[g].cur))
    BY <1>4 DEF RecoverSubmit, Holding, PassInv, Held
  <2>2. CASE Refuse(g)
    BY <2>1, <2>2, CloseList DEF Refuse
  <2> QED
    BY <1>1, <1>4, <2>2, SubmitFacts DEF Replay
<1>5. CASE RecoverSettle(g)
  <2> DEFINE r == pass[g].cur
             n == pass[g].new
  <2>1. r \in Runs /\ row[r].status # "none" /\ Durable(Job(r))
    BY <1>5 DEF RecoverSettle, Holding, PassInv, Held
  <2>2. /\ n \in Runs /\ Job(n) = Job(r) /\ Work(n) = Work(r)
        /\ row[n].status = "closed" => Work(n) \in judged
        /\ n # r
    BY <1>5, <2>1 DEF RecoverSettle, ReplayInv, Replayed, Untouched, Holding
  <2>3. /\ CloseRow(r)
        /\ judged' = IF row[n] # NoRow \/ row' = row THEN judged ELSE judged \cup {Work(r)}
    BY <1>5 DEF RecoverSettle
  <2>4. row[n].status \in {"none", "open", "closed"}
    BY <2>2 DEF Types, Rows
  <2> HIDE DEF r, n
  <2>5. CASE row[n] = NoRow
    BY <2>1, <2>3, <2>5, CloseList
  <2>6. CASE row[n].status = "closed"
    <3>1. Work(r) \in judged /\ judged' = judged
      BY <2>2, <2>3, <2>6 DEF NoRow
    <3> QED
      BY <2>1, <2>3, <3>1, CloseList
  <2>7. CASE row[n].status = "open"
    <3>1. judged' = judged /\ Unfinished(n)
      BY <2>3, <2>7 DEF NoRow, Unfinished
    <3> QED
      BY <2>1, <2>2, <2>3, <3>1, CloseList
  <2> QED
    BY <2>2, <2>4, <2>5, <2>6, <2>7 DEF JournalInv
<1> QED
  BY <1>1, <1>2, <1>3, <1>4, <1>5 DEF RecoverStep, RecoverRead

(* The work on the list or judged stays on the list or judged. *)
LEMMA ListKeeps ==
  ASSUME ListStep, NEW w \in PendingWork \cup judged
  PROVE  w \in PendingWork' \cup judged'
BY DEF ListStep, Durability!Next, Durability!Accept, Durability!Judge, Durability!Settle

(* How a run comes to be written down or to its record. *)
RunMove(r) ==
  /\ row'[r].status # "none" =>
       \/ row[r].status # "none"
       \/ Unfinished(r)'
       \/ drv[r] = "record" /\ ~Journaled(Job(r))
  /\ drv'[r] = "record" => \/ drv[r] = "record"
                           \/ drv[r] = "body" /\ (Durable(Job(r)) => Work(r) \in judged')

LEMMA KeptStep ==
  ASSUME IInv, Lasting, ListStep, Types', JournalInv', TableInv', \A r \in Runs : RunMove(r)
  PROVE  KeptInv'
<1> USE DEF IInv
<1> SUFFICES ASSUME NEW r \in Runs, drv'[r] # "none", Durable(Job(r)')
             PROVE  /\ row'[r].status # "none" => Work(r)' \in PendingWork' \cup judged'
                    /\ drv'[r] = "record" => Work(r)' \in judged'
  BY DEF KeptInv, Durable, Job
<1>1. RunMove(r)
  OBVIOUS
<1>2. Work(r)' \in Runs
  BY DEF TableInv, Infos, Work
<1>3. CASE drv[r] = "none"
  <2>1. row[r].status = "none"
    BY <1>3 DEF JournalInv
  <2>3. row'[r].status # "none" => Unfinished(r)'
    BY <1>1, <1>3, <2>1 DEF RunMove
  <2>4. Unfinished(r)' => Work(r)' \in PendingWork'
    BY <1>2 DEF PendingWork, Durable, Job
  <2>5. drv'[r] # "record"
    BY <1>1, <1>3 DEF RunMove
  <2> QED
    BY <2>3, <2>4, <2>5
<1>4. CASE drv[r] # "none"
  <2>1. Job(r)' = Job(r) /\ Work(r)' = Work(r)
    BY <1>4 DEF Lasting, Job, Work
  <2>2. Durable(Job(r)) /\ Job(r) \in Jobs
    BY <1>4, <2>1 DEF TableInv, Infos, Job
  <2>3. ASSUME row[r].status # "none" PROVE Work(r)' \in PendingWork' \cup judged'
    <3>1. Work(r) \in PendingWork \cup judged
      BY <1>4, <2>2, <2>3 DEF KeptInv
    <3> QED
      BY <2>1, <3>1, ListKeeps
  <2>4. ASSUME row[r].status = "none", row'[r].status # "none"
        PROVE  Work(r)' \in PendingWork' \cup judged'
    <3>0. Journaled(Job(r))
      BY <2>2, DurableJournaled
    <3>1. Unfinished(r)'
      BY <1>1, <2>4, <3>0 DEF RunMove
    <3> QED
      BY <1>2, <3>1 DEF PendingWork, Durable, Job
  <2>5. drv'[r] = "record" => Work(r)' \in judged'
    BY <1>1, <1>4, <2>1, <2>2 DEF RunMove, KeptInv, Lasting
  <2> QED
    BY <2>3, <2>4, <2>5
<1> QED
  BY <1>3, <1>4

LEMMA RunMoves ==
  ASSUME IInv, \/ \E r \in Runs : RunStep(r)
               \/ \E g \in Generations : RecoverStep(g)
               \/ Disruption
  PROVE  \A r \in Runs : RunMove(r)
<1> USE DEF IInv
<1>1. ASSUME NEW r \in Runs, RunStep(r) PROVE \A s \in Runs : RunMove(s)
  <2>1. CASE Submit(r) \/ Tick(r)
    <3>1. Fresh(r)
      BY <2>1, FreshFacts
    <3>2. PICK j \in Jobs, p \in Repos, o \in {"request", "schedule"} :
            Reserve(r, j, p, o, r)
      BY <3>1 DEF Fresh
    <3>3. Reserved(r, j, p, o, r)
      BY <3>2, ReserveFacts
    <3>4. drv'[r] # "record" /\ \A s \in Runs \ {r} : drv'[s] = drv[s]
      BY <3>3 DEF Reserved
    <3> QED
      BY <3>1, <3>4 DEF Fresh, RunMove
  <2>2. CASE Enqueue(r)
    BY <2>2 DEF Enqueue, RunMove, Unfinished, NewRow, Types
  <2>3. CASE Begin(r)
    <3>1. \A s \in Runs : row'[s].status = row[s].status
      BY <2>3, BeginRow
    <3>2. \A s \in Runs : drv'[s] = "record" => drv[s] = "record"
      BY <2>3 DEF Begin, Types
    <3> QED
      BY <3>1, <3>2 DEF RunMove
  <2>4. CASE FinishBody(r)
    BY <2>4 DEF FinishBody, RunMove, Types
  <2>5. CASE Record(r)
    <3>1. /\ drv[r] = "record" /\ \A s \in Runs : drv'[s] = "record" => drv[s] = "record"
      BY <2>5 DEF Record, Gone, Types
    <3>2. Journaled(Job(r)) => row[r].status # "none"
      BY <3>1 DEF JournalInv
    <3>3. CASE CloseRow(r)
      BY <3>1, <3>2, <3>3, CloseFacts DEF RunMove
    <3>4. CASE row' = row
      BY <3>1, <3>4 DEF RunMove
    <3> QED
      BY <2>5, <3>3, <3>4 DEF Record
  <2>6. CASE UNCHANGED <<row, drv>>
    BY <2>6 DEF RunMove
  <2>7. CASE DropRequest(r)
    BY <2>7 DEF DropRequest, RunMove, Unfinished, NewRow, Types
  <2> QED
    BY <1>1, <2>1, <2>2, <2>3, <2>4, <2>5, <2>6, <2>7
    DEF RunStep, DriverStep, Park, Resume, Cancel, Sweep
<1>2. ASSUME NEW g \in Generations, RecoverStep(g) PROVE \A s \in Runs : RunMove(s)
  <2>0. pass[g].todo \in SUBSET (Runs \X Nat)
    BY DEF Types, Passes
  <2>1. ASSUME NEW r \in Runs, row[r].status # "none", CloseRow(r), drv' = drv
        PROVE  \A s \in Runs : RunMove(s)
    BY <2>1, CloseFacts DEF RunMove
  <2>2. CASE UNCHANGED <<row, drv>>
    BY <2>2 DEF RunMove
  <2>3. CASE RecoverClose(g)
    <3>1. PICK t \in pass[g].todo : CloseRow(t[1]) /\ drv' = drv
      BY <2>3 DEF RecoverClose
    <3>2. t[1] \in Runs /\ row[t[1]].status # "none"
      BY <2>0, <3>1 DEF PassInv, Noted
    <3> QED
      BY <2>1, <3>1, <3>2
  <2>4. CASE RecoverClaim(g)
    <3>1. PICK t \in pass[g].todo : Claimed(g, t) \/ UNCHANGED row
      BY <2>4 DEF RecoverClaim, Claimed
    <3>2. \A s \in Runs : row'[s].status = row[s].status
      BY <3>1, ClaimFacts
    <3> QED
      BY <2>4, <3>2 DEF RecoverClaim, RunMove
  <2>5. CASE RecoverSubmit(g)
    <3>1. /\ pass[g].cur \in Runs /\ row[pass[g].cur].status # "none"
          /\ Job(pass[g].cur) \in Jobs /\ info[pass[g].cur].repo \in Repos
          /\ Work(pass[g].cur) \in Runs
      BY <2>5, HeldInfo DEF RecoverSubmit, Holding, PassInv, Held
    <3>2. ASSUME NEW n \in Runs, Replay(g, n) PROVE \A s \in Runs : RunMove(s)
      <4>1. Reserved(n, Job(pass[g].cur), info[pass[g].cur].repo, "startup",
                     Work(pass[g].cur))
        BY <3>1, <3>2, ReserveFacts DEF Replay
      <4>2. drv'[n] # "record" /\ \A s \in Runs \ {n} : drv'[s] = drv[s]
        BY <4>1 DEF Reserved
      <4> QED
        BY <3>2, <4>2 DEF Replay, RunMove
    <3>3. CASE Refuse(g)
      BY <2>1, <3>1, <3>3 DEF Refuse
    <3> QED
      BY <2>5, <3>2, <3>3, SubmitFacts
  <2>6. CASE RecoverSettle(g)
    <3>1. pass[g].cur \in Runs /\ row[pass[g].cur].status # "none"
      BY <2>6 DEF RecoverSettle, Holding, PassInv, Held
    <3> QED
      BY <2>1, <2>6, <3>1 DEF RecoverSettle
  <2> QED
    BY <1>2, <2>2, <2>3, <2>4, <2>5, <2>6 DEF RecoverStep, RecoverRead
<1>3. CASE Crash
  BY <1>3 DEF Crash, RunMove
<1>4. CASE Drain \/ InterruptActive
  BY <1>4 DEF Drain, InterruptActive, RunMove
<1>5. ASSUME NEW late \in SUBSET Runs, Generation(late), phase # "up"
      PROVE  \A s \in Runs : RunMove(s)
  <2>1. drv' = drv /\ \A r \in Runs : row'[r].status = row[r].status
    BY <1>5, GenerationFacts
  <2> QED
    BY <2>1 DEF RunMove
<1>6. CASE Start \/ Install
  BY <1>5, <1>6 DEF Start, Install, UnfinishedRows
<1> QED
  BY <1>1, <1>2, <1>3, <1>4, <1>6 DEF Disruption

-----------------------------------------------------------------------------
(* The theorems *)

(* A step keeps the invariant and is a step of the abstract list. *)
LEMMA StepInv ==
  ASSUME IInv, [Next]_vars
  PROVE  IInv' /\ ListStep
<1>1. CASE UNCHANGED vars
  <2>1. IInv'
    BY <1>1 DEF IInv, Types, Affordable, DownInv, TableInv, JournalInv, LockInv, OriginInv,
       PassInv, ReplayInv, KeptInv, Driven, Abandoned, Noted, Held, Holding, Untouched,
       Replayed, Job, Work, PendingWork, Unfinished
  <2>2. ListStep
    BY <1>1 DEF ListStep, PendingWork, Unfinished, Job, Work
  <2> QED
    BY <2>1, <2>2
<1>2. CASE Next
  <2>0. \/ \E r \in Runs : RunStep(r)
        \/ \E g \in Generations : RecoverStep(g)
        \/ Disruption
    BY <1>2 DEF Next, RunStep, Disruption
  <2>1. Types' /\ Affordable'
    BY <2>0, TypesRun, TypesRecover, TypesDisruption
  <2>2. DownInv'
    BY <2>0, DownStep
  <2>3. TableInv' /\ LockInv' /\ OriginInv'
    BY <2>0, DriverRun, DriverRecover, DriverDisruption DEF DriverInv
  <2>4. Lasting /\ JournalInv'
    BY <2>0, JournalRun, JournalRecover, JournalDisruption
  <2>5. Moves
    BY <2>0, MovesRun, MovesRecover, MovesDisruption
  <2>6. PassInv' /\ ReplayInv'
    BY <2>4, <2>5, PassStep, ReplayStep
  <2>7. ListStep
    BY <2>0, <2>4, ListRun, ListRecover, ListDisruption
  <2>8. KeptInv'
    BY <2>0, <2>1, <2>3, <2>4, <2>7, RunMoves, KeptStep
  <2> QED
    BY <2>1, <2>2, <2>3, <2>4, <2>6, <2>7, <2>8 DEF IInv
<1> QED
  BY <1>1, <1>2

(* The invariant holds in every reachable state of the task system. *)
THEOREM Invariance == Spec => []IInv
<1>1. IInv /\ [Next]_vars => IInv'
  BY StepInv
<1> QED
  BY <1>1, InitInv, PTL DEF Spec

(* The run table, the drivers, the journal and the generation counter are  *)
(* well typed: there is a place for the recovery pass of every generation  *)
(* that is ever started, and a row that exists counts its attempts from    *)
(* one.                                                                    *)
THEOREM TypeCorrectness == Spec => []TypeOK
<1>1. IInv => TypeOK
  <2> SUFFICES ASSUME IInv PROVE TypeOK
    OBVIOUS
  <2>1. \A r \in Runs : drv[r] # "none" => /\ Job(r) \in Jobs
                                           /\ info[r].repo \in Repos
                                           /\ Work(r) \in Runs
    BY DEF IInv, TableInv, Infos, Job, Work
  <2>2. \A r \in Runs : row[r] # NoRow =>
          /\ row[r].status \in {"open", "closed"}
          /\ row[r].attempt \in Nat
          /\ Journaled(Job(r)) => row[r].attempt >= 1
    BY DEF IInv, Types, Rows, JournalInv
  <2>3. gen \in Generations
    BY MaxDisruptions DEF IInv, Types, Affordable, Generations
  <2> QED
    BY <2>1, <2>2, <2>3 DEF IInv, Types, TypeOK
<1> QED
  BY <1>1, Invariance, PTL

(* A run a client sees as active has a driver that will end it, unless its *)
(* request was dropped between the reservation and the spawn, and a run it *)
(* sees as finished has none at work, unless a restart declared it         *)
(* interrupted.                                                            *)
THEOREM EntriesAreHonest == Spec => []ActiveIsDriven
<1>1. IInv => ActiveIsDriven
  BY DEF IInv, Types, TableInv, ActiveIsDriven, Active, Done, Live, Driven, Pcs,
         ActiveStates, TerminalStates
<1> QED
  BY <1>1, Invariance, PTL

(* The check of reserve under one lock is a lock on the job and library:   *)
(* no two bodies of a deduplicated job work on one library, except beside  *)
(* a body that a restart left behind.                                      *)
THEOREM DeduplicationLocks == Spec => []DedupHolds
<1>1. IInv => DedupHolds
  BY DEF IInv, LockInv, DedupHolds, Driven
<1> QED
  BY <1>1, Invariance, PTL

(* Work whose repetition is not declared harmless is executed once,        *)
(* whatever crashes and recoveries happen.                                 *)
THEOREM ExecutedOnce == Spec => []NotReplayed
<1>1. IInv => NotReplayed
  BY DEF IInv, Types, OriginInv, NotReplayed
<1> QED
  BY <1>1, Invariance, PTL

(* A row is closed by the driver of its run or because it was abandoned. *)
LEMMA ClosedByWhom ==
  ASSUME IInv, Next, NEW r \in Runs, Unfinished(r), row'[r].status = "closed"
  PROVE  Abandoned(r)
<1> USE DEF IInv
<1>0. row'[r] # row[r]
  BY DEF Unfinished
<1>1. ASSUME NEW s \in Runs, RunStep(s) PROVE Abandoned(r)
  <2>1. CASE Enqueue(s)
    BY <1>0, <2>1 DEF Enqueue, NewRow, Types
  <2>2. CASE Begin(s)
    <3>1. row'[r].status = row[r].status
      BY <2>2, BeginRow
    <3> QED
      BY <3>1 DEF Unfinished
  <2>3. CASE Record(s)
    <3>1. r = s
      BY <1>0, <2>3, CloseFacts DEF Record
    <3> QED
      BY <2>3, <3>1 DEF Record, Abandoned
  <2>4. CASE DropRequest(s)
    BY <1>0, <2>4 DEF DropRequest, NewRow, Types
  <2> QED
    BY <1>0, <1>1, <2>1, <2>2, <2>3, <2>4
    DEF RunStep, DriverStep, Submit, Tick, FinishBody, Park, Resume, Cancel, Sweep
<1>2. ASSUME NEW g \in Generations, RecoverStep(g) PROVE Abandoned(r)
  <2>0. pass[g].todo \in SUBSET (Runs \X Nat)
    BY DEF Types, Passes
  <2>1. CASE RecoverClose(g)
    <3>1. PICK t \in pass[g].todo : CloseRow(t[1])
      BY <2>1 DEF RecoverClose
    <3>2. t[1] \in Runs /\ Abandoned(t[1])
      BY <2>0, <3>1 DEF PassInv, Noted
    <3> QED
      BY <1>0, <3>1, <3>2, CloseFacts
  <2>2. CASE RecoverClaim(g)
    <3>1. PICK t \in pass[g].todo : Claimed(g, t) \/ UNCHANGED row
      BY <2>2 DEF RecoverClaim, Claimed
    <3>2. row'[r].status = row[r].status
      BY <3>1, ClaimFacts
    <3> QED
      BY <3>2 DEF Unfinished
  <2>3. CASE RecoverSubmit(g) \/ RecoverSettle(g)
    <3>1. pass[g].cur \in Runs /\ Abandoned(pass[g].cur)
      BY <2>3 DEF RecoverSubmit, RecoverSettle, Holding, PassInv, Held
    <3>2. CloseRow(pass[g].cur)
      BY <1>0, <2>3 DEF RecoverSubmit, RecoverSettle
    <3> QED
      BY <1>0, <3>1, <3>2, CloseFacts
  <2> QED
    BY <1>0, <1>2, <2>1, <2>2, <2>3 DEF RecoverStep, RecoverRead
<1>3. ASSUME NEW late \in SUBSET Runs, Generation(late), phase # "up" PROVE Abandoned(r)
  <2>1. row'[r].status = row[r].status
    BY <1>3, GenerationFacts
  <2> QED
    BY <2>1 DEF Unfinished
<1>4. CASE Disruption
  BY <1>0, <1>3, <1>4
  DEF Disruption, Crash, Start, Drain, InterruptActive, Install, UnfinishedRows
<1> QED
  BY <1>1, <1>2, <1>4 DEF Next, RunStep, Disruption

(* Recovery closes only the rows of runs that are dead or were left behind *)
(* by a restart, whatever leases run out: the row of a run at work has a   *)
(* lease that no pass may ignore.                                          *)
THEOREM LeaseProtects == Spec => RecoverySparesTheLiving
<1>1. ASSUME IInv, [Next]_vars
      PROVE  [\A r \in Runs :
                Unfinished(r) /\ row'[r].status = "closed" /\ drv[r] # "record"
                  => ~Live(r) \/ r \in orphans]_vars
  BY <1>1, ClosedByWhom DEF Abandoned, Live
<1> QED
  BY <1>1, Invariance, PTL DEF Spec, RecoverySparesTheLiving

(* The journal and recovery implement the abstract list: no crash, claim,  *)
(* replay or close leaves durable work neither pending nor judged.         *)
THEOREM JournalRefinesWorklist == Spec => DurableWorkKept
<1>1. Init => Durability!Init
  BY DEF Init, Durability!Init, PendingWork, Unfinished, NoRow
<1>2. IInv /\ [Next]_vars => [Durability!Next]_<<PendingWork, judged>>
  BY StepInv DEF ListStep
<1> QED
  BY <1>1, <1>2, Invariance, PTL DEF Spec, DurableWorkKept, Durability!Spec
=============================================================================
