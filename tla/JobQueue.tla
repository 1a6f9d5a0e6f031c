------------------------------ MODULE JobQueue ------------------------------
(***************************************************************************)
(* The Postgres-backed job queue of crates/bvault-jobs for ONE job kind,   *)
(* together with the consumers that claim from it.                         *)
(*                                                                         *)
(* The table `jobs` is a function from row ids to rows.  Ids are handed    *)
(* out in insertion order, so `order by created_at` is the order of ids.   *)
(* Every method of Queue is a single SQL statement, hence one step, except *)
(* claim: its sub-select locks a row (FOR UPDATE SKIP LOCKED) before the   *)
(* update writes it, and other statements can run in between.              *)
(*                                                                         *)
(* Time appears only as the state of a row's lease: "live" until           *)
(* locked_until passes, "expired" afterwards.  LeaseCoversWork is the      *)
(* deployment's promise (analysis-worker config.rs) that a job never       *)
(* outlives its lease; without it a lease may run out at any moment.       *)
(***************************************************************************)
EXTENDS Integers, FiniteSets

CONSTANTS
    Keys,            \* dedup keys: the content hashes
    NoKey,           \* key of a row that is not inserted yet
    Consumers,       \* worker processes that claim jobs
    Nobody,          \* owner, in the abstract pool, of a job no consumer executes
    MaxJobs,         \* bound: rows the table can hold
    MaxAttempts,     \* max_attempts, the same for every row
    MaxFaults,       \* bound: crashes and lost reports together
    LeaseCoversWork  \* TRUE: a lease runs out only if nobody works on the job

ASSUME NoKeyAssumption == NoKey \notin Keys
ASSUME NobodyAssumption == Nobody \notin Consumers
ASSUME MaxJobsAssumption == MaxJobs \in Nat \ {0}
ASSUME MaxAttemptsAssumption == MaxAttempts \in Nat \ {0}
ASSUME MaxFaultsAssumption == MaxFaults \in Nat
ASSUME LeaseAssumption == LeaseCoversWork \in BOOLEAN

VARIABLES
    jobs,      \* the jobs table
    selected,  \* selected[c]: row locked by c's claim statement, or NoJob
    held,      \* held[c]: row c is executing, or NoJob
    faults     \* history: crashes and lost reports so far

vars == <<jobs, selected, held, faults>>
-----------------------------------------------------------------------------
JobIds == 1..MaxJobs
NoJob  == 0

Status == {"pending", "running", "succeeded", "failed", "dead"}
Active == {"pending", "running"}
Terminal == {"succeeded", "dead"}

Row == [key : Keys, status : Status, attempts : Nat,
        lease : {"none", "live", "expired"}]

\* A row that has not been inserted yet.
Absent == [key |-> NoKey, status |-> "absent", attempts |-> 0, lease |-> "none"]

NewRow(k) == [key |-> k, status |-> "pending", attempts |-> 0, lease |-> "none"]

\* The writes of the UPDATE statements, as functions of the row they hit.
Claimed(r) ==
    [key |-> r.key, status |-> "running", attempts |-> r.attempts + 1, lease |-> "live"]
Extended(r) == IF r.status = "running" THEN [r EXCEPT !.lease = "live"] ELSE r
Completed(r) == [r EXCEPT !.status = "succeeded", !.lease = "none"]

\* Mutated forms of Failed: a status that JobStatus cannot read back, and a
\* report that never looks at the budget.
FailsAsError(r) == [r EXCEPT !.status = "error", !.lease = "none"]
RetriesForever(r) == [r EXCEPT !.status = "failed", !.lease = "none"]

Failed(r) == [r EXCEPT
    !.status = IF r.attempts >= MaxAttempts THEN "dead" ELSE "failed",
    !.lease = "none"]

\* Mutated forms of Runnable: a claim that ignores leases, one that never
\* reclaims a dead worker's job, one that serves finished jobs again.
IgnoresLease(r) == r.status \in {"pending", "failed", "running"}
NeverReclaims(r) == r.status \in {"pending", "failed"}
ServesFinished(r) == r.status \in {"pending", "failed", "succeeded"}

\* The WHERE clause of the claim's sub-select.
Runnable(r) ==
    \/ r.status = "pending"
    \/ r.status = "failed"
    \/ r.status = "running" /\ r.lease = "expired"

Locked(id) == \E c \in Consumers : selected[c] = id

\* The jobs_active_dedup index: rows it covers for key k.
ActiveRows(k) == {id \in JobIds : jobs[id].key = k /\ jobs[id].status \in Active}

\* Writing status running to row id would break the unique index.
IndexConflict(id) == \E i \in ActiveRows(jobs[id].key) : i # id
-----------------------------------------------------------------------------
Init ==
    /\ jobs = [id \in JobIds |-> Absent]
    /\ selected = [c \in Consumers |-> NoJob]
    /\ held = [c \in Consumers |-> NoJob]
    /\ faults = 0

\* enqueue: ON CONFLICT with an active row the existing id is returned and
\* nothing changes; rows that are failed, succeeded or dead do not conflict.
Enqueue(k) ==
    \/ /\ ActiveRows(k) # {}
       /\ UNCHANGED vars
    \/ \E id \in JobIds :
          /\ ActiveRows(k) = {}
          /\ jobs[id].status = "absent"
          /\ \A i \in 1..(id - 1) : jobs[i].status # "absent"
          /\ jobs' = [jobs EXCEPT ![id] = NewRow(k)]
          /\ UNCHANGED <<selected, held, faults>>

\* claim, first half: lock the oldest runnable row that nobody has locked.
ClaimSelect(c) ==
    /\ held[c] = NoJob
    /\ selected[c] = NoJob
    /\ \E id \in JobIds :
          /\ Runnable(jobs[id]) /\ ~Locked(id)
          /\ \A i \in 1..(id - 1) : ~Runnable(jobs[i]) \/ Locked(i)
          /\ selected' = [selected EXCEPT ![c] = id]
    /\ UNCHANGED <<jobs, held, faults>>

\* claim finds nothing: the consumer sleeps and polls again.
ClaimNone(c) ==
    /\ held[c] = NoJob
    /\ selected[c] = NoJob
    /\ \A id \in JobIds : ~Runnable(jobs[id]) \/ Locked(id)
    /\ UNCHANGED vars

\* claim, second half: the update of the locked row.
ClaimCommit(c) ==
    /\ selected[c] # NoJob
    /\ ~IndexConflict(selected[c])
    /\ jobs' = [jobs EXCEPT ![selected[c]] = Claimed(@)]
    /\ held' = [held EXCEPT ![c] = selected[c]]
    /\ selected' = [selected EXCEPT ![c] = NoJob]
    /\ UNCHANGED faults

\* claim, second half, when the update violates the unique index: the statement
\* is rolled back and the consumer sees a database error.
ClaimError(c) ==
    /\ selected[c] # NoJob
    /\ IndexConflict(selected[c])
    /\ selected' = [selected EXCEPT ![c] = NoJob]
    /\ UNCHANGED <<jobs, held, faults>>

Heartbeat(c) ==
    /\ held[c] # NoJob
    /\ ~Locked(held[c])
    /\ jobs' = [jobs EXCEPT ![held[c]] = Extended(@)]
    /\ UNCHANGED <<selected, held, faults>>

\* complete and fail find the row by id alone, whatever its status or holder.
Complete(c) ==
    /\ held[c] # NoJob
    /\ ~Locked(held[c])
    /\ jobs' = [jobs EXCEPT ![held[c]] = Completed(@)]
    /\ held' = [held EXCEPT ![c] = NoJob]
    /\ UNCHANGED <<selected, faults>>

Fail(c) ==
    /\ held[c] # NoJob
    /\ ~Locked(held[c])
    /\ jobs' = [jobs EXCEPT ![held[c]] = Failed(@)]
    /\ held' = [held EXCEPT ![c] = NoJob]
    /\ UNCHANGED <<selected, faults>>

\* The worker drops the result of complete/fail: a report that the database
\* refuses is lost and the worker moves on to its next claim.
ReportLost(c) ==
    /\ held[c] # NoJob
    /\ faults < MaxFaults
    /\ held' = [held EXCEPT ![c] = NoJob]
    /\ faults' = faults + 1
    /\ UNCHANGED <<jobs, selected>>

\* A pod dies and is restarted; its open claim, if any, is rolled back.
Crash(c) ==
    /\ held[c] # NoJob \/ selected[c] # NoJob
    /\ faults < MaxFaults
    /\ held' = [held EXCEPT ![c] = NoJob]
    /\ selected' = [selected EXCEPT ![c] = NoJob]
    /\ faults' = faults + 1
    /\ UNCHANGED jobs

\* locked_until passes.
LeaseExpires(id) ==
    /\ jobs[id].status = "running"
    /\ jobs[id].lease = "live"
    /\ LeaseCoversWork => \A c \in Consumers : held[c] # id
    /\ jobs' = [jobs EXCEPT ![id].lease = "expired"]
    /\ UNCHANGED <<selected, held, faults>>

Claim(c) == ClaimSelect(c) \/ ClaimCommit(c) \/ ClaimError(c)
Report(c) == Complete(c) \/ Fail(c)

Next ==
    \/ \E k \in Keys : Enqueue(k)
    \/ \E c \in Consumers :
          \/ Claim(c)
          \/ ClaimNone(c)
          \/ Heartbeat(c)
          \/ Report(c)
          \/ ReportLost(c)
          \/ Crash(c)
    \/ \E id \in JobIds : LeaseExpires(id)

Spec == Init /\ [][Next]_vars

\* Scheduling: the worker loop polls forever, every job it starts ends in a
\* report, and time passes.  Nobody is obliged to enqueue, heartbeat or crash.
Fairness ==
    /\ \A c \in Consumers : WF_vars(Claim(c)) /\ WF_vars(Report(c))
    /\ \A id \in JobIds : WF_vars(LeaseExpires(id))

FairSpec == Spec /\ Fairness
-----------------------------------------------------------------------------
(* Properties *)

\* Every variable keeps its type; a row is either not inserted or a full row.
TypeOK ==
    /\ jobs \in [JobIds -> Row \cup {Absent}]
    /\ selected \in [Consumers -> JobIds \cup {NoJob}]
    /\ held \in [Consumers -> JobIds \cup {NoJob}]
    /\ faults \in 0..MaxFaults

\* At most one row per key is pending or running, although failed rows come
\* back by claim and new rows by enqueue (0001_jobs.sql, jobs_active_dedup).
UniqueActive ==
    \A i, j \in JobIds :
        /\ jobs[i].status \in Active
        /\ jobs[j].status \in Active
        /\ jobs[i].key = jobs[j].key
        => i = j

\* Two consumers never work on the same content hash at the same time, as long
\* as leases cover the work: this is all that keeps two workers from writing
\* one artifact bundle together (queue.rs: lease, index and claim combined).
OneWorkerPerKey ==
    LeaseCoversWork =>
        \A c, d \in Consumers :
            /\ held[c] # NoJob
            /\ held[d] # NoJob
            /\ c # d
            => jobs[held[c]].key # jobs[held[d]].key

\* A retryable row has attempts left and a dead row has none, even when reports
\* come late or twice (fail, queue.rs).
BudgetDecides ==
    \A id \in JobIds :
        /\ jobs[id].status = "failed" => jobs[id].attempts < MaxAttempts
        /\ jobs[id].status = "dead" => jobs[id].attempts >= MaxAttempts

\* claim never looks at max_attempts, so a job can be served more often than
\* that; but every extra attempt is paid for by one crash or lost report.
AttemptsAccounted ==
    LeaseCoversWork =>
        \A id \in JobIds : jobs[id].attempts <= MaxAttempts + faults

\* The attempt budget: what the states say about it and what may exceed it.
BudgetIsKept == BudgetDecides /\ AttemptsAccounted

\* As long as leases cover the work, no late report reopens or overwrites a
\* job that has succeeded or is dead (complete and fail check no status).
FinishedStaysFinished ==
    [][LeaseCoversWork =>
        \A id \in JobIds :
            jobs[id].status \in Terminal => jobs'[id] = jobs[id]]_vars

\* A retryable row whose key has another active row: every claim that selects
\* it breaks the unique index.
Wedged ==
    \E id \in JobIds : jobs[id].status = "failed" /\ IndexConflict(id)

Unfinished(id) == jobs[id].status \in {"pending", "running", "failed"}
Finished(id) == jobs[id].status \in Terminal

\* What lib.rs promises of duplicate submissions and dead workers: every job
\* that is enqueued ends up succeeded or dead.
EveryJobFinishes == \A id \in JobIds : Unfinished(id) ~> Finished(id)

\* What the code does: the same, unless the queue runs into a wedged hash.
FinishesUnlessWedged ==
    \A id \in JobIds : Unfinished(id) ~> (Finished(id) \/ Wedged)
-----------------------------------------------------------------------------
(* Refinement: with leases that cover the work, the queue is a WorkPool. *)

PoolState(r) ==
    CASE r.status = "absent" -> "none"
      [] r.status \in {"pending", "failed"} -> "open"
      [] r.status = "running" -> "taken"
      [] r.status = "succeeded" -> "done"
      [] r.status = "dead" -> "parked"

PoolOwner(id) ==
    IF \E c \in Consumers : held[c] = id
    THEN CHOOSE c \in Consumers : held[c] = id
    ELSE Nobody

PoolKeys == [id \in JobIds |-> jobs[id].key]
PoolStates == [id \in JobIds |-> PoolState(jobs[id])]
PoolOwners == [id \in JobIds |-> PoolOwner(id)]

Pool == INSTANCE WorkPool WITH
    Workers <- Consumers,
    Work <- JobIds,
    key <- PoolKeys,
    state <- PoolStates,
    owner <- PoolOwners

\* Claims, leases, the index and reports by id implement the pool: at most one
\* owner per job and per key, and nobody but the owner settles a job.
ImplementsPool == Pool!Spec
=============================================================================
