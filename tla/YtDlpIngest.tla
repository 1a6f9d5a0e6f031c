---------------------------- MODULE YtDlpIngest ----------------------------
(***************************************************************************)
(* The yt-dlp ingest path: clients POST /ingest/ytdlp and poll the job,    *)
(* the gateway keeps the job rows, and the Python service claims them over *)
(* HTTP, downloads, uploads the result as a track and reports the outcome. *)
(*                                                                         *)
(* The rows are those of JobQueue, whose row operators are used here; the  *)
(* consumer is different.  It retries inside one claim, sends no           *)
(* heartbeat, and ends a job with complete or mark_dead, which both find   *)
(* the row by id alone.  Its claim is one statement sent by one loop, so   *)
(* it is one step.                                                         *)
(***************************************************************************)
EXTENDS Integers, FiniteSets

CONSTANTS
    Urls,        \* dedup keys: the URLs of one user
    NoUrl,       \* key of a row that is not inserted yet
    Clients,     \* command-line clients
    Tasks,       \* handle_job coroutines; more than Permits, to see the semaphore work
    NoTask,      \* owner of a job that no task executes
    Permits,     \* permits of the semaphore: 2 in the code
    MaxRetries,  \* MAX_RETRIES: tries after the first, in one claim
    MaxJobs,     \* bound: rows the table can hold
    MaxFaults    \* bound: lost calls, clients that give up, and crashes together

ASSUME PermitsAssumption == Permits \in Nat \ {0}
ASSUME MaxRetriesAssumption == MaxRetries \in Nat
ASSUME MaxRowsAssumption == MaxJobs \in Nat
ASSUME YtFaultsAssumption == MaxFaults \in Nat

VARIABLES
    leaseCovers,  \* every claim ends within its 1800 seconds; fixed for a run
    jobs,         \* the jobs table, rows of kind yt_dlp_ingest
    loop,         \* the claim loop: "acquire" or "post"
    permits,      \* permits left in the semaphore
    held,         \* held[t]: row task t executes, or NoJob
    stage,        \* stage[t]: where the task is
    tries,        \* tries[t]: tries that failed in this claim
    uploaded,     \* URLs whose audio is in the raw store, with a track
    polled,       \* polled[c]: the row client c polls, or NoJob
    told,         \* told[c]: what the client knows of it
    faults        \* history: faults so far

rowVars == <<jobs>>
serviceVars == <<loop, permits, held, stage, tries>>
clientVars == <<polled, told>>
vars == <<leaseCovers, rowVars, serviceVars, uploaded, clientVars, faults>>

\* The row operators of the queue; these rows get one attempt.
Queue == INSTANCE JobQueue WITH
    Keys <- Urls, NoKey <- NoUrl, Consumers <- Tasks, Nobody <- NoTask,
    MaxAttempts <- 1, LeaseCoversWork <- FALSE,
    selected <- [t \in Tasks |-> 0]

JobIds == 1..MaxJobs
NoJob == 0
Stages == {"idle", "download", "upload", "report_ok", "report_error"}
Idle(t) == stage[t] = "idle"
-----------------------------------------------------------------------------
Init ==
    /\ leaseCovers \in BOOLEAN
    /\ jobs = [id \in JobIds |-> Queue!Absent]
    /\ loop = "acquire"
    /\ permits = Permits
    /\ held = [t \in Tasks |-> NoJob]
    /\ stage = [t \in Tasks |-> "idle"]
    /\ tries = [t \in Tasks |-> 0]
    /\ uploaded = {}
    /\ polled = [c \in Clients |-> NoJob]
    /\ told = [c \in Clients |-> "none"]
    /\ faults = 0

Fault == faults < MaxFaults /\ faults' = faults + 1

(* Clients. *)

\* ingest_ytdlp: a URL with an active row gets that row's id, any other a row.
Submit(c, u) ==
    /\ told[c] # "waiting"
    /\ \E id \in JobIds :
          \/ id \in Queue!ActiveRows(u) /\ UNCHANGED jobs
             /\ polled' = [polled EXCEPT ![c] = id]
          \/ /\ Queue!ActiveRows(u) = {}
             /\ jobs[id] = Queue!Absent
             /\ \A i \in 1..(id - 1) : jobs[i] # Queue!Absent
             /\ jobs' = [jobs EXCEPT ![id] = Queue!NewRow(u)]
             /\ polled' = [polled EXCEPT ![c] = id]
    /\ told' = [told EXCEPT ![c] = "waiting"]
    /\ UNCHANGED <<leaseCovers, serviceVars, uploaded, faults>>

\* get_job until the status is one of those the client takes for final.
Poll(c) ==
    /\ told[c] = "waiting"
    /\ \/ /\ jobs[polled[c]].status = "succeeded"
          /\ told' = [told EXCEPT ![c] = "ok"]
       \/ /\ jobs[polled[c]].status \in {"failed", "dead"}
          /\ told' = [told EXCEPT ![c] = "failed"]
    /\ UNCHANGED <<leaseCovers, rowVars, serviceVars, uploaded, polled, faults>>

\* A single-video client stops after 300 seconds or at an error of the poll.
GiveUp(c) ==
    /\ told[c] = "waiting" /\ Fault
    /\ told' = [told EXCEPT ![c] = "none"]
    /\ polled' = [polled EXCEPT ![c] = NoJob]
    /\ UNCHANGED <<leaseCovers, rowVars, serviceVars, uploaded>>
-----------------------------------------------------------------------------
(* claim_worker_loop. *)

Acquire ==
    /\ loop = "acquire" /\ permits > 0
    /\ loop' = "post"
    /\ permits' = permits - 1
    /\ UNCHANGED <<leaseCovers, rowVars, held, stage, tries, uploaded, clientVars, faults>>

Release == permits' = permits + 1

\* The oldest runnable row, which claim_job hands out.
Oldest(id) ==
    /\ Queue!Runnable(jobs[id])
    /\ \A i \in 1..(id - 1) : ~Queue!Runnable(jobs[i])

ClaimJob(t) ==
    /\ loop = "post" /\ Idle(t)
    /\ \E id \in JobIds :
          /\ Oldest(id)
          /\ jobs' = [jobs EXCEPT ![id] = Queue!Claimed(@)]
          /\ held' = [held EXCEPT ![t] = id]
    /\ stage' = [stage EXCEPT ![t] = "download"]
    /\ tries' = [tries EXCEPT ![t] = 0]
    /\ loop' = "acquire"
    /\ UNCHANGED <<leaseCovers, permits, uploaded, clientVars, faults>>

\* Mutated form of ClaimNothing: the permit is not given back.
KeepsPermit ==
    /\ loop = "post"
    /\ \A id \in JobIds : ~Queue!Runnable(jobs[id])
    /\ loop' = "acquire"
    /\ UNCHANGED <<leaseCovers, rowVars, permits, held, stage, tries, uploaded, clientVars, faults>>

\* 204 No Content.
ClaimNothing ==
    /\ loop = "post"
    /\ \A id \in JobIds : ~Queue!Runnable(jobs[id])
    /\ loop' = "acquire" /\ Release
    /\ UNCHANGED <<leaseCovers, rowVars, held, stage, tries, uploaded, clientVars, faults>>

\* The call or its answer is lost: the service knows of no job, although the
\* gateway may have claimed one for it.
ClaimLost ==
    /\ loop = "post" /\ Fault
    /\ \/ UNCHANGED jobs
       \/ \E id \in JobIds : Oldest(id) /\ jobs' = [jobs EXCEPT ![id] = Queue!Claimed(@)]
    /\ loop' = "acquire" /\ Release
    /\ UNCHANGED <<leaseCovers, held, stage, tries, uploaded, clientVars>>
-----------------------------------------------------------------------------
(* handle_job and process_yt_dlp_once. *)

\* A try failed for a reason that may go away.
TryFails(t) ==
    \/ /\ tries[t] < MaxRetries
       /\ tries' = [tries EXCEPT ![t] = @ + 1]
       /\ stage' = [stage EXCEPT ![t] = "download"]
    \/ /\ tries[t] = MaxRetries
       /\ stage' = [stage EXCEPT ![t] = "report_error"]
       /\ UNCHANGED tries

Download(t) ==
    /\ stage[t] = "download"
    /\ \/ stage' = [stage EXCEPT ![t] = "upload"] /\ UNCHANGED tries
       \/ stage' = [stage EXCEPT ![t] = "report_error"] /\ UNCHANGED tries
       \/ TryFails(t)
    /\ UNCHANGED <<leaseCovers, rowVars, loop, permits, held, uploaded, clientVars, faults>>

\* Mutated form of Upload: a rejected upload passes for a good one.
IgnoresStatus(t) ==
    /\ stage[t] = "upload"
    /\ stage' = [stage EXCEPT ![t] = "report_ok"]
    /\ uploaded' \in {uploaded, uploaded \cup {jobs[held[t]].key}}
    /\ UNCHANGED <<leaseCovers, rowVars, loop, permits, held, tries, clientVars, faults>>

\* The gateway stores the track or not; the service sees success only if it did.
Upload(t) ==
    /\ stage[t] = "upload"
    /\ \/ /\ uploaded' = uploaded \cup {jobs[held[t]].key}
          /\ stage' = [stage EXCEPT ![t] = "report_ok"]
          /\ UNCHANGED tries
       \/ /\ uploaded' \in {uploaded, uploaded \cup {jobs[held[t]].key}}
          /\ TryFails(t)
    /\ UNCHANGED <<leaseCovers, rowVars, loop, permits, held, clientVars, faults>>

\* mark_dead, whatever the row's status or holder.
MarkedDead(r) == [r EXCEPT !.status = "dead", !.lease = "none"]

\* Mutated forms of Reported: a status that JobStatus cannot read back, and a
\* failure that goes to fail, for a retry.
ReportsError(t) ==
    IF stage[t] = "report_ok" THEN Queue!Completed(jobs[held[t]])
    ELSE [jobs[held[t]] EXCEPT !.status = "error", !.lease = "none"]
ReportsFailed(t) ==
    IF stage[t] = "report_ok" THEN Queue!Completed(jobs[held[t]])
    ELSE [jobs[held[t]] EXCEPT !.status = "failed", !.lease = "none"]

Reported(t) ==
    IF stage[t] = "report_ok" THEN Queue!Completed(jobs[held[t]]) ELSE MarkedDead(jobs[held[t]])

\* The coroutine ends: finally: semaphore.release().
TaskEnds(t) ==
    /\ Release
    /\ held' = [held EXCEPT ![t] = NoJob]
    /\ stage' = [stage EXCEPT ![t] = "idle"]
    /\ tries' = [tries EXCEPT ![t] = 0]

Report(t) ==
    /\ stage[t] \in {"report_ok", "report_error"}
    /\ jobs' = [jobs EXCEPT ![held[t]] = Reported(t)]
    /\ TaskEnds(t)
    /\ UNCHANGED <<leaseCovers, loop, uploaded, clientVars, faults>>

\* _report_job swallows every error and looks at no status.
ReportLost(t) ==
    /\ stage[t] \in {"report_ok", "report_error"} /\ Fault
    /\ TaskEnds(t)
    /\ UNCHANGED <<leaseCovers, rowVars, loop, uploaded, clientVars>>
-----------------------------------------------------------------------------
\* The service's pod dies and starts again; all it knows is lost.
Crash ==
    /\ \E t \in Tasks : ~Idle(t)
    /\ Fault
    /\ loop' = "acquire"
    /\ permits' = Permits
    /\ held' = [t \in Tasks |-> NoJob]
    /\ stage' = [t \in Tasks |-> "idle"]
    /\ tries' = [t \in Tasks |-> 0]
    /\ UNCHANGED <<leaseCovers, rowVars, uploaded, clientVars>>

LeaseExpires(id) ==
    /\ jobs[id].lease = "live"
    /\ leaseCovers => \A t \in Tasks : held[t] # id
    /\ jobs' = [jobs EXCEPT ![id].lease = "expired"]
    /\ UNCHANGED <<leaseCovers, serviceVars, uploaded, clientVars, faults>>

Claim == Acquire \/ ClaimNothing \/ \E t \in Tasks : ClaimJob(t)
Work(t) == Download(t) \/ Upload(t) \/ Report(t)

Next ==
    \/ \E c \in Clients, u \in Urls : Submit(c, u)
    \/ \E c \in Clients : Poll(c) \/ GiveUp(c)
    \/ Claim
    \/ ClaimLost
    \/ \E t \in Tasks : Work(t) \/ ReportLost(t)
    \/ Crash
    \/ \E id \in JobIds : LeaseExpires(id)

Spec == Init /\ [][Next]_vars

\* The loop polls for ever, a task runs to its end, time passes, and a client
\* that waits polls again.
Fairness ==
    /\ WF_vars(Claim)
    /\ \A t \in Tasks : WF_vars(Work(t))
    /\ \A id \in JobIds : WF_vars(LeaseExpires(id))
    /\ \A c \in Clients : WF_vars(Poll(c))

FairSpec == Spec /\ Fairness
-----------------------------------------------------------------------------
(* Properties *)

TypeOK ==
    /\ leaseCovers \in BOOLEAN
    /\ jobs \in [JobIds -> Queue!Row \cup {Queue!Absent}]
    /\ loop \in {"acquire", "post"}
    /\ permits \in 0..Permits
    /\ held \in [Tasks -> JobIds \cup {NoJob}]
    /\ stage \in [Tasks -> Stages]
    /\ \A t \in Tasks : Idle(t) <=> held[t] = NoJob
    /\ tries \in [Tasks -> 0..MaxRetries]
    /\ uploaded \subseteq Urls
    /\ polled \in [Clients -> JobIds \cup {NoJob}]
    /\ told \in [Clients -> {"none", "waiting", "ok", "failed"}]
    /\ faults \in 0..MaxFaults

\* No path of the claim loop or of handle_job loses or invents a permit, so
\* never more than Permits downloads run at once.
PermitsConserved ==
    permits + Cardinality({t \in Tasks : ~Idle(t)}) + (IF loop = "post" THEN 1 ELSE 0)
        = Permits

\* A job that says succeeded, or a client that was told so, has its track,
\* even when leases run out and several tasks work on one row.
SuccessIsUploaded ==
    /\ \A id \in JobIds : jobs[id].status = "succeeded" => jobs[id].key \in uploaded
    /\ \A c \in Clients : told[c] = "ok" => jobs[polled[c]].key \in uploaded

\* No URL is downloaded by two tasks at a time, through reclaims, repeated
\* submissions and lost claims, if each claim ends within its lease.
OneTaskPerUrl ==
    leaseCovers =>
        \A s, t \in Tasks :
            held[s] # NoJob /\ held[t] # NoJob /\ s # t
                => jobs[held[s]].key # jobs[held[t]].key

\* What a client was told stays what the row says, under the same condition:
\* no late report changes a finished job (report_job checks no status).
AnswerStands ==
    leaseCovers =>
        \A c \in Clients :
            /\ told[c] = "ok" => jobs[polled[c]].status = "succeeded"
            /\ told[c] = "failed" => jobs[polled[c]].status = "dead"

\* A lease that covers the work is all the exclusion there is, and it is enough.
LeaseIsEnough == OneTaskPerUrl /\ AnswerStands

\* A client that goes on polling (the playlist client has no deadline) gets an
\* answer, although claims, answers, reports and pods are lost on the way.
ClientIsAnswered ==
    \A c \in Clients : told[c] = "waiting" ~> told[c] # "waiting"

\* What completed_ytdlp builds on: succeeded is a terminal state.
SucceededIsTerminal ==
    [][\A id \in JobIds :
        jobs[id].status = "succeeded" => jobs'[id].status = "succeeded"]_vars
=============================================================================
