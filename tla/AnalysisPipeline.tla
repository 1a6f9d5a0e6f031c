-------------------------- MODULE AnalysisPipeline --------------------------
(***************************************************************************)
(* The path of a content hash from "analyze this" to "analyzed": the       *)
(* gateway's /analyze handler, the job queue (JobQueue, extended here),    *)
(* the analysis-worker loop and the content-addressable artifact store.    *)
(*                                                                         *)
(* A bundle is one file, analysis.json, and a marker.  The file is shared  *)
(* by everyone who writes that hash and its bytes are a function of the    *)
(* hash, so its content is the set of chunks that are in place; creating   *)
(* it truncates it.  Presence of the marker is the system's definition of  *)
(* "analyzed".                                                             *)
(***************************************************************************)
EXTENDS JobQueue

VARIABLES
    file,     \* file[k]: chunks of analysis.json in place
    synced,   \* synced[k]: chunks that survive the loss of a node
    marker,   \* marker[k]: .complete exists
    step,     \* step[c]: where worker c is in the job it holds
    batch,    \* hashes of the last batch row, {} before the first
    todo,     \* hashes the running /analyze request has not looked at yet
    checked,  \* hash found unanalyzed and about to be enqueued, or NoKey
    aborted   \* history: the last /analyze request ended with an error

storeVars == <<file, synced, marker>>
gatewayVars == <<batch, todo, checked, aborted>>
pvars == <<vars, storeVars, step, gatewayVars>>
-----------------------------------------------------------------------------
Chunks == {"head", "tail"}

Steps == {"idle", "exists", "decode", "put", "create", "head", "tail",
          "sync", "mark", "ok", "error"}

\* The hash worker c is analyzing.
KeyOf(c) == jobs[held[c]].key

DeadRows == {id \in JobIds : jobs[id].status = "dead"}

PInit ==
    /\ Init
    /\ file = [k \in Keys |-> {}]
    /\ synced = [k \in Keys |-> {}]
    /\ marker = [k \in Keys |-> FALSE]
    /\ step = [c \in Consumers |-> "idle"]
    /\ batch = {}
    /\ todo = {}
    /\ checked = NoKey
    /\ aborted = FALSE
-----------------------------------------------------------------------------
(* The gateway: POST /analyze. *)

\* The batch row is written first, for all hashes of the playlists.
AnalyzeRequest(S) ==
    /\ todo = {}
    /\ checked = NoKey
    /\ batch' = S
    /\ todo' = S
    /\ aborted' = FALSE
    /\ UNCHANGED <<vars, storeVars, step, checked>>

\* One turn of the loop, first the look at the store ...
AnalyzeCheck(k) ==
    /\ checked = NoKey
    /\ k \in todo
    /\ todo' = todo \ {k}
    /\ checked' = IF marker[k] THEN NoKey ELSE k
    /\ UNCHANGED <<vars, storeVars, step, batch, aborted>>

\* ... then the enqueue, which may find the world changed.
AnalyzeEnqueue ==
    /\ checked # NoKey
    /\ Enqueue(checked)
    /\ checked' = NoKey
    /\ UNCHANGED <<storeVars, step, batch, todo, aborted>>

\* Mutated form of AnalyzeAbort: the error of one enqueue is dropped.
AbortUnnoticed ==
    /\ checked # NoKey
    /\ checked' = NoKey
    /\ UNCHANGED <<vars, storeVars, step, batch, todo, aborted>>

\* A database error ends the request with the rest of the hashes not enqueued.
AnalyzeAbort ==
    /\ todo # {} \/ checked # NoKey
    /\ todo' = {}
    /\ checked' = NoKey
    /\ aborted' = TRUE
    /\ UNCHANGED <<vars, storeVars, step, batch>>
-----------------------------------------------------------------------------
(* The worker: Worker::run, process, analyze and ArtifactStore::put. *)

PClaim(c) ==
    /\ Claim(c)
    /\ step' = [step EXCEPT ![c] = IF held'[c] = NoJob THEN "idle" ELSE "exists"]
    /\ UNCHANGED <<storeVars, gatewayVars>>

Goto(c, from, to) == step[c] = from /\ step' = [step EXCEPT ![c] = to]

\* analyze returns at once if the bundle is there.
CheckExists(c) ==
    /\ Goto(c, "exists", IF marker[KeyOf(c)] THEN "ok" ELSE "decode")
    /\ UNCHANGED <<vars, storeVars, gatewayVars>>

\* Opening the raw file, decoding, analysing and serialising may fail or panic.
Decode(c) ==
    /\ Goto(c, "decode", "put") \/ Goto(c, "decode", "error")
    /\ UNCHANGED <<vars, storeVars, gatewayVars>>

\* put looks again before it writes.
PutCheck(c) ==
    /\ Goto(c, "put", IF marker[KeyOf(c)] THEN "ok" ELSE "create")
    /\ UNCHANGED <<vars, storeVars, gatewayVars>>

\* File::create truncates whatever is there.
CreateFile(c) ==
    /\ Goto(c, "create", "head")
    /\ file' = [file EXCEPT ![KeyOf(c)] = {}]
    /\ synced' = [synced EXCEPT ![KeyOf(c)] = {}]
    /\ UNCHANGED <<vars, marker, gatewayVars>>

WriteChunk(c) ==
    /\ Goto(c, "head", "tail") \/ Goto(c, "tail", "sync")
    /\ file' = [file EXCEPT ![KeyOf(c)] = @ \cup {step[c]}]
    /\ UNCHANGED <<vars, synced, marker, gatewayVars>>

\* Mutated form of SyncFile: the data is not flushed before the marker.
SkipSync(c) ==
    /\ Goto(c, "sync", "mark")
    /\ UNCHANGED <<vars, storeVars, gatewayVars>>

SyncFile(c) ==
    /\ Goto(c, "sync", "mark")
    /\ synced' = [synced EXCEPT ![KeyOf(c)] = file[KeyOf(c)]]
    /\ UNCHANGED <<vars, file, marker, gatewayVars>>

\* The marker is created, then flushed; an error of the flush fails the job.
WriteMarker(c) ==
    /\ Goto(c, "mark", "ok") \/ Goto(c, "mark", "error")
    /\ marker' = [marker EXCEPT ![KeyOf(c)] = TRUE]
    /\ UNCHANGED <<vars, file, synced, gatewayVars>>

\* Any file operation of put may fail.
PutError(c) ==
    /\ \E s \in {"create", "head", "tail", "sync", "mark"} : Goto(c, s, "error")
    /\ UNCHANGED <<vars, storeVars, gatewayVars>>

\* Mutated form of ReportOutcome: a failed analysis is reported as done.
ReportsAlwaysOk(c) ==
    /\ step[c] \in {"ok", "error"} /\ Complete(c)
    /\ step' = [step EXCEPT ![c] = "idle"]
    /\ UNCHANGED <<storeVars, gatewayVars>>

ReportOutcome(c) ==
    /\ \/ step[c] = "ok" /\ Complete(c)
       \/ step[c] = "error" /\ Fail(c)
    /\ step' = [step EXCEPT ![c] = "idle"]
    /\ UNCHANGED <<storeVars, gatewayVars>>

\* Mutated form of OutcomeLost: the worker goes on with a job it gave up.
StaysInJob(c) ==
    /\ step[c] \in {"ok", "error"}
    /\ ReportLost(c)
    /\ UNCHANGED <<storeVars, step, gatewayVars>>

OutcomeLost(c) ==
    /\ step[c] \in {"ok", "error"}
    /\ ReportLost(c)
    /\ step' = [step EXCEPT ![c] = "idle"]
    /\ UNCHANGED <<storeVars, gatewayVars>>

\* What worker c has written and not flushed yet.
Unflushed(c) ==
    {ch \in Chunks : step[c] = "sync" \/ (step[c] = "tail" /\ ch = "head")}

\* The worker dies; if its node goes too, some of what it wrote and did not
\* flush is gone.
PCrash(c) ==
    /\ Crash(c)
    /\ step' = [step EXCEPT ![c] = "idle"]
    /\ \E lost \in SUBSET Unflushed(c) :
          file' = [k \in Keys |->
              IF held[c] # NoJob /\ k = KeyOf(c) THEN file[k] \ (lost \ synced[k])
                                                ELSE file[k]]
    /\ UNCHANGED <<synced, marker, gatewayVars>>

PLeaseExpires(id) ==
    /\ LeaseExpires(id)
    /\ UNCHANGED <<storeVars, step, gatewayVars>>

Put(c) ==
    \/ PutCheck(c)
    \/ CreateFile(c)
    \/ WriteChunk(c)
    \/ SyncFile(c)
    \/ WriteMarker(c)
    \/ PutError(c)

Work(c) == CheckExists(c) \/ Decode(c) \/ Put(c) \/ ReportOutcome(c)

PNext ==
    \/ \E S \in (SUBSET Keys) \ {{}} : AnalyzeRequest(S)
    \/ \E k \in Keys : AnalyzeCheck(k)
    \/ AnalyzeEnqueue
    \/ AnalyzeAbort
    \/ \E c \in Consumers : PClaim(c) \/ Work(c) \/ OutcomeLost(c) \/ PCrash(c)
    \/ \E id \in JobIds : PLeaseExpires(id)

PSpec == PInit /\ [][PNext]_pvars

\* The worker loop runs, the job it holds goes on, and time passes.
PFairness ==
    /\ \A c \in Consumers : WF_pvars(PClaim(c)) /\ WF_pvars(Work(c))
    /\ \A id \in JobIds : WF_pvars(PLeaseExpires(id))

PFairSpec == PSpec /\ PFairness
-----------------------------------------------------------------------------
(* Properties *)

PTypeOK ==
    /\ TypeOK
    /\ file \in [Keys -> SUBSET Chunks]
    /\ synced \in [Keys -> SUBSET Chunks]
    /\ marker \in [Keys -> BOOLEAN]
    /\ step \in [Consumers -> Steps]
    /\ \A c \in Consumers : step[c] = "idle" <=> held[c] = NoJob
    /\ batch \in SUBSET Keys
    /\ todo \in SUBSET Keys
    /\ checked \in Keys \cup {NoKey}
    /\ aborted \in BOOLEAN

\* What artifact.rs promises of exists: a marked bundle is fully written and
\* durable, whatever workers, retries and crashes did to it.
MarkedIsComplete ==
    \A k \in Keys : marker[k] => file[k] = Chunks /\ synced[k] = Chunks

\* A job only succeeds once the bundle of its hash is there, so the queue and
\* the store never disagree in the direction that loses work.
SucceededIsAnalyzed ==
    \A id \in JobIds : jobs[id].status = "succeeded" => marker[jobs[id].key]

\* An /analyze request that was answered has left no hash of its batch
\* without a bundle or a job, although the batch row is written first and any
\* statement after it may fail: only an error answer leaves holes.
BatchIsQueued ==
    todo = {} /\ checked = NoKey /\ ~aborted =>
        \A k \in batch : marker[k] \/ \E id \in JobIds : jobs[id].key = k

\* A hash whose bundle is there is never written again, not even by a worker
\* that was given the same hash twice.
NoRewrite ==
    [][\A k \in Keys : marker[k] => file'[k] = file[k]]_pvars

Analyzed(k) == marker[k]
ParkedDead(k) == \E id \in DeadRows : jobs[id].key = k

\* A hash with a job in the queue ends up analyzed or dead, unless the queue is
\* wedged: crashes, lost reports and retries only delay it.
HashSettles ==
    \A k \in Keys :
        (\E id \in JobIds : jobs[id].key = k /\ Unfinished(id))
            ~> (Analyzed(k) \/ ParkedDead(k) \/ Wedged)

\* batch_progress: done counts bundles, failed counts dead ROWS of the hashes.
Done == Cardinality({k \in batch : marker[k]})
DeadCount == Cardinality({id \in DeadRows : jobs[id].key \in batch})
BatchComplete == batch # {} /\ Done + DeadCount >= Cardinality(batch)

\* A batch that reports complete has settled every one of its hashes.
CompleteIsSettled ==
    BatchComplete => \A k \in batch : Analyzed(k) \/ ParkedDead(k)
=============================================================================
