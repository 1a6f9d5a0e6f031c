---------------------------- MODULE YtDlpProofs ----------------------------
(***************************************************************************)
(* Theorems about YtDlpIngest, for any number of URLs, clients, tasks,     *)
(* permits, retries, rows and faults.  YInv says besides the properties    *)
(* what exclusion rests on: a URL has one active row and no row is ever    *)
(* "failed" (RowsOK), and a task's row is running under a live lease of    *)
(* its own (HeldOK); and what truth rests on: a task reports success only  *)
(* with its track in place (UploadedOK), and a client waits for a row that *)
(* is there (PolledOK).                                                    *)
(***************************************************************************)
EXTENDS YtDlpIngest, FiniteSetTheorems, TLAPS

Busy == {t \in Tasks : ~Idle(t)}

\* The tasks at work can be counted, however many may be started.
PermitsOK == IsFiniteSet(Busy) /\ PermitsConserved

\* The index keeps one active row per URL, and mark_dead leaves no row failed.
RowsOK ==
    /\ \A id \in JobIds : jobs[id].status # "failed"
    /\ \A i, j \in JobIds :
          /\ jobs[i].key = jobs[j].key
          /\ jobs[i].status \in {"pending", "running"}
          /\ jobs[j].status \in {"pending", "running"}
          => i = j

HeldExists == \A t \in Tasks : held[t] # NoJob => jobs[held[t]] # Queue!Absent

\* With leases that cover the work a task is alone with its row.
HeldOK ==
    leaseCovers =>
        \A t \in Tasks : held[t] # NoJob =>
            /\ jobs[held[t]].status = "running"
            /\ jobs[held[t]].lease = "live"
            /\ \A s \in Tasks \ {t} : held[s] # held[t]

UploadedOK ==
    /\ SuccessIsUploaded
    /\ \A t \in Tasks : stage[t] = "report_ok" => jobs[held[t]].key \in uploaded

PolledOK ==
    \A c \in Clients :
        told[c] # "none" => polled[c] # NoJob /\ jobs[polled[c]] # Queue!Absent

YInv ==
    /\ TypeOK
    /\ PermitsOK
    /\ RowsOK
    /\ HeldExists
    /\ HeldOK
    /\ UploadedOK
    /\ PolledOK
    /\ AnswerStands
-----------------------------------------------------------------------------
USE MaxRowsAssumption, MaxRetriesAssumption, YtFaultsAssumption, PermitsAssumption
    DEF JobIds, NoJob, Stages, Idle

Table == [JobIds -> Queue!Row \cup {Queue!Absent}]
OnePost == IF loop = "post" THEN 1 ELSE 0

LEMMA PermitsSum ==
  PermitsConserved <=> permits + Cardinality(Busy) + OnePost = Permits
  BY DEF PermitsConserved, Busy, OnePost

\* What the statements write is a row, and Absent is none.
LEMMA RowWrites ==
  /\ Queue!Absent \notin Queue!Row
  /\ \A u \in Urls : Queue!NewRow(u) \in Queue!Row
  /\ \A r \in Queue!Row :
        /\ Queue!Claimed(r) \in Queue!Row
        /\ Queue!Completed(r) \in Queue!Row
        /\ MarkedDead(r) \in Queue!Row
        /\ [r EXCEPT !.lease = "expired"] \in Queue!Row
        /\ r.key \in Urls
  <1>1. Queue!Absent \notin Queue!Row
    BY DEF Queue!Row, Queue!Absent, Queue!Status
  <1>2. ASSUME NEW u \in Urls PROVE Queue!NewRow(u) \in Queue!Row
    BY DEF Queue!Row, Queue!NewRow, Queue!Status
  <1>3. ASSUME NEW r \in Queue!Row
        PROVE  /\ Queue!Claimed(r) \in Queue!Row
               /\ r.key \in Urls
    BY DEF Queue!Row, Queue!Claimed, Queue!Status
  <1>4. ASSUME NEW r \in Queue!Row
        PROVE  /\ Queue!Completed(r) \in Queue!Row
               /\ MarkedDead(r) \in Queue!Row
               /\ [r EXCEPT !.lease = "expired"] \in Queue!Row
    BY DEF Queue!Row, Queue!Completed, MarkedDead, Queue!Status
  <1> QED
    BY <1>1, <1>2, <1>3, <1>4

LEMMA Inserted ==
  ASSUME jobs \in Table, NEW id \in JobIds,
         Queue!Runnable(jobs[id]) \/ jobs[id].lease = "live" \/ jobs[id] # Queue!Absent
  PROVE  jobs[id] \in Queue!Row
  BY DEF Table, Queue!Absent, Queue!Runnable

LEMMA InitYInv == Init => YInv
  <1> SUFFICES ASSUME Init PROVE YInv
    OBVIOUS
  <1> USE DEF Init
  <1>1. TypeOK
    BY DEF TypeOK
  <1>2. PermitsOK
    <2>1. Busy = {}
      BY DEF Busy
    <2>2. IsFiniteSet(Busy) /\ Cardinality(Busy) = 0
      BY <2>1, FS_EmptySet
    <2> QED
      BY <2>2, PermitsSum DEF PermitsOK, OnePost
  <1>3. RowsOK /\ HeldExists /\ HeldOK /\ UploadedOK /\ PolledOK /\ AnswerStands
    BY DEF RowsOK, HeldExists, HeldOK, UploadedOK, SuccessIsUploaded, PolledOK, AnswerStands,
           Queue!Absent
  <1> QED
    BY <1>1, <1>2, <1>3 DEF YInv
-----------------------------------------------------------------------------
(* Types and permits.                                                      *)

\* A task at work and a claim under way each have a permit.
LEMMA PermitsOut ==
  ASSUME YInv
  PROVE  /\ permits \in 0..Permits
         /\ Cardinality(Busy) \in Nat
         /\ loop = "post" => permits < Permits
         /\ \A t \in Tasks : ~Idle(t) => permits < Permits
  <1>1. IsFiniteSet(Busy) /\ Cardinality(Busy) \in Nat
    BY FS_CardinalityType DEF YInv, PermitsOK
  <1>2. permits \in 0..Permits /\ permits + Cardinality(Busy) + OnePost = Permits
    BY PermitsSum DEF YInv, TypeOK, PermitsOK
  <1>3. ASSUME NEW t \in Tasks, ~Idle(t) PROVE Cardinality(Busy) # 0
    <2>1. Busy # {}
      BY <1>3 DEF Busy
    <2> QED
      BY <2>1, <1>1, FS_EmptySet
  <1> QED
    BY <1>1, <1>2, <1>3 DEF OnePost

LEMMA TableKept ==
  ASSUME YInv, [Next]_vars
  PROVE  jobs' \in Table
  <1>0. jobs \in Table /\ held \in [Tasks -> JobIds \cup {NoJob}]
        /\ \A t \in Tasks : Idle(t) <=> held[t] = NoJob
    BY DEF YInv, TypeOK, Table
  <1>1. ASSUME NEW id \in JobIds, NEW r \in Queue!Row, jobs' = [jobs EXCEPT ![id] = r]
        PROVE  jobs' \in Table
    BY <1>0, <1>1 DEF Table
  <1>2. CASE UNCHANGED jobs
    BY <1>0, <1>2
  <1>3. ASSUME NEW c \in Clients, NEW u \in Urls, Submit(c, u) PROVE jobs' \in Table
    BY <1>1, <1>2, <1>3, RowWrites DEF Submit
  <1>4. CASE ClaimLost \/ \E t \in Tasks : ClaimJob(t)
    <2>1. CASE \E id \in JobIds : Oldest(id) /\ jobs' = [jobs EXCEPT ![id] = Queue!Claimed(@)]
      BY <1>0, <1>1, <2>1, Inserted, RowWrites DEF Oldest
    <2> QED
      BY <1>2, <1>4, <2>1 DEF ClaimLost, ClaimJob
  <1>5. ASSUME NEW t \in Tasks, Report(t) PROVE jobs' \in Table
    <2>1. held[t] \in JobIds /\ jobs[held[t]] \in Queue!Row
      BY <1>0, <1>5, Inserted DEF Report, YInv, HeldExists
    <2> QED
      BY <1>1, <1>5, <2>1, RowWrites DEF Report, Reported
  <1>6. ASSUME NEW id \in JobIds, LeaseExpires(id) PROVE jobs' \in Table
    <2>1. jobs[id] \in Queue!Row /\ jobs' = [jobs EXCEPT ![id] = [jobs[id] EXCEPT !.lease = "expired"]]
      BY <1>0, <1>6, Inserted DEF LeaseExpires
    <2> QED
      BY <1>1, <2>1, RowWrites
  <1> QED
    BY <1>2, <1>3, <1>4, <1>5, <1>6
    DEF Next, Claim, Work, vars, rowVars, Poll, GiveUp, Acquire, ClaimNothing, Download, Upload,
        ReportLost, Crash

LEMMA TypesKept ==
  ASSUME YInv, [Next]_vars
  PROVE  TypeOK'
  <1>0. TypeOK /\ jobs' \in Table /\ jobs \in Table
    BY TableKept DEF YInv, TypeOK, Table
  <1>1. CASE UNCHANGED vars
    BY <1>0, <1>1 DEF TypeOK, vars, rowVars, serviceVars, clientVars
  <1> USE DEF TypeOK, Table
  <1>2. ASSUME NEW c \in Clients, NEW u \in Urls, Submit(c, u) PROVE TypeOK'
    <2>1. polled' \in [Clients -> JobIds \cup {NoJob}] /\ told' = [told EXCEPT ![c] = "waiting"]
      BY <1>0, <1>2 DEF Submit
    <2> QED
      BY <1>0, <1>2, <2>1 DEF Submit, serviceVars
  <1>3. ASSUME NEW c \in Clients, Poll(c) \/ GiveUp(c) PROVE TypeOK'
    <2>1. CASE Poll(c)
      BY <1>0, <2>1 DEF Poll, rowVars, serviceVars
    <2>2. CASE GiveUp(c)
      BY <1>0, <2>2 DEF GiveUp, Fault, rowVars, serviceVars
    <2> QED
      BY <1>3, <2>1, <2>2
  <1>4. CASE Acquire
    BY <1>0, <1>4 DEF Acquire, rowVars, clientVars
  <1>5. CASE ClaimNothing \/ ClaimLost
    <2>1. permits' \in 0..Permits
      BY <1>0, <1>5, PermitsOut DEF ClaimNothing, ClaimLost, Release
    <2> QED
      BY <1>0, <1>5, <2>1 DEF ClaimNothing, ClaimLost, Fault, rowVars, clientVars
  <1>6. ASSUME NEW t \in Tasks, ClaimJob(t) PROVE TypeOK'
    BY <1>0, <1>6 DEF ClaimJob, clientVars
  <1>7. ASSUME NEW t \in Tasks, Download(t) \/ Upload(t) PROVE TypeOK'
    <2>1. stage[t] # "idle" /\ stage[t] # "report_ok"
      BY <1>7 DEF Download, Upload
    <2>2. jobs[held[t]].key \in Urls
      BY <1>0, <2>1, Inserted, RowWrites DEF YInv, HeldExists
    <2>3. uploaded' \subseteq Urls
      BY <1>0, <1>7, <2>2 DEF Download, Upload
    <2>4. stage' \in [Tasks -> Stages] /\ \A s \in Tasks : (stage'[s] = "idle" <=> stage[s] = "idle")
      BY <1>0, <1>7, <2>1 DEF Download, Upload, TryFails
    <2>5. tries' \in [Tasks -> 0..MaxRetries]
      <3>1. CASE UNCHANGED tries
        BY <1>0, <3>1
      <3>2. CASE tries[t] < MaxRetries /\ tries' = [tries EXCEPT ![t] = @ + 1]
        <4>1. tries[t] + 1 \in 0..MaxRetries
          BY <1>0, <3>2
        <4> QED
          BY <1>0, <3>2, <4>1
      <3> QED
        BY <1>7, <3>1, <3>2 DEF Download, Upload, TryFails
    <2>6. UNCHANGED <<leaseCovers, loop, permits, held, polled, told, faults>>
      BY <1>7 DEF Download, Upload, clientVars
    <2> QED
      BY <1>0, <2>3, <2>4, <2>5, <2>6
  <1>8. ASSUME NEW t \in Tasks, Report(t) \/ ReportLost(t) PROVE TypeOK'
    <2>1. permits' \in 0..Permits
      BY <1>0, <1>8, PermitsOut DEF Report, ReportLost, TaskEnds, Release
    <2>2. /\ held' = [held EXCEPT ![t] = NoJob]
          /\ stage' = [stage EXCEPT ![t] = "idle"]
          /\ tries' = [tries EXCEPT ![t] = 0]
          /\ faults' \in 0..MaxFaults
          /\ UNCHANGED <<leaseCovers, loop, uploaded, polled, told>>
      BY <1>0, <1>8 DEF Report, ReportLost, TaskEnds, Fault, clientVars
    <2> QED
      BY <1>0, <2>1, <2>2
  <1>10. CASE Crash
    BY <1>0, <1>10 DEF Crash, Fault, rowVars, clientVars
  <1>11. ASSUME NEW id \in JobIds, LeaseExpires(id) PROVE TypeOK'
    BY <1>0, <1>11 DEF LeaseExpires, serviceVars, clientVars
  <1> QED
    BY <1>1, <1>2, <1>3, <1>4, <1>5, <1>6, <1>7, <1>8, <1>10, <1>11 DEF Next, Claim, Work

\* The balance of loop and tasks decides.
LEMMA Balanced ==
  ASSUME TypeOK, TypeOK', PermitsOK, IsFiniteSet(Busy'),
         permits' + Cardinality(Busy') + OnePost' = permits + Cardinality(Busy) + OnePost
  PROVE  PermitsOK'
  <1>1. permits' + Cardinality(Busy') + OnePost' = Permits
    BY PermitsSum DEF PermitsOK
  <1> QED
    BY <1>1 DEF PermitsOK, PermitsConserved, Busy, OnePost

LEMMA PermitsKept ==
  ASSUME YInv, [Next]_vars
  PROVE  PermitsOK'
  <1>0. TypeOK /\ PermitsOK /\ TypeOK'
    BY TypesKept DEF YInv
  <1>1. IsFiniteSet(Busy) /\ Cardinality(Busy) \in Nat /\ permits \in Nat /\ OnePost \in {0, 1}
    BY <1>0, FS_CardinalityType DEF PermitsOK, TypeOK, OnePost
  <1>2. CASE UNCHANGED <<loop, permits>> /\ Busy' = Busy
    BY <1>0, <1>1, <1>2, Balanced DEF OnePost
  <1>3. CASE UNCHANGED serviceVars
    BY <1>2, <1>3 DEF serviceVars, Busy
  <1>4. CASE Acquire \/ ClaimNothing \/ ClaimLost
    <2>1. Busy' = Busy
      BY <1>4 DEF Acquire, ClaimNothing, ClaimLost, Busy
    <2>2. CASE Acquire
      <3>1. permits' = permits - 1 /\ OnePost = 0 /\ OnePost' = 1
        BY <2>2 DEF Acquire, OnePost
      <3> QED
        BY <1>0, <1>1, <2>1, <3>1, Balanced
    <2>3. CASE ClaimNothing \/ ClaimLost
      <3>1. permits' = permits + 1 /\ OnePost = 1 /\ OnePost' = 0
        BY <2>3 DEF ClaimNothing, ClaimLost, Release, OnePost
      <3> QED
        BY <1>0, <1>1, <2>1, <3>1, Balanced
    <2> QED
      BY <1>4, <2>2, <2>3
  <1>5. ASSUME NEW t \in Tasks, ClaimJob(t) PROVE PermitsOK'
    <2>1. t \notin Busy /\ Busy' = Busy \cup {t}
      BY <1>0, <1>5 DEF ClaimJob, Busy, TypeOK
    <2>2. IsFiniteSet(Busy') /\ Cardinality(Busy') = Cardinality(Busy) + 1
      BY <1>1, <2>1, FS_AddElement
    <2>3. permits' = permits /\ OnePost = 1 /\ OnePost' = 0
      BY <1>5 DEF ClaimJob, OnePost
    <2> QED
      BY <1>0, <1>1, <2>2, <2>3, Balanced
  <1>6. ASSUME NEW t \in Tasks, Download(t) \/ Upload(t) PROVE PermitsOK'
    <2>1. Busy' = Busy
      BY <1>0, <1>6 DEF Download, Upload, TryFails, Busy, TypeOK
    <2> QED
      BY <1>2, <1>6, <2>1 DEF Download, Upload
  <1>7. ASSUME NEW t \in Tasks, Report(t) \/ ReportLost(t) PROVE PermitsOK'
    <2>1. t \in Busy /\ Busy' = Busy \ {t}
      BY <1>0, <1>7 DEF Report, ReportLost, TaskEnds, Busy, TypeOK
    <2>2. IsFiniteSet(Busy') /\ Cardinality(Busy') = Cardinality(Busy) - 1
      BY <1>1, <2>1, FS_RemoveElement
    <2>3. permits' = permits + 1 /\ OnePost' = OnePost
      BY <1>7 DEF Report, ReportLost, TaskEnds, Release, OnePost
    <2> QED
      BY <1>0, <1>1, <2>2, <2>3, Balanced
  <1>8. CASE Crash
    <2>1. Busy' = {} /\ permits' = Permits /\ OnePost' = 0
      BY <1>0, <1>8 DEF Crash, Busy, TypeOK, OnePost
    <2>2. IsFiniteSet(Busy') /\ Cardinality(Busy') = 0
      BY <2>1, FS_EmptySet
    <2>3. permits + Cardinality(Busy) + OnePost = Permits
      BY <1>0, PermitsSum DEF PermitsOK
    <2> QED
      BY <1>0, <1>1, <2>1, <2>2, <2>3, Balanced
  <1> QED
    BY <1>3, <1>4, <1>5, <1>6, <1>7, <1>8
    DEF Next, Claim, Work, vars, Submit, Poll, GiveUp, LeaseExpires
-----------------------------------------------------------------------------
(* Rows.                                                                   *)

\* The row writes a step can make.
Inserts(id, u) ==
    /\ Queue!ActiveRows(u) = {} /\ jobs[id] = Queue!Absent
    /\ jobs' = [jobs EXCEPT ![id] = Queue!NewRow(u)]
Claims(id) ==
    Queue!Runnable(jobs[id]) /\ jobs' = [jobs EXCEPT ![id] = Queue!Claimed(@)]
Reports(t) ==
    /\ stage[t] \in {"report_ok", "report_error"} /\ held[t] \in JobIds
    /\ jobs' = [jobs EXCEPT ![held[t]] = Reported(t)]
    /\ held'[t] = NoJob
Expires(id) ==
    /\ jobs[id].lease = "live"
    /\ leaseCovers => \A t \in Tasks : held[t] # id
    /\ jobs' = [jobs EXCEPT ![id].lease = "expired"]

LEMMA RowSteps ==
  ASSUME YInv, [Next]_vars
  PROVE  \/ UNCHANGED jobs
         \/ \E id \in JobIds, u \in Urls : Inserts(id, u)
         \/ \E id \in JobIds : Claims(id)
         \/ \E t \in Tasks : Reports(t)
         \/ \E id \in JobIds : Expires(id)
  <1>1. ASSUME NEW t \in Tasks, Report(t) PROVE Reports(t)
    BY <1>1 DEF Report, Reports, TaskEnds, YInv, TypeOK
  <1>2. ASSUME NEW c \in Clients, NEW u \in Urls, Submit(c, u)
        PROVE  UNCHANGED jobs \/ \E id \in JobIds : Inserts(id, u)
    BY <1>2 DEF Submit, Inserts
  <1>3. ASSUME ClaimLost \/ \E t \in Tasks : ClaimJob(t)
        PROVE  UNCHANGED jobs \/ \E id \in JobIds : Claims(id)
    BY <1>3 DEF ClaimLost, ClaimJob, Oldest, Claims
  <1>4. ASSUME NEW id \in JobIds, LeaseExpires(id) PROVE Expires(id)
    BY <1>4 DEF LeaseExpires, Expires
  <1> QED
    BY <1>1, <1>2, <1>3, <1>4 DEF Next, Claim, Work, vars, rowVars, Poll, GiveUp, Acquire,
        ClaimNothing, Download, Upload, ReportLost, Crash

\* A row that was inserted keeps its URL and stays.
LEMMA KeysStay ==
  ASSUME YInv, [Next]_vars, NEW id \in JobIds, jobs[id] # Queue!Absent
  PROVE  jobs'[id] # Queue!Absent /\ jobs'[id].key = jobs[id].key
  <1>0. jobs \in Table /\ jobs' \in Table /\ jobs[id] \in Queue!Row
    BY TableKept, Inserted DEF YInv, TypeOK, Table
  <1>1. jobs'[id].key = jobs[id].key /\ (jobs'[id] = jobs[id] \/ jobs'[id] \in Queue!Row)
    <2>1. ASSUME NEW i \in JobIds, jobs[i] \in Queue!Row
          PROVE  /\ Queue!Claimed(jobs[i]).key = jobs[i].key
                 /\ Queue!Completed(jobs[i]).key = jobs[i].key
                 /\ MarkedDead(jobs[i]).key = jobs[i].key
                 /\ [jobs[i] EXCEPT !.lease = "expired"].key = jobs[i].key
      BY <2>1 DEF Queue!Row, Queue!Claimed, Queue!Completed, MarkedDead
    <2>2. CASE UNCHANGED jobs
      BY <2>2
    <2>3. ASSUME NEW i \in JobIds, NEW u \in Urls, Inserts(i, u) PROVE jobs'[id] = jobs[id]
      BY <2>3, <1>0 DEF Table, Inserts
    <2>4. ASSUME NEW i \in JobIds, Claims(i)
          PROVE  jobs'[id].key = jobs[id].key /\ (jobs'[id] = jobs[id] \/ jobs'[id] \in Queue!Row)
      BY <2>1, <2>4, <1>0, RowWrites DEF Table, Claims
    <2>5. ASSUME NEW t \in Tasks, Reports(t)
          PROVE  jobs'[id].key = jobs[id].key /\ (jobs'[id] = jobs[id] \/ jobs'[id] \in Queue!Row)
      BY <2>1, <2>5, <1>0, RowWrites DEF Table, Reported, Reports
    <2>6. ASSUME NEW i \in JobIds, Expires(i)
          PROVE  jobs'[id].key = jobs[id].key /\ (jobs'[id] = jobs[id] \/ jobs'[id] \in Queue!Row)
      BY <2>1, <2>6, <1>0, RowWrites DEF Table, Expires
    <2> QED
      BY <2>2, <2>3, <2>4, <2>5, <2>6, RowSteps
  <1> QED
    BY <1>0, <1>1, RowWrites

\* With leases that cover the work only its holder can change a running row's
\* status, and nobody a finished row's.
LEMMA OnlyHolderWrites ==
  ASSUME YInv, [Next]_vars, leaseCovers, NEW id \in JobIds,
         \/ jobs[id].status \in {"succeeded", "dead"}
         \/ \E t \in Tasks : held[t] = id /\ held'[t] = id
  PROVE  /\ jobs'[id].status = jobs[id].status
         /\ jobs[id].lease = "live" /\ (\E t \in Tasks : held[t] = id) => jobs'[id].lease = "live"
  <1>0. jobs \in Table /\ jobs[id] \in Queue!Row /\ HeldOK
    BY Inserted DEF YInv, TypeOK, Table, HeldExists, Queue!Absent
  <1>1. ~Queue!Runnable(jobs[id])
    BY <1>0 DEF HeldOK, Queue!Runnable
  <1>2. CASE UNCHANGED jobs
    BY <1>2
  <1>3. ASSUME NEW i \in JobIds, NEW u \in Urls, Inserts(i, u) PROVE jobs'[id] = jobs[id]
    BY <1>3, <1>0, RowWrites DEF Table, Inserts
  <1>4. ASSUME NEW i \in JobIds, Claims(i) PROVE jobs'[id] = jobs[id]
    BY <1>4, <1>0, <1>1 DEF Table, Claims
  <1>5. ASSUME NEW t \in Tasks, Reports(t) PROVE jobs'[id] = jobs[id]
    <2>1. held[t] # id
      BY <1>0, <1>5 DEF HeldOK, YInv, Reports
    <2> QED
      BY <1>0, <1>5, <2>1 DEF Table, Reports
  <1>6. ASSUME NEW i \in JobIds, Expires(i)
        PROVE  /\ jobs'[id].status = jobs[id].status
               /\ (\E t \in Tasks : held[t] = id) => jobs'[id] = jobs[id]
    BY <1>0, <1>6 DEF Expires, Table, Queue!Row
  <1> QED
    BY <1>2, <1>3, <1>4, <1>5, <1>6, RowSteps

LEMMA RowsKept ==
  ASSUME YInv, [Next]_vars
  PROVE  RowsOK'
  <1>0. jobs \in Table /\ RowsOK
    BY DEF YInv, TypeOK, Table
  <1>1. ASSUME NEW id \in JobIds, Claims(id)
        PROVE  /\ jobs[id].status \in {"pending", "running"}
               /\ jobs'[id].status = "running" /\ jobs'[id].key = jobs[id].key
               /\ \A i \in JobIds \ {id} : jobs'[i] = jobs[i]
    BY <1>0, <1>1 DEF Claims, Queue!Runnable, Queue!Claimed, RowsOK, Table
  <1>2. ASSUME NEW t \in Tasks, Reports(t)
        PROVE  /\ jobs'[held[t]].status \in {"succeeded", "dead"}
               /\ \A i \in JobIds \ {held[t]} : jobs'[i] = jobs[i]
    <2>1. jobs[held[t]] \in Queue!Row
      BY <1>0, <1>2, Inserted DEF Reports, YInv, HeldExists
    <2>2. Reported(t).status \in {"succeeded", "dead"}
      BY <2>1 DEF Reported, Queue!Completed, MarkedDead, Queue!Row
    <2> QED
      BY <1>0, <1>2, <2>2 DEF Reports, Table
  <1>3. ASSUME NEW id \in JobIds, Expires(id)
        PROVE  \A i \in JobIds : jobs'[i].status = jobs[i].status /\ jobs'[i].key = jobs[i].key
    <2>1. jobs[id] \in Queue!Row
      BY <1>0, <1>3, Inserted DEF Expires
    <2> QED
      BY <1>0, <1>3, <2>1 DEF Expires, Queue!Row, Table
  <1>4. ASSUME NEW id \in JobIds, NEW u \in Urls, Inserts(id, u)
        PROVE  /\ \A i \in JobIds : jobs[i].key = u => jobs[i].status \notin {"pending", "running"}
               /\ jobs'[id].status = "pending" /\ jobs'[id].key = u
               /\ \A i \in JobIds \ {id} : jobs'[i] = jobs[i]
    BY <1>0, <1>4 DEF Inserts, Queue!ActiveRows, Queue!Active, Queue!JobIds, Queue!NewRow, Table
  <1>5. CASE UNCHANGED jobs
    BY <1>0, <1>5 DEF RowsOK
  <1>6. ASSUME NEW id \in JobIds, NEW u \in Urls, Inserts(id, u) PROVE RowsOK'
    <2>1. /\ \A i \in JobIds : jobs[i].key = u => jobs[i].status \notin {"pending", "running"}
          /\ jobs'[id].status = "pending" /\ jobs'[id].key = u
          /\ \A i \in JobIds \ {id} : jobs'[i] = jobs[i]
      BY <1>4, <1>6
    <2> QED
      BY <1>0, <2>1 DEF RowsOK
  <1>7. ASSUME NEW id \in JobIds, Claims(id) PROVE RowsOK'
    <2>1. /\ jobs[id].status \in {"pending", "running"}
          /\ jobs'[id].status = "running" /\ jobs'[id].key = jobs[id].key
          /\ \A i \in JobIds \ {id} : jobs'[i] = jobs[i]
      BY <1>1, <1>7
    <2> QED
      BY <1>0, <2>1 DEF RowsOK
  <1>8. ASSUME NEW t \in Tasks, Reports(t) PROVE RowsOK'
    <2>1. /\ jobs'[held[t]].status \in {"succeeded", "dead"}
          /\ \A i \in JobIds \ {held[t]} : jobs'[i] = jobs[i]
      BY <1>2, <1>8
    <2> QED
      BY <1>0, <2>1 DEF RowsOK
  <1>9. ASSUME NEW id \in JobIds, Expires(id) PROVE RowsOK'
    <2>1. \A i \in JobIds : jobs'[i].status = jobs[i].status /\ jobs'[i].key = jobs[i].key
      BY <1>3, <1>9
    <2> QED
      BY <1>0, <2>1 DEF RowsOK
  <1> QED
    BY <1>5, <1>6, <1>7, <1>8, <1>9, RowSteps
-----------------------------------------------------------------------------
(* Tasks.                                                                  *)

\* A task keeps its row, lets go of it, or has just claimed it.
LEMMA HeldSteps ==
  ASSUME YInv, [Next]_vars, NEW t \in Tasks, held'[t] # NoJob
  PROVE  \/ held'[t] = held[t]
         \/ ClaimJob(t)
  <1>0. held \in [Tasks -> JobIds \cup {NoJob}]
    BY DEF YInv, TypeOK
  <1>1. ASSUME NEW s \in Tasks, ClaimJob(s) PROVE held'[t] = held[t] \/ ClaimJob(t)
    BY <1>0, <1>1 DEF ClaimJob
  <1>2. ASSUME NEW s \in Tasks, Report(s) \/ ReportLost(s) PROVE held'[t] = held[t]
    BY <1>0, <1>2 DEF Report, ReportLost, TaskEnds
  <1>3. ~Crash
    BY DEF Crash
  <1>4. CASE UNCHANGED held
    BY <1>4
  <1> QED
    BY <1>1, <1>2, <1>3, <1>4 DEF Next, Claim, Work, vars, serviceVars, Submit, Poll, GiveUp,
        Acquire, ClaimNothing, ClaimLost, Download, Upload, LeaseExpires

\* What a claim leaves behind.
LEMMA ClaimHolds ==
  ASSUME YInv, NEW t \in Tasks, ClaimJob(t)
  PROVE  \E id \in JobIds :
            /\ Queue!Runnable(jobs[id]) /\ jobs[id] \in Queue!Row
            /\ held' = [held EXCEPT ![t] = id]
            /\ jobs'[id].status = "running" /\ jobs'[id].lease = "live"
  <1>0. jobs \in Table
    BY DEF YInv, TypeOK, Table
  <1>1. PICK id \in JobIds : /\ Queue!Runnable(jobs[id])
                             /\ jobs' = [jobs EXCEPT ![id] = Queue!Claimed(@)]
                             /\ held' = [held EXCEPT ![t] = id]
    BY DEF ClaimJob, Oldest
  <1>2. jobs[id] \in Queue!Row
    BY <1>0, <1>1, Inserted
  <1>3. jobs'[id].status = "running" /\ jobs'[id].lease = "live"
    BY <1>0, <1>1 DEF Table, Queue!Claimed
  <1> QED
    BY <1>1, <1>2, <1>3

LEMMA HeldExistsKept ==
  ASSUME YInv, [Next]_vars
  PROVE  HeldExists'
  <1>0. HeldExists /\ held \in [Tasks -> JobIds \cup {NoJob}] /\ jobs' \in Table
    BY TableKept DEF YInv, TypeOK
  <1>1. ASSUME NEW t \in Tasks, held'[t] # NoJob
        PROVE  jobs'[held'[t]] # Queue!Absent
    <2>1. CASE held'[t] = held[t]
      BY <1>0, <1>1, <2>1, KeysStay DEF HeldExists
    <2>2. CASE ClaimJob(t)
      <3>1. PICK id \in JobIds : jobs[id] \in Queue!Row /\ held' = [held EXCEPT ![t] = id]
        BY <2>2, ClaimHolds
      <3> QED
        BY <1>0, <3>1, KeysStay, RowWrites
    <2> QED
      BY <1>1, <2>1, <2>2, HeldSteps
  <1> QED
    BY <1>1 DEF HeldExists

LEMMA LeaseFixed ==
  ASSUME [Next]_vars
  PROVE  leaseCovers' = leaseCovers
  BY DEF Next, Claim, Work, vars, Submit, Poll, GiveUp, Acquire, ClaimJob, ClaimNothing, ClaimLost,
         Download, Upload, Report, ReportLost, Crash, LeaseExpires

LEMMA HeldKept ==
  ASSUME YInv, [Next]_vars
  PROVE  HeldOK'
  <1>0. HeldOK /\ held \in [Tasks -> JobIds \cup {NoJob}] /\ leaseCovers' = leaseCovers
    BY LeaseFixed DEF YInv, TypeOK
  <1> SUFFICES ASSUME leaseCovers, NEW t \in Tasks, held'[t] # NoJob
               PROVE  /\ jobs'[held'[t]].status = "running"
                      /\ jobs'[held'[t]].lease = "live"
                      /\ \A s \in Tasks \ {t} : held'[s] # held'[t]
    BY <1>0 DEF HeldOK
  <1>1. CASE ClaimJob(t)
    <2>1. PICK id \in JobIds :
                 /\ Queue!Runnable(jobs[id])
                 /\ held' = [held EXCEPT ![t] = id]
                 /\ jobs'[id].status = "running" /\ jobs'[id].lease = "live"
      BY <1>1, ClaimHolds
    <2>2. ASSUME NEW s \in Tasks PROVE held[s] # id
      BY <1>0, <2>1 DEF HeldOK, Queue!Runnable
    <2> QED
      BY <1>0, <2>1, <2>2
  <1>2. CASE held'[t] = held[t]
    <2>1. jobs[held[t]].status = "running" /\ jobs[held[t]].lease = "live" /\ held[t] \in JobIds
      BY <1>0, <1>2 DEF HeldOK
    <2>2. jobs'[held[t]].status = "running" /\ jobs'[held[t]].lease = "live"
      BY <1>2, <2>1, OnlyHolderWrites
    <2>3. ASSUME NEW s \in Tasks \ {t}, held'[s] = held[t] PROVE FALSE
      <3>1. CASE held'[s] = held[s]
        BY <1>0, <1>2, <2>3, <3>1 DEF HeldOK
      <3>2. CASE ClaimJob(s)
        <4>1. PICK id \in JobIds :
                     Queue!Runnable(jobs[id]) /\ held' = [held EXCEPT ![s] = id]
          BY <3>2, ClaimHolds
        <4>2. id = held[t]
          BY <1>0, <2>3, <4>1
        <4> QED
          BY <2>1, <4>1, <4>2 DEF Queue!Runnable
      <3> QED
        BY <1>2, <2>3, <3>1, <3>2, HeldSteps
    <2> QED
      BY <1>2, <2>2, <2>3
  <1> QED
    BY <1>1, <1>2, HeldSteps
-----------------------------------------------------------------------------
(* Clients, and the truth of what they are told.                           *)

\* What a client knows and polls is new only by its own call.
LEMMA ClientSteps ==
  ASSUME YInv, [Next]_vars, NEW c \in Clients
  PROVE  \/ told'[c] = told[c] /\ polled'[c] = polled[c]
         \/ told'[c] = "none"
         \/ /\ told'[c] = "waiting" /\ polled'[c] \in JobIds
            /\ jobs'[polled'[c]] # Queue!Absent
         \/ /\ told[c] = "waiting" /\ polled'[c] = polled[c] /\ UNCHANGED jobs
            /\ \/ told'[c] = "ok" /\ jobs[polled[c]].status = "succeeded"
               \/ told'[c] = "failed" /\ jobs[polled[c]].status \in {"failed", "dead"}
  <1>0. /\ told \in [Clients -> {"none", "waiting", "ok", "failed"}]
        /\ polled \in [Clients -> JobIds \cup {NoJob}]
        /\ jobs \in Table
    BY DEF YInv, TypeOK, Table
  <1>1. ASSUME NEW d \in Clients, NEW u \in Urls, Submit(d, u)
        PROVE  \/ told'[c] = told[c] /\ polled'[c] = polled[c]
               \/ told'[c] = "waiting" /\ polled'[c] \in JobIds
                  /\ jobs'[polled'[c]] # Queue!Absent
    <2>1. PICK id \in JobIds :
                 /\ polled' = [polled EXCEPT ![d] = id]
                 /\ \/ id \in Queue!ActiveRows(u) /\ UNCHANGED jobs
                    \/ jobs[id] = Queue!Absent /\ jobs' = [jobs EXCEPT ![id] = Queue!NewRow(u)]
      BY <1>1 DEF Submit
    <2>2. jobs'[id] # Queue!Absent
      BY <1>0, <2>1, RowWrites
      DEF Queue!ActiveRows, Queue!Active, Queue!Absent, Queue!NewRow, Table
    <2>3. told' = [told EXCEPT ![d] = "waiting"]
      BY <1>1 DEF Submit
    <2> QED
      BY <1>0, <2>1, <2>2, <2>3
  <1>2. ASSUME NEW d \in Clients, Poll(d)
        PROVE  \/ told'[c] = told[c] /\ polled'[c] = polled[c]
               \/ /\ told[c] = "waiting" /\ polled'[c] = polled[c] /\ UNCHANGED jobs
                  /\ \/ told'[c] = "ok" /\ jobs[polled[c]].status = "succeeded"
                     \/ told'[c] = "failed" /\ jobs[polled[c]].status \in {"failed", "dead"}
    BY <1>0, <1>2 DEF Poll, rowVars
  <1>3. ASSUME NEW d \in Clients, GiveUp(d)
        PROVE  (told'[c] = told[c] /\ polled'[c] = polled[c]) \/ told'[c] = "none"
    BY <1>0, <1>3 DEF GiveUp
  <1>4. CASE UNCHANGED clientVars
    BY <1>4 DEF clientVars
  <1> QED
    BY <1>1, <1>2, <1>3, <1>4 DEF Next, Claim, Work, vars, Acquire, ClaimJob, ClaimNothing,
        ClaimLost, Download, Upload, Report, ReportLost, Crash, LeaseExpires

LEMMA PolledKept ==
  ASSUME YInv, [Next]_vars
  PROVE  PolledOK'
  <1>0. PolledOK /\ polled \in [Clients -> JobIds \cup {NoJob}]
    BY DEF YInv, TypeOK
  <1>1. ASSUME NEW c \in Clients, told'[c] # "none"
        PROVE  polled'[c] # NoJob /\ jobs'[polled'[c]] # Queue!Absent
    <2>1. CASE told[c] # "none" /\ polled'[c] = polled[c]
      BY <1>0, <2>1, KeysStay DEF PolledOK
    <2>2. CASE polled'[c] \in JobIds /\ jobs'[polled'[c]] # Queue!Absent
      BY <2>2
    <2> QED
      BY <1>1, <2>1, <2>2, ClientSteps
  <1> QED
    BY <1>1 DEF PolledOK

\* A row becomes "succeeded" only by the report of a task that uploaded.
LEMMA SucceededSteps ==
  ASSUME YInv, [Next]_vars, NEW id \in JobIds,
         jobs'[id].status = "succeeded", jobs[id].status # "succeeded"
  PROVE  \E t \in Tasks : stage[t] = "report_ok" /\ held[t] = id
  <1>0. jobs \in Table
    BY DEF YInv, TypeOK, Table
  <1>1. ~UNCHANGED jobs
    OBVIOUS
  <1>2. ASSUME NEW i \in JobIds, NEW u \in Urls, Inserts(i, u) PROVE FALSE
    BY <1>0, <1>2 DEF Inserts, Queue!NewRow, Table
  <1>3. ASSUME NEW i \in JobIds, Claims(i) PROVE FALSE
    BY <1>0, <1>3 DEF Claims, Queue!Claimed, Table
  <1>4. ASSUME NEW t \in Tasks, Reports(t) PROVE stage[t] = "report_ok" /\ held[t] = id
    <2>1. jobs[held[t]] \in Queue!Row /\ held[t] \in JobIds
      BY <1>0, <1>4, Inserted DEF Reports, YInv, HeldExists
    <2>2. held[t] = id
      BY <1>0, <1>4, <2>1 DEF Reports, Table
    <2>3. jobs'[id] = Reported(t)
      BY <1>0, <1>4, <2>1, <2>2 DEF Reports, Table
    <2>4. MarkedDead(jobs[id]).status = "dead"
      BY <2>1, <2>2 DEF MarkedDead, Queue!Row
    <2> QED
      BY <2>2, <2>3, <2>4 DEF Reported
  <1>5. ASSUME NEW i \in JobIds, Expires(i) PROVE FALSE
    <2>1. jobs[i] \in Queue!Row
      BY <1>0, <1>5, Inserted DEF Expires
    <2> QED
      BY <1>0, <1>5, <2>1 DEF Expires, Queue!Row, Table
  <1> QED
    BY <1>1, <1>2, <1>3, <1>4, <1>5, RowSteps

LEMMA UploadsStay ==
  ASSUME [Next]_vars
  PROVE  uploaded \subseteq uploaded'
  BY DEF Next, Claim, Work, vars, Submit, Poll, GiveUp, Acquire, ClaimJob, ClaimNothing, ClaimLost,
         Download, Upload, Report, ReportLost, Crash, LeaseExpires

LEMMA UploadedKept ==
  ASSUME YInv, [Next]_vars
  PROVE  UploadedOK'
  <1>0. UploadedOK /\ SuccessIsUploaded /\ PolledOK /\ HeldExists /\ uploaded \subseteq uploaded'
        /\ held \in [Tasks -> JobIds \cup {NoJob}] /\ polled \in [Clients -> JobIds \cup {NoJob}]
        /\ stage \in [Tasks -> Stages] /\ jobs \in Table
        /\ \A t \in Tasks : Idle(t) <=> held[t] = NoJob
    BY UploadsStay DEF YInv, TypeOK, UploadedOK, Table
  <1>1. ASSUME NEW id \in JobIds, jobs[id] # Queue!Absent, jobs[id].key \in uploaded
        PROVE  jobs'[id].key \in uploaded'
    BY <1>0, <1>1, KeysStay
  <1>2. ASSUME NEW id \in JobIds, jobs'[id].status = "succeeded" PROVE jobs'[id].key \in uploaded'
    <2>1. CASE jobs[id].status = "succeeded"
      BY <1>0, <1>1, <2>1 DEF SuccessIsUploaded, Queue!Absent
    <2>2. CASE jobs[id].status # "succeeded"
      <3>1. PICK t \in Tasks : stage[t] = "report_ok" /\ held[t] = id
        BY <1>2, <2>2, SucceededSteps
      <3> QED
        BY <1>0, <1>1, <3>1 DEF UploadedOK, HeldExists
    <2> QED
      BY <2>1, <2>2
  <1>3. ASSUME NEW c \in Clients, told'[c] = "ok" PROVE jobs'[polled'[c]].key \in uploaded'
    <2>1. polled'[c] = polled[c] /\ polled[c] \in JobIds /\ jobs[polled[c]] # Queue!Absent
      BY <1>0, <1>3, ClientSteps DEF PolledOK
    <2>2. jobs[polled[c]].key \in uploaded
      BY <1>0, <1>3, <2>1, ClientSteps DEF SuccessIsUploaded
    <2> QED
      BY <1>1, <2>1, <2>2
  <1>4. ASSUME NEW t \in Tasks, stage'[t] = "report_ok" PROVE jobs'[held'[t]].key \in uploaded'
    <2>1. CASE Upload(t)
      <3>1. stage[t] = "upload" /\ held' = held /\ jobs' = jobs
        BY <2>1 DEF Upload, rowVars
      <3>2. uploaded' = uploaded \cup {jobs[held[t]].key}
        BY <1>0, <1>4, <2>1, <3>1 DEF Upload, TryFails
      <3> QED
        BY <3>1, <3>2
    <2>2. CASE ~Upload(t)
      <3>1. stage[t] = "report_ok" /\ held'[t] = held[t]
        <4>1. CASE UNCHANGED <<stage, held>>
          BY <1>4, <4>1
        <4>2. ASSUME NEW s \in Tasks, ClaimJob(s) PROVE stage[t] = "report_ok" /\ held'[t] = held[t]
          BY <1>0, <1>4, <4>2 DEF ClaimJob
        <4>3. ASSUME NEW s \in Tasks, Download(s) PROVE stage[t] = "report_ok" /\ held'[t] = held[t]
          BY <1>0, <1>4, <4>3 DEF Download, TryFails
        <4>4. ASSUME NEW s \in Tasks, Upload(s) PROVE stage[t] = "report_ok" /\ held'[t] = held[t]
          BY <1>0, <1>4, <2>2, <4>4 DEF Upload, TryFails
        <4>5. ASSUME NEW s \in Tasks, Report(s) \/ ReportLost(s)
              PROVE  stage[t] = "report_ok" /\ held'[t] = held[t]
          BY <1>0, <1>4, <4>5 DEF Report, ReportLost, TaskEnds
        <4>6. ~Crash
          BY <1>4 DEF Crash
        <4> QED
          BY <4>1, <4>2, <4>3, <4>4, <4>5, <4>6 DEF Next, Claim, Work, vars, serviceVars, Submit,
              Poll, GiveUp, Acquire, ClaimNothing, ClaimLost, LeaseExpires
      <3>2. held[t] \in JobIds /\ jobs[held[t]] # Queue!Absent /\ jobs[held[t]].key \in uploaded
        BY <1>0, <3>1 DEF UploadedOK, HeldExists
      <3> QED
        BY <1>1, <3>1, <3>2
    <2> QED
      BY <2>1, <2>2
  <1> QED
    BY <1>2, <1>3, <1>4 DEF UploadedOK, SuccessIsUploaded

LEMMA AnswersKept ==
  ASSUME YInv, [Next]_vars
  PROVE  AnswerStands'
  <1>0. /\ AnswerStands /\ PolledOK /\ RowsOK /\ leaseCovers' = leaseCovers
        /\ polled \in [Clients -> JobIds \cup {NoJob}]
    BY LeaseFixed DEF YInv, TypeOK
  <1>1. ASSUME leaseCovers, NEW c \in Clients, told'[c] = "ok"
        PROVE  jobs'[polled'[c]].status = "succeeded"
    <2>1. polled'[c] = polled[c] /\ polled[c] \in JobIds
      BY <1>0, <1>1, ClientSteps DEF PolledOK
    <2>2. jobs[polled[c]].status = "succeeded"
      BY <1>0, <1>1, ClientSteps DEF AnswerStands
    <2> QED
      BY <1>1, <2>1, <2>2, OnlyHolderWrites
  <1>2. ASSUME leaseCovers, NEW c \in Clients, told'[c] = "failed"
        PROVE  jobs'[polled'[c]].status = "dead"
    <2>1. polled'[c] = polled[c] /\ polled[c] \in JobIds
      BY <1>0, <1>2, ClientSteps DEF PolledOK
    <2>2. jobs[polled[c]].status = "dead"
      BY <1>0, <1>2, <2>1, ClientSteps DEF AnswerStands, RowsOK
    <2> QED
      BY <1>2, <2>1, <2>2, OnlyHolderWrites
  <1> QED
    BY <1>0, <1>1, <1>2 DEF AnswerStands
-----------------------------------------------------------------------------
(* The invariant, and what follows.                                        *)

LEMMA NextYInv == YInv /\ [Next]_vars => YInv'
  BY TypesKept, PermitsKept, RowsKept, HeldExistsKept, HeldKept, UploadedKept, PolledKept,
     AnswersKept
  DEF YInv

LEMMA YInvInvariant == Spec => []YInv
  BY InitYInv, NextYInv, PTL DEF Spec

\* Every state the service, the gateway's rows and the clients can reach is one
\* the code knows: permits stay within the semaphore's, retries within
\* MAX_RETRIES, and a task has a row exactly while it works (handle_job).
THEOREM ServiceTypeCorrect == Spec => []TypeOK
  <1>1. YInv => TypeOK
    BY DEF YInv
  <1> QED
    BY <1>1, YInvInvariant, PTL

\* Whatever fails or is lost, claim_worker_loop and handle_job account for each
\* permit: it is in the semaphore, with a task, or with the claim under way.
THEOREM NoPermitIsLost == Spec => []PermitsConserved
  <1>1. YInv => PermitsConserved
    BY DEF YInv, PermitsOK
  <1> QED
    BY <1>1, YInvInvariant, PTL

\* A job says succeeded, and a client hears so, only when the track is stored,
\* although leases may run out, tasks share a row and reports come late.
THEOREM SuccessHasATrack == Spec => []SuccessIsUploaded
  <1>1. YInv => SuccessIsUploaded
    BY DEF YInv, UploadedOK
  <1> QED
    BY <1>1, YInvInvariant, PTL

\* If every claim ends within its lease, no URL is worked on twice at a time
\* and no answer a client was given is taken back, for any number of tasks,
\* clients and rows: report_job's missing status check does no harm then.
THEOREM LeasesSuffice == Spec => []LeaseIsEnough
  <1>1. ASSUME YInv PROVE OneTaskPerUrl
    <2> SUFFICES ASSUME leaseCovers, NEW s \in Tasks, NEW t \in Tasks,
                        held[s] # NoJob, held[t] # NoJob, s # t,
                        jobs[held[s]].key = jobs[held[t]].key
                 PROVE  FALSE
      BY DEF OneTaskPerUrl
    <2>1. held[s] \in JobIds /\ held[t] \in JobIds
      BY <1>1 DEF YInv, TypeOK
    <2>2. jobs[held[s]].status = "running" /\ jobs[held[t]].status = "running" /\ held[s] # held[t]
      BY <1>1 DEF YInv, HeldOK
    <2> QED
      BY <1>1, <2>1, <2>2 DEF YInv, RowsOK
  <1>2. YInv => LeaseIsEnough
    BY <1>1 DEF YInv, LeaseIsEnough
  <1> QED
    BY <1>2, YInvInvariant, PTL
=============================================================================
