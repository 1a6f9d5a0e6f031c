--------------------------- MODULE PipelineProofs ---------------------------
(***************************************************************************)
(* Theorems about JobQueue, for any number of keys, consumers, rows,       *)
(* attempts and faults, and about AnalysisPipeline, which composes it.     *)
(*                                                                         *)
(* What holds of the queue follows from one inductive invariant, IInv:     *)
(* besides the stated properties it says that a locked row stays runnable  *)
(* until its claim ends, that an executed row is running under a live      *)
(* lease with one executor, and that an orphaned row has an attempt left   *)
(* in the fault account.  Every step of the pipeline is a step of the      *)
(* queue or leaves it alone, so IInv carries over; PInv adds what a        *)
(* worker's position says about the bundle it writes.                      *)
(***************************************************************************)
EXTENDS AnalysisPipeline, TLAPS
-----------------------------------------------------------------------------
(* The queue.                                                              *)

\* A row locked by a claim is runnable, locked by one claim only, and its
\* claimer is not executing anything.
SelectedOK ==
    \A c \in Consumers : selected[c] # NoJob =>
        /\ Runnable(jobs[selected[c]])
        /\ held[c] = NoJob
        /\ \A d \in Consumers : d # c => selected[d] # selected[c]

\* An executed row has been inserted: rows are never deleted.
HeldExists == \A c \in Consumers : held[c] # NoJob => jobs[held[c]] \in Row

\* With leases that cover the work an executed row is running, its lease is
\* live and nobody else executes it.
HeldOK ==
    LeaseCoversWork =>
        \A c \in Consumers : held[c] # NoJob =>
            /\ jobs[held[c]].status = "running"
            /\ jobs[held[c]].lease = "live"
            /\ \A d \in Consumers : d # c => held[d] # held[c]

\* A row waiting for its first claim has its whole budget.
PendingOK ==
    \A id \in JobIds :
        jobs[id].status \in {"absent", "pending"} => jobs[id].attempts = 0

\* A running row nobody executes has paid for its next attempt with a fault.
OrphansOK ==
    LeaseCoversWork =>
        \A id \in JobIds :
            /\ jobs[id].status = "running"
            /\ \A c \in Consumers : held[c] # id
            => jobs[id].attempts < MaxAttempts + faults

IInv ==
    /\ TypeOK
    /\ UniqueActive
    /\ BudgetDecides
    /\ AttemptsAccounted
    /\ SelectedOK
    /\ HeldExists
    /\ HeldOK
    /\ PendingOK
    /\ OrphansOK
-----------------------------------------------------------------------------
USE DEF JobIds, NoJob, Status, Active, Terminal, Row, Absent

LEMMA InitIInv == Init => IInv
  BY MaxFaultsAssumption, MaxAttemptsAssumption, MaxJobsAssumption
  DEF Init, IInv, TypeOK, UniqueActive, BudgetDecides, AttemptsAccounted,
      SelectedOK, HeldExists, HeldOK, PendingOK, OrphansOK

LEMMA EnqueueIInv ==
  ASSUME IInv, NEW k \in Keys, Enqueue(k)
  PROVE  IInv'
  <1>1. CASE UNCHANGED vars
    BY <1>1 DEF vars, IInv, TypeOK, UniqueActive, BudgetDecides, AttemptsAccounted,
        SelectedOK, HeldExists, HeldOK, PendingOK, OrphansOK, Runnable
  <1>2. ASSUME NEW id \in JobIds,
               ActiveRows(k) = {},
               jobs[id].status = "absent",
               jobs' = [jobs EXCEPT ![id] = NewRow(k)],
               UNCHANGED <<selected, held, faults>>
        PROVE  IInv'
    <2> USE <1>2, MaxFaultsAssumption, MaxAttemptsAssumption DEF NewRow
    <2>1. TypeOK'
      BY DEF IInv, TypeOK
    <2>2. UniqueActive'
      BY DEF IInv, TypeOK, UniqueActive, ActiveRows
    <2>3. BudgetDecides'
      BY DEF IInv, TypeOK, BudgetDecides
    <2>4. AttemptsAccounted'
      BY DEF IInv, TypeOK, AttemptsAccounted
    <2>5. SelectedOK'
      BY DEF IInv, TypeOK, SelectedOK, Runnable
    <2>6. HeldOK'
      BY DEF IInv, TypeOK, HeldOK
    <2>7. PendingOK'
      BY DEF IInv, TypeOK, PendingOK
    <2>8. OrphansOK'
      BY DEF IInv, TypeOK, OrphansOK
    <2>9. HeldExists'
      BY DEF IInv, TypeOK, HeldExists
    <2> QED
      BY <2>1, <2>2, <2>3, <2>4, <2>5, <2>6, <2>7, <2>8, <2>9 DEF IInv
  <1> QED
    BY <1>1, <1>2 DEF Enqueue

LEMMA ClaimSelectIInv ==
  ASSUME IInv, NEW c \in Consumers, ClaimSelect(c)
  PROVE  IInv'
  <1> USE MaxFaultsAssumption, MaxAttemptsAssumption DEF ClaimSelect
  <1>1. TypeOK'
    BY DEF IInv, TypeOK
  <1>2. UniqueActive'
    BY DEF IInv, TypeOK, UniqueActive
  <1>3. BudgetDecides'
    BY DEF IInv, TypeOK, BudgetDecides
  <1>4. AttemptsAccounted'
    BY DEF IInv, TypeOK, AttemptsAccounted
  <1>5. SelectedOK'
    BY DEF IInv, TypeOK, SelectedOK, Runnable, Locked
  <1>6. HeldOK'
    BY DEF IInv, TypeOK, HeldOK
  <1>7. PendingOK'
    BY DEF IInv, TypeOK, PendingOK
  <1>8. OrphansOK'
    BY DEF IInv, TypeOK, OrphansOK
  <1>9. HeldExists'
    BY DEF IInv, TypeOK, HeldExists
  <1> QED
    BY <1>1, <1>2, <1>3, <1>4, <1>5, <1>6, <1>7, <1>8, <1>9 DEF IInv

LEMMA ClaimCommitIInv ==
  ASSUME IInv, NEW c \in Consumers, ClaimCommit(c)
  PROVE  IInv'
  <1> USE MaxFaultsAssumption, MaxAttemptsAssumption DEF ClaimCommit, Claimed
  <1>0. jobs[selected[c]] \in Row /\ selected[c] \in JobIds
    BY DEF IInv, TypeOK, SelectedOK, Runnable
  <1>1. TypeOK'
    <2>1. Claimed(jobs[selected[c]]) \in Row
      BY <1>0
    <2> QED
      BY <1>0, <2>1 DEF IInv, TypeOK
  <1>2. UniqueActive'
    BY DEF IInv, TypeOK, UniqueActive, IndexConflict, ActiveRows
  <1>3. BudgetDecides'
    BY DEF IInv, TypeOK, BudgetDecides
  <1>4. AttemptsAccounted'
    BY DEF IInv, TypeOK, AttemptsAccounted, SelectedOK,
        BudgetDecides, PendingOK, OrphansOK, Runnable, HeldOK
  <1>5. SelectedOK'
    BY DEF IInv, TypeOK, SelectedOK, Runnable
  <1>6. HeldOK'
    BY DEF IInv, TypeOK, HeldOK, SelectedOK, Runnable
  <1>7. PendingOK'
    BY DEF IInv, TypeOK, PendingOK
  <1>8. OrphansOK'
    BY DEF IInv, TypeOK, OrphansOK, SelectedOK
  <1>9. HeldExists'
    BY <1>0 DEF IInv, TypeOK, HeldExists
  <1> QED
    BY <1>1, <1>2, <1>3, <1>4, <1>5, <1>6, <1>7, <1>8, <1>9 DEF IInv

LEMMA ClaimErrorIInv ==
  ASSUME IInv, NEW c \in Consumers, ClaimError(c)
  PROVE  IInv'
  <1> USE MaxFaultsAssumption, MaxAttemptsAssumption DEF ClaimError
  <1>1. TypeOK'
    BY DEF IInv, TypeOK
  <1>2. UniqueActive'
    BY DEF IInv, TypeOK, UniqueActive
  <1>3. BudgetDecides'
    BY DEF IInv, TypeOK, BudgetDecides
  <1>4. AttemptsAccounted'
    BY DEF IInv, TypeOK, AttemptsAccounted
  <1>5. SelectedOK'
    BY DEF IInv, TypeOK, SelectedOK, Runnable
  <1>6. HeldOK'
    BY DEF IInv, TypeOK, HeldOK
  <1>7. PendingOK'
    BY DEF IInv, TypeOK, PendingOK
  <1>8. OrphansOK'
    BY DEF IInv, TypeOK, OrphansOK
  <1>9. HeldExists'
    BY DEF IInv, TypeOK, HeldExists
  <1> QED
    BY <1>1, <1>2, <1>3, <1>4, <1>5, <1>6, <1>7, <1>8, <1>9 DEF IInv

LEMMA HeartbeatIInv ==
  ASSUME IInv, NEW c \in Consumers, Heartbeat(c)
  PROVE  IInv'
  <1> USE MaxFaultsAssumption, MaxAttemptsAssumption DEF Heartbeat, Extended, Locked
  <1>1. TypeOK'
    BY DEF IInv, TypeOK, HeldExists
  <1>2. UniqueActive'
    BY DEF IInv, TypeOK, UniqueActive
  <1>3. BudgetDecides'
    BY DEF IInv, TypeOK, BudgetDecides
  <1>4. AttemptsAccounted'
    BY DEF IInv, TypeOK, AttemptsAccounted
  <1>5. SelectedOK'
    BY DEF IInv, TypeOK, SelectedOK, Runnable
  <1>6. HeldOK'
    BY DEF IInv, TypeOK, HeldOK
  <1>7. PendingOK'
    BY DEF IInv, TypeOK, PendingOK
  <1>8. OrphansOK'
    BY DEF IInv, TypeOK, OrphansOK
  <1>9. HeldExists'
    BY DEF IInv, TypeOK, HeldExists
  <1> QED
    BY <1>1, <1>2, <1>3, <1>4, <1>5, <1>6, <1>7, <1>8, <1>9 DEF IInv

LEMMA CompleteIInv ==
  ASSUME IInv, NEW c \in Consumers, Complete(c)
  PROVE  IInv'
  <1> USE MaxFaultsAssumption, MaxAttemptsAssumption DEF Complete, Completed, Locked
  <1>1. TypeOK'
    BY DEF IInv, TypeOK, HeldExists
  <1>2. UniqueActive'
    BY DEF IInv, TypeOK, UniqueActive
  <1>3. BudgetDecides'
    BY DEF IInv, TypeOK, BudgetDecides
  <1>4. AttemptsAccounted'
    BY DEF IInv, TypeOK, AttemptsAccounted
  <1>5. SelectedOK'
    BY DEF IInv, TypeOK, SelectedOK, Runnable
  <1>6. HeldOK'
    BY DEF IInv, TypeOK, HeldOK
  <1>7. PendingOK'
    BY DEF IInv, TypeOK, PendingOK
  <1>8. OrphansOK'
    BY DEF IInv, TypeOK, OrphansOK
  <1>9. HeldExists'
    BY DEF IInv, TypeOK, HeldExists
  <1> QED
    BY <1>1, <1>2, <1>3, <1>4, <1>5, <1>6, <1>7, <1>8, <1>9 DEF IInv

LEMMA FailIInv ==
  ASSUME IInv, NEW c \in Consumers, Fail(c)
  PROVE  IInv'
  <1> USE MaxFaultsAssumption, MaxAttemptsAssumption DEF Fail, Failed, Locked
  <1>1. TypeOK'
    BY DEF IInv, TypeOK, HeldExists
  <1>2. UniqueActive'
    BY DEF IInv, TypeOK, UniqueActive
  <1>3. BudgetDecides'
    BY DEF IInv, TypeOK, BudgetDecides
  <1>4. AttemptsAccounted'
    BY DEF IInv, TypeOK, AttemptsAccounted
  <1>5. SelectedOK'
    BY DEF IInv, TypeOK, SelectedOK, Runnable
  <1>6. HeldOK'
    BY DEF IInv, TypeOK, HeldOK
  <1>7. PendingOK'
    BY DEF IInv, TypeOK, PendingOK
  <1>8. OrphansOK'
    BY DEF IInv, TypeOK, OrphansOK
  <1>9. HeldExists'
    BY DEF IInv, TypeOK, HeldExists
  <1> QED
    BY <1>1, <1>2, <1>3, <1>4, <1>5, <1>6, <1>7, <1>8, <1>9 DEF IInv

LEMMA ReportLostIInv ==
  ASSUME IInv, NEW c \in Consumers, ReportLost(c)
  PROVE  IInv'
  <1> USE MaxFaultsAssumption, MaxAttemptsAssumption DEF ReportLost
  <1>1. TypeOK'
    BY DEF IInv, TypeOK
  <1>2. UniqueActive'
    BY DEF IInv, TypeOK, UniqueActive
  <1>3. BudgetDecides'
    BY DEF IInv, TypeOK, BudgetDecides
  <1>4. AttemptsAccounted'
    BY DEF IInv, TypeOK, AttemptsAccounted
  <1>5. SelectedOK'
    BY DEF IInv, TypeOK, SelectedOK, Runnable
  <1>6. HeldOK'
    BY DEF IInv, TypeOK, HeldOK
  <1>7. PendingOK'
    BY DEF IInv, TypeOK, PendingOK
  <1>8. OrphansOK'
    BY DEF IInv, TypeOK, OrphansOK, AttemptsAccounted
  <1>9. HeldExists'
    BY DEF IInv, TypeOK, HeldExists
  <1> QED
    BY <1>1, <1>2, <1>3, <1>4, <1>5, <1>6, <1>7, <1>8, <1>9 DEF IInv

LEMMA CrashIInv ==
  ASSUME IInv, NEW c \in Consumers, Crash(c)
  PROVE  IInv'
  <1> USE MaxFaultsAssumption, MaxAttemptsAssumption DEF Crash
  <1>1. TypeOK'
    BY DEF IInv, TypeOK
  <1>2. UniqueActive'
    BY DEF IInv, TypeOK, UniqueActive
  <1>3. BudgetDecides'
    BY DEF IInv, TypeOK, BudgetDecides
  <1>4. AttemptsAccounted'
    BY DEF IInv, TypeOK, AttemptsAccounted
  <1>5. SelectedOK'
    BY DEF IInv, TypeOK, SelectedOK, Runnable
  <1>6. HeldOK'
    BY DEF IInv, TypeOK, HeldOK
  <1>7. PendingOK'
    BY DEF IInv, TypeOK, PendingOK
  <1>8. OrphansOK'
    BY DEF IInv, TypeOK, OrphansOK, AttemptsAccounted
  <1>9. HeldExists'
    BY DEF IInv, TypeOK, HeldExists
  <1> QED
    BY <1>1, <1>2, <1>3, <1>4, <1>5, <1>6, <1>7, <1>8, <1>9 DEF IInv

LEMMA LeaseExpiresIInv ==
  ASSUME IInv, NEW id \in JobIds, LeaseExpires(id)
  PROVE  IInv'
  <1> USE MaxFaultsAssumption, MaxAttemptsAssumption DEF LeaseExpires
  <1>1. TypeOK'
    BY DEF IInv, TypeOK
  <1>2. UniqueActive'
    BY DEF IInv, TypeOK, UniqueActive
  <1>3. BudgetDecides'
    BY DEF IInv, TypeOK, BudgetDecides
  <1>4. AttemptsAccounted'
    BY DEF IInv, TypeOK, AttemptsAccounted
  <1>5. SelectedOK'
    BY DEF IInv, TypeOK, SelectedOK, Runnable
  <1>6. HeldOK'
    BY DEF IInv, TypeOK, HeldOK
  <1>7. PendingOK'
    BY DEF IInv, TypeOK, PendingOK
  <1>8. OrphansOK'
    BY DEF IInv, TypeOK, OrphansOK
  <1>9. HeldExists'
    BY DEF IInv, TypeOK, HeldExists
  <1> QED
    BY <1>1, <1>2, <1>3, <1>4, <1>5, <1>6, <1>7, <1>8, <1>9 DEF IInv

LEMMA NextIInv == IInv /\ [Next]_vars => IInv'
  <1> SUFFICES ASSUME IInv, [Next]_vars
               PROVE  IInv'
    OBVIOUS
  <1>1. CASE UNCHANGED vars
    BY <1>1 DEF vars, IInv, TypeOK, UniqueActive, BudgetDecides, AttemptsAccounted,
        SelectedOK, HeldExists, HeldOK, PendingOK, OrphansOK, Runnable
  <1>2. ASSUME NEW k \in Keys, Enqueue(k)
        PROVE  IInv'
    BY <1>2, EnqueueIInv
  <1>3. ASSUME NEW c \in Consumers, Claim(c)
        PROVE  IInv'
    BY <1>3, ClaimSelectIInv, ClaimCommitIInv, ClaimErrorIInv DEF Claim
  <1>4. ASSUME NEW c \in Consumers, ClaimNone(c)
        PROVE  IInv'
    BY <1>4, <1>1 DEF ClaimNone
  <1>5. ASSUME NEW c \in Consumers, Heartbeat(c)
        PROVE  IInv'
    BY <1>5, HeartbeatIInv
  <1>6. ASSUME NEW c \in Consumers, Report(c)
        PROVE  IInv'
    BY <1>6, CompleteIInv, FailIInv DEF Report
  <1>7. ASSUME NEW c \in Consumers, ReportLost(c)
        PROVE  IInv'
    BY <1>7, ReportLostIInv
  <1>8. ASSUME NEW c \in Consumers, Crash(c)
        PROVE  IInv'
    BY <1>8, CrashIInv
  <1>9. ASSUME NEW id \in JobIds, LeaseExpires(id)
        PROVE  IInv'
    BY <1>9, LeaseExpiresIInv
  <1> QED
    BY <1>1, <1>2, <1>3, <1>4, <1>5, <1>6, <1>7, <1>8, <1>9 DEF Next
-----------------------------------------------------------------------------
\* Every reachable state satisfies the inductive invariant.
THEOREM Invariance == Spec => []IInv
  <1> QED
    BY InitIInv, NextIInv, PTL DEF Spec

\* The variables keep their types.
THEOREM TypeCorrect == Spec => []TypeOK
  <1>1. IInv => TypeOK
    BY DEF IInv
  <1> QED
    BY Invariance, <1>1, PTL

\* enqueue's conflict clause and claim's index check together keep at most one
\* active row per key.
THEOREM ActiveIsUnique == Spec => []UniqueActive
  <1>1. IInv => UniqueActive
    BY DEF IInv
  <1> QED
    BY Invariance, <1>1, PTL

\* If leases cover the work, no two consumers execute the same key.
THEOREM MutualExclusion == Spec => []OneWorkerPerKey
  <1>1. IInv => OneWorkerPerKey
    BY DEF IInv, OneWorkerPerKey, HeldOK, UniqueActive, TypeOK
  <1> QED
    BY Invariance, <1>1, PTL

\* failed means attempts are left, dead means none are, and a job is served at
\* most MaxAttempts times plus once per fault (claim never looks at the budget).
THEOREM BudgetIsHonoured == Spec => []BudgetIsKept
  <1>1. IInv => BudgetIsKept
    BY DEF IInv, BudgetIsKept
  <1> QED
    BY Invariance, <1>1, PTL

\* If leases cover the work, a finished job is never touched again.
THEOREM FinishedIsFinal == Spec => FinishedStaysFinished
  <1>1. IInv /\ [Next]_vars =>
          [LeaseCoversWork =>
              \A id \in JobIds :
                  jobs[id].status \in Terminal => jobs'[id] = jobs[id]]_vars
    <2> SUFFICES ASSUME IInv, Next, LeaseCoversWork,
                        NEW id \in JobIds, jobs[id].status \in Terminal
                 PROVE  jobs'[id] = jobs[id]
      BY DEF vars
    <2> USE DEF IInv, TypeOK
    <2>1. CASE \E k \in Keys : Enqueue(k)
      BY <2>1 DEF Enqueue, vars
    <2>2. CASE \E c \in Consumers : Claim(c)
      BY <2>2 DEF Claim, ClaimSelect, ClaimCommit, ClaimError, SelectedOK, Runnable
    <2>3. CASE \E c \in Consumers : Heartbeat(c)
      BY <2>3 DEF Heartbeat, Extended, HeldOK
    <2>4. CASE \E c \in Consumers : Report(c)
      BY <2>4 DEF Report, Complete, Fail, HeldOK
    <2>5. CASE \E c \in Consumers : ClaimNone(c) \/ ReportLost(c) \/ Crash(c)
      BY <2>5 DEF ClaimNone, ReportLost, Crash, vars
    <2>6. CASE \E i \in JobIds : LeaseExpires(i)
      BY <2>6 DEF LeaseExpires
    <2> QED
      BY <2>1, <2>2, <2>3, <2>4, <2>5, <2>6 DEF Next
  <1> QED
    BY Invariance, <1>1, PTL DEF Spec, FinishedStaysFinished
-----------------------------------------------------------------------------
(* The queue implements WorkPool, as long as leases cover the work: every  *)
(* step of the queue is a step of the pool or changes nothing the pool     *)
(* sees.                                                                   *)

\* The owner of a row is the one consumer that executes it.
LEMMA OwnerIsHolder ==
  ASSUME LeaseCoversWork, IInv, NEW id \in JobIds
  PROVE  /\ \A c \in Consumers : PoolOwner(id) = c <=> held[c] = id
         /\ (\A c \in Consumers : held[c] # id) => PoolOwner(id) = Nobody
  BY NobodyAssumption DEF PoolOwner, IInv, HeldOK, TypeOK

\* The same after a step.
LEMMA OwnerIsHolderNext ==
  ASSUME LeaseCoversWork, IInv', NEW id \in JobIds
  PROVE  /\ \A c \in Consumers : PoolOwner(id)' = c <=> held'[c] = id
         /\ (\A c \in Consumers : held'[c] # id) => PoolOwner(id)' = Nobody
  BY NobodyAssumption DEF PoolOwner, IInv, HeldOK, TypeOK

LEMMA StateOfStatus ==
  ASSUME NEW r \in Row \cup {Absent}
  PROVE  /\ r.status = "absent" => PoolState(r) = "none"
         /\ r.status \in {"pending", "failed"} => PoolState(r) = "open"
         /\ r.status = "running" <=> PoolState(r) = "taken"
         /\ r.status = "succeeded" => PoolState(r) = "done"
         /\ r.status = "dead" => PoolState(r) = "parked"
  BY DEF PoolState

\* Steps that change neither a key, nor a status, nor who executes what.
LEMMA Invisible ==
  ASSUME UNCHANGED held,
         \A id \in JobIds :
            jobs'[id].key = jobs[id].key /\ jobs'[id].status = jobs[id].status
  PROVE  UNCHANGED Pool!vars
  <1>1. \A id \in JobIds : PoolOwner(id)' = PoolOwner(id)
    BY DEF PoolOwner
  <1>2. \A id \in JobIds : PoolState(jobs[id])' = PoolState(jobs[id])
    BY DEF PoolState
  <1> QED
    BY <1>1, <1>2 DEF Pool!vars, PoolKeys, PoolStates, PoolOwners

\* A step that writes row id alone changes the pool's view of id alone.
LEMMA OneRow ==
  ASSUME IInv, NEW id \in JobIds, NEW r \in Row, jobs' = [jobs EXCEPT ![id] = r]
  PROVE  /\ PoolStates' = [PoolStates EXCEPT ![id] = PoolState(r)]
         /\ PoolKeys' = [PoolKeys EXCEPT ![id] = r.key]
         /\ r.key = jobs[id].key => PoolKeys' = PoolKeys
  <1>1. \A i \in JobIds : jobs'[i] = IF i = id THEN r ELSE jobs[i]
    BY DEF IInv, TypeOK
  <1>2. \A i \in JobIds :
            PoolState(jobs'[i]) = IF i = id THEN PoolState(r) ELSE PoolState(jobs[i])
    BY <1>1
  <1>3. PoolStates' = [i \in JobIds |-> PoolState(jobs'[i])]
    BY Zenon DEF PoolStates
  <1>4. PoolStates' = [PoolStates EXCEPT ![id] = PoolState(r)]
    BY <1>2, <1>3 DEF PoolStates
  <1>5. \A i \in JobIds : jobs'[i].key = IF i = id THEN r.key ELSE jobs[i].key
    BY <1>1
  <1>6. PoolKeys' = [PoolKeys EXCEPT ![id] = r.key]
    BY <1>5, Zenon DEF PoolKeys
  <1>7. r.key = jobs[id].key => PoolKeys' = PoolKeys
    BY <1>5 DEF PoolKeys
  <1> QED
    BY <1>4, <1>6, <1>7

\* A consumer without a job takes row id.
LEMMA OwnerGained ==
  ASSUME LeaseCoversWork, IInv, IInv', NEW c \in Consumers, NEW id \in JobIds,
         held[c] = NoJob, held' = [held EXCEPT ![c] = id]
  PROVE  PoolOwners' = [PoolOwners EXCEPT ![id] = c]
  <1>1. \A d \in Consumers : held'[d] = IF d = c THEN id ELSE held[d]
    BY DEF IInv, TypeOK
  <1>2. PoolOwner(id)' = c
    BY <1>1, OwnerIsHolderNext
  <1>3. ASSUME NEW i \in JobIds, i # id
        PROVE  PoolOwner(i)' = PoolOwner(i)
    BY <1>1, <1>3, OwnerIsHolder, OwnerIsHolderNext
  <1> QED
    BY <1>2, <1>3 DEF PoolOwners

\* A consumer leaves row id.
LEMMA OwnerGone ==
  ASSUME LeaseCoversWork, IInv, IInv', NEW c \in Consumers, NEW id \in JobIds,
         held[c] = id, held' = [held EXCEPT ![c] = NoJob]
  PROVE  /\ PoolOwners[id] = c
         /\ PoolOwners' = [PoolOwners EXCEPT ![id] = Nobody]
  <1>1. \A d \in Consumers : held'[d] = IF d = c THEN NoJob ELSE held[d]
    BY DEF IInv, TypeOK
  <1>2. PoolOwner(id) = c
    BY OwnerIsHolder
  <1>3. \A d \in Consumers : held'[d] # id
    BY <1>1, <1>2, OwnerIsHolder
  <1>4. PoolOwner(id)' = Nobody
    BY <1>3, OwnerIsHolderNext
  <1>5. ASSUME NEW i \in JobIds, i # id
        PROVE  PoolOwner(i)' = PoolOwner(i)
    BY <1>1, <1>5, OwnerIsHolder, OwnerIsHolderNext
  <1> QED
    BY <1>2, <1>4, <1>5 DEF PoolOwners
-----------------------------------------------------------------------------
LEMMA EnqueuePool ==
  ASSUME IInv, NEW k \in Keys, Enqueue(k)
  PROVE  Pool!Next \/ UNCHANGED Pool!vars
  <1>1. CASE UNCHANGED vars
    BY <1>1, Invisible DEF vars
  <1>2. ASSUME NEW id \in JobIds,
               jobs[id].status = "absent",
               jobs' = [jobs EXCEPT ![id] = NewRow(k)],
               UNCHANGED <<selected, held, faults>>
        PROVE  Pool!Submit(id, k)
    <2>1. PoolStates[id] = "none"
      BY <1>2, StateOfStatus DEF IInv, TypeOK, PoolStates
    <2>2. NewRow(k) \in Row /\ PoolState(NewRow(k)) = "open" /\ NewRow(k).key = k
      BY StateOfStatus DEF NewRow
    <2>3. PoolOwners' = PoolOwners
      BY <1>2 DEF PoolOwner, PoolOwners
    <2> QED
      BY <1>2, <2>1, <2>2, <2>3, OneRow, Zenon DEF Pool!Submit
  <1> QED
    BY <1>1, <1>2 DEF Enqueue, Pool!Next

\* Committing a claim takes the row; selecting one, or failing to, is invisible.
LEMMA ClaimPool ==
  ASSUME LeaseCoversWork, IInv, IInv', NEW c \in Consumers, Claim(c)
  PROVE  Pool!Next \/ UNCHANGED Pool!vars
  <1>1. CASE ClaimSelect(c) \/ ClaimError(c)
    BY <1>1, Invisible DEF ClaimSelect, ClaimError
  <1>2. CASE ClaimCommit(c)
    <2> DEFINE id == selected[c]
    <2>1. /\ id \in JobIds
          /\ jobs[id] \in Row
          /\ held[c] = NoJob
      BY <1>2 DEF ClaimCommit, IInv, TypeOK, SelectedOK, Runnable
    <2>2. \A i \in JobIds : jobs[i] \in Row \cup {Absent}
      BY DEF IInv, TypeOK
    <2>3. Pool!Idle(c)
      BY <2>1, OwnerIsHolder DEF Pool!Idle, PoolOwners
    <2>4. PoolStates[id] = "open" \/ (PoolStates[id] = "taken" /\ PoolOwners[id] = Nobody)
      <3>1. CASE jobs[id].status \in {"pending", "failed"}
        BY <2>1, <3>1, StateOfStatus DEF PoolStates
      <3>2. CASE jobs[id].status = "running" /\ jobs[id].lease = "expired"
        <4>1. \A d \in Consumers : held[d] # id
          BY <2>1, <3>2 DEF IInv, HeldOK
        <4> QED
          BY <2>1, <3>2, <4>1, StateOfStatus, OwnerIsHolder DEF PoolStates, PoolOwners
      <3> QED
        BY <1>2, <3>1, <3>2 DEF ClaimCommit, IInv, SelectedOK, Runnable
    <2>5. Pool!Free(id)
      <3> SUFFICES ASSUME NEW i \in JobIds, PoolKeys[i] = PoolKeys[id], i # id
                   PROVE  PoolStates[i] # "taken"
        BY DEF Pool!Free
      <3>1. jobs[i].key = jobs[id].key
        BY <2>1 DEF PoolKeys
      <3>2. jobs[i].status # "running"
        BY <1>2, <3>1 DEF ClaimCommit, IndexConflict, ActiveRows
      <3> QED
        BY <2>2, <3>2, StateOfStatus DEF PoolStates
    <2>6. /\ Claimed(jobs[id]) \in Row
          /\ Claimed(jobs[id]).key = jobs[id].key
          /\ PoolState(Claimed(jobs[id])) = "taken"
      <3>1. Claimed(jobs[id]) \in Row
        BY <2>1 DEF Claimed
      <3>2. Claimed(jobs[id]).key = jobs[id].key /\ Claimed(jobs[id]).status = "running"
        BY DEF Claimed
      <3> QED
        BY <3>1, <3>2, StateOfStatus
    <2>7. PICK r \in Row : r = Claimed(jobs[id]) /\ jobs' = [jobs EXCEPT ![id] = r]
      BY <1>2, <2>6 DEF ClaimCommit
    <2>8. PoolStates' = [PoolStates EXCEPT ![id] = "taken"] /\ PoolKeys' = PoolKeys
      <3>1. r.key = jobs[id].key /\ PoolState(r) = "taken"
        BY <2>6, <2>7
      <3>2. PoolStates' = [PoolStates EXCEPT ![id] = PoolState(r)] /\ PoolKeys' = PoolKeys
        BY <2>1, <2>7, <3>1, OneRow, Zenon
      <3> QED
        BY <3>1, <3>2
    <2>9. PoolOwners' = [PoolOwners EXCEPT ![id] = c]
      BY <1>2, <2>1, OwnerGained DEF ClaimCommit
    <2>10. Pool!Take(c, id)
      BY <2>3, <2>4, <2>5, <2>8, <2>9, Zenon DEF Pool!Take
    <2> QED
      BY <2>1, <2>10, Zenon DEF Pool!Next
  <1> QED
    BY <1>1, <1>2 DEF Claim

\* A report settles the row.
LEMMA ReportPool ==
  ASSUME LeaseCoversWork, IInv, IInv', NEW c \in Consumers, Report(c)
  PROVE  Pool!Next
  <1> DEFINE id == held[c]
  <1>1. id \in JobIds /\ jobs[id] \in Row /\ id # NoJob
    BY DEF Report, Complete, Fail, IInv, TypeOK, HeldExists
  <1>2. PICK r \in {Completed(jobs[id]), Failed(jobs[id])} :
            jobs' = [jobs EXCEPT ![id] = r]
    BY DEF Report, Complete, Fail
  <1>3. r \in Row /\ r.key = jobs[id].key
    BY <1>1 DEF Completed, Failed
  <1>4. r.status \in {"succeeded", "dead", "failed"}
    BY <1>1 DEF Completed, Failed
  <1>5. PoolState(r) \in {"open", "done", "parked"}
    BY <1>3, <1>4, StateOfStatus
  <1>6. PoolStates' = [PoolStates EXCEPT ![id] = PoolState(r)] /\ PoolKeys' = PoolKeys
    BY <1>1, <1>2, <1>3, OneRow, Zenon
  <1>7. PoolOwners[id] = c /\ PoolOwners' = [PoolOwners EXCEPT ![id] = Nobody]
    BY <1>1, OwnerGone DEF Report, Complete, Fail
  <1>8. Pool!Settle(c, id, PoolState(r))
    BY <1>5, <1>6, <1>7, Zenon DEF Pool!Settle
  <1> QED
    BY <1>1, <1>5, <1>8, Zenon DEF Pool!Next

\* A crash or a lost report loses the row; a crash between two jobs is invisible.
LEMMA LosePool ==
  ASSUME LeaseCoversWork, IInv, IInv', NEW c \in Consumers, ReportLost(c) \/ Crash(c)
  PROVE  Pool!Next \/ UNCHANGED Pool!vars
  <1>0. UNCHANGED jobs /\ held' = [held EXCEPT ![c] = NoJob]
    BY DEF ReportLost, Crash
  <1>1. CASE held[c] = NoJob
    <2>1. UNCHANGED held
      BY <1>0, <1>1 DEF IInv, TypeOK
    <2> QED
      BY <1>0, <2>1, Invisible
  <1>2. CASE held[c] # NoJob
    <2>1. held[c] \in JobIds
      BY <1>2 DEF IInv, TypeOK
    <2>2. PoolKeys' = PoolKeys /\ PoolStates' = PoolStates
      BY <1>0 DEF PoolKeys, PoolStates
    <2>3. Pool!Lose(c, held[c])
      BY <1>0, <2>1, <2>2, OwnerGone DEF Pool!Lose
    <2> QED
      BY <2>1, <2>3, Zenon DEF Pool!Next
  <1> QED
    BY <1>1, <1>2

LEMMA NextPool ==
  ASSUME LeaseCoversWork, IInv, IInv', [Next]_vars
  PROVE  [Pool!Next]_(Pool!vars)
  <1>1. CASE UNCHANGED vars
    BY <1>1, Invisible DEF vars
  <1>2. CASE \E k \in Keys : Enqueue(k)
    BY <1>2, EnqueuePool
  <1>3. CASE \E c \in Consumers : Claim(c)
    BY <1>3, ClaimPool
  <1>4. CASE \E c \in Consumers : ClaimNone(c)
    BY <1>1, <1>4 DEF ClaimNone
  <1>5. CASE \E c \in Consumers : Heartbeat(c)
    <2>1. ASSUME NEW id \in JobIds
          PROVE  jobs'[id].key = jobs[id].key /\ jobs'[id].status = jobs[id].status
      BY <1>5 DEF Heartbeat, Extended, IInv, TypeOK
    <2> QED
      BY <1>5, <2>1, Invisible DEF Heartbeat
  <1>6. CASE \E c \in Consumers : Report(c)
    BY <1>6, ReportPool
  <1>7. CASE \E c \in Consumers : ReportLost(c) \/ Crash(c)
    BY <1>7, LosePool
  <1>8. CASE \E i \in JobIds : LeaseExpires(i)
    <2>1. ASSUME NEW id \in JobIds
          PROVE  jobs'[id].key = jobs[id].key /\ jobs'[id].status = jobs[id].status
      BY <1>8 DEF LeaseExpires, IInv, TypeOK
    <2> QED
      BY <1>8, <2>1, Invisible DEF LeaseExpires
  <1> QED
    BY <1>1, <1>2, <1>3, <1>4, <1>5, <1>6, <1>7, <1>8 DEF Next

LEMMA InitPool == Init => Pool!Init
  <1> SUFFICES ASSUME Init PROVE Pool!Init
    OBVIOUS
  <1>1. \A id \in JobIds : jobs[id] = Absent /\ PoolState(Absent) = "none"
    BY StateOfStatus DEF Init
  <1>2. \A id \in JobIds : PoolOwner(id) = Nobody
    BY DEF Init, PoolOwner
  <1> QED
    BY <1>1, <1>2 DEF Pool!Init, PoolKeys, PoolStates, PoolOwners
-----------------------------------------------------------------------------
\* If leases cover the work, whatever the queue does is something a pool may
\* do: one owner per job and per key, settled by its owner alone.
THEOREM QueueImplementsPool == LeaseCoversWork => (Spec => ImplementsPool)
  <1> SUFFICES ASSUME LeaseCoversWork PROVE Spec => ImplementsPool
    OBVIOUS
  <1>1. IInv /\ IInv' /\ [Next]_vars => [Pool!Next]_(Pool!vars)
    BY NextPool
  <1> QED
    BY Invariance, InitPool, <1>1, PTL DEF Spec, Pool!Spec, ImplementsPool
-----------------------------------------------------------------------------
(* The pipeline.                                                           *)

\* Positions between put's check and the marker.
Writing == {"create", "head", "tail", "sync", "mark"}

\* A worker about to report success has seen or written the marker.
OkIsMarked == \A c \in Consumers : step[c] = "ok" => marker[KeyOf(c)]

SyncedInFile == \A k \in Keys : synced[k] \subseteq file[k]

\* The bundle a worker writes is unmarked and holds what it wrote so far.
WriterOK ==
    \A c \in Consumers :
        /\ step[c] \in Writing => ~marker[KeyOf(c)]
        /\ step[c] = "tail" => "head" \in file[KeyOf(c)]
        /\ step[c] \in {"sync", "mark"} => file[KeyOf(c)] = Chunks
        /\ step[c] = "mark" => synced[KeyOf(c)] = Chunks

PInv ==
    /\ IInv
    /\ PTypeOK
    /\ SyncedInFile
    /\ OkIsMarked
    /\ SucceededIsAnalyzed
    /\ LeaseCoversWork => MarkedIsComplete /\ WriterOK
-----------------------------------------------------------------------------
USE DEF JobIds, NoJob, Status, Active, Terminal, Row, Absent, Chunks, Steps, Writing

\* The pipeline uses the queue through its methods only.
LEMMA StepOfQueue ==
  ASSUME PTypeOK, [PNext]_pvars
  PROVE  [Next]_vars
  <1>1. CASE UNCHANGED pvars
    BY <1>1 DEF pvars, vars
  <1>2. CASE \E S \in (SUBSET Keys) \ {{}} : AnalyzeRequest(S)
    BY <1>2 DEF AnalyzeRequest, vars
  <1>3. CASE \E k \in Keys : AnalyzeCheck(k)
    BY <1>3 DEF AnalyzeCheck, vars
  <1>4. CASE AnalyzeEnqueue
    BY <1>4 DEF AnalyzeEnqueue, PTypeOK, Next
  <1>5. CASE AnalyzeAbort
    BY <1>5 DEF AnalyzeAbort, vars
  <1>6. ASSUME NEW c \in Consumers, PClaim(c) PROVE Next
    BY <1>6 DEF PClaim, Next
  <1>7. ASSUME NEW c \in Consumers, Work(c) PROVE Next \/ UNCHANGED vars
    <2>1. CASE ReportOutcome(c)
      BY <2>1 DEF ReportOutcome, Report, Next
    <2>2. CASE CheckExists(c) \/ Decode(c) \/ Put(c)
      BY <2>2 DEF CheckExists, Decode, Put, PutCheck, CreateFile, WriteChunk,
          SyncFile, WriteMarker, PutError, vars
    <2> QED
      BY <1>7, <2>1, <2>2 DEF Work
  <1>8. ASSUME NEW c \in Consumers, OutcomeLost(c) PROVE Next
    BY <1>8 DEF OutcomeLost, Next
  <1>9. ASSUME NEW c \in Consumers, PCrash(c) PROVE Next
    BY <1>9 DEF PCrash, Next
  <1>10. ASSUME NEW id \in JobIds, PLeaseExpires(id) PROVE Next
    BY <1>10 DEF PLeaseExpires, Next
  <1> QED
    BY <1>1, <1>2, <1>3, <1>4, <1>5, <1>6, <1>7, <1>8, <1>9, <1>10 DEF PNext

\* Rows are never deleted and never change their key.
LEMMA KeysStay ==
  ASSUME IInv, [Next]_vars, NEW id \in JobIds, jobs[id] \in Row
  PROVE  jobs'[id].key = jobs[id].key
  <1> USE DEF IInv, TypeOK
  <1>1. CASE UNCHANGED vars
    BY <1>1 DEF vars
  <1>2. CASE \E k \in Keys : Enqueue(k)
    BY <1>2 DEF Enqueue, vars, NewRow
  <1>3. CASE \E c \in Consumers : Claim(c)
    <2> PICK c \in Consumers : Claim(c)
      BY <1>3
    <2>1. CASE ClaimCommit(c)
      <3>1. jobs'[id] = jobs[id] \/ jobs'[id] = Claimed(jobs[id])
        BY <2>1 DEF ClaimCommit
      <3> QED
        BY <3>1 DEF Claimed
    <2>2. CASE ClaimSelect(c) \/ ClaimError(c)
      BY <2>2 DEF ClaimSelect, ClaimError
    <2> QED
      BY <2>1, <2>2 DEF Claim
  <1>4. CASE \E c \in Consumers : Heartbeat(c)
    BY <1>4 DEF Heartbeat, Extended
  <1>5. CASE \E c \in Consumers : Report(c)
    <2> PICK c \in Consumers : Report(c)
      BY <1>5
    <2>1. jobs'[id] \in {jobs[id], Completed(jobs[id]), Failed(jobs[id])}
      BY DEF Report, Complete, Fail
    <2> QED
      BY <2>1 DEF Completed, Failed
  <1>6. CASE \E c \in Consumers : ClaimNone(c) \/ ReportLost(c) \/ Crash(c)
    BY <1>6 DEF ClaimNone, ReportLost, Crash, vars
  <1>7. CASE \E i \in JobIds : LeaseExpires(i)
    BY <1>7 DEF LeaseExpires
  <1> QED
    BY <1>1, <1>2, <1>3, <1>4, <1>5, <1>6, <1>7 DEF Next

\* Two workers at work have different keys.
LEMMA Exclusive ==
  ASSUME IInv, LeaseCoversWork,
         NEW c \in Consumers, NEW d \in Consumers, c # d,
         held[c] # NoJob, held[d] # NoJob
  PROVE  KeyOf(c) # KeyOf(d)
  BY DEF IInv, HeldOK, UniqueActive, TypeOK, KeyOf

LEMMA KeyOfType ==
  ASSUME IInv, NEW c \in Consumers, held[c] # NoJob
  PROVE  KeyOf(c) \in Keys /\ held[c] \in JobIds /\ jobs[held[c]] \in Row
  BY DEF IInv, HeldExists, TypeOK, KeyOf

\* A worker that keeps its job keeps its key.
LEMMA KeyOfStays ==
  ASSUME IInv, [Next]_vars, NEW c \in Consumers, held[c] # NoJob, held'[c] = held[c]
  PROVE  KeyOf(c)' = KeyOf(c)
  BY KeyOfType, KeysStay DEF KeyOf
-----------------------------------------------------------------------------
LEMMA InitPInv == PInit => PInv
  <1> SUFFICES ASSUME PInit PROVE PInv
    OBVIOUS
  <1>1. IInv
    BY InitIInv DEF PInit
  <1>2. PTypeOK
    BY <1>1 DEF PInit, Init, PTypeOK, IInv
  <1>3. SyncedInFile /\ OkIsMarked /\ MarkedIsComplete /\ WriterOK
    BY DEF PInit, SyncedInFile, OkIsMarked, MarkedIsComplete, WriterOK
  <1>4. SucceededIsAnalyzed
    BY DEF PInit, Init, SucceededIsAnalyzed, Absent
  <1> QED
    BY <1>1, <1>2, <1>3, <1>4 DEF PInv

\* Steps that leave the store alone: no row is completed without a marker, and
\* every worker stays where it is or is nowhere near the store.
LEMMA StoreUntouched ==
  ASSUME PInv, [Next]_vars, PTypeOK', UNCHANGED storeVars,
         \A c \in Consumers :
            (step'[c] = step[c] /\ held'[c] = held[c]) \/ step'[c] \in {"idle", "exists"},
         \A id \in JobIds :
            jobs'[id].status = "succeeded" =>
                \/ jobs[id].status = "succeeded" /\ jobs'[id].key = jobs[id].key
                \/ marker[jobs'[id].key]
  PROVE  PInv'
  <1> USE DEF storeVars
  <1>1. IInv'
    BY NextIInv DEF PInv
  <1>2. \A c \in Consumers :
            step'[c] \notin {"idle", "exists"} =>
                step'[c] = step[c] /\ KeyOf(c)' = KeyOf(c)
    BY KeyOfStays DEF PInv, PTypeOK
  <1>3. SyncedInFile' /\ (MarkedIsComplete => MarkedIsComplete')
    BY DEF PInv, SyncedInFile, MarkedIsComplete
  <1>4. OkIsMarked'
    BY <1>2 DEF PInv, OkIsMarked
  <1>5. WriterOK => WriterOK'
    BY <1>2 DEF WriterOK
  <1>6. SucceededIsAnalyzed'
    BY DEF PInv, SucceededIsAnalyzed
  <1> QED
    BY <1>1, <1>3, <1>4, <1>5, <1>6 DEF PInv

LEMMA GatewayPInv ==
  ASSUME PInv, [Next]_vars,
         \/ \E S \in (SUBSET Keys) \ {{}} : AnalyzeRequest(S)
         \/ \E k \in Keys : AnalyzeCheck(k)
         \/ AnalyzeEnqueue
         \/ AnalyzeAbort
  PROVE  PInv'
  <1>0. TypeOK'
    BY NextIInv DEF PInv, IInv
  <1>1. UNCHANGED <<storeVars, step, held>>
    BY DEF AnalyzeRequest, AnalyzeCheck, AnalyzeEnqueue, AnalyzeAbort, Enqueue, vars
  <1>2. PTypeOK'
    <2>1. /\ batch' \in SUBSET Keys
          /\ todo' \in SUBSET Keys
          /\ checked' \in Keys \cup {NoKey}
          /\ aborted' \in BOOLEAN
      BY DEF PInv, PTypeOK, AnalyzeRequest, AnalyzeCheck, AnalyzeEnqueue, AnalyzeAbort
    <2> QED
      BY <1>0, <1>1, <2>1 DEF PInv, PTypeOK, storeVars
  <1>3. \A id \in JobIds : jobs'[id] = jobs[id] \/ jobs'[id].status = "pending"
    <2>1. CASE UNCHANGED jobs
      BY <2>1
    <2>2. CASE Enqueue(checked)
      <3> SUFFICES ASSUME NEW i \in JobIds, jobs' = [jobs EXCEPT ![i] = NewRow(checked)]
                   PROVE  \A id \in JobIds :
                              jobs'[id] = jobs[id] \/ jobs'[id].status = "pending"
        BY <2>1, <2>2 DEF Enqueue, vars
      <3>1. NewRow(checked).status = "pending"
        BY DEF NewRow
      <3> QED
        BY <3>1 DEF PInv, IInv, TypeOK
    <2> QED
      BY <2>1, <2>2 DEF AnalyzeRequest, AnalyzeCheck, AnalyzeEnqueue, AnalyzeAbort, vars
  <1> QED
    BY <1>1, <1>2, <1>3, StoreUntouched

LEMMA ClaimPInv ==
  ASSUME PInv, [Next]_vars, NEW c \in Consumers, PClaim(c)
  PROVE  PInv'
  <1> USE DEF PClaim
  <1>0. TypeOK' /\ TypeOK
    BY NextIInv DEF PInv, IInv
  <1>1. UNCHANGED storeVars /\ UNCHANGED gatewayVars
    OBVIOUS
  <1>2. \A d \in Consumers : d # c => held'[d] = held[d]
    BY DEF Claim, ClaimSelect, ClaimCommit, ClaimError, PInv, IInv, TypeOK
  <1>3. PTypeOK'
    BY <1>0, <1>1, <1>2 DEF PInv, PTypeOK, storeVars, gatewayVars
  <1>4. \A d \in Consumers :
            (step'[d] = step[d] /\ held'[d] = held[d]) \/ step'[d] \in {"idle", "exists"}
    BY <1>2 DEF PInv, PTypeOK
  <1>5. \A id \in JobIds : jobs'[id] = jobs[id] \/ jobs'[id].status = "running"
    <2>1. \/ UNCHANGED jobs
          \/ jobs' = [jobs EXCEPT ![selected[c]] = Claimed(jobs[selected[c]])]
      BY DEF Claim, ClaimSelect, ClaimCommit, ClaimError
    <2>2. Claimed(jobs[selected[c]]).status = "running"
      BY DEF Claimed
    <2> QED
      BY <1>0, <2>1, <2>2 DEF TypeOK
  <1> QED
    BY <1>1, <1>3, <1>4, <1>5, StoreUntouched

LEMMA ReportPInv ==
  ASSUME PInv, [Next]_vars, NEW c \in Consumers, ReportOutcome(c) \/ OutcomeLost(c)
  PROVE  PInv'
  <1>0. TypeOK' /\ TypeOK
    BY NextIInv DEF PInv, IInv
  <1>1. /\ UNCHANGED storeVars /\ UNCHANGED gatewayVars
        /\ held[c] # NoJob
        /\ held' = [held EXCEPT ![c] = NoJob]
        /\ step' = [step EXCEPT ![c] = "idle"]
    BY DEF ReportOutcome, OutcomeLost, Complete, Fail, ReportLost
  <1>2. PTypeOK'
    BY <1>0, <1>1 DEF PInv, PTypeOK, TypeOK, storeVars, gatewayVars
  <1>3. \A d \in Consumers :
            (step'[d] = step[d] /\ held'[d] = held[d]) \/ step'[d] \in {"idle", "exists"}
    BY <1>0, <1>1 DEF PInv, PTypeOK, TypeOK
  <1>4. ASSUME NEW id \in JobIds, jobs'[id].status = "succeeded"
        PROVE  \/ jobs[id].status = "succeeded" /\ jobs'[id].key = jobs[id].key
               \/ marker[jobs'[id].key]
    <2>1. CASE jobs'[id] = jobs[id]
      BY <1>4, <2>1
    <2>2. CASE id = held[c] /\ step[c] = "ok" /\ jobs'[id] = Completed(jobs[id])
      <3>1. jobs'[id].key = KeyOf(c)
        BY <2>2, KeysStay, KeyOfType DEF PInv, KeyOf
      <3> QED
        BY <2>2, <3>1 DEF PInv, OkIsMarked
    <2>3. CASE jobs'[id] = Failed(jobs[id])
      <3>1. jobs[id] \in Row \cup {Absent}
        BY <1>0 DEF TypeOK
      <3> QED
        BY <1>4, <2>3, <3>1 DEF Failed
    <2> QED
      BY <1>0, <2>1, <2>2, <2>3
      DEF ReportOutcome, OutcomeLost, Complete, Fail, ReportLost, TypeOK
  <1> QED
    BY <1>1, <1>2, <1>3, <1>4, StoreUntouched

LEMMA LeasePInv ==
  ASSUME PInv, [Next]_vars, NEW i \in JobIds, PLeaseExpires(i)
  PROVE  PInv'
  <1>0. TypeOK' /\ TypeOK
    BY NextIInv DEF PInv, IInv
  <1>1. UNCHANGED <<storeVars, gatewayVars, step, held>>
    BY DEF PLeaseExpires, LeaseExpires
  <1>2. PTypeOK'
    BY <1>0, <1>1 DEF PInv, PTypeOK, storeVars, gatewayVars
  <1>3. \A id \in JobIds : jobs'[id] = jobs[id] \/ jobs'[id].status = "running"
    BY <1>0 DEF PLeaseExpires, LeaseExpires, TypeOK
  <1> QED
    BY <1>1, <1>2, <1>3, StoreUntouched
-----------------------------------------------------------------------------
(* The steps on the store. *)

\* What they have in common: the queue stays as it is, c works on a job, and
\* only the bundle of c's key changes.
LEMMA StoreStep ==
  ASSUME PInv, NEW c \in Consumers, UNCHANGED <<vars, gatewayVars>>,
         step[c] # "idle",
         NEW to \in Steps, to # "idle", step' = [step EXCEPT ![c] = to],
         file' \in [Keys -> SUBSET Chunks],
         synced' \in [Keys -> SUBSET Chunks],
         marker' \in [Keys -> BOOLEAN],
         SyncedInFile',
         \A k \in Keys : marker[k] => marker'[k],
         to = "ok" => marker'[KeyOf(c)],
         \A k \in Keys \ {KeyOf(c)} :
            file'[k] = file[k] /\ synced'[k] = synced[k] /\ marker'[k] = marker[k],
         LeaseCoversWork =>
            /\ marker'[KeyOf(c)] => file'[KeyOf(c)] = Chunks /\ synced'[KeyOf(c)] = Chunks
            /\ to \in Writing => ~marker'[KeyOf(c)]
            /\ to = "tail" => "head" \in file'[KeyOf(c)]
            /\ to \in {"sync", "mark"} => file'[KeyOf(c)] = Chunks
            /\ to = "mark" => synced'[KeyOf(c)] = Chunks
  PROVE  PInv'
  <1>1. IInv'
    BY NextIInv DEF PInv
  <1>2. \A d \in Consumers : KeyOf(d)' = KeyOf(d) /\ held'[d] = held[d]
    BY DEF vars, KeyOf
  <1>3. held[c] # NoJob /\ KeyOf(c) \in Keys
    BY KeyOfType DEF PInv, PTypeOK
  <1>4. PTypeOK'
    BY <1>1, <1>2, <1>3 DEF PInv, PTypeOK, IInv, gatewayVars
  <1>5. \A d \in Consumers : d # c => step'[d] = step[d]
    BY DEF PInv, PTypeOK
  <1>6. step'[c] = to
    BY DEF PInv, PTypeOK
  <1>7. OkIsMarked'
    <2> SUFFICES ASSUME NEW d \in Consumers, step'[d] = "ok"
                 PROVE  marker'[KeyOf(d)]
      BY <1>2 DEF OkIsMarked
    <2>1. CASE d = c
      BY <2>1, <1>6
    <2>2. CASE d # c
      <3>1. KeyOf(d) \in Keys
        BY <2>2, <1>5, KeyOfType DEF PInv, PTypeOK
      <3> QED
        BY <2>2, <3>1, <1>5 DEF PInv, OkIsMarked
    <2> QED
      BY <2>1, <2>2
  <1>8. SucceededIsAnalyzed'
    BY DEF PInv, SucceededIsAnalyzed, vars, IInv, TypeOK
  <1>9. ASSUME LeaseCoversWork PROVE MarkedIsComplete'
    BY <1>9, <1>3 DEF PInv, MarkedIsComplete
  <1>10. ASSUME LeaseCoversWork PROVE WriterOK'
    <2> SUFFICES ASSUME NEW d \in Consumers, step'[d] \in Writing
                 PROVE  /\ ~marker'[KeyOf(d)]
                        /\ step'[d] = "tail" => "head" \in file'[KeyOf(d)]
                        /\ step'[d] \in {"sync", "mark"} => file'[KeyOf(d)] = Chunks
                        /\ step'[d] = "mark" => synced'[KeyOf(d)] = Chunks
      BY <1>2 DEF WriterOK
    <2>1. CASE d = c
      BY <2>1, <1>6, <1>10
    <2>2. CASE d # c
      <3>1. held[d] # NoJob
        BY <2>2, <1>5 DEF PInv, PTypeOK
      <3>2. KeyOf(d) \in Keys \ {KeyOf(c)}
        BY <2>2, <3>1, <1>3, <1>10, KeyOfType, Exclusive DEF PInv
      <3> QED
        BY <2>2, <3>2, <1>5, <1>10 DEF PInv, WriterOK
    <2> QED
      BY <2>1, <2>2
  <1> QED
    BY <1>1, <1>4, <1>7, <1>8, <1>9, <1>10 DEF PInv

\* Steps that only look or fail.
LEMMA LookPInv ==
  ASSUME PInv, NEW c \in Consumers,
         CheckExists(c) \/ Decode(c) \/ PutCheck(c) \/ PutError(c)
  PROVE  PInv'
  <1> USE DEF storeVars
  <1>1. step[c] # "idle" /\ UNCHANGED <<vars, gatewayVars>> /\ UNCHANGED storeVars
    BY DEF CheckExists, Decode, PutCheck, PutError, Goto
  <1>2. KeyOf(c) \in Keys
    BY <1>1, KeyOfType DEF PInv, PTypeOK
  <1>3. PICK to \in {"ok", "decode", "put", "create", "error"} :
            /\ step' = [step EXCEPT ![c] = to]
            /\ to = "ok" => marker[KeyOf(c)]
            /\ to = "create" => ~marker[KeyOf(c)]
    BY DEF CheckExists, Decode, PutCheck, PutError, Goto
  <1>4. SyncedInFile'
    BY <1>1 DEF PInv, SyncedInFile
  <1> QED
    BY <1>1, <1>2, <1>3, <1>4, StoreStep DEF PInv, PTypeOK, MarkedIsComplete

LEMMA CreatePInv ==
  ASSUME PInv, NEW c \in Consumers, CreateFile(c)
  PROVE  PInv'
  <1> USE DEF CreateFile, Goto
  <1>1. KeyOf(c) \in Keys
    BY KeyOfType DEF PInv, PTypeOK
  <1>2. SyncedInFile'
    BY <1>1 DEF PInv, PTypeOK, SyncedInFile
  <1> QED
    BY <1>1, <1>2, StoreStep DEF PInv, PTypeOK, WriterOK

LEMMA ChunkPInv ==
  ASSUME PInv, NEW c \in Consumers, WriteChunk(c)
  PROVE  PInv'
  <1> USE DEF WriteChunk, Goto
  <1>1. KeyOf(c) \in Keys
    BY KeyOfType DEF PInv, PTypeOK
  <1>2. SyncedInFile'
    BY <1>1 DEF PInv, PTypeOK, SyncedInFile
  <1>3. file' \in [Keys -> SUBSET Chunks]
    BY <1>1 DEF PInv, PTypeOK
  <1>4. PICK to \in {"tail", "sync"} :
            /\ step' = [step EXCEPT ![c] = to]
            /\ to = "tail" <=> step[c] = "head"
            /\ to = "sync" <=> step[c] = "tail"
    OBVIOUS
  <1>5. /\ to = "tail" => "head" \in file'[KeyOf(c)]
        /\ LeaseCoversWork /\ to = "sync" => file'[KeyOf(c)] = Chunks
    BY <1>1, <1>3, <1>4 DEF PInv, PTypeOK, WriterOK
  <1>6. LeaseCoversWork => ~marker[KeyOf(c)]
    BY DEF PInv, WriterOK
  <1>7. \A k \in Keys \ {KeyOf(c)} : file'[k] = file[k]
    BY DEF PInv, PTypeOK
  <1> QED
    BY <1>1, <1>2, <1>3, <1>4, <1>5, <1>6, <1>7, StoreStep DEF PInv, PTypeOK

LEMMA SyncPInv ==
  ASSUME PInv, NEW c \in Consumers, SyncFile(c)
  PROVE  PInv'
  <1> USE DEF SyncFile, Goto
  <1>1. KeyOf(c) \in Keys
    BY KeyOfType DEF PInv, PTypeOK
  <1>2. SyncedInFile'
    BY <1>1 DEF PInv, PTypeOK, SyncedInFile
  <1> QED
    BY <1>1, <1>2, StoreStep DEF PInv, PTypeOK, WriterOK

LEMMA MarkPInv ==
  ASSUME PInv, NEW c \in Consumers, WriteMarker(c)
  PROVE  PInv'
  <1> USE DEF WriteMarker, Goto
  <1>1. KeyOf(c) \in Keys
    BY KeyOfType DEF PInv, PTypeOK
  <1>2. SyncedInFile'
    BY <1>1 DEF PInv, PTypeOK, SyncedInFile
  <1> QED
    BY <1>1, <1>2, StoreStep DEF PInv, PTypeOK, WriterOK

-----------------------------------------------------------------------------
\* A crash can only cost a worker what it has not flushed, hence nothing of a
\* marked bundle.
LEMMA CrashLoss ==
  ASSUME PInv, NEW c \in Consumers, PCrash(c)
  PROVE  /\ file' \in [Keys -> SUBSET Chunks]
         /\ \A k \in Keys : synced[k] \subseteq file'[k]
         /\ \A k \in Keys :
                file'[k] = file[k] \/ (step[c] \in Writing /\ k = KeyOf(c))
  <1>1. PICK lost \in SUBSET Unflushed(c) :
            file' = [k \in Keys |->
                IF held[c] # NoJob /\ k = KeyOf(c) THEN file[k] \ (lost \ synced[k])
                                                  ELSE file[k]]
    BY DEF PCrash
  <1>2. file \in [Keys -> SUBSET Chunks]
    BY DEF PInv, PTypeOK
  <1>3. \A k \in Keys : synced[k] \subseteq file[k]
    BY DEF PInv, SyncedInFile
  <1>4. step[c] \notin {"sync", "tail"} => lost = {}
    BY <1>1 DEF Unflushed
  <1> QED
    BY <1>1, <1>2, <1>3, <1>4

LEMMA CrashPInv ==
  ASSUME PInv, [Next]_vars, NEW c \in Consumers, PCrash(c)
  PROVE  PInv'
  <1>1. IInv'
    BY NextIInv DEF PInv
  <1>2. /\ UNCHANGED <<synced, marker, gatewayVars, jobs>>
        /\ held' = [held EXCEPT ![c] = NoJob]
        /\ step' = [step EXCEPT ![c] = "idle"]
    BY DEF PCrash, Crash
  <1>3. PTypeOK'
    BY <1>1, <1>2, CrashLoss DEF PInv, PTypeOK, IInv, TypeOK, gatewayVars
  <1>4. \A d \in Consumers :
            step'[d] # "idle" =>
                d # c /\ step'[d] = step[d] /\ KeyOf(d)' = KeyOf(d) /\ held[d] # NoJob
    BY <1>2 DEF PInv, PTypeOK, IInv, TypeOK, KeyOf
  <1>5. SyncedInFile'
    BY <1>2, CrashLoss DEF SyncedInFile
  <1>6. OkIsMarked' /\ SucceededIsAnalyzed'
    BY <1>2, <1>4 DEF PInv, OkIsMarked, SucceededIsAnalyzed
  <1>7. ASSUME LeaseCoversWork PROVE MarkedIsComplete' /\ WriterOK'
    <2>1. \A k \in Keys : marker[k] => file'[k] = file[k]
      BY <1>7, CrashLoss DEF PInv, WriterOK
    <2>2. \A d \in Consumers : step'[d] # "idle" => file'[KeyOf(d)] = file[KeyOf(d)]
      <3> SUFFICES ASSUME NEW d \in Consumers, step'[d] # "idle"
                   PROVE  file'[KeyOf(d)] = file[KeyOf(d)]
        OBVIOUS
      <3>1. KeyOf(d) \in Keys
        BY <1>4, KeyOfType DEF PInv
      <3>2. held[c] # NoJob => KeyOf(d) # KeyOf(c)
        BY <1>4, <1>7, Exclusive DEF PInv
      <3>3. step[c] \in Writing => held[c] # NoJob
        BY DEF PInv, PTypeOK
      <3> QED
        BY <3>1, <3>2, <3>3, CrashLoss
    <2>3. MarkedIsComplete'
      BY <1>2, <1>7, <2>1 DEF PInv, MarkedIsComplete
    <2>4. WriterOK'
      BY <1>2, <1>4, <1>7, <2>2 DEF PInv, WriterOK
    <2> QED
      BY <2>3, <2>4
  <1> QED
    BY <1>1, <1>3, <1>5, <1>6, <1>7 DEF PInv

LEMMA NextPInv == PInv /\ [PNext]_pvars => PInv'
  <1> SUFFICES ASSUME PInv, [PNext]_pvars
               PROVE  PInv'
    OBVIOUS
  <1>0. [Next]_vars
    BY StepOfQueue DEF PInv
  <1>1. CASE UNCHANGED pvars
    BY <1>1, <1>0, NextIInv DEF pvars, vars, storeVars, gatewayVars, PInv, IInv,
        PTypeOK, SyncedInFile, OkIsMarked, SucceededIsAnalyzed, MarkedIsComplete,
        WriterOK, KeyOf
  <1>2. CASE \/ \E S \in (SUBSET Keys) \ {{}} : AnalyzeRequest(S)
             \/ \E k \in Keys : AnalyzeCheck(k)
             \/ AnalyzeEnqueue
             \/ AnalyzeAbort
    BY <1>0, <1>2, GatewayPInv
  <1>3. ASSUME NEW c \in Consumers, PClaim(c) PROVE PInv'
    BY <1>0, <1>3, ClaimPInv
  <1>4. ASSUME NEW c \in Consumers, Work(c) PROVE PInv'
    BY <1>0, <1>4, LookPInv, CreatePInv, ChunkPInv, SyncPInv, MarkPInv, ReportPInv
    DEF Work, Put
  <1>5. ASSUME NEW c \in Consumers, OutcomeLost(c) PROVE PInv'
    BY <1>0, <1>5, ReportPInv
  <1>6. ASSUME NEW c \in Consumers, PCrash(c) PROVE PInv'
    BY <1>0, <1>6, CrashPInv
  <1>7. ASSUME NEW id \in JobIds, PLeaseExpires(id) PROVE PInv'
    BY <1>0, <1>7, LeasePInv
  <1> QED
    BY <1>1, <1>2, <1>3, <1>4, <1>5, <1>6, <1>7 DEF PNext
-----------------------------------------------------------------------------
\* Every reachable state of the pipeline satisfies the inductive invariant.
THEOREM PipelineInvariance == PSpec => []PInv
  <1> QED
    BY InitPInv, NextPInv, PTL DEF PSpec

\* Gateway, workers, store and queue keep their types, and a worker is idle
\* exactly when it holds no job.
THEOREM PipelineTypeCorrect == PSpec => []PTypeOK
  <1>1. PInv => PTypeOK
    BY DEF PInv
  <1> QED
    BY PipelineInvariance, <1>1, PTL

\* What the pipeline does to the jobs table is what the job queue allows, so
\* every theorem about the queue holds of it.
THEOREM PipelineUsesQueue == PSpec => Spec
  <1>1. PInit => Init
    BY DEF PInit
  <1>2. PInv /\ [PNext]_pvars => [Next]_vars
    BY StepOfQueue DEF PInv
  <1> QED
    BY PipelineInvariance, <1>1, <1>2, PTL DEF PSpec, Spec

\* If leases cover the work, .complete stands beside a whole, flushed file,
\* whatever crashes and retries happened (ArtifactStore::put).
THEOREM MarkerIsTruthful == LeaseCoversWork => (PSpec => []MarkedIsComplete)
  <1> SUFFICES ASSUME LeaseCoversWork PROVE PSpec => []MarkedIsComplete
    OBVIOUS
  <1>1. PInv => MarkedIsComplete
    BY DEF PInv
  <1> QED
    BY PipelineInvariance, <1>1, PTL

\* A succeeded job has its bundle, with or without leases that cover the work
\* (Worker::process reports after put has returned).
THEOREM SuccessMeansAnalyzed == PSpec => []SucceededIsAnalyzed
  <1>1. PInv => SucceededIsAnalyzed
    BY DEF PInv
  <1> QED
    BY PipelineInvariance, <1>1, PTL

\* If leases cover the work, a marked bundle is never written again.
THEOREM MarkedIsFinal == LeaseCoversWork => (PSpec => NoRewrite)
  <1> SUFFICES ASSUME LeaseCoversWork PROVE PSpec => NoRewrite
    OBVIOUS
  <1>1. PInv /\ [PNext]_pvars
            => [\A k \in Keys : marker[k] => file'[k] = file[k]]_pvars
    <2> SUFFICES ASSUME PInv, PNext, NEW k \in Keys, marker[k]
                 PROVE  file'[k] = file[k]
      OBVIOUS
    <2>1. ASSUME NEW c \in Consumers, CreateFile(c) \/ WriteChunk(c)
          PROVE  file'[k] = file[k]
      <3>1. KeyOf(c) # k
        BY <2>1 DEF CreateFile, WriteChunk, Goto, PInv, WriterOK
      <3> QED
        BY <2>1, <3>1 DEF CreateFile, WriteChunk, PInv, PTypeOK
    <2>2. ASSUME NEW c \in Consumers, PCrash(c)
          PROVE  file'[k] = file[k]
      BY <2>2, CrashLoss DEF PInv, WriterOK
    <2>3. \/ UNCHANGED file
          \/ \E c \in Consumers : CreateFile(c) \/ WriteChunk(c)
          \/ \E c \in Consumers : PCrash(c)
      BY DEF PNext, AnalyzeRequest, AnalyzeCheck, AnalyzeEnqueue, AnalyzeAbort,
          PClaim, Work, CheckExists, Decode, Put, PutCheck, SyncFile, WriteMarker,
          PutError, ReportOutcome, OutcomeLost, PLeaseExpires, storeVars
    <2> QED
      BY <2>1, <2>2, <2>3
  <1> QED
    BY PipelineInvariance, <1>1, PTL DEF PSpec, NoRewrite
-----------------------------------------------------------------------------
(* What an /analyze request that was answered leaves behind. *)

HasJob(k) == \E id \in JobIds : jobs[id].key = k

\* A hash of a batch that did not abort is still to be looked at, about to be
\* enqueued, analyzed, or in the queue.
BatchInv ==
    ~aborted => \A k \in batch : k \in todo \/ checked = k \/ marker[k] \/ HasJob(k)

\* Rows are never deleted and markers never removed.
LEMMA JobsAndMarkersStay ==
  ASSUME PInv, [PNext]_pvars, NEW k \in Keys
  PROVE  /\ HasJob(k) => HasJob(k)'
         /\ marker[k] => marker'[k]
  <1>1. ASSUME HasJob(k) PROVE HasJob(k)'
    <2> PICK id \in JobIds : jobs[id].key = k
      BY <1>1 DEF HasJob
    <2>1. jobs[id] \in Row
      BY NoKeyAssumption DEF PInv, IInv, TypeOK
    <2>2. [Next]_vars
      BY StepOfQueue DEF PInv
    <2> QED
      BY <2>1, <2>2, KeysStay DEF PInv, HasJob
  <1>2. \/ UNCHANGED marker
        \/ \E c \in Consumers : marker' = [marker EXCEPT ![KeyOf(c)] = TRUE]
    BY DEF PNext, AnalyzeRequest, AnalyzeCheck, AnalyzeEnqueue, AnalyzeAbort,
        PClaim, Work, CheckExists, Decode, Put, PutCheck, CreateFile, WriteChunk,
        SyncFile, WriteMarker, PutError, ReportOutcome, OutcomeLost, PCrash,
        PLeaseExpires, storeVars, pvars
  <1> QED
    BY <1>1, <1>2 DEF PInv, PTypeOK

LEMMA EnqueueHasJob ==
  ASSUME PInv, NEW k \in Keys, Enqueue(k)
  PROVE  HasJob(k)'
  <1>1. CASE ActiveRows(k) # {} /\ UNCHANGED vars
    BY <1>1 DEF ActiveRows, HasJob, vars
  <1>2. CASE \E id \in JobIds : jobs' = [jobs EXCEPT ![id] = NewRow(k)]
    BY <1>2 DEF HasJob, NewRow, PInv, IInv, TypeOK
  <1> QED
    BY <1>1, <1>2 DEF Enqueue

LEMMA NextBatchInv == PInv /\ BatchInv /\ [PNext]_pvars => BatchInv'
  <1> SUFFICES ASSUME PInv, BatchInv, [PNext]_pvars, ~aborted', NEW k \in batch'
               PROVE  k \in todo' \/ checked' = k \/ marker'[k] \/ HasJob(k)'
    BY DEF BatchInv
  <1>1. CASE \E S \in (SUBSET Keys) \ {{}} : AnalyzeRequest(S)
    BY <1>1 DEF AnalyzeRequest
  <1>2. CASE ~ \E S \in (SUBSET Keys) \ {{}} : AnalyzeRequest(S)
    <2>1. batch' = batch /\ aborted' = aborted
      BY <1>2 DEF PNext, AnalyzeCheck, AnalyzeEnqueue, AnalyzeAbort,
          PClaim, Work, CheckExists, Decode, Put, PutCheck, CreateFile, WriteChunk,
          SyncFile, WriteMarker, PutError, ReportOutcome, OutcomeLost, PCrash,
          PLeaseExpires, gatewayVars, pvars
    <2>2. k \in Keys /\ k # NoKey
      BY <2>1, NoKeyAssumption DEF PInv, PTypeOK
    <2>3. CASE marker[k] \/ HasJob(k)
      BY <2>2, <2>3, JobsAndMarkersStay
    <2>4. CASE k \in todo \/ checked = k
      <3>1. ASSUME NEW h \in Keys, AnalyzeCheck(h)
            PROVE  k \in todo' \/ checked' = k \/ marker'[k]
        BY <3>1, <2>2, <2>4 DEF AnalyzeCheck, storeVars
      <3>2. CASE AnalyzeEnqueue
        <4>1. CASE checked = k
          BY <3>2, <4>1, <2>2, EnqueueHasJob DEF AnalyzeEnqueue
        <4>2. CASE k \in todo
          BY <3>2, <4>2 DEF AnalyzeEnqueue
        <4> QED
          BY <2>4, <4>1, <4>2
      <3>3. CASE UNCHANGED <<todo, checked>>
        BY <3>3, <2>4
      <3>4. ~AnalyzeAbort
        BY DEF AnalyzeAbort
      <3> QED
        BY <1>2, <3>1, <3>2, <3>3, <3>4
        DEF PNext, PClaim, Work, CheckExists, Decode, Put, PutCheck, CreateFile,
            WriteChunk, SyncFile, WriteMarker, PutError, ReportOutcome, OutcomeLost,
            PCrash, PLeaseExpires, gatewayVars, pvars
    <2> QED
      BY <2>1, <2>3, <2>4 DEF BatchInv
  <1> QED
    BY <1>1, <1>2

\* An /analyze request that was answered has left every hash of its batch with
\* a bundle or a job (routes.rs, analyze: batch row first, then the loop).
THEOREM AnsweredBatchIsQueued == PSpec => []BatchIsQueued
  <1>1. PInit => BatchInv
    BY DEF PInit, BatchInv
  <1>2. PInv /\ BatchInv => BatchIsQueued
    BY NoKeyAssumption DEF PInv, PTypeOK, BatchInv, BatchIsQueued, HasJob
  <1> QED
    BY PipelineInvariance, NextBatchInv, <1>1, <1>2, PTL DEF PSpec
=============================================================================
