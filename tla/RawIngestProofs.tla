-------------------------- MODULE RawIngestProofs --------------------------
(***************************************************************************)
(* Theorems about RawIngest, for any number of uploads, Drive files,       *)
(* chunks and faults.  RInv says besides the properties how an upload's    *)
(* file comes about (RecvOK, HashOK), whose inode a name in the store      *)
(* points to (InodesOK), who can still write to it (WholeOK: some writer   *)
(* of an inode has everything it copied in there; NamedOK: without a       *)
(* contest a file in its place is not written to any more) and when        *)
(* <hash>.tmp can be gone before its time (ContestOK).                     *)
(***************************************************************************)
EXTENDS RawIngest, TLAPS

Early == {"idle", "recv", "store"}

\* A Drive file in a run with a fault.
Excused(u) == u \in Drives /\ faults > 0

\* The temp file holds what was handed to it, but for a write under way or lost.
RecvOK ==
    \A u \in Uploads :
        /\ fly[u] => temp[u] = got[u] - 1
        /\ faults = 0 /\ ~fly[u] => temp[u] = got[u]
        /\ WritesLand /\ fly[u] => hash[u] = NoHash

\* The hash is of what was received, all of it but for a broken Drive stream.
HashOK ==
    \A u \in Uploads :
        /\ pc[u] \in {"idle", "recv"} => hash[u] = NoHash
        /\ pc[u] = "failed" => hash[u] \in {NoHash, got[u]}
        /\ pc[u] \notin {"idle", "recv", "failed"} =>
              /\ hash[u] = got[u]
              /\ got[u] = NumChunks \/ Excused(u)
        /\ pc[u] \in {"enqueue"} \cup Succeeded => hash[u] \in tracks \/ Excused(u)

FilesOK ==
    /\ TrackHasFile
    /\ \A u \in Uploads : pc[u] \in {"upsert", "enqueue"} \cup Succeeded => target[hash[u]] # NoFile

\* An inode belongs to the hash of the upload that created it, and so do the
\* names that point to it and the descriptors that write to it.
InodesOK ==
    /\ \A u \in Uploads : pc[u] \in Early => fd[u] = NoFile /\ copied[u] = 0
    /\ \A u \in Uploads : pc[u] \in {"copy", "rename"} => fd[u] # NoFile
    /\ \A u \in Uploads : fd[u] # NoFile =>
          ~sameDevice /\ hash[u] \in Hashes /\ hash[fd[u]] = hash[u] /\ fd[fd[u]] = fd[u]
    /\ \A k \in Hashes : dest_tmp[k] # NoFile =>
          hash[dest_tmp[k]] = k /\ fd[dest_tmp[k]] = dest_tmp[k]
    /\ \A k \in Hashes : target[k] # NoFile =>
          /\ hash[target[k]] = k /\ pc[target[k]] \notin Early
          /\ ~sameDevice => fd[target[k]] = target[k]

ContestOK ==
    \A u \in Uploads :
        pc[u] \in {"copy", "rename"} => dest_tmp[hash[u]] = fd[u] \/ Contested(hash[u])

NamedOK ==
    ~sameDevice => \A k \in Hashes :
        target[k] # NoFile => Contested(k) \/ pc[target[k]] \notin {"copy", "rename"}

\* The copy of u is over, and no fault ended it.
Copied(u) == fd[u] # NoFile /\ pc[u] # "copy" /\ (pc[u] = "failed" => faults = 0)

\* An inode has what the last upload to open it has copied, and nothing that is
\* not in the file.
WholeOK ==
    WritesLand =>
        /\ \A u \in Uploads : fd[u] # NoFile => copied[u] <= temp[u]
        /\ \A u \in Uploads : Copied(u) => copied[u] = temp[u]
        /\ \A i \in Uploads : fd[i] = i =>
              /\ data[i] \subseteq 1..hash[i]
              /\ \E u \in Uploads : fd[u] = i /\ 1..copied[u] \subseteq data[i]

\* Without a fault there is only one hash to enqueue.
JobsOK ==
    /\ DeadForAReason
    /\ faults = 0 => queued \subseteq {NumChunks}

RInv ==
    /\ TypeOK
    /\ RecvOK
    /\ HashOK
    /\ FilesOK
    /\ InodesOK
    /\ ContestOK
    /\ FailsForAReason
    /\ NamedOK
    /\ WholeOK
    /\ JobsOK
-----------------------------------------------------------------------------
USE NumChunksAssumption, NoFileAssumption, NoHashAssumption, RawFaultsAssumption,
    WritesLandAssumption
    DEF Chunks, Hashes, Stages, Ended, Succeeded, Early, Goto, Fault, Excused, setting

LEMMA InitRInv == Init => RInv
  <1> SUFFICES ASSUME Init PROVE RInv
    OBVIOUS
  <1> USE DEF Init
  <1>1. TypeOK
    BY DEF TypeOK
  <1>2. RecvOK /\ HashOK
    BY DEF RecvOK, HashOK
  <1>3. FilesOK /\ InodesOK /\ ContestOK /\ FailsForAReason
    BY DEF FilesOK, TrackHasFile, InodesOK, ContestOK, FailsForAReason
  <1>4. NamedOK /\ WholeOK /\ JobsOK
    BY DEF NamedOK, WholeOK, Copied, JobsOK, DeadForAReason
  <1> QED
    BY <1>1, <1>2, <1>3, <1>4 DEF RInv

\* Faults are only counted up, and the directories stay where they are.
LEMMA FaultsGrow ==
  ASSUME TypeOK, [Next]_vars
  PROVE  /\ faults' \in 0..MaxFaults /\ faults <= faults'
         /\ sameDevice' = sameDevice /\ audio' = audio
  <1>0. faults \in 0..MaxFaults
    BY DEF TypeOK
  <1>1. CASE UNCHANGED <<faults, setting>>
    BY <1>0, <1>1
  <1>2. CASE Crash \/ \E u \in Uploads :
               WriteFails(u) \/ ClientGone(u) \/ BodyRead(u) \/ CopyFails(u)
               \/ UpsertTrack(u) \/ EnqueueAnalysis(u)
    BY <1>0, <1>2
    DEF Crash, WriteFails, ClientGone, BodyRead, Dropped, CopyFails, UpsertTrack, EnqueueAnalysis
  <1>3. CASE \E k \in Hashes : Analyze(k)
    BY <1>0, <1>3 DEF Analyze
  <1> QED
    BY <1>1, <1>2, <1>3 DEF Next, vars, Begin, Handle, Receive, WriteLands, Store, RenameTemp,
        CopyOpen, CopyChunk, CopyEnd, RenameTmp

LEMMA TypesKept ==
  ASSUME RInv, [Next]_vars
  PROVE  TypeOK'
  <1>0. TypeOK /\ RecvOK /\ HashOK /\ InodesOK /\ faults' \in 0..MaxFaults
        /\ sameDevice' \in BOOLEAN /\ audio' \in BOOLEAN
    BY FaultsGrow DEF RInv, TypeOK
  <1> USE DEF TypeOK
  <1>1. CASE UNCHANGED vars
    BY <1>0, <1>1 DEF vars, tempVars, copyVars, fileVars, dbVars
  <1>2. ASSUME NEW u \in Uploads, Begin(u) PROVE TypeOK'
    BY <1>0, <1>2 DEF Begin, tempVars, copyVars, fileVars, dbVars
  <1>3. ASSUME NEW u \in Uploads, Receive(u) PROVE TypeOK'
    <2>1. CASE pc' = [pc EXCEPT ![u] = "failed"] /\ UNCHANGED <<got, fly>>
      BY <1>0, <1>3, <2>1 DEF Receive, copyVars, fileVars, dbVars
    <2>2. CASE /\ temp[u] = got[u] /\ UNCHANGED pc
               /\ got' = [got EXCEPT ![u] = @ + 1] /\ fly' = [fly EXCEPT ![u] = TRUE]
      <3>0. got[u] \in 0..NumChunks /\ got[u] < NumChunks
        BY <1>0, <1>3 DEF Receive
      <3>1. got[u] + 1 \in 0..NumChunks /\ temp[u] = (got[u] + 1) - 1
        BY <2>2, <3>0
      <3>2. got' \in [Uploads -> 0..NumChunks] /\ \A v \in Uploads : temp[v] \in {got'[v], got'[v] - 1}
        BY <1>0, <2>2, <3>1
      <3> QED
        BY <1>0, <1>3, <2>2, <3>2 DEF Receive, copyVars, fileVars, dbVars
    <2> QED
      BY <1>3, <2>1, <2>2 DEF Receive
  <1>4. ASSUME NEW u \in Uploads, WriteLands(u) PROVE TypeOK'
    <2>1. temp[u] + 1 = got[u]
      BY <1>0, <1>4 DEF WriteLands, RecvOK
    <2>2. temp' \in [Uploads -> 0..NumChunks] /\ \A v \in Uploads : temp'[v] \in {got[v], got[v] - 1}
      BY <1>0, <1>4, <2>1 DEF WriteLands
    <2> QED
      BY <1>0, <1>4, <2>2 DEF WriteLands, copyVars, fileVars, dbVars
  <1>5. ASSUME NEW u \in Uploads, WriteFails(u) \/ ClientGone(u) \/ CopyFails(u) PROVE TypeOK'
    BY <1>0, <1>5 DEF WriteFails, ClientGone, CopyFails, tempVars, copyVars, fileVars, dbVars
  <1>6. ASSUME NEW u \in Uploads, BodyRead(u) PROVE TypeOK'
    BY <1>0, <1>6 DEF BodyRead, Dropped, tempVars, copyVars, fileVars, dbVars
  <1>7. ASSUME NEW u \in Uploads, RenameTemp(u) \/ CopyOpen(u) PROVE TypeOK'
    <2>1. hash[u] \in Hashes
      BY <1>0, <1>7 DEF RenameTemp, CopyOpen, HashOK
    <2>2. CASE RenameTemp(u)
      BY <1>0, <2>1, <2>2 DEF RenameTemp, tempVars, copyVars, dbVars
    <2>3. CASE CopyOpen(u)
      <3>1. dest_tmp' \in [Hashes -> Uploads \cup {NoFile}] /\ dest_tmp'[hash[u]] \in Uploads
        BY <1>0, <2>1, <2>3 DEF CopyOpen
      <3>2. fd' \in [Uploads -> Uploads \cup {NoFile}] /\ data' \in [Uploads -> SUBSET Chunks]
        BY <1>0, <2>3, <3>1 DEF CopyOpen
      <3> QED
        BY <1>0, <2>3, <3>1, <3>2 DEF CopyOpen, tempVars, dbVars
    <2> QED
      BY <1>7, <2>2, <2>3
  <1>8. ASSUME NEW u \in Uploads, CopyChunk(u) PROVE TypeOK'
    <2>1. copied[u] + 1 \in 1..NumChunks
      BY <1>0, <1>8 DEF CopyChunk
    <2>2. copied' \in [Uploads -> 0..NumChunks]
      BY <1>0, <1>8, <2>1 DEF CopyChunk
    <2>3. data' \in [Uploads -> SUBSET Chunks]
      <3>1. ASSUME NEW i \in Uploads PROVE data[i] \cup {copied[u] + 1} \in SUBSET Chunks
        BY <1>0, <2>1
      <3>2. data' = [data EXCEPT ![fd[u]] = @ \cup {copied[u] + 1}]
        BY <1>8 DEF CopyChunk
      <3> QED
        BY <1>0, <3>1, <3>2
    <2> QED
      BY <1>0, <1>8, <2>2, <2>3 DEF CopyChunk, tempVars, dbVars
  <1>9. ASSUME NEW u \in Uploads, CopyEnd(u) \/ RenameTmp(u) PROVE TypeOK'
    <2>1. CASE CopyEnd(u)
      BY <1>0, <2>1 DEF CopyEnd, tempVars, copyVars, fileVars, dbVars
    <2>2. CASE RenameTmp(u)
      <3>1. hash[u] \in Hashes
        BY <1>0, <2>2 DEF RenameTmp, HashOK
      <3>2. target' \in [Hashes -> Uploads \cup {NoFile}] /\ dest_tmp' \in [Hashes -> Uploads \cup {NoFile}]
        BY <1>0, <2>2, <3>1 DEF RenameTmp
      <3>3. pc' \in [Uploads -> Stages]
        BY <1>0, <2>2 DEF RenameTmp
      <3> QED
        BY <1>0, <2>2, <3>2, <3>3 DEF RenameTmp, tempVars, copyVars, dbVars
    <2> QED
      BY <1>9, <2>1, <2>2
  <1>10. ASSUME NEW u \in Uploads, UpsertTrack(u) \/ EnqueueAnalysis(u) PROVE TypeOK'
    <2>1. hash[u] \in Hashes
      BY <1>0, <1>10 DEF UpsertTrack, EnqueueAnalysis, HashOK
    <2> QED
      BY <1>0, <1>10, <2>1 DEF UpsertTrack, EnqueueAnalysis, tempVars, copyVars, fileVars
  <1>11. CASE Crash
    BY <1>0, <1>11 DEF Crash, copyVars, fileVars, dbVars
  <1>12. ASSUME NEW k \in Hashes, Analyze(k) PROVE TypeOK'
    BY <1>0, <1>12 DEF Analyze, tempVars, copyVars, fileVars
  <1> QED
    BY <1>1, <1>2, <1>3, <1>4, <1>5, <1>6, <1>7, <1>8, <1>9, <1>10, <1>11, <1>12
    DEF Next, Handle, Store
-----------------------------------------------------------------------------
(* Whose step changes what.                                                *)

\* Only its own handler moves an upload on, or a crash.
Moves(u) ==
    \/ Begin(u) \/ Receive(u) \/ ClientGone(u) \/ BodyRead(u)
    \/ RenameTemp(u) \/ CopyOpen(u) \/ CopyEnd(u) \/ CopyFails(u) \/ RenameTmp(u)
    \/ UpsertTrack(u) \/ EnqueueAnalysis(u)
    \/ Crash

LEMMA PcSteps ==
  ASSUME TypeOK, [Next]_vars, NEW u \in Uploads
  PROVE  pc'[u] = pc[u] \/ Moves(u)
  <1>0. pc \in [Uploads -> Stages]
    BY DEF TypeOK
  <1>1. ASSUME NEW v \in Uploads, Moves(v) PROVE pc'[u] = pc[u] \/ Moves(u)
    <2>1. CASE Crash
      BY <2>1 DEF Moves
    <2>2. CASE ~Crash /\ u # v
      BY <1>0, <1>1, <2>2 DEF Moves, Begin, Receive, ClientGone, BodyRead, Dropped, RenameTemp,
          CopyOpen, CopyEnd, CopyFails, RenameTmp, UpsertTrack, EnqueueAnalysis
    <2> QED
      BY <1>1, <2>1, <2>2
  <1>2. CASE Crash
    BY <1>2 DEF Moves
  <1>3. CASE UNCHANGED pc
    BY <1>3
  <1> QED
    BY <1>1, <1>2, <1>3 DEF Moves, Next, Handle, Store, vars, WriteLands, WriteFails, CopyChunk,
        Analyze

LEMMA HashSteps ==
  ASSUME TypeOK, [Next]_vars, NEW u \in Uploads
  PROVE  hash'[u] = hash[u] \/ BodyRead(u)
  <1>0. hash \in [Uploads -> Hashes \cup {NoHash}]
    BY DEF TypeOK
  <1>1. ASSUME NEW v \in Uploads, BodyRead(v) PROVE hash'[u] = hash[u] \/ BodyRead(u)
    BY <1>0, <1>1 DEF BodyRead, Dropped
  <1>2. CASE UNCHANGED hash
    BY <1>2
  <1> QED
    BY <1>1, <1>2 DEF Next, Handle, Store, vars, Begin, Receive, WriteLands, WriteFails, ClientGone,
        RenameTemp, CopyOpen, CopyChunk, CopyEnd, CopyFails, RenameTmp, UpsertTrack,
        EnqueueAnalysis, Crash, Analyze

LEMMA TempSteps ==
  ASSUME TypeOK, [Next]_vars, NEW u \in Uploads
  PROVE  \/ got'[u] = got[u] /\ temp'[u] = temp[u] /\ fly'[u] = fly[u]
         \/ Receive(u) \/ WriteLands(u) \/ WriteFails(u) \/ Crash
  <1>0. got \in [Uploads -> 0..NumChunks] /\ temp \in [Uploads -> 0..NumChunks]
        /\ fly \in [Uploads -> BOOLEAN]
    BY DEF TypeOK
  <1>1. ASSUME NEW v \in Uploads, Receive(v) \/ WriteLands(v) \/ WriteFails(v), u # v
        PROVE  got'[u] = got[u] /\ temp'[u] = temp[u] /\ fly'[u] = fly[u]
    <2>1. CASE Receive(v)
      BY <1>0, <1>1, <2>1 DEF Receive
    <2>2. CASE WriteLands(v) \/ WriteFails(v)
      BY <1>0, <1>1, <2>2 DEF WriteLands, WriteFails
    <2> QED
      BY <1>1, <2>1, <2>2
  <1>2. CASE UNCHANGED tempVars
    BY <1>2 DEF tempVars
  <1> QED
    BY <1>1, <1>2 DEF Next, Handle, Store, vars, Begin, ClientGone, BodyRead, Dropped,
        RenameTemp, CopyOpen, CopyChunk, CopyEnd, CopyFails, RenameTmp, UpsertTrack,
        EnqueueAnalysis, Analyze

LEMMA CopySteps ==
  ASSUME TypeOK, [Next]_vars, NEW u \in Uploads
  PROVE  \/ copied'[u] = copied[u] /\ fd'[u] = fd[u]
         \/ CopyOpen(u)
         \/ CopyChunk(u)
  <1>0. copied \in [Uploads -> 0..NumChunks] /\ fd \in [Uploads -> Uploads \cup {NoFile}]
    BY DEF TypeOK
  <1>1. ASSUME NEW v \in Uploads, CopyOpen(v) \/ CopyChunk(v), u # v
        PROVE  copied'[u] = copied[u] /\ fd'[u] = fd[u]
    BY <1>0, <1>1 DEF CopyOpen, CopyChunk
  <1>2. CASE UNCHANGED copyVars
    BY <1>2 DEF copyVars
  <1> QED
    BY <1>1, <1>2 DEF Next, Handle, Store, vars, Begin, Receive, WriteLands, WriteFails, ClientGone,
        BodyRead, Dropped, RenameTemp, CopyEnd, CopyFails, RenameTmp, UpsertTrack,
        EnqueueAnalysis, Crash, Analyze

LEMMA NameSteps ==
  ASSUME [Next]_vars
  PROVE  \/ UNCHANGED <<dest_tmp, target>>
         \/ \E u \in Uploads : RenameTemp(u) \/ CopyOpen(u) \/ RenameTmp(u)
  BY DEF Next, Handle, Store, vars, fileVars, Begin, Receive, WriteLands, WriteFails, ClientGone,
         BodyRead, Dropped, CopyChunk, CopyEnd, CopyFails, UpsertTrack, EnqueueAnalysis, Crash,
         Analyze

LEMMA DataSteps ==
  ASSUME [Next]_vars
  PROVE  UNCHANGED data \/ \E u \in Uploads : CopyOpen(u) \/ CopyChunk(u)
  BY DEF Next, Handle, Store, vars, fileVars, Begin, Receive, WriteLands, WriteFails, ClientGone,
         BodyRead, Dropped, RenameTemp, CopyEnd, CopyFails, RenameTmp, UpsertTrack,
         EnqueueAnalysis, Crash, Analyze

LEMMA TrackSteps ==
  ASSUME [Next]_vars
  PROVE  \/ UNCHANGED dbVars
         \/ \E u \in Uploads : UpsertTrack(u) \/ EnqueueAnalysis(u)
         \/ \E k \in Hashes : Analyze(k)
  BY DEF Next, Handle, Store, vars, Begin, Receive, WriteLands, WriteFails, ClientGone,
         BodyRead, Dropped, RenameTemp, CopyOpen, CopyChunk, CopyEnd, CopyFails, RenameTmp, Crash
-----------------------------------------------------------------------------
(* Receiving and hashing.                                                  *)

LEMMA RecvKept ==
  ASSUME RInv, [Next]_vars
  PROVE  RecvOK'
  <1>0. TypeOK /\ RecvOK /\ HashOK /\ faults \in Nat /\ faults' \in Nat /\ faults <= faults'
    BY FaultsGrow DEF RInv, TypeOK
  <1> SUFFICES ASSUME NEW u \in Uploads
               PROVE  /\ fly'[u] => temp'[u] = got'[u] - 1
                      /\ faults' = 0 /\ ~fly'[u] => temp'[u] = got'[u]
                      /\ WritesLand /\ fly'[u] => hash'[u] = NoHash
    BY DEF RecvOK
  <1>1. /\ fly[u] \in BOOLEAN /\ got[u] \in Nat /\ temp[u] \in Nat
        /\ pc \in [Uploads -> Stages] /\ fly \in [Uploads -> BOOLEAN]
        /\ got \in [Uploads -> 0..NumChunks] /\ temp \in [Uploads -> 0..NumChunks]
        /\ fly[u] => temp[u] = got[u] - 1
        /\ faults = 0 /\ ~fly[u] => temp[u] = got[u]
        /\ WritesLand /\ fly[u] => hash[u] = NoHash
    BY <1>0 DEF TypeOK, RecvOK
  <1>2. CASE Receive(u)
    <2>1. hash[u] = NoHash /\ hash' = hash
      BY <1>0, <1>2 DEF Receive, HashOK
    <2> QED
      BY <1>0, <1>1, <1>2, <2>1 DEF Receive
  <1>3. CASE WriteLands(u)
    BY <1>0, <1>1, <1>3 DEF WriteLands
  <1>4. CASE WriteFails(u) \/ Crash
    <2>1. faults' # 0 /\ ~fly'[u]
      BY <1>0, <1>1, <1>4 DEF WriteFails, Crash
    <2> QED
      BY <2>1
  <1>5. CASE got'[u] = got[u] /\ temp'[u] = temp[u] /\ fly'[u] = fly[u]
    <2>1. ASSUME WritesLand, fly[u] PROVE hash'[u] = NoHash
      <3>1. ~BodyRead(u)
        BY <2>1 DEF BodyRead, Dropped
      <3> QED
        BY <1>0, <1>1, <2>1, <3>1, HashSteps
    <2> QED
      BY <1>0, <1>1, <1>5, <2>1
  <1> QED
    BY <1>0, <1>2, <1>3, <1>4, <1>5, TempSteps

\* What was received of a file does not change once its body is read.
LEMMA GotStays ==
  ASSUME TypeOK, [Next]_vars, NEW u \in Uploads, pc[u] # "recv"
  PROVE  got'[u] = got[u]
  <1>1. CASE Receive(u) \/ WriteLands(u) \/ WriteFails(u) \/ Crash
    BY <1>1 DEF Receive, WriteLands, WriteFails, Crash
  <1> QED
    BY <1>1, TempSteps

\* Tracks are only added.
LEMMA TracksGrow ==
  ASSUME [Next]_vars
  PROVE  tracks \subseteq tracks'
  <1>1. CASE \E u \in Uploads : UpsertTrack(u) \/ EnqueueAnalysis(u)
    BY <1>1 DEF UpsertTrack, EnqueueAnalysis
  <1>2. CASE \E k \in Hashes : Analyze(k)
    BY <1>2 DEF Analyze
  <1> QED
    BY <1>1, <1>2, TrackSteps DEF dbVars

LEMMA HashKept ==
  ASSUME RInv, [Next]_vars
  PROVE  HashOK'
  <1>0. /\ TypeOK /\ HashOK /\ faults \in Nat /\ faults' \in Nat /\ faults <= faults'
        /\ tracks \subseteq tracks'
    BY FaultsGrow, TracksGrow DEF RInv, TypeOK
  <1> SUFFICES ASSUME NEW u \in Uploads
               PROVE  /\ pc'[u] \in {"idle", "recv"} => hash'[u] = NoHash
                      /\ pc'[u] = "failed" => hash'[u] \in {NoHash, got'[u]}
                      /\ pc'[u] \notin {"idle", "recv", "failed"} =>
                            hash'[u] = got'[u] /\ (got'[u] = NumChunks \/ Excused(u)')
                      /\ pc'[u] \in {"enqueue"} \cup Succeeded => hash'[u] \in tracks' \/ Excused(u)'
    BY DEF HashOK
  <1>1. /\ pc[u] \in Stages /\ pc \in [Uploads -> Stages]
        /\ pc[u] \in {"idle", "recv"} => hash[u] = NoHash
        /\ pc[u] = "failed" => hash[u] \in {NoHash, got[u]}
        /\ pc[u] \notin {"idle", "recv", "failed"} =>
              hash[u] = got[u] /\ (got[u] = NumChunks \/ Excused(u))
        /\ pc[u] \in {"enqueue"} \cup Succeeded => hash[u] \in tracks \/ Excused(u)
        /\ Excused(u) => Excused(u)'
    BY <1>0 DEF TypeOK, HashOK
  <1>2. CASE BodyRead(u)
    <2>1. pc[u] = "recv" /\ pc'[u] = "store" /\ hash'[u] = got[u] /\ got'[u] = got[u]
      BY <1>0, <1>2 DEF BodyRead, Dropped, tempVars, TypeOK
    <2>2. got[u] = NumChunks \/ Excused(u)'
      BY <1>0, <1>2 DEF BodyRead
    <2> QED
      BY <2>1, <2>2
  <1>3. CASE ~BodyRead(u)
    <2>1. hash'[u] = hash[u]
      BY <1>0, <1>3, HashSteps
    <2>2. CASE pc'[u] = pc[u]
      <3>1. pc[u] # "recv" => got'[u] = got[u]
        BY <1>0, GotStays
      <3> QED
        BY <1>0, <1>1, <2>1, <2>2, <3>1
    <2>3. CASE Moves(u)
      <3>1. CASE Begin(u)
        BY <1>1, <2>1, <3>1 DEF Begin
      <3>2. CASE Receive(u) \/ ClientGone(u) \/ Crash
        <4>1. \/ pc'[u] = "failed"
              \/ pc'[u] = pc[u]
          BY <1>1, <3>2 DEF Receive, ClientGone, Crash
        <4>2. pc[u] # "recv" => got'[u] = got[u]
          BY <1>0, GotStays
        <4> QED
          BY <1>0, <1>1, <2>1, <2>2, <4>1, <4>2
      <3>3. CASE \/ RenameTemp(u) \/ CopyOpen(u) \/ CopyEnd(u) \/ CopyFails(u) \/ RenameTmp(u)
        <4>1. pc[u] \in {"store", "copy", "rename"} /\ pc'[u] \in {"upsert", "copy", "rename", "failed"}
          BY <1>1, <3>3 DEF RenameTemp, CopyOpen, CopyEnd, CopyFails, RenameTmp
        <4> QED
          BY <1>0, <1>1, <2>1, <4>1, GotStays
      <3>4. CASE UpsertTrack(u)
        <4>1. /\ pc[u] = "upsert" /\ pc'[u] \in {"enqueue", "failed"}
              /\ pc'[u] = "enqueue" => hash[u] \in tracks' \/ Excused(u)'
          BY <1>0, <1>1, <3>4 DEF UpsertTrack
        <4> QED
          BY <1>0, <1>1, <2>1, <4>1, GotStays
      <3>5. CASE EnqueueAnalysis(u)
        <4>1. pc[u] = "enqueue" /\ pc'[u] \in Succeeded
          BY <1>1, <3>5 DEF EnqueueAnalysis
        <4> QED
          BY <1>0, <1>1, <2>1, <4>1, GotStays
      <3> QED
        BY <1>3, <2>3, <3>1, <3>2, <3>3, <3>4, <3>5 DEF Moves
    <2> QED
      BY <1>0, <2>2, <2>3, PcSteps
  <1> QED
    BY <1>2, <1>3
-----------------------------------------------------------------------------
(* Names and inodes.                                                       *)

\* The hash a handler stores under.
LEMMA StoresHash ==
  ASSUME RInv, NEW u \in Uploads, pc[u] \notin {"idle", "recv", "failed"}
  PROVE  hash[u] \in Hashes /\ hash[u] = got[u]
  BY DEF RInv, TypeOK, HashOK

LEMMA FilesKept ==
  ASSUME RInv, [Next]_vars
  PROVE  FilesOK'
  <1>0. TypeOK /\ FilesOK /\ TrackHasFile /\ target \in [Hashes -> Uploads \cup {NoFile}]
        /\ dest_tmp \in [Hashes -> Uploads \cup {NoFile}] /\ pc \in [Uploads -> Stages]
        /\ tracks \subseteq Hashes /\ queued \subseteq Hashes
    BY DEF RInv, TypeOK, FilesOK
  <1>1. ASSUME NEW k \in Hashes, target[k] # NoFile PROVE target'[k] # NoFile
    <2>1. ASSUME NEW u \in Uploads, RenameTemp(u) \/ CopyOpen(u) \/ RenameTmp(u)
          PROVE  target'[k] # NoFile
      BY <1>0, <1>1, <2>1 DEF RenameTemp, CopyOpen, RenameTmp
    <2> QED
      BY <1>1, <2>1, NameSteps
  <1>2. ASSUME NEW u \in Uploads, pc'[u] \in {"upsert", "enqueue"} \cup Succeeded
        PROVE  target'[hash'[u]] # NoFile
    <2>1. CASE pc'[u] = pc[u]
      BY <1>0, <1>1, <1>2, <2>1, StoresHash, HashSteps DEF FilesOK, BodyRead, Dropped
    <2>2. CASE RenameTemp(u) \/ RenameTmp(u)
      <3>1. hash[u] \in Hashes /\ hash' = hash
        BY <2>2, StoresHash DEF RenameTemp, RenameTmp
      <3>2. CASE RenameTemp(u)
        BY <1>0, <3>1, <3>2 DEF RenameTemp
      <3>3. CASE RenameTmp(u)
        BY <1>0, <1>2, <3>1, <3>3 DEF RenameTmp
      <3> QED
        BY <2>2, <3>2, <3>3
    <2>3. CASE UpsertTrack(u) \/ EnqueueAnalysis(u)
      <3>1. pc[u] \in {"upsert", "enqueue"} /\ hash' = hash
        BY <2>3 DEF UpsertTrack, EnqueueAnalysis
      <3> QED
        BY <1>0, <1>1, <3>1, StoresHash DEF FilesOK
    <2>4. ~Begin(u) /\ ~ClientGone(u) /\ ~BodyRead(u) /\ ~CopyOpen(u) /\ ~CopyEnd(u) /\ ~CopyFails(u)
      BY <1>0, <1>2 DEF Begin, ClientGone, BodyRead, Dropped, CopyOpen, CopyEnd, CopyFails
    <2>5. Receive(u) => pc'[u] = pc[u]
      BY <1>0, <1>2 DEF Receive
    <2>6. Crash => pc'[u] = pc[u]
      BY <1>0, <1>2 DEF Crash
    <2> QED
      BY <1>0, <2>1, <2>2, <2>3, <2>4, <2>5, <2>6, PcSteps DEF Moves
  <1>3. TrackHasFile'
    <2>1. ASSUME NEW u \in Uploads, UpsertTrack(u) \/ EnqueueAnalysis(u)
          PROVE  /\ hash[u] \in Hashes /\ target[hash[u]] # NoFile
                 /\ tracks' \cup queued' \subseteq tracks \cup queued \cup {hash[u]}
      <3>1. pc[u] \in {"upsert", "enqueue"}
        BY <2>1 DEF UpsertTrack, EnqueueAnalysis
      <3>2. tracks' \cup queued' \subseteq tracks \cup queued \cup {hash[u]}
        BY <2>1 DEF UpsertTrack, EnqueueAnalysis
      <3> QED
        BY <1>0, <3>1, <3>2, StoresHash DEF FilesOK
    <2>2. ASSUME NEW k \in Hashes, Analyze(k) PROVE tracks' \cup queued' \subseteq tracks \cup queued
      BY <2>2 DEF Analyze
    <2>3. ASSUME NEW k \in tracks' \cup queued' PROVE k \in Hashes /\ target[k] # NoFile
      <3>1. CASE k \in tracks \cup queued
        BY <1>0, <3>1 DEF TrackHasFile
      <3>2. CASE k \notin tracks \cup queued
        BY <2>1, <2>2, <2>3, <3>2, TrackSteps DEF dbVars
      <3> QED
        BY <3>1, <3>2
    <2> QED
      BY <1>1, <2>3 DEF TrackHasFile
  <1> QED
    BY <1>2, <1>3 DEF FilesOK

\* An upload that has opened its file, or ended, keeps its hash and its inode.
LEMMA LateStays ==
  ASSUME RInv, [Next]_vars, NEW u \in Uploads, pc[u] \notin Early
  PROVE  /\ pc'[u] \notin Early
         /\ hash'[u] = hash[u] /\ fd'[u] = fd[u]
         /\ pc'[u] \in {"copy", "rename"} => pc[u] \in {"copy", "rename"}
  <1>0. TypeOK /\ pc \in [Uploads -> Stages]
    BY DEF RInv, TypeOK
  <1>1. hash'[u] = hash[u]
    BY <1>0, HashSteps DEF BodyRead, Dropped
  <1>2. fd'[u] = fd[u]
    BY <1>0, CopySteps DEF CopyOpen, CopyChunk
  <1>3. pc'[u] \notin Early /\ (pc'[u] \in {"copy", "rename"} => pc[u] \in {"copy", "rename"})
    <2>1. CASE Moves(u)
      BY <1>0, <2>1 DEF Moves, Begin, Receive, ClientGone, BodyRead, Dropped, RenameTemp, CopyOpen,
          CopyEnd, CopyFails, RenameTmp, UpsertTrack, EnqueueAnalysis, Crash
    <2> QED
      BY <1>0, <2>1, PcSteps
  <1> QED
    BY <1>1, <1>2, <1>3

\* What opening <hash>.tmp does: it makes inode u, or truncates the one there.
LEMMA Opening ==
  ASSUME RInv, NEW u \in Uploads, CopyOpen(u)
  PROVE  /\ ~sameDevice /\ pc[u] = "store" /\ pc'[u] = "copy"
         /\ hash[u] \in Hashes /\ hash' = hash /\ target' = target
         /\ \E i \in Uploads :
               /\ (i = u /\ dest_tmp[hash[u]] = NoFile) \/ i = dest_tmp[hash[u]]
               /\ dest_tmp' = [dest_tmp EXCEPT ![hash[u]] = i]
               /\ fd' = [fd EXCEPT ![u] = i]
               /\ data' = [data EXCEPT ![i] = {}]
  <1>1. /\ ~sameDevice /\ pc[u] = "store" /\ pc'[u] = "copy"
        /\ hash[u] \in Hashes /\ hash' = hash /\ target' = target
        /\ pc \in [Uploads -> Stages] /\ dest_tmp \in [Hashes -> Uploads \cup {NoFile}]
        /\ fd \in [Uploads -> Uploads \cup {NoFile}]
    BY StoresHash DEF CopyOpen, RInv, TypeOK
  <1> DEFINE i == IF dest_tmp[hash[u]] = NoFile THEN u ELSE dest_tmp[hash[u]]
  <1>2. i \in Uploads /\ ((i = u /\ dest_tmp[hash[u]] = NoFile) \/ i = dest_tmp[hash[u]])
    BY <1>1
  <1>3. dest_tmp' = [dest_tmp EXCEPT ![hash[u]] = i]
    BY DEF CopyOpen
  <1>4. dest_tmp'[hash[u]] = i
    BY <1>1, <1>3
  <1>5. fd' = [fd EXCEPT ![u] = i]
    BY <1>4 DEF CopyOpen
  <1>6. data' = [data EXCEPT ![i] = {}]
    <2>1. fd'[u] = i
      BY <1>1, <1>5
    <2> QED
      BY <2>1 DEF CopyOpen
  <1> HIDE DEF i
  <1> QED
    BY <1>1, <1>2, <1>3, <1>5, <1>6

LEMMA InodesKept ==
  ASSUME RInv, [Next]_vars
  PROVE  InodesOK'
  <1>0. /\ TypeOK /\ InodesOK /\ sameDevice' = sameDevice
        /\ pc \in [Uploads -> Stages] /\ fd \in [Uploads -> Uploads \cup {NoFile}]
        /\ dest_tmp \in [Hashes -> Uploads \cup {NoFile}]
        /\ target \in [Hashes -> Uploads \cup {NoFile}]
    BY FaultsGrow DEF RInv, TypeOK
  <1>1. ASSUME NEW u \in Uploads, fd[u] # NoFile
        PROVE  /\ fd'[u] = fd[u] /\ hash'[u] = hash[u]
               /\ pc[u] \notin Early /\ pc'[u] \notin Early
               /\ fd[u] \in Uploads
    BY <1>0, <1>1, LateStays DEF InodesOK
  <1>2. ASSUME NEW u \in Uploads, pc'[u] \in Early PROVE fd'[u] = NoFile /\ copied'[u] = 0
    <2>1. pc[u] \in Early
      BY <1>2, LateStays
    <2>2. ~CopyOpen(u) /\ ~CopyChunk(u)
      BY <1>2, <2>1, Opening DEF CopyChunk
    <2> QED
      BY <1>0, <2>1, <2>2, CopySteps DEF InodesOK
  <1>3. ASSUME NEW u \in Uploads, pc'[u] \in {"copy", "rename"} PROVE fd'[u] # NoFile
    <2>1. CASE pc[u] \notin Early
      BY <1>0, <1>1, <1>3, <2>1, LateStays DEF InodesOK
    <2>2. CASE pc[u] \in Early
      <3>1. CopyOpen(u)
        BY <1>0, <1>3, <2>2, PcSteps
        DEF Moves, Begin, Receive, ClientGone, BodyRead, Dropped, RenameTemp, CopyEnd, CopyFails,
            RenameTmp, UpsertTrack, EnqueueAnalysis, Crash
      <3> QED
        BY <1>0, <3>1, Opening
    <2> QED
      BY <2>1, <2>2
  <1>4. ASSUME NEW u \in Uploads, fd'[u] # NoFile
        PROVE  /\ ~sameDevice' /\ hash'[u] \in Hashes
               /\ hash'[fd'[u]] = hash'[u] /\ fd'[fd'[u]] = fd'[u]
    <2>1. CASE fd[u] # NoFile
      <3>1. fd[u] \in Uploads /\ fd[fd[u]] = fd[u] /\ hash[fd[u]] = hash[u] /\ hash[u] \in Hashes
            /\ ~sameDevice
        BY <1>0, <2>1 DEF InodesOK
      <3> QED
        BY <1>0, <1>1, <2>1, <3>1
    <2>2. CASE fd[u] = NoFile
      <3>1. CopyOpen(u)
        BY <1>0, <1>4, <2>2, CopySteps DEF CopyChunk
      <3>2. PICK i \in Uploads :
                   /\ (i = u /\ dest_tmp[hash[u]] = NoFile) \/ i = dest_tmp[hash[u]]
                   /\ fd' = [fd EXCEPT ![u] = i]
        BY <3>1, Opening
      <3>3. ~sameDevice /\ hash[u] \in Hashes /\ hash' = hash
        BY <3>1, Opening
      <3>4. i = u \/ (hash[i] = hash[u] /\ fd[i] = i)
        BY <1>0, <3>2, <3>3 DEF InodesOK
      <3> QED
        BY <1>0, <3>2, <3>3, <3>4
    <2> QED
      BY <2>1, <2>2
  <1>5. ASSUME NEW k \in Hashes, dest_tmp'[k] # NoFile
        PROVE  hash'[dest_tmp'[k]] = k /\ fd'[dest_tmp'[k]] = dest_tmp'[k]
    <2>1. CASE dest_tmp'[k] = dest_tmp[k]
      BY <1>0, <1>1, <1>5, <2>1 DEF InodesOK
    <2>2. ASSUME NEW u \in Uploads, CopyOpen(u), dest_tmp'[k] # dest_tmp[k]
          PROVE  hash'[dest_tmp'[k]] = k /\ fd'[dest_tmp'[k]] = dest_tmp'[k]
      <3>1. PICK i \in Uploads :
                   /\ (i = u /\ dest_tmp[hash[u]] = NoFile) \/ i = dest_tmp[hash[u]]
                   /\ dest_tmp' = [dest_tmp EXCEPT ![hash[u]] = i]
                   /\ fd' = [fd EXCEPT ![u] = i]
        BY <2>2, Opening
      <3>2. k = hash[u] /\ i = u /\ dest_tmp'[k] = u /\ hash' = hash
        BY <1>0, <2>2, <3>1, Opening
      <3> QED
        BY <1>0, <3>1, <3>2
    <2>3. ASSUME NEW u \in Uploads, RenameTemp(u) \/ RenameTmp(u) PROVE dest_tmp'[k] = dest_tmp[k]
      BY <1>0, <1>5, <2>3 DEF RenameTemp, RenameTmp
    <2> QED
      BY <2>1, <2>2, <2>3, NameSteps
  <1>6. ASSUME NEW k \in Hashes, target'[k] # NoFile
        PROVE  /\ hash'[target'[k]] = k /\ pc'[target'[k]] \notin Early
               /\ ~sameDevice' => fd'[target'[k]] = target'[k]
    <2>1. CASE target'[k] = target[k]
      <3>1. /\ target[k] \in Uploads /\ hash[target[k]] = k /\ pc[target[k]] \notin Early
            /\ ~sameDevice => fd[target[k]] = target[k]
        BY <1>0, <1>6, <2>1 DEF InodesOK
      <3> QED
        BY <1>0, <2>1, <3>1, LateStays
    <2>2. ASSUME NEW u \in Uploads, RenameTemp(u), target'[k] # target[k]
          PROVE  hash'[target'[k]] = k /\ pc'[target'[k]] \notin Early /\ sameDevice
      <3>1. /\ sameDevice /\ hash[u] \in Hashes /\ hash' = hash /\ pc'[u] = "upsert"
            /\ target' = [target EXCEPT ![hash[u]] = u]
        BY <1>0, <2>2, StoresHash DEF RenameTemp
      <3>2. k = hash[u] /\ target'[k] = u
        BY <1>0, <2>2, <3>1
      <3> QED
        BY <3>1, <3>2
    <2>3. ASSUME NEW u \in Uploads, RenameTmp(u), target'[k] # target[k]
          PROVE  /\ hash'[target'[k]] = k /\ pc'[target'[k]] \notin Early
                 /\ fd'[target'[k]] = target'[k]
      <3>1. /\ hash[u] \in Hashes /\ dest_tmp[hash[u]] # NoFile
            /\ target' = [target EXCEPT ![hash[u]] = dest_tmp[hash[u]]]
        BY <2>3, StoresHash DEF RenameTmp
      <3>2. k = hash[u] /\ target'[k] = dest_tmp[k]
        BY <1>0, <2>3, <3>1
      <3>3. dest_tmp[k] \in Uploads /\ hash[dest_tmp[k]] = k /\ fd[dest_tmp[k]] = dest_tmp[k]
        BY <1>0, <3>1, <3>2 DEF InodesOK
      <3> QED
        BY <1>1, <3>2, <3>3
    <2>4. ASSUME NEW u \in Uploads, CopyOpen(u) PROVE target'[k] = target[k]
      BY <2>4, Opening
    <2> QED
      BY <1>0, <2>1, <2>2, <2>3, <2>4, NameSteps
  <1> QED
    BY <1>2, <1>3, <1>4, <1>5, <1>6 DEF InodesOK
-----------------------------------------------------------------------------
(* Contests for <hash>.tmp.                                                *)

\* Contested in the next state, of a hash of this one.
StaysContested(k) ==
    \E u, v \in Uploads : u # v /\ hash'[u] = k /\ fd'[u] = fd'[v] /\ fd'[u] # NoFile

LEMMA ContestsStay ==
  ASSUME RInv, [Next]_vars, NEW k, Contested(k)
  PROVE  StaysContested(k)
  <1>1. PICK u \in Uploads, v \in Uploads : u # v /\ hash[u] = k /\ fd[u] = fd[v] /\ fd[u] # NoFile
    BY DEF Contested
  <1>2. pc[u] \notin Early /\ pc[v] \notin Early
    BY <1>1 DEF RInv, InodesOK
  <1>3. hash'[u] = k /\ fd'[u] = fd[u] /\ fd'[v] = fd[v]
    BY <1>1, <1>2, LateStays
  <1> QED
    BY <1>1, <1>3 DEF StaysContested

LEMMA ContestKept ==
  ASSUME RInv, [Next]_vars
  PROVE  ContestOK'
  <1>0. /\ TypeOK /\ InodesOK /\ ContestOK
        /\ fd \in [Uploads -> Uploads \cup {NoFile}]
        /\ dest_tmp \in [Hashes -> Uploads \cup {NoFile}]
        /\ pc \in [Uploads -> Stages]
    BY DEF RInv, TypeOK
  <1>1. ASSUME NEW u \in Uploads, pc'[u] \in {"copy", "rename"}
        PROVE  dest_tmp'[hash'[u]] = fd'[u] \/ StaysContested(hash'[u])
    <2>1. CASE pc[u] \notin Early
      <3>1. pc[u] \in {"copy", "rename"} /\ hash'[u] = hash[u] /\ fd'[u] = fd[u]
        BY <1>1, <2>1, LateStays
      <3>2. hash[u] \in Hashes /\ fd[u] # NoFile
        BY <1>0, <3>1, StoresHash DEF InodesOK
      <3>3. CASE Contested(hash[u])
        BY <3>1, <3>3, ContestsStay
      <3>4. CASE dest_tmp[hash[u]] = fd[u] /\ dest_tmp'[hash[u]] # dest_tmp[hash[u]]
        <4>1. PICK v \in Uploads : RenameTemp(v) \/ CopyOpen(v) \/ RenameTmp(v)
          BY <3>4, NameSteps
        <4>2. ~CopyOpen(v)
          <5>1. SUFFICES ASSUME CopyOpen(v) PROVE FALSE
            OBVIOUS
          <5>2. PICK i \in Uploads :
                       /\ (i = v /\ dest_tmp[hash[v]] = NoFile) \/ i = dest_tmp[hash[v]]
                       /\ dest_tmp' = [dest_tmp EXCEPT ![hash[v]] = i]
            BY <5>1, Opening
          <5> QED
            BY <1>0, <3>2, <3>4, <5>2
        <4>3. RenameTmp(v) /\ pc[v] = "rename" /\ hash[v] = hash[u] /\ pc'[v] # "rename" /\ pc'[v] # "copy"
          BY <1>0, <3>2, <3>4, <4>1, <4>2 DEF RenameTemp, RenameTmp
        <4>4. Contested(hash[u])
          <5>1. u # v
            BY <1>1, <4>3
          <5>2. dest_tmp[hash[v]] = fd[v] \/ Contested(hash[v])
            BY <1>0, <4>3 DEF ContestOK
          <5> QED
            BY <3>2, <3>4, <4>3, <5>1, <5>2 DEF Contested
        <4> QED
          BY <3>1, <4>4, ContestsStay
      <3> QED
        BY <1>0, <3>1, <3>3, <3>4 DEF ContestOK
    <2>2. CASE pc[u] \in Early
      <3>1. CopyOpen(u)
        BY <1>0, <1>1, <2>2, PcSteps
        DEF Moves, Begin, Receive, ClientGone, BodyRead, Dropped, RenameTemp, CopyEnd, CopyFails,
            RenameTmp, UpsertTrack, EnqueueAnalysis, Crash
      <3>2. PICK i \in Uploads : dest_tmp' = [dest_tmp EXCEPT ![hash[u]] = i]
                                 /\ fd' = [fd EXCEPT ![u] = i]
        BY <3>1, Opening
      <3>3. hash[u] \in Hashes /\ hash' = hash
        BY <3>1, Opening
      <3> QED
        BY <1>0, <3>2, <3>3
    <2> QED
      BY <2>1, <2>2
  <1> QED
    BY <1>1 DEF ContestOK, Contested, StaysContested

LEMMA FailsKept ==
  ASSUME RInv, [Next]_vars
  PROVE  FailsForAReason'
  <1>0. /\ TypeOK /\ InodesOK /\ ContestOK /\ FailsForAReason /\ RecvOK
        /\ faults \in Nat /\ faults' \in Nat /\ faults <= faults' /\ pc \in [Uploads -> Stages]
    BY FaultsGrow DEF RInv, TypeOK
  <1>1. ASSUME NEW u \in Uploads, pc'[u] = "failed", faults' = 0
        PROVE  StaysContested(hash'[u])
    <2>1. faults = 0
      BY <1>0, <1>1
    <2>2. Contested(hash[u]) /\ hash'[u] = hash[u]
      <3>1. CASE pc[u] = "failed"
        BY <1>0, <2>1, <3>1, LateStays DEF FailsForAReason
      <3>2. CASE RenameTmp(u)
        <4>1. pc[u] = "rename" /\ dest_tmp[hash[u]] = NoFile /\ hash' = hash
          BY <1>0, <1>1, <3>2 DEF RenameTmp
        <4> QED
          BY <1>0, <4>1 DEF ContestOK, InodesOK
      <3>3. ~Receive(u) \/ pc'[u] = pc[u]
        <4>1. fly[u] \in BOOLEAN /\ temp[u] \in Nat /\ got[u] \in Nat
          BY <1>0 DEF TypeOK
        <4> QED
          BY <1>0, <1>1, <2>1, <4>1 DEF Receive, RecvOK
      <3>4. /\ ~Begin(u) /\ ~ClientGone(u) /\ ~BodyRead(u) /\ ~RenameTemp(u) /\ ~CopyOpen(u)
            /\ ~CopyEnd(u) /\ ~CopyFails(u) /\ ~EnqueueAnalysis(u) /\ ~Crash
        BY <1>0, <1>1, <2>1 DEF Begin, ClientGone, BodyRead, Dropped, RenameTemp, CopyOpen,
            CopyEnd, CopyFails, EnqueueAnalysis, Crash
      <3>5. ~UpsertTrack(u)
        BY <1>0, <1>1, <2>1 DEF UpsertTrack
      <3> QED
        BY <1>0, <1>1, <3>1, <3>2, <3>3, <3>4, <3>5, PcSteps DEF Moves
    <2> QED
      BY <2>2, ContestsStay
  <1> QED
    BY <1>0, <1>1 DEF FailsForAReason, Contested, StaysContested
-----------------------------------------------------------------------------
(* Wholeness.                                                              *)

\* The temp file of a hashed upload lacks at most its last write, without faults
\* nothing, and stays as it is.
LEMMA TempSettled ==
  ASSUME RInv, WritesLand, NEW u \in Uploads, hash[u] \in Hashes
  PROVE  /\ pc[u] \notin {"idle", "recv"} /\ got[u] = hash[u]
         /\ temp[u] \in Nat /\ temp[u] <= hash[u]
         /\ faults = 0 \/ ~LostLastWrite(u) => temp[u] = hash[u]
         /\ [Next]_vars => temp'[u] = temp[u]
  <1>1. /\ TypeOK /\ hash[u] # NoHash /\ ~fly[u]
        /\ got[u] \in Nat /\ temp[u] \in Nat /\ temp[u] \in {got[u], got[u] - 1}
        /\ faults = 0 => temp[u] = got[u]
    BY DEF RInv, RecvOK, TypeOK
  <1>2. pc[u] \notin {"idle", "recv"} /\ got[u] = hash[u]
    BY <1>1 DEF RInv, HashOK, TypeOK
  <1>3. ASSUME [Next]_vars PROVE temp'[u] = temp[u]
    <2>1. ~Receive(u) /\ ~WriteLands(u) /\ ~WriteFails(u)
      BY <1>1, <1>2 DEF Receive, WriteLands, WriteFails
    <2> QED
      BY <1>1, <1>3, <2>1, TempSteps DEF Crash
  <1> QED
    BY <1>1, <1>2, <1>3 DEF LostLastWrite

LEMMA WholeKept ==
  ASSUME RInv, [Next]_vars
  PROVE  WholeOK'
  <1>0. /\ TypeOK /\ InodesOK /\ WholeOK
        /\ faults \in Nat /\ faults' \in Nat /\ faults <= faults'
        /\ pc \in [Uploads -> Stages] /\ hash \in [Uploads -> Hashes \cup {NoHash}]
        /\ fd \in [Uploads -> Uploads \cup {NoFile}]
        /\ dest_tmp \in [Hashes -> Uploads \cup {NoFile}]
        /\ temp \in [Uploads -> 0..NumChunks] /\ copied \in [Uploads -> 0..NumChunks]
        /\ data \in [Uploads -> SUBSET Chunks]
    BY FaultsGrow DEF RInv, TypeOK
  <1> SUFFICES ASSUME WritesLand
               PROVE  /\ \A u \in Uploads : fd'[u] # NoFile => copied'[u] <= temp'[u]
                      /\ \A u \in Uploads : Copied(u)' => copied'[u] = temp'[u]
                      /\ \A i \in Uploads : fd'[i] = i =>
                            /\ data'[i] \subseteq 1..hash'[i]
                            /\ \E u \in Uploads : fd'[u] = i /\ 1..copied'[u] \subseteq data'[i]
    BY DEF WholeOK
  <1>1. /\ \A u \in Uploads : fd[u] # NoFile => copied[u] <= temp[u]
        /\ \A u \in Uploads : Copied(u) => copied[u] = temp[u]
        /\ \A i \in Uploads : fd[i] = i =>
              /\ data[i] \subseteq 1..hash[i]
              /\ \E u \in Uploads : fd[u] = i /\ 1..copied[u] \subseteq data[i]
    BY <1>0 DEF WholeOK
  <1>2. ASSUME NEW u \in Uploads, fd[u] # NoFile
        PROVE  /\ pc[u] \notin Early /\ hash[u] \in Hashes /\ hash[fd[u]] = hash[u]
               /\ fd'[u] = fd[u] /\ hash'[u] = hash[u]
               /\ temp[u] <= hash[u] /\ temp'[u] = temp[u]
    <2>1. pc[u] \notin Early /\ hash[u] \in Hashes /\ hash[fd[u]] = hash[u]
      BY <1>0, <1>2 DEF InodesOK
    <2> QED
      BY <1>1, <2>1, LateStays, TempSettled
  <1>3. ASSUME NEW u \in Uploads, fd'[u] # NoFile PROVE copied'[u] <= temp'[u]
    <2>0. copied[u] \in Nat /\ temp[u] \in Nat
      BY <1>0
    <2>1. CASE CopyOpen(u)
      <3>1. copied'[u] = 0 /\ temp' = temp
        BY <1>0, <2>1 DEF CopyOpen, InodesOK, tempVars
      <3> QED
        BY <2>0, <3>1
    <2>2. CASE CopyChunk(u)
      <3>1. copied[u] < temp[u] /\ copied'[u] = copied[u] + 1 /\ temp' = temp
        BY <1>0, <2>2 DEF CopyChunk, tempVars
      <3> QED
        BY <2>0, <3>1
    <2>3. CASE copied'[u] = copied[u] /\ fd'[u] = fd[u]
      BY <1>1, <1>2, <1>3, <2>3
    <2> QED
      BY <1>0, <2>1, <2>2, <2>3, CopySteps
  <1>4. ASSUME NEW u \in Uploads, Copied(u)' PROVE copied'[u] = temp'[u]
    <2>0. fd'[u] # NoFile /\ pc'[u] # "copy" /\ (pc'[u] = "failed" => faults' = 0)
      BY <1>4 DEF Copied
    <2>1. ~CopyOpen(u)
      BY <2>0, Opening
    <2>2. fd[u] # NoFile
      BY <1>0, <2>0, <2>1, CopySteps DEF CopyChunk
    <2>3. CASE pc[u] # "copy"
      <3>1. ~CopyChunk(u)
        BY <2>3 DEF CopyChunk
      <3>2. pc[u] = "failed" => pc'[u] = "failed"
        BY <1>0, PcSteps DEF Moves, Begin, Receive, ClientGone, BodyRead, Dropped, RenameTemp,
            CopyOpen, CopyEnd, CopyFails, RenameTmp, UpsertTrack, EnqueueAnalysis, Crash
      <3>3. Copied(u)
        BY <1>0, <2>0, <2>2, <2>3, <3>2 DEF Copied
      <3> QED
        BY <1>0, <1>1, <1>2, <2>1, <2>2, <3>1, <3>3, CopySteps
    <2>4. CASE pc[u] = "copy"
      <3>1. CopyEnd(u)
        <4>1. Moves(u)
          BY <1>0, <2>0, <2>4, PcSteps
        <4>2. ~CopyFails(u) /\ ~Crash
          BY <1>0, <2>0, <2>4 DEF CopyFails, Crash
        <4> QED
          BY <2>1, <2>4, <4>1, <4>2 DEF Moves, Begin, Receive, ClientGone, BodyRead, Dropped,
              RenameTemp, RenameTmp, UpsertTrack, EnqueueAnalysis
      <3>2. copied[u] = temp[u] /\ copied' = copied
        BY <3>1 DEF CopyEnd, copyVars
      <3> QED
        BY <1>2, <2>2, <3>2
    <2> QED
      BY <2>3, <2>4
  <1>5. ASSUME NEW i \in Uploads, fd'[i] = i
        PROVE  /\ data'[i] \subseteq 1..hash'[i]
               /\ \E u \in Uploads : fd'[u] = i /\ 1..copied'[u] \subseteq data'[i]
    <2>1. CASE \E v \in Uploads : CopyOpen(v) /\ fd'[v] = i
      <3>1. PICK v \in Uploads : CopyOpen(v) /\ fd'[v] = i
        BY <2>1
      <3>2. data' = [data EXCEPT ![i] = {}] /\ fd' = [fd EXCEPT ![v] = i]
        <4>1. PICK j \in Uploads : /\ fd' = [fd EXCEPT ![v] = j]
                                   /\ data' = [data EXCEPT ![j] = {}]
          BY <3>1, Opening
        <4> QED
          BY <1>0, <3>1, <4>1
      <3>3. copied[v] = 0 /\ copied' = copied
        BY <1>0, <3>1 DEF CopyOpen, InodesOK
      <3>4. data'[i] = {} /\ 1..copied'[v] = {}
        BY <1>0, <3>2, <3>3
      <3> QED
        BY <3>1, <3>4
    <2>2. CASE ~\E v \in Uploads : CopyOpen(v) /\ fd'[v] = i
      <3>1. fd[i] = i /\ hash'[i] = hash[i] /\ hash[i] \in Hashes
        <4>1. fd[i] = i
          BY <1>5, <2>2, CopySteps DEF CopyChunk, TypeOK, RInv
        <4> QED
          BY <1>2, <4>1
      <3>2. PICK u \in Uploads : fd[u] = i /\ 1..copied[u] \subseteq data[i]
        BY <1>1, <3>1
      <3>3. fd'[u] = i /\ data[i] \subseteq 1..hash[i]
        BY <1>1, <1>2, <3>1, <3>2
      <3>4. CASE \E v \in Uploads : CopyChunk(v) /\ fd[v] = i
        <4>1. PICK v \in Uploads : CopyChunk(v) /\ fd[v] = i
          BY <3>4
        <4>2. /\ data' = [data EXCEPT ![i] = @ \cup {copied[v] + 1}]
              /\ copied' = [copied EXCEPT ![v] = @ + 1]
              /\ copied[v] < temp[v]
          BY <4>1 DEF CopyChunk
        <4>3. data'[i] = data[i] \cup {copied[v] + 1}
          BY <1>0, <4>2
        <4>4. copied[v] + 1 \in 1..hash[i]
          <5>1. temp[v] <= hash[i]
            BY <1>2, <4>1
          <5>2. copied[v] \in Nat /\ temp[v] \in Nat /\ hash[i] \in Nat
            BY <1>0, <3>1
          <5> QED
            BY <4>2, <5>1, <5>2
        <4>5. 1..copied'[u] \subseteq data'[i]
          <5>1. CASE u = v
            <6>1. copied'[u] = copied[u] + 1 /\ copied[u] \in Nat
              BY <1>0, <4>2, <5>1
            <6>2. 1..(copied[u] + 1) = 1..copied[u] \cup {copied[u] + 1}
              BY <6>1
            <6> QED
              BY <3>2, <4>3, <5>1, <6>1, <6>2
          <5>2. CASE u # v
            BY <1>0, <3>2, <4>2, <4>3, <5>2
          <5> QED
            BY <5>1, <5>2
        <4> QED
          BY <3>1, <3>3, <4>3, <4>4, <4>5
      <3>5. CASE ~\E v \in Uploads : CopyChunk(v) /\ fd[v] = i
        <4>1. copied'[u] = copied[u]
          BY <1>0, <2>2, <3>2, <3>3, <3>5, CopySteps
        <4>2. data'[i] = data[i]
          <5>1. ASSUME NEW v \in Uploads, CopyOpen(v) PROVE data'[i] = data[i]
            <6>1. PICK j \in Uploads : /\ fd' = [fd EXCEPT ![v] = j]
                                       /\ data' = [data EXCEPT ![j] = {}]
              BY <5>1, Opening
            <6>2. j # i
              BY <1>0, <2>2, <5>1, <6>1
            <6> QED
              BY <1>0, <6>1, <6>2
          <5>2. ASSUME NEW v \in Uploads, CopyChunk(v) PROVE data'[i] = data[i]
            BY <1>0, <3>5, <5>2 DEF CopyChunk
          <5> QED
            BY <5>1, <5>2, DataSteps
        <4> QED
          BY <3>1, <3>2, <3>3, <4>1, <4>2
      <3> QED
        BY <3>4, <3>5
    <2> QED
      BY <2>1, <2>2
  <1> QED
    BY <1>3, <1>4, <1>5
-----------------------------------------------------------------------------
(* What is filed under a hash, and the jobs.                               *)

LEMMA NamedKept ==
  ASSUME RInv, [Next]_vars
  PROVE  NamedOK'
  <1>0. /\ TypeOK /\ InodesOK /\ ContestOK /\ NamedOK /\ sameDevice' = sameDevice
        /\ target \in [Hashes -> Uploads \cup {NoFile}] /\ pc \in [Uploads -> Stages]
    BY FaultsGrow DEF RInv, TypeOK
  <1>1. ASSUME ~sameDevice, NEW k \in Hashes, target'[k] # NoFile
        PROVE  StaysContested(k) \/ pc'[target'[k]] \notin {"copy", "rename"}
    <2>1. CASE target'[k] = target[k]
      <3>1. target[k] \in Uploads /\ pc[target[k]] \notin Early
        BY <1>0, <1>1, <2>1 DEF InodesOK
      <3> QED
        BY <1>0, <1>1, <2>1, <3>1, LateStays, ContestsStay DEF NamedOK
    <2>2. CASE target'[k] # target[k]
      <3>1. PICK u \in Uploads : RenameTemp(u) \/ CopyOpen(u) \/ RenameTmp(u)
        BY <2>2, NameSteps
      <3>2. ~RenameTemp(u) /\ ~CopyOpen(u)
        BY <1>1, <2>2 DEF RenameTemp, CopyOpen
      <3>3. /\ pc[u] = "rename" /\ target'[k] = dest_tmp[k] /\ hash[u] = k
            /\ pc'[u] = "upsert"
        BY <1>0, <1>1, <2>2, <3>1, <3>2 DEF RenameTmp
      <3>4. CASE u # dest_tmp[k]
        <4>1. fd[dest_tmp[k]] = dest_tmp[k] /\ dest_tmp[k] \in Uploads /\ dest_tmp[k] # NoFile
          BY <1>0, <1>1, <3>3 DEF InodesOK, TypeOK
        <4>2. Contested(k)
          BY <1>0, <3>3, <3>4, <4>1 DEF ContestOK, Contested
        <4> QED
          BY <4>2, ContestsStay
      <3> QED
        BY <3>3, <3>4
    <2> QED
      BY <2>1, <2>2
  <1> QED
    BY <1>0, <1>1 DEF NamedOK, Contested, StaysContested

\* A file is whole if no last write was lost and all copies are over.
LEMMA FiledIsWhole ==
  ASSUME RInv, WritesLand, NEW k \in Hashes, target[k] # NoFile,
         \A u \in Uploads : hash[u] = k => temp[u] = k,
         \A u \in Uploads : fd[u] = target[k] => copied[u] = temp[u]
  PROVE  Whole(k)
  <1>1. /\ target[k] \in Uploads /\ hash[target[k]] = k
        /\ ~sameDevice => fd[target[k]] = target[k]
    BY DEF RInv, TypeOK, InodesOK
  <1>2. CASE sameDevice
    BY <1>1, <1>2 DEF Whole, Content
  <1>3. CASE ~sameDevice
    <2>1. /\ data[target[k]] \subseteq 1..k
          /\ \E u \in Uploads : fd[u] = target[k] /\ 1..copied[u] \subseteq data[target[k]]
      BY <1>1, <1>3 DEF RInv, WholeOK
    <2>2. PICK u \in Uploads : fd[u] = target[k] /\ 1..copied[u] \subseteq data[target[k]]
      BY <2>1
    <2>3. hash[u] = k
      BY <1>1, <2>2 DEF RInv, InodesOK
    <2>4. copied[u] = k
      BY <2>2, <2>3
    <2> QED
      BY <1>3, <2>1, <2>2, <2>4 DEF Whole, Content
  <1> QED
    BY <1>2, <1>3

\* Without a fault and a contest what a job reads is the whole file.
LEMMA JobReadsWhole ==
  ASSUME RInv, WritesLand, faults = 0, NEW k \in queued, ~Contested(k)
  PROVE  k = NumChunks /\ Whole(k)
  <1>0. TypeOK /\ InodesOK /\ k \in Hashes /\ target[k] # NoFile /\ k = NumChunks
    BY DEF RInv, FilesOK, TrackHasFile, TypeOK, JobsOK
  <1>1. \A u \in Uploads : hash[u] = k => temp[u] = k
    BY <1>0, TempSettled
  <1>2. ASSUME NEW u \in Uploads, fd[u] = target[k] PROVE copied[u] = temp[u]
    <2>1. /\ target[k] \in Uploads /\ hash[target[k]] = k /\ hash[u] = k
          /\ ~sameDevice /\ fd[target[k]] = target[k]
      BY <1>0, <1>2 DEF InodesOK, TypeOK
    <2>2. u = target[k]
      BY <1>0, <1>2, <2>1 DEF Contested
    <2>3. Copied(u)
      BY <1>0, <1>2, <2>1, <2>2 DEF RInv, NamedOK, Copied
    <2> QED
      BY <2>3 DEF RInv, WholeOK
  <1> QED
    BY <1>0, <1>1, <1>2, FiledIsWhole

LEMMA JobsKept ==
  ASSUME RInv, [Next]_vars
  PROVE  JobsOK'
  <1>0. /\ TypeOK /\ HashOK /\ JobsOK /\ audio' = audio
        /\ faults \in Nat /\ faults' \in Nat /\ faults <= faults'
    BY FaultsGrow DEF RInv, TypeOK
  <1>1. ASSUME WritesLand, NEW k \in dead', audio, faults' = 0 PROVE StaysContested(k)
    <2>1. faults = 0
      BY <1>0, <1>1
    <2>2. CASE k \in dead
      BY <1>0, <1>1, <2>1, <2>2, ContestsStay DEF JobsOK, DeadForAReason
    <2>3. CASE k \notin dead
      <3>1. PICK l \in Hashes : Analyze(l)
        BY <1>1, <2>3, TrackSteps DEF dbVars, UpsertTrack, EnqueueAnalysis
      <3>2. k = l /\ k \in queued /\ MayNotDecode(k)
        BY <1>1, <2>1, <2>3, <3>1 DEF Analyze
      <3>3. Contested(k)
        BY <1>1, <2>1, <3>2, JobReadsWhole DEF MayNotDecode
      <3> QED
        BY <3>3, ContestsStay
    <2> QED
      BY <2>2, <2>3
  <1>2. ASSUME faults' = 0 PROVE queued' \subseteq {NumChunks}
    <2>1. faults = 0 /\ queued \subseteq {NumChunks}
      BY <1>0, <1>2 DEF JobsOK
    <2>2. ASSUME NEW u \in Uploads, UpsertTrack(u) \/ EnqueueAnalysis(u)
          PROVE  queued' \subseteq {NumChunks}
      <3>1. CASE UpsertTrack(u)
        BY <2>1, <3>1 DEF UpsertTrack
      <3>2. CASE EnqueueAnalysis(u)
        <4>1. pc[u] = "enqueue" /\ queued' \subseteq queued \cup {hash[u]}
          BY <3>2 DEF EnqueueAnalysis
        <4>2. hash[u] = NumChunks
          BY <1>0, <2>1, <4>1 DEF HashOK
        <4> QED
          BY <2>1, <4>1, <4>2
      <3> QED
        BY <2>2, <3>1, <3>2
    <2>3. ASSUME NEW k \in Hashes, Analyze(k) PROVE queued' \subseteq {NumChunks}
      BY <2>1, <2>3 DEF Analyze
    <2> QED
      BY <2>1, <2>2, <2>3, TrackSteps DEF dbVars
  <1> QED
    BY <1>0, <1>1, <1>2 DEF JobsOK, DeadForAReason, Contested, StaysContested
-----------------------------------------------------------------------------
(* The invariant, and what follows.                                        *)

LEMMA NextRInv == RInv /\ [Next]_vars => RInv'
  BY TypesKept, RecvKept, HashKept, FilesKept, InodesKept, ContestKept, FailsKept, NamedKept,
     WholeKept, JobsKept
  DEF RInv

LEMMA RInvInvariant == Spec => []RInv
  BY InitRInv, NextRInv, PTL DEF Spec

\* Every ingest, file and row the gateway can reach is one the code knows; in
\* particular the temp file never lags more than the write under way.
THEOREM IngestTypeCorrect == Spec => []TypeOK
  <1>1. RInv => TypeOK
    BY DEF RInv
  <1> QED
    BY <1>1, RInvInvariant, PTL

\* No track and no analysis job is ever without a file in the store, whichever
\* writes, copies and statements fail and wherever the gateway dies:
\* store_from_temp comes before upsert_track, and nothing removes a name.
THEOREM NoTrackWithoutFile == Spec => []TrackHasFile
  <1>1. RInv => TrackHasFile
    BY DEF RInv, FilesOK
  <1> QED
    BY <1>1, RInvInvariant, PTL

\* Uploads of the same bytes may truncate, fill and rename each other's
\* <hash>.tmp in any order; once none of them is storing, what is filed under
\* the hash is the whole file, provided the last write landed in time.
THEOREM StoreIsContentAddressed == Spec => []AtRestIsWhole
  <1>1. ASSUME RInv PROVE AtRestIsWhole
    <2> SUFFICES ASSUME WritesLand, faults = 0, NEW k \in Hashes, target[k] # NoFile,
                        ~\E u \in Uploads : hash[u] = k /\ Storing(u)
                 PROVE  Whole(k)
      BY DEF AtRestIsWhole
    <2>1. TypeOK /\ InodesOK /\ WholeOK
      BY <1>1 DEF RInv
    <2>2. \A u \in Uploads : hash[u] = k => temp[u] = k
      BY <1>1, TempSettled
    <2>3. ASSUME NEW u \in Uploads, fd[u] = target[k] PROVE copied[u] = temp[u]
      <3>1. hash[u] = k /\ pc[u] # "copy"
        BY <2>1, <2>3 DEF InodesOK, TypeOK, Storing
      <3> QED
        BY <2>1, <2>3, <3>1 DEF WholeOK, Copied
    <2> QED
      BY <1>1, <2>2, <2>3, FiledIsWhole
  <1> QED
    BY <1>1, RInvInvariant, PTL

\* The answer of an ingest is true for any number of concurrent ingests: one
\* fails only after a fault or a lost race for <hash>.tmp, and one that reports
\* success registered the hash of the whole file, a faulty Drive import
\* excepted, and has its bytes in the store, unless an ingest of the same bytes
\* lost the error of its last write or has truncated the file and not filled it.
THEOREM AnswersAreTrue == Spec => []AnswerIsTrue
  <1>1. ASSUME RInv PROVE AnswerIsTrue
    <2>1. SuccessIsRegistered
      BY <1>1 DEF RInv, HashOK, SuccessIsRegistered
    <2>2. SuccessIsStored
      <3> SUFFICES ASSUME WritesLand, NEW u \in Uploads, pc[u] \in Succeeded,
                          \A v \in Uploads : hash[v] = hash[u] => ~LostLastWrite(v) /\ ~CutShort(v)
                   PROVE  Whole(hash[u])
        BY DEF SuccessIsStored
      <3>1. hash[u] \in Hashes /\ target[hash[u]] # NoFile
        BY <1>1, StoresHash DEF RInv, FilesOK
      <3>2. \A v \in Uploads : hash[v] = hash[u] => temp[v] = hash[u]
        BY <1>1, <3>1, TempSettled
      <3>3. ASSUME NEW v \in Uploads, fd[v] = target[hash[u]] PROVE copied[v] = temp[v]
        <4>1. fd[v] # NoFile /\ hash[v] = hash[u]
          BY <1>1, <3>1, <3>3 DEF RInv, InodesOK, TypeOK
        <4>2. copied[v] <= temp[v] /\ (Copied(v) => copied[v] = temp[v])
          BY <1>1, <4>1 DEF RInv, WholeOK
        <4>3. copied[v] \in Nat /\ temp[v] \in Nat
          BY <1>1 DEF RInv, TypeOK
        <4>4. Copied(v) \/ ~(copied[v] < temp[v])
          BY <4>1 DEF Copied, CutShort
        <4> QED
          BY <4>2, <4>3, <4>4
      <3> QED
        BY <1>1, <3>1, <3>2, <3>3, FiledIsWhole
    <2> QED
      BY <1>1, <2>1, <2>2 DEF RInv, AnswerIsTrue
  <1> QED
    BY <1>1, RInvInvariant, PTL

\* The worker gives a track up only for bytes that do not decode, a contest for
\* <hash>.tmp or a fault: what else a job of an uploaded file reads is whole.
THEOREM NoneGivenUp == Spec => []DeadForAReason
  <1>1. RInv => DeadForAReason
    BY DEF RInv, JobsOK
  <1> QED
    BY <1>1, RInvInvariant, PTL
=============================================================================
