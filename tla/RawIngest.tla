----------------------------- MODULE RawIngest -----------------------------
(***************************************************************************)
(* POST /ingest/upload and POST /ingest/gdrive: the multipart body, or a   *)
(* file of a Drive folder, is written to a temporary file and hashed,      *)
(* moved into the content-addressed raw store under its hash, registered   *)
(* as a track, and an analysis job is enqueued.  Ingests run concurrently, *)
(* also of the same bytes.                                                 *)
(*                                                                         *)
(* There is one file to ingest, of NumChunks chunks.  What is received of  *)
(* it is a prefix, and the hash of a prefix is its length.  It may be      *)
(* audio that decodes or not.                                              *)
(*                                                                         *)
(* Names in the store point to inodes; an inode is named after the upload  *)
(* that created it, and its content is the set of chunks in it.  The temp  *)
(* file is a tokio File: a write is handed to a background thread and at   *)
(* most one is under way, and dropping the file does not wait for it.      *)
(* WritesLand assumes that it has landed by the time the body is read.     *)
(***************************************************************************)
EXTENDS Integers, FiniteSets

CONSTANTS
    NoHash,      \* hash of an ingest that has not read its file
    Uploads,     \* bound: the uploads and Drive files of a run
    Drives,      \* those of them that are Drive files
    NoFile,      \* what an unused name points to
    NumChunks,   \* bound: chunks of a body
    MaxFaults,   \* bound: failed writes, copies and statements, lost clients, crashes
    WritesLand   \* TRUE: the last write is done before the temp file is moved

ASSUME DrivesAssumption == Drives \subseteq Uploads
ASSUME NumChunksAssumption == NumChunks \in Nat \ {0}
ASSUME RawFaultsAssumption == MaxFaults \in Nat
ASSUME NoFileAssumption == NoFile \notin Uploads
ASSUME NoHashAssumption == NoHash \notin 0..NumChunks
ASSUME WritesLandAssumption == WritesLand \in BOOLEAN

VARIABLES
    sameDevice,  \* the temp directory and the store share a file system
    audio,       \* the file is audio that decodes
    pc,          \* pc[u]: where the handler of ingest u is
    hash,        \* hash[u]: the hash of the bytes it has read
    got,         \* got[u]: chunks handed to the temp file
    fly,         \* fly[u]: the last of them is still being written
    temp,        \* temp[u]: chunks in the temp file
    copied,      \* copied[u]: chunks copied by the cross-device fallback
    fd,          \* fd[u]: inode the fallback copies into
    data,        \* data[i]: chunks in inode i of the store
    dest_tmp,    \* dest_tmp[k]: inode behind <hash>.tmp
    target,      \* target[k]: inode behind <hash>.<ext>
    tracks,      \* hashes with a row in tracks
    queued,      \* hashes with an active analysis job
    dead,        \* hashes with a dead one
    artifact,    \* artifact[k]: none, or what its analysis was computed from
    faults       \* history: faults so far

setting == <<sameDevice, audio>>
fileVars == <<data, dest_tmp, target>>
tempVars == <<got, fly, temp>>
copyVars == <<copied, fd>>
dbVars == <<tracks, queued, dead>>
vars == <<setting, pc, hash, tempVars, copyVars, fileVars, dbVars, artifact, faults>>
-----------------------------------------------------------------------------
Chunks == 1..NumChunks
Hashes == 0..NumChunks

Stages == {"idle", "recv", "store", "copy", "rename", "upsert", "enqueue",
           "done", "dropped", "failed"}

\* The two answers of success: of an ingest that got its job, or needs none,
\* and of one whose enqueue failed.
Succeeded == {"done", "dropped"}
Ended == Succeeded \cup {"failed"}

\* What a reader of the store finds under hash k.
Content(k) ==
    IF target[k] = NoFile THEN {}
    ELSE IF sameDevice THEN 1..temp[target[k]] ELSE data[target[k]]

Whole(k) == Content(k) = 1..k

Init ==
    /\ sameDevice \in BOOLEAN
    /\ audio \in BOOLEAN
    /\ pc = [u \in Uploads |-> "idle"]
    /\ hash = [u \in Uploads |-> NoHash]
    /\ got = [u \in Uploads |-> 0]
    /\ fly = [u \in Uploads |-> FALSE]
    /\ temp = [u \in Uploads |-> 0]
    /\ copied = [u \in Uploads |-> 0]
    /\ fd = [u \in Uploads |-> NoFile]
    /\ data = [u \in Uploads |-> {}]
    /\ dest_tmp = [k \in Hashes |-> NoFile]
    /\ target = [k \in Hashes |-> NoFile]
    /\ tracks = {}
    /\ queued = {}
    /\ dead = {}
    /\ artifact = [k \in Hashes |-> "none"]
    /\ faults = 0

Goto(u, from, to) == pc[u] = from /\ pc' = [pc EXCEPT ![u] = to]
Fault == faults < MaxFaults /\ faults' = faults + 1
-----------------------------------------------------------------------------
(* Receiving the body. *)

\* A Drive import takes its files one after the other.
Importing == \E u \in Drives : pc[u] \notin Ended \cup {"idle"}

Begin(u) ==
    /\ u \in Drives => ~Importing
    /\ Goto(u, "idle", "recv")
    /\ UNCHANGED <<setting, hash, tempVars, copyVars, fileVars, dbVars, artifact, faults>>

\* Mutated form of Receive: it does not wait for the write before.
DoesNotWait(u) ==
    /\ pc[u] = "recv" /\ got[u] < NumChunks
    /\ got' = [got EXCEPT ![u] = @ + 1]
    /\ fly' = [fly EXCEPT ![u] = TRUE]
    /\ UNCHANGED <<setting, pc, hash, temp, copyVars, fileVars, dbVars, artifact, faults>>

\* write_all waits for the write before it, and returns that one's error.
Receive(u) ==
    /\ pc[u] = "recv" /\ got[u] < NumChunks /\ ~fly[u]
    /\ \/ /\ temp[u] = got[u]
          /\ got' = [got EXCEPT ![u] = @ + 1]
          /\ fly' = [fly EXCEPT ![u] = TRUE]
          /\ UNCHANGED pc
       \/ /\ temp[u] < got[u]
          /\ pc' = [pc EXCEPT ![u] = "failed"]
          /\ UNCHANGED <<got, fly>>
    /\ UNCHANGED <<setting, hash, temp, copyVars, fileVars, dbVars, artifact, faults>>

WriteLands(u) ==
    /\ fly[u]
    /\ fly' = [fly EXCEPT ![u] = FALSE]
    /\ temp' = [temp EXCEPT ![u] = @ + 1]
    /\ UNCHANGED <<setting, pc, hash, got, copyVars, fileVars, dbVars, artifact, faults>>

WriteFails(u) ==
    /\ fly[u] /\ Fault
    /\ fly' = [fly EXCEPT ![u] = FALSE]
    /\ UNCHANGED <<setting, pc, hash, got, temp, copyVars, fileVars, dbVars, artifact>>

\* The client of an upload goes away; Drive does not answer for a file.
ClientGone(u) ==
    /\ u \notin Drives \/ got[u] = 0
    /\ Goto(u, "recv", "failed") /\ Fault
    /\ UNCHANGED <<setting, hash, tempVars, copyVars, fileVars, dbVars, artifact>>

\* The file is dropped, neither flushed nor synced.
Dropped(u, to) ==
    /\ WritesLand => ~fly[u]
    /\ Goto(u, "recv", to)
    /\ hash' = [hash EXCEPT ![u] = got[u]]
    /\ UNCHANGED <<setting, tempVars, copyVars, fileVars, dbVars, artifact>>

\* Mutated form of BodyRead: an error of any stream is taken for its end.
EndsOnError(u) ==
    /\ \/ got[u] = NumChunks /\ UNCHANGED faults
       \/ Fault
    /\ Dropped(u, "store")

\* The body is at its end; the Drive loop takes an error for the end, too.
BodyRead(u) ==
    /\ \/ got[u] = NumChunks /\ UNCHANGED faults
       \/ u \in Drives /\ got[u] < NumChunks /\ Fault
    /\ Dropped(u, "store")
-----------------------------------------------------------------------------
(* RawStore::store_from_temp. *)

\* On one device the temp file itself is renamed to its place.
RenameTemp(u) ==
    /\ sameDevice
    /\ Goto(u, "store", "upsert")
    /\ target' = [target EXCEPT ![hash[u]] = u]
    /\ UNCHANGED <<setting, hash, tempVars, copyVars, data, dest_tmp, dbVars, artifact, faults>>

\* Across devices the bytes are copied to <hash>.tmp, which is created or, if
\* another upload is using it, truncated.
CopyOpen(u) ==
    /\ ~sameDevice
    /\ Goto(u, "store", "copy")
    /\ dest_tmp' = [dest_tmp EXCEPT ![hash[u]] = IF @ = NoFile THEN u ELSE @]
    /\ fd' = [fd EXCEPT ![u] = dest_tmp'[hash[u]]]
    /\ data' = [data EXCEPT ![fd'[u]] = {}]
    /\ UNCHANGED <<setting, hash, tempVars, copied, target, dbVars, artifact, faults>>

CopyChunk(u) ==
    /\ pc[u] = "copy" /\ copied[u] < temp[u]
    /\ copied' = [copied EXCEPT ![u] = @ + 1]
    /\ data' = [data EXCEPT ![fd[u]] = @ \cup {copied[u] + 1}]
    /\ UNCHANGED <<setting, pc, hash, tempVars, fd, dest_tmp, target, dbVars, artifact, faults>>

\* Mutated form of CopyEnd: the copy stops one chunk short.
StopsShort(u) ==
    /\ copied[u] >= temp[u] - 1
    /\ Goto(u, "copy", "rename")
    /\ UNCHANGED <<setting, hash, tempVars, copyVars, fileVars, dbVars, artifact, faults>>

\* The copy ends where the temp file ends now.
CopyEnd(u) ==
    /\ copied[u] = temp[u]
    /\ Goto(u, "copy", "rename")
    /\ UNCHANGED <<setting, hash, tempVars, copyVars, fileVars, dbVars, artifact, faults>>

CopyFails(u) ==
    /\ Goto(u, "copy", "failed") /\ Fault
    /\ UNCHANGED <<setting, hash, tempVars, copyVars, fileVars, dbVars, artifact>>

\* The rename moves whatever <hash>.tmp names; without it the upload fails.
RenameTmp(u) ==
    /\ \/ /\ Goto(u, "rename", "upsert")
          /\ dest_tmp[hash[u]] # NoFile
          /\ target' = [target EXCEPT ![hash[u]] = dest_tmp[hash[u]]]
          /\ dest_tmp' = [dest_tmp EXCEPT ![hash[u]] = NoFile]
       \/ /\ Goto(u, "rename", "failed")
          /\ dest_tmp[hash[u]] = NoFile
          /\ UNCHANGED <<target, dest_tmp>>
    /\ UNCHANGED <<setting, hash, tempVars, copyVars, data, dbVars, artifact, faults>>
-----------------------------------------------------------------------------
(* Registering and enqueueing. *)

\* An error ends an upload; a Drive import drops it.
UpsertTrack(u) ==
    /\ \/ Goto(u, "upsert", "enqueue") /\ tracks' = tracks \cup {hash[u]} /\ UNCHANGED faults
       \/ /\ Goto(u, "upsert", IF u \in Drives THEN "enqueue" ELSE "failed")
          /\ Fault /\ UNCHANGED tracks
    /\ UNCHANGED <<setting, hash, tempVars, copyVars, fileVars, queued, dead, artifact>>


\* An analyzed hash needs no job; the enqueue's error is dropped.
EnqueueAnalysis(u) ==
    /\ \/ /\ Goto(u, "enqueue", "done")
          /\ queued' = IF artifact[hash[u]] = "none" THEN queued \cup {hash[u]} ELSE queued
          /\ UNCHANGED faults
       \/ /\ Goto(u, "enqueue", "dropped")
          /\ artifact[hash[u]] = "none" /\ Fault
          /\ UNCHANGED queued
    /\ UNCHANGED <<setting, hash, tempVars, copyVars, fileVars, tracks, dead, artifact>>

\* The gateway dies with everything it had under way.
Crash ==
    /\ Fault
    /\ pc' = [u \in Uploads |-> IF pc[u] \in {"idle"} \cup Succeeded THEN pc[u] ELSE "failed"]
    /\ fly' = [u \in Uploads |-> FALSE]
    /\ UNCHANGED <<setting, hash, got, temp, copyVars, fileVars, dbVars, artifact>>

\* Bytes that need not decode: those of no audio, and of a part of it.
MayNotDecode(k) == ~audio \/ k < NumChunks \/ ~Whole(k)

\* The worker decodes what it finds and keeps the analysis for good; or every
\* attempt fails, on the bytes or, a fault, on the stores or in a panic, and the
\* job ends dead.
Analyze(k) ==
    /\ k \in queued
    /\ queued' = queued \ {k}
    /\ \/ artifact[k] # "none" /\ UNCHANGED <<artifact, dead, faults>>
       \/ /\ artifact[k] = "none" /\ audio /\ Content(k) # {}
          /\ artifact' = [artifact EXCEPT ![k] = IF Whole(k) THEN "whole" ELSE "torn"]
          /\ UNCHANGED <<dead, faults>>
       \/ /\ artifact[k] = "none"
          /\ dead' = dead \cup {k}
          /\ Fault \/ (MayNotDecode(k) /\ UNCHANGED faults)
          /\ UNCHANGED artifact
    /\ UNCHANGED <<setting, pc, hash, tempVars, copyVars, fileVars, tracks>>

Store(u) == RenameTemp(u) \/ CopyOpen(u) \/ CopyChunk(u) \/ CopyEnd(u) \/ RenameTmp(u)
Handle(u) == Receive(u) \/ BodyRead(u) \/ Store(u) \/ UpsertTrack(u) \/ EnqueueAnalysis(u)

Next ==
    \/ \E u \in Uploads :
          \/ Begin(u)
          \/ Handle(u)
          \/ WriteLands(u) \/ WriteFails(u)
          \/ ClientGone(u) \/ CopyFails(u)
    \/ Crash
    \/ \E k \in Hashes : Analyze(k)

Spec == Init /\ [][Next]_vars

\* Handlers run on, or their background writes do, and the worker serves its queue.
Fairness ==
    /\ \A u \in Uploads : WF_vars(Handle(u) \/ WriteLands(u))
    /\ WF_vars(\E k \in Hashes : Analyze(k))

FairSpec == Spec /\ Fairness
-----------------------------------------------------------------------------
(* Properties *)

TypeOK ==
    /\ sameDevice \in BOOLEAN
    /\ audio \in BOOLEAN
    /\ pc \in [Uploads -> Stages]
    /\ hash \in [Uploads -> Hashes \cup {NoHash}]
    /\ got \in [Uploads -> 0..NumChunks]
    /\ fly \in [Uploads -> BOOLEAN]
    /\ temp \in [Uploads -> 0..NumChunks]
    /\ \A u \in Uploads : temp[u] \in {got[u], got[u] - 1}
    /\ copied \in [Uploads -> 0..NumChunks]
    /\ fd \in [Uploads -> Uploads \cup {NoFile}]
    /\ data \in [Uploads -> SUBSET Chunks]
    /\ dest_tmp \in [Hashes -> Uploads \cup {NoFile}]
    /\ target \in [Hashes -> Uploads \cup {NoFile}]
    /\ tracks \subseteq Hashes
    /\ queued \subseteq Hashes
    /\ dead \subseteq Hashes
    /\ artifact \in [Hashes -> {"none", "whole", "torn"}]
    /\ faults \in 0..MaxFaults

\* The handler of u is between reading the body and naming the file.
Storing(u) == pc[u] \in {"store", "copy", "rename"}

\* Two uploads of the bytes of k copied into the same <hash>.tmp.
Contested(k) ==
    \E u, v \in Uploads : u # v /\ hash[u] = k /\ fd[u] = fd[v] /\ fd[u] # NoFile

\* Every registered track and every analysis job has a file in the store
\* (ingest_upload registers after store_from_temp).
TrackHasFile == \A k \in tracks \cup queued : target[k] # NoFile

\* Without faults, and if writes land in time, the store is content-addressed
\* once it is at rest: what is filed under a hash has that hash, however many
\* uploads of the same bytes met in <hash>.tmp.
AtRestIsWhole ==
    WritesLand /\ faults = 0 =>
        \A k \in Hashes :
            \/ target[k] = NoFile
            \/ Whole(k)
            \/ \E u \in Uploads : hash[u] = k /\ Storing(u)

\* An upload fails only for a reason: a fault, or <hash>.tmp was contested by
\* uploads of the same bytes and one of them renamed it away (store_from_temp).
FailsForAReason ==
    \A u \in Uploads : pc[u] = "failed" => faults > 0 \/ Contested(hash[u])

\* An ingest that reports success has received the whole file and registered
\* its hash.  Only a Drive import with a fault may do less: it takes a broken
\* stream for the end of the file and drops the error of upsert_track.
SuccessIsRegistered ==
    \A u \in Uploads :
        pc[u] \in Succeeded =>
            \/ hash[u] = NumChunks /\ hash[u] \in tracks
            \/ u \in Drives /\ faults > 0

\* The temp file lacks the last chunk: the error of its write comes after the
\* last write_all and is lost with the file.
LostLastWrite(u) == temp[u] < got[u]

\* The copy into <hash>.tmp is under way, or broke off.
CutShort(u) == pc[u] \in {"copy", "failed"} /\ fd[u] # NoFile /\ copied[u] < temp[u]

\* If last writes are done in time, the bytes whose hash a success reports are
\* in the store under it.  The ways they may not be: an ingest of the same
\* bytes lost the error of its last write, this one perhaps, and its file is
\* the one stored; or it has truncated the shared <hash>.tmp and not filled it.
SuccessIsStored ==
    WritesLand =>
        \A u \in Uploads :
            pc[u] \in Succeeded =>
                \/ Whole(hash[u])
                \/ \E v \in Uploads : hash[v] = hash[u] /\ (LostLastWrite(v) \/ CutShort(v))

\* The answer of an ingest is true: both outcomes have what they say they have.
AnswerIsTrue == FailsForAReason /\ SuccessIsRegistered /\ SuccessIsStored

\* The worker gives a track up only for a reason: its bytes are no audio, they
\* met others of the same hash in <hash>.tmp, or there was a fault.
DeadForAReason ==
    WritesLand => \A k \in dead : ~audio \/ Contested(k) \/ faults > 0

\* What content addressing promises the worker: an analysis is always one of
\* the whole file, since it will never be redone (artifact.rs, put).
AnalysisIsOfWhole == \A k \in Hashes : artifact[k] # "torn"

\* The enqueue of k was lost: its error was dropped, or an ingest of the bytes
\* did not get there.
NotEnqueued(k) == \E u \in Uploads : hash[u] = k /\ pc[u] \in {"dropped", "failed"}

Settled ==
    /\ \A u \in Uploads : pc[u] \in Ended \cup {"idle"}
    /\ \A k \in tracks : artifact[k] # "none" \/ k \in dead \/ NotEnqueued(k)

=============================================================================
