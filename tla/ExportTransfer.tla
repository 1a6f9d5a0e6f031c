--------------------------- MODULE ExportTransfer ---------------------------
(***************************************************************************)
(* `bvault export`: the client has an export built, then reconciles it     *)
(* onto a stick, entry by entry, and deletes the staged build at the end.  *)
(* Exports follow each other on one stick, as playlists change.            *)
(*                                                                         *)
(* Content is the sequence of tracks a file is about, so two files of one  *)
(* name and size may differ.  A mounted stick gets its files by a          *)
(* temporary file and a rename; an Android tree (SAF) is written in place. *)
(***************************************************************************)
EXTENDS ExportStaging

CONSTANTS
    Nothing,      \* what an unused name on the stick holds
    RowsPerPage,  \* tracks whose rows fit into one page of export.pdb
    Short         \* tracks whose analysis files are shorter than the others'

ASSUME RowsAssumption == RowsPerPage \in Nat \ {0}
ASSUME ShortAssumption == Short \subseteq Tracks
ASSUME NothingAssumption ==
    Nothing \notin [content : Seq(Tracks), whole : BOOLEAN, right : BOOLEAN]

VARIABLES
    saf,       \* the stick is an Android tree
    usb,       \* usb[p]: the file of that name on the stick, or Nothing
    pc,        \* where the export command is
    cur,       \* the export it transfers, 0 before the first
    n,         \* index of the manifest entry it is at
    good,      \* the bytes it received for this entry are those of the entry
    skipped,   \* entries it skipped in this run
    reported   \* entries it reported as errors in this run

clientVars == <<saf, usb, pc, cur, n, good, skipped, reported>>
vars == <<stagingVars, clientVars, faults>>
-----------------------------------------------------------------------------
Names == {Pdb} \cup {Anlz(i) : i \in 1..Cardinality(Tracks)} \cup {Audio(h) : h \in Tracks}

Ended == {"idle", "done", "failed"}
Steps == Ended \cup {"build", "manifest", "entry", "get", "body", "check", "delete"}

\* What entry p of the export of T is about.
Content(T, p) ==
    CASE p.kind = "pdb" -> T
      [] p.kind = "anlz" -> <<T[p.id]>>
      [] p.kind = "audio" -> <<p.id>>

\* Its size: whole pages, or a length that depends on the track.
Size(p, content) ==
    CASE p.kind = "pdb" -> (Len(content) + RowsPerPage - 1) \div RowsPerPage
      [] p.kind = "anlz" -> IF content[1] \in Short THEN 1 ELSE 2
      [] p.kind = "audio" -> 1

File(content, whole, right) == [content |-> content, whole |-> whole, right |-> right]

Entries == Manifest(tracks[cur])
Entry == Entries[n]
Wanted(p) == Content(tracks[cur], p)
OnStick(p) == usb[p] # Nothing

\* The stick after the first k entries of an export of T.
Left(T, k) ==
    LET Present == {Manifest(T)[i] : i \in 1..k}
    IN  [p \in Names |-> IF p \in Present THEN File(Content(T, p), TRUE, TRUE) ELSE Nothing]

\* A new stick, or one that an earlier export got this far with.
Init ==
    /\ StagingInit
    /\ saf \in BOOLEAN
    /\ \E T \in Playlists : \E k \in 0..Len(Manifest(T)) : usb = Left(T, k)
    /\ pc = "idle"
    /\ cur = 0
    /\ n = 1
    /\ good = TRUE
    /\ skipped = {}
    /\ reported = {}

\* Mutated form of NextEntry: the index is not reset after the last entry.
RunsPast ==
    /\ n' = n + 1
    /\ pc' = IF n = Len(Entries) THEN "delete" ELSE "entry"

\* The loop goes on with the next entry, or to the cleanup.
NextEntry ==
    /\ n' = IF n = Len(Entries) THEN 1 ELSE n + 1
    /\ pc' = IF n = Len(Entries) THEN "delete" ELSE "entry"

Report == reported' = reported \cup {Entry}

Put(p, file) == usb' = [usb EXCEPT ![p] = file]
-----------------------------------------------------------------------------
\* POST /exports, with the playlist as it is now.
CreateExport(T) ==
    /\ pc \in Ended
    /\ cur < MaxExports
    /\ cur' = cur + 1
    /\ pc' = "build"
    /\ skipped' = {} /\ reported' = {}
    /\ BeginBuild(cur + 1, T)
    /\ UNCHANGED <<saf, usb, n, good, faults>>

\* The answer: the export_id, or an error, and the command ends.
BuildAnswers ==
    /\ pc = "build" /\ build[cur] = 0
    /\ pc' = IF Record("owner") \in staged[cur] THEN "manifest" ELSE "failed"
    /\ UNCHANGED <<stagingVars, saf, usb, cur, n, good, skipped, reported, faults>>

FetchManifest ==
    /\ pc = "manifest"
    /\ pc' = IF ServesManifest(cur) THEN "entry" ELSE "failed"
    /\ UNCHANGED <<stagingVars, saf, usb, cur, n, good, skipped, reported, faults>>

\* A file of the entry's name and size is taken for the entry.
Skips(p) ==
    /\ ~saf
    /\ OnStick(p)
    /\ Size(p, usb[p].content) = Size(p, Wanted(p))

SkipEntry ==
    /\ pc = "entry" /\ Skips(Entry)
    /\ skipped' = skipped \cup {Entry}
    /\ NextEntry
    /\ UNCHANGED <<stagingVars, saf, usb, cur, good, reported, faults>>

FetchEntry ==
    /\ pc = "entry" /\ ~Skips(Entry)
    /\ pc' = "get"
    /\ UNCHANGED <<stagingVars, saf, usb, cur, n, good, skipped, reported, faults>>

\* Mutated form of NotServed: an entry the server does not have is passed over.
SkipsSilently ==
    /\ pc = "get" /\ ~ServesFile(cur, Entry)
    /\ NextEntry
    /\ UNCHANGED <<stagingVars, saf, usb, cur, good, skipped, reported, faults>>

\* An answer other than success.
NotServed ==
    /\ pc = "get" /\ ~ServesFile(cur, Entry)
    /\ Report /\ NextEntry
    /\ UNCHANGED <<stagingVars, saf, usb, cur, good, skipped, faults>>

\* Mutated form of OpenFile: every stick is written in place.
OpensInPlace ==
    /\ pc = "get" /\ ServesFile(cur, Entry)
    /\ pc' = "body"
    /\ good' = TRUE
    /\ Put(Entry, File(Wanted(Entry), FALSE, TRUE))
    /\ UNCHANGED <<stagingVars, saf, cur, n, skipped, reported, faults>>

\* sink.create: on SAF the old file is removed and the new one grows in place.
OpenFile ==
    /\ pc = "get" /\ ServesFile(cur, Entry)
    /\ pc' = "body"
    /\ good' = TRUE
    /\ IF saf THEN Put(Entry, File(Wanted(Entry), FALSE, TRUE)) ELSE UNCHANGED usb
    /\ UNCHANGED <<stagingVars, saf, cur, n, skipped, reported, faults>>

\* sink.create fails; on SAF the old file may be gone.
OpenFails ==
    /\ pc = "get" /\ ServesFile(cur, Entry) /\ Fault
    /\ IF saf THEN usb' \in {usb, [usb EXCEPT ![Entry] = Nothing]} ELSE UNCHANGED usb
    /\ Report /\ NextEntry
    /\ UNCHANGED <<stagingVars, saf, cur, good, skipped>>

\* The body arrives; the raw store's file may not have the hash of its name.
ReadBody ==
    /\ pc = "body" /\ pc' = "check"
    /\ \/ UNCHANGED <<good, faults>>
       \/ Entry.kind = "audio" /\ Fault /\ good' = FALSE
    /\ UNCHANGED <<stagingVars, saf, usb, cur, n, skipped, reported>>

\* writer.abort removes what was written, on SAF if termux-saf-rm succeeds.
Abort ==
    /\ IF saf THEN usb' \in {usb, [usb EXCEPT ![Entry] = Nothing]} ELSE UNCHANGED usb
    /\ Report /\ NextEntry
    /\ UNCHANGED <<stagingVars, saf, cur, good, skipped>>

\* The stream or a write breaks.
BodyFails == pc = "body" /\ Fault /\ Abort

HashMismatch == pc = "check" /\ ~good /\ Abort /\ UNCHANGED faults

\* Mutated form of Commit: audio is not checked against its hash.
CommitsUnchecked ==
    /\ pc = "check"
    /\ Put(Entry, File(Wanted(Entry), TRUE, good))
    /\ NextEntry
    /\ UNCHANGED <<stagingVars, saf, cur, good, skipped, reported, faults>>

Commit ==
    /\ pc = "check" /\ good
    /\ Put(Entry, File(Wanted(Entry), TRUE, TRUE))
    /\ NextEntry
    /\ UNCHANGED <<stagingVars, saf, cur, good, skipped, reported, faults>>

\* On a failed commit a mounted stick keeps its old file, SAF the partial one.
CommitFails ==
    /\ pc = "check" /\ good /\ Fault
    /\ Report /\ NextEntry
    /\ UNCHANGED <<stagingVars, saf, usb, cur, good, skipped>>

\* DELETE, best effort, whatever was reported; then on_complete.
Cleanup ==
    /\ pc = "delete" /\ pc' = "done"
    /\ \/ Record("owner") \in staged[cur] /\ StartRemove(cur) /\ UNCHANGED faults
       \/ Record("owner") \notin staged[cur] /\ UNCHANGED <<stagingVars, faults>>
       \/ Fault /\ UNCHANGED stagingVars
    /\ UNCHANGED <<saf, usb, cur, n, good, skipped, reported>>

\* A lost call, a failed stat or mkdir, or a killed command: the run ends where
\* it is.
RunFails ==
    /\ pc \notin Ended /\ Fault
    /\ pc' = "failed"
    /\ n' = 1
    /\ UNCHANGED <<stagingVars, saf, usb, cur, good, skipped, reported>>

Client ==
    \/ BuildAnswers \/ FetchManifest
    \/ SkipEntry \/ FetchEntry \/ NotServed \/ OpenFile
    \/ ReadBody \/ HashMismatch \/ Commit
    \/ Cleanup

Builder(e) == WritePiece(e) \/ BuildFails(e)

ServerStep ==
    /\ \E e \in Exports : Builder(e) \/ Sweep(e) \/ RemovePiece(e)
                         \/ RemovalFails(e) \/ Ages(e)
    /\ UNCHANGED <<clientVars, faults>>

ServerDies ==
    /\ BuilderDies \/ \E e \in Exports : BuildBreaks(e)
    /\ Fault
    /\ UNCHANGED clientVars

Next ==
    \/ \E T \in Playlists : CreateExport(T)
    \/ Client
    \/ OpenFails \/ BodyFails \/ CommitFails \/ RunFails
    \/ ServerStep
    \/ ServerDies

Spec == Init /\ [][Next]_vars

\* The command runs on, the builder works and removes, time passes and the
\* sweep comes every hour.
Server(A) == A /\ UNCHANGED <<clientVars, faults>>

Fairness ==
    /\ WF_vars(Client)
    /\ \A e \in Exports :
          /\ WF_vars(Server(Builder(e)))
          /\ WF_vars(Server(Ages(e) \/ Sweep(e) \/ RemovePiece(e)))

FairSpec == Spec /\ Fairness
-----------------------------------------------------------------------------
(* Properties *)

TypeOK ==
    /\ tracks \in [Exports -> Playlists \cup {<<>>}]
    /\ build \in [Exports -> 0..(Cardinality(Tracks) + 4)]
    /\ \A e \in Exports : staged[e] \subseteq Names \cup Records
    /\ old \subseteq Exports
    /\ removing \subseteq Exports
    /\ saf \in BOOLEAN
    /\ \A p \in Names : OnStick(p) =>
          /\ usb[p].content \in Playlists \cup {<<h>> : h \in Tracks}
          /\ usb[p].whole \in BOOLEAN /\ usb[p].right \in BOOLEAN
    /\ pc \in Steps
    /\ cur \in 0..MaxExports
    /\ pc \notin Ended => cur > 0
    /\ n \in 1..(2 * Cardinality(Tracks) + 1)
    /\ good \in BOOLEAN
    /\ skipped \subseteq Names /\ reported \subseteq Names
    /\ faults \in 0..MaxFaults

\* A player that gets a mounted stick at any moment, after a crash or a pulled
\* stick too, finds only whole files under their names (FsWriter).
MountedFilesAreWhole == ~saf => \A p \in Names : OnStick(p) => usb[p].whole

\* Audio that is whole on the stick has the hash in its name, whatever the raw
\* store served in this or an earlier run; so skipping it by size is right.
AudioIsRight ==
    \A h \in Tracks :
        OnStick(Audio(h)) /\ usb[Audio(h)].whole => usb[Audio(h)].right

\* After a run every entry of the manifest is on the stick as this export
\* rendered it, or was reported, or was skipped with its size unchanged: nothing
\* is left out in silence, although sweeps and restarts take files away.
DifferencesAreKnown ==
    pc = "done" =>
        \A i \in DOMAIN Entries :
            LET p == Entries[i]
            IN  \/ p \in reported
                \/ /\ OnStick(p)
                   /\ usb[p].whole
                   /\ usb[p].content = Wanted(p) \/ (p \in skipped /\ Skips(p))

\* README.md: re-exporting overwrites the USB's export.pdb.
ReexportOverwritesPdb ==
    pc = "done" /\ Pdb \notin reported => usb[Pdb].content = tracks[cur]

\* The command ends, whatever the server loses meanwhile, and nothing stays in staging:
\* finished, failed, half-built and half-removed exports all go, by DELETE or by the sweep.
ExportSettles == []<>(pc \in Ended /\ \A e \in Exports : ~Exists(e))
=============================================================================
