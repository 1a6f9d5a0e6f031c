--------------------------- MODULE ExportStaging ---------------------------
(***************************************************************************)
(* The export-builder: POST /exports renders an export into a staging      *)
(* directory, file by file, then writes the records manifest.json,         *)
(* sources.json and owner next to it; DELETE and an hourly sweep remove    *)
(* directories, piece by piece.                                            *)
(*                                                                         *)
(* A directory is the set of its pieces, and exists while it has one.  Its *)
(* age is that of its own entries: creating or removing a record or the    *)
(* tree makes it young again, a file deep in the tree does not.            *)
(***************************************************************************)
EXTENDS Integers, Sequences, FiniteSets, SequencesExt

CONSTANTS
    Tracks,      \* analyzed tracks, by content hash
    Playlists,   \* sequences of tracks that are exported
    MaxExports,  \* bound: exports built
    MaxFaults    \* bound: crashes, lost calls and failed operations together

ASSUME TracksAssumption == IsFiniteSet(Tracks)
ASSUME PlaylistsAssumption == Playlists \subseteq (Seq(Tracks) \ {<<>>})
\* resolve_hashes selects distinct hashes.
ASSUME DistinctAssumption == \A T \in Playlists : \A i, j \in DOMAIN T : T[i] = T[j] => i = j
ASSUME MaxExportsAssumption == MaxExports \in Nat \ {0}
ASSUME ExportFaultsAssumption == MaxFaults \in Nat

VARIABLES
    tracks,    \* tracks[e]: the tracks of export e, <<>> before it is asked for
    build,     \* build[e]: index of the piece create_export writes next, 0 if none
    staged,    \* staged[e]: pieces in the staging directory
    old,       \* exports whose directory is older than export_ttl
    removing,  \* exports with a remove_dir_all under way
    faults     \* history: faults so far

stagingVars == <<tracks, build, staged, old, removing>>
-----------------------------------------------------------------------------
Exports == 1..MaxExports

Pdb == [kind |-> "pdb", id |-> 0]
Anlz(i) == [kind |-> "anlz", id |-> i]
Audio(h) == [kind |-> "audio", id |-> h]

\* What build_export writes, in its order; ids are positions, not hashes.
StagedFiles(T) == <<Pdb>> \o [i \in DOMAIN T |-> Anlz(i)]

\* The manifest: the staged files, then an entry per track into the raw store.
Manifest(T) == StagedFiles(T) \o [i \in DOMAIN T |-> Audio(T[i])]

Record(k) == [kind |-> k, id |-> 0]
RecordFiles == <<Record("manifest"), Record("sources"), Record("owner")>>
Records == {RecordFiles[i] : i \in DOMAIN RecordFiles}

Pieces(T) == StagedFiles(T) \o RecordFiles

Exists(e) == staged[e] # {}

Fault == faults < MaxFaults /\ faults' = faults + 1

StagingInit ==
    /\ tracks = [e \in Exports |-> <<>>]
    /\ build = [e \in Exports |-> 0]
    /\ staged = [e \in Exports |-> {}]
    /\ old = {}
    /\ removing = {}
    /\ faults = 0
-----------------------------------------------------------------------------
\* create_export begins: the playlist is resolved and export_id is new.
BeginBuild(e, T) ==
    /\ tracks[e] = <<>>
    /\ tracks' = [tracks EXCEPT ![e] = T]
    /\ build' = [build EXCEPT ![e] = 1]
    /\ UNCHANGED <<staged, old, removing>>

\* One file or record.  A staged file brings back the directory if the sweep
\* took it; a record does not, and its write fails.
WritePiece(e) ==
    /\ build[e] > 0
    /\ LET p == Pieces(tracks[e])[build[e]]
       IN  /\ p \in Records => Exists(e)
           /\ staged' = [staged EXCEPT ![e] = @ \cup {p}]
           /\ old' = IF p \in Records \/ ~Exists(e) THEN old \ {e} ELSE old
    /\ build' = [build EXCEPT ![e] = IF @ = Len(Pieces(tracks[e])) THEN 0 ELSE @ + 1]
    /\ UNCHANGED <<tracks, removing>>

\* A staged file or a record cannot be written for another reason.
BuildBreaks(e) ==
    /\ build[e] > 0
    /\ build' = [build EXCEPT ![e] = 0]
    /\ UNCHANGED <<tracks, staged, old, removing>>

\* The directory of a record is gone.
BuildFails(e) ==
    /\ build[e] > 0
    /\ Pieces(tracks[e])[build[e]] \in Records /\ ~Exists(e)
    /\ build' = [build EXCEPT ![e] = 0]
    /\ UNCHANGED <<tracks, staged, old, removing>>

\* A request handler or the sweep starts remove_dir_all.
StartRemove(e) ==
    /\ Exists(e)
    /\ removing' = removing \cup {e}
    /\ UNCHANGED <<tracks, build, staged, old>>

\* sweep_once, for one directory.
Sweep(e) == e \in old /\ e \notin removing /\ StartRemove(e)

\* Mutated form of RemovePiece: a removal that leaves the records.
KeepsRecords(e) ==
    /\ e \in removing
    /\ \E p \in staged[e] \ Records : staged' = [staged EXCEPT ![e] = @ \ {p}]
    /\ removing' = IF staged'[e] \subseteq Records THEN removing \ {e} ELSE removing
    /\ UNCHANGED <<tracks, build, old>>

\* remove_dir_all, one piece after the other, in any order.
RemovePiece(e) ==
    /\ e \in removing
    /\ \E p \in staged[e] :
          /\ staged' = [staged EXCEPT ![e] = @ \ {p}]
          /\ old' = IF p \in Records \/ staged'[e] \subseteq Records THEN old \ {e} ELSE old
    /\ removing' = IF staged'[e] = {} THEN removing \ {e} ELSE removing
    /\ UNCHANGED <<tracks, build>>

\* It gives up on a directory that a build still fills.
RemovalFails(e) ==
    /\ e \in removing /\ build[e] > 0
    /\ removing' = removing \ {e}
    /\ UNCHANGED <<tracks, build, staged, old>>

\* export_ttl passes.
Ages(e) ==
    /\ Exists(e) /\ e \notin old
    /\ old' = old \cup {e}
    /\ UNCHANGED <<tracks, build, staged, removing>>

\* The pod restarts: builds and removals stop where they are.
BuilderDies ==
    /\ build' = [e \in Exports |-> 0]
    /\ removing' = {}
    /\ UNCHANGED <<tracks, staged, old>>

\* get_manifest and serve_file answer only if the records they read are there.
ServesManifest(e) == {Record("owner"), Record("manifest")} \subseteq staged[e]
ServesFile(e, p) ==
    /\ {Record("owner"), Record("sources")} \subseteq staged[e]
    /\ p.kind # "audio" => p \in staged[e]
=============================================================================
