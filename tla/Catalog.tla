------------------------------ MODULE Catalog ------------------------------
(***************************************************************************)
(* The metadata database (bvault-meta) behind the gateway's library and    *)
(* playlist routes, and the command-line flows that use it: add to,        *)
(* remove from, delete, export and download a playlist by its name.        *)
(*                                                                         *)
(* A flow is a sequence of HTTP requests and a request a sequence of SQL   *)
(* statements at read committed, so a step is one statement; the           *)
(* transaction of create_playlist has two, its select and everything that  *)
(* becomes visible with its commit.  Playlists get ids in the order of     *)
(* their creation; nothing makes their names unique.                       *)
(***************************************************************************)
EXTENDS Integers, Sequences, FiniteSets, Functions

CONSTANTS
    Users,
    Clients,       \* processes of the command-line client
    Names,         \* playlist names
    Hashes,        \* content hashes
    Titles,        \* display titles, file names of a download
    None,          \* no playlist, no name, no hash, no file
    PageLimit,     \* tracks on the first page of GET /tracks (100)
    MaxPlaylists,  \* bound: playlists created in a run
    MaxFlows       \* bound: flows started in a run

ASSUME PageLimitAssumption == PageLimit \in Nat
ASSUME MaxPlaylistsAssumption == MaxPlaylists \in Nat
ASSUME MaxFlowsAssumption == MaxFlows \in Nat
ASSUME NoneAssumption ==
    /\ None \notin Hashes
    /\ None \notin Names
    /\ None \notin Titles
    /\ \A u \in Users, n \in Names : None # [owner |-> u, name |-> n]
    /\ \A k \in Hashes, b \in BOOLEAN : None # [hash |-> k, whole |-> b]

VARIABLES
    user,       \* user[c]: who client c is logged in as
    title,      \* title[k]: the title of track k
    analyzed,   \* hashes with a bundle in the artifact store
    library,    \* library[u]: the tracks of user u, newest last
    playlists,  \* playlists[i]: owner and name of playlist i, or None
    members,    \* members[i]: the hashes in playlist i
    next,       \* id of the next playlist
    flow,       \* flow[c]: the command client c runs, or "none"
    step,       \* step[c]: what it does next
    name,       \* name[c]: the playlist name it was given
    id,         \* id[c]: the playlist it found, 0 if none
    seen,       \* seen[c]: hashes read from it
    want,       \* want[c]: hashes it adds, removes, lists or has still to download
    current,    \* current[c]: the title of the file it is writing, or None
    files,      \* files[c][t]: what is in the output directory under t
    cut,        \* history: titles whose download broke off or was refused
    promised,   \* history: <<user, name, hash>> added and not removed since
    overlap,    \* history: <<user, name>> of overlapping create requests
    sometime,   \* history: members of c's playlist at some moment of its export
    throughout, \* history: ... at every moment of it
    flows       \* history: flows so far

dbVars == <<library, playlists, members, next>>
localVars == <<flow, step, name, id, seen, want>>
fileVars == <<current, files, cut>>
exportVars == <<sometime, throughout>>
vars == <<user, title, analyzed, dbVars, localVars, fileVars, promised, overlap,
          exportVars, flows>>
-----------------------------------------------------------------------------
Ids == 1..MaxPlaylists
Lists == [owner : Users, name : Names]
Files == [hash : Hashes, whole : BOOLEAN]

Commands == {"add", "remove", "delete", "export", "download"}
Steps == {"idle", "select", "commit", "list", "drop", "hashes", "tracks", "check",
          "rows", "resolve", "find", "entries", "built", "file", "fetch", "body",
          "finished"}

Library(u) == Range(library[u])

\* Mutated form of Named: a list without tracks is not found.
NamedFilled(u, n) ==
    {i \in Ids : playlists[i] = [owner |-> u, name |-> n] /\ members[i] # {}}

\* Statements and pages, as sets.
Named(u, n) == {i \in Ids : playlists[i] = [owner |-> u, name |-> n]}
Page(u) ==
    {library[u][j] : j \in {j \in 1..Len(library[u]) : j > Len(library[u]) - PageLimit}}

Init ==
    /\ user \in [Clients -> Users]
    /\ title \in [Hashes -> Titles]
    /\ analyzed \in SUBSET Hashes
    /\ library = [u \in Users |-> <<>>]
    /\ playlists = [i \in Ids |-> None]
    /\ members = [i \in Ids |-> {}]
    /\ next = 1
    /\ flow = [c \in Clients |-> "none"]
    /\ step = [c \in Clients |-> "idle"]
    /\ name = [c \in Clients |-> None]
    /\ id = [c \in Clients |-> 0]
    /\ seen = [c \in Clients |-> {}]
    /\ want = [c \in Clients |-> {}]
    /\ current = [c \in Clients |-> None]
    /\ files = [c \in Clients |-> [t \in Titles |-> None]]
    /\ cut = [c \in Clients |-> {}]
    /\ promised = {}
    /\ overlap = {}
    /\ sometime = [c \in Clients |-> {}]
    /\ throughout = [c \in Clients |-> {}]
    /\ flows = 0

Goto(c, from, to) == step[c] = from /\ step' = [step EXCEPT ![c] = to]

\* The end of a flow, successful or not.
Leave(c, from) ==
    /\ step[c] = from
    /\ step' = [step EXCEPT ![c] = "idle"]
    /\ flow' = [flow EXCEPT ![c] = "none"]
    /\ name' = [name EXCEPT ![c] = None]
    /\ id' = [id EXCEPT ![c] = 0]
    /\ seen' = [seen EXCEPT ![c] = {}]
    /\ want' = [want EXCEPT ![c] = {}]

\* What the exports under way see of a change of the members.
Exporting == {"resolve", "find", "entries"}
Watched ==
    /\ sometime' = [c \in Clients |->
          IF step[c] \in Exporting THEN sometime[c] \cup members'[id[c]] ELSE sometime[c]]
    /\ throughout' = [c \in Clients |->
          IF step[c] \in Exporting THEN throughout[c] \cap members'[id[c]] ELSE throughout[c]]
-----------------------------------------------------------------------------
(* Tracks. *)

\* upsert_track: the row of the file and the row of its owner, or neither.
UpsertTrack(u, k) ==
    /\ k \notin Library(u)
    /\ library' = [library EXCEPT ![u] = Append(@, k)]
    /\ UNCHANGED <<user, title, analyzed, playlists, members, next, localVars, fileVars,
                   promised, overlap, exportVars, flows>>
-----------------------------------------------------------------------------
(* POST /playlists: playlist add, and ingest --playlists. *)

StartAdd(c, n, S) ==
    /\ flows < MaxFlows
    /\ S \subseteq Library(user[c])
    /\ Goto(c, "idle", "select")
    /\ flow' = [flow EXCEPT ![c] = "add"]
    /\ name' = [name EXCEPT ![c] = n]
    /\ want' = [want EXCEPT ![c] = S]
    /\ flows' = flows + 1
    /\ UNCHANGED <<user, title, analyzed, dbVars, id, seen, fileVars, promised, overlap,
                   exportVars>>

\* Another request is inside its transaction for the same user and name.
Overlapping(c) ==
    \E d \in Clients \ {c} :
        step[d] = "commit" /\ user[d] = user[c] /\ name[d] = name[c]

\* Any list of that name will do; 0 means that there is none to be seen.
SelectPlaylist(c) ==
    /\ Goto(c, "select", "commit")
    /\ LET found == Named(user[c], name[c])
       IN  \E i \in (IF found = {} THEN {0} ELSE found) : id' = [id EXCEPT ![c] = i]
    /\ overlap' = IF Overlapping(c) THEN overlap \cup {<<user[c], name[c]>>} ELSE overlap
    /\ UNCHANGED <<user, title, analyzed, dbVars, flow, name, seen, want, fileVars, promised,
                   exportVars, flows>>

\* The new list, if there was none, and its tracks become visible together.
Created(c) ==
    /\ id[c] = 0
    /\ next <= MaxPlaylists
    /\ playlists' = [playlists EXCEPT ![next] = [owner |-> user[c], name |-> name[c]]]
    /\ members' = [members EXCEPT ![next] = want[c]]
    /\ next' = next + 1

\* Mutated form of Merged: rows may refer to a list that is gone.
MergedUnchecked(c) ==
    /\ id[c] # 0
    /\ members' = [members EXCEPT ![id[c]] = @ \cup want[c]]
    /\ UNCHANGED <<playlists, next>>

\* The foreign key refuses tracks, if there are any, for a list that is gone.
Merged(c) ==
    /\ id[c] # 0
    /\ playlists[id[c]] # None \/ want[c] = {}
    /\ members' = [members EXCEPT ![id[c]] = @ \cup want[c]]
    /\ UNCHANGED <<playlists, next>>

CommitPlaylist(c) ==
    /\ Leave(c, "commit")
    /\ Created(c) \/ Merged(c)
    /\ promised' = promised \cup {<<user[c], name[c], k>> : k \in want[c]}
    /\ Watched
    /\ UNCHANGED <<user, title, analyzed, library, fileVars, overlap, flows>>

CommitRejected(c) ==
    /\ step[c] = "commit" /\ id[c] # 0 /\ playlists[id[c]] = None /\ want[c] # {}
    /\ Leave(c, "commit")
    /\ UNCHANGED <<user, title, analyzed, dbVars, fileVars, promised, overlap, exportVars, flows>>
-----------------------------------------------------------------------------
(* Flows that start from GET /playlists. *)

StartNamed(c, f, n) ==
    /\ flows < MaxFlows
    /\ f \in Commands \ {"add"}
    /\ Goto(c, "idle", "list")
    /\ flow' = [flow EXCEPT ![c] = f]
    /\ name' = [name EXCEPT ![c] = n]
    /\ flows' = flows + 1
    /\ UNCHANGED <<user, title, analyzed, dbVars, id, seen, want, fileVars, promised, overlap,
                   exportVars>>

AfterList(f) ==
    CASE f = "delete" -> "drop"
      [] f = "export" -> "resolve"
      [] f \in {"remove", "download"} -> "hashes"

\* Export takes the list of that name whose transaction began last, the other
\* commands let the user choose; among several it can be any.
Pick(c) ==
    /\ \E i \in Named(user[c], name[c]) :
          /\ id' = [id EXCEPT ![c] = i]
          /\ Goto(c, "list", AfterList(flow[c]))
          /\ sometime' = [sometime EXCEPT ![c] = members[i]]
          /\ throughout' = [throughout EXCEPT ![c] = members[i]]
    /\ UNCHANGED <<user, title, analyzed, dbVars, flow, name, seen, want, fileVars, promised,
                   overlap, flows>>

NotFound(c) ==
    /\ step[c] = "list" /\ Named(user[c], name[c]) = {}
    /\ Leave(c, "list")
    /\ UNCHANGED <<user, title, analyzed, dbVars, fileVars, promised, overlap, exportVars, flows>>

\* Mutated form of DropPlaylist: the rows of its tracks stay.
DropsRowOnly(c) ==
    /\ Leave(c, "drop")
    /\ playlists' = [playlists EXCEPT ![id[c]] = None]
    /\ promised' = {p \in promised : p[1] # user[c] \/ p[2] # name[c]}
    /\ UNCHANGED <<user, title, analyzed, library, members, next, fileVars, overlap, exportVars, flows>>

\* DELETE /playlists/{id}; the rows of its tracks go with it.
DropPlaylist(c) ==
    /\ Leave(c, "drop")
    /\ playlists' = [playlists EXCEPT ![id[c]] = None]
    /\ members' = [members EXCEPT ![id[c]] = {}]
    /\ promised' = {p \in promised : p[1] # user[c] \/ p[2] # name[c]}
    /\ Watched
    /\ UNCHANGED <<user, title, analyzed, library, next, fileVars, overlap, flows>>

\* GET /playlists/{id}/hashes
ReadHashes(c) ==
    /\ Goto(c, "hashes", "tracks")
    /\ seen' = [seen EXCEPT ![c] = members[id[c]]]
    /\ UNCHANGED <<user, title, analyzed, dbVars, flow, name, id, want, fileVars, promised,
                   overlap, exportVars, flows>>
-----------------------------------------------------------------------------
(* playlist remove *)

\* GET /tracks without a limit: only the newest PageLimit tracks can be matched.
ChooseTracks(c) ==
    /\ flow[c] = "remove"
    /\ \E S \in SUBSET (seen[c] \cap Page(user[c])) :
          /\ S # {}
          /\ want' = [want EXCEPT ![c] = S]
    /\ Goto(c, "tracks", "check")
    /\ UNCHANGED <<user, title, analyzed, dbVars, flow, name, id, seen, fileVars, promised,
                   overlap, exportVars, flows>>

NothingToRemove(c) ==
    /\ flow[c] = "remove"
    /\ Leave(c, "tracks")
    /\ UNCHANGED <<user, title, analyzed, dbVars, fileVars, promised, overlap, exportVars, flows>>

\* remove_playlist_tracks: the owner is checked in a statement of its own.
CheckOwner(c) ==
    /\ Goto(c, "check", "rows")
    /\ playlists[id[c]] # None
    /\ UNCHANGED <<user, title, analyzed, dbVars, flow, name, id, seen, want, fileVars, promised,
                   overlap, exportVars, flows>>

NotOwner(c) ==
    /\ step[c] = "check" /\ playlists[id[c]] = None
    /\ Leave(c, "check")
    /\ UNCHANGED <<user, title, analyzed, dbVars, fileVars, promised, overlap, exportVars, flows>>

RemoveRows(c) ==
    /\ Leave(c, "rows")
    /\ members' = [members EXCEPT ![id[c]] = @ \ want[c]]
    /\ promised' = promised \ {<<user[c], name[c], k>> : k \in want[c]}
    /\ Watched
    /\ UNCHANGED <<user, title, analyzed, library, playlists, next, fileVars, overlap, flows>>
-----------------------------------------------------------------------------
(* POST /exports: the catalog's part of create_export. *)

\* resolve_hashes, and the filter by the artifact store.
ResolveHashes(c) ==
    /\ Goto(c, "resolve", "find")
    /\ members[id[c]] \cap analyzed # {}
    /\ seen' = [seen EXCEPT ![c] = members[id[c]] \cap analyzed]
    /\ UNCHANGED <<user, title, analyzed, dbVars, flow, name, id, want, fileVars, promised,
                   overlap, exportVars, flows>>

NothingToExport(c) ==
    /\ step[c] = "resolve" /\ members[id[c]] \cap analyzed = {}
    /\ Leave(c, "resolve")
    /\ UNCHANGED <<user, title, analyzed, dbVars, fileVars, promised, overlap, exportVars, flows>>

\* get_playlist: a list that is gone is left out, its tracks are not.
FindPlaylist(c) ==
    /\ step[c] = "find"
    /\ Goto(c, "find", IF playlists[id[c]] = None THEN "built" ELSE "entries")
    /\ UNCHANGED <<user, title, analyzed, dbVars, flow, name, id, seen, want, fileVars, promised,
                   overlap, exportVars, flows>>

\* Mutated form of PlaylistHashes: joined by name instead of id.
PlaylistHashesByName(c) ==
    /\ Goto(c, "entries", "built")
    /\ want' = [want EXCEPT ![c] = UNION {members[i] : i \in Named(user[c], name[c])}]
    /\ UNCHANGED <<user, title, analyzed, dbVars, flow, name, id, seen, fileVars, promised,
                   overlap, exportVars, flows>>

PlaylistHashes(c) ==
    /\ Goto(c, "entries", "built")
    /\ want' = [want EXCEPT ![c] = members[id[c]]]
    /\ UNCHANGED <<user, title, analyzed, dbVars, flow, name, id, seen, fileVars, promised,
                   overlap, exportVars, flows>>

Exported(c) ==
    /\ Leave(c, "built")
    /\ UNCHANGED <<user, title, analyzed, dbVars, fileVars, promised, overlap, exportVars, flows>>
-----------------------------------------------------------------------------
(* download --playlist *)

\* GET /tracks?limit=100000: members that are in the user's library are wanted.
PlanDownload(c) ==
    /\ flow[c] = "download"
    /\ Goto(c, "tracks", "file")
    /\ seen' = [seen EXCEPT ![c] = @ \cap Library(user[c])]
    /\ want' = [want EXCEPT ![c] = seen[c] \cap Library(user[c])]
    /\ UNCHANGED <<user, title, analyzed, dbVars, flow, name, id, fileVars, promised, overlap,
                   exportVars, flows>>

InOutput(c, k) == files[c][title[k]] # None

\* A file of that title is there; the order of the list is the database's.
SkipFile(c, k) ==
    /\ step[c] = "file" /\ k \in want[c] /\ InOutput(c, k)
    /\ want' = [want EXCEPT ![c] = @ \ {k}]
    /\ UNCHANGED <<user, title, analyzed, dbVars, flow, step, name, id, seen, fileVars, promised,
                   overlap, exportVars, flows>>

\* The gateway does not have the file: it is reported and left out.
RefuseFile(c, k) ==
    /\ step[c] = "file" /\ k \in want[c] /\ ~InOutput(c, k)
    /\ want' = [want EXCEPT ![c] = @ \ {k}]
    /\ cut' = [cut EXCEPT ![c] = @ \cup {title[k]}]
    /\ UNCHANGED <<user, title, analyzed, dbVars, flow, step, name, id, seen, current, files,
                   promised, overlap, exportVars, flows>>

\* The file is created under its final name, then filled.
CreateFile(c, k) ==
    /\ k \in want[c] /\ ~InOutput(c, k)
    /\ Goto(c, "file", "body")
    /\ want' = [want EXCEPT ![c] = @ \ {k}]
    /\ current' = [current EXCEPT ![c] = title[k]]
    /\ files' = [files EXCEPT ![c][title[k]] = [hash |-> k, whole |-> FALSE]]
    /\ UNCHANGED <<user, title, analyzed, dbVars, flow, name, id, seen, cut, promised, overlap,
                   exportVars, flows>>

\* Mutated form of BodyEnds: the next file is begun before this one is flushed.
BodyEndsEarly(c) ==
    /\ Goto(c, "body", "file")
    /\ UNCHANGED <<user, title, analyzed, dbVars, flow, name, id, seen, want, fileVars, promised,
                   overlap, exportVars, flows>>

BodyEnds(c) ==
    /\ Goto(c, "body", "file")
    /\ files' = [files EXCEPT ![c][current[c]].whole = TRUE]
    /\ current' = [current EXCEPT ![c] = None]
    /\ UNCHANGED <<user, title, analyzed, dbVars, flow, name, id, seen, want, cut, promised,
                   overlap, exportVars, flows>>

Downloaded(c) ==
    /\ want[c] = {}
    /\ Goto(c, "file", "finished")
    /\ UNCHANGED <<user, title, analyzed, dbVars, flow, name, id, seen, want, fileVars, promised,
                   overlap, exportVars, flows>>

DownloadEnds(c) ==
    /\ Leave(c, "finished")
    /\ UNCHANGED <<user, title, analyzed, dbVars, fileVars, promised, overlap, exportVars, flows>>
-----------------------------------------------------------------------------
\* A request fails or its answer is lost: the flow ends where it is, and a
\* handler the client has left goes no further.
Breaks(c) ==
    /\ step[c] \notin {"idle", "finished"}
    /\ Leave(c, step[c])
    /\ cut' = [cut EXCEPT ![c] = @ \cup ({current[c]} \ {None})]
    /\ current' = [current EXCEPT ![c] = None]
    /\ UNCHANGED <<user, title, analyzed, dbVars, files, promised, overlap, exportVars, flows>>

Add(c) == SelectPlaylist(c) \/ CommitPlaylist(c) \/ CommitRejected(c)
Find(c) == Pick(c) \/ NotFound(c) \/ ReadHashes(c)
Remove(c) ==
    \/ ChooseTracks(c) \/ NothingToRemove(c)
    \/ CheckOwner(c) \/ NotOwner(c) \/ RemoveRows(c)
Export(c) ==
    \/ ResolveHashes(c) \/ NothingToExport(c)
    \/ FindPlaylist(c) \/ PlaylistHashes(c) \/ Exported(c)
Download(c) ==
    \/ PlanDownload(c)
    \/ \E k \in Hashes : SkipFile(c, k) \/ RefuseFile(c, k) \/ CreateFile(c, k)
    \/ BodyEnds(c) \/ Downloaded(c) \/ DownloadEnds(c)

Next ==
    \/ \E u \in Users, k \in Hashes : UpsertTrack(u, k)
    \/ \E c \in Clients :
          \/ \E n \in Names, S \in SUBSET Hashes : StartAdd(c, n, S)
          \/ \E n \in Names, f \in Commands : StartNamed(c, f, n)
          \/ Add(c) \/ Find(c) \/ DropPlaylist(c)
          \/ Remove(c) \/ Export(c) \/ Download(c)
          \/ Breaks(c)

Spec == Init /\ [][Next]_vars
-----------------------------------------------------------------------------
(* Properties *)

TypeOK ==
    /\ user \in [Clients -> Users]
    /\ title \in [Hashes -> Titles]
    /\ analyzed \subseteq Hashes
    /\ library \in [Users -> Seq(Hashes)]
    /\ playlists \in [Ids -> Lists \cup {None}]
    /\ members \in [Ids -> SUBSET Hashes]
    /\ \A i \in Ids : playlists[i] = None => members[i] = {}
    /\ next \in 1..(MaxPlaylists + 1)
    /\ flow \in [Clients -> Commands \cup {"none"}]
    /\ step \in [Clients -> Steps]
    /\ name \in [Clients -> Names \cup {None}]
    /\ id \in [Clients -> 0..MaxPlaylists]
    /\ seen \in [Clients -> SUBSET Hashes]
    /\ want \in [Clients -> SUBSET Hashes]
    /\ files \in [Clients -> [Titles -> Files \cup {None}]]
    /\ cut \in [Clients -> SUBSET Titles]
    /\ current \in [Clients -> Titles \cup {None}]
    /\ promised \subseteq Users \X Names \X Hashes
    /\ overlap \subseteq Users \X Names
    /\ sometime \in [Clients -> SUBSET Hashes]
    /\ throughout \in [Clients -> SUBSET Hashes]
    /\ flows \in 0..MaxFlows

\* A track that create_playlist has added under a name stays in a list of that
\* name until a remove or a delete of that name, whatever other clients do to
\* the list between its select and its commit.
AddsSurvive ==
    \A p \in promised : \E i \in Named(p[1], p[2]) : p[3] \in members[i]

\* Two lists of one user have one name only if two create requests for it were
\* inside their transactions together (create_playlist has no unique index).
DuplicatesOverlap ==
    \A i, j \in Ids :
        i # j /\ playlists[i] = playlists[j] /\ playlists[i] # None =>
            <<playlists[i].owner, playlists[i].name>> \in overlap

\* What create_export reads in three statements is a list that existed: an
\* analyzed track that was a member throughout is exported and in the list,
\* and nothing else is that was never a member meanwhile.
ExportShowsMembers ==
    \A c \in Clients :
        step[c] = "built" =>
            /\ throughout[c] \cap analyzed \subseteq seen[c] \cap want[c]
            /\ seen[c] \cup want[c] \subseteq sometime[c]

\* A download that says it is complete has every track of the list, whole and
\* under its title, unless a download of that title broke off or was refused or the
\* title belongs to two tracks (run_download_flow skips what is there).
DownloadIsWhole ==
    \A c \in Clients :
        step[c] = "finished" =>
            \A k \in seen[c] :
                \/ files[c][title[k]] = [hash |-> k, whole |-> TRUE]
                \/ title[k] \in cut[c]
                \/ \E h \in Hashes \ {k} : title[h] = title[k]
=============================================================================
