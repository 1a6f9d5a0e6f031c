--------------------------- MODULE CatalogProofs ---------------------------
(***************************************************************************)
(* Theorems about Catalog.  The invariants of the playlists are not        *)
(* inductive: whether a commit keeps them depends on what its select saw   *)
(* statements ago, so CInv also says what every client knows about the     *)
(* list it found (FlowOK) and about the creators beside it (OverlapSeen).  *)
(* XInv adds what an export has read of its list and a download has        *)
(* written of its own (ReadOK, OutputOK); it is inductive given CInv.      *)
(***************************************************************************)
EXTENDS Catalog, TLAPS

\* Steps at which a flow has not looked for its list yet, or has found it.
Unbound == {"idle", "select", "list"}
Bound == Steps \ (Unbound \cup {"commit"})

Key(c) == [owner |-> user[c], name |-> name[c]]

\* A client that works on a list knows its name and owner.
ClientOK(c) ==
    /\ step[c] # "idle" => name[c] \in Names
    /\ step[c] \in Unbound => id[c] = 0
    /\ step[c] \in Bound => id[c] # 0
    /\ id[c] # 0 => id[c] < next /\ playlists[id[c]] \in {None, Key(c)}
    /\ step[c] = "list" => flow[c] \in Commands \ {"add"}
    /\ step[c] = "body" => current[c] # None /\ files[c][current[c]] # None

FlowOK == \A c \in Clients : ClientOK(c)

FreshIds == \A i \in Ids : i >= next => playlists[i] = None

\* Two clients inside create_playlist for one name are known to overlap, and
\* so is one that found no list although there is one now.
OverlapSeen ==
    \A c \in Clients :
        step[c] = "commit" =>
            /\ \A d \in Clients \ {c} :
                  step[d] = "commit" /\ user[d] = user[c] /\ name[d] = name[c] =>
                      <<user[c], name[c]>> \in overlap
            /\ id[c] = 0 /\ Named(user[c], name[c]) # {} =>
                  <<user[c], name[c]>> \in overlap

CInv ==
    /\ TypeOK
    /\ FlowOK
    /\ FreshIds
    /\ OverlapSeen
    /\ AddsSurvive
    /\ DuplicatesOverlap
-----------------------------------------------------------------------------
USE DEF Ids, Commands, Steps, Unbound, Bound, Lists, Files

LEMMA InitCInv == Init => CInv
  <1> SUFFICES ASSUME Init PROVE CInv
    OBVIOUS
  <1>1. TypeOK
    BY MaxPlaylistsAssumption, MaxFlowsAssumption DEF Init, TypeOK
  <1>2. FlowOK /\ FreshIds /\ OverlapSeen
    BY DEF Init, FlowOK, ClientOK, FreshIds, OverlapSeen
  <1>3. AddsSurvive /\ DuplicatesOverlap
    BY DEF Init, AddsSurvive, DuplicatesOverlap
  <1> QED
    BY <1>1, <1>2, <1>3 DEF CInv
-----------------------------------------------------------------------------
(* Types. *)

LEMMA LeaveTypes ==
  ASSUME TypeOK, NEW c \in Clients, NEW from, Leave(c, from)
  PROVE  /\ flow' \in [Clients -> Commands \cup {"none"}]
         /\ step' \in [Clients -> Steps]
         /\ name' \in [Clients -> Names \cup {None}]
         /\ id' \in [Clients -> 0..MaxPlaylists]
         /\ seen' \in [Clients -> SUBSET Hashes]
         /\ want' \in [Clients -> SUBSET Hashes]
  BY MaxPlaylistsAssumption DEF TypeOK, Leave

LEMMA BoundId ==
  ASSUME TypeOK, FlowOK, NEW c \in Clients, step[c] \in Bound
  PROVE  id[c] \in Ids
  <1>1. id[c] \in 0..MaxPlaylists /\ id[c] # 0
    BY DEF TypeOK, FlowOK, ClientOK
  <1> QED
    BY <1>1, MaxPlaylistsAssumption

LEMMA WatchedTypes ==
  ASSUME TypeOK, members' \in [Ids -> SUBSET Hashes], Watched,
         \A c \in Clients : step[c] \in Exporting => id[c] # 0
  PROVE  /\ sometime' \in [Clients -> SUBSET Hashes]
         /\ throughout' \in [Clients -> SUBSET Hashes]
  BY DEF TypeOK, Watched

LEMMA AddTypes ==
  ASSUME TypeOK, FlowOK, NEW c \in Clients,
         (\E n \in Names, S \in SUBSET Hashes : StartAdd(c, n, S)) \/ Add(c)
  PROVE  TypeOK'
  <1>1. ASSUME NEW n \in Names, NEW S \in SUBSET Hashes, StartAdd(c, n, S)
        PROVE  TypeOK'
    BY <1>1, MaxFlowsAssumption DEF StartAdd, Goto, TypeOK, dbVars, fileVars, exportVars
  <1>2. CASE SelectPlaylist(c)
    <2>1. id' \in [Clients -> 0..MaxPlaylists]
      BY <1>2, MaxPlaylistsAssumption DEF SelectPlaylist, TypeOK, Named
    <2>2. overlap' \subseteq Users \X Names
      BY <1>2 DEF SelectPlaylist, Goto, TypeOK, FlowOK, ClientOK
    <2>3. step' \in [Clients -> Steps]
      BY <1>2 DEF SelectPlaylist, Goto, TypeOK
    <2> QED
      BY <1>2, <2>1, <2>2, <2>3 DEF SelectPlaylist, TypeOK, dbVars, fileVars, exportVars
  <1>3. CASE CommitPlaylist(c)
    <2>1. name[c] \in Names /\ user[c] \in Users /\ want[c] \in SUBSET Hashes
      BY <1>3 DEF CommitPlaylist, Leave, TypeOK, FlowOK, ClientOK
    <2>2. promised' \subseteq Users \X Names \X Hashes
      BY <1>3, <2>1 DEF CommitPlaylist, TypeOK
    <2>3. /\ playlists' \in [Ids -> Lists \cup {None}]
          /\ members' \in [Ids -> SUBSET Hashes]
          /\ \A i \in Ids : playlists'[i] = None => members'[i] = {}
          /\ next' \in 1..(MaxPlaylists + 1)
      <3>1. CASE Created(c)
        <4>1. Key(c) \in Lists /\ Key(c) # None /\ next \in Ids
          BY <2>1, <3>1, NoneAssumption DEF Key, Created, TypeOK
        <4>2. playlists' = [playlists EXCEPT ![next] = Key(c)]
          BY <3>1 DEF Created, Key
        <4> QED
          BY <2>1, <3>1, <4>1, <4>2, MaxPlaylistsAssumption DEF Created, TypeOK
      <3>2. CASE Merged(c)
        BY <2>1, <3>2 DEF Merged, TypeOK
      <3> QED
        BY <1>3, <3>1, <3>2 DEF CommitPlaylist
    <2>4. /\ sometime' \in [Clients -> SUBSET Hashes]
          /\ throughout' \in [Clients -> SUBSET Hashes]
      BY <1>3, <2>3, WatchedTypes DEF CommitPlaylist, FlowOK, ClientOK, Exporting
    <2> QED
      BY <1>3, <2>2, <2>3, <2>4, LeaveTypes DEF CommitPlaylist, TypeOK, fileVars
  <1>4. CASE CommitRejected(c)
    BY <1>4, LeaveTypes DEF CommitRejected, TypeOK, dbVars, fileVars, exportVars
  <1> QED
    BY <1>1, <1>2, <1>3, <1>4 DEF Add

LEMMA ListTypes ==
  ASSUME TypeOK, FlowOK, NEW c \in Clients,
         \/ \E n \in Names, f \in Commands : StartNamed(c, f, n)
         \/ Find(c)
         \/ DropPlaylist(c)
  PROVE  TypeOK'
  <1>1. ASSUME NEW n \in Names, NEW f \in Commands, StartNamed(c, f, n)
        PROVE  TypeOK'
    BY <1>1, MaxFlowsAssumption DEF StartNamed, Goto, TypeOK, dbVars, fileVars, exportVars
  <1>2. CASE Pick(c)
    <2> PICK i \in Named(user[c], name[c]) :
                /\ id' = [id EXCEPT ![c] = i]
                /\ Goto(c, "list", AfterList(flow[c]))
                /\ sometime' = [sometime EXCEPT ![c] = members[i]]
                /\ throughout' = [throughout EXCEPT ![c] = members[i]]
      BY <1>2 DEF Pick
    <2>1. i \in Ids
      BY DEF Named
    <2>2. step' \in [Clients -> Steps]
      <3>1. AfterList(flow[c]) \in Steps
        BY <1>2 DEF AfterList, FlowOK, ClientOK, Pick, Goto
      <3> QED
        BY <3>1 DEF Goto, TypeOK
    <2>3. /\ id' \in [Clients -> 0..MaxPlaylists]
          /\ sometime' \in [Clients -> SUBSET Hashes]
          /\ throughout' \in [Clients -> SUBSET Hashes]
      BY <2>1, MaxPlaylistsAssumption DEF TypeOK
    <2> QED
      BY <1>2, <2>2, <2>3 DEF Pick, TypeOK, dbVars, fileVars
  <1>3. CASE NotFound(c)
    BY <1>3, LeaveTypes DEF NotFound, TypeOK, dbVars, fileVars, exportVars
  <1>4. CASE ReadHashes(c)
    <2>1. id[c] \in Ids
      BY <1>4, BoundId DEF ReadHashes, Goto
    <2>2. seen' \in [Clients -> SUBSET Hashes]
      BY <1>4, <2>1 DEF ReadHashes, TypeOK
    <2>3. step' \in [Clients -> Steps]
      BY <1>4 DEF ReadHashes, Goto, TypeOK
    <2> QED
      BY <1>4, <2>2, <2>3 DEF ReadHashes, TypeOK, dbVars, fileVars, exportVars
  <1>5. CASE DropPlaylist(c)
    <2>1. /\ playlists' \in [Ids -> Lists \cup {None}]
          /\ members' \in [Ids -> SUBSET Hashes]
          /\ \A i \in Ids : playlists'[i] = None => members'[i] = {}
          /\ promised' \subseteq Users \X Names \X Hashes
      BY <1>5 DEF DropPlaylist, TypeOK
    <2>2. /\ sometime' \in [Clients -> SUBSET Hashes]
          /\ throughout' \in [Clients -> SUBSET Hashes]
      BY <1>5, <2>1, WatchedTypes DEF DropPlaylist, FlowOK, ClientOK, Exporting
    <2> QED
      BY <1>5, <2>1, <2>2, LeaveTypes DEF DropPlaylist, TypeOK, fileVars
  <1> QED
    BY <1>1, <1>2, <1>3, <1>4, <1>5 DEF Find

LEMMA RemoveTypes ==
  ASSUME TypeOK, FlowOK, NEW c \in Clients, Remove(c)
  PROVE  TypeOK'
  <1>1. CASE ChooseTracks(c)
    <2>1. want' \in [Clients -> SUBSET Hashes]
      BY <1>1 DEF ChooseTracks, TypeOK
    <2>2. step' \in [Clients -> Steps]
      BY <1>1 DEF ChooseTracks, Goto, TypeOK
    <2> QED
      BY <1>1, <2>1, <2>2 DEF ChooseTracks, TypeOK, dbVars, fileVars, exportVars
  <1>2. CASE NothingToRemove(c)
    BY <1>2, LeaveTypes DEF NothingToRemove, TypeOK, dbVars, fileVars, exportVars
  <1>3. CASE CheckOwner(c)
    BY <1>3 DEF CheckOwner, Goto, TypeOK, dbVars, fileVars, exportVars
  <1>4. CASE NotOwner(c)
    BY <1>4, LeaveTypes DEF NotOwner, TypeOK, dbVars, fileVars, exportVars
  <1>5. CASE RemoveRows(c)
    <2>1. /\ members' \in [Ids -> SUBSET Hashes]
          /\ \A i \in Ids : playlists[i] = None => members'[i] = {}
          /\ promised' \subseteq Users \X Names \X Hashes
      BY <1>5 DEF RemoveRows, TypeOK
    <2>2. /\ sometime' \in [Clients -> SUBSET Hashes]
          /\ throughout' \in [Clients -> SUBSET Hashes]
      BY <1>5, <2>1, WatchedTypes DEF RemoveRows, FlowOK, ClientOK, Exporting
    <2> QED
      BY <1>5, <2>1, <2>2, LeaveTypes DEF RemoveRows, TypeOK, fileVars
  <1> QED
    BY <1>1, <1>2, <1>3, <1>4, <1>5 DEF Remove

LEMMA ExportTypes ==
  ASSUME TypeOK, FlowOK, NEW c \in Clients, Export(c)
  PROVE  TypeOK'
  <1>1. CASE ResolveHashes(c)
    <2>1. id[c] \in Ids
      BY <1>1, BoundId DEF ResolveHashes, Goto
    <2>2. seen' \in [Clients -> SUBSET Hashes]
      BY <1>1, <2>1 DEF ResolveHashes, TypeOK
    <2>3. step' \in [Clients -> Steps]
      BY <1>1 DEF ResolveHashes, Goto, TypeOK
    <2> QED
      BY <1>1, <2>2, <2>3 DEF ResolveHashes, TypeOK, dbVars, fileVars, exportVars
  <1>2. CASE NothingToExport(c)
    BY <1>2, LeaveTypes DEF NothingToExport, TypeOK, dbVars, fileVars, exportVars
  <1>3. CASE FindPlaylist(c)
    BY <1>3 DEF FindPlaylist, Goto, TypeOK, dbVars, fileVars, exportVars
  <1>4. CASE PlaylistHashes(c)
    <2>1. id[c] \in Ids
      BY <1>4, BoundId DEF PlaylistHashes, Goto
    <2>2. want' \in [Clients -> SUBSET Hashes]
      BY <1>4, <2>1 DEF PlaylistHashes, TypeOK
    <2>3. step' \in [Clients -> Steps]
      BY <1>4 DEF PlaylistHashes, Goto, TypeOK
    <2> QED
      BY <1>4, <2>2, <2>3 DEF PlaylistHashes, TypeOK, dbVars, fileVars, exportVars
  <1>5. CASE Exported(c)
    BY <1>5, LeaveTypes DEF Exported, TypeOK, dbVars, fileVars, exportVars
  <1> QED
    BY <1>1, <1>2, <1>3, <1>4, <1>5 DEF Export

LEMMA DownloadTypes ==
  ASSUME TypeOK, FlowOK, NEW c \in Clients, Download(c)
  PROVE  TypeOK'
  <1>1. CASE PlanDownload(c)
    <2>1. /\ seen' \in [Clients -> SUBSET Hashes]
          /\ want' \in [Clients -> SUBSET Hashes]
      BY <1>1 DEF PlanDownload, TypeOK
    <2>2. step' \in [Clients -> Steps]
      BY <1>1 DEF PlanDownload, Goto, TypeOK
    <2> QED
      BY <1>1, <2>1, <2>2 DEF PlanDownload, TypeOK, dbVars, fileVars, exportVars
  <1>2. ASSUME NEW k \in Hashes, SkipFile(c, k) PROVE TypeOK'
    BY <1>2 DEF SkipFile, TypeOK, dbVars, fileVars, exportVars
  <1>3. ASSUME NEW k \in Hashes, RefuseFile(c, k) PROVE TypeOK'
    BY <1>3 DEF RefuseFile, TypeOK, dbVars, exportVars
  <1>4. ASSUME NEW k \in Hashes, CreateFile(c, k) PROVE TypeOK'
    <2>1. files' \in [Clients -> [Titles -> Files \cup {None}]]
      BY <1>4 DEF CreateFile, TypeOK
    <2>2. /\ current' \in [Clients -> Titles \cup {None}]
          /\ want' \in [Clients -> SUBSET Hashes]
          /\ step' \in [Clients -> Steps]
      BY <1>4 DEF CreateFile, Goto, TypeOK
    <2> QED
      BY <1>4, <2>1, <2>2 DEF CreateFile, TypeOK, dbVars, exportVars
  <1>5. CASE BodyEnds(c)
    <2>1. current[c] \in Titles /\ files[c][current[c]] \in Files
      BY <1>5 DEF BodyEnds, Goto, FlowOK, ClientOK, TypeOK
    <2>2. [files[c][current[c]] EXCEPT !.whole = TRUE] \in Files
      BY <2>1
    <2>3. files' \in [Clients -> [Titles -> Files \cup {None}]]
      BY <1>5, <2>1, <2>2 DEF BodyEnds, TypeOK
    <2>4. /\ current' \in [Clients -> Titles \cup {None}]
          /\ step' \in [Clients -> Steps]
      BY <1>5 DEF BodyEnds, Goto, TypeOK
    <2> QED
      BY <1>5, <2>3, <2>4 DEF BodyEnds, TypeOK, dbVars, exportVars
  <1>6. CASE Downloaded(c)
    BY <1>6 DEF Downloaded, Goto, TypeOK, dbVars, fileVars, exportVars
  <1>7. CASE DownloadEnds(c)
    BY <1>7, LeaveTypes DEF DownloadEnds, TypeOK, dbVars, fileVars, exportVars
  <1> QED
    BY <1>1, <1>2, <1>3, <1>4, <1>5, <1>6, <1>7 DEF Download

LEMMA NextTypes ==
  ASSUME TypeOK, FlowOK, [Next]_vars
  PROVE  TypeOK'
  <1>1. CASE UNCHANGED vars
    BY <1>1 DEF vars, TypeOK, dbVars, localVars, fileVars, exportVars
  <1>2. ASSUME NEW u \in Users, NEW k \in Hashes, UpsertTrack(u, k)
        PROVE  TypeOK'
    <2>1. library' \in [Users -> Seq(Hashes)]
      BY <1>2 DEF UpsertTrack, TypeOK
    <2> QED
      BY <1>2, <2>1 DEF UpsertTrack, TypeOK, localVars, fileVars, exportVars
  <1>3. ASSUME NEW c \in Clients, Breaks(c)
        PROVE  TypeOK'
    <2>1. /\ cut' \in [Clients -> SUBSET Titles]
          /\ current' \in [Clients -> Titles \cup {None}]
      BY <1>3 DEF Breaks, TypeOK
    <2> QED
      BY <1>3, <2>1, LeaveTypes DEF Breaks, TypeOK, dbVars, exportVars
  <1> QED
    BY <1>1, <1>2, <1>3, AddTypes, ListTypes, RemoveTypes, ExportTypes, DownloadTypes
    DEF Next
-----------------------------------------------------------------------------
(* Steps that leave the playlists alone. *)

OthersUnchanged(c) ==
    /\ user' = user
    /\ \A d \in Clients \ {c} :
          /\ step'[d] = step[d]
          /\ flow'[d] = flow[d]
          /\ name'[d] = name[d]
          /\ id'[d] = id[d]
          /\ current'[d] = current[d]
          /\ files'[d] = files[d]

ListsUnchanged == UNCHANGED <<playlists, members, next, promised, overlap>>

ListsOK ==
    /\ FlowOK
    /\ FreshIds
    /\ OverlapSeen
    /\ AddsSurvive
    /\ DuplicatesOverlap

LEMMA QuietStep ==
  ASSUME CInv, NEW c \in Clients, OthersUnchanged(c), ListsUnchanged,
         step'[c] # "commit", ClientOK(c)'
  PROVE  ListsOK'
  <1>1. FlowOK'
    BY DEF CInv, FlowOK, ClientOK, Key, OthersUnchanged, ListsUnchanged
  <1>2. FreshIds' /\ AddsSurvive' /\ DuplicatesOverlap'
    BY DEF CInv, FreshIds, AddsSurvive, DuplicatesOverlap, Named, ListsUnchanged
  <1>3. OverlapSeen'
    BY DEF CInv, OverlapSeen, Named, OthersUnchanged, ListsUnchanged
  <1> QED
    BY <1>1, <1>2, <1>3 DEF ListsOK

LEMMA LeaveOK ==
  ASSUME TypeOK, NEW c \in Clients, NEW from, Leave(c, from)
  PROVE  /\ ClientOK(c)'
         /\ step'[c] = "idle"
         /\ \A d \in Clients \ {c} :
               step'[d] = step[d] /\ flow'[d] = flow[d] /\ name'[d] = name[d] /\ id'[d] = id[d]
  BY DEF TypeOK, Leave, ClientOK

\* The end of a flow that has not written to the database.
LEMMA QuietLeave ==
  ASSUME CInv, NEW c \in Clients, NEW from, Leave(c, from), ListsUnchanged, user' = user,
         files' = files, \A d \in Clients \ {c} : current'[d] = current[d]
  PROVE  ListsOK'
  <1>1. OthersUnchanged(c)
    BY LeaveOK DEF CInv, OthersUnchanged
  <1> QED
    BY <1>1, LeaveOK, QuietStep DEF CInv

\* A step on the way of a flow that has found its list, or has looked for none.
LEMMA QuietGoto ==
  ASSUME CInv, NEW c \in Clients, NEW from, NEW to, Goto(c, from, to), ListsUnchanged,
         UNCHANGED <<user, name, id, flow>>,
         \/ from \in Bound /\ to \in Bound
         \/ from = to /\ from # "commit",
         to # "body", UNCHANGED <<current, files>>
  PROVE  ListsOK'
  <1>1. OthersUnchanged(c)
    BY DEF OthersUnchanged, CInv, TypeOK, Goto
  <1>2. ClientOK(c)' /\ step'[c] # "commit"
    BY DEF CInv, TypeOK, FlowOK, ClientOK, Key, Goto, ListsUnchanged
  <1> QED
    BY <1>1, <1>2, QuietStep
-----------------------------------------------------------------------------
(* The steps that write to the database, and the select before them. *)

LEMMA KeyIsNotNone ==
  ASSUME TypeOK, FlowOK, NEW c \in Clients, step[c] # "idle"
  PROVE  user[c] \in Users /\ name[c] \in Names /\ Key(c) # None
  BY NoneAssumption DEF TypeOK, FlowOK, ClientOK, Key

LEMMA SelectOK ==
  ASSUME CInv, NEW c \in Clients, SelectPlaylist(c)
  PROVE  ListsOK'
  <1> USE DEF CInv
  <1>1. /\ step[c] = "select"
        /\ step' = [step EXCEPT ![c] = "commit"]
        /\ UNCHANGED <<user, playlists, members, next, flow, name, current, files, promised>>
    BY DEF SelectPlaylist, Goto, dbVars, fileVars
  <1>2. PICK i \in (IF Named(user[c], name[c]) = {} THEN {0} ELSE Named(user[c], name[c])) :
               id' = [id EXCEPT ![c] = i]
    BY DEF SelectPlaylist
  <1>3. Key(c) # None
    BY <1>1, KeyIsNotNone
  <1>4. i # 0 => i \in Ids /\ i < next /\ playlists[i] = Key(c)
    <2> SUFFICES ASSUME i # 0 PROVE i \in Ids /\ i < next /\ playlists[i] = Key(c)
      OBVIOUS
    <2>1. i \in Ids /\ playlists[i] = Key(c)
      BY <1>2 DEF Named, Key
    <2> QED
      BY <2>1, <1>3, MaxPlaylistsAssumption DEF FreshIds, TypeOK
  <1>5. FlowOK'
    <2>1. ClientOK(c)'
      BY <1>1, <1>2, <1>4 DEF TypeOK, FlowOK, ClientOK, Key
    <2>2. \A d \in Clients \ {c} : ClientOK(d)'
      BY <1>1, <1>2 DEF TypeOK, FlowOK, ClientOK, Key
    <2> QED
      BY <2>1, <2>2 DEF FlowOK
  <1>6. FreshIds' /\ AddsSurvive'
    BY <1>1 DEF FreshIds, AddsSurvive, Named
  <1>7. overlap \subseteq overlap' /\ (Overlapping(c) => <<user[c], name[c]>> \in overlap')
    BY DEF SelectPlaylist
  <1>8. DuplicatesOverlap'
    BY <1>1, <1>7 DEF DuplicatesOverlap
  <1>9. OverlapSeen'
    <2> SUFFICES ASSUME NEW a \in Clients, step'[a] = "commit"
                 PROVE  /\ \A b \in Clients \ {a} :
                              step'[b] = "commit" /\ user[b] = user[a] /\ name[b] = name[a] =>
                                  <<user[a], name[a]>> \in overlap'
                        /\ id'[a] = 0 /\ Named(user[a], name[a]) # {} =>
                              <<user[a], name[a]>> \in overlap'
      BY <1>1 DEF OverlapSeen, Named
    <2>1. ASSUME NEW b \in Clients \ {a}, step'[b] = "commit", user[b] = user[a], name[b] = name[a]
          PROVE  <<user[a], name[a]>> \in overlap'
      <3>1. ASSUME NEW d \in Clients \ {c}, {a, b} = {c, d}
            PROVE  <<user[a], name[a]>> \in overlap'
        <4>1. step[d] = "commit" /\ user[d] = user[c] /\ name[d] = name[c]
          BY <2>1, <3>1, <1>1 DEF TypeOK
        <4> QED
          BY <2>1, <3>1, <4>1, <1>7 DEF Overlapping
      <3>2. CASE a # c /\ b # c
        BY <2>1, <3>2, <1>1, <1>7 DEF OverlapSeen, TypeOK
      <3> QED
        BY <2>1, <3>1, <3>2
    <2>2. ASSUME id'[a] = 0, Named(user[a], name[a]) # {}
          PROVE  <<user[a], name[a]>> \in overlap'
      <3>1. a # c
        <4>1. Named(user[c], name[c]) # {} => i # 0
          BY <1>2, MaxPlaylistsAssumption DEF Named
        <4> QED
          BY <2>2, <1>2, <4>1 DEF TypeOK
      <3> QED
        BY <2>2, <3>1, <1>1, <1>2, <1>7 DEF OverlapSeen, TypeOK
    <2> QED
      BY <2>1, <2>2
  <1> QED
    BY <1>5, <1>6, <1>8, <1>9 DEF ListsOK

\* What the writing steps have in common: they end the flow.
Writes(c) ==
    /\ step[c] \notin {"idle", "select", "list"}
    /\ step'[c] = "idle"
    /\ ClientOK(c)'
    /\ UNCHANGED <<user, overlap, current, files>>
    /\ \A d \in Clients \ {c} :
          step'[d] = step[d] /\ flow'[d] = flow[d] /\ name'[d] = name[d] /\ id'[d] = id[d]

\* A write that creates no list: it keeps what is known about the lists.
LEMMA NoNewList ==
  ASSUME CInv, NEW c \in Clients, Writes(c), next' = next,
         \A i \in Ids : playlists'[i] \in {None, playlists[i]}
  PROVE  FlowOK' /\ FreshIds' /\ OverlapSeen' /\ DuplicatesOverlap'
  <1> USE DEF CInv
  <1>1. FlowOK'
    <2>1. \A d \in Clients \ {c} : ClientOK(d)'
      <3> SUFFICES ASSUME NEW d \in Clients \ {c} PROVE ClientOK(d)'
        OBVIOUS
      <3>1. ClientOK(d) /\ id[d] \in 0..MaxPlaylists
        BY DEF FlowOK, TypeOK
      <3>2. id[d] # 0 => playlists'[id[d]] \in {None, Key(d)}
        BY <3>1, MaxPlaylistsAssumption DEF ClientOK
      <3> QED
        BY <3>1, <3>2 DEF Writes, ClientOK, Key
    <2> QED
      BY <2>1 DEF Writes, FlowOK
  <1>2. FreshIds'
    BY DEF FreshIds
  <1>3. OverlapSeen'
    <2>1. \A u \in Users, n \in Names : Named(u, n)' \subseteq Named(u, n)
      BY NoneAssumption DEF Named
    <2>2. \A d \in Clients \ {c} : step[d] = "commit" => user[d] \in Users /\ name[d] \in Names
      BY KeyIsNotNone
    <2> QED
      BY <2>1, <2>2 DEF OverlapSeen, Writes, Named
  <1>4. DuplicatesOverlap'
    BY DEF DuplicatesOverlap, Writes
  <1> QED
    BY <1>1, <1>2, <1>3, <1>4

\* The lists of a name after a step.
NamedAfter(u, n) == {i \in Ids : playlists'[i] = [owner |-> u, name |-> n]}

LEMMA CommitOK ==
  ASSUME CInv, NEW c \in Clients, CommitPlaylist(c)
  PROVE  ListsOK'
  <1> USE DEF CInv
  <1>1. step[c] = "commit" /\ Writes(c)
    BY LeaveOK DEF CommitPlaylist, Writes, fileVars, Leave
  <1>2. user[c] \in Users /\ name[c] \in Names /\ Key(c) # None
    BY <1>1, KeyIsNotNone
  <1>3. promised' = promised \cup {<<user[c], name[c], k>> : k \in want[c]}
    BY DEF CommitPlaylist
  <1>4. CASE Created(c)
    <2>1. /\ id[c] = 0
          /\ next \in Ids
          /\ playlists' = [playlists EXCEPT ![next] = Key(c)]
          /\ members' = [members EXCEPT ![next] = want[c]]
          /\ next' = next + 1
      BY <1>4 DEF Created, TypeOK, Key
    <2>2. playlists[next] = None
      BY <2>1 DEF FreshIds
    <2>3. FlowOK'
      <3>1. \A d \in Clients \ {c} : ClientOK(d)'
        <4> SUFFICES ASSUME NEW d \in Clients \ {c} PROVE ClientOK(d)'
          OBVIOUS
        <4>1. ClientOK(d) /\ id[d] \in 0..MaxPlaylists
          BY DEF FlowOK, TypeOK
        <4>2. id[d] # 0 => id[d] < next' /\ playlists'[id[d]] \in {None, Key(d)}
          BY <2>1, <4>1, MaxPlaylistsAssumption DEF ClientOK, TypeOK
        <4> QED
          BY <1>1, <4>1, <4>2 DEF Writes, ClientOK, Key
      <3> QED
        BY <1>1, <3>1 DEF Writes, FlowOK
    <2>4. FreshIds'
      BY <2>1, MaxPlaylistsAssumption DEF FreshIds, TypeOK
    <2>5. \A u \in Users, n \in Names :
             /\ Named(u, n) \subseteq NamedAfter(u, n)
             /\ u # user[c] \/ n # name[c] => NamedAfter(u, n) = Named(u, n)
      BY <1>2, <2>1, <2>2, NoneAssumption DEF Named, NamedAfter, TypeOK, Key
    <2>6. OverlapSeen'
      <3> SUFFICES ASSUME NEW a \in Clients \ {c}, step[a] = "commit"
                   PROVE  /\ \A b \in Clients \ {a} :
                                step'[b] = "commit" /\ user[b] = user[a] /\ name'[b] = name[a] =>
                                    <<user[a], name[a]>> \in overlap
                          /\ id[a] = 0 /\ NamedAfter(user[a], name[a]) # {} =>
                                <<user[a], name[a]>> \in overlap
        BY <1>1 DEF OverlapSeen, Writes, Named, NamedAfter
      <3>1. user[a] \in Users /\ name[a] \in Names
        BY KeyIsNotNone
      <3>2. ASSUME NEW b \in Clients \ {a}, step'[b] = "commit", user[b] = user[a],
                   name'[b] = name[a]
            PROVE  <<user[a], name[a]>> \in overlap
        BY <1>1, <3>2 DEF OverlapSeen, Writes
      <3>3. ASSUME id[a] = 0, NamedAfter(user[a], name[a]) # {}
            PROVE  <<user[a], name[a]>> \in overlap
        <4>1. CASE user[a] = user[c] /\ name[a] = name[c]
          BY <4>1, <1>1 DEF OverlapSeen
        <4>2. CASE ~(user[a] = user[c] /\ name[a] = name[c])
          <5>1. Named(user[a], name[a]) # {}
            BY <2>5, <3>1, <3>3, <4>2
          <5> QED
            BY <3>3, <5>1 DEF OverlapSeen
        <4> QED
          BY <4>1, <4>2
      <3> QED
        BY <3>2, <3>3
    <2>7. AddsSurvive'
      <3> SUFFICES ASSUME NEW p \in promised'
                   PROVE  \E i \in NamedAfter(p[1], p[2]) : p[3] \in members'[i]
        BY DEF AddsSurvive, Named, NamedAfter
      <3>1. CASE p \in promised
        <4>1. PICK i \in Named(p[1], p[2]) : p[3] \in members[i]
          BY <3>1 DEF AddsSurvive
        <4>2. p[1] \in Users /\ p[2] \in Names
          BY <3>1 DEF TypeOK
        <4>3. i \in Ids /\ i # next /\ i \in NamedAfter(p[1], p[2])
          BY <4>1, <4>2, <2>2, <2>5, NoneAssumption DEF Named
        <4>4. members'[i] = members[i]
          BY <4>3, <2>1 DEF TypeOK
        <4> QED
          BY <4>1, <4>3, <4>4
      <3>2. CASE p \notin promised
        <4>1. PICK k \in want[c] : p = <<user[c], name[c], k>>
          BY <3>2, <1>3
        <4>2. next \in NamedAfter(user[c], name[c])
          BY <2>1 DEF NamedAfter, Key, TypeOK
        <4>3. members'[next] = want[c]
          BY <2>1 DEF TypeOK
        <4> QED
          BY <4>1, <4>2, <4>3
      <3> QED
        BY <3>1, <3>2
    <2>8. DuplicatesOverlap'
      <3> SUFFICES ASSUME NEW i \in Ids, NEW j \in Ids, i # j, playlists'[i] = playlists'[j],
                          playlists'[i] # None
                   PROVE  <<playlists'[i].owner, playlists'[i].name>> \in overlap
        BY <1>1 DEF DuplicatesOverlap, Writes
      <3>1. CASE i # next /\ j # next
        BY <3>1, <2>1 DEF DuplicatesOverlap, TypeOK
      <3>2. CASE i = next \/ j = next
        <4>1. playlists'[i] = Key(c)
          BY <3>2, <2>1 DEF TypeOK
        <4>2. Named(user[c], name[c]) # {}
          <5>1. PICK m \in {i, j} : m # next
            BY <3>2
          <5>2. playlists[m] = Key(c)
            BY <4>1, <5>1, <2>1 DEF TypeOK
          <5> QED
            BY <5>1, <5>2 DEF Named, Key
        <4>3. <<user[c], name[c]>> \in overlap
          BY <4>2, <1>1, <2>1 DEF OverlapSeen
        <4> QED
          BY <4>1, <4>3 DEF Key
      <3> QED
        BY <3>1, <3>2
    <2> QED
      BY <2>3, <2>4, <2>6, <2>7, <2>8 DEF ListsOK
  <1>5. CASE Merged(c)
    <2>1. FlowOK' /\ FreshIds' /\ OverlapSeen' /\ DuplicatesOverlap'
      BY <1>1, <1>5, NoNewList DEF Merged
    <2>2. id[c] \in Ids /\ (want[c] # {} => playlists[id[c]] = Key(c))
      BY <1>5, MaxPlaylistsAssumption DEF Merged, TypeOK, FlowOK, ClientOK
    <2>3. AddsSurvive'
      <3> SUFFICES ASSUME NEW p \in promised'
                   PROVE  \E i \in NamedAfter(p[1], p[2]) : p[3] \in members'[i]
        BY DEF AddsSurvive, Named, NamedAfter
      <3>0. \A u, n : NamedAfter(u, n) = Named(u, n)
        BY <1>5 DEF Merged, Named, NamedAfter
      <3>1. CASE p \in promised
        <4>1. PICK i \in Named(p[1], p[2]) : p[3] \in members[i]
          BY <3>1 DEF AddsSurvive
        <4>2. members[i] \subseteq members'[i]
          BY <4>1, <1>5 DEF Merged, TypeOK, Named
        <4> QED
          BY <4>1, <4>2, <3>0
      <3>2. CASE p \notin promised
        <4>1. PICK k \in want[c] : p = <<user[c], name[c], k>>
          BY <3>2, <1>3
        <4>2. id[c] \in Named(user[c], name[c])
          BY <2>2 DEF Named, Key
        <4>3. want[c] \subseteq members'[id[c]]
          BY <2>2, <1>5 DEF Merged, TypeOK
        <4> QED
          BY <4>1, <4>2, <4>3, <3>0
      <3> QED
        BY <3>1, <3>2
    <2> QED
      BY <2>1, <2>3 DEF ListsOK
  <1> QED
    BY <1>4, <1>5 DEF CommitPlaylist

LEMMA DropOK ==
  ASSUME CInv, NEW c \in Clients, DropPlaylist(c)
  PROVE  ListsOK'
  <1> USE DEF CInv
  <1>1. step[c] = "drop" /\ Writes(c)
    BY LeaveOK DEF DropPlaylist, Writes, fileVars, Leave
  <1>2. id[c] \in Ids /\ playlists[id[c]] \in {None, Key(c)}
    BY <1>1, BoundId DEF FlowOK, ClientOK
  <1>3. /\ playlists' = [playlists EXCEPT ![id[c]] = None]
        /\ members' = [members EXCEPT ![id[c]] = {}]
        /\ promised' = {p \in promised : p[1] # user[c] \/ p[2] # name[c]}
        /\ next' = next
    BY DEF DropPlaylist
  <1>4. FlowOK' /\ FreshIds' /\ OverlapSeen' /\ DuplicatesOverlap'
    <2>1. \A i \in Ids : playlists'[i] \in {None, playlists[i]}
      BY <1>2, <1>3 DEF TypeOK
    <2> QED
      BY <1>1, <1>3, <2>1, NoNewList
  <1>5. AddsSurvive'
    <2> SUFFICES ASSUME NEW p \in promised, p[1] # user[c] \/ p[2] # name[c]
                 PROVE  \E i \in NamedAfter(p[1], p[2]) : p[3] \in members'[i]
      BY <1>3 DEF AddsSurvive, Named, NamedAfter
    <2>1. PICK i \in Named(p[1], p[2]) : p[3] \in members[i]
      BY DEF AddsSurvive
    <2>2. playlists[i] # None /\ playlists[i] # Key(c)
      BY <2>1, NoneAssumption DEF Named, Key, TypeOK
    <2>3. i \in Ids /\ i # id[c]
      BY <2>1, <2>2, <1>2 DEF Named
    <2> QED
      BY <2>1, <2>3, <1>3 DEF Named, NamedAfter, TypeOK
  <1> QED
    BY <1>4, <1>5 DEF ListsOK

LEMMA RemoveRowsOK ==
  ASSUME CInv, NEW c \in Clients, RemoveRows(c)
  PROVE  ListsOK'
  <1> USE DEF CInv
  <1>1. step[c] = "rows" /\ Writes(c)
    BY LeaveOK DEF RemoveRows, Writes, fileVars, Leave
  <1>2. id[c] \in Ids /\ playlists[id[c]] \in {None, Key(c)}
    BY <1>1, BoundId DEF FlowOK, ClientOK
  <1>3. /\ members' = [members EXCEPT ![id[c]] = @ \ want[c]]
        /\ promised' = promised \ {<<user[c], name[c], k>> : k \in want[c]}
        /\ playlists' = playlists
        /\ next' = next
    BY DEF RemoveRows
  <1>4. FlowOK' /\ FreshIds' /\ OverlapSeen' /\ DuplicatesOverlap'
    BY <1>1, <1>3, NoNewList
  <1>5. AddsSurvive'
    <2> SUFFICES ASSUME NEW p \in promised, p \notin {<<user[c], name[c], k>> : k \in want[c]}
                 PROVE  \E i \in Named(p[1], p[2]) : p[3] \in members'[i]
      BY <1>3 DEF AddsSurvive, Named
    <2>1. PICK i \in Named(p[1], p[2]) : p[3] \in members[i]
      BY DEF AddsSurvive
    <2>2. i \in Ids /\ playlists[i] = [owner |-> p[1], name |-> p[2]] /\ playlists[i] # None
      BY <2>1, NoneAssumption DEF Named, TypeOK
    <2>3. p[3] \in members'[i]
      <3>1. CASE i # id[c]
        BY <3>1, <2>1, <2>2, <1>3 DEF TypeOK
      <3>2. CASE i = id[c]
        <4>1. p[1] = user[c] /\ p[2] = name[c]
          BY <3>2, <2>2, <1>2 DEF Key
        <4>2. p = <<user[c], name[c], p[3]>>
          BY <4>1 DEF TypeOK
        <4>3. p[3] \notin want[c]
          BY <4>2
        <4> QED
          BY <3>2, <2>1, <2>2, <4>3, <1>3 DEF TypeOK
      <3> QED
        BY <3>1, <3>2
    <2> QED
      BY <2>1, <2>3
  <1> QED
    BY <1>4, <1>5 DEF ListsOK
-----------------------------------------------------------------------------
(* The other steps. *)

LEMMA AddOK ==
  ASSUME CInv, NEW c \in Clients,
         (\E n \in Names, S \in SUBSET Hashes : StartAdd(c, n, S)) \/ Add(c)
  PROVE  ListsOK'
  <1>1. ASSUME NEW n \in Names, NEW S \in SUBSET Hashes, StartAdd(c, n, S)
        PROVE  ListsOK'
    <2>1. OthersUnchanged(c) /\ ListsUnchanged
      BY <1>1 DEF StartAdd, Goto, OthersUnchanged, ListsUnchanged, CInv, TypeOK, dbVars, fileVars
    <2>2. ClientOK(c)' /\ step'[c] # "commit"
      BY <1>1 DEF StartAdd, Goto, ClientOK, CInv, TypeOK, FlowOK
    <2> QED
      BY <2>1, <2>2, QuietStep
  <1>2. CASE CommitRejected(c)
    BY <1>2, QuietLeave DEF CommitRejected, ListsUnchanged, dbVars, fileVars
  <1> QED
    BY <1>1, <1>2, SelectOK, CommitOK DEF Add

LEMMA FindOK ==
  ASSUME CInv, NEW c \in Clients,
         (\E n \in Names, f \in Commands : StartNamed(c, f, n)) \/ Find(c)
  PROVE  ListsOK'
  <1>1. ASSUME NEW n \in Names, NEW f \in Commands, StartNamed(c, f, n)
        PROVE  ListsOK'
    <2>1. OthersUnchanged(c) /\ ListsUnchanged
      BY <1>1 DEF StartNamed, Goto, OthersUnchanged, ListsUnchanged, CInv, TypeOK, dbVars, fileVars
    <2>2. ClientOK(c)' /\ step'[c] # "commit"
      BY <1>1 DEF StartNamed, Goto, ClientOK, CInv, TypeOK, FlowOK
    <2> QED
      BY <2>1, <2>2, QuietStep
  <1>2. CASE Pick(c)
    <2> PICK i \in Named(user[c], name[c]) :
                /\ id' = [id EXCEPT ![c] = i]
                /\ Goto(c, "list", AfterList(flow[c]))
      BY <1>2 DEF Pick
    <2>1. i \in Ids /\ playlists[i] = Key(c)
      BY DEF Named, Key
    <2>2. Key(c) # None
      BY KeyIsNotNone DEF CInv, Goto
    <2>3. i # 0 /\ i < next
      BY <2>1, <2>2, MaxPlaylistsAssumption DEF CInv, FreshIds, TypeOK
    <2>4. AfterList(flow[c]) \in Bound \ {"body"}
      BY DEF AfterList, CInv, FlowOK, ClientOK, Goto
    <2>5. OthersUnchanged(c) /\ ListsUnchanged
      BY <1>2 DEF Pick, Goto, OthersUnchanged, ListsUnchanged, CInv, TypeOK, dbVars, fileVars
    <2>6. ClientOK(c)' /\ step'[c] # "commit"
      <3>1. step'[c] = AfterList(flow[c]) /\ id'[c] = i
        BY DEF Goto, CInv, TypeOK
      <3>2. name' = name /\ user' = user /\ playlists' = playlists /\ next' = next
        BY <1>2 DEF Pick, dbVars
      <3>3. name[c] \in Names
        BY DEF CInv, FlowOK, ClientOK, Goto
      <3> QED
        BY <2>1, <2>3, <2>4, <3>1, <3>2, <3>3 DEF ClientOK, Key
    <2> QED
      BY <2>5, <2>6, QuietStep
  <1>3. CASE NotFound(c)
    BY <1>3, QuietLeave DEF NotFound, ListsUnchanged, dbVars, fileVars
  <1>4. CASE ReadHashes(c)
    BY <1>4, QuietGoto DEF ReadHashes, ListsUnchanged, dbVars, fileVars
  <1> QED
    BY <1>1, <1>2, <1>3, <1>4 DEF Find

LEMMA RemoveOK ==
  ASSUME CInv, NEW c \in Clients, Remove(c)
  PROVE  ListsOK'
  <1>1. CASE ChooseTracks(c)
    BY <1>1, QuietGoto DEF ChooseTracks, ListsUnchanged, dbVars, fileVars
  <1>2. CASE NothingToRemove(c)
    BY <1>2, QuietLeave DEF NothingToRemove, ListsUnchanged, dbVars, fileVars
  <1>3. CASE CheckOwner(c)
    BY <1>3, QuietGoto DEF CheckOwner, ListsUnchanged, dbVars, fileVars
  <1>4. CASE NotOwner(c)
    BY <1>4, QuietLeave DEF NotOwner, ListsUnchanged, dbVars, fileVars
  <1> QED
    BY <1>1, <1>2, <1>3, <1>4, RemoveRowsOK DEF Remove

LEMMA ExportOK ==
  ASSUME CInv, NEW c \in Clients, Export(c)
  PROVE  ListsOK'
  <1>1. CASE ResolveHashes(c)
    BY <1>1, QuietGoto DEF ResolveHashes, ListsUnchanged, dbVars, fileVars
  <1>2. CASE NothingToExport(c)
    BY <1>2, QuietLeave DEF NothingToExport, ListsUnchanged, dbVars, fileVars
  <1>3. CASE FindPlaylist(c)
    <2>1. PICK to \in {"built", "entries"} : Goto(c, "find", to)
      BY <1>3 DEF FindPlaylist
    <2> QED
      BY <1>3, <2>1, QuietGoto DEF FindPlaylist, ListsUnchanged, dbVars, fileVars
  <1>4. CASE PlaylistHashes(c)
    BY <1>4, QuietGoto DEF PlaylistHashes, ListsUnchanged, dbVars, fileVars
  <1>5. CASE Exported(c)
    BY <1>5, QuietLeave DEF Exported, ListsUnchanged, dbVars, fileVars
  <1> QED
    BY <1>1, <1>2, <1>3, <1>4, <1>5 DEF Export

LEMMA DownloadOK ==
  ASSUME CInv, NEW c \in Clients, Download(c)
  PROVE  ListsOK'
  <1>1. CASE PlanDownload(c)
    BY <1>1, QuietGoto DEF PlanDownload, ListsUnchanged, dbVars, fileVars
  <1>2. ASSUME NEW k \in Hashes, SkipFile(c, k) \/ RefuseFile(c, k)
        PROVE  ListsOK'
    <2>1. Goto(c, "file", "file")
      BY <1>2 DEF SkipFile, RefuseFile, Goto, CInv, TypeOK
    <2> QED
      BY <1>2, <2>1, QuietGoto DEF SkipFile, RefuseFile, ListsUnchanged, dbVars, fileVars
  <1>3. ASSUME NEW k \in Hashes, CreateFile(c, k)
        PROVE  ListsOK'
    <2>1. OthersUnchanged(c) /\ ListsUnchanged
      BY <1>3 DEF CreateFile, Goto, OthersUnchanged, ListsUnchanged, CInv, TypeOK, dbVars
    <2>2. title[k] \in Titles /\ title[k] # None /\ [hash |-> k, whole |-> FALSE] # None
      <3>1. title[k] \in Titles
        BY DEF CInv, TypeOK
      <3>2. title[k] # None
        BY <3>1, NoneAssumption
      <3>3. [hash |-> k, whole |-> FALSE] # None
        BY NoneAssumption, ZenonT(30)
      <3> QED
        BY <3>1, <3>2, <3>3
    <2>3. step'[c] = "body" /\ current'[c] = title[k] /\ files'[c][title[k]] # None
      BY <1>3, <2>2 DEF CreateFile, Goto, CInv, TypeOK
    <2>4. ClientOK(c)'
      BY <1>3, <2>2, <2>3 DEF CreateFile, Goto, ClientOK, Key, CInv, FlowOK, dbVars
    <2> QED
      BY <2>1, <2>3, <2>4, QuietStep
  <1>4. CASE BodyEnds(c)
    <2>1. OthersUnchanged(c) /\ ListsUnchanged
      BY <1>4 DEF BodyEnds, Goto, OthersUnchanged, ListsUnchanged, CInv, TypeOK, dbVars
    <2>2. step'[c] = "file"
      BY <1>4 DEF BodyEnds, Goto, CInv, TypeOK
    <2>3. ClientOK(c)'
      BY <1>4, <2>2 DEF BodyEnds, Goto, ClientOK, Key, CInv, FlowOK, dbVars
    <2> QED
      BY <2>1, <2>2, <2>3, QuietStep
  <1>5. CASE Downloaded(c)
    BY <1>5, QuietGoto DEF Downloaded, ListsUnchanged, dbVars, fileVars
  <1>6. CASE DownloadEnds(c)
    BY <1>6, QuietLeave DEF DownloadEnds, ListsUnchanged, dbVars, fileVars
  <1> QED
    BY <1>1, <1>2, <1>3, <1>4, <1>5, <1>6 DEF Download

LEMMA NextCInv == CInv /\ [Next]_vars => CInv'
  <1> SUFFICES ASSUME CInv, [Next]_vars PROVE CInv'
    OBVIOUS
  <1>1. TypeOK'
    BY NextTypes DEF CInv
  <1>2. ListsOK'
    <2>1. CASE UNCHANGED vars
      BY <2>1 DEF vars, dbVars, localVars, fileVars, CInv, ListsOK, FlowOK, ClientOK, Key,
                  FreshIds, OverlapSeen, AddsSurvive, DuplicatesOverlap, Named
    <2>2. ASSUME NEW u \in Users, NEW k \in Hashes, UpsertTrack(u, k)
          PROVE  ListsOK'
      BY <2>2 DEF UpsertTrack, localVars, fileVars, CInv, ListsOK, FlowOK, ClientOK, Key,
                  FreshIds, OverlapSeen, AddsSurvive, DuplicatesOverlap, Named
    <2>3. ASSUME NEW c \in Clients, Breaks(c)
          PROVE  ListsOK'
      <3>1. \A d \in Clients \ {c} : current'[d] = current[d]
        BY <2>3 DEF Breaks, CInv, TypeOK
      <3> QED
        BY <2>3, <3>1, QuietLeave DEF Breaks, ListsUnchanged, dbVars
    <2> QED
      BY <2>1, <2>2, <2>3, AddOK, FindOK, DropOK, RemoveOK, ExportOK, DownloadOK DEF Next
  <1> QED
    BY <1>1, <1>2 DEF CInv, ListsOK

LEMMA SpecCInv == Spec => []CInv
  BY InitCInv, NextCInv, PTL DEF Spec
-----------------------------------------------------------------------------
\* Every statement of the catalog and every step of a flow keeps the types.
THEOREM CatalogTypeCorrect == Spec => []TypeOK
  <1>1. CInv => TypeOK
    BY DEF CInv
  <1> QED
    BY <1>1, SpecCInv, PTL

\* An acknowledged add stays in a list of its name until that name is removed
\* from or deleted, for any number of clients inside create_playlist at once.
THEOREM AcknowledgedAddsSurvive == Spec => []AddsSurvive
  <1>1. CInv => AddsSurvive
    BY DEF CInv
  <1> QED
    BY <1>1, SpecCInv, PTL

\* Without a unique index, two lists of one name still need two requests that
\* were inside create_playlist's transaction together.
THEOREM DuplicatesNeedOverlap == Spec => []DuplicatesOverlap
  <1>1. CInv => DuplicatesOverlap
    BY DEF CInv
  <1> QED
    BY <1>1, SpecCInv, PTL
-----------------------------------------------------------------------------
(* What is read in several statements or written file by file.  With CInv   *)
(* at hand, XInv is inductive.                                              *)

\* What an export has read so far against what the list has been meanwhile.
ReadOK(c) ==
    /\ step[c] \in Exporting =>
          members[id[c]] \subseteq sometime[c] /\ throughout[c] \subseteq members[id[c]]
    /\ step[c] \in {"idle", "list"} \cup Exporting => want[c] = {}
    /\ step[c] \in {"find", "entries", "built"} =>
          seen[c] \subseteq sometime[c] /\ throughout[c] \cap analyzed \subseteq seen[c]
    /\ step[c] = "built" =>
          want[c] \subseteq sometime[c] /\ throughout[c] \cap analyzed \subseteq want[c]

\* What lies in the output directory: a file under its title, whole unless it is the
\* current one or broke off; of the tracks a download is done with, a file or a failure.
OutputOK(c) ==
    /\ step[c] # "body" => current[c] = None
    /\ \A t \in Titles :
          files[c][t] # None =>
              /\ title[files[c][t].hash] = t
              /\ files[c][t].whole \/ t \in cut[c] \/ t = current[c]
    /\ step[c] \in {"file", "body", "finished"} =>
          \A k \in seen[c] \ want[c] : files[c][title[k]] # None \/ title[k] \in cut[c]
    /\ step[c] = "finished" => want[c] = {}

XInv == \A c \in Clients : ReadOK(c) /\ OutputOK(c)

\* A step of c's flow as another client sees it: its own flow is where it was, and
\* the members stay or it watches them change.
Elsewhere(c) ==
    /\ UNCHANGED <<title, analyzed>>
    /\ \A d \in Clients \ {c} :
          /\ step'[d] = step[d] /\ id'[d] = id[d]
          /\ seen'[d] = seen[d] /\ want'[d] = want[d]
          /\ current'[d] = current[d] /\ files'[d] = files[d] /\ cut'[d] = cut[d]
    /\ \/ Watched
       \/ /\ members' = members
          /\ \A d \in Clients \ {c} :
                sometime'[d] = sometime[d] /\ throughout'[d] = throughout[d]

LEMMA InitXInv == Init => XInv
  <1> SUFFICES ASSUME Init, NEW c \in Clients PROVE ReadOK(c) /\ OutputOK(c)
    BY DEF XInv
  <1> QED
    BY DEF Init, ReadOK, OutputOK, Exporting

LEMMA ReadStays ==
  ASSUME CInv, NEW d \in Clients, ReadOK(d), analyzed' = analyzed,
         step'[d] = step[d], id'[d] = id[d], seen'[d] = seen[d], want'[d] = want[d],
         \/ Watched
         \/ members' = members /\ sometime'[d] = sometime[d] /\ throughout'[d] = throughout[d]
  PROVE  ReadOK(d)'
  <1>1. CASE members' = members /\ sometime'[d] = sometime[d] /\ throughout'[d] = throughout[d]
    BY <1>1 DEF ReadOK, Exporting
  <1>2. CASE Watched
    <2>1. CASE step[d] \in Exporting
      <3>1. /\ sometime'[d] = sometime[d] \cup members'[id[d]]
            /\ throughout'[d] = throughout[d] \cap members'[id[d]]
        BY <1>2, <2>1 DEF Watched
      <3> QED
        BY <2>1, <3>1 DEF ReadOK, Exporting
    <2>2. CASE step[d] \notin Exporting
      <3>1. sometime'[d] = sometime[d] /\ throughout'[d] = throughout[d]
        BY <1>2, <2>2 DEF Watched
      <3> QED
        BY <2>2, <3>1 DEF ReadOK
    <2> QED
      BY <2>1, <2>2
  <1> QED
    BY <1>1, <1>2

LEMMA ElsewhereStays ==
  ASSUME CInv, XInv, NEW c \in Clients, Elsewhere(c), ReadOK(c)', OutputOK(c)'
  PROVE  XInv'
  <1>1. ASSUME NEW d \in Clients \ {c} PROVE ReadOK(d)' /\ OutputOK(d)'
    <2>1. ReadOK(d)'
      BY ReadStays DEF XInv, Elsewhere
    <2>2. OutputOK(d)'
      BY DEF XInv, Elsewhere, OutputOK
    <2> QED
      BY <2>1, <2>2
  <1> QED
    BY <1>1 DEF XInv

\* A step that reads and writes nothing of what ReadOK and OutputOK are about.
LEMMA QuietFlow ==
  ASSUME CInv, XInv, NEW c \in Clients, Elsewhere(c),
         step[c] # "body",
         step'[c] \in {"select", "commit", "drop", "hashes", "tracks", "check", "rows"},
         current'[c] = current[c], files'[c] = files[c], cut'[c] = cut[c]
  PROVE  XInv'
  <1>1. ReadOK(c)'
    BY DEF ReadOK, Exporting
  <1>2. OutputOK(c)'
    BY DEF XInv, OutputOK, Elsewhere
  <1> QED
    BY <1>1, <1>2, ElsewhereStays

\* The end of a flow.
LEMMA LeaveFlow ==
  ASSUME CInv, XInv, NEW c \in Clients, NEW from, Leave(c, from), Elsewhere(c),
         files' = files, current'[c] = None,
         cut[c] \subseteq cut'[c], current[c] = None \/ current[c] \in cut'[c]
  PROVE  XInv'
  <1>1. step'[c] = "idle" /\ want'[c] = {} /\ seen'[c] = {}
    BY DEF Leave, CInv, TypeOK
  <1>2. ReadOK(c)'
    BY <1>1 DEF ReadOK, Exporting
  <1>3. OutputOK(c)'
    BY <1>1, NoneAssumption DEF XInv, OutputOK, Elsewhere
  <1> QED
    BY <1>2, <1>3, ElsewhereStays

\* ... that was not writing a file.
LEMMA LeaveQuietly ==
  ASSUME CInv, XInv, NEW c \in Clients, NEW from, Leave(c, from), from # "body",
         UNCHANGED <<title, analyzed, fileVars>>,
         Watched \/ UNCHANGED <<members, exportVars>>
  PROVE  XInv'
  <1>1. Elsewhere(c)
    BY DEF Leave, Elsewhere, CInv, TypeOK, fileVars, exportVars
  <1>2. current[c] = None
    BY DEF Leave, XInv, OutputOK
  <1> QED
    BY <1>1, <1>2, LeaveFlow DEF fileVars

LEMMA AddFlow ==
  ASSUME CInv, XInv, NEW c \in Clients,
         \/ \E n \in Names, S \in SUBSET Hashes : StartAdd(c, n, S)
         \/ Add(c)
  PROVE  XInv'
  <1>1. ASSUME NEW n \in Names, NEW S \in SUBSET Hashes, StartAdd(c, n, S)
        PROVE  XInv'
    <2>1. Elsewhere(c) /\ step[c] # "body" /\ step'[c] = "select"
      BY <1>1 DEF StartAdd, Goto, Elsewhere, CInv, TypeOK, dbVars, fileVars, exportVars
    <2> QED
      BY <1>1, <2>1, QuietFlow DEF StartAdd, fileVars
  <1>2. CASE SelectPlaylist(c)
    <2>1. PICK i : id' = [id EXCEPT ![c] = i]
      BY <1>2 DEF SelectPlaylist
    <2>2. Elsewhere(c) /\ step[c] # "body" /\ step'[c] = "commit"
      BY <1>2, <2>1 DEF SelectPlaylist, Goto, Elsewhere, CInv, TypeOK, dbVars, fileVars, exportVars
    <2> QED
      BY <1>2, <2>2, QuietFlow DEF SelectPlaylist, fileVars
  <1>3. CASE CommitPlaylist(c)
    BY <1>3, LeaveQuietly DEF CommitPlaylist
  <1>4. CASE CommitRejected(c)
    BY <1>4, LeaveQuietly DEF CommitRejected, dbVars
  <1> QED
    BY <1>1, <1>2, <1>3, <1>4 DEF Add

LEMMA FindFlow ==
  ASSUME CInv, XInv, NEW c \in Clients,
         \/ \E n \in Names, f \in Commands : StartNamed(c, f, n)
         \/ Find(c)
         \/ DropPlaylist(c)
  PROVE  XInv'
  <1>1. ASSUME NEW n \in Names, NEW f \in Commands, StartNamed(c, f, n)
        PROVE  XInv'
    <2>1. Elsewhere(c) /\ step[c] = "idle" /\ step'[c] = "list"
      BY <1>1 DEF StartNamed, Goto, Elsewhere, CInv, TypeOK, dbVars, fileVars, exportVars
    <2>2. ReadOK(c)'
      BY <1>1, <2>1 DEF StartNamed, XInv, ReadOK, Exporting
    <2>3. OutputOK(c)'
      BY <1>1, <2>1 DEF StartNamed, XInv, OutputOK, fileVars
    <2> QED
      BY <2>1, <2>2, <2>3, ElsewhereStays
  <1>2. CASE Pick(c)
    <2> PICK i \in Named(user[c], name[c]) :
                /\ id' = [id EXCEPT ![c] = i]
                /\ Goto(c, "list", AfterList(flow[c]))
                /\ sometime' = [sometime EXCEPT ![c] = members[i]]
                /\ throughout' = [throughout EXCEPT ![c] = members[i]]
      BY <1>2 DEF Pick
    <2>1. /\ Elsewhere(c) /\ step[c] = "list"
          /\ step'[c] \in {"drop", "hashes", "resolve"}
          /\ id'[c] = i /\ sometime'[c] = members[i] /\ throughout'[c] = members[i]
      <3>1. AfterList(flow[c]) \in {"drop", "hashes", "resolve"}
        BY DEF AfterList, CInv, FlowOK, ClientOK, Goto
      <3>2. Elsewhere(c) /\ step[c] = "list"
        BY <1>2 DEF Pick, Goto, Elsewhere, CInv, TypeOK, dbVars, fileVars
      <3> QED
        BY <3>1, <3>2 DEF Goto, CInv, TypeOK
    <2>2. want'[c] = {} /\ UNCHANGED <<members, title, fileVars>>
      BY <1>2, <2>1 DEF Pick, XInv, ReadOK, dbVars
    <2>3. ReadOK(c)'
      BY <2>1, <2>2 DEF ReadOK, Exporting
    <2>4. OutputOK(c)'
      BY <2>1, <2>2 DEF XInv, OutputOK, fileVars
    <2> QED
      BY <2>1, <2>3, <2>4, ElsewhereStays
  <1>3. CASE NotFound(c)
    BY <1>3, LeaveQuietly DEF NotFound, dbVars
  <1>4. CASE ReadHashes(c)
    <2>1. Elsewhere(c) /\ step[c] # "body" /\ step'[c] = "tracks"
      BY <1>4 DEF ReadHashes, Goto, Elsewhere, CInv, TypeOK, dbVars, fileVars, exportVars
    <2> QED
      BY <1>4, <2>1, QuietFlow DEF ReadHashes, fileVars
  <1>5. CASE DropPlaylist(c)
    BY <1>5, LeaveQuietly DEF DropPlaylist
  <1> QED
    BY <1>1, <1>2, <1>3, <1>4, <1>5 DEF Find

LEMMA RemoveFlow ==
  ASSUME CInv, XInv, NEW c \in Clients, Remove(c)
  PROVE  XInv'
  <1>1. CASE ChooseTracks(c)
    <2>1. PICK S : want' = [want EXCEPT ![c] = S]
      BY <1>1 DEF ChooseTracks
    <2>2. Elsewhere(c) /\ step[c] # "body" /\ step'[c] = "check"
      BY <1>1, <2>1 DEF ChooseTracks, Goto, Elsewhere, CInv, TypeOK, dbVars, fileVars, exportVars
    <2> QED
      BY <1>1, <2>2, QuietFlow DEF ChooseTracks, fileVars
  <1>2. CASE NothingToRemove(c)
    BY <1>2, LeaveQuietly DEF NothingToRemove, dbVars
  <1>3. CASE CheckOwner(c)
    <2>1. Elsewhere(c) /\ step[c] # "body" /\ step'[c] = "rows"
      BY <1>3 DEF CheckOwner, Goto, Elsewhere, CInv, TypeOK, dbVars, fileVars, exportVars
    <2> QED
      BY <1>3, <2>1, QuietFlow DEF CheckOwner, fileVars
  <1>4. CASE NotOwner(c)
    BY <1>4, LeaveQuietly DEF NotOwner, dbVars
  <1>5. CASE RemoveRows(c)
    BY <1>5, LeaveQuietly DEF RemoveRows
  <1> QED
    BY <1>1, <1>2, <1>3, <1>4, <1>5 DEF Remove

\* Each statement of create_export reads the list as it is then.
LEMMA ExportFlow ==
  ASSUME CInv, XInv, NEW c \in Clients, Export(c)
  PROVE  XInv'
  <1>0. ReadOK(c) /\ OutputOK(c)
    BY DEF XInv
  <1>1. CASE ResolveHashes(c)
    <2>1. Elsewhere(c) /\ step[c] = "resolve" /\ step'[c] = "find"
      BY <1>1 DEF ResolveHashes, Goto, Elsewhere, CInv, TypeOK, dbVars, fileVars, exportVars
    <2>2. /\ seen'[c] = members[id[c]] \cap analyzed
          /\ UNCHANGED <<analyzed, members, id, want, exportVars, fileVars, title>>
      BY <1>1 DEF ResolveHashes, CInv, TypeOK, dbVars
    <2>3. ReadOK(c)'
      BY <1>0, <2>1, <2>2 DEF ReadOK, Exporting, exportVars
    <2>4. OutputOK(c)'
      BY <1>0, <2>1, <2>2 DEF OutputOK, fileVars
    <2> QED
      BY <2>1, <2>3, <2>4, ElsewhereStays
  <1>2. CASE NothingToExport(c)
    BY <1>2, LeaveQuietly DEF NothingToExport, dbVars
  <1>3. CASE FindPlaylist(c)
    <2>1. /\ Elsewhere(c) /\ step[c] = "find"
          /\ step'[c] = IF playlists[id[c]] = None THEN "built" ELSE "entries"
      BY <1>3 DEF FindPlaylist, Goto, Elsewhere, CInv, TypeOK, dbVars, fileVars, exportVars
    <2>2. UNCHANGED <<analyzed, members, id, seen, want, exportVars, fileVars, title>>
      BY <1>3 DEF FindPlaylist, dbVars
    <2>3. playlists[id[c]] = None => members[id[c]] = {}
      BY <2>1, BoundId DEF CInv, TypeOK
    <2>4. ReadOK(c)'
      BY <1>0, <2>1, <2>2, <2>3 DEF ReadOK, Exporting, exportVars
    <2>5. OutputOK(c)'
      BY <1>0, <2>1, <2>2 DEF OutputOK, fileVars
    <2> QED
      BY <2>1, <2>4, <2>5, ElsewhereStays
  <1>4. CASE PlaylistHashes(c)
    <2>1. Elsewhere(c) /\ step[c] = "entries" /\ step'[c] = "built"
      BY <1>4 DEF PlaylistHashes, Goto, Elsewhere, CInv, TypeOK, dbVars, fileVars, exportVars
    <2>2. /\ want'[c] = members[id[c]]
          /\ UNCHANGED <<analyzed, members, id, seen, exportVars, fileVars, title>>
      BY <1>4 DEF PlaylistHashes, CInv, TypeOK, dbVars
    <2>3. ReadOK(c)'
      BY <1>0, <2>1, <2>2 DEF ReadOK, Exporting, exportVars
    <2>4. OutputOK(c)'
      BY <1>0, <2>1, <2>2 DEF OutputOK, fileVars
    <2> QED
      BY <2>1, <2>3, <2>4, ElsewhereStays
  <1>5. CASE Exported(c)
    BY <1>5, LeaveQuietly DEF Exported, dbVars
  <1> QED
    BY <1>1, <1>2, <1>3, <1>4, <1>5 DEF Export

LEMMA DownloadFlow ==
  ASSUME CInv, XInv, NEW c \in Clients, Download(c)
  PROVE  XInv'
  <1>0. /\ ReadOK(c) /\ OutputOK(c) /\ seen[c] \subseteq Hashes /\ want[c] \subseteq Hashes
        /\ \A k \in Hashes : title[k] \in Titles /\ title[k] # None
    <2>1. \A k \in Hashes : title[k] \in Titles
      BY DEF CInv, TypeOK
    <2> QED
      BY <2>1, NoneAssumption DEF XInv, CInv, TypeOK
  <1>1. CASE PlanDownload(c)
    <2>1. Elsewhere(c) /\ step[c] = "tracks" /\ step'[c] = "file"
      BY <1>1 DEF PlanDownload, Goto, Elsewhere, CInv, TypeOK, dbVars, fileVars, exportVars
    <2>2. seen'[c] = want'[c] /\ UNCHANGED <<title, fileVars>>
      BY <1>1 DEF PlanDownload, CInv, TypeOK
    <2>3. ReadOK(c)'
      BY <2>1 DEF ReadOK, Exporting
    <2>4. OutputOK(c)'
      BY <1>0, <2>1, <2>2 DEF OutputOK, fileVars
    <2> QED
      BY <2>1, <2>3, <2>4, ElsewhereStays
  <1>2. ASSUME NEW k \in Hashes, SkipFile(c, k) \/ RefuseFile(c, k)
        PROVE  XInv'
    <2>1. /\ Elsewhere(c) /\ step[c] = "file" /\ step'[c] = "file"
          /\ seen' = seen /\ want'[c] = want[c] \ {k}
          /\ UNCHANGED <<title, current, files>>
      BY <1>2 DEF SkipFile, RefuseFile, Elsewhere, CInv, TypeOK, dbVars, fileVars, exportVars
    <2>2. cut[c] \subseteq cut'[c] /\ (files[c][title[k]] # None \/ title[k] \in cut'[c])
      BY <1>2 DEF SkipFile, RefuseFile, InOutput, CInv, TypeOK, fileVars
    <2>3. ReadOK(c)'
      BY <2>1 DEF ReadOK, Exporting
    <2>4. OutputOK(c)'
      BY <1>0, <2>1, <2>2 DEF OutputOK
    <2> QED
      BY <2>1, <2>3, <2>4, ElsewhereStays
  <1>3. ASSUME NEW k \in Hashes, CreateFile(c, k)
        PROVE  XInv'
    <2> DEFINE new == [hash |-> k, whole |-> FALSE]
    <2>1. /\ Elsewhere(c) /\ step[c] = "file" /\ step'[c] = "body"
          /\ seen' = seen /\ want'[c] = want[c] \ {k}
          /\ UNCHANGED <<title, cut>> /\ current'[c] = title[k]
      BY <1>3 DEF CreateFile, Goto, Elsewhere, CInv, TypeOK, dbVars, exportVars
    <2>2. files'[c][title[k]] = new /\ \A t \in Titles \ {title[k]} : files'[c][t] = files[c][t]
      BY <1>0, <1>3 DEF CreateFile, CInv, TypeOK
    <2>3. new.hash = k /\ new # None
      <3>1. [hash |-> k, whole |-> FALSE] # None
        BY NoneAssumption, ZenonT(30)
      <3> QED
        BY <3>1
    <2>4. ReadOK(c)'
      BY <2>1 DEF ReadOK, Exporting
    <2>5. \A t \in Titles :
             files'[c][t] # None =>
                 /\ title[files'[c][t].hash] = t
                 /\ files'[c][t].whole \/ t \in cut[c] \/ t = title[k]
      <3> HIDE DEF new
      <3>1. current[c] = None
        BY <1>0, <2>1 DEF OutputOK
      <3>2. \A t \in Titles : t # None
        BY NoneAssumption
      <3> QED
        BY <1>0, <2>2, <2>3, <3>1, <3>2 DEF OutputOK
    <2>6. \A h \in seen[c] \ want'[c] : files'[c][title[h]] # None \/ title[h] \in cut[c]
      <3> HIDE DEF new
      <3>1. ASSUME NEW h \in seen[c] \ want'[c]
            PROVE  files'[c][title[h]] # None \/ title[h] \in cut[c]
        <4>1. CASE title[h] = title[k]
          BY <2>2, <2>3, <4>1
        <4>2. CASE title[h] # title[k]
          <5>1. h \in seen[c] \ want[c] /\ title[h] \in Titles \ {title[k]}
            BY <1>0, <2>1, <4>2
          <5> QED
            BY <1>0, <2>1, <2>2, <5>1 DEF OutputOK
        <4> QED
          BY <4>1, <4>2
      <3> QED
        BY <3>1
    <2>7. OutputOK(c)'
      BY <2>1, <2>5, <2>6 DEF OutputOK
    <2> QED
      BY <2>1, <2>4, <2>7, ElsewhereStays
  <1>4. CASE BodyEnds(c)
    <2> DEFINE t0 == current[c]
               old == files[c][t0]
               new == [old EXCEPT !.whole = TRUE]
    <2>1. /\ Elsewhere(c) /\ step[c] = "body" /\ step'[c] = "file"
          /\ UNCHANGED <<title, cut, seen, want>> /\ current'[c] = None
      BY <1>4 DEF BodyEnds, Goto, Elsewhere, CInv, TypeOK, dbVars, exportVars
    <2>2. t0 \in Titles /\ old \in Files /\ old # None
      BY <2>1 DEF CInv, FlowOK, ClientOK, TypeOK
    <2>3. files'[c][t0] = new /\ \A t \in Titles \ {t0} : files'[c][t] = files[c][t]
      BY <1>4, <2>2 DEF BodyEnds, CInv, TypeOK
    <2>4. new.hash = old.hash /\ new.whole = TRUE /\ new # None
      <3>1. new \in Files /\ new.hash = old.hash /\ new.whole = TRUE
        BY <2>2
      <3> HIDE DEF new
      <3>2. PICK h \in Hashes, w \in BOOLEAN : new = [hash |-> h, whole |-> w]
        BY <3>1
      <3>3. [hash |-> h, whole |-> w] # None
        BY NoneAssumption, ZenonT(30)
      <3> QED
        BY <3>1, <3>2, <3>3
    <2>5. ReadOK(c)'
      BY <2>1 DEF ReadOK, Exporting
    <2>6. \A t \in Titles :
             files'[c][t] # None =>
                 title[files'[c][t].hash] = t /\ (files'[c][t].whole \/ t \in cut[c])
      <3>1. title[old.hash] = t0
        BY <1>0, <2>2 DEF OutputOK
      <3>2. \A t \in Titles \ {t0} :
               files[c][t] # None =>
                   title[files[c][t].hash] = t /\ (files[c][t].whole \/ t \in cut[c])
        BY <1>0, <2>1 DEF OutputOK
      <3> HIDE DEF new, old, t0
      <3> QED
        BY <2>3, <2>4, <3>1, <3>2
    <2>7. \A h \in seen[c] \ want[c] : files'[c][title[h]] # None \/ title[h] \in cut[c]
      <3>1. ASSUME NEW h \in seen[c] \ want[c]
            PROVE  files'[c][title[h]] # None \/ title[h] \in cut[c]
        <4> HIDE DEF new, old, t0
        <4>1. title[h] \in Titles /\ (files[c][title[h]] # None \/ title[h] \in cut[c])
          BY <1>0, <2>1 DEF OutputOK
        <4>2. CASE title[h] = t0
          BY <2>3, <2>4, <4>2
        <4>3. CASE title[h] # t0
          BY <2>3, <4>1, <4>3
        <4> QED
          BY <4>2, <4>3
      <3> QED
        BY <3>1
    <2>8. OutputOK(c)'
      BY <2>1, <2>6, <2>7 DEF OutputOK
    <2> QED
      BY <2>1, <2>5, <2>8, ElsewhereStays
  <1>5. CASE Downloaded(c)
    <2>1. /\ Elsewhere(c) /\ step[c] = "file" /\ step'[c] = "finished"
          /\ want[c] = {} /\ UNCHANGED <<title, seen, want, fileVars>>
      BY <1>5 DEF Downloaded, Goto, Elsewhere, CInv, TypeOK, dbVars, fileVars, exportVars
    <2>2. ReadOK(c)'
      BY <2>1 DEF ReadOK, Exporting
    <2>3. OutputOK(c)'
      BY <1>0, <2>1 DEF OutputOK, fileVars
    <2> QED
      BY <2>1, <2>2, <2>3, ElsewhereStays
  <1>6. CASE DownloadEnds(c)
    BY <1>6, LeaveQuietly DEF DownloadEnds, dbVars
  <1> QED
    BY <1>1, <1>2, <1>3, <1>4, <1>5, <1>6 DEF Download

LEMMA NextXInv ==
  ASSUME CInv, XInv, [Next]_vars
  PROVE  XInv'
  <1>1. CASE UNCHANGED vars
    BY <1>1 DEF vars, dbVars, localVars, fileVars, exportVars, XInv, ReadOK, OutputOK
  <1>2. ASSUME NEW u \in Users, NEW k \in Hashes, UpsertTrack(u, k)
        PROVE  XInv'
    BY <1>2 DEF UpsertTrack, localVars, fileVars, exportVars, XInv, ReadOK, OutputOK
  <1>3. ASSUME NEW c \in Clients, Breaks(c)
        PROVE  XInv'
    <2>1. /\ Leave(c, step[c]) /\ Elsewhere(c) /\ files' = files /\ current'[c] = None
          /\ cut'[c] = cut[c] \cup ({current[c]} \ {None})
      BY <1>3 DEF Breaks, Leave, Elsewhere, CInv, TypeOK, dbVars, exportVars
    <2> QED
      BY <2>1, LeaveFlow
  <1> QED
    BY <1>1, <1>2, <1>3, AddFlow, FindFlow, RemoveFlow, ExportFlow, DownloadFlow DEF Next

LEMMA SpecXInv == Spec => []XInv
  <1>1. Init => XInv
    BY InitXInv
  <1>2. XInv /\ CInv /\ [Next]_vars => XInv'
    BY NextXInv
  <1> QED
    BY <1>1, <1>2, SpecCInv, PTL DEF Spec

\* However clients add, remove and delete between its three statements, create_export
\* shows a list that existed: an analyzed track that was a member throughout is exported
\* and listed, and nothing is that was never one meanwhile.
THEOREM ExportsShowAList == Spec => []ExportShowsMembers
  <1>1. XInv => ExportShowsMembers
    BY DEF XInv, ReadOK, ExportShowsMembers
  <1> QED
    BY <1>1, SpecXInv, PTL

\* A finished download has every track of the list, whole and under its title, over any
\* number of earlier downloads that broke off into the same directory, but for those that
\* were refused or broke off and for titles two tracks share.
THEOREM DownloadsAreWhole == Spec => []DownloadIsWhole
  <1>1. ASSUME CInv, XInv, NEW c \in Clients, step[c] = "finished", NEW k \in seen[c]
        PROVE  \/ files[c][title[k]] = [hash |-> k, whole |-> TRUE]
               \/ title[k] \in cut[c]
               \/ \E h \in Hashes \ {k} : title[h] = title[k]
    <2> DEFINE t == title[k]
               f == files[c][t]
    <2>1. k \in Hashes /\ t \in Titles /\ t # None /\ f \in Files \cup {None}
      <3>1. k \in Hashes /\ t \in Titles /\ f \in Files \cup {None}
        BY <1>1 DEF CInv, TypeOK
      <3> QED
        BY <3>1, NoneAssumption
    <2>2. (f # None \/ t \in cut[c]) /\ current[c] = None
      BY <1>1 DEF XInv, OutputOK
    <2>3. CASE f # None
      <3>1. title[f.hash] = t /\ (f.whole \/ t \in cut[c])
        BY <1>1, <2>1, <2>2, <2>3 DEF XInv, OutputOK
      <3>2. f \in Files /\ f = [hash |-> f.hash, whole |-> f.whole] /\ f.hash \in Hashes
            /\ f.whole \in BOOLEAN
        BY <2>1, <2>3
      <3> HIDE DEF f, t
      <3>3. CASE f.whole /\ f.hash = k
        <4>1. f.whole = TRUE
          BY <3>2, <3>3
        <4>2. f = [hash |-> k, whole |-> TRUE]
          BY <3>2, <3>3, <4>1
        <4> QED
          BY <4>2 DEF f, t
      <3>4. CASE f.hash # k
        BY <3>1, <3>2, <3>4 DEF t
      <3> QED
        BY <3>1, <3>3, <3>4 DEF t
    <2> QED
      BY <2>2, <2>3
  <1>2. CInv /\ XInv => DownloadIsWhole
    BY <1>1 DEF DownloadIsWhole
  <1> QED
    BY <1>2, SpecCInv, SpecXInv, PTL
=============================================================================
