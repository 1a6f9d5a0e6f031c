---------------------------- MODULE LayoutProofs ----------------------------
(***************************************************************************)
(* Theorems about the files of an export, for any inputs: what is in them  *)
(* agrees although the formats are written one after the other and each    *)
(* numbers and orders things by itself.                                    *)
(*                                                                         *)
(* LInv says how far the export is: what is loaded (LoadedOK), that the    *)
(* builder was fed with it in order (DbFollows), and which files and       *)
(* entries of the manifest there are in each phase (FilesOK).  A finished  *)
(* export is then a function of the input.  Its track rows, artists,       *)
(* playlists and entries are those a player reads out of export.pdb, which *)
(* PdbProofs shows to be what the builder was fed with; the device library *)
(* and the analysis files are computed from the same analyses.             *)
(***************************************************************************)
EXTENDS PdbProofs
-----------------------------------------------------------------------------
(* Analysis files.                                                         *)

\* Sections that are as long as they say.
WellFormed(s) ==
    IsSequence(s) /\ \A i \in 1..Len(s) : s[i].declared = s[i].written /\ s[i].head <= s[i].declared

\* Where sections are as long as they say, stepping by what they say meets every one.
LEMMA SectionsTile ==
  ASSUME NEW path, NEW s, WellFormed(s)
  PROVE  Tiles(File(path, s))
  <1> DEFINE f == File(path, s)
             n == Len(s)
  <1>1. f.sections = s /\ f.first = 28 /\ f.len = 28 + Bytes(s)
    BY DEF File
  <1>2. n \in Nat /\ DOMAIN s = 1..n
    BY SequenceFacts DEF WellFormed
  <1> HIDE DEF f, n
  <1>3. ASSUME NEW k \in 1..n
        PROVE  Reached(f, k) = Actual(f, k) /\ s[k].head <= s[k].declared
    <2> DEFINE sub == SubSeq(s, 1, k - 1)
    <2>1. DOMAIN sub = 1..k - 1 /\ \A i \in 1..k - 1 : sub[i] = s[i]
      <3>1. PICK S : s \in Seq(S)
        BY DEF WellFormed, IsSequence
      <3> QED
        BY <1>2, <3>1 DEF n
    <2> HIDE DEF sub
    <2>2. \A i \in 1..k - 1 : i \in 1..n /\ s[i].declared = s[i].written
      BY <1>2 DEF WellFormed, n
    <2>3. [i \in DOMAIN sub |-> sub[i].written] = [i \in 1..k - 1 |-> s[i].declared]
      BY <2>1, <2>2
    <2>4. Bytes(sub) = Total([i \in 1..k - 1 |-> s[i].declared])
      BY <2>3 DEF Bytes
    <2>5. Actual(f, k) = 28 + Bytes(sub)
      BY <1>1 DEF Actual, sub
    <2>6. Reached(f, k) = 28 + Total([i \in 1..k - 1 |-> s[i].declared])
      BY <1>1 DEF Reached
    <2>7. s[k].head <= s[k].declared
      BY DEF WellFormed, n
    <2> QED
      BY <2>4, <2>5, <2>6, <2>7
  <1>4. Reached(f, n + 1) = f.len
    <2>1. (n + 1) - 1 = n
      BY <1>2
    <2>2. [i \in DOMAIN s |-> s[i].written] = [i \in 1..n |-> s[i].declared]
      BY <1>2 DEF WellFormed, n
    <2>3. Bytes(s) = Total([i \in 1..n |-> s[i].declared])
      BY <2>2 DEF Bytes
    <2>4. Reached(f, n + 1) = 28 + Total([i \in 1..n |-> s[i].declared])
      BY <1>1, <2>1 DEF Reached
    <2> QED
      BY <1>1, <2>3, <2>4
  <1>5. Len(f.sections) = n /\ DOMAIN f.sections = 1..n
    BY <1>1, <1>2 DEF n
  <1> QED
    BY <1>1, <1>3, <1>4, <1>5 DEF Tiles, f

\* Each section is as long as it says, whatever the beats and the waveform are.
LEMMA SectionFacts ==
  /\ \A p : p.len \in Nat =>
        Ppth(p).declared = Ppth(p).written /\ Ppth(p).head <= Ppth(p).declared
  /\ \A n \in Nat :
        /\ Pqtz(n).declared = Pqtz(n).written /\ Pqtz(n).head <= Pqtz(n).declared
        /\ Pwv3(n).declared = Pwv3(n).written /\ Pwv3(n).head <= Pwv3(n).declared
        /\ Pwv5(n).declared = Pwv5(n).written /\ Pwv5(n).head <= Pwv5(n).declared
        /\ Pwv7(n).declared = Pwv7(n).written /\ Pwv7(n).head <= Pwv7(n).declared
  /\ \A s \in {Pvbr, Pwav, Pwv2, Pwv4, Pwv6, Pwvc, PcobEmpty, Pco2Empty} :
        s.declared = s.written /\ s.head <= s.declared
  <1>1. ASSUME NEW p, p.len \in Nat
        PROVE  Ppth(p).declared = Ppth(p).written /\ Ppth(p).head <= Ppth(p).declared
    BY <1>1 DEF Ppth, Section
  <1>2. ASSUME NEW n \in Nat
        PROVE  /\ Pqtz(n).declared = Pqtz(n).written /\ Pqtz(n).head <= Pqtz(n).declared
               /\ Pwv3(n).declared = Pwv3(n).written /\ Pwv3(n).head <= Pwv3(n).declared
               /\ Pwv5(n).declared = Pwv5(n).written /\ Pwv5(n).head <= Pwv5(n).declared
               /\ Pwv7(n).declared = Pwv7(n).written /\ Pwv7(n).head <= Pwv7(n).declared
    BY DEF Pqtz, Pwv3, Pwv5, Pwv7, Section
  <1>3. ASSUME NEW s \in {Pvbr, Pwav, Pwv2, Pwv4, Pwv6, Pwvc, PcobEmpty, Pco2Empty}
        PROVE  s.declared = s.written /\ s.head <= s.declared
    BY DEF Pvbr, Pwav, Pwv2, Pwv4, Pwv6, Pwvc, PcobEmpty, Pco2Empty, Section
  <1> QED
    BY <1>1, <1>2, <1>3

\* The three files of a track.
LEMMA FilesTile ==
  ASSUME NEW t, t.path.len \in Nat, t.beats \in Nat, t.detail \in Nat
  PROVE  Tiles(DatFile(t)) /\ Tiles(ExtFile(t)) /\ Tiles(TwoExFile(t))
  <1> DEFINE good(s) == s.declared = s.written /\ s.head <= s.declared
  <1>0. /\ good(Ppth(t.path)) /\ good(Pvbr) /\ good(Pqtz(t.beats)) /\ good(Pwav) /\ good(Pwv2)
        /\ good(PcobEmpty) /\ good(Pwv3(t.detail)) /\ good(Pco2Empty) /\ good(Pwv5(t.detail))
        /\ good(Pwv4) /\ good(Pwv7(t.detail)) /\ good(Pwv6) /\ good(Pwvc)
    BY SectionFacts
  <1>1. Tiles(DatFile(t))
    <2> DEFINE s == <<Ppth(t.path), Pvbr, Pqtz(t.beats), Pwav, Pwv2, PcobEmpty, PcobEmpty>>
    <2>1. IsSequence(s) /\ Len(s) = 7
      <3>1. s \in Seq({s[i] : i \in 1..7})
        OBVIOUS
      <3> QED
        BY <3>1 DEF IsSequence
    <2>2. \A i \in 1..7 : good(s[i])
      BY <1>0
    <2> HIDE DEF s
    <2>3. WellFormed(s)
      BY <2>1, <2>2 DEF WellFormed
    <2> QED
      BY <2>3, SectionsTile DEF DatFile, s
  <1>2. Tiles(ExtFile(t))
    <2> DEFINE s == <<Ppth(t.path), Pwv3(t.detail), PcobEmpty, PcobEmpty, Pco2Empty, Pco2Empty,
                      Pwv5(t.detail), Pwv4>>
    <2>1. IsSequence(s) /\ Len(s) = 8
      <3>1. s \in Seq({s[i] : i \in 1..8})
        OBVIOUS
      <3> QED
        BY <3>1 DEF IsSequence
    <2>2. \A i \in 1..8 : good(s[i])
      BY <1>0
    <2> HIDE DEF s
    <2>3. WellFormed(s)
      BY <2>1, <2>2 DEF WellFormed
    <2> QED
      BY <2>3, SectionsTile DEF ExtFile, s
  <1>3. Tiles(TwoExFile(t))
    <2> DEFINE s == <<Ppth(t.path), Pwv7(t.detail), Pwv6, Pwvc>>
    <2>1. IsSequence(s) /\ Len(s) = 4
      <3>1. s \in Seq({s[i] : i \in 1..4})
        OBVIOUS
      <3> QED
        BY <3>1 DEF IsSequence
    <2>2. \A i \in 1..4 : good(s[i])
      BY <1>0
    <2> HIDE DEF s
    <2>3. WellFormed(s)
      BY <2>1, <2>2 DEF WellFormed
    <2> QED
      BY <2>3, SectionsTile DEF TwoExFile, s
  <1> QED
    BY <1>1, <1>2, <1>3

\* A file on the stick is one of the three of a track that is exported.
LEMMA AnlzFilesTile ==
  ASSUME \A a \in Range(analyses) : a.path.len \in Nat /\ a.beats \in Nat /\ a.detail \in Nat
  PROVE  \A path \in DOMAIN AnlzFiles : Tiles(AnlzFiles[path])
  <1> DEFINE paths == {AnlzFileOf(a.id, k) : a \in Range(analyses), k \in Range(Kinds)}
             file(i, k) == <<DatFile(analyses[i]), ExtFile(analyses[i]), TwoExFile(analyses[i])>>[k]
             Leads2(ik, p) == AnlzFileOf(analyses[ik[1]].id, Kinds[ik[2]]) = p
             at(p) == CHOOSE ik \in (DOMAIN analyses) \X (DOMAIN Kinds) : Leads2(ik, p)
  <1>1. AnlzFiles = [p \in paths |-> file(at(p)[1], at(p)[2])]
    BY DEF AnlzFiles
  <1>2. ASSUME NEW p \in paths PROVE at(p) \in (DOMAIN analyses) \X (DOMAIN Kinds)
    <2>1. PICK a \in Range(analyses), k \in Range(Kinds) : p = AnlzFileOf(a.id, k)
      OBVIOUS
    <2>2. PICK i \in DOMAIN analyses : a = analyses[i]
      BY DEF Range
    <2>3. PICK j \in DOMAIN Kinds : k = Kinds[j]
      BY DEF Range
    <2> DEFINE ik == <<i, j>>
    <2>4. ik \in (DOMAIN analyses) \X (DOMAIN Kinds) /\ Leads2(ik, p)
      BY <2>1, <2>2, <2>3
    <2> HIDE DEF ik, Leads2
    <2> QED
      BY <2>4
  <1> HIDE DEF at
  <1>3. ASSUME NEW i \in DOMAIN analyses, NEW k \in DOMAIN Kinds PROVE Tiles(file(i, k))
    <2>1. k \in 1..3
      BY DEF Kinds
    <2>2. Tiles(DatFile(analyses[i])) /\ Tiles(ExtFile(analyses[i])) /\ Tiles(TwoExFile(analyses[i]))
      BY FilesTile DEF Range
    <2> QED
      BY <2>1, <2>2
  <1> HIDE DEF file
  <1>4. ASSUME NEW p \in paths PROVE Tiles(file(at(p)[1], at(p)[2]))
    BY <1>2, <1>3
  <1> QED
    BY <1>1, <1>4
-----------------------------------------------------------------------------
(* How far the export is.                                                  *)

Phases == {"load", "pdb", "library", "anlz", "audio", "done", "failed"}

\* What is loaded, and the parts of the manifest.
Loaded == [i \in DOMAIN input.tracks |-> Analysis(input.tracks[i], i)]
FixedPart == <<Entry(PdbFile, STAGING)>> \o Staged(LibraryFiles) \o Staged(AuxFiles)
AnlzPart ==
    FlattenSeq([i \in DOMAIN analyses |->
        Staged([k \in DOMAIN Kinds |-> AnlzFileOf(analyses[i].id, Kinds[k])])])
AudioPart ==
    [i \in DOMAIN input.tracks |-> Entry(ContentsPath(input.tracks[i]), input.tracks[i].hash)]

LoadedOK ==
    /\ phase \in Phases
    /\ phase = "load" => analyses = <<>> /\ lists = <<>>
    /\ phase \notin {"load", "failed"} => analyses = Loaded /\ lists = SortedPlaylists
    /\ \/ analyses = <<>> /\ lists = <<>>
       \/ analyses = Loaded /\ lists = SortedPlaylists

\* Tracks and playlists come to the builder in their order.
DbFollows ==
    /\ Len(db.tracks) <= Len(analyses)
    /\ \A i \in 1..Len(db.tracks) : db.tracks[i].analysis = analyses[i]
    /\ Len(db.playlists) <= Len(lists)
    /\ \A i \in 1..Len(db.playlists) :
          db.playlists[i] = [id |-> i, name |-> lists[i].name, sort |-> i - 1,
                             tracks |-> lists[i].contents]

\* What is written when.
ManifestIs(p) ==
    CASE p \in {"load", "pdb"} -> manifest = <<>>
      [] p = "library" -> manifest = <<Entry(PdbFile, STAGING)>>
      [] p = "anlz" -> manifest = FixedPart
      [] p = "audio" -> manifest = FixedPart \o AnlzPart
      [] OTHER -> manifest = FixedPart \o AnlzPart \o AudioPart

FilesOK ==
    /\ phase \in {"library", "anlz", "audio", "done"} => stage = "built"
    /\ phase \in {"anlz", "audio", "done"} => library = BuildExportLibrary
    /\ phase \in {"audio", "done"} => anlz = AnlzFiles
    /\ IF phase = "failed"
       THEN \E p \in Phases \ {"done", "failed"} : ManifestIs(p) /\ (p # "load" => analyses = Loaded)
       ELSE ManifestIs(phase)

SizeOK ==
    /\ table \in 0..NumTables
    /\ nextIndex \in Nat /\ Len(pages) + Len(data) <= nextIndex

LInv == LoadedOK /\ DbFollows /\ FilesOK /\ SizeOK

LEMMA InitLInv == Init => LInv
  <1> SUFFICES ASSUME Init PROVE LInv
    OBVIOUS
  <1>1. LoadedOK
    BY DEF Init, LoadedOK, Phases
  <1>2. DbFollows
    <2>1. db.tracks = <<>> /\ db.playlists = <<>>
      BY DEF Init, BuildInit, EmptyDb
    <2> QED
      BY <2>1 DEF Init, DbFollows
  <1>3. FilesOK
    BY DEF Init, BuildInit, FilesOK, ManifestIs
  <1>4. SizeOK
    <2>1. table = 0 /\ nextIndex = 1 /\ Len(pages) = 1 /\ Len(data) = 0
      BY DEF Init, BuildInit
    <2> QED
      BY <2>1 DEF SizeOK, NumTables
  <1> QED
    BY <1>1, <1>2, <1>3, <1>4 DEF LInv

\* What follows from the input stays as long as the input does.
LEMMA DerivedStays ==
  ASSUME input' = input
  PROVE  Loaded' = Loaded /\ SortedPlaylists' = SortedPlaylists /\ AudioPart' = AudioPart
  BY DEF Loaded, SortedPlaylists, AudioPart, NamedLists, Rank, Before, ContentIds, IdOfHash

LEMMA WrittenStays ==
  ASSUME analyses' = analyses, lists' = lists
  PROVE  /\ AnlzPart' = AnlzPart /\ AnlzFiles' = AnlzFiles
         /\ BuildExportLibrary' = BuildExportLibrary
  BY DEF AnlzPart, AnlzFiles, BuildExportLibrary, LibraryArtists, LibraryContent, LibraryEntries

LEMMA ManifestStays ==
  ASSUME UNCHANGED <<input, analyses, lists, manifest>>
  PROVE  \A p : ManifestIs(p)' = ManifestIs(p)
  <1>1. AudioPart' = AudioPart /\ AnlzPart' = AnlzPart
    BY DerivedStays, WrittenStays
  <1> QED
    BY <1>1 DEF ManifestIs, FixedPart

LEMMA LoadedKept ==
  ASSUME LInv, [Next]_vars
  PROVE  LoadedOK'
  <1>0. LoadedOK
    BY DEF LInv
  <1>1. input' = input
    BY DEF Next, vars, layoutVars, PdbTrack, PdbPlaylist, PdbBuild, WritePdb, PdbFails,
       Give, WriteDeviceLibrary, WriteAnlz, ListAudio, Load
  <1>2. Loaded' = Loaded /\ SortedPlaylists' = SortedPlaylists
    BY <1>1, DerivedStays
  <1>3. CASE Load
    <2>1. phase' = "pdb" /\ analyses' = Loaded /\ lists' = SortedPlaylists
      BY <1>3 DEF Load, Loaded
    <2> QED
      BY <1>2, <2>1 DEF LoadedOK, Phases
  <1>4. CASE /\ UNCHANGED <<analyses, lists>>
             /\ \/ phase' = phase
                \/ phase \notin {"load", "failed"} /\ phase' \in Phases \ {"load"}
                \/ phase' = "failed"
    BY <1>0, <1>2, <1>4 DEF LoadedOK, Phases
  <1> QED
    BY <1>3, <1>4 DEF Next, vars, layoutVars, PdbTrack, PdbPlaylist, PdbBuild, WritePdb, PdbFails,
       Give, WriteDeviceLibrary, WriteAnlz, ListAudio, Phases

\* A track or a playlist more is the next one.
LEMMA DbFollowsKept ==
  ASSUME LInv, FeedOK, [Next]_vars
  PROVE  DbFollows'
  <1>0. LoadedOK /\ DbFollows /\ GoodDb(db)
    BY DEF LInv, FeedOK, DbOK
  <1>a. /\ IsSequence(db.tracks) /\ IsSequence(db.playlists)
        /\ Len(db.tracks) \in Nat /\ Len(db.playlists) \in Nat
        /\ Len(analyses) \in Nat /\ Len(lists) \in Nat
    BY <1>0, SequenceFacts DEF FeedOK, GoodDb
  <1>1. CASE PdbTrack
    <2> DEFINE n == Len(db.tracks)
               a == analyses[n + 1]
               info == TrackInfo(a, db)
    <2>1. Len(db.tracks) < Len(analyses) /\ AddTrack(a) /\ UNCHANGED <<analyses, lists>>
      BY <1>1 DEF PdbTrack, layoutVars
    <2>2. n + 1 \in 1..Len(analyses)
      BY <1>a, <2>1
    <2>3. GoodAnalysis(a)
      BY <2>2 DEF FeedOK
    <2>4. WithTrack(db', db, a, info)
      BY <2>1 DEF AddTrack, WithTrack
    <2> HIDE DEF a, info
    <2>5. \A e : WithTrack(e, db, a, info) =>
                    /\ e.playlists = db.playlists /\ e.tracks = Append(db.tracks, info)
                    /\ info.analysis = a
      BY <1>0, <2>3, TrackAdded DEF info
    <2>6. /\ db'.playlists = db.playlists /\ db'.tracks = Append(db.tracks, info)
          /\ info.analysis = a
      BY <2>4, <2>5
    <2> DEFINE s == db.tracks
               t == Append(s, info)
    <2>7. /\ Len(t) = n + 1 /\ t[n + 1] = info
          /\ \A i \in 1..n : t[i] = s[i]
      BY <1>a, AppendFacts
    <2>8. /\ Len(s) <= Len(analyses) /\ \A i \in 1..n : s[i].analysis = analyses[i]
      BY <1>0 DEF DbFollows
    <2>9. \A i \in 1..n + 1 : i \in 1..n \/ i = n + 1
      BY <1>a
    <2>e. db'.tracks = t
      BY <2>6
    <2> HIDE DEF s, t, n
    <2>10. \A i \in 1..Len(t) : t[i].analysis = analyses[i]
      BY <2>6, <2>7, <2>8, <2>9 DEF a
    <2>11. Len(t) <= Len(analyses)
      BY <1>a, <2>2, <2>7
    <2>12. /\ Len(db.playlists) <= Len(lists)
           /\ \A i \in 1..Len(db.playlists) :
                 db.playlists[i] = [id |-> i, name |-> lists[i].name, sort |-> i - 1,
                                    tracks |-> lists[i].contents]
      BY <1>0 DEF DbFollows
    <2> QED
      BY <2>1, <2>6, <2>e, <2>10, <2>11, <2>12 DEF DbFollows
  <1>2. CASE PdbPlaylist
    <2> DEFINE n == Len(db.playlists)
               p == [id |-> n + 1, name |-> lists[n + 1].name, sort |-> n,
                     tracks |-> lists[n + 1].contents]
    <2>1. /\ Len(db.playlists) < Len(lists) /\ db' = [db EXCEPT !.playlists = Append(@, p)]
          /\ UNCHANGED <<analyses, lists>>
      BY <1>2 DEF PdbPlaylist, AddPlaylist, layoutVars
    <2>2. n + 1 \in 1..Len(lists)
      BY <1>a, <2>1
    <2>3. IsString(p.name) /\ IsSequence(p.tracks)
      BY <2>2 DEF FeedOK
    <2> DEFINE Says(q, i) == q = [id |-> i, name |-> lists[i].name, sort |-> i - 1,
                                 tracks |-> lists[i].contents]
    <2>p. Says(p, n + 1)
      <3>1. (n + 1) - 1 = n
        BY <1>a
      <3> QED
        BY <3>1
    <2> HIDE DEF p
    <2>4. \A e : e = [db EXCEPT !.playlists = Append(@, p)] =>
                    e.tracks = db.tracks /\ e.playlists = Append(db.playlists, p)
      BY <1>0, <2>3, PlaylistAdded
    <2>5. db'.tracks = db.tracks /\ db'.playlists = Append(db.playlists, p)
      BY <2>1, <2>4
    <2> DEFINE s == db.playlists
               t == Append(s, p)
    <2>7. /\ Len(t) = n + 1 /\ t[n + 1] = p
          /\ \A i \in 1..n : t[i] = s[i]
      BY <1>a, AppendFacts
    <2>8. \A i \in 1..n : Says(s[i], i)
      BY <1>0 DEF DbFollows
    <2>9. \A i \in 1..n + 1 : i \in 1..n \/ i = n + 1
      BY <1>a
    <2>e. db'.playlists = t
      BY <2>5
    <2> HIDE DEF s, t, n, Says
    <2>10. \A i \in 1..Len(t) : Says(t[i], i)
      BY <2>7, <2>8, <2>9, <2>p
    <2>11. Len(t) <= Len(lists)
      BY <1>a, <2>2, <2>7
    <2>12. /\ Len(db.tracks) <= Len(analyses)
           /\ \A i \in 1..Len(db.tracks) : db.tracks[i].analysis = analyses[i]
      BY <1>0 DEF DbFollows
    <2>13. \A i \in 1..Len(t) : t[i] = [id |-> i, name |-> lists[i].name, sort |-> i - 1,
                                       tracks |-> lists[i].contents]
      BY <2>10 DEF Says
    <2> QED
      BY <2>1, <2>5, <2>e, <2>11, <2>12, <2>13 DEF DbFollows
  <1>3. CASE Load
    <2>1. phase = "load" /\ db' = db
      BY <1>3 DEF Load, buildVars
    <2>2. analyses = <<>> /\ lists = <<>>
      BY <1>0, <2>1 DEF LoadedOK
    <2>3. Len(db.tracks) = 0 /\ Len(db.playlists) = 0
      <3>1. Len(db.tracks) <= 0 /\ Len(db.playlists) <= 0
        BY <1>0, <2>2 DEF DbFollows
      <3> QED
        BY <1>a, <3>1
    <2>4. Len(analyses') \in Nat /\ Len(lists') \in Nat
      BY InputKept, SequenceFacts
    <2> QED
      BY <2>1, <2>3, <2>4 DEF DbFollows
  <1>4. CASE UNCHANGED <<db, analyses, lists>>
    BY <1>0, <1>4 DEF DbFollows
  <1> QED
    BY <1>1, <1>2, <1>3, <1>4 DEF Next, vars, buildVars, layoutVars, PdbBuild, Build, BeginBuild,
       EmptyTable, StartTable, WriteNext, TurnPage, RowTooLarge, EndTable, FinishBuild, WritePdb,
       PdbFails, Give, WriteDeviceLibrary, WriteAnlz, ListAudio

\* The pages are counted, also behind the end.
LEMMA SizeKept ==
  ASSUME LInv, PInv, PInv', [Next]_vars
  PROVE  SizeOK'
  <1>1. CASE stage' # "built"
    <2>1. (PagesOK /\ OpenTableOK /\ TablesOK)'
      BY <1>1 DEF PInv
    <2>2. Len(pages') \in Nat /\ Len(data') \in Nat
      BY <2>1, SequenceFacts DEF PagesOK, OpenTableOK
    <2>3. nextIndex' = Len(pages') + Len(data') \/ nextIndex' = Len(pages') + Len(data') + 2
      <3>1. CASE page' = NoPage
        <4>1. nextIndex' = Len(pages') /\ data' = <<>>
          BY <2>1, <3>1 DEF OpenTableOK, NoPage
        <4> QED
          BY <2>2, <4>1
      <3>2. CASE page' # NoPage
        BY <2>1, <3>2 DEF OpenTableOK, NoPage
      <3> QED
        BY <3>1, <3>2
    <2> QED
      BY <2>1, <2>2, <2>3 DEF SizeOK, TablesOK
  <1>2. CASE FinishBuild
    <2>1. stage # "built" /\ table = 20 /\ UNCHANGED <<table, data, nextIndex>>
      BY <1>2 DEF FinishBuild, NumTables
    <2>2. PagesOK /\ OpenTableOK /\ TablesOK
      BY <2>1 DEF PInv
    <2>3. page = NoPage
      BY <2>1, <2>2 DEF OpenTableOK, NumTables
    <2>4. nextIndex = Len(pages) /\ data = <<>>
      BY <2>2, <2>3 DEF OpenTableOK
    <2>5. Len(pages') = Len(pages) /\ Len(pages) \in Nat
      BY <1>2, <2>2, PatchedFacts, SequenceFacts DEF PagesOK
    <2>6. Len(data') = 0
      BY <2>1, <2>4
    <2> QED
      BY <2>1, <2>4, <2>5, <2>6 DEF SizeOK, NumTables
  <1>3. CASE UNCHANGED <<table, nextIndex, pages, data>>
    BY <1>3 DEF LInv, SizeOK
  <1> QED
    BY <1>1, <1>2, <1>3 DEF Next, vars, buildVars, layoutVars, PdbTrack, PdbPlaylist, PdbBuild,
       Build, BeginBuild, EmptyTable, StartTable, WriteNext, TurnPage, RowTooLarge, EndTable,
       WritePdb, PdbFails, Give, WriteDeviceLibrary, WriteAnlz, ListAudio, Load

\* What is on the stick when.
LEMMA FilesKept ==
  ASSUME LInv, PInv, [Next]_vars
  PROVE  FilesOK'
  <1>0. LoadedOK /\ FilesOK /\ (phase = "load" => stage = "add")
    BY DEF LInv, PInv, SettledOK
  <1>1. CASE Load
    <2>1. phase = "load" /\ phase' = "pdb" /\ manifest' = manifest
      BY <1>1 DEF Load
    <2>2. manifest = <<>>
      BY <1>0, <2>1 DEF FilesOK, ManifestIs
    <2> QED
      BY <2>1, <2>2 DEF FilesOK, ManifestIs
  <1>2. CASE PdbTrack \/ PdbPlaylist \/ PdbBuild
    <2>1. phase = "pdb" /\ phase' = phase /\ manifest' = manifest
      BY <1>2 DEF PdbTrack, PdbPlaylist, PdbBuild, layoutVars
    <2>2. manifest = <<>>
      BY <1>0, <2>1 DEF FilesOK, ManifestIs
    <2> QED
      BY <2>1, <2>2 DEF FilesOK, ManifestIs
  <1>3. CASE WritePdb
    <2>1. /\ phase = "pdb" /\ phase' = "library" /\ stage' = "built"
          /\ manifest' = Append(manifest, Entry(PdbFile, STAGING))
      BY <1>3 DEF WritePdb, buildVars
    <2>2. manifest = <<>>
      BY <1>0, <2>1 DEF FilesOK, ManifestIs
    <2>3. Append(<<>>, Entry(PdbFile, STAGING)) = <<Entry(PdbFile, STAGING)>>
      OBVIOUS
    <2> QED
      BY <2>1, <2>2, <2>3 DEF FilesOK, ManifestIs
  <1>4. CASE WriteDeviceLibrary
    <2>1. /\ phase = "library" /\ phase' = "anlz" /\ stage' = stage
          /\ manifest' = manifest \o Staged(LibraryFiles) \o Staged(AuxFiles)
          /\ library' = BuildExportLibrary /\ analyses' = analyses /\ lists' = lists
      BY <1>4 DEF WriteDeviceLibrary, buildVars
    <2>2. manifest = <<Entry(PdbFile, STAGING)>> /\ stage = "built"
      BY <1>0, <2>1 DEF FilesOK, ManifestIs
    <2>3. BuildExportLibrary' = BuildExportLibrary /\ FixedPart' = FixedPart
      BY <2>1, WrittenStays DEF FixedPart
    <2>4. manifest' = FixedPart'
      BY <2>1, <2>2, <2>3 DEF FixedPart
    <2> QED
      BY <2>1, <2>2, <2>3, <2>4 DEF FilesOK, ManifestIs
  <1>5. CASE WriteAnlz
    <2>1. /\ phase = "anlz" /\ phase' = "audio" /\ stage' = stage
          /\ manifest' = manifest \o AnlzPart /\ anlz' = AnlzFiles
          /\ library' = library /\ analyses' = analyses /\ lists' = lists
      BY <1>5 DEF WriteAnlz, buildVars, AnlzPart
    <2>2. manifest = FixedPart /\ stage = "built" /\ library = BuildExportLibrary
      BY <1>0, <2>1 DEF FilesOK, ManifestIs
    <2>3. /\ BuildExportLibrary' = BuildExportLibrary /\ FixedPart' = FixedPart
          /\ AnlzPart' = AnlzPart /\ AnlzFiles' = AnlzFiles
      BY <2>1, WrittenStays DEF FixedPart
    <2>4. manifest' = FixedPart' \o AnlzPart'
      BY <2>1, <2>2, <2>3
    <2> QED
      BY <2>1, <2>2, <2>3, <2>4 DEF FilesOK, ManifestIs
  <1>6. CASE ListAudio
    <2>1. /\ phase = "audio" /\ phase' = "done" /\ stage' = stage /\ input' = input
          /\ manifest' = manifest \o AudioPart /\ anlz' = anlz
          /\ library' = library /\ analyses' = analyses /\ lists' = lists
      BY <1>6 DEF ListAudio, buildVars, AudioPart
    <2>2. /\ manifest = FixedPart \o AnlzPart /\ stage = "built" /\ library = BuildExportLibrary
          /\ anlz = AnlzFiles
      BY <1>0, <2>1 DEF FilesOK, ManifestIs
    <2>3. /\ BuildExportLibrary' = BuildExportLibrary /\ FixedPart' = FixedPart
          /\ AnlzPart' = AnlzPart /\ AnlzFiles' = AnlzFiles /\ AudioPart' = AudioPart
      BY <2>1, WrittenStays, DerivedStays DEF FixedPart
    <2>4. manifest' = FixedPart' \o AnlzPart' \o AudioPart'
      BY <2>1, <2>2, <2>3
    <2> QED
      BY <2>1, <2>2, <2>3, <2>4 DEF FilesOK, ManifestIs
  <1>7. CASE phase' = "failed" /\ phase \in Phases \ {"done", "failed"}
             /\ UNCHANGED <<input, analyses, lists, manifest>>
    <2> DEFINE Was(p) == ManifestIs(p) /\ (p # "load" => analyses = Loaded)
    <2>1. phase \in Phases \ {"done", "failed"} /\ Was(phase)
      BY <1>0, <1>7 DEF FilesOK, LoadedOK
    <2>2. /\ \A p : ManifestIs(p)' = ManifestIs(p)
          /\ Loaded' = Loaded /\ analyses' = analyses
      BY <1>7, ManifestStays, DerivedStays
    <2>3. PICK p : p = phase
      OBVIOUS
    <2>4. p \in Phases \ {"done", "failed"} /\ ManifestIs(p)' /\ (p # "load" => analyses' = Loaded')
      BY <2>1, <2>2, <2>3
    <2>5. \E q \in Phases \ {"done", "failed"} :
             ManifestIs(q)' /\ (q # "load" => analyses' = Loaded')
      BY <2>4
    <2> QED
      BY <1>7, <2>5 DEF FilesOK
  <1>8. CASE UNCHANGED vars
    <2>1. UNCHANGED <<input, analyses, lists, manifest, phase, stage, library, anlz>>
      BY <1>8 DEF vars, layoutVars, buildVars
    <2>2. \A p : ManifestIs(p)' = ManifestIs(p)
      BY <2>1, ManifestStays
    <2>3. BuildExportLibrary' = BuildExportLibrary /\ AnlzFiles' = AnlzFiles /\ Loaded' = Loaded
      BY <2>1, WrittenStays, DerivedStays
    <2>4. CASE phase = "failed"
      <3>1. PICK p \in Phases \ {"done", "failed"} :
                ManifestIs(p) /\ (p # "load" => analyses = Loaded)
        BY <1>0, <2>4 DEF FilesOK
      <3>2. ManifestIs(p)' /\ (p # "load" => analyses' = Loaded')
        BY <2>1, <2>2, <2>3, <3>1
      <3>3. \E q \in Phases \ {"done", "failed"} :
               ManifestIs(q)' /\ (q # "load" => analyses' = Loaded')
        BY <3>2
      <3> QED
        BY <1>0, <2>1, <2>3, <2>4, <3>3 DEF FilesOK
    <2>5. CASE phase # "failed"
      <3>1. ManifestIs(phase)
        BY <1>0, <2>5 DEF FilesOK
      <3>2. ManifestIs(phase)'
        BY <2>1, <2>2, <3>1
      <3> QED
        BY <1>0, <2>1, <2>3, <2>5, <3>2 DEF FilesOK
    <2> QED
      BY <2>4, <2>5
  <1> QED
    BY <1>1, <1>2, <1>3, <1>4, <1>5, <1>6, <1>7, <1>8 DEF Next, PdbFails, Give, Phases

LEMMA LInvHolds == Spec => []LInv
  <1>1. LInv /\ FeedOK /\ PInv /\ PInv' /\ [Next]_vars => LInv'
    BY LoadedKept, DbFollowsKept, FilesKept, SizeKept DEF LInv
  <1> QED
    BY <1>1, InitLInv, FeedHolds, PInvHolds, PTL DEF Spec
-----------------------------------------------------------------------------
(* What is loaded, and what follows for the analysis files.                *)

\* What is loaded, track by track.
LEMMA LoadedFacts ==
  ASSUME FeedOK, analyses = Loaded
  PROVE  /\ Len(input.tracks) \in Nat /\ Len(analyses) = Len(input.tracks)
         /\ DOMAIN analyses = 1..Len(input.tracks) /\ DOMAIN input.tracks = 1..Len(input.tracks)
         /\ \A i \in 1..Len(input.tracks) :
               /\ analyses[i] = Analysis(input.tracks[i], i)
               /\ analyses[i].id = i /\ analyses[i].analyzePath = RowAnlzPath(i)
               /\ analyses[i].path = [id |-> ContentsPath(input.tracks[i]), len |-> 30, wide |-> FALSE]
               /\ analyses[i].artist = input.tracks[i].artist
               /\ analyses[i].beats = input.tracks[i].beats
               /\ analyses[i].detail = input.tracks[i].detail
               /\ analyses[i].title = input.tracks[i].title
  <1>1. input \in Inputs
    BY DEF FeedOK
  <1>2. /\ IsSequence(analyses) /\ Len(analyses) = Len(input.tracks)
        /\ \A i \in 1..Len(analyses) : analyses[i] = Analysis(input.tracks[i], i)
    BY <1>1, LoadFeeds DEF Loaded
  <1>3. DOMAIN analyses = 1..Len(analyses) /\ Len(analyses) \in Nat
    BY <1>2, SequenceFacts
  <1>4. DOMAIN input.tracks = 1..Len(input.tracks)
    BY <1>1, InputFacts, SequenceFacts
  <1>5. ASSUME NEW t, NEW i, NEW a, a = Analysis(t, i)
        PROVE  /\ a.id = i /\ a.analyzePath = RowAnlzPath(i)
               /\ a.path = [id |-> ContentsPath(t), len |-> 30, wide |-> FALSE]
               /\ a.artist = t.artist /\ a.beats = t.beats /\ a.detail = t.detail
               /\ a.title = t.title
    BY <1>5 DEF Analysis
  <1> QED
    BY <1>2, <1>3, <1>4, <1>5

\* What a track that is asked for has.
LEMMA TrackFacts ==
  ASSUME input \in Inputs, NEW i \in 1..Len(input.tracks)
  PROVE  /\ input.tracks[i].beats \in Nat /\ input.tracks[i].detail \in Nat
         /\ input.tracks[i].artist.len = 0 => input.tracks[i].artist = NoString
         /\ \A j \in 1..Len(input.tracks) :
               input.tracks[i].hash = input.tracks[j].hash => i = j
  <1> DEFINE ts == input.tracks
  <1>1. DOMAIN ts = 1..Len(ts)
    BY InputFacts, SequenceFacts
  <1>2. /\ \A j, k \in DOMAIN ts : ts[j].hash = ts[k].hash => j = k
        /\ \A t \in Range(ts) :
              (t.artist.len = 0 => t.artist = NoString) /\ t.beats \in Nat /\ t.detail \in Nat
    BY InputsAssumption
  <1> HIDE DEF ts
  <1>3. ts[i] \in Range(ts)
    BY <1>1 DEF Range, ts
  <1> QED
    BY <1>1, <1>2, <1>3 DEF ts

\* For any export: an analysis file tiles, whatever the beats and the waveform of its track
\* are: the length that each section of anlz.rs declares is the number of bytes it writes.
THEOREM SectionsAreMet == Spec => []AnlzTiles
  <1>1. LInv /\ FeedOK => AnlzTiles
    <2> SUFFICES ASSUME LInv, FeedOK, phase = "done"
                 PROVE  \A path \in DOMAIN anlz : Tiles(anlz[path])
      BY DEF AnlzTiles
    <2>1. anlz = AnlzFiles /\ analyses = Loaded
      BY DEF LInv, FilesOK, LoadedOK
    <2>2. ASSUME NEW a \in Range(analyses)
          PROVE  a.path.len \in Nat /\ a.beats \in Nat /\ a.detail \in Nat
      <3>1. PICK i \in DOMAIN analyses : a = analyses[i]
        BY DEF Range
      <3>2. i \in 1..Len(input.tracks) /\ input \in Inputs
        BY <2>1, LoadedFacts DEF FeedOK
      <3>3. /\ a.path = [id |-> ContentsPath(input.tracks[i]), len |-> 30, wide |-> FALSE]
            /\ a.beats = input.tracks[i].beats /\ a.detail = input.tracks[i].detail
        BY <2>1, <3>1, <3>2, LoadedFacts
      <3>4. a.path.len = 30
        BY <3>3
      <3>5. input.tracks[i].beats \in Nat /\ input.tracks[i].detail \in Nat
        BY <3>2, TrackFacts
      <3> QED
        BY <3>3, <3>4, <3>5
    <2>3. \A path \in DOMAIN AnlzFiles : Tiles(AnlzFiles[path])
      BY <2>2, AnlzFilesTile
    <2> QED
      BY <2>1, <2>3
  <1> QED
    BY <1>1, LInvHolds, FeedHolds, PTL
-----------------------------------------------------------------------------
(* The manifest, entry by entry.                                           *)

FixedPaths == <<PdbFile>> \o LibraryFiles \o AuxFiles

LEMMA FiveInARow ==
  ASSUME NEW a, NEW b, NEW c, NEW d, NEW e
  PROVE  <<a>> \o <<b, c>> \o <<d, e>> = <<a, b, c, d, e>>
  <1> DEFINE s == <<a>>
             t == <<b, c>>
             u == <<d, e>>
             three == s \o t
             all == three \o u
             five == <<a, b, c, d, e>>
  <1>1. /\ s \in Seq({a}) /\ t \in Seq({b, c}) /\ u \in Seq({d, e})
        /\ five \in Seq({a, b, c, d, e})
    OBVIOUS
  <1>2. IsSequence(s) /\ IsSequence(t) /\ IsSequence(u) /\ IsSequence(five)
    BY <1>1 DEF IsSequence
  <1>3. /\ Len(s) = 1 /\ Len(t) = 2 /\ Len(u) = 2 /\ Len(five) = 5
        /\ s[1] = a /\ t[1] = b /\ t[2] = c /\ u[1] = d /\ u[2] = e
    OBVIOUS
  <1>4. /\ five[1] = a /\ five[2] = b /\ five[3] = c /\ five[4] = d /\ five[5] = e
    OBVIOUS
  <1> HIDE DEF s, t, u, three, all, five
  <1>5. /\ IsSequence(three) /\ Len(three) = 3 /\ three[1] = a /\ three[2] = b /\ three[3] = c
    <2>1. Joined(three, s, t)
      BY <1>2, JoinFacts DEF three
    <2> QED
      BY <1>3, <2>1 DEF Joined
  <1>6. /\ IsSequence(all) /\ Len(all) = 5
        /\ all[1] = a /\ all[2] = b /\ all[3] = c /\ all[4] = d /\ all[5] = e
    <2>1. Joined(all, three, u)
      BY <1>2, <1>5, JoinFacts DEF all
    <2> QED
      BY <1>3, <1>5, <2>1 DEF Joined
  <1>7. \A i \in 1..5 : i = 1 \/ i = 2 \/ i = 3 \/ i = 4 \/ i = 5
    OBVIOUS
  <1>8. \A i \in 1..Len(all) : all[i] = five[i]
    BY <1>4, <1>6, <1>7
  <1>9. all = five
    BY <1>2, <1>3, <1>6, <1>8, SameSequence
  <1> QED
    BY <1>9 DEF all, three, s, t, u, five

LEMMA FixedEntries ==
  /\ IsSequence(FixedPart) /\ Len(FixedPart) = 5
  /\ \A i \in 1..5 : FixedPart[i] = Entry(FixedPaths[i], STAGING)
  /\ IsSequence(<<Entry(PdbFile, STAGING)>>) /\ Len(<<Entry(PdbFile, STAGING)>>) = 1
  <1> DEFINE e(p) == Entry(p, STAGING)
             s == <<e(PdbFile), e(LibraryFiles[1]), e(LibraryFiles[2]),
                    e(AuxFiles[1]), e(AuxFiles[2])>>
             one == <<e(PdbFile)>>
  <1>1. Staged(LibraryFiles) = <<e(LibraryFiles[1]), e(LibraryFiles[2])>>
    BY DEF Staged, LibraryFiles
  <1>2. Staged(AuxFiles) = <<e(AuxFiles[1]), e(AuxFiles[2])>>
    BY DEF Staged, AuxFiles
  <1>3. FixedPart = s
    <2> DEFINE a == e(PdbFile)
               b == e(LibraryFiles[1])
               c == e(LibraryFiles[2])
               d == e(AuxFiles[1])
               f == e(AuxFiles[2])
    <2>1. FixedPart = <<a>> \o <<b, c>> \o <<d, f>>
      BY <1>1, <1>2 DEF FixedPart
    <2> HIDE DEF a, b, c, d, f
    <2>2. FixedPart = <<a, b, c, d, f>>
      BY <2>1, FiveInARow
    <2> QED
      BY <2>2 DEF a, b, c, d, f
  <1>4. FixedPaths = <<PdbFile, LibraryFiles[1], LibraryFiles[2], AuxFiles[1], AuxFiles[2]>>
    <2> DEFINE a == PdbFile
               b == LibraryFiles[1]
               c == LibraryFiles[2]
               d == AuxFiles[1]
               f == AuxFiles[2]
    <2>1. LibraryFiles = <<b, c>> /\ AuxFiles = <<d, f>>
      BY DEF LibraryFiles, AuxFiles
    <2> HIDE DEF a, b, c, d, f
    <2>2. FixedPaths = <<a>> \o <<b, c>> \o <<d, f>>
      BY <2>1 DEF FixedPaths, a
    <2>3. FixedPaths = <<a, b, c, d, f>>
      BY <2>2, FiveInARow
    <2> QED
      BY <2>3 DEF a, b, c, d, f
  <1>5. s \in Seq({s[i] : i \in 1..5}) /\ one \in Seq({one[1]})
    <2> HIDE DEF e
    <2> QED
      OBVIOUS
  <1>6. IsSequence(s) /\ IsSequence(one)
    BY <1>5 DEF IsSequence
  <1>7. Len(s) = 5 /\ Len(one) = 1
    OBVIOUS
  <1>8. \A i \in 1..5 : s[i] = e(FixedPaths[i])
    <2> HIDE DEF e
    <2> QED
      BY <1>4
  <1> QED
    BY <1>3, <1>6, <1>7, <1>8

\* Three entries a track.
AnlzEntriesOf(at, n, all) ==
    /\ IsSplit(at, n) /\ IsSequence(all) /\ Len(all) = at[n + 1]
    /\ \A j \in 1..n : \A k \in 1..3 :
          at[j] + k \in 1..Len(all) /\ all[at[j] + k] = Entry(AnlzFileOf(j, Kinds[k]), STAGING)
    /\ \A i \in 1..Len(all) : \E j \in 1..n : \E k \in 1..3 : i = at[j] + k

LEMMA AnlzEntries ==
  ASSUME FeedOK, analyses = Loaded
  PROVE  \E at : AnlzEntriesOf(at, Len(input.tracks), AnlzPart)
  <1> DEFINE n == Len(input.tracks)
             group(i) == Staged([k \in DOMAIN Kinds |-> AnlzFileOf(analyses[i].id, Kinds[k])])
             seqs == [i \in 1..n |-> group(i)]
             all == AnlzPart
  <1>1. n \in Nat /\ all = FlattenSeq(seqs)
    BY LoadedFacts DEF AnlzPart
  <1>2. ASSUME NEW i \in 1..n
        PROVE  /\ IsSequence(seqs[i]) /\ Len(seqs[i]) = 3
               /\ \A k \in 1..3 : seqs[i][k] = Entry(AnlzFileOf(i, Kinds[k]), STAGING)
    <2> DEFINE x == [k \in 1..3 |-> Entry(AnlzFileOf(i, Kinds[k]), STAGING)]
    <2>1. DOMAIN Kinds = 1..3
      BY DEF Kinds
    <2>2. analyses[i].id = i
      BY LoadedFacts
    <2>3. group(i) = x
      BY <2>1, <2>2 DEF Staged
    <2>4. x = [k \in 1..3 |-> x[k]] /\ \A k \in 1..3 : x[k] = Entry(AnlzFileOf(i, Kinds[k]), STAGING)
      OBVIOUS
    <2> HIDE DEF x
    <2>5. IsSequence(x) /\ Len(x) = 3
      BY <2>4, SequenceFacts
    <2>6. seqs[i] = x
      BY <2>3
    <2> QED
      BY <2>4, <2>5, <2>6
  <1>3. seqs = [i \in 1..n |-> seqs[i]]
    OBVIOUS
  <1> HIDE DEF seqs, group, all, n
  <1>4. IsSequence(seqs) /\ Len(seqs) = n
    BY <1>1, <1>3, SequenceFacts
  <1>5. PICK at : Divides(at, n, seqs)
    BY <1>1, <1>2, SplitExists
  <1>6. /\ IsSequence(all) /\ Len(all) = at[n + 1]
        /\ \A j \in 1..n : \A k \in 1..Len(seqs[j]) :
              at[j] + k \in 1..Len(all) /\ all[at[j] + k] = seqs[j][k]
        /\ \A i \in 1..Len(all) : \E j \in 1..n : \E k \in 1..Len(seqs[j]) : i = at[j] + k
    BY <1>1, <1>4, <1>5, FlattenElements
  <1>7. AnlzEntriesOf(at, n, all)
    <2>1. \A j \in 1..n : \A k \in 1..3 :
              at[j] + k \in 1..Len(all) /\ all[at[j] + k] = Entry(AnlzFileOf(j, Kinds[k]), STAGING)
      <3> SUFFICES ASSUME NEW j \in 1..n, NEW k \in 1..3
                   PROVE  /\ at[j] + k \in 1..Len(all)
                          /\ all[at[j] + k] = Entry(AnlzFileOf(j, Kinds[k]), STAGING)
        OBVIOUS
      <3>1. k \in 1..Len(seqs[j]) /\ seqs[j][k] = Entry(AnlzFileOf(j, Kinds[k]), STAGING)
        BY <1>2
      <3>2. at[j] + k \in 1..Len(all) /\ all[at[j] + k] = seqs[j][k]
        BY <1>6, <3>1
      <3> QED
        BY <3>1, <3>2
    <2>2. \A i \in 1..Len(all) : \E j \in 1..n : \E k \in 1..3 : i = at[j] + k
      <3> SUFFICES ASSUME NEW i \in 1..Len(all) PROVE \E j \in 1..n : \E k \in 1..3 : i = at[j] + k
        OBVIOUS
      <3>1. PICK j \in 1..n : \E k \in 1..Len(seqs[j]) : i = at[j] + k
        BY <1>6
      <3>2. Len(seqs[j]) = 3
        BY <1>2
      <3> QED
        BY <3>1, <3>2
    <2> QED
      BY <1>5, <1>6, <2>1, <2>2 DEF AnlzEntriesOf, Divides
  <1> QED
    BY <1>7 DEF n, all
-----------------------------------------------------------------------------
(* The types.                                                              *)

\* The bytes of an entry are in the staging directory or are those of a track.
Sourced(s) ==
    /\ IsSequence(s)
    /\ \A i \in 1..Len(s) :
          s[i].source = STAGING \/ \E j \in 1..Len(input.tracks) : s[i].source = input.tracks[j].hash

LEMMA SourcedJoin ==
  ASSUME NEW s, Sourced(s), NEW t, Sourced(t)
  PROVE  Sourced(s \o t)
  <1> DEFINE u == s \o t
             Good(e) == e.source = STAGING
                        \/ \E j \in 1..Len(input.tracks) : e.source = input.tracks[j].hash
  <1>1. Joined(u, s, t)
    BY JoinFacts DEF Sourced
  <1>2. /\ \A i \in 1..Len(s) : Good(s[i])
        /\ \A i \in 1..Len(t) : Good(t[i])
    BY DEF Sourced
  <1> HIDE DEF u, Good
  <1>3. /\ IsSequence(u) /\ Len(s) \in Nat /\ Len(t) \in Nat /\ Len(u) = Len(s) + Len(t)
        /\ \A i \in 1..Len(s) : u[i] = s[i]
        /\ \A i \in 1..Len(t) : u[Len(s) + i] = t[i]
    BY <1>1 DEF Joined
  <1>4. ASSUME NEW i \in 1..Len(u) PROVE Good(u[i])
    <2>1. CASE i <= Len(s)
      BY <1>2, <1>3, <2>1
    <2>2. CASE i > Len(s)
      <3> DEFINE k == i - Len(s)
      <3>1. k \in 1..Len(t) /\ Len(s) + k = i
        BY <1>3, <2>2
      <3> HIDE DEF k
      <3> QED
        BY <1>2, <1>3, <3>1
    <2> QED
      BY <1>3, <2>1, <2>2
  <1>5. Sourced(u)
    BY <1>3, <1>4 DEF Sourced, Good
  <1> QED
    BY <1>5 DEF u

LEMMA PartsAreSourced ==
  /\ Sourced(<<>>) /\ Sourced(<<Entry(PdbFile, STAGING)>>) /\ Sourced(FixedPart)
  /\ FeedOK /\ analyses = Loaded => Sourced(AnlzPart) /\ Sourced(AudioPart)
  <1>e. \A p, s : Entry(p, s).source = s
    BY DEF Entry
  <1>1. Sourced(<<>>)
    BY DEF Sourced, IsSequence
  <1>2. Sourced(<<Entry(PdbFile, STAGING)>>)
    <2> DEFINE s == <<Entry(PdbFile, STAGING)>>
    <2>1. s[1].source = STAGING /\ IsSequence(s) /\ Len(s) = 1
      BY <1>e, FixedEntries
    <2> HIDE DEF s
    <2> QED
      BY <2>1 DEF Sourced, s
  <1>3. Sourced(FixedPart)
    BY <1>e, FixedEntries DEF Sourced
  <1>4. ASSUME FeedOK, analyses = Loaded PROVE Sourced(AnlzPart)
    <2> DEFINE n == Len(input.tracks)
    <2>1. PICK at : AnlzEntriesOf(at, n, AnlzPart)
      BY <1>4, AnlzEntries
    <2>2. ASSUME NEW i \in 1..Len(AnlzPart) PROVE AnlzPart[i].source = STAGING
      <3>1. PICK j \in 1..n : \E k \in 1..3 : i = at[j] + k
        BY <2>1 DEF AnlzEntriesOf
      <3>2. PICK k \in 1..3 : i = at[j] + k
        BY <3>1
      <3>3. AnlzPart[i] = Entry(AnlzFileOf(j, Kinds[k]), STAGING)
        BY <2>1, <3>2 DEF AnlzEntriesOf
      <3> QED
        BY <1>e, <3>3
    <2> QED
      BY <2>1, <2>2 DEF Sourced, AnlzEntriesOf
  <1>5. ASSUME FeedOK, analyses = Loaded PROVE Sourced(AudioPart)
    <2> DEFINE n == Len(input.tracks)
               s == AudioPart
    <2>1. n \in Nat /\ DOMAIN input.tracks = 1..n
      BY <1>5, LoadedFacts
    <2>2. s = [i \in 1..n |-> s[i]] /\ \A i \in 1..n : s[i].source = input.tracks[i].hash
      BY <1>e, <2>1 DEF AudioPart
    <2> HIDE DEF s
    <2>3. IsSequence(s) /\ Len(s) = n
      <3> HIDE DEF n
      <3> QED
        BY <2>1, <2>2, SequenceFacts
    <2>4. Sourced(s)
      BY <2>2, <2>3 DEF Sourced
    <2> QED
      BY <2>4 DEF s
  <1> QED
    BY <1>1, <1>2, <1>3, <1>4, <1>5

\* Fewer playlists are exported than were asked for, if one has no name.
LEMMA FewerLists ==
  ASSUME input \in Inputs
  PROVE  Len(SortedPlaylists) <= Len(input.playlists) /\ Len(input.playlists) \in Nat
  <1> DEFINE n == Len(input.playlists)
             c == Cardinality(NamedLists)
  <1>1. DOMAIN input.playlists = 1..n /\ n \in Nat
    BY InputFacts, SequenceFacts
  <1>2. NamedLists \subseteq 1..n
    BY <1>1 DEF NamedLists
  <1> HIDE DEF n
  <1>3. c <= n /\ c \in Nat
    BY <1>1, <1>2, IntervalFacts, FS_Subset, FS_CardinalityType
  <1> DEFINE all == SortedPlaylists
  <1>4. all = [i \in 1..c |-> all[i]]
    BY DEF SortedPlaylists
  <1> HIDE DEF all, c
  <1>5. Len(all) = c
    BY <1>3, <1>4, SequenceFacts
  <1> QED
    BY <1>1, <1>3, <1>5 DEF all, n

\* For any export: the type invariant.  What is left to say of the builder's pages is that
\* they are counted by next_page_index, which is ahead of them by the pages that are open.
THEOREM LayoutTypes == Spec => []TypeOK
  <1>1. LInv /\ FeedOK /\ PInv /\ RowsAreLong => TypeOK
    <2> SUFFICES ASSUME LInv, FeedOK, PInv, RowsAreLong PROVE TypeOK
      OBVIOUS
    <2>1. LoadedOK /\ FilesOK /\ SizeOK /\ input \in Inputs
      BY DEF LInv, FeedOK
    <2>2. analyses = <<>> \/ Len(analyses) = Len(input.tracks)
      BY <2>1, LoadedFacts DEF LoadedOK
    <2>3. Len(lists) <= Len(input.playlists)
      <3>1. CASE lists = <<>>
        BY <2>1, <3>1, FewerLists
      <3>2. CASE lists = SortedPlaylists
        BY <2>1, <3>2, FewerLists
      <3> QED
        BY <2>1, <3>1, <3>2 DEF LoadedOK
    <2>4. Sourced(manifest)
      <3>1. PICK p \in Phases \ {"failed"} : ManifestIs(p) /\ (p # "load" => analyses = Loaded)
        BY <2>1 DEF FilesOK, LoadedOK, Phases
      <3>2. CASE p \in {"load", "pdb"}
        BY <3>1, <3>2, PartsAreSourced DEF ManifestIs
      <3>3. CASE p = "library"
        BY <3>1, <3>3, PartsAreSourced DEF ManifestIs
      <3>4. CASE p = "anlz"
        BY <3>1, <3>4, PartsAreSourced DEF ManifestIs
      <3>5. CASE p = "audio"
        <4>1. manifest = FixedPart \o AnlzPart /\ analyses = Loaded
          BY <3>1, <3>5 DEF ManifestIs
        <4>2. Sourced(FixedPart) /\ Sourced(AnlzPart)
          BY <4>1, PartsAreSourced
        <4> QED
          BY <4>1, <4>2, SourcedJoin
      <3>6. CASE p = "done"
        <4> DEFINE s == FixedPart \o AnlzPart
        <4>1. manifest = s \o AudioPart /\ analyses = Loaded
          BY <3>1, <3>6 DEF ManifestIs
        <4>2. Sourced(FixedPart) /\ Sourced(AnlzPart) /\ Sourced(AudioPart)
          BY <4>1, PartsAreSourced
        <4>3. Sourced(s)
          BY <4>2, SourcedJoin
        <4> HIDE DEF s
        <4> QED
          BY <4>1, <4>2, <4>3, SourcedJoin
      <3> QED
        BY <3>2, <3>3, <3>4, <3>5, <3>6 DEF Phases
    <2>5. ASSUME NEW i \in DOMAIN manifest
          PROVE  manifest[i].source \in {STAGING} \cup {t.hash : t \in Range(input.tracks)}
      <3>1. i \in 1..Len(manifest)
        BY <2>4, SequenceFacts DEF Sourced
      <3>2. CASE manifest[i].source = STAGING
        BY <3>2
      <3>3. CASE \E j \in 1..Len(input.tracks) : manifest[i].source = input.tracks[j].hash
        <4>1. PICK j \in 1..Len(input.tracks) : manifest[i].source = input.tracks[j].hash
          BY <3>3
        <4>2. DOMAIN input.tracks = 1..Len(input.tracks)
          BY <2>1, InputFacts, SequenceFacts
        <4>3. input.tracks[j] \in Range(input.tracks)
          BY <4>2 DEF Range
        <4> QED
          BY <4>1, <4>3
      <3> QED
        BY <2>4, <3>1, <3>2, <3>3 DEF Sourced
    <2> QED
      BY <2>1, <2>2, <2>3, <2>5 DEF TypeOK, PInv, SettledOK, SizeOK, LoadedOK, Phases
  <1> QED
    BY <1>1, LInvHolds, FeedHolds, PInvHolds, RowsStayLong, PTL
-----------------------------------------------------------------------------
(* Paths and the manifest.                                                 *)

\* Files of different kinds, of different tracks and of different names have different paths.
LEMMA PathFacts ==
  /\ \A i, j \in 1..5 : FixedPaths[i] = FixedPaths[j] => i = j
  /\ \A i \in 1..5 : Len(FixedPaths[i]) = 1
  /\ \A id, kind : /\ Len(AnlzFileOf(id, kind)) = 4
                   /\ AnlzFileOf(id, kind) = <<"anlz", (id \div 256) % 1000, id, kind>>
  /\ \A t : Len(ContentsPath(t)) = 3
  /\ \A t, u : ContentsPath(t) = ContentsPath(u) => t.hash = u.hash
  <1>1. FixedPaths = <<<<"export.pdb">>, <<"exportLibrary.db">>, <<"rbDevLibBaInfo">>,
                       <<"DEVSETTING.DAT">>, <<"djprofile.nxs">>>>
    <2> DEFINE a == PdbFile
               b == LibraryFiles[1]
               c == LibraryFiles[2]
               d == AuxFiles[1]
               f == AuxFiles[2]
    <2>1. LibraryFiles = <<b, c>> /\ AuxFiles = <<d, f>>
      BY DEF LibraryFiles, AuxFiles
    <2> HIDE DEF a, b, c, d, f
    <2>2. FixedPaths = <<a>> \o <<b, c>> \o <<d, f>>
      BY <2>1 DEF FixedPaths, a
    <2>3. FixedPaths = <<a, b, c, d, f>>
      BY <2>2, FiveInARow
    <2> QED
      BY <2>3 DEF a, b, c, d, f, PdbFile, LibraryFiles, AuxFiles
  <1>2. \A i \in 1..5 : i = 1 \/ i = 2 \/ i = 3 \/ i = 4 \/ i = 5
    OBVIOUS
  <1>3. \A i, j \in 1..5 : FixedPaths[i] = FixedPaths[j] => i = j
    BY <1>1, <1>2
  <1>4. \A i \in 1..5 : Len(FixedPaths[i]) = 1
    BY <1>1, <1>2
  <1>5. ASSUME NEW a, NEW b, NEW c, NEW d PROVE Append(<<a, b, c>>, d) = <<a, b, c, d>>
    <2> DEFINE s == <<a, b, c>>
               t == Append(s, d)
               u == <<a, b, c, d>>
    <2>1. s \in Seq({a, b, c}) /\ u \in Seq({a, b, c, d})
      OBVIOUS
    <2>2. IsSequence(s) /\ IsSequence(u)
      BY <2>1 DEF IsSequence
    <2>3. /\ Len(s) = 3 /\ s[1] = a /\ s[2] = b /\ s[3] = c
          /\ Len(u) = 4 /\ u[1] = a /\ u[2] = b /\ u[3] = c /\ u[4] = d
      OBVIOUS
    <2> HIDE DEF s, u
    <2>4. /\ IsSequence(t) /\ Len(t) = Len(s) + 1 /\ t[Len(s) + 1] = d
          /\ \A i \in 1..Len(s) : t[i] = s[i]
      BY <2>2, AppendFacts
    <2> HIDE DEF t
    <2>5. Len(t) = 4 /\ t[1] = a /\ t[2] = b /\ t[3] = c /\ t[4] = d
      BY <2>3, <2>4
    <2>6. \A i \in 1..4 : i = 1 \/ i = 2 \/ i = 3 \/ i = 4
      OBVIOUS
    <2>7. \A i \in 1..Len(t) : t[i] = u[i]
      BY <2>3, <2>5, <2>6
    <2>8. t = u
      BY <2>2, <2>3, <2>4, <2>5, <2>7, SameSequence
    <2> QED
      BY <2>8 DEF s, t, u
  <1>6. \A id, kind : AnlzFileOf(id, kind) = <<"anlz", (id \div 256) % 1000, id, kind>>
    BY <1>5 DEF AnlzFileOf, AnlzPath
  <1>7. \A id, kind : Len(AnlzFileOf(id, kind)) = 4
    BY <1>6
  <1>8. /\ \A t : Len(ContentsPath(t)) = 3
        /\ \A t, u : ContentsPath(t) = ContentsPath(u) => t.hash = u.hash
    BY DEF ContentsPath
  <1> QED
    BY <1>3, <1>4, <1>6, <1>7, <1>8

LEMMA AnlzPathsApart ==
  ASSUME NEW a, NEW b, NEW k \in 1..3, NEW l \in 1..3,
         AnlzFileOf(a, Kinds[k]) = AnlzFileOf(b, Kinds[l])
  PROVE  a = b /\ k = l
  <1> DEFINE x == (a \div 256) % 1000
             y == (b \div 256) % 1000
             s == <<"anlz", x, a, Kinds[k]>>
             u == <<"anlz", y, b, Kinds[l]>>
             p == AnlzFileOf(a, Kinds[k])
  <1>1. p = s /\ AnlzFileOf(b, Kinds[l]) = u
    BY PathFacts
  <1> HIDE DEF x, y
  <1>2. s[3] = a /\ u[3] = b /\ s[4] = Kinds[k] /\ u[4] = Kinds[l]
    OBVIOUS
  <1>3. p = u
    BY <1>1
  <1> HIDE DEF s, u, p
  <1>4. a = b /\ Kinds[k] = Kinds[l]
    BY <1>1, <1>2, <1>3
  <1>5. k = 1 \/ k = 2 \/ k = 3
    OBVIOUS
  <1>6. l = 1 \/ l = 2 \/ l = 3
    OBVIOUS
  <1> QED
    BY <1>4, <1>5, <1>6 DEF Kinds

\* A finished manifest: five files, then three for each track, then the audio of each.
ManifestOf(at, n) ==
    /\ n \in Nat /\ at[n + 1] \in Nat /\ IsSequence(manifest)
    /\ Len(manifest) = 5 + (at[n + 1] + n)
    /\ \A i \in 1..5 : manifest[i] = Entry(FixedPaths[i], STAGING)
    /\ \A j \in 1..n : \A k \in 1..3 :
          /\ 5 + (at[j] + k) \in 1..Len(manifest)
          /\ manifest[5 + (at[j] + k)] = Entry(AnlzFileOf(j, Kinds[k]), STAGING)
    /\ \A j \in 1..n :
          /\ (5 + at[n + 1]) + j \in 1..Len(manifest)
          /\ manifest[(5 + at[n + 1]) + j] = Entry(ContentsPath(input.tracks[j]), input.tracks[j].hash)
    /\ \A i \in 1..Len(manifest) :
          \/ i \in 1..5
          \/ \E j \in 1..n : \E k \in 1..3 : i = 5 + (at[j] + k)
          \/ \E j \in 1..n : i = (5 + at[n + 1]) + j

LEMMA ManifestFacts ==
  ASSUME FeedOK, analyses = Loaded, ManifestIs("done"), NEW n, n = Len(input.tracks)
  PROVE  \E at : ManifestOf(at, n)
  <1> DEFINE s == FixedPart
             t == AnlzPart
             u == AudioPart
             st == s \o t
  <1>1. manifest = st \o u
    BY DEF ManifestIs
  <1>2. PICK at : AnlzEntriesOf(at, n, t)
    BY AnlzEntries
  <1>3. /\ IsSplit(at, n) /\ IsSequence(t) /\ Len(t) = at[n + 1]
        /\ \A j \in 1..n : \A k \in 1..3 :
              at[j] + k \in 1..Len(t) /\ t[at[j] + k] = Entry(AnlzFileOf(j, Kinds[k]), STAGING)
        /\ \A i \in 1..Len(t) : \E j \in 1..n : \E k \in 1..3 : i = at[j] + k
    BY <1>2 DEF AnlzEntriesOf
  <1>4. /\ IsSequence(s) /\ Len(s) = 5
        /\ \A i \in 1..5 : s[i] = Entry(FixedPaths[i], STAGING)
    BY FixedEntries
  <1>5. /\ n \in Nat /\ IsSequence(u) /\ Len(u) = n
        /\ \A i \in 1..n : u[i] = Entry(ContentsPath(input.tracks[i]), input.tracks[i].hash)
    <2>1. n \in Nat /\ DOMAIN input.tracks = 1..n
      BY LoadedFacts
    <2>2. /\ u = [i \in 1..n |-> u[i]]
          /\ \A i \in 1..n : u[i] = Entry(ContentsPath(input.tracks[i]), input.tracks[i].hash)
      BY <2>1 DEF AudioPart
    <2> HIDE DEF u
    <2> QED
      BY <2>1, <2>2, SequenceFacts
  <1> DEFINE w == at[n + 1]
  <1>6. w \in Nat
    BY <1>5, <1>3 DEF IsSplit
  <1>w. Len(t) = w
    BY <1>3
  <1> HIDE DEF s, t, u, st, w
  <1>7. /\ IsSequence(st) /\ Len(st) = 5 + w
        /\ \A i \in 1..5 : st[i] = s[i]
        /\ \A i \in 1..w : st[5 + i] = t[i]
    <2>1. Joined(st, s, t)
      BY <1>3, <1>4, JoinFacts DEF st
    <2> QED
      BY <1>w, <1>4, <2>1 DEF Joined
  <1>8. /\ IsSequence(manifest) /\ Len(manifest) = (5 + w) + n
        /\ \A i \in 1..5 + w : manifest[i] = st[i]
        /\ \A i \in 1..n : manifest[(5 + w) + i] = u[i]
    <2>1. Joined(manifest, st, u)
      BY <1>1, <1>5, <1>7, JoinFacts
    <2> QED
      BY <1>5, <1>7, <2>1 DEF Joined
  <1> DEFINE m == Len(manifest)
  <1>m. n \in Nat /\ w \in Nat /\ m = (5 + w) + n
    BY <1>5, <1>6, <1>8
  <1>a. \A x, y \in Nat : /\ (5 + x) + y = 5 + (x + y)
                          /\ \A i \in 1..x : 5 + i \in 1..5 + x /\ 5 + i \in 1..(5 + x) + y
                          /\ \A i \in 1..(5 + x) + y :
                                i > 5 + x => i - (5 + x) \in 1..y /\ i = (5 + x) + (i - (5 + x))
    OBVIOUS
  <1> HIDE DEF m
  <1>9. \A i \in 1..5 : manifest[i] = Entry(FixedPaths[i], STAGING)
    <2>1. \A i \in 1..5 : i \in 1..5 + w
      BY <1>6
    <2> QED
      BY <1>4, <1>7, <1>8, <2>1
  <1>10. ASSUME NEW j \in 1..n, NEW k \in 1..3
         PROVE  /\ 5 + (at[j] + k) \in 1..Len(manifest)
                /\ manifest[5 + (at[j] + k)] = Entry(AnlzFileOf(j, Kinds[k]), STAGING)
    <2> DEFINE i == at[j] + k
    <2>1. i \in 1..w /\ t[i] = Entry(AnlzFileOf(j, Kinds[k]), STAGING)
      BY <1>3, <1>w
    <2> HIDE DEF i
    <2>2. 5 + i \in 1..5 + w /\ 5 + i \in 1..Len(manifest)
      BY ONLY <1>m, <1>a, <2>1 DEF m
    <2>3. manifest[5 + i] = t[i]
      BY <1>7, <1>8, <2>1, <2>2
    <2> QED
      BY <2>1, <2>2, <2>3 DEF i
  <1>11. ASSUME NEW j \in 1..n
         PROVE  /\ (5 + w) + j \in 1..Len(manifest)
                /\ manifest[(5 + w) + j] = Entry(ContentsPath(input.tracks[j]), input.tracks[j].hash)
    BY <1>5, <1>6, <1>8
  <1>12. ASSUME NEW i \in 1..Len(manifest)
         PROVE  \/ i \in 1..5
                \/ \E j \in 1..n : \E k \in 1..3 : i = 5 + (at[j] + k)
                \/ \E j \in 1..n : i = (5 + w) + j
    <2>1. CASE i <= 5
      BY <2>1
    <2>2. CASE i > 5 /\ i <= 5 + w
      <3>1. i - 5 \in 1..Len(t)
        BY <1>w, <1>6, <2>2
      <3>2. PICK j \in 1..n : \E k \in 1..3 : i - 5 = at[j] + k
        BY <1>3, <3>1
      <3>3. PICK k \in 1..3 : i - 5 = at[j] + k
        BY <3>2
      <3>4. i = 5 + (at[j] + k)
        BY <3>1, <3>3
      <3> QED
        BY <3>4
    <2>3. CASE i > 5 + w
      <3> DEFINE j == i - (5 + w)
      <3>1. j \in 1..n /\ i = (5 + w) + j
        BY ONLY <1>m, <1>a, <2>3 DEF m
      <3> HIDE DEF j
      <3> QED
        BY <3>1
    <2> QED
      BY <1>6, <2>1, <2>2, <2>3
  <1>13. Len(manifest) = 5 + (w + n)
    BY ONLY <1>m, <1>a DEF m
  <1>14. ManifestOf(at, n)
    BY <1>5, <1>6, <1>8, <1>9, <1>10, <1>11, <1>12, <1>13 DEF ManifestOf, w
  <1> QED
    BY <1>14

\* No two files of a finished export share a path.
LEMMA PathsApart ==
  ASSUME input \in Inputs, NEW at, NEW n, n = Len(input.tracks), ManifestOf(at, n)
  PROVE  \A i, j \in 1..Len(manifest) : manifest[i].path = manifest[j].path => i = j
  <1> DEFINE path(i) == manifest[i].path
             IsFixed(i) == i \in 1..5
             IsAnlz(i) == \E j \in 1..n : \E k \in 1..3 : i = 5 + (at[j] + k)
             IsAudio(i) == \E j \in 1..n : i = (5 + at[n + 1]) + j
  <1>e. \A p, s : Entry(p, s).path = p
    BY DEF Entry
  <1>0. \A i \in 1..Len(manifest) : IsFixed(i) \/ IsAnlz(i) \/ IsAudio(i)
    BY DEF ManifestOf
  <1>1. \A i : IsFixed(i) => path(i) = FixedPaths[i] /\ Len(path(i)) = 1
    BY <1>e, PathFacts DEF ManifestOf
  <1>2. ASSUME NEW i, IsAnlz(i)
        PROVE  /\ Len(path(i)) = 4
               /\ \E j \in 1..n : \E k \in 1..3 : /\ i = 5 + (at[j] + k)
                                                  /\ path(i) = AnlzFileOf(j, Kinds[k])
    <2>1. PICK j \in 1..n : \E k \in 1..3 : i = 5 + (at[j] + k)
      BY <1>2
    <2>2. PICK k \in 1..3 : i = 5 + (at[j] + k)
      BY <2>1
    <2>3. manifest[i] = Entry(AnlzFileOf(j, Kinds[k]), STAGING)
      BY <2>2 DEF ManifestOf
    <2>4. path(i) = AnlzFileOf(j, Kinds[k])
      BY <1>e, <2>3
    <2>5. Len(path(i)) = 4
      BY <2>4, PathFacts
    <2> QED
      BY <2>2, <2>4, <2>5
  <1>3. ASSUME NEW i, IsAudio(i)
        PROVE  /\ Len(path(i)) = 3
               /\ \E j \in 1..n : /\ i = (5 + at[n + 1]) + j
                                  /\ path(i) = ContentsPath(input.tracks[j])
    <2>1. PICK j \in 1..n : i = (5 + at[n + 1]) + j
      BY <1>3
    <2>2. manifest[i] = Entry(ContentsPath(input.tracks[j]), input.tracks[j].hash)
      BY <2>1 DEF ManifestOf
    <2>3. path(i) = ContentsPath(input.tracks[j])
      BY <1>e, <2>2
    <2> QED
      BY <2>1, <2>3, PathFacts
  <1> SUFFICES ASSUME NEW i \in 1..Len(manifest), NEW j \in 1..Len(manifest), path(i) = path(j)
               PROVE  i = j
    OBVIOUS
  <1> HIDE DEF path, IsFixed, IsAnlz, IsAudio
  <1>4. CASE IsFixed(i) /\ IsFixed(j)
    BY <1>1, <1>4, PathFacts DEF IsFixed
  <1>5. CASE IsAnlz(i) /\ IsAnlz(j)
    <2>1. PICK a \in 1..n : \E k \in 1..3 : i = 5 + (at[a] + k) /\ path(i) = AnlzFileOf(a, Kinds[k])
      BY <1>2, <1>5
    <2>2. PICK k \in 1..3 : i = 5 + (at[a] + k) /\ path(i) = AnlzFileOf(a, Kinds[k])
      BY <2>1
    <2>3. PICK b \in 1..n : \E l \in 1..3 : j = 5 + (at[b] + l) /\ path(j) = AnlzFileOf(b, Kinds[l])
      BY <1>2, <1>5
    <2>4. PICK l \in 1..3 : j = 5 + (at[b] + l) /\ path(j) = AnlzFileOf(b, Kinds[l])
      BY <2>3
    <2>5. AnlzFileOf(a, Kinds[k]) = AnlzFileOf(b, Kinds[l])
      BY <2>2, <2>4
    <2>6. a = b /\ k = l
      BY <2>5, AnlzPathsApart
    <2> QED
      BY <2>2, <2>4, <2>6
  <1>6. CASE IsAudio(i) /\ IsAudio(j)
    <2>1. PICK a \in 1..n : i = (5 + at[n + 1]) + a /\ path(i) = ContentsPath(input.tracks[a])
      BY <1>3, <1>6
    <2>2. PICK b \in 1..n : j = (5 + at[n + 1]) + b /\ path(j) = ContentsPath(input.tracks[b])
      BY <1>3, <1>6
    <2>3. input.tracks[a].hash = input.tracks[b].hash
      BY <2>1, <2>2, PathFacts
    <2>4. a = b
      BY <2>3, TrackFacts
    <2> QED
      BY <2>1, <2>2, <2>4
  <1>7. /\ IsFixed(i) => Len(path(i)) = 1
        /\ IsAnlz(i) => Len(path(i)) = 4
        /\ IsAudio(i) => Len(path(i)) = 3
        /\ IsFixed(j) => Len(path(j)) = 1
        /\ IsAnlz(j) => Len(path(j)) = 4
        /\ IsAudio(j) => Len(path(j)) = 3
    BY <1>1, <1>2, <1>3
  <1>8. Len(path(i)) = Len(path(j))
    OBVIOUS
  <1>9. \A m : Len(path(i)) = m => Len(path(j)) = m
    BY <1>8
  <1>n. 1 # 3 /\ 1 # 4 /\ 3 # 4 /\ 3 # 1 /\ 4 # 1 /\ 4 # 3
    OBVIOUS
  <1>10. IsFixed(i) => ~IsAnlz(j) /\ ~IsAudio(j)
    BY <1>7, <1>8, <1>n, Zenon
  <1>11. IsAnlz(i) => ~IsFixed(j) /\ ~IsAudio(j)
    BY <1>7, <1>8, <1>n, Zenon
  <1>12. IsAudio(i) => ~IsFixed(j) /\ ~IsAnlz(j)
    BY <1>7, <1>8, <1>n, Zenon
  <1>13. IsFixed(i) \/ IsAnlz(i) \/ IsAudio(i)
    BY <1>0
  <1>14. IsFixed(j) \/ IsAnlz(j) \/ IsAudio(j)
    BY <1>0
  <1> QED
    BY <1>4, <1>5, <1>6, <1>10, <1>11, <1>12, <1>13, <1>14

\* Where the bytes of a path come from.
SourcesOf(path) ==
    {e.source : e \in {manifest[i] : i \in {k \in DOMAIN manifest : manifest[k].path = path}}}

LEMMA OneSource ==
  ASSUME IsSequence(manifest),
         \A i, j \in 1..Len(manifest) : manifest[i].path = manifest[j].path => i = j,
         NEW i \in 1..Len(manifest), NEW path, NEW source, manifest[i] = Entry(path, source)
  PROVE  SourcesOf(path) = {source}
  <1>1. DOMAIN manifest = 1..Len(manifest)
    BY SequenceFacts
  <1>2. manifest[i].path = path /\ manifest[i].source = source
    BY DEF Entry
  <1>3. {k \in DOMAIN manifest : manifest[k].path = path} = {i}
    BY <1>1, <1>2
  <1> QED
    BY <1>2, <1>3 DEF SourcesOf

\* The files of a track are there, and say where its audio is.
LEMMA AnlzFilesLead ==
  ASSUME FeedOK, analyses = Loaded, NEW i \in 1..Len(input.tracks), NEW k \in 1..3
  PROVE  /\ AnlzFileOf(i, Kinds[k]) \in DOMAIN AnlzFiles
         /\ AnlzFiles[AnlzFileOf(i, Kinds[k])].path = analyses[i].path
  <1> DEFINE paths == {AnlzFileOf(a.id, kind) : a \in Range(analyses), kind \in Range(Kinds)}
             file(j, l) == <<DatFile(analyses[j]), ExtFile(analyses[j]), TwoExFile(analyses[j])>>[l]
             LeadsTo(jl, p) == AnlzFileOf(analyses[jl[1]].id, Kinds[jl[2]]) = p
             at(p) == CHOOSE jl \in (DOMAIN analyses) \X (DOMAIN Kinds) : LeadsTo(jl, p)
             q == AnlzFileOf(i, Kinds[k])
  <1>1. AnlzFiles = [p \in paths |-> file(at(p)[1], at(p)[2])]
    BY DEF AnlzFiles
  <1>2. /\ DOMAIN analyses = 1..Len(input.tracks) /\ DOMAIN Kinds = 1..3
        /\ \A j \in 1..Len(input.tracks) : analyses[j].id = j
    <2>1. DOMAIN Kinds = 1..3
      BY DEF Kinds
    <2> QED
      BY <2>1, LoadedFacts
  <1>3. q \in paths
    <2>1. analyses[i] \in Range(analyses) /\ Kinds[k] \in Range(Kinds) /\ analyses[i].id = i
      BY <1>2 DEF Range
    <2> QED
      BY <2>1
  <1>4. at(q) \in (1..Len(input.tracks)) \X (1..3) /\ LeadsTo(at(q), q)
    <2> DEFINE ik == <<i, k>>
    <2>1. ik \in (DOMAIN analyses) \X (DOMAIN Kinds) /\ LeadsTo(ik, q)
      BY <1>2
    <2> HIDE DEF ik, LeadsTo, q
    <2> QED
      BY <1>2, <2>1
  <1> HIDE DEF at
  <1>5. at(q)[1] = i /\ at(q)[2] \in 1..3
    <2>1. at(q)[1] \in 1..Len(input.tracks) /\ at(q)[2] \in 1..3
      BY <1>4
    <2>2. AnlzFileOf(at(q)[1], Kinds[at(q)[2]]) = AnlzFileOf(i, Kinds[k])
      BY <1>2, <1>4, <2>1
    <2> QED
      BY <2>1, <2>2, AnlzPathsApart
  <1>6. \A l \in 1..3 : file(i, l).path = analyses[i].path
    <2>1. \A p, s : File(p, s).path = p
      BY DEF File
    <2>2. /\ DatFile(analyses[i]).path = analyses[i].path
          /\ ExtFile(analyses[i]).path = analyses[i].path
          /\ TwoExFile(analyses[i]).path = analyses[i].path
      BY <2>1 DEF DatFile, ExtFile, TwoExFile
    <2>3. \A l \in 1..3 : l = 1 \/ l = 2 \/ l = 3
      OBVIOUS
    <2> QED
      BY <2>2, <2>3
  <1> HIDE DEF file, q, paths
  <1>7. AnlzFiles[q] = file(i, at(q)[2]) /\ q \in DOMAIN AnlzFiles
    BY <1>1, <1>3, <1>5
  <1> QED
    BY <1>5, <1>6, <1>7 DEF q

\* What a player reads in a row of the track table.
LEMMA TrackRowSays ==
  ASSUME NEW t
  PROVE  /\ Meant(TrackRow(t)).ids.id = t.analysis.id
         /\ Meant(TrackRow(t)).ids.artist = t.artist
         /\ Meant(TrackRow(t)).names[15] = t.analysis.analyzePath
         /\ Meant(TrackRow(t)).names[18] = t.analysis.title
         /\ Meant(TrackRow(t)).names[20] = FileName(t.analysis.path)
         /\ Meant(TrackRow(t)).names[21] = t.analysis.path
  <1> DEFINE a == t.analysis
             s == TrackStrings(a)
             row == TrackRow(t)
             n == 21
  <1>1. /\ row.strings = Encode(s)
        /\ row.ids = [id |-> a.id, artist |-> t.artist, album |-> t.album, genre |-> t.genre,
                      label |-> t.label, key |-> t.key, artwork |-> t.artwork]
    BY DEF TrackRow, Row
  <1>2. /\ DOMAIN s = 1..n /\ s[15] = a.analyzePath /\ s[18] = a.title
        /\ s[20] = FileName(a.path) /\ s[21] = a.path
    BY DEF TrackStrings, STRING_COUNT
  <1> HIDE DEF s, row, a
  <1>3. \A i \in 1..n : i \in DOMAIN row.strings /\ row.strings[i].of = s[i]
    <2>1. \A x : EncodeString(x).of = x
      <3>1. \A head, size, x : Encoded(head, size, x).of = x
        BY DEF Encoded
      <3> QED
        BY <3>1, SMT DEF EncodeString
    <2>2. \A i \in 1..n : i \in DOMAIN row.strings /\ row.strings[i] = EncodeString(s[i])
      BY <1>1, <1>2 DEF Encode
    <2> QED
      BY <2>1, <2>2
  <1>4. \A i \in 1..n : Meant(row).names[i] = s[i]
    BY <1>3 DEF Meant
  <1>5. Meant(row).ids.id = a.id /\ Meant(row).ids.artist = t.artist
    BY <1>1 DEF Meant
  <1> QED
    BY <1>2, <1>4, <1>5 DEF row, a
-----------------------------------------------------------------------------
(* A finished export, as the two databases are read.                       *)

\* A finished export.
LEMMA DoneFacts ==
  ASSUME LInv, PInv, FeedOK, phase = "done"
  PROVE  /\ stage = "built" /\ analyses = Loaded /\ lists = SortedPlaylists
         /\ library = BuildExportLibrary /\ anlz = AnlzFiles /\ ManifestIs("done")
         /\ Len(db.tracks) = Len(input.tracks) /\ Len(db.playlists) = Len(lists)
  <1>1. /\ stage = "built" /\ analyses = Loaded /\ lists = SortedPlaylists
        /\ library = BuildExportLibrary /\ anlz = AnlzFiles /\ ManifestIs("done")
    BY DEF LInv, LoadedOK, FilesOK
  <1>2. Len(db.tracks) = Len(analyses) /\ Len(db.playlists) = Len(lists)
    BY <1>1 DEF PInv, SettledOK
  <1>3. Len(analyses) = Len(input.tracks)
    BY <1>1, LoadedFacts
  <1> QED
    BY <1>1, <1>2, <1>3

\* What a player reads in the track table of a finished export.
LEMMA TracksRead ==
  ASSUME LInv, PInv, FeedOK, EveryRowIsRead, phase = "done"
  PROVE  /\ Len(ReadTable(0)) = Len(input.tracks) /\ DOMAIN ReadTable(0) = 1..Len(input.tracks)
         /\ \A i \in 1..Len(input.tracks) :
               /\ ReadTable(0)[i].ids.id = i
               /\ ReadTable(0)[i].ids.artist = db.tracks[i].artist
               /\ db.tracks[i].analysis = analyses[i]
               /\ ReadTable(0)[i].names[15] = RowAnlzPath(i)
               /\ ReadTable(0)[i].names[18] = analyses[i].title
               /\ ReadTable(0)[i].names[20] = FileName(analyses[i].path)
               /\ ReadTable(0)[i].names[21] = analyses[i].path
  <1> DEFINE n == Len(input.tracks)
             r == ReadTable(0)
  <1>1. stage = "built" /\ analyses = Loaded /\ Len(db.tracks) = n
    BY DoneFacts
  <1>2. r = [i \in 1..n |-> Meant(TrackRow(db.tracks[i]))]
    BY <1>1, NamesAreRead
  <1>3. n \in Nat
    BY <1>1, LoadedFacts
  <1>4. \A i \in 1..n : db.tracks[i].analysis = analyses[i]
    BY <1>1 DEF LInv, DbFollows
  <1>5. \A i \in 1..n : analyses[i].id = i /\ analyses[i].analyzePath = RowAnlzPath(i)
    BY <1>1, LoadedFacts
  <1> HIDE DEF r, n
  <1>6. DOMAIN r = 1..n /\ \A i \in 1..n : r[i] = Meant(TrackRow(db.tracks[i]))
    BY <1>2
  <1>7. Len(r) = n
    BY <1>2, <1>3
  <1>8. ASSUME NEW i \in 1..n
        PROVE  /\ r[i].ids.id = i /\ r[i].ids.artist = db.tracks[i].artist
               /\ r[i].names[15] = RowAnlzPath(i)
               /\ r[i].names[18] = analyses[i].title
               /\ r[i].names[20] = FileName(analyses[i].path)
               /\ r[i].names[21] = analyses[i].path
    <2> DEFINE t == db.tracks[i]
    <2>1. r[i] = Meant(TrackRow(t)) /\ t.analysis = analyses[i]
      BY <1>4, <1>6
    <2> HIDE DEF t
    <2>2. /\ r[i].ids.id = t.analysis.id /\ r[i].ids.artist = t.artist
          /\ r[i].names[15] = t.analysis.analyzePath /\ r[i].names[18] = t.analysis.title
          /\ r[i].names[20] = FileName(t.analysis.path) /\ r[i].names[21] = t.analysis.path
      BY <2>1, TrackRowSays
    <2> QED
      BY <1>5, <2>1, <2>2 DEF t
  <1> QED
    BY <1>4, <1>6, <1>7, <1>8 DEF r, n

LEMMA FirstThree ==
  ASSUME NEW a, NEW b, NEW c, NEW d
  PROVE  SubSeq(<<a, b, c, d>>, 1, 3) = <<a, b, c>>
  <1> DEFINE s == <<a, b, c, d>>
             u == <<a, b, c>>
  <1>1. /\ s \in Seq({a, b, c, d}) /\ u \in Seq({a, b, c}) /\ Len(s) = 4 /\ Len(u) = 3
        /\ s[1] = a /\ s[2] = b /\ s[3] = c /\ u[1] = a /\ u[2] = b /\ u[3] = c
    OBVIOUS
  <1> HIDE DEF s, u
  <1>2. u = [i \in 1..3 |-> u[i]]
    BY <1>1
  <1>3. \A i \in 1..3 : u[i] = s[i]
    <2>1. \A i \in 1..3 : i = 1 \/ i = 2 \/ i = 3
      OBVIOUS
    <2> QED
      BY <1>1, <2>1
  <1>4. SubSeq(s, 1, 3) = [i \in 1..3 |-> s[i]]
    <2>1. SubSeq(s, 1, 3) = [i \in 1..(1 + 3 - 1) |-> s[i + 1 - 1]]
      BY <1>1
    <2> QED
      BY <2>1
  <1> QED
    BY <1>2, <1>3, <1>4 DEF s, u

\* The references of a finished export are on the stick.
LEMMA ReferencesThere ==
  ASSUME LInv, PInv, FeedOK, EveryRowIsRead
  PROVE  ReferencesOnStick
  <1> SUFFICES ASSUME phase = "done" PROVE ReferencesOnStick
    BY DEF ReferencesOnStick
  <1> DEFINE n == Len(input.tracks)
             r == ReadTable(0)
  <1>1. /\ analyses = Loaded /\ anlz = AnlzFiles /\ ManifestIs("done") /\ input \in Inputs
    BY DoneFacts DEF FeedOK
  <1>2. PICK at : ManifestOf(at, n)
    BY <1>1, ManifestFacts
  <1>3. /\ IsSequence(manifest)
        /\ \A i, j \in 1..Len(manifest) : manifest[i].path = manifest[j].path => i = j
    <2>1. input \in Inputs /\ n = Len(input.tracks)
      BY <1>1
    <2>2. ManifestOf(at, n)
      BY <1>2
    <2>3. IsSequence(manifest)
      BY <2>2 DEF ManifestOf
    <2> HIDE DEF n
    <2>4. \A i, j \in 1..Len(manifest) : manifest[i].path = manifest[j].path => i = j
      BY <2>1, <2>2, PathsApart
    <2> QED
      BY <2>3, <2>4
  <1>4. DOMAIN manifest = 1..Len(manifest) /\ Len(manifest) \in Nat
    BY <1>3, SequenceFacts
  <1>5. Cardinality({manifest[i].path : i \in DOMAIN manifest}) = Len(manifest)
    <2> DEFINE D == 1..Len(manifest)
               P == {manifest[i].path : i \in D}
               f == [i \in D |-> manifest[i].path]
    <2>1. IsFiniteSet(D) /\ Cardinality(D) = Len(manifest)
      BY <1>4, IntervalFacts
    <2>2. f \in [D -> P] /\ (\A p \in P : \E i \in D : f[i] = p) /\ \A i, j \in D : f[i] = f[j] => i = j
      BY <1>3
    <2> HIDE DEF D, P, f
    <2>3. f \in Bijection(D, P)
      BY <2>2 DEF Bijection, Injection, Surjection, IsInjective
    <2>4. ExistsBijection(D, P)
      BY <2>3 DEF ExistsBijection
    <2>5. Cardinality(P) = Cardinality(D)
      BY <2>1, <2>4, FS_Bijection
    <2> QED
      BY <1>4, <2>1, <2>5 DEF D, P
  <1>6. /\ DOMAIN r = 1..n
        /\ \A i \in 1..n : r[i].names[15] = RowAnlzPath(i) /\ r[i].names[21] = analyses[i].path
    BY TracksRead
  <1>7. \A i \in 1..n :
           analyses[i].path = [id |-> ContentsPath(input.tracks[i]), len |-> 30, wide |-> FALSE]
    BY <1>1, LoadedFacts
  <1>n. n = Len(input.tracks)
    OBVIOUS
  <1> HIDE DEF r, n
  <1>8. ASSUME NEW i \in 1..n
        PROVE  LET audio == r[i].names[21]
                   dat == r[i].names[15].id
               IN  /\ SourcesOf(audio.id) = {input.tracks[i].hash}
                   /\ \A k \in Range(Kinds) :
                         LET file == Append(Front(dat), k)
                         IN  /\ SourcesOf(file) = {STAGING}
                             /\ file \in DOMAIN anlz /\ anlz[file].path = audio
    <2> DEFINE audio == r[i].names[21]
               dat == r[i].names[15].id
    <2>1. audio = analyses[i].path /\ dat = AnlzFileOf(i, "DAT")
      <3>1. r[i].names[15] = RowAnlzPath(i) /\ r[i].names[21] = analyses[i].path
        BY <1>6
      <3>2. RowAnlzPath(i).id = AnlzFileOf(i, "DAT")
        BY DEF RowAnlzPath
      <3> QED
        BY <3>1, <3>2
    <2> HIDE DEF audio, dat
    <2>2. audio.id = ContentsPath(input.tracks[i])
      <3>1. audio = [id |-> ContentsPath(input.tracks[i]), len |-> 30, wide |-> FALSE]
        BY <1>7, <2>1
      <3> QED
        BY <3>1
    <2>3. SourcesOf(audio.id) = {input.tracks[i].hash}
      <3> DEFINE m == (5 + at[n + 1]) + i
      <3>1. /\ m \in 1..Len(manifest)
            /\ manifest[m] = Entry(ContentsPath(input.tracks[i]), input.tracks[i].hash)
        BY <1>2 DEF ManifestOf
      <3> HIDE DEF m
      <3> QED
        BY <1>3, <2>2, <3>1, OneSource
    <2>4. Front(dat) = AnlzPath(i)
      <3> DEFINE x == (i \div 256) % 1000
                 s == <<"anlz", x, i, "DAT">>
                 u == <<"anlz", x, i>>
      <3>1. dat = s /\ AnlzPath(i) = u
        BY <2>1, PathFacts DEF AnlzPath
      <3> HIDE DEF x
      <3>2. Front(s) = u
        <4>1. Len(s) = 4
          OBVIOUS
        <4>2. Front(s) = SubSeq(s, 1, 3)
          BY <4>1 DEF Front
        <4>3. SubSeq(s, 1, 3) = u
          BY FirstThree
        <4> QED
          BY <4>2, <4>3
      <3> QED
        BY <3>1, <3>2
    <2>5. ASSUME NEW l \in 1..3
          PROVE  LET file == Append(Front(dat), Kinds[l])
                 IN  /\ SourcesOf(file) = {STAGING}
                     /\ file \in DOMAIN anlz /\ anlz[file].path = audio
      <3> DEFINE file == Append(Front(dat), Kinds[l])
      <3>1. file = AnlzFileOf(i, Kinds[l])
        BY <2>4 DEF AnlzFileOf
      <3>2. SourcesOf(file) = {STAGING}
        <4> DEFINE m == 5 + (at[i] + l)
        <4>1. /\ m \in 1..Len(manifest)
              /\ manifest[m] = Entry(AnlzFileOf(i, Kinds[l]), STAGING)
          BY <1>2 DEF ManifestOf
        <4> HIDE DEF m
        <4> QED
          BY <1>3, <3>1, <4>1, OneSource
      <3>3. file \in DOMAIN anlz /\ anlz[file].path = audio
        <4>1. i \in 1..Len(input.tracks)
          BY <1>n
        <4>2. /\ AnlzFileOf(i, Kinds[l]) \in DOMAIN AnlzFiles
              /\ AnlzFiles[AnlzFileOf(i, Kinds[l])].path = analyses[i].path
          BY <1>1, <4>1, AnlzFilesLead
        <4> HIDE DEF file
        <4> QED
          BY <1>1, <2>1, <3>1, <4>2
      <3> QED
        BY <3>2, <3>3
    <2>6. \A k \in Range(Kinds) : \E l \in 1..3 : k = Kinds[l]
      BY DEF Range, Kinds
    <2>7. ASSUME NEW k \in Range(Kinds)
          PROVE  LET file == Append(Front(dat), k)
                 IN  /\ SourcesOf(file) = {STAGING}
                     /\ file \in DOMAIN anlz /\ anlz[file].path = audio
      BY <2>5, <2>6
    <2> QED
      BY <2>3, <2>7 DEF audio, dat
  <1>9. \A path : SourcesOf(path) =
           {e.source : e \in {manifest[i] : i \in {k \in DOMAIN manifest : manifest[k].path = path}}}
    BY DEF SourcesOf
  <1> DEFINE Sources(path) ==
               {e.source : e \in {manifest[i] : i \in
                   {k \in DOMAIN manifest : manifest[k].path = path}}}
             AllThere(i) ==
               LET audio == r[i].names[21]
                   dat == r[i].names[15].id
               IN  /\ Sources(audio.id) = {input.tracks[i].hash}
                   /\ \A k \in Range(Kinds) :
                         LET file == Append(Front(dat), k)
                         IN  /\ Sources(file) = {STAGING}
                             /\ file \in DOMAIN anlz /\ anlz[file].path = audio
  <1>10. \A path : Sources(path) = SourcesOf(path)
    BY <1>9
  <1> HIDE DEF Sources
  <1>11. \A i \in DOMAIN r : AllThere(i)
    BY <1>6, <1>8, <1>10
  <1> HIDE DEF AllThere
  <1>12. phase = "done" => /\ Cardinality({manifest[i].path : i \in DOMAIN manifest}) = Len(manifest)
                           /\ \A i \in DOMAIN r : AllThere(i)
    BY <1>5, <1>11
  <1> QED
    BY <1>12 DEF ReferencesOnStick, r, AllThere, Sources

\* What is read of the table of artists in a finished file.
LEMMA ArtistsAreRead ==
  ASSUME FeedOK, EveryRowIsRead, stage = "built"
  PROVE  ReadTable(2) = [i \in 1..Len(db.artists) |->
                            [ids |-> [id |-> i], names |-> <<db.artists[i]>>]]
  <1> DEFINE s == db.artists
             rows == ArtistRows
             two == 2
  <1>1. ReadTable(two) = [i \in DOMAIN TableRows(two) |-> Meant(TableRows(two)[i])]
    <2>1. two \in 0..NumTables - 1
      BY DEF NumTables
    <2> HIDE DEF two
    <2> QED
      BY <2>1 DEF EveryRowIsRead
  <1>2. DOMAIN s = 1..Len(s)
    BY SequenceFacts DEF FeedOK, DbOK, GoodDb, GoodNames
  <1>3. TableRows(two) = rows
    BY DEF TableRows
  <1>4. DOMAIN rows = DOMAIN s
    BY DEF ArtistRows
  <1>5. ASSUME NEW i \in DOMAIN s
        PROVE  Meant(rows[i]) = [ids |-> [id |-> i], names |-> <<s[i]>>]
    <2> DEFINE x == [id |-> i]
               h == 10
    <2>1. rows[i] = OffsetNameRow(h, x, s[i])
      BY DEF ArtistRows
    <2> HIDE DEF x, h, rows, s
    <2>2. Meant(rows[i]) = [ids |-> x, names |-> <<s[i]>>]
      BY <2>1, NameRowSays
    <2> QED
      BY <2>2 DEF x
  <1> HIDE DEF s, rows, two
  <1>6. ReadTable(two) = [i \in 1..Len(s) |-> [ids |-> [id |-> i], names |-> <<s[i]>>]]
    BY <1>1, <1>2, <1>3, <1>4, <1>5
  <1> QED
    BY <1>6 DEF s, two

\* Every artist has a row in the device library, and its id leads there.
LEMMA LibraryArtistsFacts ==
  ASSUME IsSequence(analyses), NEW i \in 1..Len(analyses)
  PROVE  LibraryArtists[IdOf(LibraryArtists, analyses[i].artist)] = analyses[i].artist
  <1> DEFINE n == Len(analyses)
             A == {analyses[k].artist : k \in 1..n}
             V == Seq(A)
             Next1(k, v) == GetOrCreate(v, analyses[k].artist)
             step == [k \in 1..n |-> [v \in V |-> Next1(k, v)]]
             P(f) == f = [k \in 0..n |-> IF k = 0 THEN <<>> ELSE Next1(k, f[k - 1])]
             names == CHOOSE f : P(f)
             none == <<>>
  <1>1. n \in Nat
    BY SequenceFacts
  <1>2. none \in V
    OBVIOUS
  <1>3. \A k \in 1..n : \A v \in V : Next1(k, v) \in V
    <2>1. \A k \in 1..n : analyses[k].artist \in A
      OBVIOUS
    <2> HIDE DEF A
    <2>2. \A a \in A : \A v \in V : Append(v, a) \in V
      OBVIOUS
    <2> HIDE DEF V
    <2> QED
      BY <2>1, <2>2 DEF GetOrCreate
  <1>4. LibraryArtists = names[n]
    BY DEF LibraryArtists
  <1>v. \A v \in V : IsSequence(v)
    <2> HIDE DEF A
    <2>1. \A v \in V : v \in Seq(A)
      OBVIOUS
    <2> HIDE DEF V
    <2>2. ASSUME NEW v \in V PROVE IsSequence(v)
      <3>1. v \in Seq(A)
        BY <2>1
      <3> QED
        BY <3>1 DEF IsSequence
    <2> QED
      BY <2>2
  <1> HIDE DEF V, Next1, none, n
  <1>6. step \in [1..n -> [V -> V]]
    BY <1>3
  <1>7. PICK h \in [0..n -> V] : Unrolls(h, n, none, step)
    BY <1>1, <1>2, <1>6, Recursion
  <1>8. P(h)
    <2>1. h[0] = <<>> /\ \A k \in 1..n : h[k] = step[k][h[k - 1]]
      BY <1>7 DEF Unrolls, none
    <2>2. ASSUME NEW k \in 0..n PROVE h[k] = IF k = 0 THEN <<>> ELSE Next1(k, h[k - 1])
      <3>1. CASE k = 0
        BY <2>1, <3>1
      <3>2. CASE k # 0
        <4>1. k \in 1..n /\ k - 1 \in 0..n
          BY <1>1, <3>2
        <4>2. h[k - 1] \in V
          BY <1>7, <4>1
        <4> QED
          BY <2>1, <3>2, <4>1, <4>2
      <3> QED
        BY <3>1, <3>2
    <2> QED
      BY <1>7, <2>2
  <1> HIDE DEF P
  <1>9. P(names)
    BY <1>8
  <1> HIDE DEF names
  <1>10. \A k \in 0..n : names[k] = IF k = 0 THEN <<>> ELSE Next1(k, names[k - 1])
    BY <1>9 DEF P
  <1> DEFINE Has(v, k) == \E j \in 1..Len(v) : v[j] = analyses[k].artist
             S == {k \in Nat : k <= n => names[k] \in V /\ \A m \in 1..k : Has(names[k], m)}
  <1>11. 0 \in S
    <2>1. names[0] = <<>>
      BY <1>1, <1>10
    <2> QED
      BY <1>2, <2>1 DEF none
  <1>12. ASSUME NEW k \in Nat, k \in S PROVE k + 1 \in S
    <2>1. CASE k + 1 <= n
      <3> DEFINE s == names[k]
                 t == names[k + 1]
                 x == analyses[k + 1].artist
      <3>1. k + 1 \in 1..n /\ k + 1 \in 0..n /\ k + 1 # 0 /\ (k + 1) - 1 = k /\ k <= n
        BY <1>1, <2>1
      <3>2. s \in V /\ \A m \in 1..k : Has(s, m)
        BY <1>12, <3>1
      <3>3. t = Next1(k + 1, s)
        BY <1>10, <3>1
      <3>4. t \in V
        BY <1>3, <3>1, <3>2, <3>3
      <3>5. IsSequence(s) /\ t = GetOrCreate(s, x)
        BY <1>v, <3>2, <3>3 DEF Next1
      <3> HIDE DEF s, t, x
      <3>6. /\ Grows(s, t) /\ IdOf(t, x) \in 1..Len(t) /\ t[IdOf(t, x)] = x
        BY <3>5, GetOrCreateFacts
      <3>7. Len(s) \in Nat /\ Len(t) \in Nat
        BY <1>v, <3>2, <3>4, SequenceFacts
      <3>8. \A j \in 1..Len(s) : j \in 1..Len(t) /\ t[j] = s[j]
        BY <3>6, <3>7 DEF Grows
      <3>9. \A m \in 1..k : Has(t, m)
        BY <3>2, <3>8
      <3>10. Has(t, k + 1)
        BY <3>6 DEF x
      <3>11. \A m \in 1..(k + 1) : m \in 1..k \/ m = k + 1
        OBVIOUS
      <3> HIDE DEF Has
      <3>12. \A m \in 1..(k + 1) : Has(t, m)
        BY <3>9, <3>10, <3>11
      <3> QED
        BY <3>4, <3>12 DEF t
    <2> QED
      BY <2>1
  <1> HIDE DEF S
  <1>13. \A k \in Nat : k \in S
    BY <1>11, <1>12, Induction
  <1> DEFINE all == names[n]
             x == analyses[i].artist
  <1>14. all \in V /\ Has(all, i)
    <2>1. n \in S /\ i \in 1..n
      BY <1>1, <1>13 DEF n
    <2> HIDE DEF Has
    <2> QED
      BY <1>1, <2>1 DEF S
  <1>15. DOMAIN all = 1..Len(all)
    BY <1>v, <1>14, SequenceFacts
  <1> HIDE DEF all
  <1>16. \E j \in DOMAIN all : all[j] = x
    BY <1>14, <1>15
  <1>17. all[IdOf(all, x)] = x
    BY <1>16 DEF IdOf
  <1> QED
    BY <1>4, <1>17 DEF all

\* Both databases show the same tracks.
LEMMA TracksSame ==
  ASSUME LInv, PInv, FeedOK, EveryRowIsRead
  PROVE  TracksAgree
  <1> SUFFICES ASSUME phase = "done" PROVE TracksAgree
    BY DEF TracksAgree
  <1> DEFINE n == Len(input.tracks)
             tracks == ReadTable(0)
             artists == ReadTable(2)
             c(i) == library.content[i]
  <1>1. /\ stage = "built" /\ analyses = Loaded /\ library = BuildExportLibrary
        /\ Len(db.tracks) = n /\ input \in Inputs
    BY DoneFacts DEF FeedOK
  <1>2. n \in Nat /\ Len(analyses) = n /\ DOMAIN analyses = 1..n
    BY <1>1, LoadedFacts
  <1>3. /\ library.artists = LibraryArtists /\ library.content = LibraryContent
        /\ library.numberOfContents = Len(analyses)
    BY <1>1 DEF BuildExportLibrary
  <1>4. Len(tracks) = n /\ DOMAIN tracks = 1..n
    BY TracksRead
  <1>5. artists = [i \in 1..Len(db.artists) |-> [ids |-> [id |-> i], names |-> <<db.artists[i]>>]]
    BY <1>1, ArtistsAreRead
  <1>6. \A j \in 1..Len(db.artists) : artists[j].names[1] = db.artists[j]
    BY <1>5
  <1>n. n = Len(input.tracks)
    OBVIOUS
  <1> HIDE DEF tracks, artists, n, c
  <1>7. ASSUME NEW i \in 1..n
        PROVE  /\ tracks[i].ids.id = c(i).id
               /\ <<tracks[i].names[15], tracks[i].names[18], tracks[i].names[20], tracks[i].names[21]>>
                     = <<c(i).anlz, c(i).title, c(i).file, c(i).path>>
               /\ library.artists[c(i).artist]
                     = IF tracks[i].ids.artist = 0 THEN NoString
                       ELSE artists[tracks[i].ids.artist].names[1]
    <2> DEFINE a == analyses[i]
               x == a.artist
               id == tracks[i].ids.artist
    <2>1. i \in 1..Len(input.tracks)
      BY <1>n
    <2>2. /\ tracks[i].ids.id = i /\ id = db.tracks[i].artist
          /\ db.tracks[i].analysis = a
          /\ tracks[i].names[15] = RowAnlzPath(i) /\ tracks[i].names[18] = a.title
          /\ tracks[i].names[20] = FileName(a.path) /\ tracks[i].names[21] = a.path
      BY <2>1, TracksRead DEF tracks
    <2>3. /\ a.id = i /\ a.analyzePath = RowAnlzPath(i) /\ x = input.tracks[i].artist
      BY <1>1, <2>1, LoadedFacts
    <2>4. c(i) = [id |-> a.id, title |-> a.title, artist |-> IdOf(LibraryArtists, x),
                  path |-> a.path, file |-> FileName(a.path), anlz |-> a.analyzePath]
      BY <1>2, <1>3 DEF LibraryContent, c
    <2> HIDE DEF a, x
    <2>5. /\ c(i).id = a.id /\ c(i).title = a.title /\ c(i).artist = IdOf(LibraryArtists, x)
          /\ c(i).path = a.path /\ c(i).file = FileName(a.path) /\ c(i).anlz = a.analyzePath
      BY <2>4
    <2>6. library.artists[c(i).artist] = x
      <3>1. IsSequence(analyses) /\ i \in 1..Len(analyses)
        BY <1>2 DEF FeedOK
      <3>2. LibraryArtists[IdOf(LibraryArtists, x)] = x
        BY <3>1, LibraryArtistsFacts DEF a, x
      <3> QED
        BY <1>3, <2>5, <3>2
    <2>7. x = IF id = 0 THEN NoString ELSE artists[id].names[1]
      <3>1. Leads(db.artists, id, x)
        <4>1. TrackOK(db, db.tracks[i])
          BY <1>1 DEF FeedOK, DbOK, GoodDb
        <4> QED
          BY <2>2, <4>1 DEF TrackOK, x
      <3> HIDE DEF id
      <3>2. CASE x.len = 0
        <4>1. x = NoString
          BY <1>1, <2>1, <2>3, <3>2, TrackFacts
        <4> QED
          BY <3>1, <3>2, <4>1 DEF Leads
      <3>3. CASE x.len # 0
        <4>1. id \in 1..Len(db.artists) /\ db.artists[id] = x
          BY <3>1, <3>3 DEF Leads
        <4>2. id # 0
          BY <4>1
        <4> QED
          BY <1>6, <4>1, <4>2
      <3> QED
        BY <3>2, <3>3
    <2> HIDE DEF id
    <2> QED
      BY <2>2, <2>3, <2>5, <2>6, <2>7 DEF id
  <1>8. Len(tracks) = library.numberOfContents
    BY <1>2, <1>3, <1>4
  <1> DEFINE Same(i) ==
               LET r == tracks[i]
                   d == library.content[i]
               IN  /\ r.ids.id = d.id
                   /\ <<r.names[15], r.names[18], r.names[20], r.names[21]>>
                         = <<d.anlz, d.title, d.file, d.path>>
                   /\ library.artists[d.artist]
                         = IF r.ids.artist = 0 THEN NoString ELSE artists[r.ids.artist].names[1]
  <1>9. \A i \in DOMAIN tracks : Same(i)
    BY <1>4, <1>7 DEF c
  <1> HIDE DEF Same
  <1> QED
    BY <1>8, <1>9 DEF TracksAgree, Same, tracks, artists
-----------------------------------------------------------------------------
(* Playlists.                                                              *)

\* The members of a playlist that are exported, among the first n.
KeptOf(hashes, n) == {k \in 1..n : \E t \in Range(input.tracks) : t.hash = hashes[k]}

LEMMA KeptFacts ==
  ASSUME NEW hashes, NEW k \in Nat
  PROVE  /\ KeptOf(hashes, 0) = {}
         /\ KeptOf(hashes, k + 1) =
               IF Exported(hashes[k + 1]) THEN KeptOf(hashes, k) \cup {k + 1} ELSE KeptOf(hashes, k)
         /\ k + 1 \notin KeptOf(hashes, k)
         /\ IsFiniteSet(KeptOf(hashes, k)) /\ Cardinality(KeptOf(hashes, k)) \in Nat
  <1>1. KeptOf(hashes, 0) = {}
    BY DEF KeptOf
  <1>2. \A j : j \in 1..(k + 1) <=> j \in 1..k \/ j = k + 1
    OBVIOUS
  <1>3. \A n, j : j \in KeptOf(hashes, n) <=> j \in 1..n /\ Exported(hashes[j])
    BY DEF KeptOf, Exported
  <1>4. KeptOf(hashes, k + 1) =
           IF Exported(hashes[k + 1]) THEN KeptOf(hashes, k) \cup {k + 1} ELSE KeptOf(hashes, k)
    <2>1. CASE Exported(hashes[k + 1])
      <3>1. \A j : j \in KeptOf(hashes, k + 1) <=> j \in KeptOf(hashes, k) \cup {k + 1}
        BY <1>2, <1>3, <2>1
      <3>2. KeptOf(hashes, k + 1) = KeptOf(hashes, k) \cup {k + 1}
        BY <3>1
      <3> QED
        BY <2>1, <3>2
    <2>2. CASE ~Exported(hashes[k + 1])
      <3>1. \A j : j \in KeptOf(hashes, k + 1) <=> j \in KeptOf(hashes, k)
        BY <1>2, <1>3, <2>2
      <3>2. KeptOf(hashes, k + 1) = KeptOf(hashes, k)
        BY <3>1
      <3> QED
        BY <2>2, <3>2
    <2> QED
      BY <2>1, <2>2
  <1>5. k + 1 \notin KeptOf(hashes, k)
    <2>1. ~(k + 1 \in 1..k)
      OBVIOUS
    <2> QED
      BY <1>3, <2>1
  <1>6. KeptOf(hashes, k) \subseteq 1..k /\ IsFiniteSet(1..k)
    BY <1>3, IntervalFacts
  <1>7. IsFiniteSet(KeptOf(hashes, k)) /\ Cardinality(KeptOf(hashes, k)) \in Nat
    BY <1>6, FS_Subset, FS_CardinalityType
  <1> QED
    BY <1>1, <1>4, <1>5, <1>7

\* The place of a member is the number of members that are kept up to it.
LEMMA MembersAreKept ==
  ASSUME input \in Inputs, NEW hashes, IsSequence(hashes)
  PROVE  /\ Len(ContentIds(hashes)) = Cardinality(KeptOf(hashes, Len(hashes)))
         /\ \A k \in KeptOf(hashes, Len(hashes)) :
               input.tracks[ContentIds(hashes)[Cardinality(KeptOf(hashes, k))]].hash = hashes[k]
  <1> DEFINE n == Len(hashes)
             C(k) == Cardinality(KeptOf(hashes, k))
  <1>1. n \in Nat
    BY SequenceFacts
  <1>2. PICK ids : Collects(ids, hashes)
    BY IdsAreCollected
  <1> DEFINE Leads1(v, j) == C(j) \in 1..Len(v) /\ input.tracks[v[C(j)]].hash = hashes[j]
             S == {k \in Nat : k <= n => /\ Len(ids[k]) = C(k)
                                         /\ \A j \in KeptOf(hashes, k) : Leads1(ids[k], j)}
  <1>3. 0 \in S
    <2>1. KeptOf(hashes, 0) = {} /\ C(0) = 0
      BY KeptFacts, FS_EmptySet
    <2>2. ids[0] = <<>>
      BY <1>2 DEF Collects
    <2> QED
      BY <2>1, <2>2
  <1>4. ASSUME NEW k \in Nat, k \in S PROVE k + 1 \in S
    <2> SUFFICES ASSUME k + 1 <= n
                 PROVE  /\ Len(ids[k + 1]) = C(k + 1)
                        /\ \A j \in KeptOf(hashes, k + 1) : Leads1(ids[k + 1], j)
      OBVIOUS
    <2> DEFINE K == KeptOf(hashes, k)
               L == KeptOf(hashes, k + 1)
               v == ids[k]
               w == ids[k + 1]
               h == hashes[k + 1]
    <2>1. k + 1 \in 1..n /\ k \in 0..n /\ (k + 1) - 1 = k /\ k <= n
      BY <1>1
    <2>2. v \in Seq(1..Len(input.tracks)) /\ w = IF Exported(h) THEN Append(v, IdOfHash(h)) ELSE v
      BY <1>2, <2>1 DEF Collects
    <2>3. Len(v) = C(k) /\ \A j \in K : Leads1(v, j)
      BY <1>4, <2>1
    <2>4. /\ L = IF Exported(h) THEN K \cup {k + 1} ELSE K
          /\ k + 1 \notin K /\ IsFiniteSet(K) /\ Cardinality(K) \in Nat
      BY KeptFacts
    <2>c. C(k) = Cardinality(K) /\ C(k + 1) = Cardinality(L)
      OBVIOUS
    <2> HIDE DEF K, L, v, w, h, S
    <2>5. CASE ~Exported(h)
      <3>1. w = v /\ L = K
        BY <2>2, <2>4, <2>5
      <3>2. C(k + 1) = C(k)
        BY <2>c, <3>1
      <3> HIDE DEF C, Leads1
      <3>3. Len(w) = C(k + 1) /\ \A j \in L : Leads1(w, j)
        BY <2>3, <3>1, <3>2
      <3> QED
        BY <3>3 DEF L, w
    <2>6. CASE Exported(h)
      <3> DEFINE id == IdOfHash(h)
      <3>1. w = Append(v, id) /\ L = K \cup {k + 1}
        BY <2>2, <2>4, <2>6
      <3>2. id \in 1..Len(input.tracks) /\ input.tracks[id].hash = h
        BY <2>6, IdOfHashFacts
      <3>3. C(k + 1) = C(k) + 1 /\ C(k) \in Nat
        BY <2>4, <2>c, <3>1, FS_AddElement
      <3> HIDE DEF id
      <3>4. IsSequence(v)
        BY <2>2 DEF IsSequence
      <3>5. /\ Len(w) = Len(v) + 1 /\ w[Len(v) + 1] = id
            /\ \A i \in 1..Len(v) : w[i] = v[i]
        BY <3>1, <3>4, AppendFacts
      <3>6. Len(w) = C(k + 1)
        BY <2>3, <3>3, <3>5
      <3>7. ASSUME NEW j \in K PROVE Leads1(w, j)
        <4> DEFINE m == C(j)
        <4>1. m \in 1..Len(v) /\ input.tracks[v[m]].hash = hashes[j]
          BY <2>3
        <4> HIDE DEF m, C
        <4>2. m \in 1..Len(w) /\ w[m] = v[m]
          BY <2>3, <3>3, <3>5, <4>1
        <4> QED
          BY <4>1, <4>2 DEF m
      <3>8. Leads1(w, k + 1)
        <4> DEFINE m == C(k + 1)
        <4> HIDE DEF C
        <4>1. m = Len(v) + 1 /\ m \in 1..Len(w)
          BY <2>3, <3>3, <3>5
        <4>2. input.tracks[w[m]].hash = hashes[k + 1]
          BY <3>2, <3>5, <4>1 DEF h
        <4> QED
          BY <4>1, <4>2
      <3> HIDE DEF Leads1
      <3>9. \A j \in L : Leads1(w, j)
        BY <3>1, <3>7, <3>8
      <3> QED
        BY <3>6, <3>9 DEF L, w
    <2> QED
      BY <2>5, <2>6
  <1> HIDE DEF S
  <1>5. \A k \in Nat : k \in S
    BY <1>3, <1>4, Induction
  <1>6. n \in S /\ n <= n
    BY <1>1, <1>5
  <1>7. Len(ids[n]) = C(n) /\ \A j \in KeptOf(hashes, n) : Leads1(ids[n], j)
    BY <1>6 DEF S
  <1>8. ContentIds(hashes) = ids[n]
    BY <1>2 DEF Collects
  <1> QED
    BY <1>7, <1>8

\* The rows of the playlists say what the playlists of the device library say.
LEMMA TreesSame ==
  ASSUME LInv, PInv, FeedOK, EveryRowIsRead, phase = "done"
  PROVE  ReadTable(7) = [i \in DOMAIN library.playlists |->
             [ids |-> [id |-> library.playlists[i].id, sort |-> library.playlists[i].sequenceNo],
              names |-> <<library.playlists[i].name>>]]
  <1> DEFINE seven == 7
             rows == PlaylistTreeRows
             n == Len(lists)
             e(i) == library.playlists[i]
  <1>1. /\ stage = "built" /\ library = BuildExportLibrary /\ Len(db.playlists) = n
    BY DoneFacts
  <1>2. ReadTable(seven) = [i \in DOMAIN TableRows(seven) |-> Meant(TableRows(seven)[i])]
    <2>1. seven \in 0..NumTables - 1
      BY DEF NumTables
    <2> HIDE DEF seven
    <2> QED
      BY <1>1, <2>1 DEF EveryRowIsRead
  <1>3. TableRows(seven) = rows
    BY DEF TableRows
  <1>4. DOMAIN lists = 1..n /\ DOMAIN db.playlists = 1..n /\ n \in Nat
    <2>1. IsSequence(lists) /\ IsSequence(db.playlists)
      BY DEF FeedOK, DbOK, GoodDb
    <2> QED
      BY <1>1, <2>1, SequenceFacts
  <1>5. /\ DOMAIN library.playlists = 1..n
        /\ \A i \in 1..n : e(i) = [id |-> i, sequenceNo |-> i - 1, name |-> lists[i].name]
    BY <1>1, <1>4 DEF BuildExportLibrary
  <1>6. DOMAIN rows = 1..n /\ \A i \in 1..n : rows[i] = PlaylistTreeRow(db.playlists[i])
    BY <1>4 DEF PlaylistTreeRows
  <1>7. \A i \in 1..n : db.playlists[i] = [id |-> i, name |-> lists[i].name, sort |-> i - 1,
                                           tracks |-> lists[i].contents]
    BY <1>1 DEF LInv, DbFollows
  <1> HIDE DEF rows, n, e
  <1>8. ASSUME NEW i \in 1..n
        PROVE  Meant(rows[i]) = [ids |-> [id |-> e(i).id, sort |-> e(i).sequenceNo],
                                 names |-> <<e(i).name>>]
    <2> DEFINE p == db.playlists[i]
               x == [id |-> p.id, sort |-> p.sort]
               h == 20
    <2>1. p.id = i /\ p.sort = i - 1 /\ p.name = lists[i].name
      <3>1. p = [id |-> i, name |-> lists[i].name, sort |-> i - 1, tracks |-> lists[i].contents]
        BY <1>7
      <3> HIDE DEF p, x
      <3> QED
        BY <3>1
    <2>2. e(i).id = i /\ e(i).sequenceNo = i - 1 /\ e(i).name = lists[i].name
      BY <1>5
    <2> HIDE DEF p
    <2>3. rows[i] = NameRow(h, x, p.name)
      BY <1>6 DEF PlaylistTreeRow, p
    <2> HIDE DEF x, h
    <2>4. Meant(rows[i]) = [ids |-> x, names |-> <<p.name>>]
      BY <2>3, NameRowSays
    <2>5. x = [id |-> e(i).id, sort |-> e(i).sequenceNo]
      BY <2>1, <2>2 DEF x
    <2> QED
      BY <2>1, <2>2, <2>4, <2>5
  <1> HIDE DEF seven
  <1>9. ReadTable(seven) = [i \in 1..n |->
           [ids |-> [id |-> e(i).id, sort |-> e(i).sequenceNo], names |-> <<e(i).name>>]]
    BY <1>2, <1>3, <1>6, <1>8
  <1> QED
    BY <1>5, <1>9 DEF e, seven

\* What is read of the rows of the entries is what the device library says, entry by entry.
LEMMA EntriesSame ==
  ASSUME LInv, PInv, FeedOK, EveryRowIsRead, phase = "done"
  PROVE  [i \in DOMAIN ReadTable(8) |-> ReadTable(8)[i].ids]
           = [i \in DOMAIN library.entries |->
                 [entry |-> library.entries[i].sequenceNo,
                  track |-> library.entries[i].content,
                  playlist |-> library.entries[i].playlist]]
  <1> DEFINE eight == 8
             rows == PlaylistEntryRows
             all == library.entries
             n == Len(lists)
             m(j) == Len(lists[j].contents)
             ids(j, k) == [entry |-> k, track |-> lists[j].contents[k], playlist |-> j]
             entry(j, k) == [playlist |-> j, content |-> lists[j].contents[k], sequenceNo |-> k]
             R == [j \in DOMAIN db.playlists |->
                      [k \in DOMAIN db.playlists[j].tracks |->
                          EntryRow(k, db.playlists[j].tracks[k], db.playlists[j].id)]]
             E == [j \in DOMAIN lists |->
                      [k \in DOMAIN lists[j].contents |->
                          [playlist |-> j, content |-> lists[j].contents[k], sequenceNo |-> k]]]
  <1>1. /\ stage = "built" /\ library = BuildExportLibrary /\ Len(db.playlists) = n
    BY DoneFacts
  <1>2. ReadTable(eight) = [i \in DOMAIN TableRows(eight) |-> Meant(TableRows(eight)[i])]
    <2>1. eight \in 0..NumTables - 1
      BY DEF NumTables
    <2> HIDE DEF eight
    <2> QED
      BY <1>1, <2>1 DEF EveryRowIsRead
  <1>3. TableRows(eight) = rows
    BY DEF TableRows
  <1>4. /\ DOMAIN lists = 1..n /\ DOMAIN db.playlists = 1..n /\ n \in Nat
        /\ \A j \in 1..n : DOMAIN lists[j].contents = 1..m(j) /\ m(j) \in Nat
    <2>1. IsSequence(lists) /\ IsSequence(db.playlists)
      BY DEF FeedOK, DbOK, GoodDb
    <2>2. \A j \in 1..n : IsSequence(lists[j].contents)
      BY DEF FeedOK
    <2> QED
      BY <1>1, <2>1, <2>2, SequenceFacts
  <1>5. rows = FlattenSeq(R)
    BY DEF PlaylistEntryRows
  <1>6. all = FlattenSeq(E)
    <2>1. all = LibraryEntries
      BY <1>1 DEF BuildExportLibrary
    <2> QED
      BY <2>1 DEF LibraryEntries
  <1>7. \A j \in 1..n : db.playlists[j].id = j /\ db.playlists[j].tracks = lists[j].contents
    <2>1. \A j \in 1..n : db.playlists[j] = [id |-> j, name |-> lists[j].name, sort |-> j - 1,
                                             tracks |-> lists[j].contents]
      BY <1>1 DEF LInv, DbFollows
    <2>2. ASSUME NEW j \in 1..n
          PROVE  db.playlists[j].id = j /\ db.playlists[j].tracks = lists[j].contents
      <3> DEFINE p == db.playlists[j]
      <3>1. p = [id |-> j, name |-> lists[j].name, sort |-> j - 1, tracks |-> lists[j].contents]
        BY <2>1
      <3> HIDE DEF p
      <3>2. p.id = j /\ p.tracks = lists[j].contents
        BY <3>1
      <3> QED
        BY <3>2 DEF p
    <2> QED
      BY <2>2
  <1>8. \A k, t, p : Meant(EntryRow(k, t, p)).ids = [entry |-> k, track |-> t, playlist |-> p]
    BY DEF Meant, EntryRow, Row
  <1> DEFINE row(j, k) == EntryRow(k, lists[j].contents[k], j)
  <1>9. /\ DOMAIN R = 1..n
        /\ \A j \in 1..n : DOMAIN R[j] = 1..m(j) /\ \A k \in 1..m(j) : R[j][k] = row(j, k)
    BY <1>4, <1>7
  <1>10. /\ DOMAIN E = 1..n
         /\ \A j \in 1..n : DOMAIN E[j] = 1..m(j) /\ \A k \in 1..m(j) : E[j][k] = entry(j, k)
    BY <1>4
  <1>f1. R = [j \in 1..n |-> R[j]] /\ \A j \in 1..n : R[j] = [k \in 1..m(j) |-> R[j][k]]
    BY <1>4, <1>7
  <1>f2. E = [j \in 1..n |-> E[j]] /\ \A j \in 1..n : E[j] = [k \in 1..m(j) |-> E[j][k]]
    BY <1>4
  <1>e. \A j, k : /\ Meant(row(j, k)).ids = ids(j, k)
                  /\ entry(j, k).sequenceNo = k /\ entry(j, k).content = lists[j].contents[k]
                  /\ entry(j, k).playlist = j
    BY <1>8
  <1> HIDE DEF eight, rows, all, n, m, R, E, row
  <1>11. /\ IsSequence(R) /\ Len(R) = n
         /\ \A j \in 1..n : IsSequence(R[j]) /\ Len(R[j]) = m(j)
    BY <1>4, <1>f1, SequenceFacts
  <1>12. /\ IsSequence(E) /\ Len(E) = n
         /\ \A j \in 1..n : IsSequence(E[j]) /\ Len(E[j]) = m(j)
    BY <1>4, <1>f2, SequenceFacts
  <1>13. PICK at : Divides(at, n, R)
    BY <1>4, <1>11, SplitExists
  <1>14. Divides(at, n, E)
    BY <1>11, <1>12, <1>13 DEF Divides
  <1>15. /\ IsSequence(rows) /\ Len(rows) = at[n + 1]
         /\ \A j \in 1..n : \A k \in 1..m(j) :
               at[j] + k \in 1..at[n + 1] /\ rows[at[j] + k] = row(j, k)
         /\ \A i \in 1..at[n + 1] : \E j \in 1..n : \E k \in 1..m(j) : i = at[j] + k
    <2>1. /\ IsSequence(rows) /\ Len(rows) = at[n + 1]
          /\ \A j \in 1..n : \A k \in 1..Len(R[j]) :
                at[j] + k \in 1..Len(rows) /\ rows[at[j] + k] = R[j][k]
      BY <1>4, <1>5, <1>11, <1>13, FlattenElements
    <2>2. \A i \in 1..Len(rows) : \E j \in 1..n : \E k \in 1..Len(R[j]) : i = at[j] + k
      <3>1. n \in Nat /\ IsSequence(R) /\ Len(R) = n
        BY <1>4, <1>11
      <3> QED
        BY ONLY <1>5, <1>13, <3>1, FlattenElements
    <2>3. \A j \in 1..n : \A k \in 1..m(j) :
             at[j] + k \in 1..at[n + 1] /\ rows[at[j] + k] = row(j, k)
      <3> SUFFICES ASSUME NEW j \in 1..n, NEW k \in 1..m(j)
                   PROVE  at[j] + k \in 1..at[n + 1] /\ rows[at[j] + k] = row(j, k)
        OBVIOUS
      <3> DEFINE i == at[j] + k
      <3>1. k \in 1..Len(R[j])
        BY <1>11
      <3>2. i \in 1..Len(rows) /\ rows[i] = R[j][k]
        BY <2>1, <3>1
      <3>3. R[j][k] = row(j, k)
        BY <1>9
      <3> HIDE DEF i
      <3>4. i \in 1..at[n + 1] /\ rows[i] = row(j, k)
        BY <2>1, <3>2, <3>3
      <3> QED
        BY <3>4 DEF i
    <2>4. \A i \in 1..at[n + 1] : \E j \in 1..n : \E k \in 1..m(j) : i = at[j] + k
      <3> SUFFICES ASSUME NEW i \in 1..at[n + 1]
                   PROVE  \E j \in 1..n : \E k \in 1..m(j) : i = at[j] + k
        OBVIOUS
      <3>1. i \in 1..Len(rows)
        BY <2>1
      <3>2. PICK j \in 1..n : \E k \in 1..Len(R[j]) : i = at[j] + k
        BY <2>2, <3>1
      <3>3. PICK k \in 1..Len(R[j]) : i = at[j] + k
        BY <3>2
      <3>4. k \in 1..m(j)
        BY <1>11
      <3> QED
        BY <3>3, <3>4
    <2> QED
      BY <2>1, <2>3, <2>4
  <1>16. /\ IsSequence(all) /\ Len(all) = at[n + 1]
         /\ \A j \in 1..n : \A k \in 1..m(j) : all[at[j] + k] = entry(j, k)
    <2>1. /\ IsSequence(all) /\ Len(all) = at[n + 1]
          /\ \A j \in 1..n : \A k \in 1..Len(E[j]) :
                at[j] + k \in 1..Len(all) /\ all[at[j] + k] = E[j][k]
      BY <1>4, <1>6, <1>12, <1>14, FlattenElements
    <2> QED
      BY <1>10, <1>12, <2>1
  <1> DEFINE w == at[n + 1]
  <1>17. DOMAIN rows = 1..w /\ DOMAIN all = 1..w
    BY <1>15, <1>16, SequenceFacts
  <1> HIDE DEF w
  <1>18. ASSUME NEW i \in 1..w
         PROVE  Meant(rows[i]).ids = [entry |-> all[i].sequenceNo, track |-> all[i].content,
                                      playlist |-> all[i].playlist]
    <2>1. PICK j \in 1..n : \E k \in 1..m(j) : i = at[j] + k
      BY <1>15 DEF w
    <2>2. PICK k \in 1..m(j) : i = at[j] + k
      BY <2>1
    <2>3. rows[i] = row(j, k) /\ all[i] = entry(j, k)
      BY <1>15, <1>16, <2>2
    <2> HIDE DEF entry
    <2> QED
      BY <1>e, <2>3
  <1>19. /\ DOMAIN ReadTable(eight) = 1..w
         /\ \A i \in 1..w : ReadTable(eight)[i] = Meant(rows[i])
    BY <1>2, <1>3, <1>17
  <1>20. [i \in DOMAIN ReadTable(eight) |-> ReadTable(eight)[i].ids]
           = [i \in DOMAIN all |-> [entry |-> all[i].sequenceNo, track |-> all[i].content,
                                    playlist |-> all[i].playlist]]
    BY <1>17, <1>18, <1>19
  <1> QED
    BY <1>20 DEF eight, all

\* Playlist p has the members of q that are exported.
ShowsAll(p, q) ==
    /\ q.name = p.name
    /\ Len(p.contents) = Cardinality(KeptOf(q.hashes, Len(q.hashes)))
    /\ \A k \in KeptOf(q.hashes, Len(q.hashes)) :
          input.tracks[p.contents[Cardinality(KeptOf(q.hashes, k))]].hash = q.hashes[k]

LEMMA CollectedIsShown ==
  ASSUME input \in Inputs, NEW j \in 1..Len(input.playlists), NEW p,
         p = [name |-> input.playlists[j].name,
              contents |-> ContentIds(input.playlists[j].hashes)]
  PROVE  input.playlists[j] \in Range(input.playlists) /\ ShowsAll(p, input.playlists[j])
  <1> DEFINE q == input.playlists[j]
  <1>1. q \in Range(input.playlists) /\ IsSequence(q.hashes)
    BY InputFacts, SequenceFacts DEF Range
  <1> HIDE DEF q
  <1>2. p.name = q.name /\ p.contents = ContentIds(q.hashes)
    BY DEF q
  <1>3. /\ Len(ContentIds(q.hashes)) = Cardinality(KeptOf(q.hashes, Len(q.hashes)))
        /\ \A k \in KeptOf(q.hashes, Len(q.hashes)) :
              input.tracks[ContentIds(q.hashes)[Cardinality(KeptOf(q.hashes, k))]].hash = q.hashes[k]
    BY <1>1, MembersAreKept
  <1>4. ShowsAll(p, q)
    BY <1>2, <1>3 DEF ShowsAll
  <1> QED
    BY <1>1, <1>4 DEF q

\* The playlists are those that were asked for, with the members that are exported.
LEMMA AskedFor ==
  ASSUME LInv, PInv, FeedOK, phase = "done", NEW p \in Range(lists)
  PROVE  \E q \in Range(input.playlists) : ShowsAll(p, q)
  <1>1. lists = SortedPlaylists /\ input \in Inputs
    BY DoneFacts DEF FeedOK
  <1>2. IsSequence(lists)
    BY DEF FeedOK
  <1>3. PICK i \in 1..Len(lists) : p = lists[i]
    BY <1>2, SequenceFacts DEF Range
  <1>4. PICK j \in 1..Len(input.playlists) :
           lists[i] = [name |-> input.playlists[j].name,
                       contents |-> ContentIds(input.playlists[j].hashes)]
    BY <1>1, SortedPlaylistsFacts
  <1> QED
    BY <1>1, <1>3, <1>4, CollectedIsShown

\* And none that has a name is left out.
LEMMA AllAreShown ==
  ASSUME LInv, PInv, FeedOK, phase = "done"
  PROVE  /\ \A q \in Range(input.playlists) :
               q.name.len > 0 => \E p \in Range(lists) : ShowsAll(p, q)
         /\ Len(lists) = Cardinality(NamedLists)
  <1>1. lists = SortedPlaylists /\ input \in Inputs
    BY DoneFacts DEF FeedOK
  <1> DEFINE c == Cardinality(NamedLists)
             at(n) == CHOOSE i \in NamedLists : Rank(i) = n
             row(i) == [name |-> input.playlists[i].name,
                        contents |-> ContentIds(input.playlists[i].hashes)]
  <1>2. DOMAIN input.playlists = 1..Len(input.playlists) /\ Len(input.playlists) \in Nat
    BY <1>1, InputFacts, SequenceFacts
  <1>3. /\ c \in Nat
        /\ \A i \in NamedLists : Rank(i) \in 1..c
        /\ \A i, j \in NamedLists : Rank(i) = Rank(j) => i = j
    BY <1>1, PlacesAreTaken
  <1> HIDE DEF c
  <1>4. lists = [n \in 1..c |-> row(at(n))]
    BY <1>1 DEF SortedPlaylists, c
  <1>5. \A i \in NamedLists : at(Rank(i)) = i
    BY <1>3
  <1> HIDE DEF at, row
  <1>6. Len(lists) = c /\ DOMAIN lists = 1..c
    BY <1>3, <1>4, SequenceFacts
  <1>7. ASSUME NEW q \in Range(input.playlists), q.name.len > 0
        PROVE  \E p \in Range(lists) : ShowsAll(p, q)
    <2>1. PICK j \in 1..Len(input.playlists) : q = input.playlists[j]
      BY <1>2, <1>7 DEF Range
    <2>2. j \in NamedLists
      BY <1>2, <1>7, <2>1 DEF NamedLists
    <2>3. Rank(j) \in 1..c /\ lists[Rank(j)] = row(j)
      BY <1>3, <1>4, <1>5, <2>2
    <2>4. row(j) \in Range(lists)
      BY <1>6, <2>3 DEF Range
    <2>5. ShowsAll(row(j), q)
      BY <1>1, <2>1, CollectedIsShown DEF row
    <2> QED
      BY <2>4, <2>5
  <1> QED
    BY <1>6, <1>7 DEF c

\* Both databases show the same playlists, and these were asked for.
LEMMA PlaylistsSame ==
  ASSUME LInv, PInv, FeedOK, EveryRowIsRead
  PROVE  PlaylistsAgree
  <1> SUFFICES ASSUME phase = "done" PROVE PlaylistsAgree
    BY DEF PlaylistsAgree
  <1> DEFINE Kept(hashes, n) ==
                {k \in 1..n : \E t \in Range(input.tracks) : t.hash = hashes[k]}
             Shows(p, q) ==
                /\ q.name = p.name
                /\ Len(p.contents) = Cardinality(Kept(q.hashes, Len(q.hashes)))
                /\ \A k \in Kept(q.hashes, Len(q.hashes)) :
                      LET place == Cardinality(Kept(q.hashes, k))
                      IN  input.tracks[p.contents[place]].hash = q.hashes[k]
  <1>1. \A p, q : Shows(p, q) <=> ShowsAll(p, q)
    <2>1. \A hashes, n : Kept(hashes, n) = KeptOf(hashes, n)
      BY DEF KeptOf
    <2> HIDE DEF Kept
    <2> QED
      BY <2>1 DEF ShowsAll
  <1> HIDE DEF Shows
  <1>2. /\ \A p \in Range(lists) : \E q \in Range(input.playlists) : Shows(p, q)
        /\ \A q \in Range(input.playlists) :
              q.name.len > 0 => \E p \in Range(lists) : Shows(p, q)
        /\ Len(lists) = Cardinality({i \in DOMAIN input.playlists : input.playlists[i].name.len > 0})
    BY <1>1, AskedFor, AllAreShown DEF NamedLists
  <1>3. ReadTable(7) = [i \in DOMAIN library.playlists |->
             [ids |-> [id |-> library.playlists[i].id, sort |-> library.playlists[i].sequenceNo],
              names |-> <<library.playlists[i].name>>]]
    BY TreesSame
  <1>4. [i \in DOMAIN ReadTable(8) |-> ReadTable(8)[i].ids]
           = [i \in DOMAIN library.entries |->
                 [entry |-> library.entries[i].sequenceNo,
                  track |-> library.entries[i].content,
                  playlist |-> library.entries[i].playlist]]
    BY EntriesSame
  <1> QED
    BY <1>2, <1>3, <1>4 DEF PlaylistsAgree, Shows, Kept

\* For any export: a finished one tells one story.  Both databases show the same tracks,
\* artists, playlists and entries (build of pdb.rs, build_export_library), the playlists are
\* all those that were asked for with a name, without the members that are not exported, and
\* whatever a track row names is on the stick, from its own track and under a path of its own.
THEOREM OneStory == Spec => []FormatsAgree
  <1>1. LInv /\ PInv /\ FeedOK /\ EveryRowIsRead => FormatsAgree
    BY TracksSame, PlaylistsSame, ReferencesThere DEF FormatsAgree
  <1> QED
    BY <1>1, LInvHolds, PInvHolds, FeedHolds, EveryRowStaysRead, PTL
=============================================================================
