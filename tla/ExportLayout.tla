---------------------------- MODULE ExportLayout ----------------------------
(***************************************************************************)
(* build_export (bvault-export): from the stored analyses of the selected  *)
(* tracks and the playlists to the files of a stick and their manifest.    *)
(* Ids are positions and tie together three formats that are written       *)
(* independently: rows of export.pdb (PdbBuilder), rows of the device      *)
(* library, and the analysis files (AnlzFile).                             *)
(*                                                                         *)
(* Composed with PdbBuilder, whose build() runs in the middle.             *)
(***************************************************************************)
EXTENDS PdbBuilder, AnlzFile

CONSTANT Inputs  \* what an export is asked for: tracks and playlists

\* A track is selected once (resolve_hashes: select distinct).  Strings have lengths, an
\* artist without characters is none, names of playlists have an order, which the second
\* part of their id gives; a key is one of the 24, or none.
ASSUME InputsAssumption ==
    \A in \in Inputs :
        /\ in.tracks \in Seq(Range(in.tracks)) /\ in.playlists \in Seq(Range(in.playlists))
        /\ \A i, j \in DOMAIN in.tracks : in.tracks[i].hash = in.tracks[j].hash => i = j
        /\ \A t \in Range(in.tracks) :
              /\ {t.title.len, t.artist.len, t.album.len, t.genre.len, t.label.len, t.date.len}
                     \subseteq Nat
              /\ t.artist.len = 0 => t.artist = NoString
              /\ t.key \in 0..24
              /\ t.beats \in Nat /\ t.detail \in Nat
        /\ \A p \in Range(in.playlists) :
              /\ p.name.len \in Nat /\ (p.name.len > 0 => p.name.id[2] \in Int)
              /\ p.hashes \in Seq(Range(p.hashes))

VARIABLES
    input,    \* the input: tracks in the order of the query, playlists as asked for
    phase,    \* step of build_export
    analyses, \* loaded analyses, with id and paths
    lists,    \* playlists that are exported, in the order of their names
    library,  \* rows of exportLibrary.db, <<>> before it is written
    anlz,     \* analysis files on the stick, by path
    manifest  \* entries in the order they are recorded

layoutVars == <<input, phase, analyses, lists, library, anlz, manifest>>
vars == <<buildVars, layoutVars>>
-----------------------------------------------------------------------------
ContentsPath(t) == <<"contents", t.hash, t.ext>>
Entry(path, source) == [path |-> path, source |-> source]
STAGING == 0  \* the entry's bytes are in the staging directory, not in the raw store
PdbFile == <<"export.pdb">>
LibraryFiles == <<<<"exportLibrary.db">>, <<"rbDevLibBaInfo">>>>
AuxFiles == <<<<"DEVSETTING.DAT">>, <<"djprofile.nxs">>>>
AnlzFileOf(id, kind) == Append(AnlzPath(id), kind)
Kinds == <<"DAT", "EXT", "2EX">>

Staged(paths) == [i \in DOMAIN paths |-> Entry(paths[i], STAGING)]

Init ==
    /\ BuildInit
    /\ input \in Inputs
    /\ phase = "load"
    /\ analyses = <<>>
    /\ lists = <<>>
    /\ library = <<>>
    /\ anlz = <<>>
    /\ manifest = <<>>

\* The analysis of a track as its row and the device library name it.
RowAnlzPath(id) == [id |-> AnlzFileOf(id, "DAT"), len |-> 43, wide |-> FALSE]

\* The id is the position; the paths are the stick's, the tags those of the file.
Analysis(t, id) ==
    [id |-> id, title |-> t.title, artist |-> t.artist, album |-> t.album, genre |-> t.genre,
     label |-> t.label, date |-> t.date, comment |-> NoString, key |-> t.key,
     artwork |-> NoString, beats |-> t.beats, detail |-> t.detail,
     path |-> [id |-> ContentsPath(t), len |-> 30, wide |-> FALSE],
     analyzePath |-> RowAnlzPath(id)]

\* The artifact is gone or unreadable, a file cannot be written, the audio does not resolve.
Give(up) ==
    /\ phase \in up
    /\ phase' = "failed"
    /\ UNCHANGED <<buildVars, input, analyses, lists, library, anlz, manifest>>

IdOfHash(h) == CHOOSE i \in DOMAIN input.tracks : input.tracks[i].hash = h

\* The ids of the members that are exported, in the order of the playlist.
ContentIds(hashes) ==
    LET ids[k \in 0..Len(hashes)] ==
            IF k = 0 THEN <<>>
            ELSE IF \E t \in Range(input.tracks) : t.hash = hashes[k]
                 THEN Append(ids[k - 1], IdOfHash(hashes[k]))
                 ELSE ids[k - 1]
    IN  ids[Len(hashes)]

\* By name, stable; a playlist without a name is left out.
NamedLists == {i \in DOMAIN input.playlists : input.playlists[i].name.len > 0}
Before(i, j) ==
    LET a == input.playlists[i].name.id[2]
        b == input.playlists[j].name.id[2]
    IN  a < b \/ (a = b /\ i < j)
Rank(i) == Cardinality({j \in NamedLists : Before(j, i)}) + 1

SortedPlaylists ==
    [n \in 1..Cardinality(NamedLists) |->
        LET p == input.playlists[CHOOSE i \in NamedLists : Rank(i) = n]
        IN  [name |-> p.name, contents |-> ContentIds(p.hashes)]]

\* All analyses are loaded before anything is written.
Load ==
    /\ phase = "load"
    /\ analyses' = [i \in DOMAIN input.tracks |-> Analysis(input.tracks[i], i)]
    /\ lists' = SortedPlaylists
    /\ phase' = "pdb"
    /\ UNCHANGED <<buildVars, input, library, anlz, manifest>>

PdbTrack ==
    /\ phase = "pdb"
    /\ Len(db.tracks) < Len(analyses)
    /\ AddTrack(analyses[Len(db.tracks) + 1])
    /\ UNCHANGED <<stage, table, page, todo, data, pages, infos, nextIndex, sequence, header>>
    /\ UNCHANGED layoutVars

PdbPlaylist ==
    /\ phase = "pdb"
    /\ Len(db.tracks) = Len(analyses)
    /\ Len(db.playlists) < Len(lists)
    /\ LET i == Len(db.playlists) + 1
       IN  AddPlaylist(i, lists[i].name, lists[i].contents)
    /\ UNCHANGED <<stage, table, page, todo, data, pages, infos, nextIndex, sequence, header>>
    /\ UNCHANGED layoutVars

PdbBuild ==
    /\ phase = "pdb"
    /\ Len(db.tracks) = Len(analyses) /\ Len(db.playlists) = Len(lists)
    /\ Build
    /\ UNCHANGED layoutVars

WritePdb ==
    /\ phase = "pdb" /\ stage = "built"
    /\ manifest' = Append(manifest, Entry(PdbFile, STAGING))
    /\ phase' = "library"
    /\ UNCHANGED <<buildVars, input, analyses, lists, library, anlz>>

PdbFails == stage = "failed" /\ Give({"pdb"})

\* build_export_library: artists get their ids in the order they are first seen, the empty
\* name too; playlists and their entries are numbered from 1.
LibraryArtists ==
    LET names[k \in 0..Len(analyses)] ==
            IF k = 0 THEN <<>> ELSE GetOrCreate(names[k - 1], analyses[k].artist)
    IN  names[Len(analyses)]

LibraryContent ==
    [i \in DOMAIN analyses |->
        [id |-> analyses[i].id, title |-> analyses[i].title,
         artist |-> IdOf(LibraryArtists, analyses[i].artist),
         path |-> analyses[i].path, file |-> FileName(analyses[i].path),
         anlz |-> analyses[i].analyzePath]]

LibraryEntries ==
    FlattenSeq([i \in DOMAIN lists |->
        [k \in DOMAIN lists[i].contents |->
            [playlist |-> i, content |-> lists[i].contents[k], sequenceNo |-> k]]])

BuildExportLibrary ==
    [artists |-> LibraryArtists,
     content |-> LibraryContent,
     playlists |-> [i \in DOMAIN lists |->
         [id |-> i, sequenceNo |-> i - 1, name |-> lists[i].name]],
     entries |-> LibraryEntries,
     numberOfContents |-> Len(analyses)]

WriteDeviceLibrary ==
    /\ phase = "library"
    /\ library' = BuildExportLibrary
    /\ manifest' = manifest \o Staged(LibraryFiles) \o Staged(AuxFiles)
    /\ phase' = "anlz"
    /\ UNCHANGED <<buildVars, input, analyses, lists, anlz>>

\* Three files per track; a failure among them ends the build, so their order is left out.
AnlzFiles ==
    LET file(i, k) == <<DatFile(analyses[i]), ExtFile(analyses[i]), TwoExFile(analyses[i])>>[k]
        at(p) == CHOOSE ik \in (DOMAIN analyses) \X (DOMAIN Kinds) :
                    AnlzFileOf(analyses[ik[1]].id, Kinds[ik[2]]) = p
    IN  [p \in {AnlzFileOf(a.id, k) : a \in Range(analyses), k \in Range(Kinds)} |->
            file(at(p)[1], at(p)[2])]

WriteAnlz ==
    /\ phase = "anlz"
    /\ anlz' = AnlzFiles
    /\ manifest' = manifest \o FlattenSeq([i \in DOMAIN analyses |->
                      Staged([k \in DOMAIN Kinds |-> AnlzFileOf(analyses[i].id, Kinds[k])])])
    /\ phase' = "audio"
    /\ UNCHANGED <<buildVars, input, analyses, lists, library>>

\* Audio is not copied: an entry per track that names the raw file by its hash.
ListAudio ==
    /\ phase = "audio"
    /\ manifest' = manifest \o
           [i \in DOMAIN input.tracks |->
               Entry(ContentsPath(input.tracks[i]), input.tracks[i].hash)]
    /\ phase' = "done"
    /\ UNCHANGED <<buildVars, input, analyses, lists, library, anlz>>

Next ==
    \/ Load \/ PdbTrack \/ PdbPlaylist \/ PdbBuild \/ WritePdb \/ PdbFails
    \/ WriteDeviceLibrary \/ WriteAnlz \/ ListAudio
    \/ Give({"load", "library", "anlz", "audio"})

Spec == Init /\ [][Next]_vars
-----------------------------------------------------------------------------
TypeOK ==
    /\ input \in Inputs
    /\ stage \in {"add", "build", "built", "failed"}
    /\ table \in 0..NumTables
    /\ nextIndex \in Nat /\ Len(pages) + Len(data) <= nextIndex
    /\ RowsAreLong
    /\ phase \in {"load", "pdb", "library", "anlz", "audio", "done", "failed"}
    /\ analyses = <<>> \/ Len(analyses) = Len(input.tracks)
    /\ Len(lists) <= Len(input.playlists)
    /\ \A i \in DOMAIN manifest :
          manifest[i].source \in {STAGING} \cup {t.hash : t \in Range(input.tracks)}

\* The player that reads export.pdb and the one that reads the device library show the same
\* tracks: same id, title, file and analysis, and the artist of the same name, although the
\* two number artists differently (a track without one has the id 0 here and a row there).
TracksAgree ==
    phase = "done" =>
        LET tracks == ReadTable(0)
            artists == ReadTable(2)
        IN  /\ Len(tracks) = library.numberOfContents
            /\ \A i \in DOMAIN tracks :
                  LET r == tracks[i]
                      c == library.content[i]
                  IN  /\ r.ids.id = c.id
                      /\ <<r.names[15], r.names[18], r.names[20], r.names[21]>>
                            = <<c.anlz, c.title, c.file, c.path>>
                      /\ library.artists[c.artist]
                            = IF r.ids.artist = 0 THEN NoString ELSE artists[r.ids.artist].names[1]

\* The two show the same playlists with the same tracks in the same order, and these are the
\* members of the playlist that were asked for; a member that is not exported is left out.
\* Every playlist that was asked for and has a name is among them, as often as it was asked for.
PlaylistsAgree ==
    phase = "done" =>
        LET tree == ReadTable(7)
            entries == ReadTable(8)
            Kept(hashes, n) ==
                {k \in 1..n : \E t \in Range(input.tracks) : t.hash = hashes[k]}
            Shows(p, q) ==
                /\ q.name = p.name
                /\ Len(p.contents) = Cardinality(Kept(q.hashes, Len(q.hashes)))
                /\ \A k \in Kept(q.hashes, Len(q.hashes)) :
                      LET place == Cardinality(Kept(q.hashes, k))
                      IN  input.tracks[p.contents[place]].hash = q.hashes[k]
        IN  /\ tree = [i \in DOMAIN library.playlists |->
                  [ids |-> [id |-> library.playlists[i].id,
                            sort |-> library.playlists[i].sequenceNo],
                   names |-> <<library.playlists[i].name>>]]
            /\ [i \in DOMAIN entries |-> entries[i].ids]
                  = [i \in DOMAIN library.entries |->
                        [entry |-> library.entries[i].sequenceNo,
                         track |-> library.entries[i].content,
                         playlist |-> library.entries[i].playlist]]
            /\ \A p \in Range(lists) : \E q \in Range(input.playlists) : Shows(p, q)
            /\ \A q \in Range(input.playlists) :
                  q.name.len > 0 => \E p \in Range(lists) : Shows(p, q)
            /\ Len(lists) = Cardinality({i \in DOMAIN input.playlists : input.playlists[i].name.len > 0})

\* Whatever a finished export refers to is on the stick: the audio and the analysis a track
\* row names are entries of the manifest, the analysis files embed the very path of the row
\* that leads to them, the audio entry is the track's own, and no two files share a path.
ReferencesOnStick ==
    phase = "done" =>
        LET tracks == ReadTable(0)
            Sources(path) == {e.source : e \in {manifest[i] : i \in
                                {k \in DOMAIN manifest : manifest[k].path = path}}}
        IN  /\ Cardinality({manifest[i].path : i \in DOMAIN manifest}) = Len(manifest)
            /\ \A i \in DOMAIN tracks :
                  LET audio == tracks[i].names[21]
                      dat == tracks[i].names[15].id
                  IN  /\ Sources(audio.id) = {input.tracks[i].hash}
                      /\ \A k \in Range(Kinds) :
                            LET file == Append(Front(dat), k)
                            IN  /\ Sources(file) = {STAGING}
                                /\ file \in DOMAIN anlz /\ anlz[file].path = audio

\* A finished export tells one story: the database, the device library, the playlists, the
\* analysis files and the manifest agree although each numbers and orders things by itself.
FormatsAgree == TracksAgree /\ PlaylistsAgree /\ ReferencesOnStick

\* Stepping through an analysis file by the lengths its sections declare meets every section
\* and ends where the header says the file ends, whatever the beats and the waveform are.
AnlzTiles == phase = "done" => \A path \in DOMAIN anlz : Tiles(anlz[path])
=============================================================================
