----------------------------- MODULE PdbBuilder -----------------------------
(***************************************************************************)
(* PdbBuilder (pdb.rs): tracks and playlists are added, names become ids   *)
(* in the order they are first seen, and build() writes twenty tables,     *)
(* each an index page and its data pages, row by row.  One row that no     *)
(* page can hold fails the whole file.                                     *)
(*                                                                         *)
(* A name is a string record of PdbPage; an absent name is the empty one,  *)
(* as both get the id 0.  A table of names is the sequence of them: the    *)
(* id is the position.                                                     *)
(***************************************************************************)
EXTENDS PdbPage

VARIABLES
    db,        \* tracks, playlists and the tables of names
    stage,     \* "add", "build", "built" or "failed"
    table,     \* type of the table being built
    page,      \* the data page being filled, or NoPage
    todo,      \* rows of the table that are not written yet
    data,      \* finished data pages of the table
    pages,     \* finished pages of the file; pages[i + 1] is page i
    infos,     \* per finished table: its index page and its last data page
    nextIndex, \* next_page_index
    sequence,  \* the counter data pages are stamped with
    header     \* table pointers and counters of page 0, <<>> before the end

buildVars == <<db, stage, table, page, todo, data, pages, infos, nextIndex, sequence, header>>
-----------------------------------------------------------------------------
NoPage == [index |-> 0, type |-> 0, pos |-> HEAP_START, rows |-> <<>>]
NoKey == 0

EmptyDb == [tracks |-> <<>>, artists |-> <<>>, albums |-> <<>>, genres |-> <<>>,
            labels |-> <<>>, keys |-> <<>>, artworks |-> <<>>, playlists |-> <<>>]

\* The table of names with x in it, and the id x has there.
GetOrCreate(names, x) == IF x \in Range(names) THEN names ELSE Append(names, x)
IdOf(names, x) == CHOOSE i \in DOMAIN names : names[i] = x

Named(names, s) == IF s.len = 0 THEN names ELSE GetOrCreate(names, s)
NamedId(names, s) == IF s.len = 0 THEN 0 ELSE IdOf(Named(names, s), s)

\* Keys: 1..12 minor and 13..24 major, by pitch class from C on.
CircleOfFifths == <<1, 8, 3, 10, 5, 12, 7, 2, 9, 4, 11, 6>>
ToRekordboxId(key) == CircleOfFifths[((key - 1) % 12) + 1] + 12 * ((key - 1) \div 12)

InverseMap == <<0, 7, 2, 9, 4, 11, 6, 1, 8, 3, 10, 5>>
FromRekordboxId(id) == InverseMap[((id - 1) % 12) + 1] + 1 + 12 * ((id - 1) \div 12)

Sharps == {1, 3, 6, 8, 10}
KeyName(key) ==
    LET pitch == (key - 1) % 12
        note == IF pitch \in Sharps THEN 2 ELSE 1
    IN  [id |-> <<"key", key>>, len |-> IF key > 12 THEN note ELSE note + 1, wide |-> FALSE]
-----------------------------------------------------------------------------
(* add_track_with_artwork and add_playlist.                                *)

\* Mutated form of AlbumKey: albums of one name are one album.
AlbumByName(name, artist) == [name |-> name, artist |-> 0]

AlbumKey(name, artist) == [name |-> name, artist |-> artist]

TrackInfo(a, d) ==
    LET artist == NamedId(d.artists, a.artist)
        album == AlbumKey(a.album, artist)
    IN  [analysis |-> a,
         artist |-> artist,
         album |-> IF a.album.len = 0 THEN 0 ELSE IdOf(GetOrCreate(d.albums, album), album),
         genre |-> NamedId(d.genres, a.genre),
         label |-> NamedId(d.labels, a.label),
         key |-> IF a.key = NoKey THEN 0
                 ELSE IdOf(GetOrCreate(d.keys, ToRekordboxId(a.key)), ToRekordboxId(a.key)),
         artwork |-> NamedId(d.artworks, a.artwork)]

AddTrack(a) ==
    LET info == TrackInfo(a, db)
        album == AlbumKey(a.album, info.artist)
    IN  db' = [db EXCEPT
            !.artists = Named(@, a.artist),
            !.albums = IF a.album.len = 0 THEN @ ELSE GetOrCreate(@, album),
            !.genres = Named(@, a.genre),
            !.labels = Named(@, a.label),
            !.keys = IF a.key = NoKey THEN @ ELSE GetOrCreate(@, ToRekordboxId(a.key)),
            !.artworks = Named(@, a.artwork),
            !.tracks = Append(@, info)]

\* Mutated form of AddPlaylist: sorted from 1 on.
SortsFromOne(id, name, trackIds) ==
    db' = [db EXCEPT !.playlists =
               Append(@, [id |-> id, name |-> name, sort |-> Len(@) + 1, tracks |-> trackIds])]

AddPlaylist(id, name, trackIds) ==
    db' = [db EXCEPT !.playlists =
               Append(@, [id |-> id, name |-> name, sort |-> Len(@), tracks |-> trackIds])]
-----------------------------------------------------------------------------
(* Rows.                                                                   *)

Encode(strings) == [i \in DOMAIN strings |-> EncodeString(strings[i])]

\* A name directly behind the fixed fields.
NameRow(head, ids, name) == Row(head, ids, <<head>>, Encode(<<name>>))
\* artist and album rows say where their name is, in one byte or in two.
OffsetNameRow(head, ids, name) ==
    LET e == EncodeString(name)
        h == IF e.size <= 200 THEN head ELSE head + 2
    IN  Row(h, ids, <<h>>, <<e>>)

FIXED_SIZE == 94
STRING_COUNT == 21

FileName(path) == [path EXCEPT !.id = <<"name">> \o @, !.len = @ - 10]

\* Release date, analyze_path, comment, title, file name and path; 15 empty strings.
TrackStrings(a) ==
    [i \in 1..STRING_COUNT |->
        CASE i = 12 -> a.date
          [] i = 15 -> a.analyzePath
          [] i = 17 -> a.comment
          [] i = 18 -> a.title
          [] i = 20 -> FileName(a.path)
          [] i = 21 -> a.path
          [] OTHER -> NoString]

TrackRow(t) ==
    LET head == FIXED_SIZE + 2 * STRING_COUNT
        strings == Encode(TrackStrings(t.analysis))
    IN  Row(head,
            [id |-> t.analysis.id, artist |-> t.artist, album |-> t.album, genre |-> t.genre,
             label |-> t.label, key |-> t.key, artwork |-> t.artwork],
            Starts(head, strings), strings)

Colors == <<4, 3, 6, 6, 5, 4, 4, 6>>
Columns == <<5, 6, 5, 5, 3, 6, 4, 7, 5, 15, 3, 3, 5, 4, 7, 9, 8, 12, 7, 6, 8, 10, 13, 6, 7, 8, 8>>
FixedTables == {6, 16, 17, 18, 19}

Plain(size, i) == Row(size, [id |-> i], <<>>, <<>>)

TrackRows == [i \in DOMAIN db.tracks |-> TrackRow(db.tracks[i])]
GenreRows == [i \in DOMAIN db.genres |-> NameRow(4, [id |-> i], db.genres[i])]
ArtistRows == [i \in DOMAIN db.artists |-> OffsetNameRow(10, [id |-> i], db.artists[i])]
AlbumRow(id, album) == OffsetNameRow(22, [id |-> id, artist |-> album.artist], album.name)
AlbumRows == [i \in DOMAIN db.albums |-> AlbumRow(i, db.albums[i])]
LabelRows == [i \in DOMAIN db.labels |-> NameRow(4, [id |-> i], db.labels[i])]
KeyRows == [i \in DOMAIN db.keys |-> NameRow(8, [id |-> i], KeyName(FromRekordboxId(db.keys[i])))]
PlaylistTreeRow(p) == NameRow(20, [id |-> p.id, sort |-> p.sort], p.name)
PlaylistTreeRows == [i \in DOMAIN db.playlists |-> PlaylistTreeRow(db.playlists[i])]

\* Entries are numbered from 1 in their playlist.
EntryRow(i, track, playlist) ==
    Row(12, [entry |-> i, track |-> track, playlist |-> playlist], <<>>, <<>>)
PlaylistEntryRows ==
    FlattenSeq([p \in DOMAIN db.playlists |->
        [i \in DOMAIN db.playlists[p].tracks |->
            EntryRow(i, db.playlists[p].tracks[i], db.playlists[p].id)]])

ArtworkRows == [i \in DOMAIN db.artworks |-> NameRow(4, [id |-> i], db.artworks[i])]

\* The tables with built-in content: names of Colors and Columns letters, the latter in UTF-16.
ColorRows == [i \in DOMAIN Colors |-> Plain(8 + Colors[i] + 1, i)]
ColumnRows == [i \in DOMAIN Columns |-> Plain(4 * ((15 + 2 * Columns[i]) \div 4), i)]
Unknown17Rows == [i \in 1..22 |-> Plain(8, i)]
Unknown18Rows == [i \in 1..17 |-> Plain(8, i)]
HistoryRows == <<Plain(40, 1)>>

\* Built-in tables fit on a page each, also if every row were as large as the largest.
ASSUME BuiltInAssumption ==
    \A rows \in {ColorRows, ColumnRows, Unknown17Rows, Unknown18Rows, HistoryRows} :
        \E m \in 1..PAGE_SIZE :
            /\ \A i \in DOMAIN rows : rows[i].size + 3 <= m
            /\ HEAP_START + Len(rows) * m <= IndexStart(Len(rows))

\* The rows of a table; the six types that are not named here are always empty.
TableRows(t) ==
    CASE t = 0 -> TrackRows
      [] t = 1 -> GenreRows
      [] t = 2 -> ArtistRows
      [] t = 3 -> AlbumRows
      [] t = 4 -> LabelRows
      [] t = 5 -> KeyRows
      [] t = 6 -> ColorRows
      [] t = 7 -> PlaylistTreeRows
      [] t = 8 -> PlaylistEntryRows
      [] t = 13 -> ArtworkRows
      [] t = 16 -> ColumnRows
      [] t = 17 -> Unknown17Rows
      [] t = 18 -> Unknown18Rows
      [] t = 19 -> HistoryRows
      [] OTHER -> <<>>
-----------------------------------------------------------------------------
(* build, one table after the other.                                       *)

BuildInit ==
    /\ db = EmptyDb
    /\ stage = "add"
    /\ table = 0
    /\ page = NoPage
    /\ todo = <<>>
    /\ data = <<>>
    /\ pages = <<ZeroPage>>
    /\ infos = <<>>
    /\ nextIndex = 1
    /\ sequence = 2
    /\ header = <<>>

NumTables == 20

BeginBuild ==
    /\ stage = "add"
    /\ stage' = "build"
    /\ UNCHANGED <<db, table, page, todo, data, pages, infos, nextIndex, sequence, header>>

\* Mutated form of EmptyTable: the page of zeros gets no index.
CountsOnePage ==
    /\ stage = "build" /\ page = NoPage /\ table < NumTables
    /\ TableRows(table) = <<>>
    /\ pages' = pages \o <<IndexPage(nextIndex), ZeroPage>>
    /\ infos' = Append(infos, [index |-> nextIndex, last |-> nextIndex])
    /\ nextIndex' = nextIndex + 1
    /\ table' = table + 1
    /\ UNCHANGED <<db, stage, page, todo, data, sequence, header>>

\* A table without rows: an index page and a page of zeros.
EmptyTable ==
    /\ stage = "build" /\ page = NoPage /\ table < NumTables
    /\ TableRows(table) = <<>>
    /\ pages' = pages \o <<IndexPage(nextIndex), ZeroPage>>
    /\ infos' = Append(infos, [index |-> nextIndex, last |-> nextIndex])
    /\ nextIndex' = nextIndex + 2
    /\ table' = table + 1
    /\ UNCHANGED <<db, stage, page, todo, data, sequence, header>>

StartTable ==
    /\ stage = "build" /\ page = NoPage /\ table < NumTables
    /\ TableRows(table) # <<>>
    /\ page' = NewPage(nextIndex + 1, table)
    /\ todo' = TableRows(table)
    /\ nextIndex' = nextIndex + 2
    /\ UNCHANGED <<db, stage, table, data, pages, infos, sequence, header>>

WriteNext ==
    /\ todo # <<>> /\ stage = "build"
    /\ ~WouldOverflow(page, Head(todo).size)
    /\ page' = WriteRow(page, Head(todo))
    /\ todo' = Tail(todo)
    /\ UNCHANGED <<db, stage, table, data, pages, infos, nextIndex, sequence, header>>

\* The row goes to a page of its own.  Tables with built-in content never turn a page.
TurnPage ==
    /\ todo # <<>> /\ stage = "build" /\ table \notin FixedTables
    /\ WouldOverflow(page, Head(todo).size)
    /\ LET fresh == NewPage(nextIndex, table)
       IN  /\ ~WouldOverflow(fresh, Head(todo).size)
           /\ page' = WriteRow(fresh, Head(todo))
    /\ data' = Append(data, Finalize(page, nextIndex))
    /\ nextIndex' = nextIndex + 1
    /\ todo' = Tail(todo)
    /\ UNCHANGED <<db, stage, table, pages, infos, sequence, header>>

\* PageOverflow: not even a fresh page holds the row.
RowTooLarge ==
    /\ todo # <<>> /\ stage = "build"
    /\ WouldOverflow(page, Head(todo).size)
    /\ table \notin FixedTables => WouldOverflow(NewPage(nextIndex, table), Head(todo).size)
    /\ stage' = "failed"
    /\ UNCHANGED <<db, table, page, todo, data, pages, infos, nextIndex, sequence, header>>

NO_NEXT == 4095  \* 0xFFFFFFFF: beyond every page, and patched in the end

EndTable ==
    /\ stage = "build" /\ page # NoPage /\ todo = <<>>
    /\ LET all == Append(data, Finalize(page, NO_NEXT))
           index == all[1].index - 1
       IN  /\ pages' = pages \o <<IndexPage(index)>>
                             \o [i \in DOMAIN all |-> [all[i] EXCEPT !.seq = sequence + i - 1]]
           /\ infos' = Append(infos, [index |-> index, last |-> index + Len(all)])
           /\ sequence' = sequence + Len(all)
    /\ page' = NoPage
    /\ data' = <<>>
    /\ table' = table + 1
    /\ UNCHANGED <<db, stage, todo, nextIndex, header>>
-----------------------------------------------------------------------------
(* The end of build: every table with data ends at a phantom page of its   *)
(* own behind the file, an empty one at its page of zeros.                 *)

HasData(info) == info.last > info.index

\* The tables with data among the first n.
DataTables(n) == {i \in 1..n : HasData(infos[i])}

\* Mutated form of EmptyCandidate: one page beyond the file for all tables with data.
SharedCandidate(i) == IF HasData(infos[i]) THEN nextIndex ELSE infos[i].last + 1

EmptyCandidate(i) ==
    IF HasData(infos[i]) THEN nextIndex + Cardinality(DataTables(i)) - 1
    ELSE infos[i].last + 1

NextUnused == nextIndex + Cardinality(DataTables(NumTables))

Patched ==
    [i \in DOMAIN pages |->
        IF \E k \in DataTables(NumTables) : infos[k].last = i - 1
        THEN LET k == CHOOSE k \in DataTables(NumTables) : infos[k].last = i - 1
             IN  [pages[i] EXCEPT !.next = EmptyCandidate(k)]
        ELSE pages[i]]

FinishBuild ==
    /\ stage = "build" /\ table = NumTables
    /\ header' = [tables |-> [i \in 1..NumTables |->
                                [type |-> i - 1, candidate |-> EmptyCandidate(i),
                                 first |-> infos[i].index, last |-> infos[i].last]],
                  nextUnused |-> NextUnused,
                  sequence |-> sequence,
                  tracks |-> Len(db.tracks)]
    /\ pages' = [Patched EXCEPT ![1] = HeaderPage(NumTables, NextUnused)]
    /\ stage' = "built"
    /\ UNCHANGED <<db, table, page, todo, data, infos, nextIndex, sequence>>

Build ==
    \/ BeginBuild \/ EmptyTable \/ StartTable \/ WriteNext \/ TurnPage
    \/ RowTooLarge \/ EndTable \/ FinishBuild
-----------------------------------------------------------------------------
(* validate_pdb, run on the finished file.                                 *)

\* Table pointers that leave the file are reported and not followed.
PointsOutside(i) == header.tables[i].first >= Len(pages) \/ header.tables[i].last >= Len(pages)

Errors ==
    (IF header.nextUnused > Len(pages) THEN {<<"next_unused_page">>} ELSE {})
    \cup {<<"table", i>> : i \in {k \in DOMAIN header.tables : PointsOutside(k)}}

\* A page is warned about if it does not stand where it says, or for its flags or use.
WarnedAbout(i) ==
    LET p == pages[i + 1]
    IN  \/ p.index # i
        \/ p.flags \notin {DATA, DATA_TRACK, INDEX, 0}
        \/ p.used > PAGE_SIZE - HEAP_START

Warnings == {i \in 1..Len(pages) - 1 : WarnedAbout(i)}
-----------------------------------------------------------------------------
(* What the finished file says.                                            *)

FirstPage(t) == header.tables[t + 1].first
TablePages(t) == Chain(pages, FirstPage(t))
ReadTable(t) == FlattenSeq([i \in DOMAIN TablePages(t) |-> RowsIn(pages[TablePages(t)[i] + 1])])

\* No row is shorter than the padding that may be left out in front of it.
RowsAreLong == todo # <<>> => Head(todo).size \in Nat /\ Head(todo).size > 3

\* Every row that was to be written is read back, once, complete and in order: through the
\* page chain, the row groups and the packed counter by a player, and in number by
\* count_table_rows, whose shift differs from write_header's.  No row group boundary and no
\* page turn loses, repeats or moves one; and a build that gives up had a row too large for
\* a page of its own.
EveryRowIsRead ==
    CASE stage = "built" ->
            \A t \in 0..NumTables - 1 :
                LET written == TableRows(t)
                IN  /\ ReadTable(t) = [i \in DOMAIN written |-> Meant(written[i])]
                    /\ CountTableRows(pages, FirstPage(t)) = Len(written)
      [] stage = "failed" ->
            \E t \in 0..NumTables - 1 : \E i \in DOMAIN TableRows(t) :
                WouldOverflow(NewPage(0, t), TableRows(t)[i].size)
      [] OTHER -> TRUE

\* The repository's validator finds nothing wrong with a finished file but what it does not
\* know about: the counter that build() sets beyond the phantom pages, and the pages of
\* zeros of the empty tables, which carry no number.
OnlyKnownComplaints ==
    stage = "built" =>
        /\ Errors \subseteq {<<"next_unused_page">>}
        /\ Warnings = {header.tables[t + 1].candidate :
                          t \in {u \in 0..NumTables - 1 : TableRows(u) = <<>>}}

\* A page is filled from both ends and they never meet: rows are aligned, disjoint and end
\* before the row groups, also when the row that was just written opens a new group.
OpenPageIsSound ==
    LET n == Len(page.rows)
        End(i) == page.rows[i].at + page.rows[i].row.size
    IN  /\ page.pos <= PAGE_SIZE - NumGroups(n) * ROW_GROUP_SIZE
        /\ \A i \in 1..n :
              /\ page.rows[i].at % 4 = 0
              /\ IF i < n THEN End(i) <= page.rows[i + 1].at ELSE HEAP_START + End(i) <= page.pos

\* A finished page says of itself what is true: its place in the file, the bytes used and
\* left, and one heap entry for every row it counts.
FinishedPageIsSound(i) ==
    LET p == pages[i]
    IN  p.flags \notin {0, INDEX} =>
            /\ p.index = i - 1
            /\ Cardinality(DOMAIN p.heap) = NumRows(p)
            /\ HEAP_START + p.used + p.free <= PAGE_SIZE - Len(p.groups) * ROW_GROUP_SIZE
            /\ \A at \in DOMAIN p.heap : at + p.heap[at].size <= p.used

\* The pages of the file are divided among the tables in their order.  Those of a table are
\* linked from its index page to the last one its pointer names, and that leads to a page
\* which no other table has: one of its own beyond the file, or for a table without rows
\* its page of zeros.
ChainsAreDisjoint ==
    stage = "built" =>
        LET Pointer(t) == header.tables[t + 1]
            Empty(t) == TableRows(t) = <<>>
            End(t) == IF Empty(t) THEN Pointer(t).candidate ELSE Pointer(t).last
        IN  \A t \in 0..NumTables - 1 :
                LET p == Pointer(t)
                IN  /\ pages[p.first + 1].index = p.first
                    /\ \A i \in p.first..p.last - 1 : pages[i + 1].next = i + 1
                    /\ \A i \in p.first + 1..p.last : pages[i + 1].type = t
                    /\ pages[p.last + 1].next = p.candidate
                    /\ IF Empty(t)
                       THEN p.last = p.first /\ pages[p.candidate + 1] = ZeroPage
                       ELSE p.last > p.first /\ p.candidate \in Len(pages)..header.nextUnused - 1
                    /\ \A u \in 0..t - 1 : End(u) < p.first /\ Pointer(u).candidate # p.candidate

\* The page that is being filled and every page of the finished file are sound.
PagesAreSound ==
    /\ OpenPageIsSound
    /\ stage = "built" => \A i \in DOMAIN pages : FinishedPageIsSound(i)

\* Ids in track rows lead to the row with the name the analysis has: albums of the same
\* name by different artists are told apart, and the key survives the two mappings of
\* to_rekordbox_id and from_rekordbox_id.
ReferencesResolve ==
    stage = "built" =>
        LET rows == [t \in {0, 1, 3, 4, 5} |-> ReadTable(t)]
            Names(t, id, name) ==
                IF id = 0 THEN name.len = 0
                ELSE \E r \in Range(rows[t]) : r.ids.id = id /\ r.names = <<name>>
        IN  \A i \in DOMAIN rows[0] :
                LET r == rows[0][i].ids
                    a == db.tracks[i].analysis
                IN  /\ Names(1, r.genre, a.genre)
                    /\ Names(3, r.album, a.album)
                    /\ Names(4, r.label, a.label)
                    /\ r.album # 0 => rows[3][r.album].ids.artist = r.artist
                    /\ IF a.key = NoKey THEN r.key = 0 ELSE Names(5, r.key, KeyName(a.key))
=============================================================================
