----------------------------- MODULE PdbProofs -----------------------------
(***************************************************************************)
(* Theorems about export.pdb, for any inputs, page size and row index.     *)
(*                                                                         *)
(* Three invariants, each resting on the one before.  FeedOK is about what *)
(* is written: the tables of names, the tracks that refer to them and the  *)
(* rows still to come.  PInv follows the file: rows are apart on the page  *)
(* that is being filled (Sound), the pages behind it stand where they say  *)
(* and hold what they count (PagesOK, OpenTableOK), the pages of a table   *)
(* are linked and those of zeros belong to tables without rows (TablesOK), *)
(* and what tables there are is settled before the first one is written    *)
(* (SettledOK).  WInv says which rows are where: those of a finished table *)
(* in the pages of its chain, in order (TablesHold), those of the open one *)
(* in its pages so far or still to come (OpenRowsOK).                      *)
(***************************************************************************)
EXTENDS ExportLayout, PdbPageProofs
-----------------------------------------------------------------------------
(* What an export is made from.                                            *)

Orders(R, S) ==
    /\ \A i \in S : <<i, i>> \notin R
    /\ \A i, j, k \in S : <<i, j>> \in R /\ <<j, k>> \in R => <<i, k>> \in R
    /\ \A i, j \in S : i # j => <<i, j>> \in R \/ <<j, i>> \in R

RankIn(R, S, i) == Cardinality({j \in S : <<j, i>> \in R}) + 1

\* In a finite set that is totally ordered, every rank is taken, by one element.
LEMMA RanksAreTaken ==
  ASSUME NEW S, IsFiniteSet(S), NEW R, Orders(R, S)
  PROVE  /\ Cardinality(S) \in Nat
         /\ \A n \in 1..Cardinality(S) : \E i \in S : RankIn(R, S, i) = n
         /\ \A i \in S : RankIn(R, S, i) \in 1..Cardinality(S)
         /\ \A i, j \in S : RankIn(R, S, i) = RankIn(R, S, j) => i = j
  <1> DEFINE D(i) == {j \in S : <<j, i>> \in R}
             C == Cardinality(S)
             f == [i \in S |-> Cardinality(D(i)) + 1]
  <1>0. /\ \A i \in S : <<i, i>> \notin R
        /\ \A i, j, k \in S : <<i, j>> \in R /\ <<j, k>> \in R => <<i, k>> \in R
        /\ \A i, j \in S : i # j => <<i, j>> \in R \/ <<j, i>> \in R
    BY DEF Orders
  <1>1. C \in Nat
    BY FS_CardinalityType
  <1>2. ASSUME NEW i \in S
        PROVE  /\ IsFiniteSet(D(i)) /\ Cardinality(D(i)) \in Nat /\ Cardinality(D(i)) <= C - 1
    <2>1. D(i) \subseteq S \ {i}
      BY <1>0
    <2> HIDE DEF D
    <2>2. IsFiniteSet(S \ {i}) /\ Cardinality(S \ {i}) = C - 1
      BY FS_RemoveElement
    <2> QED
      BY <2>1, <2>2, FS_Subset, FS_CardinalityType
  <1>3. ASSUME NEW i \in S, NEW j \in S, <<i, j>> \in R
        PROVE  Cardinality(D(i)) < Cardinality(D(j))
    <2>1. D(i) \subseteq D(j) \ {i} /\ i \in D(j)
      BY <1>0, <1>3
    <2>2. IsFiniteSet(D(j)) /\ Cardinality(D(j)) \in Nat /\ Cardinality(D(i)) \in Nat
      BY <1>2
    <2> HIDE DEF D
    <2>3. IsFiniteSet(D(j) \ {i}) /\ Cardinality(D(j) \ {i}) = Cardinality(D(j)) - 1
      BY <2>1, <2>2, FS_RemoveElement
    <2>4. Cardinality(D(i)) <= Cardinality(D(j) \ {i})
      BY <2>1, <2>3, FS_Subset
    <2> QED
      BY <2>2, <2>3, <2>4
  <1> HIDE DEF D, C
  <1>4. f \in [S -> 1..C]
    BY <1>1, <1>2
  <1>5. ASSUME NEW i \in S, NEW j \in S, f[i] = f[j] PROVE i = j
    <2>1. Cardinality(D(i)) \in Nat /\ Cardinality(D(j)) \in Nat
      BY <1>2
    <2>2. Cardinality(D(i)) = Cardinality(D(j))
      BY <1>5, <2>1
    <2>3. CASE <<i, j>> \in R
      BY <1>3, <2>1, <2>2, <2>3
    <2>4. CASE <<j, i>> \in R
      BY <1>3, <2>1, <2>2, <2>4
    <2> QED
      BY <1>0, <2>3, <2>4
  <1> HIDE DEF f
  <1>6. IsFiniteSet(1..C) /\ Cardinality(1..C) = C
    BY <1>1, IntervalFacts
  <1>7. f \in Injection(S, 1..C)
    BY <1>4, <1>5 DEF Injection, IsInjective
  <1>8. f \in Surjection(S, 1..C)
    BY <1>6, <1>7, FS_Injection DEF C
  <1>9. \A n \in 1..C : \E i \in S : f[i] = n
    BY <1>8 DEF Surjection
  <1>10. \A i \in S : f[i] = RankIn(R, S, i)
    BY DEF f, D, RankIn
  <1> HIDE DEF f
  <1> QED
    BY <1>1, <1>4, <1>5, <1>9, <1>10 DEF C

\* What an export is asked for.
LEMMA InputFacts ==
  ASSUME input \in Inputs
  PROVE  /\ IsSequence(input.tracks) /\ IsSequence(input.playlists)
         /\ \A i \in 1..Len(input.tracks) :
               LET t == input.tracks[i]
               IN  /\ IsString(t.title) /\ IsString(t.artist) /\ IsString(t.album)
                   /\ IsString(t.genre) /\ IsString(t.label) /\ IsString(t.date)
                   /\ t.key \in 0..24
         /\ \A i \in 1..Len(input.playlists) :
               LET p == input.playlists[i]
               IN  /\ IsString(p.name) /\ IsSequence(p.hashes)
                   /\ p.name.len > 0 => p.name.id[2] \in Int
  <1> DEFINE ts == input.tracks
             ps == input.playlists
  <1>1. /\ ts \in Seq(Range(ts)) /\ ps \in Seq(Range(ps))
        /\ \A t \in Range(ts) :
              /\ {t.title.len, t.artist.len, t.album.len, t.genre.len, t.label.len, t.date.len}
                     \subseteq Nat
              /\ t.key \in 0..24
        /\ \A p \in Range(ps) :
              /\ p.name.len \in Nat /\ (p.name.len > 0 => p.name.id[2] \in Int)
              /\ p.hashes \in Seq(Range(p.hashes))
    BY InputsAssumption
  <1> HIDE DEF ts, ps
  <1>2. IsSequence(ts) /\ IsSequence(ps)
    BY <1>1 DEF IsSequence
  <1>3. DOMAIN ts = 1..Len(ts) /\ DOMAIN ps = 1..Len(ps)
    BY <1>2, SequenceFacts
  <1>4. ASSUME NEW i \in 1..Len(ts) PROVE ts[i] \in Range(ts)
    BY <1>3 DEF Range
  <1>5. ASSUME NEW i \in 1..Len(ps) PROVE ps[i] \in Range(ps)
    BY <1>3 DEF Range
  <1>6. \A i \in 1..Len(ts) :
           LET t == ts[i]
           IN  /\ IsString(t.title) /\ IsString(t.artist) /\ IsString(t.album)
               /\ IsString(t.genre) /\ IsString(t.label) /\ IsString(t.date)
               /\ t.key \in 0..24
    BY <1>1, <1>4 DEF IsString
  <1>7. \A p \in Range(ps) : IsSequence(p.hashes)
    BY <1>1 DEF IsSequence
  <1>8. \A i \in 1..Len(ps) :
           LET p == ps[i]
           IN  /\ IsString(p.name) /\ IsSequence(p.hashes)
               /\ p.name.len > 0 => p.name.id[2] \in Int
    BY <1>1, <1>5, <1>7 DEF IsString
  <1> QED
    BY <1>2, <1>6, <1>8 DEF ts, ps

\* The analysis of a track as it is added.
LEMMA AnalysisIsGood ==
  ASSUME input \in Inputs, NEW i \in 1..Len(input.tracks)
  PROVE  GoodAnalysis(Analysis(input.tracks[i], i))
  <1> DEFINE t == input.tracks[i]
  <1>1. /\ IsString(t.title) /\ IsString(t.artist) /\ IsString(t.album)
        /\ IsString(t.genre) /\ IsString(t.label) /\ IsString(t.date)
        /\ t.key \in 0..24
    BY InputFacts
  <1>2. IsString(NoString)
    BY DEF NoString, IsString
  <1>3. IsString(RowAnlzPath(i))
    BY DEF RowAnlzPath, IsString
  <1> HIDE DEF t
  <1> DEFINE a == Analysis(t, i)
  <1>4. /\ a.title = t.title /\ a.artist = t.artist /\ a.album = t.album /\ a.genre = t.genre
        /\ a.label = t.label /\ a.date = t.date /\ a.comment = NoString /\ a.artwork = NoString
        /\ a.analyzePath = RowAnlzPath(i) /\ a.key = t.key
        /\ a.path = [id |-> ContentsPath(t), len |-> 30, wide |-> FALSE]
    BY DEF Analysis
  <1>5. a.path = [id |-> a.path.id, len |-> 30, wide |-> FALSE]
    BY <1>4
  <1> HIDE DEF a
  <1>6. GoodAnalysis(a)
    BY <1>1, <1>2, <1>3, <1>4, <1>5 DEF GoodAnalysis
  <1> QED
    BY <1>6 DEF a, t

\* The playlists that are exported have a place each.
LEMMA PlacesAreTaken ==
  ASSUME input \in Inputs
  PROVE  /\ Cardinality(NamedLists) \in Nat
         /\ \A n \in 1..Cardinality(NamedLists) : \E i \in NamedLists : Rank(i) = n
         /\ \A i \in NamedLists : Rank(i) \in 1..Cardinality(NamedLists)
         /\ \A i, j \in NamedLists : Rank(i) = Rank(j) => i = j
  <1> DEFINE S == NamedLists
             R == {ij \in S \X S : Before(ij[1], ij[2])}
             id(i) == input.playlists[i].name.id[2]
  <1>1. DOMAIN input.playlists = 1..Len(input.playlists) /\ Len(input.playlists) \in Nat
    BY InputFacts, SequenceFacts
  <1>2. S \subseteq 1..Len(input.playlists)
    BY <1>1 DEF NamedLists
  <1>3. IsFiniteSet(S)
    BY <1>1, <1>2, IntervalFacts, FS_Subset
  <1>4. \A i \in S : id(i) \in Int /\ i \in Int
    BY <1>1, <1>2, InputFacts DEF NamedLists
  <1>5. \A i, j \in S : <<i, j>> \in R <=> (id(i) < id(j) \/ (id(i) = id(j) /\ i < j))
    BY DEF Before
  <1> HIDE DEF S, id
  <1>6. \A i, j \in S : <<i, j>> \in R <=> Before(i, j)
    OBVIOUS
  <1> HIDE DEF R
  <1>7. Orders(R, S)
    BY <1>4, <1>5 DEF Orders
  <1>8. /\ Cardinality(S) \in Nat
        /\ \A n \in 1..Cardinality(S) : \E i \in S : RankIn(R, S, i) = n
        /\ \A i \in S : RankIn(R, S, i) \in 1..Cardinality(S)
        /\ \A i, j \in S : RankIn(R, S, i) = RankIn(R, S, j) => i = j
    BY <1>3, <1>7, RanksAreTaken
  <1>9. \A i \in S : {j \in S : <<j, i>> \in R} = {j \in S : Before(j, i)}
    BY <1>6
  <1>10. \A i \in S : Rank(i) = Cardinality({j \in S : Before(j, i)}) + 1
    BY DEF Rank, S
  <1>11. \A i \in S : Rank(i) = RankIn(R, S, i)
    BY <1>9, <1>10 DEF RankIn
  <1> QED
    BY <1>8, <1>11 DEF S

\* Whether a member of a playlist is exported.
Exported(h) == \E t \in Range(input.tracks) : t.hash = h

\* ids are the ids of the members of a playlist, as they are collected one after the other.
Collects(ids, hashes) ==
    /\ ids[0] = <<>> /\ ContentIds(hashes) = ids[Len(hashes)]
    /\ \A k \in 0..Len(hashes) : ids[k] \in Seq(1..Len(input.tracks))
    /\ \A k \in 1..Len(hashes) :
          ids[k] = IF Exported(hashes[k]) THEN Append(ids[k - 1], IdOfHash(hashes[k]))
                   ELSE ids[k - 1]

LEMMA IdOfHashFacts ==
  ASSUME input \in Inputs, NEW h, Exported(h)
  PROVE  IdOfHash(h) \in 1..Len(input.tracks) /\ input.tracks[IdOfHash(h)].hash = h
  <1>1. DOMAIN input.tracks = 1..Len(input.tracks)
    BY InputFacts, SequenceFacts
  <1>2. \E i \in DOMAIN input.tracks : input.tracks[i].hash = h
    BY DEF Exported, Range
  <1> QED
    BY <1>1, <1>2 DEF IdOfHash

LEMMA IdsAreCollected ==
  ASSUME input \in Inputs, NEW hashes, IsSequence(hashes)
  PROVE  \E ids : Collects(ids, hashes)
  <1> DEFINE n == Len(hashes)
             V == Seq(1..Len(input.tracks))
             Has(k) == Exported(hashes[k])
             Next1(k, v) == IF Has(k) THEN Append(v, IdOfHash(hashes[k])) ELSE v
             step == [k \in 1..n |-> [v \in V |-> Next1(k, v)]]
             P(f) == f = [k \in 0..n |-> IF k = 0 THEN <<>> ELSE Next1(k, f[k - 1])]
             ids == CHOOSE f : P(f)
             none == <<>>
  <1>1. n \in Nat
    BY SequenceFacts
  <1>2. none \in V
    OBVIOUS
  <1>3. ASSUME NEW k \in 1..n, Has(k) PROVE IdOfHash(hashes[k]) \in 1..Len(input.tracks)
    BY <1>3, IdOfHashFacts
  <1> DEFINE T == 1..Len(input.tracks)
             id(k) == IdOfHash(hashes[k])
  <1>4. \A k \in 1..n : \A v \in V : Next1(k, v) \in V
    <2>1. \A k \in 1..n : Has(k) => id(k) \in T
      BY <1>3
    <2>2. V = Seq(T)
      OBVIOUS
    <2>3. \A k : \A v : Next1(k, v) = IF Has(k) THEN Append(v, id(k)) ELSE v
      OBVIOUS
    <2> HIDE DEF V, T, id, Has, Next1
    <2>4. \A v \in V : \A i \in T : Append(v, i) \in V
      BY <2>2
    <2> QED
      BY <2>1, <2>3, <2>4
  <1>5. ContentIds(hashes) = ids[n]
    BY DEF ContentIds, Exported
  <1> HIDE DEF V, Next1, none, n
  <1>6. step \in [1..n -> [V -> V]]
    BY <1>4
  <1>7. PICK h \in [0..n -> V] : Unrolls(h, n, none, step)
    BY <1>1, <1>2, <1>6, Recursion
  <1>8. P(h)
    <2>1. h[0] = <<>> /\ \A k \in 1..n : h[k] = step[k][h[k - 1]]
      BY <1>7 DEF Unrolls, none
    <2>2. ASSUME NEW k \in 0..n PROVE h[k] = IF k = 0 THEN <<>> ELSE Next1(k, h[k - 1])
      <3>1. CASE k = 0
        BY <2>1, <3>1
      <3>2. CASE k # 0
        <4>1. k \in 1..n /\ k - 1 \in 0..n
          BY <1>1, <3>2
        <4>2. h[k - 1] \in V
          BY <1>7, <4>1
        <4> QED
          BY <2>1, <3>2, <4>1, <4>2
      <3> QED
        BY <3>1, <3>2
    <2> QED
      BY <1>7, <2>2
  <1> HIDE DEF P
  <1>9. P(ids)
    BY <1>8
  <1> HIDE DEF ids
  <1>10. \A k \in 0..n : ids[k] = IF k = 0 THEN <<>> ELSE Next1(k, ids[k - 1])
    BY <1>9 DEF P
  <1> DEFINE S == {k \in Nat : k <= n => ids[k] \in V}
  <1>11. 0 \in S
    <2>1. ids[0] = <<>>
      BY <1>1, <1>10
    <2> QED
      BY <1>2, <2>1 DEF none
  <1>12. ASSUME NEW k \in Nat, k \in S PROVE k + 1 \in S
    <2>1. CASE k + 1 <= n
      <3>1. k + 1 \in 1..n /\ k + 1 \in 0..n /\ k + 1 # 0 /\ (k + 1) - 1 = k /\ k <= n
        BY <1>1, <2>1
      <3>2. ids[k] \in V
        BY <1>12, <3>1
      <3>3. ids[k + 1] = Next1(k + 1, ids[k])
        BY <1>10, <3>1
      <3> QED
        BY <1>4, <3>1, <3>2, <3>3
    <2> QED
      BY <2>1
  <1> HIDE DEF S
  <1>13. \A k \in Nat : k \in S
    BY <1>11, <1>12, Induction
  <1>14. \A k \in 0..n : ids[k] \in V
    BY <1>1, <1>13 DEF S
  <1>15. ids[0] = <<>> /\ \A k \in 1..n : ids[k] = Next1(k, ids[k - 1])
    <2>1. 0 \in 0..n /\ \A k \in 1..n : k \in 0..n /\ k # 0
      BY <1>1
    <2> QED
      BY <1>10, <2>1
  <1>16. Collects(ids, hashes)
    BY <1>5, <1>14, <1>15 DEF Collects, V, n, Next1
  <1> QED
    BY <1>16

\* The ids of the members of a playlist are those of tracks.
LEMMA ContentIdsFacts ==
  ASSUME input \in Inputs, NEW hashes, IsSequence(hashes)
  PROVE  ContentIds(hashes) \in Seq(1..Len(input.tracks))
  <1>1. PICK ids : Collects(ids, hashes)
    BY IdsAreCollected
  <1>2. Len(hashes) \in 0..Len(hashes)
    BY SequenceFacts
  <1> QED
    BY <1>1, <1>2 DEF Collects

\* The playlists that are exported.
LEMMA SortedPlaylistsFacts ==
  ASSUME input \in Inputs
  PROVE  /\ IsSequence(SortedPlaylists)
         /\ \A i \in 1..Len(SortedPlaylists) :
               \E k \in 1..Len(input.playlists) :
                  LET p == input.playlists[k]
                  IN  /\ SortedPlaylists[i] = [name |-> p.name, contents |-> ContentIds(p.hashes)]
                      /\ p.name.len > 0
                      /\ SortedPlaylists[i].contents \in Seq(1..Len(input.tracks))
                      /\ IsString(SortedPlaylists[i].name)
  <1> DEFINE C == Cardinality(NamedLists)
             at(n) == CHOOSE i \in NamedLists : Rank(i) = n
             p(n) == input.playlists[at(n)]
             row(n) == [name |-> p(n).name, contents |-> ContentIds(p(n).hashes)]
             all == SortedPlaylists
  <1>1. all = [n \in 1..C |-> row(n)]
    BY DEF SortedPlaylists
  <1>2. C \in Nat /\ \A n \in 1..C : at(n) \in NamedLists
    BY PlacesAreTaken
  <1>3. \A n \in 1..C : at(n) \in 1..Len(input.playlists) /\ p(n).name.len > 0
    <2>1. DOMAIN input.playlists = 1..Len(input.playlists)
      BY InputFacts, SequenceFacts
    <2> HIDE DEF at
    <2> QED
      BY <1>2, <2>1 DEF NamedLists
  <1> HIDE DEF at, C
  <1>4. ASSUME NEW n \in 1..C
        PROVE  row(n).contents \in Seq(1..Len(input.tracks)) /\ IsString(row(n).name)
    <2>1. IsString(p(n).name) /\ IsSequence(p(n).hashes)
      BY <1>3, InputFacts
    <2>2. ContentIds(p(n).hashes) \in Seq(1..Len(input.tracks))
      BY <2>1, ContentIdsFacts
    <2> QED
      BY <2>1, <2>2
  <1> HIDE DEF p
  <1> DEFINE f == [n \in 1..C |-> row(n)]
  <1>5. f = [n \in 1..C |-> f[n]]
    OBVIOUS
  <1>6. \A n \in 1..C : f[n] = row(n)
    OBVIOUS
  <1> HIDE DEF f
  <1>7. IsSequence(f) /\ Len(f) = C
    BY <1>2, <1>5, SequenceFacts
  <1>8. all = f
    BY <1>1 DEF f
  <1> HIDE DEF all
  <1>9. \A i \in 1..Len(f) :
           /\ f[i] = [name |-> p(i).name, contents |-> ContentIds(p(i).hashes)]
           /\ at(i) \in 1..Len(input.playlists) /\ p(i).name.len > 0
           /\ f[i].contents \in Seq(1..Len(input.tracks)) /\ IsString(f[i].name)
    BY <1>3, <1>4, <1>6, <1>7
  <1> QED
    BY <1>7, <1>8, <1>9 DEF all, p

\* What the export is made from, and that the rows that are to be written are good.
FeedOK ==
    /\ input \in Inputs
    /\ IsSequence(analyses) /\ \A i \in 1..Len(analyses) : GoodAnalysis(analyses[i])
    /\ IsSequence(lists)
    /\ \A i \in 1..Len(lists) : IsString(lists[i].name) /\ IsSequence(lists[i].contents)
    /\ DbOK
    /\ GoodRows(todo)

LEMMA InitFeed == Init => FeedOK
  <1> SUFFICES ASSUME Init PROVE FeedOK
    OBVIOUS
  <1>1. IsSequence(<<>>) /\ Len(<<>>) = 0
    BY DEF IsSequence
  <1>2. DbOK
    <2>1. db = [tracks |-> <<>>, artists |-> <<>>, albums |-> <<>>, genres |-> <<>>,
                labels |-> <<>>, keys |-> <<>>, artworks |-> <<>>, playlists |-> <<>>]
      BY DEF Init, BuildInit, EmptyDb
    <2>2. /\ db.tracks = <<>> /\ db.artists = <<>> /\ db.albums = <<>> /\ db.genres = <<>>
          /\ db.labels = <<>> /\ db.keys = <<>> /\ db.artworks = <<>> /\ db.playlists = <<>>
      BY <2>1
    <2>3. db = [tracks |-> db.tracks, artists |-> db.artists, albums |-> db.albums,
                genres |-> db.genres, labels |-> db.labels, keys |-> db.keys,
                artworks |-> db.artworks, playlists |-> db.playlists]
      BY <2>1, <2>2
    <2>4. GoodNames(<<>>)
      BY <1>1 DEF GoodNames
    <2> QED
      BY <1>1, <2>2, <2>3, <2>4 DEF DbOK, GoodDb
  <1>3. GoodRows(todo)
    BY BuiltInRowsAreGood DEF Init, BuildInit
  <1>4. analyses = <<>> /\ lists = <<>> /\ input \in Inputs
    BY DEF Init, BuildInit
  <1> QED
    BY <1>1, <1>2, <1>3, <1>4 DEF FeedOK

\* The analyses of a good input are good.
LEMMA LoadFeeds ==
  ASSUME input \in Inputs, NEW all, all = [i \in DOMAIN input.tracks |-> Analysis(input.tracks[i], i)]
  PROVE  /\ IsSequence(all) /\ Len(all) = Len(input.tracks)
         /\ \A i \in 1..Len(all) : all[i] = Analysis(input.tracks[i], i) /\ GoodAnalysis(all[i])
  <1>1. DOMAIN input.tracks = 1..Len(input.tracks) /\ Len(input.tracks) \in Nat
    BY InputFacts, SequenceFacts
  <1> DEFINE n == Len(input.tracks)
  <1>2. all = [i \in 1..n |-> all[i]]
    BY <1>1
  <1> HIDE DEF n
  <1>3. IsSequence(all) /\ Len(all) = n
    BY <1>1, <1>2, SequenceFacts DEF n
  <1>4. \A i \in 1..n : all[i] = Analysis(input.tracks[i], i)
    BY <1>1 DEF n
  <1> QED
    BY <1>3, <1>4, AnalysisIsGood DEF n

\* The rest of good rows is good.
LEMMA TailIsGood ==
  ASSUME NEW rows, GoodRows(rows), rows # <<>>
  PROVE  GoodRow(Head(rows)) /\ GoodRows(Tail(rows))
  <1>1. IsSequence(rows) /\ \A i \in 1..Len(rows) : GoodRow(rows[i])
    BY DEF GoodRows
  <1>2. /\ Len(rows) \in Nat \ {0} /\ Head(rows) = rows[1]
        /\ IsSequence(Tail(rows)) /\ Len(Tail(rows)) = Len(rows) - 1
        /\ \A i \in 1..Len(rows) - 1 : Tail(rows)[i] = rows[i + 1]
    BY <1>1, TailFacts
  <1>3. 1 \in 1..Len(rows) /\ \A i \in 1..Len(rows) - 1 : i + 1 \in 1..Len(rows)
    BY <1>2
  <1> QED
    BY <1>1, <1>2, <1>3 DEF GoodRows

\* Each step keeps this.
LEMMA DbKept ==
  ASSUME FeedOK, [Next]_vars
  PROVE  DbOK'
  <1>1. CASE PdbTrack
    <2> DEFINE a == analyses[Len(db.tracks) + 1]
               info == TrackInfo(a, db)
    <2>1. GoodDb(db)
      BY DEF FeedOK, DbOK
    <2>2. Len(db.tracks) \in Nat /\ Len(analyses) \in Nat
      BY <2>1, SequenceFacts DEF FeedOK, GoodDb
    <2>3. Len(db.tracks) < Len(analyses) /\ AddTrack(a)
      BY <1>1 DEF PdbTrack
    <2>4. Len(db.tracks) + 1 \in 1..Len(analyses)
      BY <2>2, <2>3
    <2>5. GoodAnalysis(a)
      BY <2>4 DEF FeedOK
    <2>6. WithTrack(db', db, a, info)
      BY <2>3 DEF AddTrack, WithTrack
    <2> HIDE DEF a, info
    <2>7. \A e : WithTrack(e, db, a, info) => GoodDb(e)
      BY <2>1, <2>5, TrackAdded DEF info
    <2> QED
      BY <2>6, <2>7 DEF DbOK
  <1>2. CASE PdbPlaylist
    <2> DEFINE i == Len(db.playlists) + 1
               p == [id |-> i, name |-> lists[i].name, sort |-> Len(db.playlists),
                     tracks |-> lists[i].contents]
    <2>1. GoodDb(db)
      BY DEF FeedOK, DbOK
    <2>2. Len(db.playlists) \in Nat /\ Len(lists) \in Nat
      BY <2>1, SequenceFacts DEF FeedOK, GoodDb
    <2>3. Len(db.playlists) < Len(lists) /\ db' = [db EXCEPT !.playlists = Append(@, p)]
      BY <1>2 DEF PdbPlaylist, AddPlaylist
    <2>4. i \in 1..Len(lists)
      BY <2>2, <2>3
    <2>5. IsString(p.name) /\ IsSequence(p.tracks)
      BY <2>4 DEF FeedOK
    <2> HIDE DEF p, i
    <2>6. \A e : e = [db EXCEPT !.playlists = Append(@, p)] => GoodDb(e)
      BY <2>1, <2>5, PlaylistAdded
    <2> QED
      BY <2>3, <2>6 DEF DbOK
  <1>3. CASE db' = db
    BY <1>3 DEF DbOK, GoodDb, FeedOK, GoodNames, TrackOK
  <1> QED
    BY <1>1, <1>2, <1>3 DEF Next, vars, buildVars, Load, PdbBuild, Build, BeginBuild, EmptyTable,
       StartTable, WriteNext, TurnPage, RowTooLarge, EndTable, FinishBuild, WritePdb, PdbFails,
       Give, WriteDeviceLibrary, WriteAnlz, ListAudio

\* What was loaded stays.
LEMMA InputKept ==
  ASSUME FeedOK, [Next]_vars
  PROVE  /\ (input \in Inputs)'
         /\ (IsSequence(analyses) /\ \A i \in 1..Len(analyses) : GoodAnalysis(analyses[i]))'
         /\ IsSequence(lists)'
         /\ (\A i \in 1..Len(lists) : IsString(lists[i].name) /\ IsSequence(lists[i].contents))'
  <1>1. CASE Load
    <2>1. /\ input' = input /\ lists' = SortedPlaylists
          /\ analyses' = [i \in DOMAIN input.tracks |-> Analysis(input.tracks[i], i)]
      BY <1>1 DEF Load
    <2>2. input \in Inputs
      BY DEF FeedOK
    <2>3. IsSequence(analyses') /\ \A i \in 1..Len(analyses') : GoodAnalysis(analyses'[i])
      BY <2>1, <2>2, LoadFeeds
    <2>4. /\ IsSequence(lists')
          /\ \A i \in 1..Len(lists') : IsString(lists'[i].name) /\ IsSequence(lists'[i].contents)
      BY <2>1, <2>2, SortedPlaylistsFacts DEF IsSequence
    <2> QED
      BY <2>1, <2>2, <2>3, <2>4
  <1>2. CASE UNCHANGED <<input, analyses, lists>>
    BY <1>2 DEF FeedOK
  <1> QED
    BY <1>1, <1>2 DEF Next, vars, layoutVars, PdbTrack, PdbPlaylist, PdbBuild, WritePdb, PdbFails,
       Give, WriteDeviceLibrary, WriteAnlz, ListAudio

\* Rows to come are rows of a table.
LEMMA TodoKept ==
  ASSUME FeedOK, [Next]_vars
  PROVE  GoodRows(todo)'
  <1>1. GoodRows(todo)
    BY DEF FeedOK
  <1>2. CASE UNCHANGED todo
    BY <1>1, <1>2
  <1>3. CASE StartTable
    <2>1. \E t : table = t /\ todo' = TableRows(t)
      BY <1>3 DEF StartTable
    <2> QED
      BY <2>1, TableRowsAreGood DEF FeedOK
  <1>4. CASE WriteNext \/ TurnPage
    <2>1. todo # <<>> /\ todo' = Tail(todo)
      BY <1>4 DEF WriteNext, TurnPage
    <2> QED
      BY <1>1, <2>1, TailIsGood
  <1> QED
    BY <1>2, <1>3, <1>4 DEF Next, vars, buildVars, Load, PdbTrack, PdbPlaylist, EmptyTable,
       PdbBuild, Build, BeginBuild, RowTooLarge, EndTable, FinishBuild, WritePdb, PdbFails,
       Give, WriteDeviceLibrary, WriteAnlz, ListAudio

LEMMA FeedHolds == Spec => []FeedOK
  <1>1. FeedOK /\ [Next]_vars => FeedOK'
    BY DbKept, InputKept, TodoKept DEF FeedOK
  <1> QED
    BY <1>1, InitFeed, PTL DEF Spec

\* For any export: no row that is to be written is shorter than the padding that may be
\* left out in front of it, whatever the names in it are, as every row of pdb.rs starts with
\* a head of at least four bytes.
THEOREM RowsStayLong == Spec => []RowsAreLong
  <1>1. FeedOK => RowsAreLong
    <2> SUFFICES ASSUME FeedOK, todo # <<>> PROVE Head(todo).size \in Nat /\ Head(todo).size > 3
      BY DEF RowsAreLong
    <2>1. GoodRow(Head(todo))
      BY TailIsGood DEF FeedOK
    <2> QED
      BY <2>1 DEF GoodRow
  <1> QED
    BY <1>1, FeedHolds, PTL
-----------------------------------------------------------------------------
(* The file.  Until it is finished its pages stand where they say, tables   *)
(* lie behind each other and the only pages of zeros are those of tables    *)
(* without rows; which these are is settled before the first table, when    *)
(* every track and playlist has been added (SettledOK).                     *)

PagesOK ==
    /\ IsSequence(pages) /\ Len(pages) >= 1
    /\ \A i \in 2..Len(pages) : StandsAt(pages[i], i - 1)

\* The table that is being written.
OpenTableOK ==
    /\ IsSequence(data)
    /\ \A i \in 1..Len(data) :
          /\ StandsAt(data[i], Len(pages) + i) /\ data[i].index # 0
          /\ data[i].type = table /\ data[i].next = Len(pages) + i + 1
    /\ IF page = NoPage
       THEN nextIndex = Len(pages) /\ todo = <<>> /\ data = <<>>
       ELSE /\ nextIndex = Len(pages) + Len(data) + 2 /\ page.index = nextIndex - 1
            /\ page.type = table
            /\ \E t \in 0..NumTables - 1 : table = t /\ TableRows(t) # <<>>

\* The last page of a table, which is one of zeros if it has no rows.
Ends(k) == IF TableRows(k - 1) = <<>> THEN infos[k].last + 1 ELSE infos[k].last

\* The tables that are: each behind the ones before it, with its pages linked in order.
TableOK(k) ==
    /\ infos[k].index \in Nat \ {0} /\ infos[k].last \in Nat
    /\ infos[k].last < Len(pages)
    /\ IF TableRows(k - 1) = <<>>
       THEN /\ infos[k].last = infos[k].index
            /\ infos[k].last + 2 <= Len(pages) /\ pages[infos[k].last + 2] = ZeroPage
            /\ pages[infos[k].last + 1].next = infos[k].last + 1
       ELSE infos[k].last > infos[k].index
    /\ pages[infos[k].index + 1].index = infos[k].index
    /\ \A i \in infos[k].index..infos[k].last - 1 : pages[i + 1].next = i + 1
    /\ \A i \in infos[k].index + 1..infos[k].last : pages[i + 1].type = k - 1
    /\ \A j \in 1..k - 1 : Ends(j) < infos[k].index

TablesOK ==
    /\ table \in 0..NumTables /\ IsSequence(infos) /\ Len(infos) = table
    /\ \A k \in 1..table : TableOK(k)
    /\ \A i \in 2..Len(pages) :
          pages[i].index = 0 =>
              \E k \in 1..table : TableRows(k - 1) = <<>> /\ infos[k].last = i - 2

IsDb ==
    /\ db = [tracks |-> db.tracks, artists |-> db.artists, albums |-> db.albums,
             genres |-> db.genres, labels |-> db.labels, keys |-> db.keys,
             artworks |-> db.artworks, playlists |-> db.playlists]
    /\ IsSequence(db.tracks) /\ IsSequence(db.playlists)

SettledOK ==
    /\ stage \in {"add", "build", "built", "failed"}
    /\ IsDb
    /\ phase = "load" => stage = "add"
    /\ stage = "add" => page = NoPage /\ table = 0
    /\ stage # "add" => Len(db.tracks) = Len(analyses) /\ Len(db.playlists) = Len(lists)

\* What PagesAreSound says of the finished pages.
FinishedPagesOK == stage = "built" => \A i \in DOMAIN pages : FinishedPageIsSound(i)

PInv ==
    /\ SettledOK
    /\ Sound(page)
    /\ stage # "built" => PagesOK /\ OpenTableOK /\ TablesOK
    /\ OnlyKnownComplaints
    /\ FinishedPagesOK
    /\ ChainsAreDisjoint

LEMMA InitPInv == Init => PInv
  <1> SUFFICES ASSUME Init PROVE PInv
    OBVIOUS
  <1> USE DEF Init, BuildInit
  <1>1. SettledOK
    <2>1. IsSequence(<<>>)
      BY DEF IsSequence
    <2>2. db.tracks = <<>> /\ db.playlists = <<>>
      BY DEF EmptyDb
    <2>3. db = [tracks |-> db.tracks, artists |-> db.artists, albums |-> db.albums,
                genres |-> db.genres, labels |-> db.labels, keys |-> db.keys,
                artworks |-> db.artworks, playlists |-> db.playlists]
      BY DEF EmptyDb
    <2>4. IsDb
      BY <2>1, <2>2, <2>3 DEF IsDb
    <2> QED
      BY <2>4 DEF SettledOK
  <1>2. Sound(page)
    <2>1. page = NewPage(0, 0)
      BY DEF NewPage, NoPage
    <2> QED
      BY <2>1, NewPageIsSound
  <1>3. PagesOK /\ OpenTableOK /\ TablesOK
    <2>1. Len(pages) = 1 /\ IsSequence(pages) /\ IsSequence(data) /\ Len(data) = 0
          /\ IsSequence(infos) /\ Len(infos) = 0
      <3>1. <<ZeroPage>> \in Seq({ZeroPage}) /\ <<>> \in Seq({}) /\ Len(<<ZeroPage>>) = 1
        OBVIOUS
      <3>2. pages = <<ZeroPage>> /\ data = <<>> /\ infos = <<>>
        OBVIOUS
      <3> QED
        BY <3>1, <3>2 DEF IsSequence
    <2>2. PagesOK /\ OpenTableOK
      BY <2>1 DEF PagesOK, OpenTableOK
    <2>3. table = 0 /\ 0 \in 0..NumTables
      BY DEF NumTables
    <2>4. TablesOK
      BY <2>1, <2>3 DEF TablesOK
    <2> QED
      BY <2>2, <2>4
  <1>4. OnlyKnownComplaints /\ FinishedPagesOK /\ ChainsAreDisjoint
    BY DEF OnlyKnownComplaints, FinishedPagesOK, ChainsAreDisjoint
  <1> QED
    BY <1>1, <1>2, <1>3, <1>4 DEF PInv

\* The rows of the tables stay when the tracks and playlists do.
LEMMA RowsStay ==
  ASSUME db' = db
  PROVE  \A t \in 0..NumTables : TableRows(t)' = TableRows(t)
  BY DEF TableRows, TrackRows, GenreRows, ArtistRows, AlbumRows, LabelRows, KeyRows,
      PlaylistTreeRows, PlaylistEntryRows, ArtworkRows

\* Tracks and playlists are added before the first table only.
LEMMA AddTrackFacts ==
  ASSUME IsDb, NEW a, AddTrack(a)
  PROVE  IsDb'
  <1> DEFINE info == TrackInfo(a, db)
             artists == Named(db.artists, a.artist)
             albums == IF a.album.len = 0 THEN db.albums
                       ELSE GetOrCreate(db.albums, AlbumKey(a.album, info.artist))
             genres == Named(db.genres, a.genre)
             labels == Named(db.labels, a.label)
             keys == IF a.key = NoKey THEN db.keys ELSE GetOrCreate(db.keys, ToRekordboxId(a.key))
             artworks == Named(db.artworks, a.artwork)
             tracks == Append(db.tracks, info)
  <1>1. db' = [db EXCEPT !.artists = artists, !.albums = albums, !.genres = genres,
                         !.labels = labels, !.keys = keys, !.artworks = artworks,
                         !.tracks = tracks]
    BY DEF AddTrack
  <1>2. IsSequence(tracks) /\ IsSequence(db.playlists)
    BY AppendFacts DEF IsDb
  <1> HIDE DEF info, artists, albums, genres, labels, keys, artworks, tracks
  <1>3. db' = [tracks |-> tracks, artists |-> artists, albums |-> albums,
               genres |-> genres, labels |-> labels, keys |-> keys,
               artworks |-> artworks, playlists |-> db.playlists]
    BY <1>1 DEF IsDb
  <1>4. db'.tracks = tracks /\ db'.playlists = db.playlists
    BY <1>3
  <1>5. db' = [tracks |-> db'.tracks, artists |-> db'.artists, albums |-> db'.albums,
               genres |-> db'.genres, labels |-> db'.labels, keys |-> db'.keys,
               artworks |-> db'.artworks, playlists |-> db'.playlists]
    BY <1>3
  <1> QED
    BY <1>2, <1>4, <1>5 DEF IsDb

\* The tables stay what they are when a playlist is added.
LEMMA AddPlaylistFacts ==
  ASSUME IsDb, NEW id, NEW name, NEW ids, AddPlaylist(id, name, ids)
  PROVE  IsDb'
  <1> DEFINE x == [id |-> id, name |-> name, sort |-> Len(db.playlists), tracks |-> ids]
             all == Append(db.playlists, x)
  <1>1. db' = [db EXCEPT !.playlists = all]
    BY DEF AddPlaylist
  <1>2. IsSequence(all) /\ IsSequence(db.tracks)
    BY AppendFacts DEF IsDb
  <1> HIDE DEF all
  <1>3. db' = [tracks |-> db.tracks, artists |-> db.artists, albums |-> db.albums,
               genres |-> db.genres, labels |-> db.labels, keys |-> db.keys,
               artworks |-> db.artworks, playlists |-> all]
    BY <1>1 DEF IsDb
  <1>4. db'.tracks = db.tracks /\ db'.playlists = all
    BY <1>3
  <1>5. db' = [tracks |-> db'.tracks, artists |-> db'.artists, albums |-> db'.albums,
               genres |-> db'.genres, labels |-> db'.labels, keys |-> db'.keys,
               artworks |-> db'.artworks, playlists |-> db'.playlists]
    BY <1>3
  <1> QED
    BY <1>2, <1>4, <1>5 DEF IsDb

\* The tables are as they were unless tracks and playlists are still being added.
LEMMA SettledKept ==
  ASSUME PInv, [Next]_vars
  PROVE  SettledOK' /\ (db' = db \/ (stage = "add" /\ UNCHANGED <<stage, table, page, todo, data,
                                          pages, infos, nextIndex, sequence, header>>))
  <1>0. SettledOK
    BY DEF PInv
  <1>1. CASE PdbTrack
    <2>1. /\ Len(db.tracks) < Len(analyses) /\ phase = "pdb"
          /\ UNCHANGED <<stage, table, page, todo, data, pages, infos, nextIndex, sequence, header>>
          /\ UNCHANGED <<phase, analyses, lists>>
      BY <1>1 DEF PdbTrack, layoutVars
    <2>2. stage = "add"
      <3>1. Len(db.tracks) \in Nat
        BY <1>0 DEF SettledOK, IsDb, IsSequence
      <3> QED
        BY <1>0, <2>1, <3>1 DEF SettledOK
    <2>3. IsDb'
      BY <1>0, <1>1, AddTrackFacts DEF PdbTrack, SettledOK
    <2> QED
      BY <1>0, <2>1, <2>2, <2>3 DEF SettledOK
  <1>2. CASE PdbPlaylist
    <2>1. /\ Len(db.playlists) < Len(lists) /\ phase = "pdb"
          /\ UNCHANGED <<stage, table, page, todo, data, pages, infos, nextIndex, sequence, header>>
          /\ UNCHANGED <<phase, analyses, lists>>
      BY <1>2 DEF PdbPlaylist, layoutVars
    <2>2. stage = "add"
      <3>1. Len(db.playlists) \in Nat
        BY <1>0 DEF SettledOK, IsDb, IsSequence
      <3> QED
        BY <1>0, <2>1, <3>1 DEF SettledOK
    <2>3. IsDb'
      BY <1>0, <1>2, AddPlaylistFacts DEF PdbPlaylist, SettledOK
    <2> QED
      BY <1>0, <2>1, <2>2, <2>3 DEF SettledOK
  <1>3. CASE PdbBuild
    <2>1. /\ phase = "pdb" /\ Len(db.tracks) = Len(analyses) /\ Len(db.playlists) = Len(lists)
          /\ Build /\ UNCHANGED <<phase, analyses, lists>>
      BY <1>3 DEF PdbBuild, layoutVars
    <2>2. db' = db /\ stage' \in {"build", "built", "failed"}
      BY <1>0, <2>1 DEF Build, BeginBuild, EmptyTable, StartTable, WriteNext, TurnPage,
          RowTooLarge, EndTable, FinishBuild, SettledOK
    <2>3. IsDb'
      BY <1>0, <2>2 DEF SettledOK, IsDb
    <2> QED
      BY <1>0, <2>1, <2>2, <2>3 DEF SettledOK
  <1>4. CASE Load
    BY <1>0, <1>4 DEF Load, buildVars, SettledOK, IsDb
  <1>5. CASE UNCHANGED <<buildVars, analyses, lists>> /\ phase' # "load"
    BY <1>0, <1>5 DEF buildVars, SettledOK, IsDb
  <1>6. CASE UNCHANGED vars
    BY <1>0, <1>6 DEF vars, buildVars, layoutVars, SettledOK, IsDb
  <1>7. CASE WritePdb \/ PdbFails \/ WriteDeviceLibrary \/ WriteAnlz \/ ListAudio
             \/ Give({"load", "library", "anlz", "audio"})
    BY <1>5, <1>7 DEF WritePdb, PdbFails, Give, WriteDeviceLibrary, WriteAnlz, ListAudio
  <1> QED
    BY <1>1, <1>2, <1>3, <1>4, <1>6, <1>7 DEF Next

\* The page that is being filled stays sound.
LEMMA SoundKept ==
  ASSUME PInv, RowsAreLong, [Next]_vars
  PROVE  Sound(page)'
  <1>0. Sound(page) /\ SettledOK /\ (stage # "built" => OpenTableOK /\ PagesOK)
    BY DEF PInv
  <1>1. CASE page' = page
    BY <1>0, <1>1
  <1>2. CASE page' = NoPage
    <2>1. page' = NewPage(0, 0)
      BY <1>2 DEF NoPage, NewPage
    <2> QED
      BY <2>1, NewPageIsSound
  <1>n. stage # "built" => nextIndex \in Nat \ {0}
    BY <1>0 DEF OpenTableOK, PagesOK, IsSequence
  <1>3. CASE StartTable
    <2>1. page' = NewPage(nextIndex + 1, table) /\ nextIndex + 1 \in Nat
      BY <1>n, <1>3 DEF StartTable
    <2> QED
      BY <2>1, NewPageIsSound
  <1>4. CASE WriteNext
    <2>1. /\ page' = WriteRow(page, Head(todo)) /\ ~WouldOverflow(page, Head(todo).size)
          /\ Head(todo).size \in Nat /\ Head(todo).size > 3
      BY <1>4 DEF WriteNext, RowsAreLong
    <2> QED
      BY <1>0, <2>1, WriteRowIsSound
  <1>5. CASE TurnPage
    <2>1. PICK fresh : /\ fresh = NewPage(nextIndex, table)
                       /\ page' = WriteRow(fresh, Head(todo))
                       /\ ~WouldOverflow(fresh, Head(todo).size)
      BY <1>5 DEF TurnPage
    <2>2. Head(todo).size \in Nat /\ Head(todo).size > 3 /\ nextIndex \in Nat
      BY <1>n, <1>5 DEF TurnPage, RowsAreLong
    <2> QED
      BY <2>1, <2>2, NewPageIsSound, WriteRowIsSound
  <1>6. CASE PdbBuild
    BY <1>1, <1>2, <1>3, <1>4, <1>5, <1>6 DEF PdbBuild, Build, BeginBuild, EmptyTable,
        RowTooLarge, EndTable, FinishBuild
  <1>7. CASE ~PdbBuild
    <2>1. page' = page
      BY <1>7 DEF Next, vars, buildVars, Load, PdbTrack, PdbPlaylist, WritePdb, PdbFails, Give,
          WriteDeviceLibrary, WriteAnlz, ListAudio
    <2> QED
      BY <1>1, <2>1
  <1> QED
    BY <1>6, <1>7
-----------------------------------------------------------------------------
(* build, step by step.                                                    *)

\* A table stays as it is when pages are added behind it.
LEMMA TableStays ==
  ASSUME NEW k \in Nat, TableOK(k), Len(pages) \in Nat, Len(pages') \in Nat,
         Len(pages) <= Len(pages'),
         \A i \in 1..Len(pages) : pages'[i] = pages[i],
         \A j \in 1..k : TableRows(j - 1)' = TableRows(j - 1) /\ infos'[j] = infos[j],
         k \in 1..k
  PROVE  TableOK(k)'
  <1> DEFINE a == infos[k].index
             b == infos[k].last
  <1>1. /\ a \in Nat \ {0} /\ b \in Nat /\ b < Len(pages) /\ a <= b
        /\ IF TableRows(k - 1) = <<>>
           THEN /\ b = a /\ b + 2 <= Len(pages) /\ pages[b + 2] = ZeroPage
                /\ pages[b + 1].next = b + 1
           ELSE b > a
    BY DEF TableOK
  <1>2. /\ pages[a + 1].index = a
        /\ \A i \in a..b - 1 : pages[i + 1].next = i + 1
        /\ \A i \in a + 1..b : pages[i + 1].type = k - 1
        /\ \A j \in 1..k - 1 : Ends(j) < a
    BY DEF TableOK
  <1>3. infos'[k].index = a /\ infos'[k].last = b /\ TableRows(k - 1)' = TableRows(k - 1)
    OBVIOUS
  <1> HIDE DEF a, b
  <1>4. /\ a + 1 \in 1..Len(pages) /\ b + 1 \in 1..Len(pages)
        /\ b + 2 <= Len(pages) => b + 2 \in 1..Len(pages)
        /\ \A i \in a..b : i + 1 \in 1..Len(pages)
        /\ \A i \in a..b - 1 : i \in a..b
        /\ \A i \in a + 1..b : i \in a..b
    BY <1>1
  <1>5. /\ pages'[a + 1].index = a
        /\ \A i \in a..b - 1 : pages'[i + 1].next = i + 1
        /\ \A i \in a + 1..b : pages'[i + 1].type = k - 1
    BY <1>2, <1>4
  <1>6. IF TableRows(k - 1) = <<>>
        THEN /\ b = a /\ b + 2 <= Len(pages) /\ pages'[b + 2] = ZeroPage
             /\ pages'[b + 1].next = b + 1
        ELSE b > a
    BY <1>1, <1>4
  <1>7. b < Len(pages') /\ (b + 2 <= Len(pages) => b + 2 <= Len(pages'))
    BY <1>1
  <1>8. ASSUME NEW j \in 1..k - 1 PROVE Ends(j)' < a
    <2>1. j \in 1..k
      OBVIOUS
    <2>2. Ends(j)' = Ends(j)
      BY <2>1 DEF Ends
    <2> QED
      BY <1>2, <2>2
  <1> QED
    BY <1>1, <1>3, <1>5, <1>6, <1>7, <1>8 DEF TableOK

\* A step that adds no page and no table.
LEMMA FileStays ==
  ASSUME PagesOK, TablesOK, UNCHANGED <<table, pages, infos>>,
         db' = db \/ table = 0
  PROVE  PagesOK' /\ TablesOK'
  <1>1. PagesOK'
    BY DEF PagesOK
  <1>2. CASE table = 0
    BY <1>1, <1>2 DEF TablesOK
  <1>3. CASE db' = db
    <2>1. \A k \in 1..table : TableRows(k - 1)' = TableRows(k - 1)
      <3>1. \A k \in 1..table : k - 1 \in 0..NumTables
        BY DEF TablesOK, NumTables
      <3> QED
        BY <1>3, <3>1, RowsStay
    <2>2. ASSUME NEW k \in 1..table PROVE TableOK(k)'
      <3>1. \A j \in 1..k : j \in 1..table
        BY DEF TablesOK
      <3>2. \A j \in 1..k : TableRows(j - 1)' = TableRows(j - 1)
        BY <2>1, <3>1
      <3>3. Len(pages) \in Nat
        BY DEF PagesOK, IsSequence
      <3>4. TableOK(k) /\ k \in 1..k /\ k \in Nat
        BY DEF TablesOK
      <3> QED
        BY <3>2, <3>3, <3>4, TableStays
    <2> QED
      BY <1>1, <2>1, <2>2 DEF TablesOK
  <1> QED
    BY <1>2, <1>3

\* Numbers of a smaller range.
LEMMA RangesNest ==
  ASSUME NEW t \in 0..19
  PROVE  /\ t \in Nat /\ (t + 1) - 1 = t /\ t \in 0..t /\ t + 1 \in 0..20
         /\ \A k \in 1..t : /\ k \in Nat /\ k \in 1..k
                          /\ \A j \in 1..k : j \in 1..t /\ j - 1 \in 0..t
         /\ \A k \in 1..(t + 1) : k \in 1..t \/ k = t + 1
  OBVIOUS

\* The pages of a new table, as the step links them.
Links(t, first, last) ==
    /\ IF TableRows(t) = <<>>
       THEN /\ last = first /\ last + 2 <= Len(pages') /\ pages'[last + 2] = ZeroPage
            /\ pages'[last + 1].next = last + 1
       ELSE last > first
    /\ pages'[first + 1].index = first
    /\ \A i \in first..last - 1 : pages'[i + 1].next = i + 1
    /\ \A i \in first + 1..last : pages'[i + 1].type = t

\* A table that is finished lies behind the others; a page of zeros is its last if
\* it has no rows.
LEMMA TablesGrow ==
  ASSUME PagesOK, TablesOK, db' = db, NEW t \in 0..19, table = t, table' = t + 1,
         NEW m \in Nat, IsSequence(pages'), Len(pages') = Len(pages) + m,
         \A i \in 1..Len(pages) : pages'[i] = pages[i],
         \A i \in 1..m : StandsAt(pages'[Len(pages) + i], Len(pages) + i - 1),
         NEW first \in Nat \ {0}, first = Len(pages), NEW last \in Nat,
         infos' = Append(infos, [index |-> first, last |-> last]),
         last < Len(pages) + m,
         Links(t, first, last),
         \A i \in 1..m : pages'[Len(pages) + i].index = 0 =>
                            TableRows(t) = <<>> /\ last = Len(pages) + i - 2
  PROVE  PagesOK' /\ TablesOK'
  <1>0. /\ NumTables = 20 /\ Len(pages) \in Nat /\ Len(pages) >= 1
        /\ IsSequence(infos) /\ Len(infos) = t
    BY DEF TablesOK, PagesOK, IsSequence, NumTables
  <1>1. ASSUME NEW i \in 2..(Len(pages) + m)
        PROVE  \/ i \in 2..Len(pages) /\ pages'[i] = pages[i]
               \/ \E j \in 1..m : i = Len(pages) + j
    <2>1. CASE i <= Len(pages)
      <3>1. i \in 2..Len(pages) /\ i \in 1..Len(pages)
        BY <1>0, <2>1
      <3> QED
        BY <3>1
    <2>2. CASE i > Len(pages)
      <3>1. i - Len(pages) \in 1..m /\ i = Len(pages) + (i - Len(pages))
        BY <1>0, <2>2
      <3> QED
        BY <3>1
    <2> QED
      BY <1>0, <2>1, <2>2
  <1>2. PagesOK'
    <2>1. ASSUME NEW i \in 2..(Len(pages) + m) PROVE StandsAt(pages'[i], i - 1)
      <3>1. CASE i \in 2..Len(pages) /\ pages'[i] = pages[i]
        BY <3>1 DEF PagesOK
      <3>2. CASE \E j \in 1..m : i = Len(pages) + j
        <4>1. PICK j \in 1..m : i = Len(pages) + j
          BY <3>2
        <4>2. StandsAt(pages'[Len(pages) + j], Len(pages) + j - 1)
          OBVIOUS
        <4> QED
          BY <4>1, <4>2
      <3> QED
        BY <1>1, <3>1, <3>2
    <2>2. Len(pages') >= 1
      BY <1>0
    <2> QED
      BY <2>1, <2>2 DEF PagesOK
  <1>3. /\ IsSequence(infos') /\ Len(infos') = t + 1
        /\ infos'[t + 1] = [index |-> first, last |-> last]
        /\ \A k \in 1..t : infos'[k] = infos[k]
    BY <1>0, AppendFacts
  <1>4. \A k \in 0..t : TableRows(k)' = TableRows(k)
    <2>1. \A k \in 0..t : k \in 0..NumTables
      BY <1>0
    <2> QED
      BY <2>1, RowsStay
  <1>5. ASSUME NEW k \in 1..t PROVE TableOK(k)'
    <2>1. TableOK(k)
      BY DEF TablesOK
    <2>2. /\ k \in Nat /\ k \in 1..k
          /\ \A j \in 1..k : j \in 1..t /\ j - 1 \in 0..t
      BY RangesNest
    <2>3. \A j \in 1..k : TableRows(j - 1)' = TableRows(j - 1) /\ infos'[j] = infos[j]
      BY <1>3, <1>4, <2>2
    <2>4. Len(pages') \in Nat /\ Len(pages) <= Len(pages')
      BY <1>0
    <2> QED
      BY <1>0, <2>1, <2>2, <2>3, <2>4, TableStays
  <1>6. TableOK(t + 1)'
    <2>1. TableRows((t + 1) - 1)' = TableRows(t) /\ (t + 1) - 1 = t
      BY <1>4, RangesNest
    <2>2. ASSUME NEW j \in 1..t PROVE Ends(j)' < first
      <3>1. TableOK(j) /\ j - 1 \in 0..t /\ infos'[j] = infos[j]
        BY <1>3 DEF TablesOK
      <3>2. Ends(j)' = Ends(j)
        BY <1>4, <3>1 DEF Ends
      <3>3. Ends(j) < first
        <4> DEFINE b == infos[j].last
        <4>1. b \in Nat /\ b < Len(pages) /\ (TableRows(j - 1) = <<>> => b + 2 <= Len(pages))
          BY <3>1 DEF TableOK
        <4>2. Ends(j) = IF TableRows(j - 1) = <<>> THEN b + 1 ELSE b
          BY DEF Ends
        <4> HIDE DEF b
        <4> QED
          BY <1>0, <4>1, <4>2
      <3> QED
        BY <3>2, <3>3
    <2>3. infos'[t + 1].index = first /\ infos'[t + 1].last = last
      BY <1>3
    <2>4. last < Len(pages')
      OBVIOUS
    <2>5. \A j \in 1..(t + 1) - 1 : Ends(j)' < first
      BY <2>1, <2>2
    <2> QED
      BY <2>1, <2>3, <2>4, <2>5 DEF TableOK, Links
  <1>7. ASSUME NEW i \in 2..(Len(pages) + m), pages'[i].index = 0
        PROVE  \E k \in 1..(t + 1) : TableRows(k - 1)' = <<>> /\ infos'[k].last = i - 2
    <2>1. CASE i \in 2..Len(pages) /\ pages'[i] = pages[i]
      <3>1. PICK k \in 1..t : TableRows(k - 1) = <<>> /\ infos[k].last = i - 2
        BY <1>7, <2>1 DEF TablesOK
      <3>2. k \in 1..(t + 1) /\ k - 1 \in 0..t
        BY <3>1
      <3>3. TableRows(k - 1)' = <<>> /\ infos'[k].last = i - 2
        BY <1>3, <1>4, <3>1, <3>2
      <3> QED
        BY <3>2, <3>3
    <2>2. CASE \E j \in 1..m : i = Len(pages) + j
      <3>0. PICK j \in 1..m : i = Len(pages) + j
        BY <2>2
      <3>1. TableRows(t) = <<>> /\ last = i - 2
        <4>1. pages'[Len(pages) + j].index = 0
          BY <1>7, <3>0
        <4>2. TableRows(t) = <<>> /\ last = Len(pages) + j - 2
          BY <4>1
        <4> QED
          BY <3>0, <4>2
      <3>2. t + 1 \in 1..(t + 1) /\ (t + 1) - 1 = t /\ t \in 0..t
        OBVIOUS
      <3>3. TableRows((t + 1) - 1)' = <<>> /\ infos'[t + 1].last = i - 2
        BY <1>3, <1>4, <3>1, <3>2
      <3> QED
        BY <3>2, <3>3
    <2> QED
      BY <1>1, <2>1, <2>2
  <1> QED
    <2>1. \A k \in 1..(t + 1) : k \in 1..t \/ k = t + 1
      BY RangesNest
    <2>2. \A k \in 1..(t + 1) : TableOK(k)'
      BY <1>5, <1>6, <2>1
    <2>3. t + 1 \in 0..20
      BY RangesNest
    <2>4. TablesOK'
      BY <1>0, <1>3, <1>7, <2>2, <2>3 DEF TablesOK
    <2> QED
      BY <1>2, <2>4

\* The table with the step that is about to be taken on it, as a constant.
LEMMA StepFacts ==
  ASSUME PInv, Build, stage # "built"
  PROVE  /\ Sound(page) /\ PagesOK /\ OpenTableOK /\ TablesOK
         /\ db' = db /\ table \in 0..NumTables
         /\ Len(pages) \in Nat /\ Len(pages) >= 1 /\ Len(data) \in Nat
         /\ \A t \in 0..NumTables : TableRows(t)' = TableRows(t)
  <1>1. db' = db
    BY DEF Build, BeginBuild, EmptyTable, StartTable, WriteNext, TurnPage,
        RowTooLarge, EndTable, FinishBuild
  <1>2. Sound(page) /\ PagesOK /\ OpenTableOK /\ TablesOK
    BY DEF PInv
  <1>3. Len(pages) \in Nat /\ Len(pages) >= 1 /\ Len(data) \in Nat
    BY <1>2 DEF PagesOK, OpenTableOK, IsSequence
  <1> QED
    BY <1>1, <1>2, <1>3, RowsStay DEF TablesOK

\* A step that leaves the table that is being written alone.
LEMMA OpenTableStays ==
  ASSUME OpenTableOK, UNCHANGED <<table, page, todo, data, pages, nextIndex>>,
         \A t \in 0..NumTables : TableRows(t)' = TableRows(t)
  PROVE  OpenTableOK'
  <1>1. \A t \in 0..NumTables - 1 : t \in 0..NumTables
    BY DEF NumTables
  <1>2. CASE page = NoPage
    BY <1>2 DEF OpenTableOK, NoPage
  <1>3. CASE page # NoPage
    <2>1. PICK t \in 0..NumTables - 1 : table = t /\ TableRows(t) # <<>>
      BY <1>3 DEF OpenTableOK
    <2>2. \E u \in 0..NumTables - 1 : table' = u /\ TableRows(u)' # <<>>
      BY <1>1, <2>1
    <2> QED
      BY <1>3, <2>2 DEF OpenTableOK, NoPage
  <1> QED
    BY <1>2, <1>3

\* A table without rows: an index page and a page of zeros.
LEMMA EmptyTableKeeps ==
  ASSUME PInv, EmptyTable
  PROVE  /\ OpenTableOK' /\ PagesOK' /\ TablesOK'
         /\ \A i \in 1..Len(pages) : pages'[i] = pages[i]
         /\ pages'[Len(pages) + 1] = IndexPage(Len(pages))
         /\ infos' = Append(infos, [index |-> Len(pages), last |-> Len(pages)])
  <1>0. /\ PagesOK /\ OpenTableOK /\ TablesOK /\ db' = db
        /\ Len(pages) \in Nat /\ Len(pages) >= 1
        /\ table \in 0..NumTables
    BY StepFacts DEF EmptyTable, Build
  <1> DEFINE L == Len(pages)
             two == <<IndexPage(L), ZeroPage>>
  <1>1. PICK t \in 0..19 : t = table
    BY <1>0 DEF EmptyTable, NumTables
  <1>2. /\ nextIndex = L /\ todo = <<>> /\ data = <<>> /\ page = NoPage
        /\ page' = page /\ todo' = todo /\ data' = data
    BY <1>0 DEF EmptyTable, OpenTableOK
  <1>3. /\ pages' = pages \o two
        /\ infos' = Append(infos, [index |-> L, last |-> L])
        /\ nextIndex' = L + 2 /\ table' = t + 1 /\ TableRows(t) = <<>>
    BY <1>1, <1>2 DEF EmptyTable
  <1>4. IsSequence(two) /\ Len(two) = 2 /\ two[1] = IndexPage(L) /\ two[2] = ZeroPage
    <2>1. two \in Seq({IndexPage(L), ZeroPage})
      OBVIOUS
    <2> QED
      BY <2>1 DEF IsSequence
  <1>5. /\ IsSequence(pages') /\ Len(pages') = L + 2
        /\ \A i \in 1..L : pages'[i] = pages[i]
        /\ pages'[L + 1] = IndexPage(L) /\ pages'[L + 2] = ZeroPage
    <2>1. IsSequence(pages)
      BY <1>0 DEF PagesOK
    <2>2. pages' = pages \o two /\ IsSequence(two) /\ Len(two) = 2
          /\ two[1] = IndexPage(L) /\ two[2] = ZeroPage
      BY <1>3, <1>4
    <2> HIDE DEF two
    <2>3. /\ IsSequence(pages \o two) /\ Len(pages \o two) = Len(pages) + Len(two)
          /\ \A i \in 1..Len(pages) : (pages \o two)[i] = pages[i]
          /\ \A i \in 1..Len(two) : (pages \o two)[Len(pages) + i] = two[i]
      <3>1. IsSequence(two)
        BY <2>2
      <3> QED
        BY <2>1, <3>1, ConcatFacts
    <2>4. /\ IsSequence(pages \o two) /\ Len(pages \o two) = L + 2
          /\ \A i \in 1..L : (pages \o two)[i] = pages[i]
          /\ \A i \in 1..2 : (pages \o two)[L + i] = two[i]
      BY <2>2, <2>3
    <2>5. 1 \in 1..2 /\ 2 \in 1..2
      OBVIOUS
    <2> HIDE DEF L
    <2> QED
      BY <2>2, <2>4, <2>5
  <1>6. /\ StandsAt(IndexPage(L), L) /\ IndexPage(L).index = L
        /\ IndexPage(L).next = L + 1
        /\ StandsAt(ZeroPage, L + 1) /\ ZeroPage.index = 0
    <2>1. L \in Nat \ {0}
      BY <1>0
    <2> HIDE DEF L
    <2>2. /\ StandsAt(IndexPage(L), L) /\ IndexPage(L).index = L
          /\ IndexPage(L).next = L + 1
      BY <2>1, FixedPages
    <2>3. IsPage(ZeroPage) /\ ZeroPage.index = 0 /\ ZeroPage.flags = 0
      BY FixedPages
    <2>4. StandsAt(ZeroPage, L + 1)
      BY <2>3 DEF StandsAt
    <2> QED
      BY <2>2, <2>3, <2>4
  <1> HIDE DEF two, L
  <1>7. L \in Nat \ {0} /\ L = Len(pages)
    BY <1>0 DEF L
  <1>8. ASSUME NEW i \in 1..2
        PROVE  /\ StandsAt(pages'[L + i], L + i - 1)
               /\ pages'[L + i].index = 0 => TableRows(t) = <<>> /\ L = L + i - 2
    <2>1. CASE i = 1
      <3>1. L + i = L + 1 /\ L + i - 1 = L
        BY <1>7, <2>1
      <3> QED
        BY <1>5, <1>6, <1>7, <3>1
    <2>2. CASE i = 2
      <3>1. L + i = L + 2 /\ L + i - 1 = L + 1 /\ L = L + i - 2
        BY <1>7, <2>2
      <3> QED
        BY <1>3, <1>5, <1>6, <3>1
    <2> QED
      BY <2>1, <2>2
  <1>9. L < L + 2 /\ L + 2 <= L + 2 /\ L \in Nat
    BY <1>7
  <1>12. /\ pages'[L + 1].index = L /\ pages'[L + 1].next = L + 1 /\ pages'[L + 2] = ZeroPage
         /\ \A i \in L..L - 1 : pages'[i + 1].next = i + 1
         /\ \A i \in L + 1..L : pages'[i + 1].type = t
    <2>1. /\ pages'[L + 1].index = L /\ pages'[L + 1].next = L + 1 /\ pages'[L + 2] = ZeroPage
      BY <1>5, <1>6
    <2>2. L..L - 1 = {} /\ L + 1..L = {}
      BY <1>7
    <2> QED
      BY <2>1, <2>2
  <1>13. Links(t, L, L)
    BY <1>3, <1>5, <1>7, <1>9, <1>12 DEF Links
  <1>10. PagesOK' /\ TablesOK'
    BY <1>0, <1>1, <1>3, <1>5, <1>7, <1>8, <1>9, <1>13, TablesGrow
  <1>11. OpenTableOK'
    <2>1. IsSequence(data)
      BY <1>0 DEF OpenTableOK
    <2>2. nextIndex' = Len(pages') /\ Len(data') = 0
      BY <1>2, <1>3, <1>5
    <2> QED
      BY <1>2, <2>1, <2>2 DEF OpenTableOK, NoPage
  <1> QED
    BY <1>3, <1>5, <1>10, <1>11 DEF L

\* The first page of a table.
LEMMA StartTableKeeps ==
  ASSUME PInv, StartTable
  PROVE  OpenTableOK' /\ PagesOK' /\ TablesOK'
  <1>0. /\ PagesOK /\ OpenTableOK /\ TablesOK /\ db' = db
        /\ Len(pages) \in Nat /\ Len(pages) >= 1
        /\ table \in 0..NumTables
        /\ \A t \in 0..NumTables : TableRows(t)' = TableRows(t)
    BY StepFacts DEF StartTable, Build
  <1>1. PagesOK' /\ TablesOK'
    BY <1>0, FileStays DEF StartTable
  <1>2. PICK t \in 0..NumTables - 1 : t = table /\ t \in 0..NumTables
    BY <1>0 DEF StartTable, NumTables
  <1>3. /\ nextIndex = Len(pages) /\ data = <<>>
        /\ data' = data /\ table' = t /\ pages' = pages
        /\ nextIndex' = nextIndex + 2 /\ page' = NewPage(nextIndex + 1, table)
        /\ TableRows(t) # <<>>
    BY <1>0, <1>2 DEF StartTable, OpenTableOK
  <1>4. page'.index = Len(pages) + 1 /\ page'.type = table' /\ page' # NoPage
    BY <1>0, <1>2, <1>3 DEF NewPage, NoPage
  <1>5. TableRows(t)' # <<>>
    BY <1>0, <1>2, <1>3
  <1>6. /\ nextIndex' = Len(pages') + Len(data') + 2 /\ page'.index = nextIndex' - 1
        /\ Len(data') = 0 /\ IsSequence(data')
    BY <1>0, <1>3, <1>4 DEF OpenTableOK
  <1>7. OpenTableOK'
    BY <1>3, <1>4, <1>5, <1>6 DEF OpenTableOK, NoPage
  <1> QED
    BY <1>1, <1>7

\* The rest of an open table after a page of it has been filled further or turned.
LEMMA WriteNextKeeps ==
  ASSUME PInv, RowsAreLong, WriteNext
  PROVE  OpenTableOK' /\ PagesOK' /\ TablesOK'
  <1>0. /\ Sound(page) /\ PagesOK /\ OpenTableOK /\ TablesOK /\ db' = db
        /\ Len(pages) \in Nat /\ Len(pages) >= 1 /\ Len(data) \in Nat
        /\ \A t \in 0..NumTables : TableRows(t)' = TableRows(t)
    BY StepFacts DEF WriteNext, Build
  <1>1. PagesOK' /\ TablesOK'
    BY <1>0, FileStays DEF WriteNext
  <1>2. page # NoPage
    BY <1>0 DEF WriteNext, OpenTableOK
  <1>3. /\ nextIndex = Len(pages) + Len(data) + 2 /\ page.index = nextIndex - 1
        /\ page.type = table
        /\ \E t \in 0..NumTables - 1 : table = t /\ TableRows(t) # <<>>
    BY <1>0, <1>2 DEF OpenTableOK
  <1>4. PICK t \in 0..NumTables - 1 : table = t /\ TableRows(t) # <<>> /\ t \in 0..NumTables
    BY <1>3 DEF NumTables
  <1>5. page'.index = page.index /\ page'.type = page.type
    <2>1. /\ page' = WriteRow(page, Head(todo)) /\ ~WouldOverflow(page, Head(todo).size)
          /\ Head(todo).size \in Nat /\ Head(todo).size > 3
      BY DEF WriteNext, RowsAreLong
    <2> QED
      BY <1>0, <2>1, WriteRowIsSound
  <1>6. page' # NoPage
    BY <1>0, <1>3, <1>5 DEF NoPage
  <1>7. table' = t /\ TableRows(t)' # <<>>
    BY <1>0, <1>4 DEF WriteNext
  <1>8. UNCHANGED <<data, pages, nextIndex>>
    BY DEF WriteNext
  <1>9. OpenTableOK'
    BY <1>0, <1>3, <1>4, <1>5, <1>6, <1>7, <1>8 DEF OpenTableOK, NoPage
  <1> QED
    BY <1>1, <1>9

\* The next page of a table.
LEMMA TurnPageKeeps ==
  ASSUME PInv, RowsAreLong, TurnPage
  PROVE  OpenTableOK' /\ PagesOK' /\ TablesOK'
  <1>0. /\ Sound(page) /\ PagesOK /\ OpenTableOK /\ TablesOK /\ db' = db
        /\ Len(pages) \in Nat /\ Len(pages) >= 1 /\ Len(data) \in Nat
        /\ \A t \in 0..NumTables : TableRows(t)' = TableRows(t)
    BY StepFacts DEF TurnPage, Build
  <1>1. PagesOK' /\ TablesOK'
    BY <1>0, FileStays DEF TurnPage
  <1>2. page # NoPage
    BY <1>0 DEF TurnPage, OpenTableOK
  <1>3. /\ nextIndex = Len(pages) + Len(data) + 2 /\ page.index = nextIndex - 1
        /\ IsSequence(data) /\ page.type = table
        /\ \A i \in 1..Len(data) :
              /\ StandsAt(data[i], Len(pages) + i) /\ data[i].index # 0
              /\ data[i].type = table /\ data[i].next = Len(pages) + i + 1
        /\ \E t \in 0..NumTables - 1 : table = t /\ TableRows(t) # <<>>
    BY <1>0, <1>2 DEF OpenTableOK
  <1>4. PICK t \in 0..NumTables - 1 : table = t /\ TableRows(t) # <<>> /\ t \in 0..NumTables
    BY <1>3 DEF NumTables
  <1> DEFINE F == Finalize(page, nextIndex)
  <1>5. /\ data' = Append(data, F) /\ nextIndex' = nextIndex + 1
        /\ UNCHANGED <<pages, table>>
    BY DEF TurnPage
  <1>6. StandsAt(F, page.index) /\ F.index = page.index /\ F.type = table /\ F.next = nextIndex
    BY <1>0, <1>3, FinalizeFacts
  <1> HIDE DEF F
  <1>7. /\ IsSequence(data') /\ Len(data') = Len(data) + 1 /\ data'[Len(data) + 1] = F
        /\ \A i \in 1..Len(data) : data'[i] = data[i]
    BY <1>3, <1>5, AppendFacts
  <1>8. ASSUME NEW i \in 1..Len(data')
        PROVE  /\ StandsAt(data'[i], Len(pages') + i) /\ data'[i].index # 0
               /\ data'[i].type = table' /\ data'[i].next = Len(pages') + i + 1
    <2>1. CASE i = Len(data) + 1
      <3>1. page.index = Len(pages) + i /\ page.index # 0 /\ nextIndex = Len(pages) + i + 1
        BY <1>0, <1>3, <2>1
      <3> QED
        BY <1>5, <1>6, <1>7, <2>1, <3>1
    <2>2. CASE i # Len(data) + 1
      <3>1. i \in 1..Len(data)
        BY <1>0, <1>7, <2>2
      <3> QED
        BY <1>3, <1>5, <1>7, <3>1
    <2> QED
      BY <2>1, <2>2
  <1>9. page'.index = nextIndex /\ page'.type = table
    <2>1. PICK fresh : /\ fresh = NewPage(nextIndex, table)
                       /\ page' = WriteRow(fresh, Head(todo))
                       /\ ~WouldOverflow(fresh, Head(todo).size)
      BY DEF TurnPage
    <2>2. Head(todo).size \in Nat /\ Head(todo).size > 3 /\ nextIndex \in Nat
      BY <1>0, <1>3 DEF TurnPage, RowsAreLong
    <2>3. Sound(fresh) /\ fresh.index = nextIndex /\ fresh.type = table
      BY <2>1, <2>2, NewPageIsSound DEF NewPage
    <2>4. WriteRow(fresh, Head(todo)).index = fresh.index
          /\ WriteRow(fresh, Head(todo)).type = fresh.type
      BY <2>1, <2>2, <2>3, WriteRowIsSound
    <2> QED
      BY <2>1, <2>3, <2>4
  <1>10. /\ page' # NoPage /\ page'.index = nextIndex' - 1 /\ page'.type = table'
         /\ nextIndex' = Len(pages') + Len(data') + 2
    BY <1>0, <1>3, <1>5, <1>7, <1>9 DEF NoPage
  <1>11. table' = t /\ TableRows(t)' # <<>>
    BY <1>0, <1>4, <1>5
  <1>12. OpenTableOK'
    BY <1>4, <1>7, <1>8, <1>10, <1>11 DEF OpenTableOK, NoPage
  <1> QED
    BY <1>1, <1>12

\* The pages of a table, stamped, behind its index page.
Adds(all) ==
    /\ IsSequence(all) /\ Len(all) = Len(data) + 1
    /\ \A i \in 1..Len(pages) : pages'[i] = pages[i]
    /\ pages'[Len(pages) + 1] = IndexPage(Len(pages))
    /\ \A i \in 1..Len(all) : \E v : pages'[(Len(pages) + 1) + i] = [all[i] EXCEPT !.seq = v]
    /\ infos' = Append(infos, [index |-> Len(pages), last |-> Len(pages) + Len(all)])

\* A table goes to the file behind those before it.
LEMMA EndTableKeeps ==
  ASSUME PInv, EndTable, NEW all, all = Append(data, Finalize(page, NO_NEXT))
  PROVE  /\ OpenTableOK' /\ PagesOK' /\ TablesOK'
         /\ Adds(all)
  <1>0. /\ Sound(page) /\ PagesOK /\ OpenTableOK /\ TablesOK /\ db' = db
        /\ Len(pages) \in Nat /\ Len(pages) >= 1 /\ Len(data) \in Nat
    BY StepFacts DEF EndTable, Build
  <1> DEFINE L == Len(pages)
             n == Len(data) + 1
             F == Finalize(page, NO_NEXT)
             stamped == [i \in DOMAIN all |-> [all[i] EXCEPT !.seq = sequence + i - 1]]
             one == <<IndexPage(L)>>
  <1>a. all = Append(data, F)
    OBVIOUS
  <1>1. /\ nextIndex = L + Len(data) + 2 /\ page.index = nextIndex - 1
        /\ IsSequence(data)
        /\ page.type = table
        /\ \A i \in 1..Len(data) :
              /\ StandsAt(data[i], L + i) /\ data[i].index # 0
              /\ data[i].type = table /\ data[i].next = L + i + 1
        /\ \E t \in 0..NumTables - 1 : table = t /\ TableRows(t) # <<>>
    BY <1>0 DEF OpenTableOK, EndTable
  <1>2. PICK t \in 0..19 : table = t /\ TableRows(t) # <<>>
    BY <1>1 DEF NumTables
  <1>3. StandsAt(F, page.index) /\ F.index = page.index /\ F.type = t
    BY <1>0, <1>1, <1>2, FinalizeFacts
  <1>4. L \in Nat \ {0} /\ L = Len(pages) /\ n \in Nat \ {0} /\ n = Len(data) + 1
    BY <1>0
  <1> HIDE DEF F, L, n
  <1>5. /\ IsSequence(all) /\ Len(all) = n /\ all[n] = F
        /\ \A i \in 1..Len(data) : all[i] = data[i]
    BY <1>1, <1>4, <1>a, AppendFacts
  <1>6. ASSUME NEW i \in 1..n
        PROVE  /\ StandsAt(all[i], L + i) /\ all[i].index # 0 /\ all[i].type = t
               /\ i # n => all[i].next = L + i + 1
    <2>1. CASE i = n
      <3>1. page.index = L + i /\ page.index # 0
        BY <1>1, <1>4, <2>1, <1>0
      <3> QED
        BY <1>3, <1>5, <2>1, <3>1
    <2>2. CASE i # n
      <3>1. i \in 1..Len(data)
        BY <1>0, <1>4, <2>2
      <3> QED
        BY <1>1, <1>2, <1>5, <2>2, <3>1
    <2> QED
      BY <2>1, <2>2
  <1>7. all[1].index = L + 1 /\ all[1].index - 1 = L
    <2>1. 1 \in 1..n
      BY <1>4
    <2> QED
      BY <1>4, <1>6, <2>1 DEF StandsAt
  <1>8. /\ IsSequence(stamped) /\ Len(stamped) = n
        /\ \A i \in 1..n : StandsAt(stamped[i], L + i) /\ stamped[i].index # 0
        /\ \A i \in 1..n : stamped[i].type = t
        /\ \A i \in 1..n : i # n => stamped[i].next = L + i + 1
    <2>1. DOMAIN all = 1..n
      BY <1>4, <1>5 DEF IsSequence
    <2>2. stamped \in [1..n -> {stamped[i] : i \in 1..n}]
      BY <2>1
    <2>3. stamped \in Seq({stamped[i] : i \in 1..n}) /\ Len(stamped) = n
      BY <1>4, <2>2
    <2>4. ASSUME NEW i \in 1..n
          PROVE  /\ StandsAt(stamped[i], L + i) /\ stamped[i].index # 0
                 /\ stamped[i].type = t /\ (i # n => stamped[i].next = L + i + 1)
      <3> DEFINE v == sequence + i - 1
                 p == all[i]
                 j == L + i
      <3>1. stamped[i] = [p EXCEPT !.seq = v]
        BY <2>1
      <3>2. StandsAt(p, j) /\ p.index # 0 /\ p.type = t /\ (i # n => p.next = L + i + 1)
        BY <1>6
      <3>a. StandsAt(p, j)
        BY <3>2
      <3> HIDE DEF v, p, stamped, j
      <3>3. /\ StandsAt([p EXCEPT !.seq = v], j) /\ [p EXCEPT !.seq = v].index = p.index
            /\ [p EXCEPT !.seq = v].type = p.type /\ [p EXCEPT !.seq = v].next = p.next
        BY ONLY <3>a, StampFacts
      <3>4. /\ StandsAt(stamped[i], j) /\ stamped[i].index # 0
            /\ stamped[i].type = t /\ (i # n => stamped[i].next = L + i + 1)
        BY <3>1, <3>2, <3>3
      <3> QED
        BY <3>4 DEF j
    <2> QED
      BY <2>3, <2>4 DEF IsSequence
  <1>9. /\ pages' = (pages \o one) \o stamped
        /\ infos' = Append(infos, [index |-> L, last |-> L + n])
        /\ table' = t + 1 /\ page' = NoPage /\ data' = <<>> /\ todo' = <<>>
        /\ nextIndex' = nextIndex
    BY <1>2, <1>5, <1>7, <1>a DEF EndTable, F
  <1>18. \A i \in 1..n : \E v : stamped[i] = [all[i] EXCEPT !.seq = v]
    <2>1. DOMAIN all = 1..n
      BY <1>5, SequenceFacts
    <2> QED
      BY <2>1
  <1> HIDE DEF stamped
  <1>10. IsSequence(one) /\ Len(one) = 1 /\ one[1] = IndexPage(L)
    <2>1. one \in Seq({IndexPage(L)})
      OBVIOUS
    <2> QED
      BY <2>1 DEF IsSequence
  <1> HIDE DEF one
  <1>11. /\ IsSequence(pages \o one) /\ Len(pages \o one) = L + 1
         /\ \A i \in 1..L : (pages \o one)[i] = pages[i]
         /\ (pages \o one)[L + 1] = IndexPage(L)
    <2>1. IsSequence(pages) /\ IsSequence(one)
      BY <1>0, <1>10 DEF PagesOK
    <2>2. /\ IsSequence(pages \o one) /\ Len(pages \o one) = Len(pages) + Len(one)
          /\ \A i \in 1..Len(pages) : (pages \o one)[i] = pages[i]
          /\ \A i \in 1..Len(one) : (pages \o one)[Len(pages) + i] = one[i]
      BY <2>1, ConcatFacts
    <2> QED
      BY <1>4, <1>10, <2>2
  <1>12. /\ IsSequence(pages') /\ Len(pages') = L + (n + 1)
         /\ \A i \in 1..L : pages'[i] = pages[i]
         /\ pages'[L + 1] = IndexPage(L)
         /\ \A i \in 1..n : pages'[L + 1 + i] = stamped[i]
    <2> DEFINE front == pages \o one
    <2>1. IsSequence(front) /\ IsSequence(stamped)
      BY <1>8, <1>11
    <2>2. Len(front) = L + 1 /\ Len(stamped) = n
      BY <1>8, <1>11
    <2>3. pages' = front \o stamped
      BY <1>9
    <2>4. /\ \A i \in 1..L : front[i] = pages[i]
          /\ front[L + 1] = IndexPage(L)
      BY <1>11
    <2> HIDE DEF front
    <2>5. /\ IsSequence(pages') /\ Len(pages') = Len(front) + Len(stamped)
          /\ \A i \in 1..Len(front) : pages'[i] = front[i]
          /\ \A i \in 1..Len(stamped) : pages'[Len(front) + i] = stamped[i]
      <3>1. Joined(front \o stamped, front, stamped)
        BY ONLY <2>1, JoinFacts
      <3> QED
        BY ONLY <2>3, <3>1 DEF Joined
    <2>6. \A i \in 1..L : i \in 1..(L + 1)
      BY <1>4
    <2>7. L + 1 \in 1..(L + 1) /\ (L + 1) + n = L + (n + 1)
      BY <1>4
    <2> QED
      BY <2>2, <2>4, <2>5, <2>6, <2>7
  <1>13. StandsAt(IndexPage(L), L) /\ IndexPage(L).index = L /\ IndexPage(L).next = L + 1
    BY <1>4, FixedPages
  <1>14. ASSUME NEW i \in 1..(n + 1)
         PROVE  StandsAt(pages'[L + i], L + i - 1) /\ pages'[L + i].index # 0
    <2>1. CASE i = 1
      <3>1. L + i = L + 1 /\ L + i - 1 = L
        BY <1>4, <2>1
      <3> QED
        BY <1>4, <1>12, <1>13, <3>1
    <2>2. CASE i # 1
      <3>1. PICK j \in 1..n : i = j + 1
        <4>1. i - 1 \in 1..n /\ i = (i - 1) + 1
          BY <1>4, <2>2
        <4> QED
          BY <4>1
      <3>2. L + i = L + 1 + j /\ L + i - 1 = L + j
        BY <1>4, <3>1
      <3>3. StandsAt(stamped[j], L + j) /\ stamped[j].index # 0
        BY <1>8
      <3>4. pages'[L + 1 + j] = stamped[j]
        BY <1>12
      <3> QED
        BY <3>2, <3>3, <3>4
    <2> QED
      BY <2>1, <2>2
  <1>17. /\ pages'[L + 1].index = L
         /\ \A i \in L..(L + n) - 1 : pages'[i + 1].next = i + 1
         /\ \A i \in L + 1..L + n : pages'[i + 1].type = t
    <2>1. ASSUME NEW i \in L + 1..L + n
          PROVE  pages'[i + 1].type = t /\ (i # L + n => pages'[i + 1].next = i + 1)
      <3>1. PICK j \in 1..n : i = L + j
        <4>1. i - L \in 1..n /\ i = L + (i - L)
          BY <1>4
        <4> QED
          BY <4>1
      <3>2. i + 1 = L + 1 + j /\ L + j + 1 = i + 1 /\ (i # L + n => j # n)
        BY <1>4, <3>1
      <3>3. stamped[j].type = t
        BY <1>8
      <3>4. j # n => stamped[j].next = L + j + 1
        BY <1>8
      <3>5. pages'[L + 1 + j] = stamped[j]
        BY <1>12
      <3> QED
        BY <3>2, <3>3, <3>4, <3>5
    <2>2. pages'[L + 1].index = L /\ pages'[L + 1].next = L + 1
      BY <1>12, <1>13
    <2>3. \A i \in L..(L + n) - 1 : i = L \/ (i \in L + 1..L + n /\ i # L + n)
      BY <1>4
    <2> QED
      BY <2>1, <2>2, <2>3
  <1>15. PagesOK' /\ TablesOK'
    <2>1. n + 1 \in Nat /\ L + n \in Nat /\ L + n < L + (n + 1) /\ L + n > L
      BY <1>4
    <2>2. /\ \A i \in 1..(n + 1) : StandsAt(pages'[L + i], L + i - 1)
          /\ \A i \in 1..(n + 1) : pages'[L + i].index = 0 =>
                TableRows(t) = <<>> /\ L + n = L + i - 2
      BY <1>14
    <2>3. Links(t, L, L + n)
      BY <1>2, <1>17, <2>1 DEF Links
    <2> QED
      BY <1>0, <1>2, <1>4, <1>9, <1>12, <2>1, <2>2, <2>3, TablesGrow
  <1>16. OpenTableOK'
    <2>1. IsSequence(data') /\ Len(data') = 0
      BY <1>9 DEF IsSequence
    <2>2. nextIndex' = Len(pages')
      <3>1. nextIndex' = nextIndex /\ Len(pages') = L + (n + 1)
        BY <1>9, <1>12
      <3>2. nextIndex = L + (n + 1)
        BY <1>0, <1>1, <1>4
      <3> QED
        BY <3>1, <3>2
    <2> QED
      BY <1>9, <2>1, <2>2 DEF OpenTableOK, NoPage
  <1>19. /\ IsSequence(all) /\ Len(all) = Len(data) + 1
         /\ \A i \in 1..Len(pages) : pages'[i] = pages[i]
         /\ pages'[Len(pages) + 1] = IndexPage(Len(pages))
         /\ infos' = Append(infos, [index |-> Len(pages), last |-> Len(pages) + Len(all)])
    BY ONLY <1>4, <1>5, <1>9, <1>12 DEF L
  <1>20. \A i \in 1..Len(all) : \E v : pages'[Len(pages) + 1 + i] = [all[i] EXCEPT !.seq = v]
    <2>1. ASSUME NEW i \in 1..n PROVE \E v : pages'[L + 1 + i] = [all[i] EXCEPT !.seq = v]
      <3>1. PICK v : stamped[i] = [all[i] EXCEPT !.seq = v]
        BY <1>18
      <3>2. pages'[L + 1 + i] = [all[i] EXCEPT !.seq = v]
        BY ONLY <1>12, <3>1
      <3> QED
        BY ONLY <3>2
    <2> QED
      BY ONLY <1>5, <2>1 DEF L
  <1> QED
    BY ONLY <1>15, <1>16, <1>19, <1>20 DEF Adds
-----------------------------------------------------------------------------
(* The finished file.                                                      *)

\* Patching chains changes where pages lead to, and page 0 is written.
LEMMA PatchedPages ==
  ASSUME PInv, FinishBuild
  PROVE  /\ DOMAIN pages' = 1..Len(pages)
         /\ pages'[1] = HeaderPage(NumTables, NextUnused)
         /\ \A i \in 2..Len(pages) : \/ pages'[i] = pages[i]
                                     \/ \E v : pages'[i] = [pages[i] EXCEPT !.next = v]
  <1>0. PagesOK /\ Len(pages) \in Nat /\ Len(pages) >= 1
    BY StepFacts DEF FinishBuild, Build
  <1> DEFINE L == Len(pages)
             H == HeaderPage(NumTables, NextUnused)
  <1>1. DOMAIN pages = 1..L /\ L \in Nat \ {0}
    BY <1>0 DEF PagesOK, IsSequence
  <1>2. pages' = [Patched EXCEPT ![1] = H]
    BY DEF FinishBuild
  <1>3. DOMAIN Patched = 1..L
    BY <1>1 DEF Patched
  <1>4. ASSUME NEW i \in 1..L
        PROVE  Patched[i] = pages[i] \/ \E v : Patched[i] = [pages[i] EXCEPT !.next = v]
    <2>1. CASE \E k \in DataTables(NumTables) : infos[k].last = i - 1
      <3> DEFINE k == CHOOSE k \in DataTables(NumTables) : infos[k].last = i - 1
      <3>1. Patched[i] = [pages[i] EXCEPT !.next = EmptyCandidate(k)]
        BY <1>1, <2>1 DEF Patched
      <3> QED
        BY <3>1
    <2>2. CASE ~\E k \in DataTables(NumTables) : infos[k].last = i - 1
      <3>1. Patched[i] = pages[i]
        BY <1>1, <2>2 DEF Patched
      <3> QED
        BY <3>1
    <2> QED
      BY <2>1, <2>2
  <1> HIDE DEF H, L
  <1>5. pages'[1] = H
    BY <1>1, <1>2, <1>3
  <1>6. DOMAIN pages' = 1..L /\ \A i \in 2..L : i \in 1..L /\ pages'[i] = Patched[i]
    BY <1>1, <1>2, <1>3
  <1>7. ASSUME NEW i \in 2..L
        PROVE  pages'[i] = pages[i] \/ \E v : pages'[i] = [pages[i] EXCEPT !.next = v]
    BY <1>4, <1>6
  <1> QED
    BY <1>5, <1>6, <1>7 DEF L, H

\* That leaves the places of the other pages.
LEMMA PatchedFacts ==
  ASSUME PInv, FinishBuild
  PROVE  /\ Len(pages') = Len(pages) /\ DOMAIN pages' = 1..Len(pages)
         /\ pages'[1].flags = 0
         /\ \A i \in 2..Len(pages) : /\ StandsAt(pages'[i], i - 1)
                                     /\ pages'[i].index = pages[i].index
  <1>0. PagesOK /\ Len(pages) \in Nat /\ Len(pages) >= 1
    BY StepFacts DEF FinishBuild, Build
  <1> DEFINE L == Len(pages)
             H == HeaderPage(NumTables, NextUnused)
  <1>1. DOMAIN pages' = 1..L /\ pages'[1] = H
    BY PatchedPages
  <1>2. H.flags = 0
    <2>1. IsPage(ZeroPage) /\ ZeroPage.flags = 0
      BY FixedPages
    <2>2. ASSUME NEW p, IsPage(p), NEW a, NEW b, NEW c
          PROVE  [p EXCEPT !.index = a, !.type = b, !.next = c].flags = p.flags
      BY <2>2 DEF IsPage
    <2> QED
      BY <2>1, <2>2 DEF HeaderPage
  <1> HIDE DEF H
  <1>3. Len(pages') = L
    <2>1. pages' = [i \in 1..L |-> pages'[i]]
      <3>1. \E v : pages' = [Patched EXCEPT ![1] = v]
        BY DEF FinishBuild
      <3> QED
        BY <1>1, <3>1
    <2> HIDE DEF L
    <2> QED
      BY <1>0, <2>1, SequenceFacts DEF L
  <1>4. ASSUME NEW i \in 2..L
        PROVE  StandsAt(pages'[i], i - 1) /\ pages'[i].index = pages[i].index
    <2> DEFINE p == pages[i]
               j == i - 1
    <2>1. StandsAt(p, j)
      BY <1>0 DEF PagesOK, L
    <2>2. pages'[i] = p \/ \E v : pages'[i] = [p EXCEPT !.next = v]
      BY PatchedPages
    <2>3. CASE pages'[i] = p
      BY <2>1, <2>3
    <2>4. CASE \E v : pages'[i] = [p EXCEPT !.next = v]
      <3>1. PICK v : pages'[i] = [p EXCEPT !.next = v]
        BY <2>4
      <3> HIDE DEF p, j
      <3>2. StandsAt([p EXCEPT !.next = v], j) /\ [p EXCEPT !.next = v].index = p.index
        BY <2>1, StampFacts
      <3>3. StandsAt(pages'[i], j) /\ pages'[i].index = p.index
        BY <3>1, <3>2
      <3> QED
        BY <3>3 DEF p, j
    <2> QED
      BY <2>2, <2>3, <2>4
  <1> QED
    BY <1>1, <1>2, <1>3, <1>4

\* What the pointers of page 0 say of the tables.
LEMMA PointerFacts ==
  ASSUME PInv, FinishBuild
  PROVE  /\ DOMAIN header'.tables = 1..20
         /\ \A k \in 1..20 :
               /\ header'.tables[k].first \in Nat /\ header'.tables[k].last \in Nat
               /\ header'.tables[k].first < Len(pages) /\ header'.tables[k].last < Len(pages)
               /\ header'.tables[k].last = infos[k].last
               /\ TableRows(k - 1) = <<>> => header'.tables[k].candidate = infos[k].last + 1
         /\ \A k \in 1..20 : TableOK(k)
  <1>0. TablesOK /\ table = 20 /\ NumTables = 20 /\ Len(pages) \in Nat
    BY StepFacts DEF FinishBuild, Build, NumTables
  <1>1. \A k \in 1..20 : TableOK(k)
    BY <1>0 DEF TablesOK
  <1>2. header'.tables = [i \in 1..20 |-> [type |-> i - 1, candidate |-> EmptyCandidate(i),
                                           first |-> infos[i].index, last |-> infos[i].last]]
    BY <1>0 DEF FinishBuild
  <1>3. ASSUME NEW k \in 1..20
        PROVE  /\ header'.tables[k].first \in Nat /\ header'.tables[k].last \in Nat
               /\ header'.tables[k].first < Len(pages) /\ header'.tables[k].last < Len(pages)
               /\ header'.tables[k].last = infos[k].last
               /\ TableRows(k - 1) = <<>> => header'.tables[k].candidate = infos[k].last + 1
    <2>1. /\ header'.tables[k].first = infos[k].index
          /\ header'.tables[k].last = infos[k].last
          /\ header'.tables[k].candidate = EmptyCandidate(k)
      BY <1>2
    <2>2. /\ infos[k].index \in Nat /\ infos[k].last \in Nat /\ infos[k].last < Len(pages)
          /\ infos[k].index <= infos[k].last
          /\ TableRows(k - 1) = <<>> => ~HasData(infos[k])
      <3> DEFINE a == infos[k].index
                 b == infos[k].last
      <3>1. /\ a \in Nat /\ b \in Nat /\ b < Len(pages)
            /\ IF TableRows(k - 1) = <<>> THEN b = a ELSE b > a
        BY <1>1 DEF TableOK
      <3>2. HasData(infos[k]) <=> b > a
        BY DEF HasData
      <3> HIDE DEF a, b
      <3>3. a <= b /\ (TableRows(k - 1) = <<>> => ~(b > a))
        BY <3>1
      <3> QED
        BY <3>1, <3>2, <3>3 DEF a, b
    <2>4. TableRows(k - 1) = <<>> => EmptyCandidate(k) = infos[k].last + 1
      BY <2>2 DEF EmptyCandidate
    <2> QED
      BY <1>0, <2>1, <2>2, <2>4
  <1> QED
    BY <1>1, <1>2, <1>3

\* What validate_pdb finds wrong with the finished file.
LEMMA FinishBuildAgrees ==
  ASSUME PInv, FinishBuild
  PROVE  OnlyKnownComplaints'
  <1>0. /\ PagesOK /\ TablesOK /\ table = 20 /\ NumTables = 20
        /\ Len(pages) \in Nat /\ Len(pages) >= 1
        /\ \A t \in 0..20 : TableRows(t)' = TableRows(t)
    BY StepFacts DEF FinishBuild, Build, NumTables
  <1> DEFINE L == Len(pages)
             Empty == {u \in 0..19 : TableRows(u) = <<>>}
             Places == {header'.tables[t + 1].candidate : t \in Empty}
  <1>1. Errors' \subseteq {<<"next_unused_page">>}
    <2>1. ASSUME NEW k \in DOMAIN header'.tables PROVE ~PointsOutside(k)'
      <3>1. k \in 1..20
        BY PointerFacts
      <3>2. /\ header'.tables[k].first \in Nat /\ header'.tables[k].last \in Nat
            /\ header'.tables[k].first < Len(pages') /\ header'.tables[k].last < Len(pages')
        BY <3>1, PointerFacts, PatchedFacts
      <3>3. Len(pages') \in Nat
        BY <1>0, PatchedFacts
      <3> QED
        BY <3>2, <3>3 DEF PointsOutside
    <2> QED
      BY <2>1 DEF Errors
  <1>2. ASSUME NEW i \in 1..L - 1 PROVE WarnedAbout(i)' <=> pages[i + 1].index = 0
    <2> DEFINE j == i + 1
    <2>1. j \in 2..L /\ j - 1 = i /\ i # 0
      BY <1>0
    <2>2. StandsAt(pages'[j], j - 1) /\ pages'[j].index = pages[j].index
      BY <2>1, PatchedFacts
    <2>3. WarnedAbout(i)' <=> \/ pages'[j].index # i
                              \/ pages'[j].flags \notin {DATA, DATA_TRACK, INDEX, 0}
                              \/ pages'[j].used > PAGE_SIZE - HEAP_START
      BY DEF WarnedAbout
    <2> HIDE DEF j
    <2>4. CASE pages[j].index = 0
      BY <2>1, <2>2, <2>3, <2>4 DEF j
    <2>5. CASE pages[j].index # 0
      <3>1. /\ pages'[j].index = i
            /\ pages'[j].flags \in {DATA, DATA_TRACK, INDEX}
            /\ pages'[j].used \in Int /\ pages'[j].used <= PAGE_SIZE - HEAP_START
        BY <2>1, <2>2, <2>5 DEF StandsAt
      <3>2. DATA # 0 /\ DATA_TRACK # 0 /\ INDEX # 0
        BY DEF DATA, DATA_TRACK, INDEX
      <3>3. ~(pages'[j].used > PAGE_SIZE - HEAP_START)
        <4> DEFINE used == pages'[j].used
        <4>1. used \in Int /\ used <= PAGE_SIZE - HEAP_START
          BY <3>1
        <4> HIDE DEF used
        <4>2. ~(used > PAGE_SIZE - HEAP_START)
          BY <4>1, PageAssumption
        <4> QED
          BY <4>2 DEF used
      <3> QED
        BY <2>3, <2>5, <3>1, <3>2, <3>3 DEF j
    <2> QED
      BY <2>4, <2>5
  <1>3. Warnings' = {i \in 1..L - 1 : pages[i + 1].index = 0}
    <2>1. Warnings' = {i \in 1..L - 1 : WarnedAbout(i)'}
      BY PatchedFacts DEF Warnings
    <2> QED
      BY <1>2, <2>1
  <1>4. ASSUME NEW i \in 1..L - 1, pages[i + 1].index = 0 PROVE i \in Places
    <2>1. i + 1 \in 2..L /\ (i + 1) - 2 = i - 1
      BY <1>0
    <2>2. PICK k \in 1..20 : TableRows(k - 1) = <<>> /\ infos[k].last = i - 1
      BY <1>0, <1>4, <2>1 DEF TablesOK
    <2>3. header'.tables[k].candidate = (i - 1) + 1 /\ (i - 1) + 1 = i
      <3>1. header'.tables[k].candidate = infos[k].last + 1
        BY <2>2, PointerFacts
      <3>2. (i - 1) + 1 = i
        BY <1>0
      <3> QED
        BY <2>2, <3>1, <3>2
    <2>4. k - 1 \in 0..19 /\ (k - 1) + 1 = k
      BY <2>2
    <2> QED
      BY <2>2, <2>3, <2>4
  <1>5. ASSUME NEW u \in Empty
        PROVE  /\ header'.tables[u + 1].candidate \in 1..L - 1
               /\ pages[header'.tables[u + 1].candidate + 1].index = 0
    <2> DEFINE k == u + 1
    <2>1. k \in 1..20 /\ k - 1 = u /\ TableRows(k - 1) = <<>>
      BY <1>5
    <2>2. TableOK(k) /\ header'.tables[k].candidate = infos[k].last + 1
      BY <2>1, PointerFacts
    <2>3. /\ infos[k].last \in Nat /\ infos[k].last + 2 <= L
          /\ pages[infos[k].last + 2].index = 0
      BY <2>1, <2>2, FixedPages DEF TableOK
    <2>4. infos[k].last + 1 \in 1..L - 1 /\ (infos[k].last + 1) + 1 = infos[k].last + 2
      <3> DEFINE b == infos[k].last
      <3>1. b \in Nat /\ b + 2 <= L /\ L \in Nat
        BY <1>0, <2>3
      <3> HIDE DEF b, L
      <3>2. b + 1 \in 1..L - 1 /\ (b + 1) + 1 = b + 2
        BY <3>1
      <3> QED
        BY <3>2 DEF b
    <2> QED
      BY <2>2, <2>3, <2>4
  <1>6. Warnings' = Places
    BY <1>3, <1>4, <1>5
  <1>7. Places = {header'.tables[t + 1].candidate :
                     t \in {u \in 0..NumTables - 1 : TableRows(u)' = <<>>}}
    <2>1. \A u \in 0..19 : u \in 0..20
      OBVIOUS
    <2>2. {u \in 0..NumTables - 1 : TableRows(u)' = <<>>} = Empty
      BY <1>0, <2>1
    <2> QED
      BY <2>2
  <1> QED
    BY <1>1, <1>6, <1>7 DEF OnlyKnownComplaints

\* The tables lie behind each other.
LEMMA OrderFacts ==
  ASSUME PInv, FinishBuild
  PROVE  /\ \A k \in 1..20 : /\ infos[k].index \in Nat \ {0} /\ infos[k].last \in Nat
                             /\ infos[k].index <= infos[k].last /\ infos[k].last < Len(pages)
                             /\ Ends(k) \in Nat /\ infos[k].last <= Ends(k) /\ Ends(k) < Len(pages)
                             /\ HasData(infos[k]) <=> TableRows(k - 1) # <<>>
                             /\ TableRows(k - 1) # <<>> => infos[k].index < infos[k].last
         /\ \A k \in 1..20 : \A j \in 1..20 : j < k => Ends(j) < infos[k].index
  <1>0. TablesOK /\ table = 20 /\ Len(pages) \in Nat
    BY StepFacts DEF FinishBuild, Build, NumTables
  <1>1. \A k \in 1..20 : TableOK(k)
    BY <1>0 DEF TablesOK
  <1>2. ASSUME NEW k \in 1..20
        PROVE  /\ infos[k].index \in Nat \ {0} /\ infos[k].last \in Nat
               /\ infos[k].index <= infos[k].last /\ infos[k].last < Len(pages)
               /\ Ends(k) \in Nat /\ infos[k].last <= Ends(k) /\ Ends(k) < Len(pages)
               /\ HasData(infos[k]) <=> TableRows(k - 1) # <<>>
               /\ TableRows(k - 1) # <<>> => infos[k].index < infos[k].last
    <2> DEFINE a == infos[k].index
               b == infos[k].last
               e == Ends(k)
    <2>1. /\ a \in Nat \ {0} /\ b \in Nat /\ b < Len(pages)
          /\ IF TableRows(k - 1) = <<>> THEN b = a /\ b + 2 <= Len(pages) ELSE b > a
      BY <1>1 DEF TableOK
    <2>2. HasData(infos[k]) <=> b > a
      BY DEF HasData
    <2>3. e = IF TableRows(k - 1) = <<>> THEN b + 1 ELSE b
      BY DEF Ends
    <2> HIDE DEF a, b, e
    <2>4. /\ a <= b /\ e \in Nat /\ b <= e /\ e < Len(pages)
          /\ (HasData(infos[k]) <=> TableRows(k - 1) # <<>>)
          /\ (TableRows(k - 1) # <<>> => a < b)
      BY <1>0, <2>1, <2>2, <2>3
    <2> QED
      BY <2>1, <2>4 DEF a, b, e
  <1>3. ASSUME NEW k \in 1..20, NEW j \in 1..20, j < k PROVE Ends(j) < infos[k].index
    <2>1. j \in 1..k - 1
      BY <1>3
    <2> QED
      BY <1>1, <2>1 DEF TableOK
  <1> QED
    BY <1>2, <1>3

\* No page in or behind a table is the last one of another table with rows.
LEMMA LastsAreApart ==
  ASSUME PInv, FinishBuild, NEW k \in 1..20, NEW m \in 1..20, m # k, HasData(infos[m]),
         NEW i \in Nat, infos[k].index <= i, i <= Ends(k)
  PROVE  infos[m].last # i
  <1> DEFINE a == infos[k].index
             e == Ends(k)
             c == infos[m].index
             d == infos[m].last
             f == Ends(m)
  <1>1. a \in Nat /\ e \in Nat /\ c \in Nat /\ d \in Nat /\ f \in Nat /\ d <= f /\ c <= d
    BY OrderFacts
  <1>2. CASE m < k
    <2>1. f < a
      BY <1>2, OrderFacts
    <2> HIDE DEF a, e, c, d, f
    <2>2. a <= i
      BY DEF a
    <2>3. d # i
      BY <1>1, <2>1, <2>2
    <2> QED
      BY <2>3 DEF d
  <1>3. CASE k < m
    <2>1. e < c
      BY <1>3, OrderFacts
    <2> HIDE DEF a, e, c, d, f
    <2>2. i <= e
      BY DEF e
    <2>3. d # i
      BY <1>1, <2>1, <2>2
    <2> QED
      BY <2>3 DEF d
  <1>4. m < k \/ k < m
    OBVIOUS
  <1> QED
    BY <1>2, <1>3, <1>4

\* Every table with rows gets a page of its own beyond the file.
LEMMA PhantomFacts ==
  ASSUME PInv, FinishBuild
  PROVE  /\ nextIndex = Len(pages)
         /\ \A k \in 1..20 : HasData(infos[k]) => EmptyCandidate(k) \in Len(pages)..NextUnused - 1
         /\ \A k \in 1..20 : ~HasData(infos[k]) => EmptyCandidate(k) = Ends(k)
         /\ \A k, j \in 1..20 : j < k => EmptyCandidate(j) # EmptyCandidate(k)
  <1>0. OpenTableOK /\ table = 20 /\ NumTables = 20 /\ Len(pages) \in Nat
    BY StepFacts DEF FinishBuild, Build, NumTables
  <1>1. nextIndex = Len(pages)
    <2>1. ~\E t \in 0..NumTables - 1 : table = t
      BY <1>0
    <2> QED
      BY <1>0, <2>1 DEF OpenTableOK
  <1> DEFINE L == Len(pages)
             D(n) == DataTables(n)
             c(n) == Cardinality(D(n))
  <1>2. ASSUME NEW n \in 1..20 PROVE IsFiniteSet(D(n)) /\ c(n) \in Nat
    <2>1. IsFiniteSet(1..n)
      BY IntervalFacts
    <2>2. D(n) \subseteq 1..n
      BY DEF DataTables
    <2> HIDE DEF D
    <2> QED
      BY <2>1, <2>2, FS_Subset, FS_CardinalityType
  <1>3. ASSUME NEW k \in 1..20, NEW j \in 1..20, j <= k PROVE c(j) <= c(k)
    <2>1. D(j) \subseteq D(k)
      BY <1>3 DEF DataTables
    <2> HIDE DEF D
    <2> QED
      BY <1>2, <2>1, FS_Subset
  <1>4. ASSUME NEW k \in 1..20, HasData(infos[k]), NEW j \in 1..20, j < k PROVE c(j) < c(k)
    <2>1. D(j) \subseteq D(k) \ {k} /\ k \in D(k)
      BY <1>4 DEF DataTables
    <2> HIDE DEF D
    <2>2. IsFiniteSet(D(k) \ {k}) /\ Cardinality(D(k) \ {k}) = c(k) - 1
      BY <1>2, <2>1, FS_RemoveElement
    <2>3. c(j) <= Cardinality(D(k) \ {k})
      BY <2>1, <2>2, FS_Subset
    <2> QED
      BY <1>2, <2>2, <2>3
  <1>5. ASSUME NEW k \in 1..20, HasData(infos[k]) PROVE c(k) >= 1
    <2>1. k \in D(k)
      BY <1>5 DEF DataTables
    <2> HIDE DEF D
    <2>2. c(k) # 0
      BY <1>2, <2>1, FS_EmptySet
    <2> QED
      BY <1>2, <2>2
  <1>6. \A k \in 1..20 : HasData(infos[k]) => EmptyCandidate(k) = L + c(k) - 1
    BY <1>1 DEF EmptyCandidate
  <1>7. NextUnused = L + c(20) /\ 20 \in 1..20
    BY <1>0, <1>1 DEF NextUnused
  <1>8. ASSUME NEW k \in 1..20, ~HasData(infos[k])
        PROVE  EmptyCandidate(k) = Ends(k) /\ EmptyCandidate(k) < L
    <2>1. TableRows(k - 1) = <<>> /\ Ends(k) < L
      BY <1>8, OrderFacts
    <2> QED
      BY <1>8, <2>1 DEF EmptyCandidate, Ends
  <1> HIDE DEF L, c, D
  <1>9. L \in Nat
    BY <1>0 DEF L
  <1>10. ASSUME NEW k \in 1..20, HasData(infos[k])
         PROVE  EmptyCandidate(k) \in L..NextUnused - 1
    <2> DEFINE x == c(k)
               y == c(20)
    <2>1. x \in Nat /\ y \in Nat /\ x >= 1 /\ x <= y
      BY <1>2, <1>3, <1>5, <1>7, <1>10
    <2>2. EmptyCandidate(k) = L + x - 1 /\ NextUnused = L + y
      BY <1>6, <1>7, <1>10
    <2> HIDE DEF x, y
    <2>3. L + x - 1 \in L..(L + y) - 1
      BY <1>9, <2>1
    <2> QED
      BY <2>2, <2>3
  <1>11. ASSUME NEW k \in 1..20, NEW j \in 1..20, j < k
         PROVE  EmptyCandidate(j) # EmptyCandidate(k)
    <2>1. CASE HasData(infos[j]) /\ HasData(infos[k])
      <3> DEFINE x == c(j)
                 y == c(k)
      <3>1. x \in Nat /\ y \in Nat /\ x < y
        BY <1>2, <1>4, <1>11, <2>1
      <3>2. EmptyCandidate(j) = L + x - 1 /\ EmptyCandidate(k) = L + y - 1
        BY <1>6, <2>1
      <3> HIDE DEF x, y
      <3>3. L + x - 1 # L + y - 1
        BY <1>9, <3>1
      <3> QED
        BY <3>2, <3>3
    <2>2. CASE ~HasData(infos[j]) /\ ~HasData(infos[k])
      <3> DEFINE x == Ends(j)
                 y == Ends(k)
                 a == infos[k].index
                 b == infos[k].last
      <3>1. x \in Nat /\ y \in Nat /\ a \in Nat /\ b \in Nat /\ x < a /\ a <= b /\ b <= y
        BY <1>11, OrderFacts
      <3>2. EmptyCandidate(j) = x /\ EmptyCandidate(k) = y
        BY <1>8, <2>2
      <3> HIDE DEF x, y, a, b
      <3> QED
        BY <3>1, <3>2
    <2>3. ASSUME NEW d \in 1..20, HasData(infos[d]), NEW e \in 1..20, ~HasData(infos[e])
          PROVE  EmptyCandidate(d) # EmptyCandidate(e)
      <3>1. EmptyCandidate(d) \in L..NextUnused - 1
        BY <1>10, <2>3
      <3>2. EmptyCandidate(e) < L /\ EmptyCandidate(e) \in Nat
        BY <1>8, <2>3, OrderFacts
      <3> DEFINE x == EmptyCandidate(d)
                 y == EmptyCandidate(e)
                 z == NextUnused - 1
      <3>3. x \in L..z /\ y < L /\ y \in Nat
        BY <3>1, <3>2
      <3> HIDE DEF x, y, z
      <3>4. x # y
        BY <1>9, <3>3
      <3> QED
        BY <3>4 DEF x, y
    <2> QED
      BY <2>1, <2>2, <2>3
  <1> QED
    BY <1>1, <1>8, <1>10, <1>11 DEF L

\* Patching touches the last page of each table with rows, and nothing else.
LEMMA PatchFacts ==
  ASSUME PInv, FinishBuild
  PROVE  /\ \A i \in 2..Len(pages) : pages'[i].type = pages[i].type
         /\ \A i \in 2..Len(pages) :
               (\A k \in 1..20 : HasData(infos[k]) => infos[k].last # i - 1) => pages'[i] = pages[i]
         /\ \A k \in 1..20 : HasData(infos[k]) => pages'[infos[k].last + 1].next = EmptyCandidate(k)
  <1>0. PagesOK /\ Len(pages) \in Nat /\ Len(pages) >= 1 /\ NumTables = 20
    BY StepFacts DEF FinishBuild, Build, NumTables
  <1> DEFINE L == Len(pages)
  <1>1. DOMAIN pages = 1..L /\ L \in Nat \ {0}
    BY <1>0 DEF PagesOK, IsSequence
  <1>2. ASSUME NEW i \in 2..L
        PROVE  /\ i \in 1..L /\ i # 1 /\ StandsAt(pages[i], i - 1)
               /\ pages'[i] = Patched[i]
    <2>1. i \in 1..L /\ i # 1
      BY <1>1
    <2>2. DOMAIN Patched = 1..L
      BY <1>1 DEF Patched
    <2>3. pages' = [Patched EXCEPT ![1] = HeaderPage(NumTables, NextUnused)]
      BY DEF FinishBuild
    <2> QED
      BY <1>0, <2>1, <2>2, <2>3 DEF PagesOK
  <1>3. DataTables(NumTables) = {k \in 1..20 : HasData(infos[k])}
    BY <1>0 DEF DataTables
  <1>4. ASSUME NEW i \in 2..L, NEW k \in 1..20, HasData(infos[k]), infos[k].last = i - 1
        PROVE  pages'[i].next = EmptyCandidate(k) /\ pages'[i].type = pages[i].type
    <2>1. (CHOOSE m \in DataTables(NumTables) : infos[m].last = i - 1) = k
      <3>1. k \in DataTables(NumTables)
        BY <1>3, <1>4
      <3>2. ASSUME NEW m \in DataTables(NumTables), infos[m].last = i - 1 PROVE m = k
        <4>1. m \in 1..20 /\ HasData(infos[m])
          BY <1>3
        <4>2. i - 1 \in Nat /\ infos[k].index <= i - 1 /\ i - 1 <= Ends(k)
          BY <1>4, OrderFacts
        <4> DEFINE j == i - 1
        <4>3. j \in Nat /\ infos[k].index <= j /\ j <= Ends(k) /\ infos[m].last = j
          BY <3>2, <4>2
        <4> HIDE DEF j
        <4> QED
          BY <4>1, <4>3, LastsAreApart
      <3> QED
        BY <1>4, <3>1, <3>2
    <2> DEFINE p == pages[i]
               v == EmptyCandidate(k)
               s == i - 1
    <2>2. Patched[i] = [p EXCEPT !.next = v]
      <3>1. \E m \in DataTables(NumTables) : infos[m].last = i - 1
        BY <1>3, <1>4
      <3>2. i \in DOMAIN pages
        BY <1>1, <1>2
      <3> QED
        BY <2>1, <3>1, <3>2 DEF Patched
    <2>3. StandsAt(p, s)
      BY <1>2
    <2> HIDE DEF p, v, s
    <2>4. [p EXCEPT !.next = v].next = v /\ [p EXCEPT !.next = v].type = p.type
      BY <2>3, StampFacts
    <2>5. pages'[i].next = v /\ pages'[i].type = p.type
      BY <1>2, <2>2, <2>4
    <2> QED
      BY <2>5 DEF p, v
  <1>5. ASSUME NEW i \in 2..L, \A k \in 1..20 : HasData(infos[k]) => infos[k].last # i - 1
        PROVE  pages'[i] = pages[i]
    <2>1. ~\E k \in DataTables(NumTables) : infos[k].last = i - 1
      BY <1>3, <1>5
    <2>2. Patched[i] = pages[i]
      BY <1>1, <1>2, <2>1 DEF Patched
    <2> QED
      BY <1>2, <2>2
  <1>6. \A i \in 2..L : pages'[i].type = pages[i].type
    BY <1>4, <1>5
  <1>7. ASSUME NEW k \in 1..20, HasData(infos[k])
        PROVE  pages'[infos[k].last + 1].next = EmptyCandidate(k)
    <2> DEFINE b == infos[k].last
               i == b + 1
    <2> DEFINE a == infos[k].index
    <2>0. a \in Nat \ {0} /\ b \in Nat /\ a <= b /\ b < L
      BY OrderFacts
    <2>1. b \in Nat \ {0} /\ b < L
      <3> HIDE DEF a, b, L
      <3> QED
        BY <2>0
    <2>2. i \in 2..L /\ b = i - 1
      <3> HIDE DEF b, L
      <3> QED
        BY <1>1, <2>1
    <2> HIDE DEF i
    <2>3. pages'[i].next = EmptyCandidate(k)
      BY <1>4, <1>7, <2>2
    <2> QED
      BY <2>3 DEF i
  <1> QED
    BY <1>5, <1>6, <1>7

\* Where the chains of the finished file lead.
LEMMA FinishBuildLinks ==
  ASSUME PInv, FinishBuild
  PROVE  ChainsAreDisjoint'
  <1>0. /\ TablesOK /\ table = 20 /\ NumTables = 20 /\ Len(pages) \in Nat
        /\ \A t \in 0..20 : TableRows(t)' = TableRows(t)
        /\ Len(pages') = Len(pages)
    BY StepFacts, PatchedFacts DEF FinishBuild, Build, NumTables
  <1> DEFINE P(t) == header'.tables[t + 1]
             End(t) == IF TableRows(t)' = <<>> THEN P(t).candidate ELSE P(t).last
  <1>1. ASSUME NEW k \in 1..20
        PROVE  /\ header'.tables[k].first = infos[k].index /\ header'.tables[k].last = infos[k].last
               /\ header'.tables[k].candidate = EmptyCandidate(k)
    <2>1. header'.tables = [i \in 1..20 |-> [type |-> i - 1, candidate |-> EmptyCandidate(i),
                                             first |-> infos[i].index, last |-> infos[i].last]]
      BY <1>0 DEF FinishBuild
    <2> QED
      BY <2>1
  <1>2. header'.nextUnused = NextUnused
    BY DEF FinishBuild
  <1>3. ASSUME NEW k \in 1..20 PROVE TableOK(k)
    BY <1>0 DEF TablesOK
  <1>4. ASSUME NEW k \in 1..20, NEW i \in Nat, infos[k].index <= i, i <= Ends(k),
               HasData(infos[k]) => i # infos[k].last
        PROVE  i + 1 \in 2..Len(pages) /\ pages'[i + 1] = pages[i + 1]
    <2>1. i + 1 \in 2..Len(pages) /\ (i + 1) - 1 = i
      <3> DEFINE a == infos[k].index
                 e == Ends(k)
      <3>1. a \in Nat \ {0} /\ e \in Nat /\ e < Len(pages) /\ a <= i /\ i <= e
        BY <1>4, OrderFacts
      <3> HIDE DEF a, e
      <3> QED
        BY <1>0, <3>1
    <2>2. \A m \in 1..20 : HasData(infos[m]) => infos[m].last # i
      BY <1>4, LastsAreApart
    <2> QED
      BY <2>1, <2>2, PatchFacts
  <1>5. ASSUME NEW k \in 1..20
        PROVE  /\ pages'[infos[k].index + 1].index = infos[k].index
               /\ \A i \in infos[k].index..infos[k].last - 1 : pages'[i + 1].next = i + 1
               /\ \A i \in infos[k].index + 1..infos[k].last : pages'[i + 1].type = k - 1
               /\ pages'[infos[k].last + 1].next = EmptyCandidate(k)
               /\ ~HasData(infos[k]) => /\ infos[k].last = infos[k].index
                                        /\ pages'[EmptyCandidate(k) + 1] = ZeroPage
    <2> DEFINE a == infos[k].index
               b == infos[k].last
               e == Ends(k)
    <2>1. /\ a \in Nat \ {0} /\ b \in Nat /\ e \in Nat /\ a <= b /\ b <= e /\ e < Len(pages)
          /\ HasData(infos[k]) => a < b
          /\ ~HasData(infos[k]) => /\ a = b /\ e = b + 1 /\ pages[b + 2] = ZeroPage
                                   /\ pages[b + 1].next = b + 1
      BY <1>3, OrderFacts DEF TableOK, Ends
    <2>2. /\ pages[a + 1].index = a
          /\ \A i \in a..b - 1 : pages[i + 1].next = i + 1
          /\ \A i \in a + 1..b : pages[i + 1].type = k - 1
      BY <1>3 DEF TableOK
    <2>3. \A i \in Nat : /\ a <= i /\ i <= e /\ (HasData(infos[k]) => i # b)
                         => i + 1 \in 2..Len(pages) /\ pages'[i + 1] = pages[i + 1]
      BY <1>4
    <2>4. EmptyCandidate(k) = IF HasData(infos[k]) THEN EmptyCandidate(k) ELSE e
      BY PhantomFacts
    <2>5. HasData(infos[k]) => pages'[b + 1].next = EmptyCandidate(k)
      BY PatchFacts
    <2> HIDE DEF a, b, e
    <2>6. pages'[a + 1].index = a
      BY <2>1, <2>2, <2>3
    <2>7. ASSUME NEW i \in a..b - 1 PROVE pages'[i + 1].next = i + 1
      <3>1. i \in Nat /\ a <= i /\ i <= e /\ i # b
        BY <2>1
      <3> QED
        BY <2>2, <2>3, <3>1
    <2>8. ASSUME NEW i \in a + 1..b PROVE pages'[i + 1].type = k - 1
      <3> DEFINE n == Len(pages)
      <3>1. n \in Nat /\ a \in Nat /\ b \in Nat /\ b < n
        <4>1. n \in Nat /\ a \in Nat \ {0} /\ b \in Nat /\ e \in Nat /\ b <= e /\ e < n
          BY <1>0, <2>1
        <4> HIDE DEF n
        <4> QED
          BY <4>1
      <3> HIDE DEF n
      <3>2. i + 1 \in 2..n
        BY <3>1
      <3>3. \A j \in 2..n : pages'[j].type = pages[j].type
        BY PatchFacts DEF n
      <3>4. pages[i + 1].type = k - 1
        BY <2>2
      <3> QED
        BY <3>2, <3>3, <3>4
    <2>9. CASE ~HasData(infos[k])
      <3>1. pages'[b + 1] = pages[b + 1] /\ pages'[e + 1] = pages[e + 1] /\ e + 1 = b + 2
        <4>1. a \in Nat /\ b \in Nat /\ e \in Nat /\ a = b /\ e = b + 1
          BY <2>1, <2>9
        <4>2. ASSUME NEW i \in Nat, a <= i, i <= e PROVE pages'[i + 1] = pages[i + 1]
          BY <2>3, <2>9, <4>2
        <4>3. a <= b /\ b <= e /\ a <= e /\ e <= e /\ e + 1 = b + 2
          BY <4>1
        <4> QED
          BY <4>1, <4>2, <4>3
      <3>2. pages'[b + 1].next = EmptyCandidate(k) /\ pages'[EmptyCandidate(k) + 1] = ZeroPage
        BY <2>1, <2>4, <2>9, <3>1
      <3> QED
        BY <2>1, <2>6, <2>7, <2>8, <2>9, <3>2 DEF a, b
    <2> QED
      BY <2>5, <2>6, <2>7, <2>8, <2>9 DEF a, b
  <1>6. ASSUME NEW t \in 0..19
        PROVE  /\ pages'[P(t).first + 1].index = P(t).first
               /\ \A i \in P(t).first..P(t).last - 1 : pages'[i + 1].next = i + 1
               /\ \A i \in P(t).first + 1..P(t).last : pages'[i + 1].type = t
               /\ pages'[P(t).last + 1].next = P(t).candidate
               /\ IF TableRows(t)' = <<>>
                  THEN P(t).last = P(t).first /\ pages'[P(t).candidate + 1] = ZeroPage
                  ELSE /\ P(t).last > P(t).first
                       /\ P(t).candidate \in Len(pages')..header'.nextUnused - 1
               /\ \A u \in 0..t - 1 : End(u) < P(t).first /\ P(u).candidate # P(t).candidate
    <2>1. t + 1 \in 1..20 /\ (t + 1) - 1 = t /\ t \in 0..20
      BY RangesNest
    <2> DEFINE k == t + 1
    <2>2. k \in 1..20 /\ k - 1 = t /\ (HasData(infos[k]) <=> TableRows(t)' # <<>>)
      BY <1>0, <2>1, OrderFacts
    <2>3. /\ P(t).first = infos[k].index /\ P(t).last = infos[k].last
          /\ P(t).candidate = EmptyCandidate(k)
      BY <1>1, <2>2
    <2>4. ASSUME NEW u \in 0..t - 1 PROVE End(u) < P(t).first /\ P(u).candidate # P(t).candidate
      <3> DEFINE j == u + 1
      <3>1. j \in 1..20 /\ j - 1 = u /\ j < k /\ u \in 0..20
        OBVIOUS
      <3>2. /\ P(u).last = infos[j].last /\ P(u).candidate = EmptyCandidate(j)
            /\ TableRows(u)' = TableRows(j - 1)
        BY <1>0, <1>1, <3>1
      <3> HIDE DEF j, k
      <3>3. End(u) = Ends(j)
        <4>1. CASE TableRows(j - 1) = <<>>
          BY <3>1, <3>2, <4>1, OrderFacts, PhantomFacts
        <4>2. CASE TableRows(j - 1) # <<>>
          BY <3>2, <4>2 DEF Ends
        <4> QED
          BY <4>1, <4>2
      <3>4. Ends(j) < infos[k].index /\ EmptyCandidate(j) # EmptyCandidate(k)
        BY <2>2, <3>1, OrderFacts, PhantomFacts
      <3> HIDE DEF P, End
      <3> QED
        BY <2>3, <3>2, <3>3, <3>4
    <2> HIDE DEF k
    <2>5. IF TableRows(t)' = <<>>
          THEN infos[k].last = infos[k].index /\ pages'[EmptyCandidate(k) + 1] = ZeroPage
          ELSE /\ infos[k].last > infos[k].index
               /\ EmptyCandidate(k) \in Len(pages')..header'.nextUnused - 1
      <3>1. CASE TableRows(t)' = <<>>
        BY <1>5, <2>2, <3>1
      <3>2. CASE TableRows(t)' # <<>>
        <4>1. HasData(infos[k])
          BY <2>2, <3>2
        <4>2. EmptyCandidate(k) \in Len(pages)..NextUnused - 1
          BY <2>2, <4>1, PhantomFacts
        <4>3. infos[k].last > infos[k].index
          BY <4>1 DEF HasData
        <4> QED
          BY <1>0, <1>2, <3>2, <4>2, <4>3
      <3> QED
        BY <3>1, <3>2
    <2>6. /\ pages'[infos[k].index + 1].index = infos[k].index
          /\ \A i \in infos[k].index..infos[k].last - 1 : pages'[i + 1].next = i + 1
          /\ \A i \in infos[k].index + 1..infos[k].last : pages'[i + 1].type = t
          /\ pages'[infos[k].last + 1].next = EmptyCandidate(k)
      BY <1>5, <2>2
    <2> HIDE DEF P, End
    <2> QED
      BY <2>3, <2>4, <2>5, <2>6
  <1> HIDE DEF P, End
  <1>7. \A t \in 0..NumTables - 1 : t \in 0..19
    BY <1>0
  <1> QED
    BY <1>6, <1>7 DEF ChainsAreDisjoint, P, End

\* Pages of a file that stand where they say are sound once the file is finished.
LEMMA FinishBuildIsSound ==
  ASSUME PInv, FinishBuild
  PROVE  FinishedPagesOK'
  <1>1. /\ DOMAIN pages' = 1..Len(pages) /\ pages'[1].flags = 0
        /\ \A i \in 2..Len(pages) : StandsAt(pages'[i], i - 1)
    BY PatchedFacts
  <1>2. Len(pages) \in Nat
    BY StepFacts DEF FinishBuild, Build
  <1>3. ASSUME NEW i \in DOMAIN pages' PROVE FinishedPageIsSound(i)'
    <2>1. i = 1 \/ i \in 2..Len(pages)
      BY <1>1, <1>2
    <2>2. CASE i = 1
      BY <1>1, <2>2 DEF FinishedPageIsSound
    <2>3. CASE i \in 2..Len(pages)
      BY <1>1, <2>3 DEF StandsAt, ContentsOK, FinishedPageIsSound
    <2> QED
      BY <2>1, <2>2, <2>3
  <1> QED
    BY <1>3 DEF FinishedPagesOK

\* What is said of the finished file is true once it is finished, and it stays so.
LEMMA ComplaintsKept ==
  ASSUME PInv, [Next]_vars
  PROVE  OnlyKnownComplaints' /\ FinishedPagesOK' /\ ChainsAreDisjoint'
  <1>1. CASE stage = "built"
    <2>1. UNCHANGED <<stage, header, pages>> /\ db' = db
      BY <1>1, SettledKept DEF Next, vars, buildVars, layoutVars, Load, PdbTrack, PdbPlaylist,
          PdbBuild, Build, BeginBuild, EmptyTable, StartTable, WriteNext, TurnPage, RowTooLarge,
          EndTable, FinishBuild, WritePdb, PdbFails, Give, WriteDeviceLibrary, WriteAnlz, ListAudio
    <2>2. \A u \in 0..NumTables - 1 : TableRows(u)' = TableRows(u)
      <3>1. \A u \in 0..NumTables - 1 : u \in 0..NumTables
        BY DEF NumTables
      <3> QED
        BY <2>1, <3>1, RowsStay
    <2>3. Errors' = Errors /\ Warnings' = Warnings
      BY <2>1 DEF Errors, Warnings, PointsOutside, WarnedAbout
    <2>4. OnlyKnownComplaints
      BY DEF PInv
    <2>5. {u \in 0..NumTables - 1 : TableRows(u)' = <<>>}
            = {u \in 0..NumTables - 1 : TableRows(u) = <<>>}
      BY <2>2
    <2>6. OnlyKnownComplaints'
      BY <1>1, <2>1, <2>3, <2>4, <2>5 DEF OnlyKnownComplaints
    <2>7. FinishedPagesOK'
      <3>1. FinishedPagesOK
        BY DEF PInv
      <3> QED
        BY <1>1, <2>1, <3>1 DEF FinishedPagesOK, FinishedPageIsSound
    <2>8. ChainsAreDisjoint'
      <3>1. ChainsAreDisjoint
        BY DEF PInv
      <3>2. \A t \in 0..NumTables - 1 : \A u \in 0..t - 1 : u \in 0..NumTables - 1
        BY DEF NumTables
      <3> QED
        BY <1>1, <2>1, <2>2, <3>1, <3>2 DEF ChainsAreDisjoint
    <2> QED
      BY <2>6, <2>7, <2>8
  <1>2. CASE stage # "built" /\ ~(PdbBuild /\ FinishBuild)
    <2>1. stage' # "built"
      BY <1>2 DEF Next, vars, buildVars, layoutVars, Load, PdbTrack, PdbPlaylist,
          PdbBuild, Build, BeginBuild, EmptyTable, StartTable, WriteNext, TurnPage, RowTooLarge,
          EndTable, WritePdb, PdbFails, Give, WriteDeviceLibrary, WriteAnlz, ListAudio
    <2> QED
      BY <2>1 DEF OnlyKnownComplaints, FinishedPagesOK, ChainsAreDisjoint
  <1>3. CASE FinishBuild
    BY <1>3, FinishBuildAgrees, FinishBuildIsSound, FinishBuildLinks
  <1> QED
    BY <1>1, <1>2, <1>3

\* Every step of build keeps PInv.
LEMMA BuildKept ==
  ASSUME PInv, RowsAreLong, [Next]_vars, stage' # "built"
  PROVE  PagesOK' /\ OpenTableOK' /\ TablesOK'
  <1>1. CASE PdbBuild /\ stage # "built"
    <2>1. Build
      BY <1>1 DEF PdbBuild
    <2>2. /\ PagesOK /\ OpenTableOK /\ TablesOK /\ db' = db
          /\ \A t \in 0..NumTables : TableRows(t)' = TableRows(t)
      BY <1>1, <2>1, StepFacts
    <2>3. CASE BeginBuild \/ RowTooLarge
      BY <2>2, <2>3, FileStays, OpenTableStays DEF BeginBuild, RowTooLarge
    <2>4. CASE EmptyTable
      BY <2>4, EmptyTableKeeps
    <2>5. CASE StartTable
      BY <2>5, StartTableKeeps
    <2>6. CASE WriteNext
      BY <2>6, WriteNextKeeps
    <2>7. CASE TurnPage
      BY <2>7, TurnPageKeeps
    <2>8. CASE EndTable
      BY <2>8, EndTableKeeps
    <2>9. ~FinishBuild
      BY DEF FinishBuild
    <2> QED
      BY <2>1, <2>3, <2>4, <2>5, <2>6, <2>7, <2>8, <2>9 DEF Build
  <1>2. CASE stage = "built"
    <2>1. stage' = stage
      BY <1>2 DEF Next, vars, buildVars, layoutVars, Load, PdbTrack, PdbPlaylist, PdbBuild,
          Build, BeginBuild, EmptyTable, StartTable, WriteNext, TurnPage, RowTooLarge,
          EndTable, FinishBuild, WritePdb, PdbFails, Give, WriteDeviceLibrary, WriteAnlz, ListAudio
    <2> QED
      BY <1>2, <2>1
  <1>3. CASE ~PdbBuild /\ stage # "built"
    <2>1. /\ UNCHANGED <<table, page, todo, data, pages, infos, nextIndex>>
          /\ db' = db \/ stage = "add"
      BY <1>3, SettledKept DEF Next, vars, buildVars, Load, PdbTrack, PdbPlaylist, WritePdb,
          PdbFails, Give, WriteDeviceLibrary, WriteAnlz, ListAudio
    <2>2. PagesOK /\ OpenTableOK /\ TablesOK /\ (stage = "add" => page = NoPage /\ table = 0)
      BY <1>3 DEF PInv, SettledOK
    <2>3. PagesOK' /\ TablesOK'
      BY <2>1, <2>2, FileStays
    <2>4. CASE db' = db
      BY <2>1, <2>2, <2>3, <2>4, OpenTableStays, RowsStay
    <2>5. CASE stage = "add"
      BY <2>1, <2>2, <2>3, <2>5 DEF OpenTableOK, NoPage
    <2> QED
      BY <2>1, <2>3, <2>4, <2>5
  <1> QED
    BY <1>1, <1>2, <1>3

LEMMA NextPInv ==
  ASSUME PInv, RowsAreLong, [Next]_vars
  PROVE  PInv'
  BY SettledKept, SoundKept, BuildKept, ComplaintsKept DEF PInv

LEMMA PInvHolds == Spec => []PInv
  <1>1. Init => PInv
    BY InitPInv
  <1>2. PInv /\ RowsAreLong /\ [Next]_vars => PInv'
    BY NextPInv
  <1> QED
    BY <1>1, <1>2, RowsStayLong, PTL DEF Spec

\* For any export, any page size that 11 bits can count and any size of the row groups: the
\* page that is being filled is never overrun, as write_row (page.rs) keeps rows aligned and
\* disjoint and leaves room for the row index, also for the group that the next row may
\* open.  A page that Finalize wrote still says what is true of it when the sequence numbers
\* are stamped, the chains patched and page 0 written: its place in the file, the rows it
\* counts, each at an offset of its own, and the bytes used and left, which with the row
\* index are no more than the page has.
THEOREM PagesStaySound == Spec => []PagesAreSound
  <1>1. PInv => OpenPageIsSound
    <2> SUFFICES ASSUME PInv PROVE OpenPageIsSound
      OBVIOUS
    <2> DEFINE n == Len(page.rows)
    <2>1. /\ page.pos <= PAGE_SIZE - NumGroups(n) * ROW_GROUP_SIZE
          /\ \A i \in 1..n :
                /\ page.rows[i].at % 4 = 0
                /\ \A j \in 1..n : i < j => RowEnd(page, i) <= page.rows[j].at
                /\ HEAP_START + RowEnd(page, i) <= page.pos
          /\ n \in Nat
      BY DEF PInv, Sound, IsSequence
    <2>2. ASSUME NEW i \in 1..n
          PROVE  IF i < n THEN RowEnd(page, i) <= page.rows[i + 1].at
                          ELSE HEAP_START + RowEnd(page, i) <= page.pos
      <3>1. i < n => i + 1 \in 1..n /\ i < i + 1
        BY <2>1
      <3> QED
        BY <2>1, <3>1
    <2> QED
      BY <2>1, <2>2 DEF OpenPageIsSound, RowEnd
  <1>2. PInv => PagesAreSound
    BY <1>1 DEF PInv, FinishedPagesOK, PagesAreSound
  <1> QED
    BY <1>2, PInvHolds, PTL

\* For any export: the pages of a table are linked in order from its index page to the last
\* one its pointer names, behind those of the tables before it, and end at a page that no
\* other table has: page 0 promises each table with rows one of its own beyond the file,
\* although build numbers it long after the pages were written (pdb.rs, build).
THEOREM ChainsStayDisjoint == Spec => []ChainsAreDisjoint
  <1>1. PInv => ChainsAreDisjoint
    BY DEF PInv
  <1> QED
    BY <1>1, PInvHolds, PTL

\* For any export: every page of the finished file stands where it says, within its bounds
\* and under known flags, and every table pointer stays in the file.  So validate_pdb
\* (validate.rs) complains of nothing but next_unused_page, which build sets beyond the
\* phantom pages, and the pages of zeros, one for each table without rows.
THEOREM ValidatorAgrees == Spec => []OnlyKnownComplaints
  <1>1. PInv => OnlyKnownComplaints
    BY DEF PInv
  <1> QED
    BY <1>1, PInvHolds, PTL
-----------------------------------------------------------------------------
(* The rows.  While a table is written its rows are in its pages, in order, *)
(* or still to come, and no page is filled further than its rows account    *)
(* for; so a table with built-in content, which has no way to turn a page,  *)
(* never needs one.  When the file is finished its chains lead through just *)
(* the pages that hold the rows of their tables.                            *)

\* The rows of the table that is being written are in its pages or still to come; those of
\* a table that is finished are in its pages.
OpenRowsOK ==
    page # NoPage =>
        /\ Tight(page)
        /\ \E t \in 0..19 : /\ table = t /\ Written(data, page, todo, TableRows(t))
                            /\ t \in FixedTables => data = <<>>

TableHolds(k) ==
    IF TableRows(k - 1) = <<>>
    THEN pages[infos[k].index + 1].packed = 0
    ELSE Held(pages, TableRows(k - 1), infos[k].index, infos[k].last - infos[k].index)

TablesHold == \A k \in 1..table : TableHolds(k)

WInv == (stage # "built" => OpenRowsOK /\ TablesHold) /\ EveryRowIsRead

\* The file grows behind a table, or its chain is patched.
LEMMA HoldingStays ==
  ASSUME NEW k \in 1..20, TableOK(k), TableHolds(k), Len(pages) \in Nat,
         \A i \in 1..Len(pages) : pages'[i] = pages[i],
         infos'[k] = infos[k], TableRows(k - 1)' = TableRows(k - 1)
  PROVE  TableHolds(k)'
  <1> DEFINE a == infos[k].index
             b == infos[k].last
             rows == TableRows(k - 1)
             L == Len(pages)
  <1>1. a \in Nat \ {0} /\ b \in Nat /\ b < L /\ IF rows = <<>> THEN b = a ELSE b > a
    BY DEF TableOK
  <1>2. L \in Nat
    OBVIOUS
  <1>3. CASE rows = <<>>
    <2>1. a + 1 \in 1..L
      <3> HIDE DEF a, b, L
      <3> QED
        BY <1>1, <1>2, <1>3
    <2>2. pages[a + 1].packed = 0
      BY <1>3 DEF TableHolds
    <2> QED
      BY <1>3, <2>1, <2>2 DEF TableHolds
  <1>4. CASE rows # <<>>
    <2> DEFINE n == b - a
    <2>1. n \in Nat /\ \A j \in 1..n + 1 : a + j \in 1..L
      <3> HIDE DEF a, b, L
      <3> QED
        BY <1>1, <1>2, <1>4
    <2>2. Held(pages, rows, a, n)
      BY <1>4 DEF TableHolds
    <2>3. \A j \in 1..n + 1 : pages'[a + j] = pages[a + j]
      BY <2>1
    <2> HIDE DEF n, a, rows
    <2>4. Held(pages', rows, a, n)
      BY <1>1, <2>1, <2>2, <2>3, HeldStays
    <2> QED
      BY <1>4, <2>4 DEF TableHolds, a, n, rows
  <1> QED
    BY <1>3, <1>4

\* A table is finished behind those that are.
LEMMA HoldingGrows ==
  ASSUME PInv, Build, stage # "built", TablesHold, NEW t \in 0..19, table = t, table' = t + 1,
         \A i \in 1..Len(pages) : pages'[i] = pages[i],
         NEW x, infos' = Append(infos, x), TableHolds(t + 1)'
  PROVE  TablesHold'
  <1>1. /\ TablesOK /\ Len(pages) \in Nat
        /\ \A u \in 0..20 : TableRows(u)' = TableRows(u)
    BY StepFacts DEF NumTables
  <1>2. IsSequence(infos) /\ Len(infos) = t
    BY <1>1 DEF TablesOK
  <1>3. \A k \in 1..t : infos'[k] = infos[k]
    BY <1>2, AppendFacts
  <1>4. ASSUME NEW k \in 1..t PROVE TableHolds(k)'
    <2>1. TableOK(k) /\ TableHolds(k)
      BY <1>1 DEF TablesOK, TablesHold
    <2>2. k \in 1..20 /\ k - 1 \in 0..20
      OBVIOUS
    <2>3. TableRows(k - 1)' = TableRows(k - 1)
      BY <1>1, <2>2
    <2> QED
      BY <1>1, <1>3, <2>1, <2>2, <2>3, HoldingStays
  <1>5. \A k \in 1..t + 1 : k \in 1..t \/ k = t + 1
    OBVIOUS
  <1> QED
    BY <1>4, <1>5 DEF TablesHold

\* A table without rows holds what it should.
LEMMA EmptyTableHolds ==
  ASSUME PInv, EmptyTable, WInv
  PROVE  OpenRowsOK' /\ TablesHold'
  <1>1. Build /\ stage # "built" /\ page = NoPage /\ page' = page
    BY DEF Build, EmptyTable
  <1>2. /\ TablesOK /\ Len(pages) \in Nat /\ table \in 0..20
        /\ \A u \in 0..20 : TableRows(u)' = TableRows(u)
    BY <1>1, StepFacts DEF NumTables
  <1>3. PICK t \in 0..19 : t = table
    BY <1>2 DEF EmptyTable, NumTables
  <1>4. table' = t + 1 /\ TableRows(t) = <<>>
    BY <1>3 DEF EmptyTable
  <1> DEFINE L == Len(pages)
             x == [index |-> L, last |-> L]
  <1>5. /\ \A i \in 1..L : pages'[i] = pages[i]
        /\ pages'[L + 1] = IndexPage(L) /\ infos' = Append(infos, x)
    BY EmptyTableKeeps
  <1>6. IsSequence(infos) /\ Len(infos) = t
    BY <1>2, <1>3 DEF TablesOK
  <1>7. infos'[t + 1] = x
    BY <1>5, <1>6, AppendFacts
  <1>8. IndexPage(L).packed = 0
    BY DEF IndexPage, ZeroPage
  <1>9. TableHolds(t + 1)'
    <2>1. TableRows(t)' = <<>>
      BY <1>2, <1>3, <1>4
    <2>2. (t + 1) - 1 = t /\ infos'[t + 1].index = L
      BY <1>7
    <2> HIDE DEF L, x
    <2> QED
      BY <1>5, <1>8, <2>1, <2>2 DEF TableHolds
  <1> HIDE DEF L, x
  <1>10. TablesHold'
    BY <1>1, <1>3, <1>4, <1>5, <1>9, HoldingGrows DEF WInv, L
  <1> QED
    BY <1>1, <1>10 DEF OpenRowsOK, NoPage

\* The rows of a table that is begun are still to come.
LEMMA StartTableHolds ==
  ASSUME PInv, FeedOK, StartTable
  PROVE  OpenRowsOK'
  <1>1. Build /\ stage # "built"
    BY DEF Build, StartTable
  <1>2. /\ OpenTableOK /\ table \in 0..20 /\ \A u \in 0..20 : TableRows(u)' = TableRows(u)
    BY <1>1, StepFacts DEF NumTables
  <1>3. PICK t \in 0..19 : t = table
    BY <1>2 DEF StartTable, NumTables
  <1>4. /\ data' = <<>> /\ table' = t /\ todo' = TableRows(t)
        /\ page' = NewPage(nextIndex + 1, t)
    BY <1>2, <1>3 DEF StartTable, OpenTableOK
  <1> DEFINE p == NewPage(nextIndex + 1, t)
  <1>5. p.rows = <<>> /\ Tight(p)
    BY FreshIsTight DEF NewPage
  <1> HIDE DEF p
  <1>6. IsSequence(TableRows(t))
    BY TableRowsAreGood DEF FeedOK, GoodRows
  <1>7. Written(<<>>, p, TableRows(t), TableRows(t))
    BY <1>5, <1>6, NothingWritten
  <1>8. Tight(page') /\ Written(data', page', todo', TableRows(t)')
    BY <1>2, <1>4, <1>5, <1>7 DEF p
  <1> QED
    BY <1>4, <1>8 DEF OpenRowsOK

\* What a step on an open table has to begin with.
LEMMA OpenTableFacts ==
  ASSUME PInv, FeedOK, OpenRowsOK, Build, stage # "built", page # NoPage
  PROVE  /\ Sound(page) /\ Tight(page) /\ IsSequence(page.rows) /\ IsSequence(data)
         /\ GoodRows(todo) /\ IsSequence(todo)
         /\ nextIndex \in Nat /\ Len(pages) \in Nat
         /\ \A u \in 0..20 : TableRows(u)' = TableRows(u)
         /\ \E t \in 0..19 : /\ table = t /\ Written(data, page, todo, TableRows(t))
                             /\ GoodRows(TableRows(t))
                             /\ t \in FixedTables => data = <<>>
  <1>1. /\ Sound(page) /\ OpenTableOK /\ Len(pages) \in Nat /\ Len(data) \in Nat
        /\ \A u \in 0..20 : TableRows(u)' = TableRows(u)
    BY StepFacts DEF NumTables
  <1>2. IsSequence(data) /\ nextIndex = Len(pages) + Len(data) + 2
    BY <1>1 DEF OpenTableOK
  <1>3. IsSequence(page.rows)
    BY <1>1 DEF Sound
  <1>4. GoodRows(todo) /\ IsSequence(todo) /\ \A t \in 0..19 : GoodRows(TableRows(t))
    BY TableRowsAreGood DEF FeedOK, GoodRows
  <1>5. /\ Tight(page)
        /\ \E t \in 0..19 : /\ table = t /\ Written(data, page, todo, TableRows(t))
                            /\ t \in FixedTables => data = <<>>
    BY DEF OpenRowsOK
  <1>6. nextIndex \in Nat
    BY <1>1, <1>2
  <1>7. PICK t \in 0..19 : /\ table = t /\ Written(data, page, todo, TableRows(t))
                           /\ t \in FixedTables => data = <<>>
    BY <1>5
  <1>8. GoodRows(TableRows(t))
    BY <1>4
  <1>9. \E u \in 0..19 : /\ table = u /\ Written(data, page, todo, TableRows(u))
                         /\ GoodRows(TableRows(u))
                         /\ u \in FixedTables => data = <<>>
    BY <1>7, <1>8
  <1> QED
    BY <1>1, <1>2, <1>3, <1>4, <1>5, <1>6, <1>9

\* A row goes from those to come to the open page.
LEMMA WriteNextHolds ==
  ASSUME PInv, FeedOK, RowsAreLong, OpenRowsOK, WriteNext
  PROVE  OpenRowsOK'
  <1>1. Build /\ stage # "built" /\ todo # <<>>
    BY DEF Build, WriteNext
  <1>2. page # NoPage
    BY <1>1, StepFacts DEF OpenTableOK
  <1>3. /\ Sound(page) /\ Tight(page) /\ IsSequence(page.rows) /\ IsSequence(data)
        /\ IsSequence(todo) /\ \A u \in 0..20 : TableRows(u)' = TableRows(u)
    BY <1>1, <1>2, OpenTableFacts
  <1>4. PICK t \in 0..19 : /\ table = t /\ Written(data, page, todo, TableRows(t))
                           /\ t \in FixedTables => data = <<>>
    BY <1>1, <1>2, OpenTableFacts
  <1>5. /\ Head(todo).size \in Nat /\ Head(todo).size > 3 /\ ~WouldOverflow(page, Head(todo).size)
        /\ page' = WriteRow(page, Head(todo)) /\ todo' = Tail(todo)
        /\ data' = data /\ table' = t
    BY <1>1, <1>4 DEF WriteNext, RowsAreLong
  <1> DEFINE q == WriteRow(page, Head(todo))
             x == page.pos - HEAP_START
             rows == TableRows(t)
  <1>6. Tight(q)
    BY <1>3, <1>5, WriteRowIsTight
  <1>7. q.rows = Append(page.rows, [at |-> x, row |-> Head(todo)])
    BY <1>3, <1>5, WriteRowIsSound
  <1>8. Written(data, page, todo, rows)
    BY <1>4
  <1> HIDE DEF q, x, rows
  <1>9. Written(data, q, Tail(todo), rows)
    BY <1>1, <1>3, <1>7, <1>8, RowWritten
  <1>10. TableRows(t)' = rows
    <2>1. t \in 0..20
      OBVIOUS
    <2> QED
      BY <1>3, <2>1 DEF rows
  <1>11. Written(data', page', todo', TableRows(t)')
    BY <1>5, <1>9, <1>10 DEF q
  <1> QED
    BY <1>4, <1>5, <1>6, <1>11 DEF OpenRowsOK, q

\* A full page goes to the finished ones.
LEMMA TurnPageHolds ==
  ASSUME PInv, FeedOK, RowsAreLong, OpenRowsOK, TurnPage
  PROVE  OpenRowsOK'
  <1>1. Build /\ stage # "built" /\ todo # <<>>
    BY DEF Build, TurnPage
  <1>2. page # NoPage
    BY <1>1, StepFacts DEF OpenTableOK
  <1>3. /\ Sound(page) /\ IsSequence(page.rows) /\ IsSequence(data) /\ nextIndex \in Nat
        /\ IsSequence(todo) /\ \A u \in 0..20 : TableRows(u)' = TableRows(u)
    BY <1>1, <1>2, OpenTableFacts
  <1>4. PICK t \in 0..19 : /\ table = t /\ Written(data, page, todo, TableRows(t))
                           /\ GoodRows(TableRows(t))
    BY <1>1, <1>2, OpenTableFacts
  <1>5. PICK fresh : fresh = NewPage(nextIndex, table)
    OBVIOUS
  <1> DEFINE all == Append(data, Finalize(page, nextIndex))
             q == WriteRow(fresh, Head(todo))
             x == fresh.pos - HEAP_START
             rows == TableRows(t)
  <1>6. /\ Head(todo).size \in Nat /\ Head(todo).size > 3 /\ ~WouldOverflow(fresh, Head(todo).size)
        /\ page' = q /\ todo' = Tail(todo) /\ data' = all /\ table' = t /\ t \notin FixedTables
    BY <1>1, <1>4, <1>5 DEF TurnPage, RowsAreLong
  <1>7. Sound(fresh) /\ fresh.rows = <<>> /\ Tight(fresh)
    BY <1>3, <1>5, NewPageIsSound, FreshIsTight
  <1>8. Tight(q)
    BY <1>6, <1>7, WriteRowIsTight
  <1>9. q.rows = Append(fresh.rows, [at |-> x, row |-> Head(todo)])
    BY <1>6, <1>7, WriteRowIsSound
  <1>10. Written(data, page, todo, rows) /\ GoodRows(rows)
    BY <1>4
  <1> HIDE DEF rows
  <1>11. Written(all, fresh, todo, rows)
    BY <1>3, <1>7, <1>10, PageTurned
  <1>12. IsSequence(all) /\ IsSequence(fresh.rows)
    BY <1>3, <1>7, AppendFacts DEF Sound
  <1> HIDE DEF q, x, all
  <1>13. Written(all, q, Tail(todo), rows)
    BY <1>1, <1>3, <1>9, <1>11, <1>12, RowWritten
  <1>14. TableRows(t)' = rows
    <2>1. t \in 0..20
      OBVIOUS
    <2> QED
      BY <1>3, <2>1 DEF rows
  <1>15. Written(data', page', todo', TableRows(t)')
    BY <1>6, <1>13, <1>14
  <1> QED
    BY <1>4, <1>6, <1>8, <1>15 DEF OpenRowsOK

\* The pages of a table hold its rows, in order.
LEMMA EndTableHolds ==
  ASSUME PInv, FeedOK, WInv, EndTable
  PROVE  OpenRowsOK' /\ TablesHold'
  <1>1. Build /\ stage # "built" /\ page # NoPage /\ todo = <<>> /\ page' = NoPage
    BY DEF Build, EndTable
  <1>2. OpenRowsOK /\ TablesHold
    BY <1>1 DEF WInv
  <1>3. /\ Sound(page) /\ IsSequence(page.rows) /\ IsSequence(data) /\ Len(pages) \in Nat
        /\ IsSequence(todo) /\ \A u \in 0..20 : TableRows(u)' = TableRows(u)
    BY <1>1, <1>2, OpenTableFacts
  <1>4. PICK t \in 0..19 : /\ table = t /\ Written(data, page, todo, TableRows(t))
                           /\ GoodRows(TableRows(t))
    BY <1>1, <1>2, OpenTableFacts
  <1>5. TableRows(t) # <<>>
    <2>1. \E u \in 0..19 : table = u /\ TableRows(u) # <<>>
      BY <1>1, StepFacts DEF OpenTableOK, NumTables
    <2> QED
      BY <1>4, <2>1
  <1> DEFINE all == Append(data, Finalize(page, NO_NEXT))
             n == Len(all)
             L == Len(pages)
             x == [index |-> L, last |-> L + n]
             rows == TableRows(t)
  <1>6. /\ IsSequence(all) /\ n = Len(data) + 1 /\ \A i \in 1..L : pages'[i] = pages[i]
        /\ pages'[L + 1] = IndexPage(L)
        /\ \A i \in 1..n : \E v : pages'[(L + 1) + i] = [all[i] EXCEPT !.seq = v]
        /\ infos' = Append(infos, x)
    <2> HIDE DEF all
    <2>1. all = Append(data, Finalize(page, NO_NEXT))
      BY DEF all
    <2>2. Adds(all)
      BY <2>1, EndTableKeeps
    <2> QED
      BY <2>2 DEF Adds
  <1>7. n \in Nat /\ L \in Nat
    BY <1>3, <1>6, SequenceFacts
  <1>8. Written(data, page, <<>>, rows) /\ GoodRows(rows) /\ IsSequence(<<>>) /\ NoPage.rows = <<>>
    BY <1>1, <1>3, <1>4 DEF NoPage
  <1> HIDE DEF rows
  <1>9. Written(all, NoPage, <<>>, rows)
    BY <1>3, <1>8, PageTurned
  <1>10. n = Len(all)
    OBVIOUS
  <1> HIDE DEF all, n, L
  <1>11. Held(pages', rows, L, n)
    BY <1>6, <1>7, <1>8, <1>9, <1>10, TableHeld
  <1>12. TableHolds(t + 1)'
    <2>1. TablesOK
      BY <1>1, StepFacts
    <2>2. IsSequence(infos) /\ Len(infos) = t
      BY <1>4, <2>1 DEF TablesOK
    <2>3. infos'[t + 1] = x
      BY <1>6, <2>2, AppendFacts
    <2>4. infos'[t + 1].index = L /\ infos'[t + 1].last - infos'[t + 1].index = n /\ (t + 1) - 1 = t
      BY <1>7, <2>3
    <2>5. TableRows(t)' = rows /\ rows # <<>>
      BY <1>3, <1>5 DEF rows
    <2> HIDE DEF x
    <2> QED
      BY <1>11, <2>4, <2>5 DEF TableHolds
  <1> HIDE DEF x
  <1>13. table' = t + 1
    BY <1>4 DEF EndTable
  <1>14. TablesHold'
    BY <1>1, <1>2, <1>4, <1>6, <1>12, <1>13, HoldingGrows DEF L
  <1> QED
    BY <1>1, <1>14 DEF OpenRowsOK, NoPage

\* A build fails at a row that no page of its table can hold.
LEMMA RowTooLargeHolds ==
  ASSUME PInv, FeedOK, RowsAreLong, OpenRowsOK, RowTooLarge
  PROVE  EveryRowIsRead'
  <1>1. Build /\ stage # "built" /\ todo # <<>> /\ stage' = "failed"
    BY DEF Build, RowTooLarge
  <1>2. page # NoPage
    BY <1>1, StepFacts DEF OpenTableOK
  <1>3. /\ Sound(page) /\ Tight(page) /\ IsSequence(page.rows) /\ IsSequence(data)
        /\ IsSequence(todo) /\ \A u \in 0..20 : TableRows(u)' = TableRows(u)
    BY <1>1, <1>2, OpenTableFacts
  <1>4. PICK t \in 0..19 : /\ table = t /\ Written(data, page, todo, TableRows(t))
                           /\ GoodRows(TableRows(t))
                           /\ t \in FixedTables => data = <<>>
    BY <1>1, <1>2, OpenTableFacts
  <1> DEFINE rows == TableRows(t)
             s == Head(todo).size
  <1>5. WouldOverflow(page, s) /\ (t \notin FixedTables => WouldOverflow(NewPage(nextIndex, t), s))
    BY <1>4 DEF RowTooLarge
  <1>6. t \notin FixedTables
    <2> SUFFICES ASSUME t \in FixedTables PROVE FALSE
      OBVIOUS
    <2>1. FitsOnAPage(rows) /\ data = <<>> /\ GoodRows(rows) /\ Written(<<>>, page, todo, rows)
      BY <1>4, BuiltInFits
    <2> HIDE DEF rows
    <2>2. ~WouldOverflow(page, s)
      BY <1>1, <1>3, <2>1, BuiltInHasRoom
    <2> QED
      BY <1>5, <2>2
  <1>7. WouldOverflow(NewPage(0, t), s)
    <2>1. /\ NewPage(0, t).pos = NewPage(nextIndex, t).pos
          /\ NewPage(0, t).rows = NewPage(nextIndex, t).rows
      BY DEF NewPage
    <2> QED
      BY <1>5, <1>6, <2>1 DEF WouldOverflow
  <1>8. \E i \in DOMAIN rows : rows[i] = Head(todo)
    <2>1. PICK at : Filled(at, data, page, todo, rows)
      BY <1>4 DEF Written
    <2> DEFINE m == Len(data)
               w == Len(page.rows)
               l == Len(todo)
               n == Len(rows)
               a == at[m + 1]
    <2>2. /\ IsSplit(at, m) /\ a + w + l = n
          /\ \A i \in 1..l : todo[i] = rows[a + w + i]
      BY <2>1 DEF Filled
    <2>3. /\ m \in Nat /\ w \in Nat /\ l \in Nat \ {0} /\ n \in Nat /\ DOMAIN rows = 1..n
          /\ Head(todo) = todo[1]
      BY <1>1, <1>3, <1>4, SequenceFacts, TailFacts DEF GoodRows
    <2>4. a \in Nat
      BY <2>2, <2>3 DEF IsSplit
    <2> HIDE DEF m, w, l, n, a
    <2>5. 1 \in 1..l /\ a + w + 1 \in 1..n
      BY <2>2, <2>3, <2>4
    <2> HIDE DEF rows
    <2> QED
      BY <2>2, <2>3, <2>5
  <1>9. \E u \in 0..19 : \E i \in DOMAIN TableRows(u)' :
           WouldOverflow(NewPage(0, u), TableRows(u)'[i].size)
    <2>1. TableRows(t)' = rows /\ t \in 0..20
      BY <1>3
    <2>2. PICK i \in DOMAIN rows : rows[i] = Head(todo)
      BY <1>8
    <2> HIDE DEF rows
    <2> QED
      BY <1>7, <2>1, <2>2
  <1> QED
    BY <1>1, <1>9 DEF EveryRowIsRead, NumTables

\* Every table of the finished file is read back.
LEMMA FinishBuildReads ==
  ASSUME PInv, FeedOK, TablesHold, FinishBuild
  PROVE  EveryRowIsRead'
  <1>0. /\ PagesOK /\ TablesOK /\ table = 20 /\ NumTables = 20
        /\ Len(pages) \in Nat /\ Len(pages) >= 1
        /\ \A t \in 0..20 : TableRows(t)' = TableRows(t)
        /\ Len(pages') = Len(pages)
    BY StepFacts, PatchedFacts DEF FinishBuild, Build, NumTables
  <1> DEFINE L == Len(pages)
             out == NextUnused
             First(t) == header'.tables[t + 1].first
             EndPage(t) == header'.tables[t + 1].last
             Out(t) == header'.tables[t + 1].candidate
  <1>1. stage' = "built" /\ header'.nextUnused = NextUnused
    BY DEF FinishBuild
  <1>2. ASSUME NEW t \in 0..19
        PROVE  /\ First(t) = infos[t + 1].index /\ EndPage(t) = infos[t + 1].last
               /\ t + 1 \in 1..20 /\ (t + 1) - 1 = t /\ TableOK(t + 1) /\ TableHolds(t + 1)
               /\ TableRows(t)' = TableRows(t)
    <2>1. t + 1 \in 1..20 /\ (t + 1) - 1 = t /\ t \in 0..20
      OBVIOUS
    <2>2. header'.tables = [i \in 1..20 |-> [type |-> i - 1, candidate |-> EmptyCandidate(i),
                                             first |-> infos[i].index, last |-> infos[i].last]]
      BY <1>0 DEF FinishBuild
    <2> QED
      BY <1>0, <2>1, <2>2 DEF TablesOK, TablesHold
  <1>3. ASSUME NEW t \in 0..19
        PROVE  /\ \A i \in First(t)..EndPage(t) - 1 : pages'[i + 1].next = i + 1
               /\ pages'[EndPage(t) + 1].next = Out(t)
               /\ IF TableRows(t) = <<>>
                  THEN EndPage(t) = First(t) /\ pages'[Out(t) + 1] = ZeroPage
                  ELSE EndPage(t) > First(t) /\ Out(t) \in L..out - 1
    <2>a. t \in 0..NumTables - 1
      BY <1>0
    <2>b. TableRows(t)' = TableRows(t)
      BY <1>2
    <2>1. t \in 0..NumTables - 1 /\ TableRows(t)' = TableRows(t)
      BY <2>a, <2>b
    <2>2. ChainsAreDisjoint'
      BY FinishBuildLinks
    <2>3. /\ \A i \in First(t)..EndPage(t) - 1 : pages'[i + 1].next = i + 1
          /\ pages'[EndPage(t) + 1].next = Out(t)
          /\ IF TableRows(t)' = <<>>
             THEN EndPage(t) = First(t) /\ pages'[Out(t) + 1] = ZeroPage
             ELSE EndPage(t) > First(t) /\ Out(t) \in Len(pages')..header'.nextUnused - 1
      BY <1>1, <2>1, <2>2 DEF ChainsAreDisjoint
    <2> QED
      BY <1>0, <1>1, <2>1, <2>3
  <1>4. out \in Nat /\ out >= L
    <2>1. DataTables(NumTables) \subseteq 1..20
      BY <1>0 DEF DataTables
    <2>2. IsFiniteSet(1..20)
      BY IntervalFacts
    <2>3. Cardinality(DataTables(NumTables)) \in Nat
      BY <2>1, <2>2, FS_Subset, FS_CardinalityType
    <2>4. nextIndex = L
      BY PhantomFacts
    <2> DEFINE c == Cardinality(DataTables(NumTables))
    <2>5. out = L + c /\ c \in Nat
      BY <2>3, <2>4 DEF NextUnused
    <2>6. L \in Nat
      BY <1>0
    <2> HIDE DEF L, out, c
    <2> QED
      BY ONLY <2>5, <2>6
  <1>5. pages'[1].next = out /\ pages'[1].packed = 0
    <2>1. pages'[1] = HeaderPage(NumTables, NextUnused)
      BY PatchedPages
    <2> DEFINE v == NextUnused
               n == NumTables
    <2> HIDE DEF v, n
    <2>2. ZeroPage.packed = 0 /\ HeaderPage(n, v).packed = 0 /\ HeaderPage(n, v).next = v
      BY DEF ZeroPage, HeaderPage
    <2> QED
      BY <2>1, <2>2 DEF v, n
  <1>6. ASSUME NEW i \in 2..L
        PROVE  /\ pages'[i].packed = pages[i].packed
               /\ pages'[i] = pages[i] \/ \E v : pages'[i] = [pages[i] EXCEPT !.next = v]
    <2>1. pages'[i] = pages[i] \/ \E v : pages'[i] = [pages[i] EXCEPT !.next = v]
      BY PatchedPages
    <2>2. IsPage(pages[i])
      BY <1>0 DEF PagesOK, StandsAt
    <2>3. \A p, v : IsPage(p) => [p EXCEPT !.next = v].packed = p.packed
      BY DEF IsPage
    <2> QED
      BY <2>1, <2>2, <2>3
  <1> HIDE DEF out, First, EndPage, Out
  <1>7. ASSUME NEW t \in 0..19 PROVE Reads(pages', First(t), TableRows(t))
    <2> DEFINE a == First(t)
               b == EndPage(t)
               c == Out(t)
               rows == TableRows(t)
    <2>1. L \in Nat /\ L >= 1 /\ Len(pages') = L /\ out \in Nat /\ out >= L
      BY <1>0, <1>4
    <2>2. /\ a \in Nat \ {0} /\ b \in Nat /\ b < L
          /\ IF rows = <<>> THEN b = a /\ b + 2 <= L /\ TableRows(t) = <<>> ELSE b > a
      BY <1>2 DEF TableOK
    <2>3. /\ \A i \in a..b - 1 : pages'[i + 1].next = i + 1
          /\ pages'[b + 1].next = c
          /\ IF rows = <<>> THEN b = a /\ pages'[c + 1] = ZeroPage ELSE b > a /\ c \in L..out - 1
      BY <1>3
    <2>4. IF rows = <<>> THEN pages[a + 1].packed = 0 ELSE Held(pages, rows, a, b - a)
      BY <1>2 DEF TableHolds
    <2>5. IsSequence(rows)
      BY TableRowsAreGood DEF FeedOK, GoodRows
    <2>6. CASE rows = <<>>
      <3>1. c = b + 1
        BY <1>2, <2>6, PointerFacts DEF EndPage, Out
      <3> HIDE DEF a, b, c, rows, L
      <3>2. /\ a \in Nat \ {0} /\ c \in Nat \ {0} /\ a # c /\ a < L /\ c < L /\ b = a
            /\ a + 1 \in 2..L
        BY <2>1, <2>2, <2>6, <3>1
      <3>3. /\ pages'[a + 1].next = c /\ pages'[a + 1].packed = 0
            /\ pages'[c + 1].next = 0 /\ pages'[c + 1].packed = 0
        <4>1. ZeroPage.next = 0 /\ ZeroPage.packed = 0
          BY DEF ZeroPage
        <4> QED
          BY <1>6, <2>3, <2>4, <2>6, <3>2, <4>1
      <3>4. Reads(pages', a, <<>>)
        BY <1>5, <2>1, <3>2, <3>3, EmptyIsRead
      <3> QED
        BY <2>6, <3>4 DEF a, rows
    <2>7. CASE rows # <<>>
      <3> DEFINE n == b - a
      <3>1. /\ n \in Nat /\ b = a + n /\ a \in Nat /\ a + n < L /\ c \in Nat /\ c >= L
            /\ \A j \in 1..n + 1 : a + j \in 2..L
        <4>1. /\ a \in Nat \ {0} /\ b \in Nat /\ b < L /\ b > a /\ c \in L..out - 1
          BY <2>2, <2>3, <2>7
        <4> HIDE DEF a, b, c, L
        <4> QED
          BY <2>1, <4>1
      <3>2. Held(pages, rows, a, n)
        BY <2>4, <2>7
      <3>3. \A j \in 1..n + 1 : \/ pages'[a + j] = pages[a + j]
                                \/ \E v : pages'[a + j] = [pages[a + j] EXCEPT !.next = v]
        BY <1>6, <3>1
      <3> HIDE DEF a, b, c, rows, n, L
      <3>4. Held(pages', rows, a, n)
        BY <3>1, <3>2, <3>3, HeldStays
      <3>5. /\ \A i \in a..(a + n) - 1 : pages'[i + 1].next = i + 1
            /\ pages'[(a + n) + 1].next = c
        BY <2>3, <3>1
      <3>6. Reads(pages', a, rows)
        BY <2>1, <2>5, <3>1, <3>4, <3>5, TableIsRead
      <3> QED
        BY <3>6 DEF a, rows
    <2> QED
      BY <2>6, <2>7
  <1>8. ASSUME NEW t \in 0..19
        PROVE  /\ ReadTable(t)' = [i \in DOMAIN TableRows(t)' |-> Meant(TableRows(t)'[i])]
               /\ CountTableRows(pages', FirstPage(t)') = Len(TableRows(t)')
    <2>1. TableRows(t)' = TableRows(t) /\ Reads(pages', First(t), TableRows(t))
      BY <1>2, <1>7
    <2>2. FirstPage(t)' = First(t)
      BY DEF FirstPage, First
    <2>3. ReadTable(t)' = LET chain == Chain(pages', First(t))
                          IN  FlattenSeq([i \in DOMAIN chain |-> RowsIn(pages'[chain[i] + 1])])
      BY DEF ReadTable, TablePages, FirstPage, First
    <2> QED
      BY <2>1, <2>2, <2>3 DEF Reads
  <1>9. \A t \in 0..NumTables - 1 : t \in 0..19
    BY <1>0
  <1> QED
    BY <1>1, <1>8, <1>9 DEF EveryRowIsRead

LEMMA InitWInv == Init => WInv
  <1> SUFFICES ASSUME Init PROVE WInv
    OBVIOUS
  <1>1. page = NoPage /\ table = 0 /\ stage = "add"
    BY DEF Init, BuildInit
  <1>2. OpenRowsOK /\ TablesHold
    BY <1>1 DEF OpenRowsOK, TablesHold
  <1>3. EveryRowIsRead
    BY <1>1 DEF EveryRowIsRead
  <1> QED
    BY <1>2, <1>3 DEF WInv

\* What was read once is read so ever after.
LEMMA ReadStays ==
  ASSUME EveryRowIsRead, db' = db, UNCHANGED <<stage, pages, header>>
  PROVE  EveryRowIsRead'
  <1>1. \A u \in 0..NumTables : TableRows(u)' = TableRows(u)
    BY RowsStay
  <1>2. \A u \in 0..NumTables - 1 : u \in 0..NumTables
    BY DEF NumTables
  <1>3. \A u \in 0..NumTables - 1 : TableRows(u)' = TableRows(u)
    BY <1>1, <1>2
  <1>4. \A u \in 0..NumTables - 1 : ReadTable(u)' = ReadTable(u) /\ FirstPage(u)' = FirstPage(u)
    BY DEF ReadTable, TablePages, FirstPage
  <1>5. CASE stage = "built"
    BY <1>3, <1>4, <1>5 DEF EveryRowIsRead
  <1>6. CASE stage = "failed"
    <2>1. PICK t \in 0..NumTables - 1 : \E i \in DOMAIN TableRows(t) :
                WouldOverflow(NewPage(0, t), TableRows(t)[i].size)
      BY <1>6 DEF EveryRowIsRead
    <2>2. PICK i \in DOMAIN TableRows(t) : WouldOverflow(NewPage(0, t), TableRows(t)[i].size)
      BY <2>1
    <2>3. i \in DOMAIN TableRows(t)' /\ WouldOverflow(NewPage(0, t), TableRows(t)'[i].size)
      BY <1>3, <2>2
    <2>4. \E u \in 0..NumTables - 1 : \E j \in DOMAIN TableRows(u)' :
                WouldOverflow(NewPage(0, u), TableRows(u)'[j].size)
      BY <2>3
    <2> QED
      BY <1>6, <2>4 DEF EveryRowIsRead
  <1>7. CASE stage \notin {"built", "failed"}
    BY <1>7 DEF EveryRowIsRead
  <1> QED
    BY <1>5, <1>6, <1>7

\* A step that leaves the table that is being written and the file alone.
LEMMA WritingStays ==
  ASSUME PInv, OpenRowsOK, TablesHold, stage # "built", stage = "add" \/ db' = db,
         UNCHANGED <<table, page, todo, data, pages, infos>>
  PROVE  OpenRowsOK' /\ TablesHold'
  <1>1. CASE stage = "add"
    <2>1. page = NoPage /\ table = 0
      BY <1>1 DEF PInv, SettledOK
    <2> QED
      BY <2>1 DEF OpenRowsOK, TablesHold, NoPage
  <1>2. CASE db' = db
    <2>1. \A u \in 0..20 : TableRows(u)' = TableRows(u)
      BY <1>2, RowsStay DEF NumTables
    <2>2. OpenRowsOK'
      <3>1. CASE page = NoPage
        BY <3>1 DEF OpenRowsOK, NoPage
      <3>2. CASE page # NoPage
        <4>1. PICK t \in 0..19 : /\ table = t /\ Written(data, page, todo, TableRows(t))
                                 /\ t \in FixedTables => data = <<>>
          BY <3>2 DEF OpenRowsOK
        <4>2. TableRows(t)' = TableRows(t)
          <5>1. t \in 0..20
            OBVIOUS
          <5> QED
            BY <2>1, <5>1
        <4>3. Written(data', page', todo', TableRows(t)') /\ Tight(page')
          BY <3>2, <4>1, <4>2 DEF OpenRowsOK
        <4>4. table' = t /\ (t \in FixedTables => data' = <<>>)
          BY <4>1
        <4> QED
          BY <4>3, <4>4 DEF OpenRowsOK
      <3> QED
        BY <3>1, <3>2
    <2>3. TablesHold'
      <3>1. TablesOK /\ Len(pages) \in Nat /\ table \in 0..20
        BY DEF PInv, TablesOK, PagesOK, IsSequence, NumTables
      <3>2. ASSUME NEW k \in 1..table PROVE TableHolds(k)'
        <4>1. k \in 1..20 /\ k - 1 \in 0..20
          BY <3>1
        <4>2. TableOK(k) /\ TableHolds(k)
          BY <3>1 DEF TablesOK, TablesHold
        <4>3. TableRows(k - 1)' = TableRows(k - 1)
          BY <2>1, <4>1
        <4> QED
          BY <3>1, <4>1, <4>2, <4>3, HoldingStays
      <3> QED
        BY <3>2 DEF TablesHold
    <2> QED
      BY <2>2, <2>3
  <1> QED
    BY <1>1, <1>2

\* What StartTable, WriteNext and TurnPage do not touch.
LEMMA TablesUntouched ==
  ASSUME PInv, TablesHold, stage # "built", Build, UNCHANGED <<table, pages, infos>>
  PROVE  TablesHold'
  <1>1. /\ TablesOK /\ Len(pages) \in Nat /\ table \in 0..20
        /\ \A u \in 0..20 : TableRows(u)' = TableRows(u)
    BY StepFacts DEF NumTables
  <1>2. ASSUME NEW k \in 1..table PROVE TableHolds(k)'
    <2>1. k \in 1..20 /\ k - 1 \in 0..20
      BY <1>1
    <2>2. TableOK(k) /\ TableHolds(k)
      BY <1>1 DEF TablesOK, TablesHold
    <2>3. TableRows(k - 1)' = TableRows(k - 1)
      BY <1>1, <2>1
    <2> QED
      BY <1>1, <2>1, <2>2, <2>3, HoldingStays
  <1> QED
    BY <1>2 DEF TablesHold

LEMMA NextWInv ==
  ASSUME PInv, FeedOK, RowsAreLong, WInv, [Next]_vars
  PROVE  WInv'
  <1>0. EveryRowIsRead /\ (stage # "built" => OpenRowsOK /\ TablesHold)
    BY DEF WInv
  <1>1. CASE PdbBuild /\ stage # "built"
    <2>1. Build
      BY <1>1 DEF PdbBuild
    <2>2. OpenRowsOK /\ TablesHold /\ stage # "built"
      BY <1>0, <1>1
    <2>3. CASE BeginBuild
      <3>1. db' = db /\ stage' = "build" /\ UNCHANGED <<table, page, todo, data, pages, infos>>
        BY <2>3 DEF BeginBuild
      <3>2. OpenRowsOK' /\ TablesHold'
        BY <2>2, <3>1, WritingStays
      <3> QED
        BY <3>1, <3>2 DEF WInv, EveryRowIsRead
    <2>4. CASE EmptyTable
      <3>1. stage' = "build"
        BY <2>4 DEF EmptyTable
      <3> QED
        BY <2>4, <3>1, EmptyTableHolds DEF WInv, EveryRowIsRead
    <2>5. CASE StartTable
      <3>1. stage' = "build" /\ UNCHANGED <<table, pages, infos>>
        BY <2>5 DEF StartTable
      <3> QED
        BY <2>1, <2>2, <2>5, <3>1, StartTableHolds, TablesUntouched DEF WInv, EveryRowIsRead
    <2>6. CASE WriteNext
      <3>1. stage' = "build" /\ UNCHANGED <<table, pages, infos>>
        BY <2>6 DEF WriteNext
      <3> QED
        BY <2>1, <2>2, <2>6, <3>1, WriteNextHolds, TablesUntouched DEF WInv, EveryRowIsRead
    <2>7. CASE TurnPage
      <3>1. stage' = "build" /\ UNCHANGED <<table, pages, infos>>
        BY <2>7 DEF TurnPage
      <3> QED
        BY <2>1, <2>2, <2>7, <3>1, TurnPageHolds, TablesUntouched DEF WInv, EveryRowIsRead
    <2>8. CASE RowTooLarge
      <3>1. db' = db /\ UNCHANGED <<table, page, todo, data, pages, infos>>
        BY <2>8 DEF RowTooLarge
      <3>2. OpenRowsOK' /\ TablesHold'
        BY <2>2, <3>1, WritingStays
      <3> QED
        BY <2>2, <2>8, <3>2, RowTooLargeHolds DEF WInv
    <2>9. CASE EndTable
      <3>1. stage' = "build"
        BY <2>9 DEF EndTable
      <3> QED
        BY <2>9, <3>1, EndTableHolds DEF WInv, EveryRowIsRead
    <2>10. CASE FinishBuild
      <3>1. stage' = "built"
        BY <2>10 DEF FinishBuild
      <3> QED
        BY <2>2, <2>10, <3>1, FinishBuildReads DEF WInv
    <2> QED
      BY <2>1, <2>3, <2>4, <2>5, <2>6, <2>7, <2>8, <2>9, <2>10 DEF Build
  <1>2. CASE stage = "built"
    <2>1. UNCHANGED <<stage, header, pages>> /\ db' = db
      BY <1>2, SettledKept DEF Next, vars, buildVars, layoutVars, Load, PdbTrack, PdbPlaylist,
          PdbBuild, Build, BeginBuild, EmptyTable, StartTable, WriteNext, TurnPage, RowTooLarge,
          EndTable, FinishBuild, WritePdb, PdbFails, Give, WriteDeviceLibrary, WriteAnlz, ListAudio
    <2> QED
      BY <1>0, <1>2, <2>1, ReadStays DEF WInv
  <1>3. CASE ~PdbBuild /\ stage # "built"
    <2>1. /\ UNCHANGED <<stage, table, page, todo, data, pages, infos, header>>
          /\ db' = db \/ stage = "add"
      BY <1>3, SettledKept DEF Next, vars, buildVars, Load, PdbTrack, PdbPlaylist, WritePdb,
          PdbFails, Give, WriteDeviceLibrary, WriteAnlz, ListAudio
    <2>2. OpenRowsOK' /\ TablesHold'
      BY <1>0, <1>3, <2>1, WritingStays
    <2>3. CASE db' = db
      BY <1>0, <1>3, <2>1, <2>2, <2>3, ReadStays DEF WInv
    <2>4. CASE stage = "add"
      BY <2>1, <2>2, <2>4 DEF WInv, EveryRowIsRead
    <2> QED
      BY <2>1, <2>3, <2>4
  <1> QED
    BY <1>1, <1>2, <1>3

\* For any export, any page size that 11 bits can count and any size of the row groups up to
\* 16: every row that was to be written is read back, once, complete and in order.  The
\* chain of a table (pdb.rs, build) visits its pages, each page's counter says how many rows
\* to look for, the presence bits and offsets of the row index (page.rs) lead to each, and
\* count_table_rows (validate.rs) finds as many.  A build gives up only at a row that no
\* page can hold; tables with built-in content never are the reason.
THEOREM EveryRowStaysRead == Spec => []EveryRowIsRead
  <1>1. PInv /\ FeedOK /\ RowsAreLong /\ WInv /\ [Next]_vars => WInv'
    BY NextWInv
  <1>2. WInv => EveryRowIsRead
    BY DEF WInv
  <1> QED
    BY <1>1, <1>2, InitWInv, PInvHolds, FeedHolds, RowsStayLong, PTL DEF Spec
-----------------------------------------------------------------------------
(* The references.  The ids of a row of the track table lead to rows that   *)
(* say what the analysis of the track says.                                 *)

\* What a row of a table of names says.
LEMMA NameRowSays ==
  ASSUME NEW head, NEW ids, NEW name
  PROVE  /\ Meant(NameRow(head, ids, name)) = [ids |-> ids, names |-> <<name>>]
         /\ Meant(OffsetNameRow(head, ids, name)) = [ids |-> ids, names |-> <<name>>]
  <1> DEFINE e == EncodeString(name)
             one == <<name>>
  <1>1. e.of = name
    BY DEF EncodeString, Encoded
  <1>2. Encode(one) = <<e>>
    BY DEF Encode
  <1> HIDE DEF e
  <1>3. ASSUME NEW h, NEW ofs PROVE Meant(Row(h, ids, ofs, <<e>>)) = [ids |-> ids, names |-> <<name>>]
    <2> DEFINE row == Row(h, ids, ofs, <<e>>)
    <2>1. row.ids = ids /\ row.strings = <<e>>
      BY DEF Row
    <2> HIDE DEF row
    <2>2. [k \in DOMAIN row.strings |-> row.strings[k].of] = <<name>>
      BY <1>1, <2>1
    <2> QED
      BY <2>1, <2>2 DEF Meant, row
  <1>4. Meant(NameRow(head, ids, name)) = [ids |-> ids, names |-> <<name>>]
    BY <1>2, <1>3 DEF NameRow
  <1>5. Meant(OffsetNameRow(head, ids, name)) = [ids |-> ids, names |-> <<name>>]
    BY <1>3 DEF OffsetNameRow, e
  <1> QED
    BY <1>4, <1>5

\* The two mappings of keys undo each other.
LEMMA KeySurvives ==
  ASSUME NEW key \in 1..24
  PROVE  FromRekordboxId(ToRekordboxId(key)) = key
  <1> DEFINE p == (key - 1) % 12
             o == (key - 1) \div 12
             c == CircleOfFifths[p + 1]
             id == c + 12 * o
  <1>1. p \in 0..11 /\ o \in 0..1 /\ key = 12 * o + p + 1
    OBVIOUS
  <1>2. c \in 1..12 /\ InverseMap[(c - 1) + 1] = p
    <2> HIDE DEF p
    <2>1. \/ p = 0 \/ p = 1 \/ p = 2 \/ p = 3 \/ p = 4 \/ p = 5
          \/ p = 6 \/ p = 7 \/ p = 8 \/ p = 9 \/ p = 10 \/ p = 11
      BY <1>1
    <2> QED
      BY <2>1 DEF CircleOfFifths, InverseMap
  <1>3. ToRekordboxId(key) = id
    BY DEF ToRekordboxId
  <1> HIDE DEF p, o, c
  <1>4. (id - 1) % 12 = c - 1 /\ (id - 1) \div 12 = o
    BY <1>1, <1>2
  <1> HIDE DEF id
  <1>5. FromRekordboxId(id) = p + 1 + 12 * o
    BY <1>2, <1>4 DEF FromRekordboxId
  <1> QED
    BY <1>1, <1>3, <1>5

\* Rows that give the names of a sequence, numbered from 1.
NamesRows(rows, head, s) ==
  DOMAIN rows = DOMAIN s /\ \A i \in DOMAIN s : rows[i] = NameRow(head, [id |-> i], s[i])

\* What is read of them.
LEMMA NamesRowsSay ==
  ASSUME NEW s, NEW rows, NEW head, NamesRows(rows, head, s)
  PROVE  [i \in DOMAIN rows |-> Meant(rows[i])]
           = [i \in DOMAIN s |-> [ids |-> [id |-> i], names |-> <<s[i]>>]]
  <1>1. ASSUME NEW i \in DOMAIN s PROVE Meant(rows[i]) = [ids |-> [id |-> i], names |-> <<s[i]>>]
    <2> DEFINE x == [id |-> i]
    <2>1. rows[i] = NameRow(head, x, s[i])
      BY DEF NamesRows
    <2> HIDE DEF x
    <2>2. Meant(rows[i]) = [ids |-> x, names |-> <<s[i]>>]
      BY <2>1, NameRowSays
    <2> QED
      BY <2>2 DEF x
  <1> QED
    BY <1>1 DEF NamesRows

\* What is read of tables of names in a finished file.
LEMMA NamesAreRead ==
  ASSUME FeedOK, EveryRowIsRead, stage = "built"
  PROVE  /\ ReadTable(0) = [i \in 1..Len(db.tracks) |-> Meant(TrackRow(db.tracks[i]))]
         /\ ReadTable(1) = [i \in 1..Len(db.genres) |-> [ids |-> [id |-> i], names |-> <<db.genres[i]>>]]
         /\ ReadTable(3) = [i \in 1..Len(db.albums) |->
                               [ids |-> [id |-> i, artist |-> db.albums[i].artist],
                                names |-> <<db.albums[i].name>>]]
         /\ ReadTable(4) = [i \in 1..Len(db.labels) |-> [ids |-> [id |-> i], names |-> <<db.labels[i]>>]]
         /\ ReadTable(5) = [i \in 1..Len(db.keys) |->
                               [ids |-> [id |-> i],
                                names |-> <<KeyName(FromRekordboxId(db.keys[i]))>>]]
  <1>1. \A t \in {0, 1, 3, 4, 5} :
           ReadTable(t) = [i \in DOMAIN TableRows(t) |-> Meant(TableRows(t)[i])]
    <2>1. \A t \in 0..NumTables - 1 :
             ReadTable(t) = [i \in DOMAIN TableRows(t) |-> Meant(TableRows(t)[i])]
      BY DEF EveryRowIsRead
    <2>2. \A t \in {0, 1, 3, 4, 5} : t \in 0..NumTables - 1
      BY DEF NumTables
    <2> QED
      BY <2>1, <2>2
  <1>2. /\ DOMAIN db.tracks = 1..Len(db.tracks) /\ DOMAIN db.genres = 1..Len(db.genres)
        /\ DOMAIN db.albums = 1..Len(db.albums) /\ DOMAIN db.labels = 1..Len(db.labels)
        /\ DOMAIN db.keys = 1..Len(db.keys)
    <2>1. /\ IsSequence(db.tracks) /\ IsSequence(db.genres) /\ IsSequence(db.albums)
          /\ IsSequence(db.labels) /\ IsSequence(db.keys)
      BY DEF FeedOK, DbOK, GoodDb, GoodNames
    <2> QED
      BY <2>1, SequenceFacts
  <1>3. /\ TableRows(0) = TrackRows /\ TableRows(1) = GenreRows /\ TableRows(3) = AlbumRows
        /\ TableRows(4) = LabelRows /\ TableRows(5) = KeyRows
    BY DEF TableRows
  <1>4. ReadTable(0) = [i \in 1..Len(db.tracks) |-> Meant(TrackRow(db.tracks[i]))]
    BY <1>1, <1>2, <1>3 DEF TrackRows
  <1>6. ReadTable(1) = [i \in 1..Len(db.genres) |-> [ids |-> [id |-> i], names |-> <<db.genres[i]>>]]
    <2> DEFINE s == db.genres
               rows == GenreRows
               head == 4
    <2>1. NamesRows(rows, head, s)
      BY DEF GenreRows, NamesRows
    <2>2. ReadTable(1) = [i \in DOMAIN rows |-> Meant(rows[i])] /\ DOMAIN s = 1..Len(s)
      BY <1>1, <1>2, <1>3
    <2> HIDE DEF s, rows, head
    <2>3. ReadTable(1) = [i \in DOMAIN s |-> [ids |-> [id |-> i], names |-> <<s[i]>>]]
      BY NamesRowsSay, <2>1, <2>2
    <2> QED
      BY <2>2, <2>3 DEF s
  <1>7. ReadTable(4) = [i \in 1..Len(db.labels) |-> [ids |-> [id |-> i], names |-> <<db.labels[i]>>]]
    <2> DEFINE s == db.labels
               rows == LabelRows
               head == 4
    <2>1. NamesRows(rows, head, s)
      BY DEF LabelRows, NamesRows
    <2>2. ReadTable(4) = [i \in DOMAIN rows |-> Meant(rows[i])] /\ DOMAIN s = 1..Len(s)
      BY <1>1, <1>2, <1>3
    <2> HIDE DEF s, rows, head
    <2>3. ReadTable(4) = [i \in DOMAIN s |-> [ids |-> [id |-> i], names |-> <<s[i]>>]]
      BY NamesRowsSay, <2>1, <2>2
    <2> QED
      BY <2>2, <2>3 DEF s
  <1>8. ReadTable(5) = [i \in 1..Len(db.keys) |->
                           [ids |-> [id |-> i], names |-> <<KeyName(FromRekordboxId(db.keys[i]))>>]]
    <2> DEFINE s == [i \in 1..Len(db.keys) |-> KeyName(FromRekordboxId(db.keys[i]))]
               rows == KeyRows
               head == 8
    <2>1. NamesRows(rows, head, s)
      BY <1>2 DEF KeyRows, NamesRows
    <2>2. ReadTable(5) = [i \in DOMAIN rows |-> Meant(rows[i])] /\ DOMAIN s = 1..Len(db.keys)
      BY <1>1, <1>3
    <2>4. \A i \in DOMAIN s : s[i] = KeyName(FromRekordboxId(db.keys[i]))
      OBVIOUS
    <2> HIDE DEF s, rows, head
    <2>3. ReadTable(5) = [i \in DOMAIN s |-> [ids |-> [id |-> i], names |-> <<s[i]>>]]
      BY NamesRowsSay, <2>1, <2>2
    <2> QED
      BY <2>2, <2>3, <2>4
  <1>9. ReadTable(3) = [i \in 1..Len(db.albums) |->
                           [ids |-> [id |-> i, artist |-> db.albums[i].artist],
                            names |-> <<db.albums[i].name>>]]
    <2> DEFINE s == db.albums
               rows == AlbumRows
    <2>1. DOMAIN rows = DOMAIN s /\ DOMAIN s = 1..Len(s)
      BY <1>2 DEF AlbumRows
    <2>2. ASSUME NEW i \in DOMAIN s
          PROVE  Meant(rows[i]) = [ids |-> [id |-> i, artist |-> s[i].artist], names |-> <<s[i].name>>]
      <3> DEFINE x == [id |-> i, artist |-> s[i].artist]
                 h == 22
      <3>1. rows[i] = OffsetNameRow(h, x, s[i].name)
        BY DEF AlbumRows, AlbumRow
      <3> HIDE DEF x, h, rows, s
      <3>2. Meant(rows[i]) = [ids |-> x, names |-> <<s[i].name>>]
        BY <3>1, NameRowSays
      <3> QED
        BY <3>2 DEF x
    <2>3. ReadTable(3) = [i \in DOMAIN rows |-> Meant(rows[i])]
      BY <1>1, <1>3
    <2> HIDE DEF s, rows
    <2>4. ReadTable(3) = [i \in 1..Len(s) |->
                             [ids |-> [id |-> i, artist |-> s[i].artist], names |-> <<s[i].name>>]]
      BY <2>1, <2>2, <2>3
    <2> QED
      BY <2>4 DEF s
  <1> QED
    BY <1>4, <1>6, <1>7, <1>8, <1>9

\* What a player reads of the tables leads where the ids of tracks say.
LEMMA RowsResolve ==
  ASSUME FeedOK, EveryRowIsRead
  PROVE  ReferencesResolve
  <1> SUFFICES ASSUME stage = "built" PROVE ReferencesResolve
    BY DEF ReferencesResolve
  <1> DEFINE rows == [t \in {0, 1, 3, 4, 5} |-> ReadTable(t)]
             Names(t, id, name) ==
                IF id = 0 THEN name.len = 0
                ELSE \E r \in Range(rows[t]) : r.ids.id = id /\ r.names = <<name>>
  <1>1. /\ rows[0] = ReadTable(0) /\ rows[1] = ReadTable(1) /\ rows[3] = ReadTable(3)
        /\ rows[4] = ReadTable(4) /\ rows[5] = ReadTable(5)
    OBVIOUS
  <1>2. DOMAIN rows[0] = 1..Len(db.tracks)
    BY <1>1, NamesAreRead
  <1>a. rows[1] = [i \in 1..Len(db.genres) |-> [ids |-> [id |-> i], names |-> <<db.genres[i]>>]]
    BY <1>1, NamesAreRead
  <1>b. rows[4] = [i \in 1..Len(db.labels) |-> [ids |-> [id |-> i], names |-> <<db.labels[i]>>]]
    BY <1>1, NamesAreRead
  <1>c. rows[5] = [i \in 1..Len(db.keys) |->
                      [ids |-> [id |-> i], names |-> <<KeyName(FromRekordboxId(db.keys[i]))>>]]
    BY <1>1, NamesAreRead
  <1>d. rows[3] = [i \in 1..Len(db.albums) |->
                      [ids |-> [id |-> i, artist |-> db.albums[i].artist],
                       names |-> <<db.albums[i].name>>]]
    BY <1>1, NamesAreRead
  <1> HIDE DEF rows
  <1>3. ASSUME NEW i \in 1..Len(db.tracks)
        PROVE  LET r == rows[0][i].ids
                   a == db.tracks[i].analysis
               IN  /\ Names(1, r.genre, a.genre)
                   /\ Names(3, r.album, a.album)
                   /\ Names(4, r.label, a.label)
                   /\ r.album # 0 => rows[3][r.album].ids.artist = r.artist
                   /\ IF a.key = NoKey THEN r.key = 0 ELSE Names(5, r.key, KeyName(a.key))
    <2> DEFINE t == db.tracks[i]
               a == t.analysis
               r == rows[0][i].ids
    <2>1. TrackOK(db, t)
      BY DEF FeedOK, DbOK, GoodDb
    <2>2. /\ r.artist = t.artist /\ r.album = t.album /\ r.genre = t.genre /\ r.label = t.label
          /\ r.key = t.key
      <3>1. rows[0][i] = Meant(TrackRow(t))
        BY <1>1, NamesAreRead
      <3> HIDE DEF t
      <3>2. Meant(TrackRow(t)).ids
              = [id |-> t.analysis.id, artist |-> t.artist, album |-> t.album, genre |-> t.genre,
                 label |-> t.label, key |-> t.key, artwork |-> t.artwork]
        BY DEF Meant, TrackRow, Row
      <3> QED
        BY <3>1, <3>2
    <2> HIDE DEF r
    <2>3. Names(1, r.genre, a.genre)
      <3>1. Leads(db.genres, t.genre, a.genre)
        BY <2>1 DEF TrackOK
      <3>2. CASE a.genre.len = 0
        BY <2>2, <3>1, <3>2 DEF Leads
      <3>3. CASE a.genre.len # 0
        <4> DEFINE g == t.genre
        <4>1. g \in 1..Len(db.genres) /\ db.genres[g] = a.genre
          BY <3>1, <3>3 DEF Leads
        <4> DEFINE e == rows[1][g]
        <4>2. e = [ids |-> [id |-> g], names |-> <<a.genre>>] /\ e \in Range(rows[1])
          BY <1>a, <4>1 DEF Range
        <4>3. e.ids.id = g /\ e.names = <<a.genre>> /\ e \in Range(rows[1])
          BY <4>2
        <4> HIDE DEF e
        <4>4. g # 0
          BY <4>1
        <4> QED
          BY <2>2, <4>3, <4>4
      <3> QED
        BY <3>2, <3>3
    <2>4. Names(4, r.label, a.label)
      <3>1. Leads(db.labels, t.label, a.label)
        BY <2>1 DEF TrackOK
      <3>2. CASE a.label.len = 0
        BY <2>2, <3>1, <3>2 DEF Leads
      <3>3. CASE a.label.len # 0
        <4> DEFINE g == t.label
        <4>1. g \in 1..Len(db.labels) /\ db.labels[g] = a.label
          BY <3>1, <3>3 DEF Leads
        <4> DEFINE e == rows[4][g]
        <4>2. e = [ids |-> [id |-> g], names |-> <<a.label>>] /\ e \in Range(rows[4])
          BY <1>b, <4>1 DEF Range
        <4>3. e.ids.id = g /\ e.names = <<a.label>> /\ e \in Range(rows[4])
          BY <4>2
        <4> HIDE DEF e
        <4>4. g # 0
          BY <4>1
        <4> QED
          BY <2>2, <4>3, <4>4
      <3> QED
        BY <3>2, <3>3
    <2>5. Names(3, r.album, a.album) /\ (r.album # 0 => rows[3][r.album].ids.artist = r.artist)
      <3>1. IF a.album.len = 0 THEN t.album = 0
            ELSE t.album \in 1..Len(db.albums) /\ db.albums[t.album] = AlbumKey(a.album, t.artist)
        BY <2>1 DEF TrackOK
      <3>2. CASE a.album.len = 0
        BY <2>2, <3>1, <3>2
      <3>3. CASE a.album.len # 0
        <4> DEFINE g == t.album
                   x == t.artist
                   s == a.album
        <4>1. g \in 1..Len(db.albums) /\ db.albums[g] = AlbumKey(s, x)
          BY <3>1, <3>3
        <4>2. AlbumKey(s, x).name = s /\ AlbumKey(s, x).artist = x
          BY DEF AlbumKey
        <4> DEFINE e == rows[3][g]
        <4>7. DOMAIN rows[3] = 1..Len(db.albums)
          BY <1>d
        <4>8. e = [ids |-> [id |-> g, artist |-> db.albums[g].artist],
                   names |-> <<db.albums[g].name>>]
          BY <1>d, <4>1
        <4>9. db.albums[g].artist = x /\ db.albums[g].name = s
          BY <4>1, <4>2
        <4>10. e \in Range(rows[3])
          BY <4>1, <4>7 DEF Range
        <4>3. e = [ids |-> [id |-> g, artist |-> x], names |-> <<s>>] /\ e \in Range(rows[3])
          BY <4>8, <4>9, <4>10
        <4>4. e.ids.id = g /\ e.ids.artist = x /\ e.names = <<s>> /\ e \in Range(rows[3])
          BY <4>3
        <4> HIDE DEF e
        <4>5. g # 0 /\ r.album = g /\ r.artist = x
          BY <2>2, <4>1
        <4> HIDE DEF g, x, s
        <4>6. Names(3, g, s) /\ rows[3][g].ids.artist = x
          BY <4>4, <4>5 DEF e
        <4> QED
          BY <4>5, <4>6 DEF s
      <3> QED
        BY <3>2, <3>3
    <2>6. IF a.key = NoKey THEN r.key = 0 ELSE Names(5, r.key, KeyName(a.key))
      <3>1. IF a.key = NoKey THEN t.key = 0
            ELSE t.key \in 1..Len(db.keys) /\ db.keys[t.key] = ToRekordboxId(a.key)
        BY <2>1 DEF TrackOK
      <3>2. CASE a.key = NoKey
        BY <2>2, <3>1, <3>2
      <3>3. CASE a.key # NoKey
        <4> DEFINE g == t.key
                   k == a.key
        <4>1. g \in 1..Len(db.keys) /\ db.keys[g] = ToRekordboxId(k)
          BY <3>1, <3>3
        <4>2. k \in 1..24
          <5>1. k \in 0..24
            BY <2>1 DEF TrackOK, GoodAnalysis
          <5> QED
            BY <3>3, <5>1 DEF NoKey
        <4>3. FromRekordboxId(db.keys[g]) = k
          BY <4>1, <4>2, KeySurvives
        <4> DEFINE e == rows[5][g]
                   s == KeyName(k)
        <4>4. e = [ids |-> [id |-> g], names |-> <<s>>] /\ e \in Range(rows[5])
          BY <1>c, <4>1, <4>3 DEF Range
        <4>5. e.ids.id = g /\ e.names = <<s>> /\ e \in Range(rows[5])
          BY <4>4
        <4> HIDE DEF e
        <4>6. g # 0 /\ r.key = g
          BY <2>2, <4>1
        <4> HIDE DEF s
        <4>7. Names(5, r.key, s)
          BY <4>5, <4>6
        <4> QED
          BY <3>3, <4>7 DEF s
      <3> QED
        BY <3>2, <3>3
    <2> QED
      BY <2>3, <2>4, <2>5, <2>6 DEF r
  <1> QED
    BY <1>2, <1>3 DEF ReferencesResolve, rows

\* For any export: an id in a track row of the finished file leads to the row with the name
\* that the analysis has.  Ids are given out by get_or_create (pdb.rs) while tracks are
\* added and stay places in tables that only grow; albums of the same name by different
\* artists have rows of their own, and a key is the same behind the two mappings
\* to_rekordbox_id and from_rekordbox_id.
THEOREM ReferencesAlwaysResolve == Spec => []ReferencesResolve
  <1>1. FeedOK /\ EveryRowIsRead => ReferencesResolve
    BY RowsResolve
  <1> QED
    BY <1>1, FeedHolds, EveryRowStaysRead, PTL
=============================================================================
