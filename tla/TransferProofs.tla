--------------------------- MODULE TransferProofs ---------------------------
(***************************************************************************)
(* Theorems about ExportTransfer, for any playlists, number of exports and *)
(* faults.  TInv says besides the properties that the stick holds files    *)
(* under names the export knows (UsbOK), that build and command stay       *)
(* within their pieces and entries (StagingOK, ClientOK), and that the     *)
(* entries the loop has passed are accounted for (PassedOK); that an entry *)
(* stays so rests on the names of a manifest being distinct.               *)
(***************************************************************************)
EXTENDS ExportTransfer, FiniteSetTheorems, SequenceTheorems, TLAPS

Transferring == {"entry", "get", "body", "check"}

Contents == Playlists \cup {<<h>> : h \in Tracks}
Files == [content : Contents, whole : BOOLEAN, right : BOOLEAN]

UsbOK == usb \in [Names -> Files \cup {Nothing}]

\* The builder's variables; a build stays within its pieces.
StagingOK ==
    /\ tracks \in [Exports -> Playlists \cup {<<>>}]
    /\ build \in [Exports -> 0..(Cardinality(Tracks) + 4)]
    /\ staged \in [Exports -> SUBSET (Names \cup Records)]
    /\ old \subseteq Exports /\ removing \subseteq Exports
    /\ \A e \in Exports :
          build[e] > 0 => tracks[e] \in Playlists /\ build[e] <= Len(Pieces(tracks[e]))

\* The command's; it is about one export and at an entry of its manifest.
ClientOK ==
    /\ saf \in BOOLEAN /\ good \in BOOLEAN
    /\ pc \in Steps
    /\ cur \in 0..MaxExports /\ (pc # "idle" => cur > 0)
    /\ cur > 0 => tracks[cur] \in Playlists
    /\ n \in Nat \ {0}
    /\ IF pc \in Transferring THEN n <= Len(Entries) ELSE n = 1
    /\ skipped \subseteq Names /\ reported \subseteq Names
    /\ faults \in 0..MaxFaults

\* What DifferencesAreKnown asks of one entry.
Accounted(p) ==
    \/ p \in reported
    \/ /\ OnStick(p)
       /\ usb[p].whole
       /\ usb[p].content = Wanted(p) \/ (p \in skipped /\ Skips(p))

PassedOK ==
    /\ pc \in Transferring => \A i \in 1..(n - 1) : Accounted(Entries[i])
    /\ pc \in {"delete", "done"} => \A i \in 1..Len(Entries) : Accounted(Entries[i])

TInv ==
    /\ UsbOK
    /\ StagingOK
    /\ ClientOK
    /\ MountedFilesAreWhole
    /\ AudioIsRight
    /\ PassedOK
-----------------------------------------------------------------------------
USE TracksAssumption, PlaylistsAssumption, MaxExportsAssumption, ExportFaultsAssumption,
    NothingAssumption
    DEF Exports, Ended, Steps, Transferring

(* Manifests.                                                              *)

\* A playlist is no longer than the library: it has a track once.
LEMMA PlaylistFacts ==
  ASSUME NEW T \in Playlists
  PROVE  /\ T \in Seq(Tracks) /\ Len(T) \in Nat \ {0} /\ DOMAIN T = 1..Len(T)
         /\ \A i \in 1..Len(T) : T[i] \in Tracks
         /\ Cardinality(Tracks) \in Nat /\ Len(T) <= Cardinality(Tracks)
  <1>1. T \in Seq(Tracks) /\ T # <<>>
    OBVIOUS
  <1>2. Len(T) \in Nat /\ DOMAIN T = 1..Len(T) /\ \A i \in 1..Len(T) : T[i] \in Tracks
    BY <1>1
  <1>3. Len(T) # 0
    BY <1>1, EmptySeq
  <1>4. Cardinality(Tracks) \in Nat
    BY FS_CardinalityType
  <1>5. Len(T) <= Cardinality(Tracks)
    <2>1. T \in [1..Len(T) -> Tracks]
      BY <1>1, <1>2
    <2>2. IsFiniteSet(1..Len(T)) /\ Cardinality(1..Len(T)) = Len(T)
      BY <1>2, <1>3, FS_Interval
    <2>3. ~\E i, j \in 1..Len(T) : i # j /\ T[i] = T[j]
      BY <1>2, DistinctAssumption
    <2> QED
      BY <1>2, <1>4, <2>1, <2>2, <2>3, FS_PigeonHole
  <1> QED
    BY <1>1, <1>2, <1>3, <1>4, <1>5

LEMMA StagedFacts ==
  ASSUME NEW T \in Playlists
  PROVE  /\ StagedFiles(T) \in Seq(Names) /\ Len(StagedFiles(T)) = Len(T) + 1
         /\ StagedFiles(T)[1] = Pdb
         /\ \A i \in 2..(Len(T) + 1) : StagedFiles(T)[i] = Anlz(i - 1)
  <1>0. /\ Len(T) \in Nat \ {0} /\ DOMAIN T = 1..Len(T)
        /\ Cardinality(Tracks) \in Nat /\ Len(T) <= Cardinality(Tracks)
    BY PlaylistFacts
  <1> DEFINE A == [i \in 1..Len(T) |-> Anlz(i)]
  <1>1. \A i \in 1..Len(T) : Anlz(i) \in Names
    BY <1>0 DEF Names
  <1>2. A \in Seq(Names) /\ Len(A) = Len(T) /\ \A i \in 1..Len(T) : A[i] = Anlz(i)
    BY <1>0, <1>1
  <1>3. <<Pdb>> \in Seq(Names) /\ Len(<<Pdb>>) = 1 /\ <<Pdb>>[1] = Pdb
    BY DEF Names
  <1>4. StagedFiles(T) = <<Pdb>> \o A
    BY <1>0 DEF StagedFiles
  <1> HIDE DEF A
  <1>5. /\ StagedFiles(T) \in Seq(Names) /\ Len(StagedFiles(T)) = 1 + Len(T)
        /\ \A i \in 1..(1 + Len(T)) :
              StagedFiles(T)[i] = IF i <= 1 THEN <<Pdb>>[i] ELSE A[i - 1]
    BY <1>2, <1>3, <1>4, ConcatProperties
  <1>6. StagedFiles(T)[1] = Pdb
    BY <1>0, <1>3, <1>5
  <1>7. ASSUME NEW i \in 2..(Len(T) + 1) PROVE StagedFiles(T)[i] = Anlz(i - 1)
    <2>1. i \in 1..(1 + Len(T)) /\ ~(i <= 1) /\ i - 1 \in 1..Len(T)
      BY <1>0
    <2> QED
      BY <1>2, <1>5, <2>1
  <1> QED
    BY <1>0, <1>5, <1>6, <1>7

\* What a manifest is, and that its names are distinct.
LEMMA ManifestFacts ==
  ASSUME NEW T \in Playlists
  PROVE  /\ Len(Manifest(T)) = 2 * Len(T) + 1 /\ Len(Manifest(T)) \in Nat
         /\ DOMAIN Manifest(T) = 1..Len(Manifest(T))
         /\ Manifest(T)[1] = Pdb
         /\ \A i \in 2..(Len(T) + 1) : Manifest(T)[i] = Anlz(i - 1)
         /\ \A i \in (Len(T) + 2)..(2 * Len(T) + 1) : Manifest(T)[i] = Audio(T[i - Len(T) - 1])
         /\ \A i \in 1..Len(Manifest(T)) : Manifest(T)[i] \in Names
  <1>0. /\ Len(T) \in Nat \ {0} /\ DOMAIN T = 1..Len(T) /\ \A i \in 1..Len(T) : T[i] \in Tracks
    BY PlaylistFacts
  <1>1. /\ StagedFiles(T) \in Seq(Names) /\ Len(StagedFiles(T)) = Len(T) + 1
        /\ StagedFiles(T)[1] = Pdb
        /\ \A i \in 2..(Len(T) + 1) : StagedFiles(T)[i] = Anlz(i - 1)
    BY StagedFacts
  <1> DEFINE A == [i \in 1..Len(T) |-> Audio(T[i])]
  <1>2. \A i \in 1..Len(T) : Audio(T[i]) \in Names
    BY <1>0 DEF Names
  <1>3. A \in Seq(Names) /\ Len(A) = Len(T) /\ \A i \in 1..Len(T) : A[i] = Audio(T[i])
    BY <1>0, <1>2
  <1>4. Manifest(T) = StagedFiles(T) \o A
    BY <1>0 DEF Manifest
  <1> HIDE DEF A
  <1>5. /\ Manifest(T) \in Seq(Names) /\ Len(Manifest(T)) = (Len(T) + 1) + Len(T)
        /\ \A i \in 1..((Len(T) + 1) + Len(T)) :
              Manifest(T)[i] = IF i <= Len(T) + 1 THEN StagedFiles(T)[i] ELSE A[i - (Len(T) + 1)]
    <2>1. /\ Manifest(T) \in Seq(Names)
          /\ Len(Manifest(T)) = Len(StagedFiles(T)) + Len(A)
          /\ \A i \in 1..(Len(StagedFiles(T)) + Len(A)) :
                Manifest(T)[i] = IF i <= Len(StagedFiles(T)) THEN StagedFiles(T)[i]
                                 ELSE A[i - Len(StagedFiles(T))]
      <3>1. StagedFiles(T) \in Seq(Names) /\ A \in Seq(Names)
        BY <1>1, <1>3
      <3> DEFINE B == StagedFiles(T)
      <3>2. /\ B \o A \in Seq(Names)
            /\ Len(B \o A) = Len(B) + Len(A)
            /\ \A i \in 1..(Len(B) + Len(A)) :
                  (B \o A)[i] = IF i <= Len(B) THEN B[i] ELSE A[i - Len(B)]
        BY <3>1, ConcatProperties
      <3> QED
        BY <1>4, <3>2
    <2> QED
      BY <1>1, <1>3, <2>1
  <1>6. Len(Manifest(T)) = 2 * Len(T) + 1
    BY <1>0, <1>5
  <1>7. DOMAIN Manifest(T) = 1..Len(Manifest(T)) /\ \A i \in 1..Len(Manifest(T)) : Manifest(T)[i] \in Names
    BY <1>5
  <1>8. Manifest(T)[1] = Pdb
    BY <1>0, <1>1, <1>5
  <1>9. ASSUME NEW i \in 2..(Len(T) + 1) PROVE Manifest(T)[i] = Anlz(i - 1)
    <2>1. i \in 1..((Len(T) + 1) + Len(T)) /\ i <= Len(T) + 1
      BY <1>0
    <2> QED
      BY <1>1, <1>5, <2>1
  <1>10. ASSUME NEW i \in (Len(T) + 2)..(2 * Len(T) + 1)
         PROVE  Manifest(T)[i] = Audio(T[i - Len(T) - 1])
    <2>1. /\ i \in 1..((Len(T) + 1) + Len(T)) /\ ~(i <= Len(T) + 1)
          /\ i - (Len(T) + 1) = i - Len(T) - 1 /\ i - Len(T) - 1 \in 1..Len(T)
      BY <1>0
    <2> QED
      BY <1>3, <1>5, <2>1
  <1> QED
    BY <1>0, <1>6, <1>7, <1>8, <1>9, <1>10

LEMMA NamesAreDistinct ==
  ASSUME NEW T \in Playlists, NEW i \in 1..Len(Manifest(T)), NEW j \in 1..Len(Manifest(T)),
         Manifest(T)[i] = Manifest(T)[j]
  PROVE  i = j
  <1>0. /\ Len(T) \in Nat \ {0} /\ DOMAIN T = 1..Len(T) /\ Len(Manifest(T)) = 2 * Len(T) + 1
    BY PlaylistFacts, ManifestFacts
  <1>1. \A x : /\ Anlz(x).kind = "anlz" /\ Anlz(x).id = x
               /\ Audio(x).kind = "audio" /\ Audio(x).id = x
    BY DEF Anlz, Audio
  <1>2. Pdb.kind = "pdb"
    BY DEF Pdb
  <1>3. ASSUME NEW k \in 1..Len(Manifest(T))
        PROVE  \/ k = 1 /\ Manifest(T)[k].kind = "pdb"
               \/ /\ k \in 2..(Len(T) + 1)
                  /\ Manifest(T)[k].kind = "anlz" /\ Manifest(T)[k].id = k - 1
               \/ /\ k \in (Len(T) + 2)..(2 * Len(T) + 1)
                  /\ Manifest(T)[k].kind = "audio" /\ Manifest(T)[k].id = T[k - Len(T) - 1]
    <2>1. k = 1 \/ k \in 2..(Len(T) + 1) \/ k \in (Len(T) + 2)..(2 * Len(T) + 1)
      BY <1>0
    <2> QED
      BY <1>1, <1>2, <2>1, ManifestFacts
  <1>4. CASE i = 1 /\ Manifest(T)[i].kind = "pdb"
    BY <1>3, <1>4
  <1>5. CASE /\ i \in 2..(Len(T) + 1)
             /\ Manifest(T)[i].kind = "anlz" /\ Manifest(T)[i].id = i - 1
    <2>1. j \in 2..(Len(T) + 1) /\ Manifest(T)[j].id = j - 1
      BY <1>3, <1>5
    <2> QED
      BY <1>0, <1>5, <2>1
  <1>6. CASE /\ i \in (Len(T) + 2)..(2 * Len(T) + 1)
             /\ Manifest(T)[i].kind = "audio" /\ Manifest(T)[i].id = T[i - Len(T) - 1]
    <2>1. /\ j \in (Len(T) + 2)..(2 * Len(T) + 1)
          /\ Manifest(T)[j].id = T[j - Len(T) - 1]
      BY <1>3, <1>6
    <2>2. T[i - Len(T) - 1] = T[j - Len(T) - 1]
      BY <1>6, <2>1
    <2>3. i - Len(T) - 1 \in 1..Len(T) /\ j - Len(T) - 1 \in 1..Len(T)
      BY <1>0, <1>6, <2>1
    <2>4. i - Len(T) - 1 = j - Len(T) - 1
      BY <1>0, <2>2, <2>3, DistinctAssumption
    <2> QED
      BY <1>0, <1>6, <2>1, <2>4
  <1> QED
    BY <1>3, <1>4, <1>5, <1>6

LEMMA PiecesFacts ==
  ASSUME NEW T \in Playlists
  PROVE  /\ Len(Pieces(T)) = Len(T) + 4
         /\ \A i \in 1..Len(Pieces(T)) : Pieces(T)[i] \in Names \cup Records
  <1>0. Len(T) \in Nat \ {0}
    BY PlaylistFacts
  <1>1. StagedFiles(T) \in Seq(Names \cup Records) /\ Len(StagedFiles(T)) = Len(T) + 1
    <2>1. StagedFiles(T) \in Seq(Names) /\ Len(StagedFiles(T)) = Len(T) + 1
      BY StagedFacts
    <2> QED
      BY <2>1, SeqMonotonic
  <1>2. RecordFiles \in Seq(Names \cup Records) /\ Len(RecordFiles) = 3
    <2>1. Records = {Record("manifest"), Record("sources"), Record("owner")}
      BY DEF Records, RecordFiles
    <2> QED
      BY <2>1 DEF RecordFiles
  <1>3. /\ Pieces(T) \in Seq(Names \cup Records) /\ Len(Pieces(T)) = (Len(T) + 1) + 3
    <2>1. /\ Pieces(T) \in Seq(Names \cup Records)
          /\ Len(Pieces(T)) = Len(StagedFiles(T)) + Len(RecordFiles)
      <3>1. ASSUME NEW s \in Seq(Names \cup Records), NEW t \in Seq(Names \cup Records)
            PROVE  /\ s \o t \in Seq(Names \cup Records)
                   /\ Len(s \o t) = Len(s) + Len(t)
        BY ConcatProperties, Zenon
      <3>2. Pieces(T) = StagedFiles(T) \o RecordFiles
        BY Zenon DEF Pieces
      <3> QED
        BY <1>1, <1>2, <3>1, <3>2, Zenon
    <2> QED
      BY <1>1, <1>2, <2>1
  <1>4. Len(Pieces(T)) = Len(T) + 4
    BY <1>0, <1>3
  <1>5. \A i \in 1..Len(Pieces(T)) : Pieces(T)[i] \in Names \cup Records
    BY <1>3
  <1> QED
    BY <1>4, <1>5
-----------------------------------------------------------------------------
(* Files and entries.                                                      *)

LEMMA FileFacts ==
  /\ \A c, w, r : /\ File(c, w, r).content = c
                  /\ File(c, w, r).whole = w
                  /\ File(c, w, r).right = r
  /\ \A c \in Contents : \A w, r \in BOOLEAN : File(c, w, r) \in Files /\ File(c, w, r) # Nothing
  /\ Nothing \notin Files
  <1>1. \A c, w, r : /\ File(c, w, r).content = c
                     /\ File(c, w, r).whole = w
                     /\ File(c, w, r).right = r
    BY DEF File
  <1>2. \A c \in Contents : \A w, r \in BOOLEAN : File(c, w, r) \in Files
    BY DEF File, Files
  <1>3. Nothing \notin Files
    <2>1. Contents \subseteq Seq(Tracks)
      <3>1. \A h \in Tracks : <<h>> \in Seq(Tracks)
        OBVIOUS
      <3>2. Playlists \subseteq Seq(Tracks)
        OBVIOUS
      <3> QED
        BY <3>1, <3>2, Zenon DEF Contents
    <2>2. Files \subseteq [content : Seq(Tracks), whole : BOOLEAN, right : BOOLEAN]
      BY <2>1 DEF Files
    <2> QED
      BY <2>2
  <1> QED
    BY <1>1, <1>2, <1>3

LEMMA ContentFacts ==
  ASSUME NEW T \in Playlists, NEW i \in 1..Len(Manifest(T))
  PROVE  Manifest(T)[i] \in Names /\ Content(T, Manifest(T)[i]) \in Contents
  <1>0. /\ Len(T) \in Nat \ {0} /\ \A j \in 1..Len(T) : T[j] \in Tracks
        /\ Len(Manifest(T)) = 2 * Len(T) + 1
    BY PlaylistFacts, ManifestFacts
  <1>1. i = 1 \/ i \in 2..(Len(T) + 1) \/ i \in (Len(T) + 2)..(2 * Len(T) + 1)
    BY <1>0
  <1>2. CASE i = 1
    <2>1. Manifest(T)[i] = Pdb
      BY <1>2, ManifestFacts
    <2>2. Content(T, Pdb) = T
      BY DEF Content, Pdb
    <2> QED
      BY <2>1, <2>2, ManifestFacts DEF Contents
  <1>3. CASE i \in 2..(Len(T) + 1)
    <2>1. Manifest(T)[i] = Anlz(i - 1) /\ i - 1 \in 1..Len(T)
      BY <1>0, <1>3, ManifestFacts
    <2>2. Content(T, Anlz(i - 1)) = <<T[i - 1]>>
      BY DEF Content, Anlz
    <2> QED
      BY <1>0, <2>1, <2>2, ManifestFacts DEF Contents
  <1>4. CASE i \in (Len(T) + 2)..(2 * Len(T) + 1)
    <2>1. Manifest(T)[i] = Audio(T[i - Len(T) - 1]) /\ i - Len(T) - 1 \in 1..Len(T)
      BY <1>0, <1>4, ManifestFacts
    <2>2. PICK h \in Tracks : Manifest(T)[i] = Audio(h)
      BY <1>0, <2>1
    <2>3. Content(T, Audio(h)) = <<h>>
      BY DEF Content, Audio
    <2> QED
      BY <2>2, <2>3, ManifestFacts DEF Contents
  <1> QED
    BY <1>1, <1>2, <1>3, <1>4

\* The entry the loop is at.
LEMMA EntryFacts ==
  ASSUME ClientOK, pc \in Transferring
  PROVE  /\ tracks[cur] \in Playlists /\ n \in 1..Len(Entries) /\ Len(Entries) \in Nat
         /\ Entry \in Names /\ Wanted(Entry) \in Contents
         /\ \A i \in 1..Len(Entries) : Entries[i] = Entry => i = n
  <1>1. tracks[cur] \in Playlists /\ Len(Entries) \in Nat /\ n \in 1..Len(Entries)
    BY ManifestFacts DEF ClientOK, Entries
  <1>2. Entry \in Names /\ Wanted(Entry) \in Contents
    BY <1>1, ContentFacts DEF Entry, Entries, Wanted
  <1>3. \A i \in 1..Len(Entries) : Entries[i] = Entry => i = n
    BY <1>1, NamesAreDistinct DEF Entry, Entries
  <1> QED
    BY <1>1, <1>2, <1>3

LEMMA InitTInv == Init => TInv
  <1> SUFFICES ASSUME Init PROVE TInv
    OBVIOUS
  <1>0. Cardinality(Tracks) \in Nat
    BY FS_CardinalityType
  <1>1. StagingOK
    BY <1>0 DEF Init, StagingInit, StagingOK
  <1>2. ClientOK
    BY DEF Init, StagingInit, ClientOK
  <1>3. /\ UsbOK
        /\ \A p \in Names : OnStick(p) => usb[p].whole /\ usb[p].right
    <2>1. PICK T \in Playlists : \E k \in 0..Len(Manifest(T)) : usb = Left(T, k)
      BY DEF Init
    <2>2. PICK k \in 0..Len(Manifest(T)) : usb = Left(T, k)
      BY <2>1
    <2> DEFINE Present == {Manifest(T)[i] : i \in 1..k}
    <2>3. usb = [p \in Names |-> IF p \in Present THEN File(Content(T, p), TRUE, TRUE) ELSE Nothing]
      BY <2>2 DEF Left
    <2>4. ASSUME NEW p \in Present
          PROVE  /\ File(Content(T, p), TRUE, TRUE) \in Files
                 /\ File(Content(T, p), TRUE, TRUE).whole /\ File(Content(T, p), TRUE, TRUE).right
      <3>1. PICK i \in 1..Len(Manifest(T)) : p = Manifest(T)[i]
        BY ManifestFacts
      <3>2. Content(T, p) \in Contents
        BY <3>1, ContentFacts
      <3> QED
        BY <3>2, FileFacts
    <2> HIDE DEF Present
    <2> QED
      BY <2>3, <2>4 DEF UsbOK, OnStick
  <1>4. MountedFilesAreWhole /\ AudioIsRight
    <2>1. \A h \in Tracks : Audio(h) \in Names
      BY DEF Names
    <2> QED
      BY <1>3, <2>1 DEF MountedFilesAreWhole, AudioIsRight
  <1>5. PassedOK
    BY DEF Init, PassedOK
  <1> QED
    BY <1>1, <1>2, <1>3, <1>4, <1>5 DEF TInv
-----------------------------------------------------------------------------
(* The builder.                                                            *)

\* What the builder does by itself.
BuilderStep ==
    \/ \E e \in Exports :
          \/ WritePiece(e) \/ BuildFails(e) \/ BuildBreaks(e)
          \/ Sweep(e) \/ StartRemove(e) \/ RemovePiece(e) \/ RemovalFails(e) \/ Ages(e)
    \/ BuilderDies

LEMMA StagingSteps ==
  ASSUME ClientOK, [Next]_vars
  PROVE  \/ UNCHANGED stagingVars
         \/ BuilderStep
         \/ \E T \in Playlists : CreateExport(T)
  <1>1. CASE Cleanup
    <2>1. cur \in Exports
      BY <1>1 DEF Cleanup, ClientOK
    <2> QED
      BY <1>1, <2>1 DEF Cleanup, BuilderStep
  <1> QED
    BY <1>1 DEF Next, Client, ServerStep, Builder, ServerDies, BuilderStep, vars, BuildAnswers,
        FetchManifest, SkipEntry, FetchEntry, NotServed, OpenFile, ReadBody, HashMismatch, Abort,
        Commit, OpenFails, BodyFails, CommitFails, RunFails

LEMMA StagingKept ==
  ASSUME TInv, [Next]_vars
  PROVE  StagingOK'
  <1>0. StagingOK /\ ClientOK /\ Cardinality(Tracks) \in Nat
    BY FS_CardinalityType DEF TInv
  <1>1. ASSUME NEW T \in Playlists
        PROVE  Len(Pieces(T)) \in Nat /\ Len(Pieces(T)) >= 4
               /\ Len(Pieces(T)) <= Cardinality(Tracks) + 4
    BY PiecesFacts, PlaylistFacts
  <1> USE DEF StagingOK
  <1>2. CASE UNCHANGED stagingVars
    BY <1>0, <1>2 DEF stagingVars
  <1>3. ASSUME NEW T \in Playlists, CreateExport(T) PROVE StagingOK'
    <2>1. cur + 1 \in Exports
      BY <1>0, <1>3 DEF CreateExport, ClientOK
    <2>2. /\ tracks' = [tracks EXCEPT ![cur + 1] = T]
          /\ build' = [build EXCEPT ![cur + 1] = 1]
          /\ UNCHANGED <<staged, old, removing>>
      BY <1>3 DEF CreateExport, BeginBuild
    <2>3. 1 \in 0..(Cardinality(Tracks) + 4) /\ 1 <= Len(Pieces(T))
      BY <1>0, <1>1
    <2> QED
      BY <1>0, <2>1, <2>2, <2>3
  <1>4. ASSUME NEW e \in Exports, WritePiece(e) PROVE StagingOK'
    <2>1. build[e] \in 1..Len(Pieces(tracks[e])) /\ tracks[e] \in Playlists
      BY <1>0, <1>4 DEF WritePiece
    <2> DEFINE p == Pieces(tracks[e])[build[e]]
    <2>2. p \in Names \cup Records
      BY <2>1, PiecesFacts
    <2>3. staged' = [staged EXCEPT ![e] = @ \cup {p}]
      BY <1>4 DEF WritePiece
    <2> HIDE DEF p
    <2>4. staged' \in [Exports -> SUBSET (Names \cup Records)]
      BY <1>0, <2>2, <2>3
    <2>5. old' \subseteq Exports /\ UNCHANGED <<tracks, removing>>
      BY <1>0, <1>4 DEF WritePiece
    <2>6. build' = [build EXCEPT ![e] = IF @ = Len(Pieces(tracks[e])) THEN 0 ELSE @ + 1]
      BY <1>4 DEF WritePiece
    <2> DEFINE b == IF build[e] = Len(Pieces(tracks[e])) THEN 0 ELSE build[e] + 1
    <2>7. b \in 0..(Cardinality(Tracks) + 4) /\ b <= Len(Pieces(tracks[e]))
      BY <1>0, <1>1, <2>1
    <2>8. build' = [build EXCEPT ![e] = b]
      BY <2>6
    <2> HIDE DEF b
    <2>9. build' \in [Exports -> 0..(Cardinality(Tracks) + 4)]
      BY <1>0, <2>7, <2>8
    <2>10. ASSUME NEW d \in Exports, build'[d] > 0
           PROVE  tracks'[d] \in Playlists /\ build'[d] <= Len(Pieces(tracks'[d]))
      <3>1. CASE d = e
        BY <1>0, <2>1, <2>5, <2>7, <2>8, <3>1
      <3>2. CASE d # e
        BY <1>0, <2>5, <2>8, <2>10, <3>2
      <3> QED
        BY <3>1, <3>2
    <2> QED
      BY <1>0, <2>4, <2>5, <2>9, <2>10
  <1>5. ASSUME NEW e \in Exports, BuildFails(e) \/ BuildBreaks(e) PROVE StagingOK'
    <2>1. build' = [build EXCEPT ![e] = 0] /\ UNCHANGED <<tracks, staged, old, removing>>
      BY <1>5 DEF BuildFails, BuildBreaks
    <2>2. build' \in [Exports -> 0..(Cardinality(Tracks) + 4)]
      BY <1>0, <2>1
    <2>3. \A d \in Exports : build'[d] > 0 => build'[d] = build[d]
      BY <1>0, <2>1
    <2> QED
      BY <1>0, <2>1, <2>2, <2>3
  <1>6. ASSUME NEW e \in Exports, Sweep(e) \/ StartRemove(e) \/ RemovalFails(e) \/ Ages(e)
        PROVE  StagingOK'
    BY <1>0, <1>6 DEF Sweep, StartRemove, RemovalFails, Ages
  <1>7. ASSUME NEW e \in Exports, RemovePiece(e) PROVE StagingOK'
    <2>1. PICK p \in staged[e] :
                 /\ staged' = [staged EXCEPT ![e] = @ \ {p}]
                 /\ old' = IF p \in Records \/ staged'[e] \subseteq Records THEN old \ {e} ELSE old
      BY <1>7 DEF RemovePiece
    <2>2. /\ removing' = IF staged'[e] = {} THEN removing \ {e} ELSE removing
          /\ UNCHANGED <<tracks, build>>
      BY <1>7 DEF RemovePiece
    <2>3. staged' \in [Exports -> SUBSET (Names \cup Records)]
      BY <1>0, <2>1
    <2>4. old' \subseteq Exports /\ removing' \subseteq Exports
      BY <1>0, <2>1, <2>2
    <2> QED
      BY <1>0, <2>2, <2>3, <2>4
  <1>8. CASE BuilderDies
    BY <1>0, <1>8 DEF BuilderDies
  <1> QED
    BY <1>0, <1>2, <1>3, <1>4, <1>5, <1>6, <1>7, <1>8, StagingSteps DEF BuilderStep

\* What an export is of is settled when it is created.
LEMMA TracksStay ==
  ASSUME TInv, [Next]_vars
  PROVE  \/ tracks' = tracks
         \/ \E T \in Playlists : CreateExport(T)
  <1>1. CASE BuilderStep
    BY <1>1 DEF BuilderStep, WritePiece, BuildFails, BuildBreaks, Sweep, StartRemove, RemovePiece,
        RemovalFails, Ages, BuilderDies
  <1> QED
    BY <1>1, StagingSteps DEF TInv, stagingVars
-----------------------------------------------------------------------------
(* The command.                                                            *)

\* A step of a run leaves the export and the sink as they are.
LEMMA RunStays ==
  ASSUME TInv, [Next]_vars
  PROVE  \/ UNCHANGED <<saf, cur, tracks>>
         \/ \E T \in Playlists : CreateExport(T)
  <1>1. UNCHANGED <<saf, cur>> \/ \E T \in Playlists : CreateExport(T)
    BY DEF Next, Client, ServerStep, ServerDies, vars, clientVars, BuildAnswers, FetchManifest,
        SkipEntry, FetchEntry, NotServed, OpenFile, ReadBody, HashMismatch, Abort, Commit, Cleanup,
        OpenFails, BodyFails, CommitFails, RunFails
  <1> QED
    BY <1>1, TracksStay

\* The steps at an entry that leave it for the next one.
LEMMA NextEntryFacts ==
  ASSUME ClientOK, pc \in Transferring, NextEntry, UNCHANGED <<saf, cur, tracks>>
  PROVE  /\ pc' \in Steps /\ pc' # "idle" /\ n' \in Nat \ {0}
         /\ IF pc' \in Transferring THEN n' <= Len(Entries') ELSE n' = 1
         /\ \/ n = Len(Entries) /\ pc' = "delete"
            \/ n < Len(Entries) /\ pc' = "entry" /\ n' = n + 1
  <1>1. n \in 1..Len(Entries) /\ Len(Entries) \in Nat /\ Entries' = Entries
    BY EntryFacts DEF Entries
  <1> QED
    BY <1>1 DEF NextEntry

LEMMA ClientKept ==
  ASSUME TInv, [Next]_vars
  PROVE  ClientOK'
  <1>0. ClientOK /\ StagingOK
    BY DEF TInv
  <1>1. ASSUME NEW T \in Playlists, CreateExport(T) PROVE ClientOK'
    <2>1. /\ cur + 1 \in Exports /\ cur' = cur + 1 /\ pc' = "build"
          /\ skipped' = {} /\ reported' = {} /\ UNCHANGED <<saf, n, good, faults>>
          /\ tracks' = [tracks EXCEPT ![cur + 1] = T] /\ n = 1
      BY <1>0, <1>1 DEF CreateExport, BeginBuild, ClientOK
    <2>2. tracks'[cur'] \in Playlists
      BY <1>0, <2>1 DEF StagingOK
    <2> QED
      BY <1>0, <2>1, <2>2 DEF ClientOK
  <1>2. CASE UNCHANGED <<saf, cur, tracks>>
    <2>1. /\ saf' \in BOOLEAN /\ cur' \in 0..MaxExports
          /\ cur' > 0 => tracks'[cur'] \in Playlists
          /\ Entries' = Entries
      BY <1>0, <1>2 DEF ClientOK, Entries
    <2>2. faults' \in 0..MaxFaults
      <3>1. faults \in 0..MaxFaults
        BY <1>0 DEF ClientOK
      <3>2. UNCHANGED faults \/ Fault
        BY <1>1 DEF Next, Client, ServerStep, ServerDies, vars, CreateExport, BuildAnswers,
            FetchManifest, SkipEntry, FetchEntry, NotServed, OpenFile, ReadBody, HashMismatch,
            Commit, Cleanup, OpenFails, BodyFails, CommitFails, RunFails
      <3> QED
        BY <3>1, <3>2 DEF Fault
    <2>3. good' \in BOOLEAN
      BY <1>0 DEF ClientOK, Next, Client, ServerStep, ServerDies, vars, clientVars, CreateExport,
          BuildAnswers, FetchManifest, SkipEntry, FetchEntry, NotServed, OpenFile, ReadBody,
          HashMismatch, Abort, Commit, Cleanup, OpenFails, BodyFails, CommitFails, RunFails
    <2>4. CASE UNCHANGED <<pc, n, skipped, reported>>
      BY <1>0, <1>2, <2>1, <2>2, <2>3, <2>4 DEF ClientOK
    <2>5. CASE /\ pc \in Transferring /\ NextEntry
               /\ skipped' \in {skipped, skipped \cup {Entry}}
               /\ reported' \in {reported, reported \cup {Entry}}
      <3>1. skipped' \subseteq Names /\ reported' \subseteq Names
        BY <1>0, <2>5, EntryFacts DEF ClientOK
      <3> QED
        BY <1>0, <1>2, <2>1, <2>2, <2>3, <2>5, <3>1, NextEntryFacts DEF ClientOK
    <2>6. CASE /\ pc \in {"get", "body", "entry"} /\ pc' \in Transferring
               /\ UNCHANGED <<n, skipped, reported>>
      BY <1>0, <1>2, <2>1, <2>2, <2>3, <2>6 DEF ClientOK
    <2>7. CASE /\ pc \in {"build", "delete"} /\ pc' \in {"manifest", "failed", "done"}
               /\ UNCHANGED <<n, skipped, reported>>
      BY <1>0, <1>2, <2>1, <2>2, <2>3, <2>7 DEF ClientOK
    <2>8. CASE FetchManifest
      <3>1. /\ pc = "manifest" /\ pc' \in {"entry", "failed"} /\ n = 1
            /\ UNCHANGED <<n, skipped, reported>> /\ tracks[cur] \in Playlists
        BY <1>0, <2>8 DEF FetchManifest, ClientOK
      <3>2. 1 <= Len(Entries)
        BY <3>1, ManifestFacts, PlaylistFacts DEF Entries
      <3> QED
        BY <1>0, <1>2, <2>1, <2>2, <2>3, <3>1, <3>2 DEF ClientOK
    <2>9. CASE RunFails
      BY <1>0, <1>2, <2>1, <2>2, <2>3, <2>9 DEF ClientOK, RunFails
    <2>10. CASE SkipEntry \/ NotServed \/ HashMismatch \/ Commit \/ OpenFails \/ BodyFails \/ CommitFails
      BY <2>5, <2>10 DEF SkipEntry, NotServed, HashMismatch, Abort, Commit, OpenFails, BodyFails,
          CommitFails, Report
    <2>11. CASE FetchEntry \/ OpenFile \/ ReadBody
      BY <2>6, <2>11 DEF FetchEntry, OpenFile, ReadBody
    <2>12. CASE BuildAnswers \/ Cleanup
      BY <2>7, <2>12 DEF BuildAnswers, Cleanup
    <2> QED
      BY <1>1, <2>4, <2>8, <2>9, <2>10, <2>11, <2>12
      DEF Next, Client, ServerStep, ServerDies, vars, clientVars
  <1> QED
    BY <1>1, <1>2, RunStays
-----------------------------------------------------------------------------
(* The stick.                                                              *)

\* A step writes or removes the file of the entry, and only in place on SAF
\* other than by committing it.
LEMMA UsbSteps ==
  ASSUME [Next]_vars
  PROVE  \/ usb' = usb
         \/ /\ pc \in Transferring
            /\ \/ saf /\ Put(Entry, File(Wanted(Entry), FALSE, TRUE))
               \/ saf /\ usb' = [usb EXCEPT ![Entry] = Nothing]
               \/ Commit
  <1>1. CASE OpenFile
    BY <1>1 DEF OpenFile
  <1>2. CASE OpenFails
    BY <1>2 DEF OpenFails
  <1>3. CASE HashMismatch
    BY <1>3 DEF HashMismatch, Abort
  <1>4. CASE BodyFails
    BY <1>4 DEF BodyFails, Abort
  <1>5. CASE Commit
    BY <1>5 DEF Commit
  <1> QED
    BY <1>1, <1>2, <1>3, <1>4, <1>5
    DEF Next, Client, ServerStep, ServerDies, vars, clientVars, CreateExport, BuildAnswers,
        FetchManifest, SkipEntry, FetchEntry, NotServed, ReadBody, Cleanup, CommitFails, RunFails

\* So it holds files, whole ones if it is mounted, and audio that is right.
LEMMA UsbKept ==
  ASSUME TInv, [Next]_vars
  PROVE  UsbOK' /\ MountedFilesAreWhole' /\ AudioIsRight'
  <1>0. UsbOK /\ MountedFilesAreWhole /\ AudioIsRight /\ ClientOK
    BY DEF TInv
  <1>s. saf' = saf
    BY RunStays DEF CreateExport
  <1>a. \A h \in Tracks : Audio(h) \in Names
    BY DEF Names
  <1>1. CASE usb' = usb
    <2>1. UsbOK' /\ MountedFilesAreWhole'
      BY <1>0, <1>s, <1>1 DEF UsbOK, MountedFilesAreWhole, OnStick
    <2>2. AudioIsRight'
      BY <1>0, <1>1 DEF AudioIsRight, OnStick
    <2> QED
      BY <2>1, <2>2
  <1>2. ASSUME NEW f \in Files \cup {Nothing}, pc \in Transferring,
               usb' = [usb EXCEPT ![Entry] = f],
               f = Nothing \/ (f.right = TRUE /\ (f.whole = TRUE \/ saf))
        PROVE  UsbOK' /\ MountedFilesAreWhole' /\ AudioIsRight'
    <2>1. Entry \in Names
      BY <1>0, <1>2, EntryFacts
    <2>2. /\ UsbOK'
          /\ \A p \in Names : usb'[p] = IF p = Entry THEN f ELSE usb[p]
      BY <1>0, <1>2, <2>1 DEF UsbOK
    <2>3. MountedFilesAreWhole'
      BY <1>0, <1>s, <1>2, <2>2 DEF MountedFilesAreWhole, OnStick
    <2>4. AudioIsRight'
      BY <1>0, <1>a, <1>2, <2>2 DEF AudioIsRight, OnStick
    <2> QED
      BY <2>2, <2>3, <2>4
  <1>3. ASSUME pc \in Transferring
        PROVE  /\ File(Wanted(Entry), FALSE, TRUE) \in Files
               /\ File(Wanted(Entry), FALSE, TRUE).right = TRUE
               /\ File(Wanted(Entry), TRUE, TRUE) \in Files
               /\ File(Wanted(Entry), TRUE, TRUE).right = TRUE
               /\ File(Wanted(Entry), TRUE, TRUE).whole = TRUE
    <2>1. Wanted(Entry) \in Contents
      BY <1>0, <1>3, EntryFacts
    <2> QED
      BY <2>1, FileFacts
  <1>4. CASE pc \in Transferring /\ saf /\ Put(Entry, File(Wanted(Entry), FALSE, TRUE))
    BY <1>2, <1>3, <1>4 DEF Put
  <1>5. CASE pc \in Transferring /\ saf /\ usb' = [usb EXCEPT ![Entry] = Nothing]
    BY <1>2, <1>5
  <1>6. CASE pc \in Transferring /\ Commit
    BY <1>2, <1>3, <1>6 DEF Commit, Put
  <1> QED
    BY <1>1, <1>4, <1>5, <1>6, UsbSteps
-----------------------------------------------------------------------------
(* The entries it has passed.                                              *)

\* Accounted(p) after a step.
AccountedNext(p) ==
    \/ p \in reported'
    \/ /\ usb'[p] # Nothing
       /\ usb'[p].whole
       /\ \/ usb'[p].content = Content(tracks'[cur'], p)
          \/ /\ p \in skipped' /\ ~saf'
             /\ Size(p, usb'[p].content) = Size(p, Content(tracks'[cur'], p))

\* How a step of a run moves on.
LEMMA PassingSteps ==
  ASSUME TInv, [Next]_vars, UNCHANGED <<saf, cur, tracks>>
  PROVE  /\ skipped \subseteq skipped' /\ reported \subseteq reported'
         /\ \/ UNCHANGED <<pc, n>>
            \/ pc' \in {"manifest", "failed"}
            \/ FetchManifest
            \/ Cleanup
            \/ pc \in Transferring /\ pc' \in Transferring /\ n' = n
            \/ /\ pc \in Transferring /\ NextEntry
               /\ SkipEntry \/ Commit \/ Entry \in reported'
  <1>0. ~\E T \in Playlists : CreateExport(T)
    BY DEF CreateExport, TInv, ClientOK
  <1>1. skipped \subseteq skipped' /\ reported \subseteq reported'
    BY <1>0 DEF Next, Client, ServerStep, ServerDies, vars, clientVars, BuildAnswers,
        FetchManifest, SkipEntry, FetchEntry, NotServed, OpenFile, ReadBody, HashMismatch, Abort,
        Commit, Cleanup, OpenFails, BodyFails, CommitFails, RunFails, Report
  <1>2. CASE SkipEntry \/ Commit
    BY <1>1, <1>2 DEF SkipEntry, Commit
  <1>3. CASE NotServed \/ HashMismatch \/ OpenFails \/ BodyFails \/ CommitFails
    BY <1>1, <1>3 DEF NotServed, HashMismatch, Abort, OpenFails, BodyFails, CommitFails, Report
  <1>4. CASE FetchEntry \/ OpenFile \/ ReadBody
    BY <1>1, <1>4 DEF FetchEntry, OpenFile, ReadBody
  <1>5. CASE BuildAnswers \/ RunFails
    BY <1>1, <1>5 DEF BuildAnswers, RunFails
  <1>6. CASE FetchManifest \/ Cleanup
    BY <1>1, <1>6
  <1>7. CASE ServerStep \/ ServerDies \/ UNCHANGED vars
    BY <1>1, <1>7 DEF ServerStep, ServerDies, vars, clientVars
  <1> QED
    BY <1>0, <1>2, <1>3, <1>4, <1>5, <1>6, <1>7 DEF Next, Client

\* What is accounted for stays so: the step writes under another name.
LEMMA AccountedStays ==
  ASSUME TInv, [Next]_vars, UNCHANGED <<saf, cur, tracks>>,
         cur > 0, NEW i \in 1..Len(Entries), pc \in Transferring => i # n, Accounted(Entries[i])
  PROVE  AccountedNext(Entries[i])
  <1>0. ClientOK /\ UsbOK
    BY DEF TInv
  <1>1. tracks[cur] \in Playlists
    BY <1>0 DEF ClientOK
  <1>2. Entries[i] \in Names
    BY <1>1, ManifestFacts DEF Entries
  <1>3. usb'[Entries[i]] = usb[Entries[i]]
    <2>1. CASE usb' = usb
      BY <2>1
    <2>2. ASSUME pc \in Transferring, NEW f, usb' = [usb EXCEPT ![Entry] = f]
          PROVE  usb'[Entries[i]] = usb[Entries[i]]
      <3>1. Entries[i] # Entry
        BY <1>0, <2>2, EntryFacts
      <3> QED
        BY <1>0, <1>2, <2>2, <3>1 DEF UsbOK
    <2> QED
      BY <2>1, <2>2, UsbSteps DEF Put, Commit
  <1>4. skipped \subseteq skipped' /\ reported \subseteq reported'
    BY PassingSteps
  <1> DEFINE p == Entries[i]
  <1>5. p = Entries[i] /\ usb'[p] = usb[p] /\ Accounted(p)
    BY <1>3
  <1> HIDE DEF p
  <1>6. AccountedNext(p)
    BY <1>4, <1>5 DEF Accounted, AccountedNext, OnStick, Wanted, Skips
  <1> QED
    BY <1>5, <1>6

\* The loop passes an entry by skipping, committing or reporting it.
LEMMA PassedIsAccounted ==
  ASSUME TInv, [Next]_vars, UNCHANGED <<saf, cur, tracks>>, pc \in Transferring,
         SkipEntry \/ Commit \/ Entry \in reported'
  PROVE  AccountedNext(Entry)
  <1>0. ClientOK /\ UsbOK /\ MountedFilesAreWhole
    BY DEF TInv
  <1>1. Entry \in Names /\ Wanted(Entry) \in Contents
    BY <1>0, EntryFacts
  <1> DEFINE p == Entry
  <1>2. p \in Names /\ Wanted(p) \in Contents /\ p = Entry
    BY <1>1
  <1> HIDE DEF p
  <1>a. AccountedNext(p) => AccountedNext(Entry)
    BY <1>2
  <1>3. CASE SkipEntry
    <2>1. Skips(p) /\ p \in skipped' /\ usb' = usb
      BY <1>2, <1>3 DEF SkipEntry
    <2>2. usb[p].whole
      BY <1>0, <1>2, <2>1 DEF MountedFilesAreWhole, Skips
    <2>3. ~saf /\ usb[p] # Nothing /\ Size(p, usb[p].content) = Size(p, Content(tracks[cur], p))
      BY <2>1 DEF Skips, OnStick, Wanted
    <2>4. usb'[p] = usb[p] /\ saf' = saf /\ Content(tracks'[cur'], p) = Content(tracks[cur], p)
      BY <2>1
    <2> QED
      BY <1>a, <2>1, <2>2, <2>3, <2>4 DEF AccountedNext
  <1>4. CASE Commit
    <2>1. usb' = [usb EXCEPT ![p] = File(Wanted(p), TRUE, TRUE)]
      BY <1>2, <1>4 DEF Commit, Put
    <2>2. usb'[p] = File(Wanted(p), TRUE, TRUE)
      BY <1>0, <1>2, <2>1 DEF UsbOK
    <2>3. usb'[p] # Nothing /\ usb'[p].whole = TRUE /\ usb'[p].content = Wanted(p)
      <3> DEFINE f == File(Wanted(p), TRUE, TRUE)
      <3>1. f # Nothing
        BY <1>2, FileFacts
      <3>2. f.whole = TRUE /\ f.content = Wanted(p)
        BY FileFacts
      <3> HIDE DEF f
      <3>3. usb'[p] = f
        BY <2>2 DEF f
      <3> QED
        BY <3>1, <3>2, <3>3
    <2>4. Wanted(p) = Content(tracks'[cur'], p)
      BY DEF Wanted
    <2> QED
      BY <1>a, <2>3, <2>4 DEF AccountedNext
  <1>6. CASE Entry \in reported'
    BY <1>6 DEF AccountedNext
  <1> QED
    BY <1>3, <1>4, <1>6

LEMMA PassedKept ==
  ASSUME TInv, [Next]_vars
  PROVE  PassedOK'
  <1>0. ClientOK /\ PassedOK
    BY DEF TInv
  <1>a. \/ UNCHANGED <<saf, cur, tracks>>
        \/ \E T \in Playlists : CreateExport(T)
    BY RunStays
  <1>1. CASE \E T \in Playlists : CreateExport(T)
    BY <1>1 DEF CreateExport, PassedOK
  <1>2. CASE UNCHANGED <<saf, cur, tracks>>
    <2>0. Entries' = Entries
      BY <1>2 DEF Entries
    <2>p. ASSUME pc' \in Transferring => \A i \in 1..(n' - 1) : AccountedNext(Entries[i]),
                 pc' \in {"delete", "done"} => \A i \in 1..Len(Entries) : AccountedNext(Entries[i])
          PROVE  PassedOK'
      BY <2>0, <2>p DEF PassedOK, Accounted, AccountedNext, OnStick, Wanted, Skips
    <2>1. CASE pc' \in {"manifest", "failed"}
      BY <2>p, <2>1
    <2>2. CASE FetchManifest
      <3>1. n' = 1 /\ pc' \in {"entry", "failed"}
        BY <1>0, <2>2 DEF FetchManifest, ClientOK
      <3> QED
        BY <2>p, <3>1
    <2>3. CASE Cleanup
      <3>1. pc = "delete" /\ pc' = "done" /\ cur > 0
        BY <1>0, <2>3 DEF Cleanup, ClientOK
      <3>2. \A i \in 1..Len(Entries) : AccountedNext(Entries[i])
        BY <1>0, <1>2, <3>1, AccountedStays DEF PassedOK
      <3> QED
        BY <2>p, <3>1, <3>2
    <2>4. CASE pc \in Transferring
      <3>1. /\ n \in 1..Len(Entries) /\ Len(Entries) \in Nat /\ cur > 0
            /\ \A i \in 1..(n - 1) : AccountedNext(Entries[i])
        <4>1. n \in 1..Len(Entries) /\ Len(Entries) \in Nat /\ cur > 0
          BY <1>0, <2>4, EntryFacts DEF ClientOK
        <4>2. \A i \in 1..(n - 1) : i \in 1..Len(Entries) /\ i # n /\ Accounted(Entries[i])
          BY <1>0, <2>4, <4>1 DEF PassedOK
        <4> QED
          BY <1>2, <4>1, <4>2, AccountedStays
      <3>2. CASE pc' \in Transferring /\ n' = n
        BY <2>p, <3>1, <3>2
      <3>3. CASE NextEntry /\ (SkipEntry \/ Commit \/ Entry \in reported')
        <4>1. AccountedNext(Entries[n])
          BY <1>2, <2>4, <3>3, PassedIsAccounted DEF Entry
        <4>2. \/ n = Len(Entries) /\ pc' = "delete"
              \/ n < Len(Entries) /\ pc' = "entry" /\ n' = n + 1
          BY <1>0, <1>2, <2>4, <3>3, NextEntryFacts
        <4>3. \A i \in 1..n : AccountedNext(Entries[i])
          BY <3>1, <4>1
        <4> QED
          BY <2>p, <3>1, <4>2, <4>3
      <3> QED
        BY <1>2, <2>1, <2>2, <2>3, <2>4, <3>2, <3>3, PassingSteps
    <2>5. CASE pc \notin Transferring /\ UNCHANGED <<pc, n>>
      <3>1. pc' \in {"delete", "done"} => \A i \in 1..Len(Entries) : AccountedNext(Entries[i])
        BY <1>0, <1>2, <2>5, AccountedStays DEF PassedOK, ClientOK
      <3> QED
        BY <2>p, <2>5, <3>1
    <2> QED
      BY <1>2, <2>1, <2>2, <2>3, <2>4, <2>5, PassingSteps
  <1> QED
    BY <1>a, <1>1, <1>2
-----------------------------------------------------------------------------
(* Theorems.                                                               *)

LEMMA TInvIsInvariant == Spec => []TInv
  <1>1. ASSUME TInv, [Next]_vars PROVE TInv'
    BY <1>1, StagingKept, ClientKept, UsbKept, PassedKept DEF TInv
  <1> QED
    BY <1>1, InitTInv, PTL DEF Spec

LEMMA TInvTypes == TInv => TypeOK
  <1> SUFFICES ASSUME TInv PROVE TypeOK
    OBVIOUS
  <1>0. UsbOK /\ StagingOK /\ ClientOK /\ Cardinality(Tracks) \in Nat
    BY FS_CardinalityType DEF TInv
  <1>1. /\ tracks \in [Exports -> Playlists \cup {<<>>}]
        /\ build \in [Exports -> 0..(Cardinality(Tracks) + 4)]
        /\ \A e \in Exports : staged[e] \subseteq Names \cup Records
        /\ old \subseteq Exports
        /\ removing \subseteq Exports
    BY <1>0 DEF StagingOK
  <1>2. \A p \in Names : OnStick(p) =>
           /\ usb[p].content \in Playlists \cup {<<h>> : h \in Tracks}
           /\ usb[p].whole \in BOOLEAN /\ usb[p].right \in BOOLEAN
    BY <1>0 DEF UsbOK, OnStick, Files, Contents
  <1>3. n \in 1..(2 * Cardinality(Tracks) + 1)
    <2>1. CASE pc \in Transferring
      <3>1. n \in 1..Len(Entries) /\ tracks[cur] \in Playlists
        BY <1>0, <2>1, EntryFacts
      <3>2. Len(Entries) = 2 * Len(tracks[cur]) + 1 /\ Len(tracks[cur]) \in Nat
            /\ Len(tracks[cur]) <= Cardinality(Tracks)
        BY <3>1, ManifestFacts, PlaylistFacts DEF Entries
      <3> QED
        BY <1>0, <3>1, <3>2
    <2>2. CASE pc \notin Transferring
      BY <1>0, <2>2 DEF ClientOK
    <2> QED
      BY <2>1, <2>2
  <1>4. /\ saf \in BOOLEAN /\ good \in BOOLEAN
        /\ pc \in Steps
        /\ cur \in 0..MaxExports
        /\ pc \notin Ended => cur > 0
        /\ skipped \subseteq Names /\ reported \subseteq Names
        /\ faults \in 0..MaxFaults
    BY <1>0 DEF ClientOK
  <1> QED
    BY <1>1, <1>2, <1>3, <1>4 DEF TypeOK

\* The transfer's state is well-formed, for any library, playlists, exports and
\* faults: the index never runs past the manifest, a build never past its
\* pieces, and what is staged or on the stick are files of an export.
THEOREM TransferTypeCorrect == Spec => []TypeOK
  BY TInvIsInvariant, TInvTypes, PTL

\* FsWriter: a mounted stick that is pulled, or whose export is killed, at any
\* moment has only whole files under their names.
THEOREM PlayerSeesWholeFiles == Spec => []MountedFilesAreWhole
  <1>1. TInv => MountedFilesAreWhole
    BY DEF TInv
  <1> QED
    BY <1>1, TInvIsInvariant, PTL

\* transfer_file's digest: audio that is whole on a stick is the audio its name
\* says, over any number of exports and whatever the raw store serves, which is
\* why the next export may skip it by its size.
THEOREM StickAudioIsRight == Spec => []AudioIsRight
  <1>1. TInv => AudioIsRight
    BY DEF TInv
  <1> QED
    BY <1>1, TInvIsInvariant, PTL

\* reconcile: when a run ends every entry of its manifest is on the stick as
\* rendered, or skipped at its size, or reported, whatever the sweep, restarts
\* and failed calls took away on the server meanwhile.
THEOREM NoSilentOmission == Spec => []DifferencesAreKnown
  <1>1. TInv => DifferencesAreKnown
    <2> SUFFICES ASSUME TInv, pc = "done", NEW i \in DOMAIN Entries
                 PROVE  Accounted(Entries[i])
      BY DEF DifferencesAreKnown, Accounted
    <2>1. tracks[cur] \in Playlists
      BY DEF TInv, ClientOK
    <2>2. i \in 1..Len(Entries)
      BY <2>1, ManifestFacts DEF Entries
    <2> QED
      BY <2>2 DEF TInv, PassedOK
  <1> QED
    BY <1>1, TInvIsInvariant, PTL
=============================================================================
