------------------------------ MODULE AnlzFile ------------------------------
(***************************************************************************)
(* Analysis files (anlz.rs): three files per track, each a PMAI header     *)
(* and a row of tagged sections.  A player does not search for tags: it    *)
(* starts where the header says and steps by the length each section       *)
(* declares.  A section is its tag, the header length and the length it    *)
(* declares, and the number of bytes that are really written.              *)
(*                                                                         *)
(* t.beats is the length of the beat grid and t.detail of the waveform;    *)
(* there are no cue points, which is how every stored analysis has it.     *)
(***************************************************************************)
EXTENDS Integers, Sequences, SequencesExt, Folds

Section(tag, head, declared, written) ==
    [tag |-> tag, head |-> head, declared |-> declared, written |-> written]

\* Mutated form of Ppth: the terminator is not counted.
Unterminated(path) == Section("PPTH", 16, 16 + 2 * path.len, 4 * 4 + 2 * (path.len + 1))

\* The path in UTF-16 with a terminator.
Ppth(path) == Section("PPTH", 16, 16 + 2 * (path.len + 1), 4 * 4 + 2 * (path.len + 1))
Pvbr == Section("PVBR", 16, 1620, 4 * 4 + 4 * 400 + 4)
Pqtz(beats) == Section("PQTZ", 24, 24 + 8 * beats, 6 * 4 + (2 + 2 + 4) * beats)
Pwav == Section("PWAV", 20, 20 + 400, 5 * 4 + 400)
Pwv2 == Section("PWV2", 20, 20 + 100, 5 * 4 + 100)
Pwv3(detail) == Section("PWV3", 24, 24 + detail, 6 * 4 + detail)
Pwv4 == Section("PWV4", 24, 24 + 1200 * 6, 6 * 4 + 1200 * 6)
Pwv5(detail) == Section("PWV5", 24, 24 + 2 * detail, 6 * 4 + 2 * detail)
Pwv6 == Section("PWV6", 20, 20 + 1200 * 3, 5 * 4 + 1200 * 3)
Pwv7(detail) == Section("PWV7", 24, 24 + 3 * detail, 6 * 4 + 3 * detail)
Pwvc == Section("PWVC", 14, 20, 3 * 4 + 4 * 2)
PcobEmpty == Section("PCOB", 24, 24, 4 * 4 + 2 * 2 + 4)
Pco2Empty == Section("PCO2", 20, 20, 4 * 4 + 2 * 2)

Total(lengths) == FoldSeq(LAMBDA l, n : l + n, 0, lengths)
Bytes(sections) == Total([i \in DOMAIN sections |-> sections[i].written])

\* PMAI: the offset of the first tag and the length of the file.
File(path, sections) ==
    [first |-> 28, len |-> 28 + Bytes(sections), sections |-> sections, path |-> path]

DatFile(t) ==
    File(t.path, <<Ppth(t.path), Pvbr, Pqtz(t.beats), Pwav, Pwv2, PcobEmpty, PcobEmpty>>)
ExtFile(t) ==
    File(t.path, <<Ppth(t.path), Pwv3(t.detail), PcobEmpty, PcobEmpty, Pco2Empty, Pco2Empty,
                   Pwv5(t.detail), Pwv4>>)
TwoExFile(t) ==
    File(t.path, <<Ppth(t.path), Pwv7(t.detail), Pwv6, Pwvc>>)

\* PIONEER/USBANLZ/P<id / 256>/<id>/ANLZ0000: 42 characters with the extension.
AnlzPath(id) == <<"anlz", (id \div 256) % 1000, id>>
-----------------------------------------------------------------------------
(* Reading.                                                                *)

\* Where section k really starts, and where stepping from section to section gets to.
Actual(f, k) == 28 + Bytes(SubSeq(f.sections, 1, k - 1))
Reached(f, k) == f.first + Total([i \in 1..k - 1 |-> f.sections[i].declared])

\* Every section is met where it is, and the last one ends where the file does.
Tiles(f) ==
    /\ \A k \in DOMAIN f.sections : /\ Reached(f, k) = Actual(f, k)
                                    /\ f.sections[k].head <= f.sections[k].declared
    /\ Reached(f, Len(f.sections) + 1) = f.len
=============================================================================
