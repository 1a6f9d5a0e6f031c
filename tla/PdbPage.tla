------------------------------ MODULE PdbPage ------------------------------
(***************************************************************************)
(* Pages of export.pdb.  A data page fills from both ends: rows grow up    *)
(* from HEAP_START, the row index (groups of offsets and presence bits)    *)
(* grows down from the end of the page and is written last.  What follows  *)
(* is page.rs and the string encoding rows are made of, and then how a     *)
(* page is read: by the player, through the row groups, and by             *)
(* validate.rs, through the packed counter.                                *)
(*                                                                         *)
(* A row is the sizes of its parts and the values in them; the heap of a   *)
(* finished page maps an offset to the row that starts there.              *)
(***************************************************************************)
EXTENDS Integers, Sequences, FiniteSets, SequencesExt, Folds

CONSTANTS
    PAGE_SIZE,       \* bytes of a page
    HEAP_START,      \* offset of the first row
    ROW_GROUP_SIZE,  \* bytes of one group of the row index
    ROWS_PER_GROUP   \* rows of one group

ASSUME PageAssumption ==
    /\ {PAGE_SIZE, HEAP_START, ROW_GROUP_SIZE, ROWS_PER_GROUP} \subseteq Nat \ {0}
    /\ HEAP_START + ROW_GROUP_SIZE < PAGE_SIZE
    /\ HEAP_START % 4 = 0

\* 11 bits count the rows of a page, each of which takes four bytes; 16 bits say
\* which rows of a group are present.
ASSUME PageSizeAssumption == PAGE_SIZE <= 8192
ASSUME GroupAssumption == ROWS_PER_GROUP <= 16
-----------------------------------------------------------------------------
(* Strings: s.len characters, or UTF-16 units if s.wide.                   *)

NoString == [id |-> <<>>, len |-> 0, wide |-> FALSE]
MAX_SHORT_ASCII_LEN == 126

\* The header byte, the 16-bit length behind it (long forms), the bytes in all.
Encoded(head, size, s) == [head |-> head, len |-> size % 65536, size |-> size, of |-> s]

EncodeString(s) ==
    IF s.len = 0 THEN Encoded(3, 1, s)
    ELSE IF s.wide THEN Encoded(144, 4 + 2 * s.len, s)
    ELSE IF s.len > MAX_SHORT_ASCII_LEN THEN Encoded(64, 4 + s.len, s)
    ELSE Encoded((2 * (s.len + 1) + 1) % 256, s.len + 1, s)

\* The number of bytes the header announces.
Announced(e) == IF e.head % 2 = 1 THEN e.head \div 2 ELSE e.len

\* Where strings behind a head of that size really start.
Starts(head, strings) ==
    LET at[k \in 1..Len(strings)] ==
            IF k = 1 THEN head ELSE at[k - 1] + strings[k - 1].size
    IN  at

TotalSize(strings) ==
    LET n == Len(strings)
    IN  IF n = 0 THEN 0 ELSE Starts(0, strings)[n] + strings[n].size

\* A row: a head of fixed fields, then its strings; ofs is where it says they are.
Row(head, ids, ofs, strings) ==
    [size |-> head + TotalSize(strings), head |-> head, ids |-> ids,
     ofs |-> ofs, strings |-> strings]
-----------------------------------------------------------------------------
(* A page that is being filled.                                            *)

NewPage(index, type) ==
    [index |-> index, type |-> type, pos |-> HEAP_START, rows |-> <<>>]

\* Mutated form of IndexStart: no room for the group the next row may open.
IndexOfFullGroups(n) == PAGE_SIZE - (n \div ROWS_PER_GROUP) * ROW_GROUP_SIZE

\* Where the row index of n rows starts, with one group more at a boundary.
IndexStart(n) == PAGE_SIZE - ((n \div ROWS_PER_GROUP) + 1) * ROW_GROUP_SIZE

AvailableSpace(p) ==
    LET start == IndexStart(Len(p.rows))
    IN  IF start > p.pos THEN start - p.pos ELSE 0

WouldOverflow(p, size) == p.pos + size > IndexStart(Len(p.rows) + 1)

Padding(pos) == (4 - ((pos - HEAP_START) % 4)) % 4

\* write_row when it does not overflow: the row, its offset, the padding if it fits.
WriteRow(p, row) ==
    LET q == [p EXCEPT !.pos = @ + row.size,
                       !.rows = Append(@, [at |-> p.pos - HEAP_START, row |-> row])]
        pad == Padding(q.pos)
    IN  IF WouldOverflow(q, pad) THEN q ELSE [q EXCEPT !.pos = @ + pad]
-----------------------------------------------------------------------------
(* A finished page.                                                        *)

ZeroPage == [index |-> 0, type |-> 0, next |-> 0, seq |-> 0, packed |-> 0,
             flags |-> 0, free |-> 0, used |-> 0, heap |-> <<>>, groups |-> <<>>]

\* Mutated form of PackedCounts: as many offsets as rows.
PackedOnce(n) == n * 2048 + (n % 2048)

\* 13 bits of offsets, which are four times the rows, and 11 bits of rows.
PackedCounts(n) == ((4 * n) * 2048 + (n % 2048)) % 16777216

NumGroups(n) == IF n = 0 THEN 1 ELSE (n + ROWS_PER_GROUP - 1) \div ROWS_PER_GROUP

\* 1 << n.
Bit[n \in 0..16] == IF n = 0 THEN 1 ELSE 2 * Bit[n - 1]

\* Group g of the row index: offsets in reverse, one presence bit per row.
RowGroup(rows, g) ==
    LET first == g * ROWS_PER_GROUP
        left == Len(rows) - first
        n == IF left < ROWS_PER_GROUP THEN left ELSE ROWS_PER_GROUP
    IN  [offsets |-> [pos \in 0..ROWS_PER_GROUP - 1 |->
                         IF ROWS_PER_GROUP - 1 - pos < n
                         THEN rows[first + ROWS_PER_GROUP - pos].at ELSE 0],
         present |-> (Bit[n] - 1) % 65536]

DATA == 36
DATA_TRACK == 52
INDEX == 100
IndexedTables == {0, 19}  \* Tracks and History

Finalize(p, next) ==
    LET n == Len(p.rows)
    IN  [index |-> p.index, type |-> p.type, next |-> next, seq |-> n,
         packed |-> PackedCounts(n),
         flags |-> IF p.type \in IndexedTables THEN DATA_TRACK ELSE DATA,
         free |-> AvailableSpace(p), used |-> p.pos - HEAP_START,
         heap |-> [at \in {p.rows[i].at : i \in 1..n} |->
                     p.rows[CHOOSE i \in 1..n : p.rows[i].at = at].row],
         groups |-> [g \in 1..NumGroups(n) |-> RowGroup(p.rows, g - 1)]]

\* Mutated form of IndexPage: numbered among the index pages.
CountsIndexes(index) ==
    [ZeroPage EXCEPT !.index = index \div 2, !.type = index \div 2, !.next = index + 1,
                     !.seq = 1, !.flags = INDEX]

\* An index page says in the place of next where its data is: the page behind it.
IndexPage(index) ==
    [ZeroPage EXCEPT !.index = index, !.type = index \div 2, !.next = index + 1,
                     !.seq = 1, !.flags = INDEX]

\* The header page read as any other page: its counters lie in other fields.
HeaderPage(numTables, nextUnused) ==
    [ZeroPage EXCEPT !.index = PAGE_SIZE, !.type = numTables, !.next = nextUnused]
-----------------------------------------------------------------------------
(* Reading.                                                                *)

\* The number of rows, as write_header puts it into the low bits.
NumRows(page) == page.packed % 2048

\* How validate.rs unpacks it.
CountedRows(page) == (page.packed \div 8192) % 2048

\* Whether the row index has row r.
Present(page, r) ==
    LET g == (r \div ROWS_PER_GROUP) + 1
    IN  /\ g \in DOMAIN page.groups
        /\ (page.groups[g].present \div Bit[r % ROWS_PER_GROUP]) % 2 = 1

OffsetOf(page, r) ==
    page.groups[(r \div ROWS_PER_GROUP) + 1].offsets[ROWS_PER_GROUP - 1 - (r % ROWS_PER_GROUP)]

\* What the player makes of a row: the strings it finds where the row points.
Unreadable == [id |-> <<"unreadable">>, len |-> 0, wide |-> FALSE]
ReadString(row, k) ==
    IF row.ofs[k] = Starts(row.head, row.strings)[k]
       /\ Announced(row.strings[k]) = row.strings[k].size
    THEN row.strings[k].of ELSE Unreadable

ReadRow(row) == [ids |-> row.ids, names |-> [k \in DOMAIN row.strings |-> ReadString(row, k)]]

\* What the row was written for.
Meant(row) == [ids |-> row.ids, names |-> [k \in DOMAIN row.strings |-> row.strings[k].of]]

\* The rows a page counts; one that is absent, or whose offset leads nowhere, reads as nothing.
RowsIn(page) ==
    [i \in 1..NumRows(page) |->
        LET at == OffsetOf(page, i - 1)
        IN  IF Present(page, i - 1) /\ at \in DOMAIN page.heap
            THEN ReadRow(page.heap[at]) ELSE <<>>]

\* The pages from first on, in the order the next fields give, each once.
Chain(pages, first) ==
    LET walk[k \in 0..Len(pages)] ==
            IF k = 0 THEN <<first>>
            ELSE LET seen == walk[k - 1]
                     next == pages[seen[Len(seen)] + 1].next
                 IN  IF next >= Len(pages) \/ next \in Range(seen) THEN seen
                     ELSE Append(seen, next)
    IN  walk[Len(pages)]

\* count_table_rows.
CountTableRows(pages, first) ==
    LET chain == Chain(pages, first)
        count[k \in 0..Len(chain)] ==
            IF k = 0 THEN 0 ELSE count[k - 1] + CountedRows(pages[chain[k] + 1])
    IN  count[Len(chain)]
=============================================================================
