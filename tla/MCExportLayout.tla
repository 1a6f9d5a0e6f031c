--------------------------- MODULE MCExportLayout ---------------------------
(* Exports of up to 20 tracks on pages of the real size: every table that   *)
(* grows meets a second row group, and tracks, artists and titles a second  *)
(* page.  The last inputs use the fields the builder's own tests set.       *)
EXTENDS ExportLayout

Text(id, len, wide) == [id |-> id, len |-> len, wide |-> wide]
Year == Text(<<"year">>, 10, FALSE)

\* Track h with names of the given length; every fourth one has no artist.
Track(h, len, wide, shared) ==
    LET who == IF shared THEN 0 ELSE h
    IN  [hash |-> h, ext |-> "mp3",
         title |-> Text(<<"title", h>>, len, wide),
         artist |-> IF h % 4 = 3 THEN NoString ELSE Text(<<"artist", who>>, len, wide),
         album |-> IF h % 4 = 2 THEN NoString ELSE Text(<<"album", 0>>, len, wide),
         genre |-> IF h % 2 = 0 THEN NoString ELSE Text(<<"genre", who>>, len, FALSE),
         label |-> NoString, date |-> IF h % 2 = 0 THEN Year ELSE NoString, key |-> NoKey,
         beats |-> 400 * (h % 3), detail |-> 27000 * (h % 2)]

Keyed(h) ==
    [Track(h, 12, FALSE, TRUE) EXCEPT !.key = h, !.label = Text(<<"label", h % 3>>, 8, FALSE)]

List(n, len, hashes) == [name |-> IF n = 0 THEN NoString ELSE Text(<<"list", n>>, len, FALSE),
                         hashes |-> hashes]

\* Names out of order, an empty one, a member that is not exported, one list asked for twice.
Lists(k) ==
    LET all == [i \in 1..k + 1 |-> k + 2 - i]
    IN  <<List(3, 9, all), List(1, 150, <<k, k + 1, 1>>), List(0, 0, <<1>>), List(3, 9, all)>>

ManyLists(k, m) == [n \in 1..m |-> List(n, 40, [i \in 1..k |-> i])]

Export(k, len, wide, shared, playlists) ==
    [tracks |-> [h \in 1..k |-> Track(h, len, wide, shared)], playlists |-> playlists]

MCInputs ==
    {Export(k, len, wide, shared, Lists(k)) :
        k \in {1, 15, 17}, len \in {5, 126, 127, 196, 197}, wide \in {FALSE}, shared \in BOOLEAN}
    \cup {Export(k, len, TRUE, FALSE, <<>>) : k \in {3, 16}, len \in {98, 99, 400}}
    \cup {Export(2, len, FALSE, FALSE, Lists(2)) : len \in 3745..3775}
    \cup {Export(20, 5, FALSE, TRUE, ManyLists(20, m)) : m \in {14, 15}}
    \cup {Export(k, len, FALSE, TRUE, <<>>) : k \in 2..20, len \in {40, 47}}
    \cup {[tracks |-> [h \in 1..k |-> Keyed(h)], playlists |-> <<>>] : k \in {16, 20}}
=============================================================================
