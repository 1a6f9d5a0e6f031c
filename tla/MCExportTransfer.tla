-------------------------- MODULE MCExportTransfer --------------------------
(***************************************************************************)
(* Model-checking instances of ExportTransfer: an export onto a stick that  *)
(* is new or holds what an earlier export of any playlist got done.        *)
(* MCExportTransfer.cfg checks what holds, MCExportStale.cfg the README's  *)
(* promise about a re-export.                                              *)
(***************************************************************************)
EXTENDS ExportTransfer

CONSTANTS a, b

MCTracks == {a, b}
\* Two playlists of one length, and two of which one moves a track up an id.
MCPlaylists == {<<a>>, <<b>>}
MCMixed == {<<a>>, <<b, a>>}
=============================================================================
