---------------------------- MODULE MCRawIngest ----------------------------
(***************************************************************************)
(* Model-checking instance of RawIngest.  MCRawIngest.cfg has two uploads  *)
(* and a Drive file of the same bytes; MCRawIngestUnflushed.cfg lets the   *)
(* last write of the temp file be late, with one upload and no fault.      *)
(***************************************************************************)
EXTENDS RawIngest
=============================================================================
