--------------------------- MODULE MCYtDlpIngest ---------------------------
(***************************************************************************)
(* Model-checking instance of YtDlpIngest.  MCYtDlpIngest.cfg checks what  *)
(* holds, MCYtDlpLate.cfg lets one job outlive its lease with no fault.    *)
(***************************************************************************)
EXTENDS YtDlpIngest
=============================================================================
