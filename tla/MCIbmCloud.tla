----------------------------- MODULE MCIbmCloud -----------------------------
(***************************************************************************)
(* The instance of IbmCloud that TLC checks.                               *)
(***************************************************************************)
EXTENDS IbmCloud
=============================================================================
