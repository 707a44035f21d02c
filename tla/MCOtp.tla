------------------------------- MODULE MCOtp --------------------------------
(***************************************************************************)
(* Instances of Otp for TLC: keys, requests and passwords as model values. *)
(* No symmetry, since the runs check liveness.                             *)
(***************************************************************************)
EXTENDS Otp, TLC
=============================================================================
