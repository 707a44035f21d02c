---------------------------- MODULE MCDynamicPool ----------------------------
(***************************************************************************)
(* The instance of DynamicPool that TLC checks.                            *)
(***************************************************************************)
EXTENDS DynamicPool
=============================================================================
