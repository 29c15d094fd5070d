-------------------------- MODULE MCLocalExecution --------------------------
(***************************************************************************)
(* Two controllers racing for one ExecutionKey, for TLC.                   *)
(***************************************************************************)
EXTENDS LocalExecution

=============================================================================
