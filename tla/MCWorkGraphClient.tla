-------------------------- MODULE MCWorkGraphClient --------------------------
(***************************************************************************)
(* Clients, revisions and contracts for TLC.                               *)
(***************************************************************************)
EXTENDS WorkGraphClient, TLC

MCKey == Revision \X Contract
MCExitCode == {0, 1, 2}
=============================================================================
