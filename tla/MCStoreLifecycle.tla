-------------------------- MODULE MCStoreLifecycle --------------------------
(***************************************************************************)
(* Three processes racing on one store path, for TLC.                      *)
(***************************************************************************)
EXTENDS StoreLifecycle, TLC

ProcessSymmetry == Permutations(Process)
=============================================================================
