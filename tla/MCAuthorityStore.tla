-------------------------- MODULE MCAuthorityStore --------------------------
(***************************************************************************)
(* Two handles on one store for TLC.                                       *)
(***************************************************************************)
EXTENDS AuthorityStore, TLC

HandleSymmetry == Permutations(Handle)
=============================================================================
