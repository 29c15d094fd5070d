---------------------------- MODULE MCBuildLocks ----------------------------
(***************************************************************************)
(* Builds and steps that share locks, for TLC.                             *)
(***************************************************************************)
EXTENDS BuildLocks

CONSTANTS A, B, C, b1, b2, b3, s1, s2, s3

Use(l, m) == [lock |-> l, mode |-> m, count |-> 1]

\* b1 takes A and B, each of which another build uses; a step of each build
\* takes C.
SharedOf == (s1 :> b1) @@ (s2 :> b2) @@ (s3 :> b3)
SharedLocks ==
  (b1 :> <<Use(A, "exclusive"), Use(B, "counting")>>) @@
  (b2 :> <<Use(A, "counting")>>) @@ (b3 :> <<Use(B, "counting")>>) @@
  (s1 :> <<Use(C, "counting")>>) @@ (s2 :> <<Use(C, "exclusive")>>) @@
  (s3 :> <<Use(C, "counting")>>)
SharedMaxCounts == (A :> {1}) @@ (B :> {1, 2}) @@ (C :> {1})

\* b1 takes A and B; b2 takes A, and B in a step of its; b3 takes B. Everyone
\* takes A before B.
OrderedOf == s2 :> b2
OrderedLocks ==
  (b1 :> <<Use(A, "exclusive"), Use(B, "exclusive")>>) @@
  (b2 :> <<Use(A, "counting")>>) @@ (s2 :> <<Use(B, "exclusive")>>) @@
  (b3 :> <<Use(B, "exclusive")>>)
OrderedMaxCounts == (A :> {1}) @@ (B :> {1})
=============================================================================
