-------------------------- MODULE CanonicalFraming --------------------------
(***************************************************************************)
(* Length framing of byte strings, which both ExecutionKeys and            *)
(* CommandSpecHashes are built from (_frame_identity_component in          *)
(* buildbot/umbilical_execution_identity.py and _frame_bytes in            *)
(* buildbot/umbilical_local_execution.py).  A text is the sequence of its  *)
(* UTF-8 bytes.                                                            *)
(***************************************************************************)
EXTENDS Naturals, Sequences

CONSTANTS
  Byte,
  MaxBytes,  \* the greatest length a frame can carry, 2^64 - 1 in the code
  Width,     \* the bytes of a length word, 8 in the code
  Word(_)    \* to_bytes(Width, byteorder="big", signed=False)

ASSUME WordAssumption ==
  /\ MaxBytes \in Nat
  /\ Width \in Nat \ {0}
  /\ \A n \in 0..MaxBytes : Word(n) \in Seq(Byte) /\ Len(Word(n)) = Width
  /\ \A m, n \in 0..MaxBytes : Word(m) = Word(n) => m = n

Unframed(x) == x  \* a variant: components are joined without their lengths
Frame(x) == Word(Len(x)) \o x
=============================================================================
