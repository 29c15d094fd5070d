-------------------------- MODULE ExecutionIdentity --------------------------
(***************************************************************************)
(* derive_execution_key (buildbot/umbilical_execution_identity.py): callers *)
(* that ask for the ExecutionKey of four opaque identities, one after the  *)
(* other.  The base64 text of a key stands for its bytes one to one, so a  *)
(* key is the bytes.                                                       *)
(***************************************************************************)
EXTENDS CanonicalFraming

CONSTANTS
  Text,   \* the identity components: non-empty texts
  Prefix  \* _DOMAIN_PREFIX

ASSUME TextAssumption ==
  /\ Prefix \in Seq(Byte)
  /\ \A x \in Text : x \in Seq(Byte) /\ Len(x) \in 1..MaxBytes

Identity == [repository : Text, subject : Text, revision : Text, root : Text]

VARIABLES
  asked,   \* the identities of the latest call
  derived  \* the key it returned

identityVars == <<asked, derived>>

ExecutionKey(i) ==
  Prefix \o (Frame(i.repository) \o (Frame(i.subject) \o
            (Frame(i.revision) \o Frame(i.root))))

IdentityInit == asked \in Identity /\ derived = ExecutionKey(asked)

\* Another caller asks for the key of other identities.
DeriveExecutionKey(i) == asked' = i /\ derived' = ExecutionKey(i)

IdentityNext == \E i \in Identity : DeriveExecutionKey(i)

IdentitySpec == IdentityInit /\ [][IdentityNext]_identityVars

\* "Derive the injective canonical v1 ExecutionKey": a key that was handed out
\* is the key of no other four identities, whatever bytes they contain.
KeysAreInjective == \A i \in Identity : ExecutionKey(i) = derived => i = asked
=============================================================================
