---------------------------- MODULE MCIdentities ----------------------------
(***************************************************************************)
(* Callers that ask for ExecutionKeys and callers that ask for the bytes   *)
(* of commands, for TLC: small texts whose bytes look like counts, lengths *)
(* and labels.  The two kinds of call share no state: those of one kind    *)
(* are explored with the first call of the other.                          *)
(***************************************************************************)
EXTENDS ExecutionIdentity, CommandIdentity

MCWord(n) == <<n>>
MCText == [1..1 -> {1, 2}] \cup [1..2 -> {1, 2}]
MCPrefix == <<1>>

MCLabel(field) ==
  CASE field = "executable" -> <<1>>
    [] field = "argv" -> <<2>>
    [] field = "working_directory" -> <<1, 1>>
    [] field = "environment" -> <<2, 1>>
    [] field = "timeout_seconds" -> <<2, 2>>
MCCommandDomain == <<2>>
MCExecutable == {<<1>>, <<1, 1>>}
MCArgument == {<<>>, <<1>>, <<1, 1>>}
MCDirectory == {<<1>>}
MCName == {<<1>>, <<1, 2>>}
MCValue == {<<>>, <<1>>}

FirstIdentity == CHOOSE i \in Identity : TRUE
FirstRequest == CHOOSE r \in Request : TRUE

MCInit ==
  /\ IdentityInit /\ CommandInit
  /\ asked = FirstIdentity \/ request = FirstRequest

MCNext ==
  \/ IdentityNext /\ request = FirstRequest /\ UNCHANGED commandVars
  \/ CommandNext /\ asked = FirstIdentity /\ UNCHANGED identityVars

MCSpec == MCInit /\ [][MCNext]_<<identityVars, commandVars>>
=============================================================================
