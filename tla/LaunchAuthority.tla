--------------------------- MODULE LaunchAuthority ---------------------------
(***************************************************************************)
(* What execute_local_command promises of each ExecutionKey, whoever calls *)
(* it, however often, and however its callers fail: the authority to start *)
(* the key's command is consumed once and never given back, at most one    *)
(* physical process is started after that, and at most one exit code, that *)
(* process's own, is ever recorded as its result.                          *)
(***************************************************************************)
CONSTANTS Key, ExitCode

VARIABLE fate  \* each key: its stage and the codes recorded for it, at most one

Stage == {"open", "consumed", "launched", "recorded"}

FateInit == fate = [k \in Key |-> [stage |-> "open", codes |-> {}]]

Consume(k) ==
  /\ fate[k].stage = "open"
  /\ fate' = [fate EXCEPT ![k] = [stage |-> "consumed", codes |-> {}]]

Launch(k) ==
  /\ fate[k].stage = "consumed"
  /\ fate' = [fate EXCEPT ![k] = [stage |-> "launched", codes |-> {}]]

Record(k, x) ==
  /\ fate[k].stage = "launched"
  /\ fate' = [fate EXCEPT ![k] = [stage |-> "recorded", codes |-> {x}]]

FateNext == \E k \in Key :
  \/ Consume(k)
  \/ Launch(k)
  \/ \E x \in ExitCode : Record(k, x)

FateSpec == FateInit /\ [][FateNext]_fate
=============================================================================
