---------------------------- MODULE PidfilePair ----------------------------
(***************************************************************************)
(* Two processes that control the same dnsmasq through the same pidfile:   *)
(* the daemon and a one-shot `micronet apply` or `micronet teardown`       *)
(* beside it. Nothing in the code keeps one out while the other is in the  *)
(* middle of a stop or a start.                                            *)
(***************************************************************************)
EXTENDS Pidfile

VARIABLES pc2, req2, changed2, pid2, result2, fresh2

caller2Vars == <<pc2, req2, changed2, pid2, result2, fresh2>>
pairVars    == <<vars, caller2Vars>>

Second == INSTANCE Pidfile WITH
  pc <- pc2, req <- req2, changed <- changed2, pid <- pid2, result <- result2, fresh <- fresh2

\* The numbers given away by the step.
GivenAway == {p \in Pids : kind[p] = "free" /\ kind'[p] # "free"}

FirstCaller ==
  /\ Caller
  /\ fresh2' = fresh2 \cup GivenAway
  /\ UNCHANGED <<pc2, req2, changed2, pid2, result2>>

SecondCaller ==
  /\ Second!Caller
  /\ fresh' = fresh \cup GivenAway
  /\ UNCHANGED <<pc, req, changed, pid, result>>

PairProcesses ==
  /\ Processes
  /\ fresh2' = fresh2 \cup GivenAway
  /\ UNCHANGED <<pc2, req2, changed2, pid2, result2>>

PairInit == Init /\ Second!Init

PairNext == FirstCaller \/ SecondCaller \/ PairProcesses

PairSpec == PairInit /\ [][PairNext]_pairVars
=============================================================================
