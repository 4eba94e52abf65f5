-------------------------------- MODULE Faults --------------------------------
(***************************************************************************)
(* What the environment does to a component: a call that fails, an answer  *)
(* that is lost, a process that dies.  A step that suffers one counts it,  *)
(* so that TLC sees all of them up to a bound, and "without faults" can be *)
(* said of a behaviour.                                                    *)
(***************************************************************************)
EXTENDS Naturals

CONSTANT MaxFaults   \* bound: failed calls, crashes and redeliveries

ASSUME FaultsAssumption == MaxFaults \in Nat

VARIABLE faults

Fault == faults < MaxFaults /\ faults' = faults + 1

=============================================================================
