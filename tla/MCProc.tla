------------------------------- MODULE MCProc -------------------------------
(* Proc on small instances.                                                *)
EXTENDS Proc, TLC

(* The harts are interchangeable: no action or property tells them apart.  *)
CpuSymmetry == Permutations(CPUs)

(* For the long counterexample of ProcCycle.cfg: the search follows the    *)
(* behaviours without timer interrupts.                                    *)
NoPreemption == \A p \in Slots : pc[p] # "yieldSched"

(* For Proc4.cfg: one process at a time is away after a timer interrupt.   *)
Preempted == {p \in Slots : pc[p] \in {"yieldSched", "yieldReturn"}}
OnePreempted == Cardinality(Preempted) <= 1
=============================================================================
