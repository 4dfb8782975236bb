------------------------------ MODULE ProcTree ------------------------------
(***************************************************************************)
(* What fork, exit and wait promise about the family of processes, without *)
(* locks, harts and program counters (abstract specification of Proc):     *)
(* a process creates children until it begins to exit; an exiting process  *)
(* hands its children to init one by one and dies when none is left; the   *)
(* parent a dead process then has frees it.                                *)
(***************************************************************************)
EXTENDS Integers

CONSTANTS Slots, Init0, Nobody     \* process slots, init's, "no parent"

VARIABLES
    status,     \* "free", "live", "exiting" or "zombie"
    par         \* the parent of every slot in use but init's

treeVars == <<status, par>>

Kids(p) == {q \in Slots : par[q] = p}

TInit ==
    /\ status = [p \in Slots |-> IF p = Init0 THEN "live" ELSE "free"]
    /\ par = [p \in Slots |-> Nobody]

Create(p, q) ==
    /\ status[p] = "live"
    /\ status[q] = "free"
    /\ status' = [status EXCEPT ![q] = "live"]
    /\ par' = [par EXCEPT ![q] = p]

BeginExit(p) ==
    /\ p # Init0
    /\ status[p] = "live"
    /\ status' = [status EXCEPT ![p] = "exiting"]
    /\ UNCHANGED par

GiveAway(p, q) ==
    /\ status[p] = "exiting"
    /\ par[q] = p
    /\ par' = [par EXCEPT ![q] = Init0]
    /\ UNCHANGED status

Die(p) ==
    /\ status[p] = "exiting"
    /\ Kids(p) = {}
    /\ status' = [status EXCEPT ![p] = "zombie"]
    /\ UNCHANGED par

Reap(p, q) ==
    /\ status[p] = "live"
    /\ par[q] = p
    /\ status[q] = "zombie"
    /\ status' = [status EXCEPT ![q] = "free"]
    /\ par' = [par EXCEPT ![q] = Nobody]

TNext ==
    \E p \in Slots :
        \/ BeginExit(p) \/ Die(p)
        \/ \E q \in Slots : Create(p, q) \/ GiveAway(p, q) \/ Reap(p, q)

TSpec == TInit /\ [][TNext]_treeVars

-----------------------------------------------------------------------------
TreeTypeOK ==
    /\ status \in [Slots -> {"free", "live", "exiting", "zombie"}]
    /\ par \in [Slots -> Slots \cup {Nobody}]

(* Nobody is left without a parent that can still wait for it: init lives  *)
(* on, every other process in use has a live or exiting parent, a free     *)
(* slot has none.                                                          *)
ParentLives ==
    /\ status[Init0] = "live" /\ par[Init0] = Nobody
    /\ \A q \in Slots :
           /\ status[q] = "free" => par[q] = Nobody
           /\ q # Init0 /\ status[q] # "free" =>
                  par[q] \in Slots /\ status[par[q]] \in {"live", "exiting"}
=============================================================================
