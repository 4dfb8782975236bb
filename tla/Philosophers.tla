---------------------------- MODULE Philosophers ----------------------------
(***************************************************************************)
(* The dining philosophers of chapter 6, project 2 (project2.c).           *)
(* Philosopher x uses the forks x+1 and x-1, and takes them in this order. *)
(* A section under lock[f] is one step; a philosopher in                   *)
(* pthread_cond_wait(&c[f]) is woken by one signal, and looks again.  The  *)
(* second section of pickup_forks() marks fork a, which it does not lock   *)
(* and has marked before, and leaves fork b unmarked.                      *)
(***************************************************************************)
EXTENDS Naturals

CONSTANT MAX        \* 5 philosophers, 5 forks

PhilosophersAssumption == MAX \in Nat /\ MAX > 2

Seats == 0 .. MAX - 1
a(x) == (x + 1) % MAX
b(x) == (x + MAX - 1) % MAX

VARIABLES
    forks,      \* the forks marked as taken
    pc          \* "first", "second": in pickup_forks(), about to look at a, b;
                \* "wait1", "wait2": on the condition variable of a, b;
                \* "eat", "return" (a is back, b is not) or "done"

vars == <<forks, pc>>

Init ==
    /\ forks = {}
    /\ pc = [x \in Seats |-> "first"]

Goto(x, l) == pc' = [pc EXCEPT ![x] = l]

PickFirst(x) ==
    /\ pc[x] = "first"
    /\ a(x) \notin forks
    /\ forks' = forks \cup {a(x)}
    /\ Goto(x, "second")

PickSecond(x) ==
    /\ pc[x] = "second"
    /\ b(x) \notin forks
    /\ forks' = forks \cup {a(x)}
    /\ Goto(x, "eat")

(* The bodies of both while loops.                                         *)
Wait(x) ==
    /\ pc[x] \in {"first", "second"}
    /\ (IF pc[x] = "first" THEN a(x) ELSE b(x)) \in forks
    /\ Goto(x, IF pc[x] = "first" THEN "wait1" ELSE "wait2")
    /\ UNCHANGED forks

-----------------------------------------------------------------------------
(* Who waits on c[f], as its first or its second fork.                     *)
Waiting(f) ==
    {x \in Seats : (pc[x] = "wait1" /\ a(x) = f) \/ (pc[x] = "wait2" /\ b(x) = f)}

(* The mistake: no signal.                                                 *)
OnlyGoto(x, f, l) == Goto(x, l)

(* x goes on to l, and one of those who wait on c[f] looks at f again.     *)
SignalAndGoto(x, f, l) ==
    IF Waiting(f) = {} THEN Goto(x, l)
    ELSE \E w \in Waiting(f) :
             pc' = [pc EXCEPT ![x] = l,
                              ![w] = IF @ = "wait1" THEN "first" ELSE "second"]

ReturnFirst(x) ==
    /\ pc[x] = "eat"
    /\ forks' = forks \ {a(x)}
    /\ SignalAndGoto(x, a(x), "return")

ReturnSecond(x) ==
    /\ pc[x] = "return"
    /\ forks' = forks \ {b(x)}
    /\ SignalAndGoto(x, b(x), "done")

Philosopher(x) ==
    \/ PickFirst(x) \/ PickSecond(x) \/ Wait(x)
    \/ ReturnFirst(x) \/ ReturnSecond(x)

Next == \E x \in Seats : Philosopher(x)

Spec == Init /\ [][Next]_vars /\ \A x \in Seats : WF_vars(Philosopher(x))

-----------------------------------------------------------------------------
(* Properties.                                                             *)
TypeOK ==
    /\ forks \subseteq Seats
    /\ pc \in [Seats ->
           {"first", "second", "wait1", "wait2", "eat", "return", "done"}]

(* Nobody waits for a fork which none of the others has still to return:   *)
(* the single signal never goes to a philosopher who does not need it, and *)
(* is never given before its receiver waits.  So the only rest in which    *)
(* somebody waits is the circle of all.                                    *)
NobodyForgotten ==
    \A x \in Seats : pc[x] = "wait2" =>
        \E y \in Seats : a(y) = b(x) /\ pc[y] \in {"second", "wait2", "eat"}

(* The while loops wait for a fork that is taken: nobody eats with a fork  *)
(* another philosopher eats with.                                          *)
ForkExclusive ==
    \A x, y \in Seats : pc[x] = "eat" /\ pc[y] = "eat" => a(x) # b(y)

(* main() joins all the philosophers, and 第六章.md proposes to run it with *)
(* a large MAX as a test of its robustness: everybody eats.                *)
AllEat == <>(\A x \in Seats : pc[x] = "done")
=============================================================================
