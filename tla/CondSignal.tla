----------------------------- MODULE CondSignal -----------------------------
(***************************************************************************)
(* A first program with a condition variable (chapter 6, temp.c): one      *)
(* thread waits for x to become 10, the other counts x up under the mutex  *)
(* and signals once, without the mutex.  The waiting thread calls          *)
(* pthread_cond_wait() once, without a look at x.  The locks, creations    *)
(* and joins succeed.                                                      *)
(***************************************************************************)
EXTENDS Naturals

CONSTANT Goal       \* 10

VARIABLES
    x,
    mutex,      \* "free", "waiter" or "counter": who holds myMutex
    waiter,     \* "start", "locked", "waiting", "woken", "printed", "done"
    counter     \* "test", "locked", "signal" or "done"

vars == <<x, mutex, waiter, counter>>

Init ==
    /\ x = 0
    /\ mutex = "free"
    /\ waiter = "start"
    /\ counter = "test"

Acquire(t) == mutex = "free" /\ mutex' = t

-----------------------------------------------------------------------------
(* waitForTrue()                                                           *)
WaiterLocks ==
    /\ waiter = "start"
    /\ Acquire("waiter")
    /\ waiter' = "locked"
    /\ UNCHANGED <<x, counter>>

(* pthread_cond_wait() releases the mutex and waits in one step.           *)
CondWait ==
    /\ waiter = "locked"
    /\ mutex' = "free"
    /\ waiter' = "waiting"
    /\ UNCHANGED <<x, counter>>

WaiterPrints ==
    /\ waiter = "woken"
    /\ Acquire("waiter")
    /\ waiter' = "printed"
    /\ UNCHANGED <<x, counter>>

WaiterUnlocks ==
    /\ waiter = "printed"
    /\ mutex' = "free"
    /\ waiter' = "done"
    /\ UNCHANGED <<x, counter>>

-----------------------------------------------------------------------------
(* doneForTrue(): while (x != 10), read without the mutex.                 *)
CounterTests ==
    /\ counter = "test"
    /\ \/ x # Goal /\ Acquire("counter") /\ counter' = "locked"
       \/ x = Goal /\ counter' = "signal" /\ UNCHANGED mutex
    /\ UNCHANGED <<x, waiter>>

CounterAdds ==
    /\ counter = "locked"
    /\ x' = x + 1
    /\ mutex' = "free"
    /\ counter' = "test"
    /\ UNCHANGED waiter

(* A signal wakes the waiter if it waits, and is lost otherwise.           *)
Signal ==
    /\ counter = "signal"
    /\ waiter' = IF waiter = "waiting" THEN "woken" ELSE waiter
    /\ counter' = "done"
    /\ UNCHANGED <<x, mutex>>

(* pthread_cond_wait() may also return without a signal.                   *)
SpuriousWakeup ==
    /\ waiter = "waiting"
    /\ waiter' = "woken"
    /\ UNCHANGED <<x, mutex, counter>>

Waiter == WaiterLocks \/ CondWait \/ WaiterPrints \/ WaiterUnlocks
Counter == CounterTests \/ CounterAdds \/ Signal

Next == Waiter \/ Counter \/ SpuriousWakeup

(* Both threads run, and the waiter gets the mutex in the end although the *)
(* counter takes it again and again; nobody can rely on a wakeup without a *)
(* signal.                                                                 *)
Spec == Init /\ [][Next]_vars /\ SF_vars(Waiter) /\ WF_vars(Counter)

-----------------------------------------------------------------------------
(* What the comment at the signal says: it ends the blocked state of       *)
(* mythread1.  main() joins that thread, so it has to end.                 *)
WaiterEnds == <>(waiter = "done")
=============================================================================
