----------------------------- MODULE SharedCount ----------------------------
(***************************************************************************)
(* Threads that add up: the resource of 6-31.c, with two producers and two *)
(* consumers that wait, with the lock free, for enough of it; the hits of  *)
(* 6-33.c, counted by all threads in one variable; and the hits of 4-17.c, *)
(* counted by each thread for itself and added up by main(), which joins   *)
(* them in turn.                                                           *)
(***************************************************************************)
EXTENDS MachineInt

CONSTANTS
    Rounds,     \* the turns of each loop (100000, 10000 and 1000 in the code)
    MAX,        \* the resource at the start (100 in the code)
    Counting    \* threads of 6-33.c and 4-17.c (their argument)

SharedCountAssumption ==
    /\ Counting \in Nat
    /\ MaxInt \in Nat /\ Rounds \in 0 .. MaxInt /\ MAX \in 0 .. MaxInt

Counters == {"6-31", "6-33", "4-17"}

VARIABLES
    counter,    \* the program
    resource,   \* the shared variable: resource, or count
    lock,
    i,          \* of each thread: the turn of its loop, from 1 on
    temp,       \* what it has read of the shared variable
    has,        \* it has the lock
    ret,        \* of each thread: the hits it counts for itself
    hits,       \* how many hits there were (history)
    joined, sum \* of main()

Threads == 1 .. IF Counting > 4 THEN Counting ELSE 4
Created == IF counter = "6-31" THEN 4 ELSE Counting

vars == <<counter, resource, lock, i, temp, has, ret, hits, joined, sum>>

Inputs == counter \in Counters

Start ==
    /\ resource = (IF counter = "6-31" THEN MAX ELSE 0)
    /\ lock = 1
    /\ i = [t \in Threads |-> 1]
    /\ temp = [t \in Threads |-> 0]
    /\ has = {} /\ ret = [t \in Threads |-> 0] /\ hits = 0
    /\ joined = 0 /\ sum = 0

(* A consumer takes the amounts from the largest down.                     *)
IsConsumer(t) == counter = "6-31" /\ t > 2
Amount(t) ==
    CASE counter # "6-31" -> 1
      [] IsConsumer(t) -> i[t] - Rounds - 1
      [] OTHER -> i[t]

Running(t) == t <= Created /\ i[t] <= Rounds
Turns(t) == i' = [i EXCEPT ![t] = @ + 1]

(* Mistake: a lock that is not waited for.                                 *)
NoLock == TRUE
IsFree == lock = 1

-----------------------------------------------------------------------------
(* sem_wait() or pthread_mutex_lock(), and the read of the variable.  In   *)
(* 6-33.c there has been a hit.                                            *)
Lock(t) ==
    /\ counter # "4-17" /\ Running(t) /\ t \notin has
    /\ IsFree
    /\ lock' = 0
    /\ has' = has \cup {t}
    /\ temp' = [temp EXCEPT ![t] = resource]
    /\ hits' = IF counter = "6-33" THEN hits + 1 ELSE hits
    /\ UNCHANGED <<counter, resource, i, ret, joined, sum>>

(* The write, and the release of the lock: with too little, only that.     *)
(* The sum wraps when the producers are far ahead.                         *)
Update(t) ==
    /\ t \in has
    /\ IF IsConsumer(t) => temp[t] >= -Amount(t)
       THEN resource' = Wrapped(temp[t] + Amount(t)) /\ Turns(t)
       ELSE UNCHANGED <<resource, i>>
    /\ lock' = 1
    /\ has' = has \ {t}
    /\ temp' = [temp EXCEPT ![t] = 0]
    /\ UNCHANGED <<counter, ret, hits, joined, sum>>

Miss(t) ==
    /\ counter # "6-31" /\ Running(t) /\ t \notin has
    /\ Turns(t)
    /\ UNCHANGED <<counter, resource, lock, temp, has, ret, hits, joined, sum>>

Hit(t) ==
    /\ counter = "4-17" /\ Running(t)
    /\ ret' = [ret EXCEPT ![t] = @ + 1]
    /\ hits' = hits + 1
    /\ Turns(t)
    /\ UNCHANGED <<counter, resource, lock, temp, has, joined, sum>>

(* pthread_join(): in 4-17.c with the count of the thread.                 *)
Join ==
    /\ joined < Created /\ ~Running(joined + 1)
    /\ joined' = joined + 1
    /\ sum' = Wrapped(sum + ret[joined + 1])
    /\ UNCHANGED <<counter, resource, lock, i, temp, has, ret, hits>>

Thread(t) == Lock(t) \/ Update(t) \/ Miss(t) \/ Hit(t)

Next == Join \/ \E t \in Threads : Thread(t)

-----------------------------------------------------------------------------
(* Properties.                                                             *)

TypeOK ==
    /\ resource \in Int /\ lock \in {0, 1} /\ has \subseteq Threads
    /\ i \in [Threads -> 1 .. Rounds + 1]
    /\ joined \in 0 .. Created

(* What there should be after the turns so far: producer t has brought     *)
(* 1 .. i[t] - 1, a consumer has taken the amounts from Rounds down.       *)
UpTo(k) == (k * (k + 1)) \div 2
Brought(t) == UpTo(i[t] - 1)
Taken(t) == UpTo(Rounds) - UpTo(Rounds + 1 - i[t])
Balance == (MAX + Brought(1) + Brought(2)) - (Taken(3) + Taken(4))

(* Nothing is lost between the threads: the resource is all that has been  *)
(* brought and not been taken, every hit counts once, and main() adds up   *)
(* what the threads have counted, as far as an int holds it.               *)
AddsUp ==
    CASE counter = "6-31" -> resource = Wrapped(Balance)
      [] counter = "6-33" -> has = {} => resource = Wrapped(hits)
      [] counter = "4-17" -> joined = Created => sum = Wrapped(hits)

(* All threads are joined: but consumers of 6-31.c wait for ever for what  *)
(* the producers have brought if it was too much for an int.               *)
Starved ==
    /\ counter = "6-31" /\ resource # Balance
    /\ \A t \in Threads : Running(t) => IsConsumer(t) /\ resource < -Amount(t)

Over == joined = Created \/ Starved
=============================================================================
