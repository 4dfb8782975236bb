---------------------------- MODULE BoundedBuffer ----------------------------
(***************************************************************************)
(* The bounded buffer of chapter 6, project 3 (project3.c): a ring of MAX  *)
(* slots, the counting semaphores empty and full, and a mutex.  A thread   *)
(* stores or loads the slot and moves the index in two steps, as           *)
(* insert_item() and remove_item() do, so that the mutex has work to do.   *)
(* An item is the name of the producer that made it: rand() is a value     *)
(* nobody looks at.                                                        *)
(***************************************************************************)
EXTENDS Integers, Sequences, FiniteSets

CONSTANTS
    MAX,        \* slots of the ring
    Producers, Consumers,
    NoItem      \* a slot nobody has written yet

BufferAssumption ==
    /\ MAX \in Nat \ {0}
    /\ IsFiniteSet(Producers) /\ IsFiniteSet(Consumers)
    /\ Producers \cap Consumers = {}
    /\ NoItem \notin Producers \cup Consumers

VARIABLES
    buffer, fast, slow,
    empty, full,    \* the values of the semaphores
    mutex,          \* the thread that holds the mutex, or NoItem
    pc,             \* "sem", "lock", "slot", "index", "post" or "done"
    item            \* the local variable of each consumer

vars == <<buffer, fast, slow, empty, full, mutex, pc, item>>

Threads == Producers \cup Consumers
Ring == 0 .. MAX - 1

Init ==
    /\ buffer = [i \in Ring |-> NoItem]
    /\ fast = 0 /\ slow = 0
    /\ empty = MAX /\ full = 0
    /\ mutex = NoItem
    /\ pc = [t \in Threads |-> "sem"]
    /\ item = [c \in Consumers |-> NoItem]

-----------------------------------------------------------------------------
(* Mistakes: the mutex is not taken; the index does not wrap at MAX; the   *)
(* producer posts the semaphore it waited for.                             *)
NoMutex(t) == UNCHANGED mutex
WrapLate(i) == (i + 1) % (MAX + 1)
PostsEmpty == empty' = empty + 1 /\ UNCHANGED full

At(t, l) == pc[t] = l
Goto(t, l) == pc' = [pc EXCEPT ![t] = l]

TakeMutex(t) == mutex = NoItem /\ mutex' = t
Advance(i) == (i + 1) % MAX
PostFull == full' = full + 1 /\ UNCHANGED empty

Lock(t) ==
    /\ At(t, "lock")
    /\ TakeMutex(t)
    /\ Goto(t, "slot")
    /\ UNCHANGED <<buffer, fast, slow, empty, full, item>>

-----------------------------------------------------------------------------
(* producer()                                                              *)
WaitEmpty(p) ==
    /\ At(p, "sem")
    /\ empty > 0
    /\ empty' = empty - 1
    /\ Goto(p, "lock")
    /\ UNCHANGED <<buffer, fast, slow, full, mutex, item>>

(* insert_item(): buffer[fast] = value, then fast moves on and unlock.     *)
Store(p) ==
    /\ At(p, "slot")
    /\ buffer' = [buffer EXCEPT ![fast] = p]
    /\ Goto(p, "index")
    /\ UNCHANGED <<fast, slow, empty, full, mutex, item>>

MoveFast(p) ==
    /\ At(p, "index")
    /\ fast' = Advance(fast)
    /\ mutex' = NoItem
    /\ Goto(p, "post")
    /\ UNCHANGED <<buffer, slow, empty, full, item>>

ProducerPosts(p) ==
    /\ At(p, "post")
    /\ PostFull
    /\ Goto(p, "done")
    /\ UNCHANGED <<buffer, fast, slow, mutex, item>>

-----------------------------------------------------------------------------
(* consumer()                                                              *)
WaitFull(c) ==
    /\ At(c, "sem")
    /\ full > 0
    /\ full' = full - 1
    /\ Goto(c, "lock")
    /\ UNCHANGED <<buffer, fast, slow, empty, mutex, item>>

(* remove_item(): *item = buffer[slow], then slow moves on and unlock.     *)
Load(c) ==
    /\ At(c, "slot")
    /\ item' = [item EXCEPT ![c] = buffer[slow]]
    /\ Goto(c, "index")
    /\ UNCHANGED <<buffer, fast, slow, empty, full, mutex>>

MoveSlow(c) ==
    /\ At(c, "index")
    /\ slow' = Advance(slow)
    /\ mutex' = NoItem
    /\ Goto(c, "post")
    /\ UNCHANGED <<buffer, fast, empty, full, item>>

ConsumerPosts(c) ==
    /\ At(c, "post")
    /\ empty' = empty + 1
    /\ Goto(c, "done")
    /\ UNCHANGED <<buffer, fast, slow, full, mutex, item>>

-----------------------------------------------------------------------------
Producer(p) ==
    WaitEmpty(p) \/ Lock(p) \/ Store(p) \/ MoveFast(p) \/ ProducerPosts(p)
Consumer(c) ==
    WaitFull(c) \/ Lock(c) \/ Load(c) \/ MoveSlow(c) \/ ConsumerPosts(c)

Next == (\E p \in Producers : Producer(p)) \/ (\E c \in Consumers : Consumer(c))

-----------------------------------------------------------------------------
(* Properties.                                                             *)

TypeOK ==
    /\ buffer \in [Ring -> Producers \cup {NoItem}]
    /\ fast \in Ring /\ slow \in Ring
    /\ empty \in 0 .. MAX /\ full \in 0 .. MAX
    /\ mutex \in Threads \cup {NoItem}
    /\ pc \in [Threads -> {"sem", "lock", "slot", "index", "post", "done"}]
    /\ item \in [Consumers -> Producers \cup {NoItem}]

(* The threads of T at one of the points in L.                             *)
Count(T, L) == Cardinality({t \in T : pc[t] \in L})

(* The items between slow and fast: those whose producer has moved fast    *)
(* and whose consumer has not moved slow.                                  *)
Stored == Count(Producers, {"post", "done"}) - Count(Consumers, {"post", "done"})
Contents == [i \in 1 .. Stored |-> buffer[(slow + i - 1) % MAX]]

Fifo == INSTANCE BoundedFifo WITH
            Capacity <- MAX,
            queue <- Contents,
            put <- {p \in Producers : pc[p] \in {"post", "done"}},
            got <- [c \in {d \in Consumers : pc[d] \in {"post", "done"}} |->
                        item[c]]

(* The ring, its two semaphores and the mutex are a FIFO queue of MAX      *)
(* items: no item is lost, got twice, overwritten or read before it is     *)
(* stored, and a full or an empty ring makes the thread wait.              *)
ImplementsFifo == Fifo!FSpec

(* With as many consumers as producers everybody is served, however small  *)
(* the ring: main() could join its threads.                                *)
Over == \A t \in Threads : pc[t] = "done"
=============================================================================
