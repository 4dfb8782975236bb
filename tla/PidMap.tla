------------------------------- MODULE PidMap -------------------------------
(***************************************************************************)
(* The pid map of chapter 6, exercise 30 (6-30.c): every thread takes the  *)
(* lowest pid whose bit it finds clear, looking at one bit per critical    *)
(* section, and gives it back once.  The words of bitset are only touched  *)
(* under the lock, so the map is the set of the pids whose bit is set.     *)
(***************************************************************************)
EXTENDS Integers, FiniteSets

CONSTANTS
    Threads,            \* 100 threads
    MIN_PID, MAX_PID    \* 300 and 5000

(* There are more pids than threads.                                       *)
PidMapAssumption ==
    /\ MIN_PID \in Nat /\ MAX_PID \in Nat
    /\ IsFiniteSet(Threads)
    /\ Cardinality(Threads) <= MAX_PID - MIN_PID + 1

Pids == MIN_PID .. MAX_PID
NoPid == -1             \* what allocate_pid() returns when it finds none

VARIABLES
    bitset,     \* the pids whose bit is set
    pc,         \* "scan", "use", "done"
    i,          \* the loop variable of allocate_pid()
    pid         \* the local pid of func(), NoPid before it is known

vars == <<bitset, pc, i, pid>>

Init ==
    /\ bitset = {}
    /\ pc = [t \in Threads |-> "scan"]
    /\ i = [t \in Threads |-> MIN_PID]
    /\ pid = [t \in Threads |-> NoPid]

(* Mistakes: release_pid() gets another number; the scan skips a pid.      *)
OtherNumber(t) == i[t] + 1
TwoByTwo(p) == p + 2

SetBit(p) == bitset \cup {p}
Released(t) == pid[t]
NextPid(p) == p + 1

(* One turn of the loop: the bit is clear, take the pid ...                *)
Take(t) ==
    /\ pc[t] = "scan"
    /\ i[t] <= MAX_PID
    /\ i[t] \notin bitset
    /\ bitset' = SetBit(i[t])
    /\ pid' = [pid EXCEPT ![t] = i[t]]
    /\ pc' = [pc EXCEPT ![t] = "use"]
    /\ UNCHANGED i

(* ... or it is set, look at the next one.                                 *)
Skip(t) ==
    /\ pc[t] = "scan"
    /\ i[t] <= MAX_PID
    /\ i[t] \in bitset
    /\ i' = [i EXCEPT ![t] = NextPid(@)]
    /\ UNCHANGED <<bitset, pc, pid>>

(* release_pid(pid)                                                        *)
Release(t) ==
    /\ pc[t] = "use"
    /\ bitset' = bitset \ {Released(t)}
    /\ pc' = [pc EXCEPT ![t] = "done"]
    /\ UNCHANGED <<i, pid>>

Thread(t) == Take(t) \/ Skip(t) \/ Release(t)

Next == \E t \in Threads : Thread(t)

-----------------------------------------------------------------------------
(* Properties.                                                             *)
TypeOK ==
    /\ bitset \subseteq Pids
    /\ pc \in [Threads -> {"scan", "use", "done"}]
    /\ i \in [Threads -> MIN_PID .. MAX_PID + 1]
    /\ pid \in [Threads -> Pids \cup {NoPid}]

(* Two threads that use a pid use different ones, and the map has those:   *)
(* it is empty at the end, where main() prints "true".                     *)
DistinctPids ==
    /\ \A t, u \in Threads :
           t # u /\ pc[t] = "use" /\ pc[u] = "use" => pid[t] # pid[u]
    /\ bitset = {pid[t] : t \in {u \in Threads : pc[u] = "use"}}

(* The scan looks at one pid at a time while others take and release, but  *)
(* never gets past the last pid: allocate_pid() does not return -1, with   *)
(* which release_pid() would shift by a negative number.                   *)
NeverFails == \A t \in Threads : pc[t] = "scan" => i[t] <= MAX_PID

Over == \A t \in Threads : pc[t] = "done"
=============================================================================
