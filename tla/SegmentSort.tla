---------------------------- MODULE SegmentSort ----------------------------
(***************************************************************************)
(* The sorting threads of 6-34.c and of projects2.c: thread t exchanges    *)
(* the numbers in num[lo[t]] .. num[hi[t]] until they are in order.  The   *)
(* array is shared and has no lock: BarrierSort and MergeSort show that    *)
(* the main threads give out the segments and use the array at the right   *)
(* time.                                                                   *)
(***************************************************************************)
EXTENDS Integers, FiniteSets, Sequences

CONSTANTS
    Length,     \* of the array: MAX in 6-34.c, LENGTH in projects2.c
    Threads,    \* the sorting threads
    Values      \* the numbers in the array

SegmentSortAssumption ==
    /\ Length \in Nat \ {0}
    /\ Threads \in Nat \ {0}
    /\ Values \subseteq Int

Cells == 0 .. Length - 1
Sorters == 0 .. Threads - 1

VARIABLES
    num,        \* the array
    input,      \* what it held at the start (history)
    tpc,        \* of each thread: "unborn", "compare", "store", "sorted"
    lo, hi,     \* its argument: the first and the last cell
    i, j,       \* its local variables
    temp

sortVars == <<num, input, tpc, lo, hi, i, j, temp>>

SortInit ==
    /\ num \in [Cells -> Values]
    /\ input = num
    /\ tpc = [t \in Sorters |-> "unborn"]
    /\ lo = [t \in Sorters |-> 0]
    /\ hi = [t \in Sorters |-> 0]
    /\ i = [t \in Sorters |-> 0]
    /\ j = [t \in Sorters |-> 0]
    /\ temp = [t \in Sorters |-> 0]

(* Mistake: the exchange loses the number that temp has kept.              *)
KeepsNothing(t) == num[j[t]]

Kept(t) == temp[t]

(* pthread_create() of a sorter, with its segment.                         *)
Start(t, first, last) ==
    /\ tpc[t] = "unborn"
    /\ lo' = [lo EXCEPT ![t] = first]
    /\ hi' = [hi EXCEPT ![t] = last]
    /\ i' = [i EXCEPT ![t] = first]
    /\ j' = [j EXCEPT ![t] = first + 1]
    /\ tpc' = [tpc EXCEPT ![t] = IF first < last THEN "compare" ELSE "sorted"]
    /\ UNCHANGED <<num, input, temp>>

(* The end of an iteration of the two loops.                               *)
Advance(t) ==
    LET more == j[t] < hi[t]
        again == i[t] + 1 < hi[t]
    IN  /\ i' = [i EXCEPT ![t] = IF more THEN @ ELSE @ + 1]
        /\ j' = [j EXCEPT ![t] = IF more THEN @ + 1 ELSE i[t] + 2]
        /\ tpc' = [tpc EXCEPT ![t] = IF more \/ again THEN "compare" ELSE "sorted"]

InOrder(t) ==
    /\ tpc[t] = "compare"
    /\ num[i[t]] <= num[j[t]]
    /\ Advance(t)
    /\ UNCHANGED <<num, input, lo, hi, temp>>

(* The exchange: between the two stores the array holds a number twice.    *)
Exchange(t) ==
    /\ tpc[t] = "compare"
    /\ num[i[t]] > num[j[t]]
    /\ temp' = [temp EXCEPT ![t] = num[i[t]]]
    /\ num' = [num EXCEPT ![i[t]] = num[j[t]]]
    /\ tpc' = [tpc EXCEPT ![t] = "store"]
    /\ UNCHANGED <<input, lo, hi, i, j>>

Exchanged(t) ==
    /\ tpc[t] = "store"
    /\ num' = [num EXCEPT ![j[t]] = Kept(t)]
    /\ Advance(t)
    /\ UNCHANGED <<input, lo, hi, temp>>

Sorts(t) == InOrder(t) \/ Exchange(t) \/ Exchanged(t)

-----------------------------------------------------------------------------
(* What the properties of the two programs speak of.                       *)
SortTypeOK ==
    /\ num \in [Cells -> Values] /\ input \in [Cells -> Values]
    /\ tpc \in [Sorters -> {"unborn", "compare", "store", "sorted"}]
    /\ \A t \in Sorters :
           tpc[t] \in {"compare", "store"} => i[t] \in Cells /\ j[t] \in Cells

(* out, a sequence, has the numbers of the input, each as often.           *)
SameNumbers(out) ==
    \A v \in Values :
        Cardinality({k \in DOMAIN out : out[k] = v}) =
        Cardinality({k \in Cells : input[k] = v})
=============================================================================
