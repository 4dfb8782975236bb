---------------------------- MODULE BarrierSort ----------------------------
(***************************************************************************)
(* 6-34.c: the sorters and main() meet at a barrier, and main() prints the *)
(* array when all have come.  The merge is only a comment there, so that   *)
(* the output is in order within each segment.                             *)
(***************************************************************************)
EXTENDS SegmentSort

BarrierSortAssumption == SegmentSortAssumption /\ Length % Threads = 0

VARIABLES
    created,    \* main(): the threads it has created
    arrived,    \* the callers of pthread_barrier_wait(): sorters, "main"
    out         \* what main() has printed

vars == <<sortVars, created, arrived, out>>

Init ==
    /\ SortInit
    /\ created = 0
    /\ arrived = {}
    /\ out = <<>>

(* The mistake: main() is not counted by the barrier.                      *)
NotMain == Threads

Parties == Threads + 1
First(t) == (Length \div Threads) * t
LastCell(t) == (Length \div Threads) * (t + 1) - 1

IsOpen == Cardinality(arrived) >= Parties

Create ==
    /\ created < Threads
    /\ Start(created, First(created), LastCell(created))
    /\ created' = created + 1
    /\ UNCHANGED <<arrived, out>>

Sort(t) == Sorts(t) /\ UNCHANGED <<created, arrived, out>>

Arrive(t) ==
    /\ tpc[t] = "sorted"
    /\ t \notin arrived
    /\ arrived' = arrived \cup {t}
    /\ UNCHANGED <<sortVars, created, out>>

MainArrives ==
    /\ created = Threads
    /\ Threads \notin arrived   \* main() counts as party number Threads
    /\ arrived' = arrived \cup {Threads}
    /\ UNCHANGED <<sortVars, created, out>>

PrintNumber ==
    /\ Threads \in arrived
    /\ IsOpen
    /\ Len(out) < Length
    /\ out' = Append(out, num[Len(out)])
    /\ UNCHANGED <<sortVars, created, arrived>>

Main == Create \/ MainArrives \/ PrintNumber

Next == Main \/ \E t \in Sorters : Sort(t) \/ Arrive(t)

-----------------------------------------------------------------------------
TypeOK ==
    /\ SortTypeOK
    /\ created \in 0 .. Threads
    /\ arrived \subseteq 0 .. Threads
    /\ Len(out) <= Length

(* What main() has printed is in order in each segment.                    *)
RowsSorted ==
    \A p, q \in DOMAIN out :
        p < q /\ (p - 1) \div (Length \div Threads) = (q - 1) \div (Length \div Threads)
            => out[p] <= out[q]

(* In the end all is printed, each segment in order, with no number lost   *)
(* or twice: the threads have no cell in common, and main() prints nothing *)
(* that one of them still moves.                                           *)
Over == Len(out) = Length
PrintsRows == Over => SameNumbers(out) /\ RowsSorted
=============================================================================
