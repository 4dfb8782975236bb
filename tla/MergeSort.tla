----------------------------- MODULE MergeSort -----------------------------
(***************************************************************************)
(* projects2.c of chapter 4: main() lets two threads sort the halves of    *)
(* the array, joins both, lets a third one merge them, joins it, prints.   *)
(***************************************************************************)
EXTENDS SegmentSort

MergeSortAssumption == SegmentSortAssumption /\ Threads = 2

VARIABLES
    main,       \* "create", "join", "merge", "copied", "print"
    joined,     \* the threads main() has created or joined in this phase
    left, right,    \* the merging thread: i and j in merge()
    merged,     \* its temp[0 .. index - 1]
    out         \* what main() prints

vars == <<sortVars, main, joined, left, right, merged, out>>

Init ==
    /\ SortInit
    /\ main = "create"
    /\ joined = 0
    /\ left = 0
    /\ right = 0
    /\ merged = <<>>
    /\ out = <<>>

Mid == Length \div 2

(* The mistake: main() joins the first thread twice.                       *)
FirstTwice(k) == 0

Joins(k) == k
FirstCell(t) == IF t = 0 THEN 0 ELSE Mid
LastCell(t) == IF t = 0 THEN Mid - 1 ELSE Length - 1
MergeEnds == left >= Mid /\ right >= Length

Create ==
    /\ main = "create"
    /\ Start(joined, FirstCell(joined), LastCell(joined))
    /\ joined' = (joined + 1) % Threads
    /\ main' = IF joined + 1 < Threads THEN "create" ELSE "join"
    /\ UNCHANGED <<left, right, merged, out>>

Sort(t) == Sorts(t) /\ UNCHANGED <<main, joined, left, right, merged, out>>

(* pthread_join(); after the second one the merging thread is created.     *)
Join ==
    /\ main = "join"
    /\ tpc[Joins(joined)] = "sorted"
    /\ joined' = joined + 1
    /\ main' = IF joined + 1 < Threads THEN "join" ELSE "merge"
    /\ right' = Mid
    /\ UNCHANGED <<sortVars, left, merged, out>>

(* An iteration of one of the three loops of merge(): the smaller number,  *)
(* of the first half if they are the same.                                 *)
MergeLeft ==
    /\ main = "merge"
    /\ ~MergeEnds
    /\ left < Mid
    /\ right < Length => num[left] <= num[right]
    /\ merged' = Append(merged, num[left])
    /\ left' = left + 1
    /\ UNCHANGED <<sortVars, main, joined, right, out>>

MergeRight ==
    /\ main = "merge"
    /\ ~MergeEnds
    /\ right < Length
    /\ left < Mid => num[left] > num[right]
    /\ merged' = Append(merged, num[right])
    /\ right' = right + 1
    /\ UNCHANGED <<sortVars, main, joined, left, out>>

(* The last loop of merge(), in one step: only this thread runs. A cell    *)
(* of temp that nothing was stored in has any value.                       *)
CopyBack ==
    /\ main = "merge"
    /\ MergeEnds
    /\ num' \in [Cells -> Values]
    /\ \A k \in DOMAIN merged : num'[k - 1] = merged[k]
    /\ main' = "copied"
    /\ UNCHANGED <<input, tpc, lo, hi, i, j, temp, joined, left, right, merged, out>>

PrintArray ==
    /\ main = "copied"
    /\ out' = [k \in 1 .. Length |-> num[k - 1]]
    /\ main' = "print"
    /\ UNCHANGED <<sortVars, joined, left, right, merged>>

Main == Create \/ Join \/ MergeLeft \/ MergeRight \/ CopyBack \/ PrintArray

Next == Main \/ \E t \in Sorters : Sort(t)

-----------------------------------------------------------------------------
TypeOK ==
    /\ SortTypeOK
    /\ main \in {"create", "join", "merge", "copied", "print"}
    /\ joined \in 0 .. Threads
    /\ left \in 0 .. Mid /\ right \in 0 .. Length
    /\ Len(merged) <= Length

(* The array is printed in order, and it is the input: the halves meet at  *)
(* Mid without a common cell, and merge() starts when both are sorted.     *)
Over == Len(out) = Length
PrintsSorted == Over => SameNumbers(out) /\ \A k \in 2 .. Length : out[k - 1] <= out[k]
=============================================================================
