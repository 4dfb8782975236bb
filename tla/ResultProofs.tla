---------------------------- MODULE ResultProofs ----------------------------
(* Proofs that the programs of MCPrograms whose threads share arrays or    *)
(* counts print what they should: the sorting threads, the counters, and   *)
(* the readers.                                                            *)
EXTENDS MCPrograms, TallyProofs

-----------------------------------------------------------------------------
(* 6-34.c and projects2.c.  The cells of an array of L numbers.            *)
Cell(L) == 0 .. L - 1

(* A thread in its loops.                                                   *)
Sorting(t) == tpc[t] \in {"compare", "store"}

(* The types, for an array of L numbers and the threads T.                 *)
SortTypes(L, T) ==
    /\ num \in [Cell(L) -> Values] /\ input \in [Cell(L) -> Values]
    /\ tpc \in [T -> {"unborn", "compare", "store", "sorted"}]
    /\ lo \in [T -> Int] /\ hi \in [T -> Int]
    /\ i \in [T -> Int] /\ j \in [T -> Int] /\ temp \in [T -> Int]

(* The segments are in the array, have no cell in common, and the indices  *)
(* of a thread are in its own.                                             *)
Segments(L, T) ==
    /\ \A t \in T : tpc[t] # "unborn" => lo[t] >= 0 /\ hi[t] < L
    /\ \A t \in T : Sorting(t) => lo[t] <= i[t] /\ i[t] < j[t] /\ j[t] <= hi[t]
    /\ \A t, u \in T : t # u /\ tpc[t] # "unborn" /\ tpc[u] # "unborn" =>
           hi[t] < lo[u] \/ hi[u] < lo[t]

(* The permutations of the cells.                                           *)
Permutes(L, p) ==
    /\ p \in [Cell(L) -> Cell(L)]
    /\ \A k, m \in Cell(L) : p[k] = p[m] => k = m
    /\ \A m \in Cell(L) : \E k \in Cell(L) : p[k] = m

(* The array has the numbers of the input in some order, if a thread       *)
(* between its two stores is taken to have made the second one.            *)
Rearranged(L, T, p) ==
    /\ \A k \in Cell(L) :
           (\A t \in T : tpc[t] = "store" => j[t] # k) => num[k] = input[p[k]]
    /\ \A t \in T : tpc[t] = "store" => temp[t] = input[p[j[t]]]

(* What a thread has put in order: all before i, and i up to j.            *)
Ordered(t) ==
    /\ tpc[t] = "sorted" =>
           \A k, m \in lo[t] .. hi[t] : k < m => num[k] <= num[m]
    /\ Sorting(t) =>
           /\ \A k \in lo[t] .. i[t] - 1 : \A m \in k + 1 .. hi[t] : num[k] <= num[m]
           /\ \A m \in i[t] + 1 .. j[t] - 1 : num[i[t]] <= num[m]
    /\ tpc[t] = "store" =>
           /\ temp[t] \in Values /\ num[i[t]] = num[j[t]] /\ num[j[t]] < temp[t]
           /\ \A k \in lo[t] .. i[t] - 1 : num[k] <= temp[t]

SortInv(L, T) ==
    /\ SortTypes(L, T) /\ Segments(L, T)
    /\ \E p : Permutes(L, p) /\ Rearranged(L, T, p)
    /\ \A t \in T : Ordered(t)

(* The steps of a sorter are the same in both programs.                    *)
LEMMA SameSteps == \A t : Merge!Sorts(t) <=> Barrier!Sorts(t)
BY DEF Merge!Sorts, Barrier!Sorts, Merge!InOrder, Barrier!InOrder,
       Merge!Exchange, Barrier!Exchange, Merge!Exchanged, Barrier!Exchanged,
       Merge!Advance, Barrier!Advance, Merge!Kept, Barrier!Kept

(* The numbers are integers.                                               *)
LEMMA ValuesAreInts == Values \subseteq Int
<1>1. Barrier!BarrierSortAssumption
  BY ProgramsAssumption
<1> QED
  BY <1>1 DEF Barrier!BarrierSortAssumption, Barrier!SegmentSortAssumption

(* What the end of an iteration leaves: the array is given.                *)
LEMMA AdvanceStep ==
  ASSUME NEW L \in Nat, NEW T, SortTypes(L, T), Segments(L, T), NEW t \in T,
         Sorting(t), Barrier!Advance(t), UNCHANGED <<lo, hi>>,
         num' \in [Cell(L) -> Values],
         \A k \in lo[t] .. i[t] - 1 : \A m \in k + 1 .. hi[t] : num'[k] <= num'[m],
         \A m \in i[t] + 1 .. j[t] : num'[i[t]] <= num'[m]
  PROVE  /\ tpc' = [tpc EXCEPT ![t] = tpc'[t]] /\ tpc'[t] \in {"compare", "sorted"}
         /\ i' = [i EXCEPT ![t] = i'[t]] /\ i'[t] \in Int
         /\ j' = [j EXCEPT ![t] = j'[t]] /\ j'[t] \in Int
         /\ tpc'[t] = "compare" =>
                lo[t] <= i'[t] /\ i'[t] < j'[t] /\ j'[t] <= hi[t]
         /\ Ordered(t)'
<1> USE DEF SortTypes, Segments, Sorting
<1>1. /\ i[t] \in Int /\ j[t] \in Int /\ hi[t] \in Int /\ lo[t] \in Int
      /\ lo[t] >= 0 /\ hi[t] < L
      /\ lo[t] <= i[t] /\ i[t] < j[t] /\ j[t] <= hi[t]
  OBVIOUS
<1> HIDE DEF Segments
<1>2. \A k \in lo[t] .. hi[t] : num'[k] \in Int
  <2>1. ASSUME NEW k \in lo[t] .. hi[t] PROVE num'[k] \in Int
    <3>1. k \in Cell(L)
      BY <1>1 DEF Cell
    <3>2. num'[k] \in Values
      BY <3>1
    <3> QED
      BY <3>2, ValuesAreInts
  <2> QED
    BY <2>1
<1>3. CASE j[t] < hi[t]
  <2>1. /\ i' = [i EXCEPT ![t] = i[t]] /\ j' = [j EXCEPT ![t] = j[t] + 1]
        /\ tpc' = [tpc EXCEPT ![t] = "compare"]
    BY <1>3 DEF Barrier!Advance
  <2>2. i'[t] = i[t] /\ j'[t] = j[t] + 1 /\ tpc'[t] = "compare"
    BY <2>1
  <2> HIDE DEF SortTypes
  <2>3. \A m \in i'[t] + 1 .. j'[t] - 1 : num'[i'[t]] <= num'[m]
    BY <1>1, <2>2
  <2>4. \A k \in lo[t] .. i'[t] - 1 : \A m \in k + 1 .. hi[t] : num'[k] <= num'[m]
    BY <2>2
  <2>5. Ordered(t)'
    BY <2>2, <2>3, <2>4 DEF Ordered
  <2>6. /\ lo[t] <= i'[t] /\ i'[t] < j'[t] /\ j'[t] <= hi[t]
        /\ i'[t] \in Int /\ j'[t] \in Int
    BY <1>1, <1>3, <2>2
  <2>7. /\ tpc' = [tpc EXCEPT ![t] = tpc'[t]] /\ i' = [i EXCEPT ![t] = i'[t]]
        /\ j' = [j EXCEPT ![t] = j'[t]]
    BY <2>1, <2>2
  <2> QED
    BY <2>1, <2>2, <2>5, <2>6, <2>7
<1>4. CASE ~(j[t] < hi[t])
  <2>1. /\ i' = [i EXCEPT ![t] = i[t] + 1] /\ j' = [j EXCEPT ![t] = i[t] + 2]
        /\ tpc' = [tpc EXCEPT ![t] = IF i[t] + 1 < hi[t] THEN "compare" ELSE "sorted"]
    BY <1>4 DEF Barrier!Advance
  <2>2. /\ i'[t] = i[t] + 1 /\ j'[t] = i[t] + 2
        /\ tpc'[t] = IF i[t] + 1 < hi[t] THEN "compare" ELSE "sorted"
    BY <2>1
  <2> HIDE DEF SortTypes
  <2>3. j[t] = hi[t]
    BY <1>1, <1>4
  <2>4. \A k \in lo[t] .. i[t] : \A m \in k + 1 .. hi[t] : num'[k] <= num'[m]
    BY <1>1, <2>3
  <2>5. tpc'[t] = "sorted" =>
            \A k, m \in lo[t] .. hi[t] : k < m => num'[k] <= num'[m]
    BY <1>1, <2>2, <2>4
  <2>6. /\ tpc'[t] = "compare" =>
               lo[t] <= i'[t] /\ i'[t] < j'[t] /\ j'[t] <= hi[t]
        /\ i'[t] \in Int /\ j'[t] \in Int
    BY <1>1, <2>2
  <2>7. /\ tpc' = [tpc EXCEPT ![t] = tpc'[t]] /\ i' = [i EXCEPT ![t] = i'[t]]
        /\ j' = [j EXCEPT ![t] = j'[t]] /\ tpc'[t] \in {"compare", "sorted"}
    BY <2>1, <2>2
  <2>8. Sorting(t)' => /\ \A k \in lo[t] .. i'[t] - 1 :
                              \A m \in k + 1 .. hi[t] : num'[k] <= num'[m]
                       /\ \A m \in i'[t] + 1 .. j'[t] - 1 : num'[i'[t]] <= num'[m]
    BY <1>1, <2>2, <2>4
  <2>9. Ordered(t)'
    BY <2>5, <2>7, <2>8 DEF Ordered
  <2> QED
    BY <2>6, <2>7, <2>9
<1> QED
  BY <1>3, <1>4

(* A thread t does not touch the segment of another one, u.                *)
LEMMA OthersRest ==
  ASSUME NEW L \in Nat, NEW T, SortInv(L, T), NEW t \in T, NEW u \in T, u # t,
         Sorting(t), UNCHANGED <<lo, hi>>,
         tpc'[u] = tpc[u], i'[u] = i[u], j'[u] = j[u], temp'[u] = temp[u],
         \A k \in Cell(L) \ {i[t], j[t]} : num'[k] = num[k]
  PROVE  Ordered(u)'
<1> USE DEF SortInv, SortTypes, Segments, Sorting
<1>1. CASE tpc[u] = "unborn"
  BY <1>1 DEF Ordered
<1>2. CASE tpc[u] # "unborn"
  <2>1. /\ lo[t] \in Int /\ hi[t] \in Int /\ i[t] \in Int /\ j[t] \in Int
        /\ lo[t] <= i[t] /\ i[t] < j[t] /\ j[t] <= hi[t]
        /\ lo[u] \in Int /\ hi[u] \in Int /\ i[u] \in Int /\ j[u] \in Int
        /\ lo[u] >= 0 /\ hi[u] < L /\ (hi[t] < lo[u] \/ hi[u] < lo[t])
        /\ Sorting(u) => lo[u] <= i[u] /\ i[u] < j[u] /\ j[u] <= hi[u]
    BY <1>2
  <2> HIDE DEF SortInv, SortTypes, Segments
  <2>2. \A k \in lo[u] .. hi[u] : num'[k] = num[k]
    BY <2>1 DEF Cell
  <2>3. Ordered(u)
    BY DEF SortInv
  <2>4. tpc'[u] = "sorted" =>
            \A k, m \in lo'[u] .. hi'[u] : k < m => num'[k] <= num'[m]
    BY <2>1, <2>2, <2>3 DEF Ordered
  <2>5. Sorting(u)' =>
           /\ \A k \in lo'[u] .. i'[u] - 1 : \A m \in k + 1 .. hi'[u] : num'[k] <= num'[m]
           /\ \A m \in i'[u] + 1 .. j'[u] - 1 : num'[i'[u]] <= num'[m]
    BY <2>1, <2>2, <2>3 DEF Ordered
  <2>6. tpc'[u] = "store" =>
           /\ temp'[u] \in Values /\ num'[i'[u]] = num'[j'[u]] /\ num'[j'[u]] < temp'[u]
           /\ \A k \in lo'[u] .. i'[u] - 1 : num'[k] <= temp'[u]
    BY <2>1, <2>2, <2>3 DEF Ordered
  <2> QED
    BY <2>4, <2>5, <2>6 DEF Ordered
<1> QED
  BY <1>1, <1>2

(* A permutation with two of its values exchanged is one.                  *)
LEMMA PermutesSwap ==
  ASSUME NEW L, NEW p, Permutes(L, p), NEW a \in Cell(L), NEW b \in Cell(L), a # b
  PROVE  Permutes(L, [p EXCEPT ![a] = p[b], ![b] = p[a]])
<1> DEFINE q == [p EXCEPT ![a] = p[b], ![b] = p[a]]
<1>1. /\ p \in [Cell(L) -> Cell(L)] /\ q \in [Cell(L) -> Cell(L)]
      /\ q[a] = p[b] /\ q[b] = p[a]
      /\ \A k \in Cell(L) \ {a, b} : q[k] = p[k]
  BY DEF Permutes
<1> HIDE DEF q
<1>2. \A k, m \in Cell(L) : q[k] = q[m] => k = m
  BY <1>1 DEF Permutes
<1>3. ASSUME NEW m \in Cell(L) PROVE \E k \in Cell(L) : q[k] = m
  <2>1. PICK k \in Cell(L) : p[k] = m
    BY DEF Permutes
  <2> QED
    BY <1>1, <2>1
<1> QED
  BY <1>1, <1>2, <1>3 DEF Permutes, q

(* Every step of a sorter keeps the invariant of the array.                *)
LEMMA SorterStep ==
  ASSUME NEW L \in Nat, NEW T, SortInv(L, T), NEW t \in T, Barrier!Sorts(t)
  PROVE  SortInv(L, T)' /\ Sorting(t) /\ UNCHANGED <<input, lo, hi>>
<1>1. Sorting(t) /\ UNCHANGED <<input, lo, hi>>
  BY DEF Barrier!Sorts, Barrier!InOrder, Barrier!Exchange, Barrier!Exchanged, Sorting
<1> SUFFICES SortInv(L, T)'
  BY <1>1
<1>2. /\ lo[t] \in Int /\ hi[t] \in Int /\ i[t] \in Int /\ j[t] \in Int
      /\ lo[t] >= 0 /\ hi[t] < L
      /\ lo[t] <= i[t] /\ i[t] < j[t] /\ j[t] <= hi[t]
      /\ i[t] \in Cell(L) /\ j[t] \in Cell(L) /\ i[t] # j[t]
  BY <1>1 DEF SortInv, SortTypes, Segments, Sorting, Cell
<1>3. \A u \in T \ {t} : tpc[u] = "store" =>
          j[u] # i[t] /\ j[u] # j[t] /\ i[u] # i[t] /\ i[u] # j[t]
  <2> SUFFICES ASSUME NEW u \in T \ {t}, tpc[u] = "store"
               PROVE  j[u] # i[t] /\ j[u] # j[t] /\ i[u] # i[t] /\ i[u] # j[t]
    OBVIOUS
  <2>1. /\ lo[u] \in Int /\ hi[u] \in Int /\ i[u] \in Int /\ j[u] \in Int
        /\ lo[u] <= i[u] /\ i[u] < j[u] /\ j[u] <= hi[u]
        /\ hi[t] < lo[u] \/ hi[u] < lo[t]
    BY <1>1 DEF SortInv, SortTypes, Segments, Sorting
  <2> QED
    BY <1>2, <2>1
<1>4. PICK p : Permutes(L, p) /\ Rearranged(L, T, p)
  BY DEF SortInv
<1>5. /\ num \in [Cell(L) -> Values] /\ temp \in [T -> Int]
      /\ tpc \in [T -> {"unborn", "compare", "store", "sorted"}]
      /\ i \in [T -> Int] /\ j \in [T -> Int]
      /\ num[i[t]] \in Int /\ num[j[t]] \in Int /\ temp[t] \in Int
      /\ num[i[t]] \in Values /\ num[j[t]] \in Values
      /\ Ordered(t)
  BY <1>2, ValuesAreInts DEF SortInv, SortTypes
<1>6. \A k \in lo[t] .. hi[t] : k \in Cell(L) /\ num[k] \in Int
  <2>1. \A k \in lo[t] .. hi[t] : k \in Cell(L)
    BY <1>2 DEF Cell
  <2> QED
    BY <1>5, <2>1, ValuesAreInts
<1>7. ASSUME num' \in [Cell(L) -> Values], temp' \in [T -> Int],
             tpc' = [tpc EXCEPT ![t] = tpc'[t]],
             tpc'[t] \in {"compare", "store", "sorted"},
             i' = [i EXCEPT ![t] = i'[t]], i'[t] \in Int,
             j' = [j EXCEPT ![t] = j'[t]], j'[t] \in Int,
             tpc'[t] \in {"compare", "store"} =>
                 lo[t] <= i'[t] /\ i'[t] < j'[t] /\ j'[t] <= hi[t]
      PROVE  /\ SortTypes(L, T)' /\ Segments(L, T)'
             /\ \A u \in T \ {t} : tpc'[u] = tpc[u] /\ i'[u] = i[u] /\ j'[u] = j[u]
  <2>1. SortTypes(L, T)'
    BY <1>1, <1>5, <1>7 DEF SortInv, SortTypes
  <2>2. \A u \in T \ {t} : tpc'[u] = tpc[u] /\ i'[u] = i[u] /\ j'[u] = j[u]
    BY <1>5, <1>7
  <2>3. \A u \in T : (tpc'[u] # "unborn" <=> tpc[u] # "unborn")
    BY <1>1, <1>7, <2>2 DEF Sorting
  <2>4. \A u \in T : Sorting(u)' =>
            lo'[u] <= i'[u] /\ i'[u] < j'[u] /\ j'[u] <= hi'[u]
    BY <1>1, <1>7, <2>2 DEF SortInv, Segments, Sorting
  <2>5. Segments(L, T)'
    BY <1>1, <2>3, <2>4 DEF SortInv, Segments
  <2> QED
    BY <2>1, <2>2, <2>5
<1>8. CASE Barrier!InOrder(t)
  <2>1. /\ tpc[t] = "compare" /\ num[i[t]] <= num[j[t]] /\ Barrier!Advance(t)
        /\ UNCHANGED <<num, temp>>
    BY <1>8 DEF Barrier!InOrder
  <2>2. /\ \A k \in lo[t] .. i[t] - 1 : \A m \in k + 1 .. hi[t] : num'[k] <= num'[m]
        /\ \A m \in i[t] + 1 .. j[t] - 1 : num'[i[t]] <= num'[m]
    BY <1>1, <1>5, <2>1 DEF Ordered
  <2>3. \A m \in i[t] + 1 .. j[t] : num'[i[t]] <= num'[m]
    BY <1>2, <2>1, <2>2
  <2>4. /\ tpc' = [tpc EXCEPT ![t] = tpc'[t]] /\ tpc'[t] \in {"compare", "sorted"}
        /\ i' = [i EXCEPT ![t] = i'[t]] /\ i'[t] \in Int
        /\ j' = [j EXCEPT ![t] = j'[t]] /\ j'[t] \in Int
        /\ tpc'[t] = "compare" =>
                lo[t] <= i'[t] /\ i'[t] < j'[t] /\ j'[t] <= hi[t]
        /\ Ordered(t)'
    BY <1>1, <1>5, <2>1, <2>2, <2>3, AdvanceStep DEF SortInv
  <2>5. /\ SortTypes(L, T)' /\ Segments(L, T)'
        /\ \A u \in T \ {t} : tpc'[u] = tpc[u] /\ i'[u] = i[u] /\ j'[u] = j[u]
    BY <1>5, <1>7, <2>1, <2>4
  <2>6. Rearranged(L, T, p)'
    <3>1. ASSUME NEW u \in T
          PROVE  /\ tpc'[u] = "store" <=> tpc[u] = "store"
                 /\ tpc[u] = "store" => j'[u] = j[u]
      <4>1. CASE u = t
        BY <2>1, <2>4, <4>1
      <4>2. CASE u # t
        BY <2>5, <4>2
      <4> QED
        BY <4>1, <4>2
    <3>2. num' = num /\ temp' = temp /\ input' = input
      BY <1>1, <2>1
    <3>3. ASSUME NEW u \in T, tpc'[u] = "store" PROVE temp'[u] = input'[p[j'[u]]]
      <4>1. tpc[u] = "store" /\ j'[u] = j[u]
        BY <3>1, <3>3
      <4>2. temp[u] = input[p[j[u]]]
        BY <1>4, <4>1 DEF Rearranged
      <4> QED
        BY <3>2, <4>1, <4>2
    <3>4. ASSUME NEW k \in Cell(L), \A u \in T : tpc'[u] = "store" => j'[u] # k
          PROVE  num'[k] = input'[p[k]]
      <4>1. ASSUME NEW u \in T, tpc[u] = "store" PROVE j[u] # k
        <5>1. tpc'[u] = "store" /\ j'[u] = j[u]
          BY <3>1, <4>1
        <5> QED
          BY <3>4, <5>1
      <4>2. num[k] = input[p[k]]
        BY <1>4, <4>1 DEF Rearranged
      <4> QED
        BY <3>2, <4>2
    <3> QED
      BY <3>3, <3>4 DEF Rearranged
  <2>7. ASSUME NEW u \in T, u # t PROVE Ordered(u)'
    BY <1>1, <2>1, <2>5, <2>7, OthersRest
  <2>8. \A u \in T : Ordered(u)'
    BY <2>4, <2>7
  <2>9. \E r : Permutes(L, r) /\ Rearranged(L, T, r)'
    BY <1>4, <2>6
  <2> QED
    BY <2>5, <2>8, <2>9 DEF SortInv
<1>9. CASE Barrier!Exchange(t)
  <2>1. /\ tpc[t] = "compare" /\ num[i[t]] > num[j[t]]
        /\ temp' = [temp EXCEPT ![t] = num[i[t]]]
        /\ num' = [num EXCEPT ![i[t]] = num[j[t]]]
        /\ tpc' = [tpc EXCEPT ![t] = "store"] /\ UNCHANGED <<i, j>>
    BY <1>9 DEF Barrier!Exchange
  <2>2. /\ num' \in [Cell(L) -> Values] /\ temp' \in [T -> Int]
        /\ tpc'[t] = "store" /\ temp'[t] = num[i[t]]
        /\ num'[i[t]] = num[j[t]] /\ num'[j[t]] = num[j[t]]
        /\ \A k \in Cell(L) \ {i[t]} : num'[k] = num[k]
        /\ \A u \in T \ {t} : temp'[u] = temp[u]
    BY <1>2, <1>5, <2>1
  <2>3. /\ SortTypes(L, T)' /\ Segments(L, T)'
        /\ \A u \in T \ {t} : tpc'[u] = tpc[u] /\ i'[u] = i[u] /\ j'[u] = j[u]
    BY <1>2, <1>5, <1>7, <2>1, <2>2
  <2>4. Ordered(t)'
    <3>1. /\ tpc'[t] = "store" /\ UNCHANGED <<lo, hi, i, j>>
          /\ num'[i'[t]] = num'[j'[t]] /\ num'[j'[t]] < temp'[t]
          /\ temp'[t] \in Values
      BY <1>1, <1>2, <1>5, <2>1, <2>2
    <3>2. \A k \in lo[t] .. i[t] - 1 : num'[k] = num[k] /\ num[k] <= num[i[t]]
      BY <1>2, <1>5, <1>6, <2>1, <2>2 DEF Ordered, Sorting
    <3>3. \A k \in lo[t] .. i[t] - 1 : \A m \in k + 1 .. hi[t] : num'[k] <= num'[m]
      BY <1>2, <1>5, <1>6, <2>1, <2>2, <3>2 DEF Ordered, Sorting
    <3>4. \A m \in i[t] + 1 .. j[t] - 1 : num'[i[t]] <= num'[m]
      BY <1>2, <1>5, <1>6, <2>1, <2>2 DEF Ordered, Sorting
    <3> QED
      BY <2>2, <3>1, <3>2, <3>3, <3>4 DEF Ordered
  <2>5. ASSUME NEW u \in T, u # t PROVE Ordered(u)'
    BY <1>1, <2>2, <2>3, <2>5, OthersRest
  <2>6. PICK q : /\ q = [p EXCEPT ![i[t]] = p[j[t]], ![j[t]] = p[i[t]]]
                 /\ Permutes(L, q)
    BY <1>2, <1>4, PermutesSwap
  <2>7. Rearranged(L, T, q)'
    <3>1. ASSUME NEW u \in T \ {t}, tpc[u] = "store" PROVE q[j[u]] = p[j[u]]
      <4>1. j[u] # i[t] /\ j[u] # j[t]
        BY <1>3, <3>1
      <4>2. /\ lo[u] \in Int /\ hi[u] \in Int /\ i[u] \in Int /\ j[u] \in Int
            /\ lo[u] <= i[u] /\ i[u] < j[u] /\ j[u] <= hi[u]
            /\ lo[u] >= 0 /\ hi[u] < L
        BY <3>1 DEF SortInv, SortTypes, Segments, Sorting
      <4>3. j[u] \in Cell(L)
        BY <4>2 DEF Cell
      <4>4. p \in [Cell(L) -> Cell(L)]
        BY <1>4 DEF Permutes
      <4> QED
        BY <1>2, <2>6, <4>1, <4>3, <4>4
    <3>2. num[i[t]] = input[p[i[t]]] /\ num[j[t]] = input[p[j[t]]]
      BY <1>2, <1>3, <1>4, <2>1 DEF Rearranged
    <3>3. q[i[t]] = p[j[t]] /\ q[j[t]] = p[i[t]]
      <4>1. p \in [Cell(L) -> Cell(L)]
        BY <1>4 DEF Permutes
      <4> QED
        BY <1>2, <2>6, <4>1
    <3>4. \A k \in Cell(L) \ {i[t], j[t]} : q[k] = p[k] /\ num'[k] = num[k]
      BY <2>6, <1>2, <1>4, <2>2 DEF Permutes
    <3>5. \A u \in T : tpc'[u] = "store" => temp'[u] = input'[q[j'[u]]]
      <4>1. ASSUME NEW u \in T, u # t, tpc'[u] = "store"
            PROVE  temp'[u] = input'[q[j'[u]]]
        BY <1>1, <1>4, <2>1, <2>2, <2>3, <3>1, <4>1 DEF Rearranged
      <4> QED
        BY <1>1, <2>1, <2>2, <3>2, <3>3, <4>1
    <3>6. ASSUME NEW k \in Cell(L), \A u \in T : tpc'[u] = "store" => j'[u] # k
          PROVE  num'[k] = input'[q[k]]
      <4>1. k # j[t]
        BY <2>1, <2>2, <3>6
      <4>2. CASE k = i[t]
        BY <1>1, <2>2, <3>2, <3>3, <4>2
      <4>3. CASE k # i[t]
        <5>1. \A u \in T : tpc[u] = "store" => j[u] # k
          BY <2>1, <2>3, <3>6
        <5> QED
          BY <1>1, <1>4, <3>4, <4>1, <4>3, <5>1 DEF Rearranged
      <4> QED
        BY <4>2, <4>3
    <3> QED
      BY <3>5, <3>6 DEF Rearranged
  <2>8. \A u \in T : Ordered(u)'
    BY <2>4, <2>5
  <2>9. \E r : Permutes(L, r) /\ Rearranged(L, T, r)'
    BY <2>6, <2>7
  <2> QED
    BY <2>3, <2>8, <2>9 DEF SortInv
<1>10. CASE Barrier!Exchanged(t)
  <2>1. /\ tpc[t] = "store" /\ num' = [num EXCEPT ![j[t]] = temp[t]]
        /\ Barrier!Advance(t) /\ UNCHANGED temp
    BY <1>10 DEF Barrier!Exchanged, Barrier!Kept
  <2>2. /\ num' \in [Cell(L) -> Values] /\ num'[j[t]] = temp[t]
        /\ \A k \in Cell(L) \ {j[t]} : num'[k] = num[k]
    BY <1>2, <1>5, <2>1 DEF Ordered
  <2>3. /\ \A k \in lo[t] .. i[t] - 1 : \A m \in k + 1 .. hi[t] : num'[k] <= num'[m]
        /\ \A m \in i[t] + 1 .. j[t] : num'[i[t]] <= num'[m]
    <3>1. \A k \in lo[t] .. hi[t] : num'[k] = IF k = j[t] THEN temp[t] ELSE num[k]
      BY <1>6, <2>2
    <3>2. \A k \in lo[t] .. i[t] - 1 :
              num[k] <= temp[t] /\ \A m \in k + 1 .. hi[t] : num[k] <= num[m]
      BY <1>5, <2>1 DEF Ordered, Sorting
    <3>3. /\ num[i[t]] < temp[t]
          /\ \A m \in i[t] + 1 .. j[t] - 1 : num[i[t]] <= num[m]
      BY <1>5, <2>1 DEF Ordered, Sorting
    <3>4. ASSUME NEW k \in lo[t] .. i[t] - 1, NEW m \in k + 1 .. hi[t]
          PROVE  num'[k] <= num'[m]
      BY <1>2, <3>1, <3>2
    <3>5. ASSUME NEW m \in i[t] + 1 .. j[t] PROVE num'[i[t]] <= num'[m]
      BY <1>2, <1>5, <3>1, <3>3
    <3> QED
      BY <3>4, <3>5
  <2>4. /\ tpc' = [tpc EXCEPT ![t] = tpc'[t]] /\ tpc'[t] \in {"compare", "sorted"}
        /\ i' = [i EXCEPT ![t] = i'[t]] /\ i'[t] \in Int
        /\ j' = [j EXCEPT ![t] = j'[t]] /\ j'[t] \in Int
        /\ tpc'[t] = "compare" =>
                lo[t] <= i'[t] /\ i'[t] < j'[t] /\ j'[t] <= hi[t]
        /\ Ordered(t)'
    BY <1>1, <1>5, <2>1, <2>2, <2>3, AdvanceStep DEF SortInv
  <2>5. /\ SortTypes(L, T)' /\ Segments(L, T)'
        /\ \A u \in T \ {t} : tpc'[u] = tpc[u] /\ i'[u] = i[u] /\ j'[u] = j[u]
    BY <1>5, <1>7, <2>1, <2>2, <2>4
  <2>6. Rearranged(L, T, p)'
    <3>1. num'[j[t]] = input[p[j[t]]] /\ tpc'[t] # "store"
      BY <1>4, <2>1, <2>2, <2>4 DEF Rearranged
    <3>2. \A u \in T : tpc'[u] = "store" => temp'[u] = input'[p[j'[u]]]
      BY <1>1, <1>4, <2>1, <2>5, <3>1 DEF Rearranged
    <3>3. ASSUME NEW k \in Cell(L), \A u \in T : tpc'[u] = "store" => j'[u] # k
          PROVE  num'[k] = input'[p[k]]
      <4>1. CASE k = j[t]
        BY <1>1, <3>1, <4>1
      <4>2. CASE k # j[t]
        <5>1. \A u \in T : tpc[u] = "store" => j[u] # k
          BY <2>5, <3>3, <4>2
        <5> QED
          BY <1>1, <1>4, <2>2, <4>2, <5>1 DEF Rearranged
      <4> QED
        BY <4>1, <4>2
    <3> QED
      BY <3>2, <3>3 DEF Rearranged
  <2>7. ASSUME NEW u \in T, u # t PROVE Ordered(u)'
    BY <1>1, <2>1, <2>2, <2>5, <2>7, OthersRest
  <2>8. \A u \in T : Ordered(u)'
    BY <2>4, <2>7
  <2>9. \E r : Permutes(L, r) /\ Rearranged(L, T, r)'
    BY <1>4, <2>6
  <2> QED
    BY <2>5, <2>8, <2>9 DEF SortInv
<1> QED
  BY <1>1, <1>8, <1>9, <1>10 DEF Barrier!Sorts

(* Every number is as often in s as in the input, ...                      *)
AsOften(L, s) ==
    \A v : Cardinality({k \in DOMAIN s : s[k] = v}) =
           Cardinality({k \in Cell(L) : input[k] = v})

(* ... if s is the input in another order.                                 *)
LEMMA SameCounts ==
  ASSUME NEW L \in Nat, NEW p, Permutes(L, p), NEW s, DOMAIN s = 1 .. L,
         \A k \in Cell(L) : s[k + 1] = input[p[k]]
  PROVE  AsOften(L, s)
<1> SUFFICES ASSUME NEW v
             PROVE  Cardinality({k \in DOMAIN s : s[k] = v}) =
                    Cardinality({k \in Cell(L) : input[k] = v})
  BY DEF AsOften
<1> DEFINE A == {k \in DOMAIN s : s[k] = v}
           B == {k \in Cell(L) : input[k] = v}
           f == [k \in A |-> p[k - 1]]
<1>1. \A k \in A : k \in 1 .. L /\ k - 1 \in Cell(L) /\ s[k] = v /\ s[k] = input[p[k - 1]]
  <2> SUFFICES ASSUME NEW k \in A
               PROVE  k \in 1 .. L /\ k - 1 \in Cell(L) /\ s[k] = v /\ s[k] = input[p[k - 1]]
    OBVIOUS
  <2>1. k \in 1 .. L /\ s[k] = v
    OBVIOUS
  <2>2. k - 1 \in Cell(L) /\ (k - 1) + 1 = k
    BY <2>1 DEF Cell
  <2> QED
    BY <2>1, <2>2
<1>2. f \in [A -> B]
  BY <1>1 DEF Permutes
<1>3. \A a, b \in A : f[a] = f[b] => a = b
  <2> SUFFICES ASSUME NEW a \in A, NEW b \in A, f[a] = f[b] PROVE a = b
    OBVIOUS
  <2>1. p[a - 1] = p[b - 1] /\ a - 1 \in Cell(L) /\ b - 1 \in Cell(L)
    BY <1>1
  <2>2. a - 1 = b - 1 /\ a \in 1 .. L /\ b \in 1 .. L
    BY <1>1, <2>1 DEF Permutes
  <2> QED
    BY <2>2
<1>4. ASSUME NEW m \in B PROVE \E k \in A : f[k] = m
  <2>1. PICK k \in Cell(L) : p[k] = m
    BY DEF Permutes
  <2>2. k + 1 \in A /\ (k + 1) - 1 = k
    BY <2>1 DEF Cell
  <2> QED
    BY <2>1, <2>2
<1> HIDE DEF A, B, f
<1>5. f \in Bijection(A, B)
  <2>1. f \in Injection(A, B)
    BY <1>2, <1>3 DEF Injection, IsInjective
  <2>2. f \in Surjection(A, B)
    BY <1>2, <1>4 DEF Surjection
  <2> QED
    BY <2>1, <2>2 DEF Bijection
<1>6. IsFiniteSet(A)
  <2>1. IsFiniteSet(1 .. L)
    BY FS_Interval
  <2>2. A \subseteq 1 .. L
    BY <1>1
  <2> QED
    BY <2>1, <2>2, FS_Subset
<1>7. Cardinality(B) = Cardinality(A)
  BY <1>5, <1>6, FS_Bijection DEF ExistsBijection
<1> QED
  BY <1>7 DEF A, B

(* What a program begins with.                                             *)
LEMMA SortStarts ==
  ASSUME NEW L \in Nat, NEW T,
         num \in [Cell(L) -> Values], input = num, tpc = [t \in T |-> "unborn"],
         lo = [t \in T |-> 0], hi = [t \in T |-> 0], i = [t \in T |-> 0],
         j = [t \in T |-> 0], temp = [t \in T |-> 0]
  PROVE  SortInv(L, T)
<1>1. SortTypes(L, T) /\ Segments(L, T)
  BY DEF SortTypes, Segments, Sorting
<1>2. \A t \in T : Ordered(t)
  BY DEF Ordered, Sorting
<1> DEFINE p == [k \in Cell(L) |-> k]
<1>3. Permutes(L, p)
  BY DEF Permutes
<1>4. Rearranged(L, T, p)
  BY DEF Rearranged
<1> QED
  BY <1>1, <1>2, <1>3, <1>4 DEF SortInv

(* pthread_create() of a sorter with a segment that is free.               *)
LEMMA StartStep ==
  ASSUME NEW L \in Nat, NEW T, SortInv(L, T), NEW t \in T,
         NEW first \in Int, NEW last \in Int, Barrier!Start(t, first, last),
         first >= 0, last < L,
         \A u \in T : u # t /\ tpc[u] # "unborn" => last < lo[u] \/ hi[u] < first
  PROVE  /\ SortInv(L, T)' /\ UNCHANGED <<num, input>>
         /\ tpc[t] = "unborn" /\ tpc'[t] # "unborn" /\ lo'[t] = first /\ hi'[t] = last
         /\ \A u \in T \ {t} : tpc'[u] = tpc[u] /\ lo'[u] = lo[u] /\ hi'[u] = hi[u]
<1>1. /\ num \in [Cell(L) -> Values] /\ input \in [Cell(L) -> Values]
      /\ tpc \in [T -> {"unborn", "compare", "store", "sorted"}]
      /\ lo \in [T -> Int] /\ hi \in [T -> Int]
      /\ i \in [T -> Int] /\ j \in [T -> Int] /\ temp \in [T -> Int]
  BY DEF SortInv, SortTypes
<1>2. /\ tpc[t] = "unborn" /\ UNCHANGED <<num, input, temp>>
      /\ lo' = [lo EXCEPT ![t] = first] /\ hi' = [hi EXCEPT ![t] = last]
      /\ i' = [i EXCEPT ![t] = first] /\ j' = [j EXCEPT ![t] = first + 1]
      /\ tpc' = [tpc EXCEPT ![t] = IF first < last THEN "compare" ELSE "sorted"]
  BY DEF Barrier!Start
<1>3. /\ lo'[t] = first /\ hi'[t] = last /\ i'[t] = first /\ j'[t] = first + 1
      /\ tpc'[t] = IF first < last THEN "compare" ELSE "sorted"
  BY <1>1, <1>2
<1>4. \A u \in T \ {t} : /\ tpc'[u] = tpc[u] /\ lo'[u] = lo[u] /\ hi'[u] = hi[u]
                         /\ i'[u] = i[u] /\ j'[u] = j[u] /\ temp'[u] = temp[u]
  BY <1>1, <1>2
<1>5. SortTypes(L, T)'
  BY <1>1, <1>2 DEF SortTypes
<1>6. Segments(L, T)'
  <2>1. \A u \in T : tpc'[u] # "unborn" => lo'[u] >= 0 /\ hi'[u] < L
    <3>1. ASSUME NEW u \in T, u # t, tpc'[u] # "unborn" PROVE lo'[u] >= 0 /\ hi'[u] < L
      BY <1>4, <3>1 DEF SortInv, Segments
    <3> QED
      BY <1>3, <3>1
  <2>2. \A u \in T : Sorting(u)' =>
            lo'[u] <= i'[u] /\ i'[u] < j'[u] /\ j'[u] <= hi'[u]
    <3>1. ASSUME NEW u \in T, u # t, Sorting(u)'
          PROVE  lo'[u] <= i'[u] /\ i'[u] < j'[u] /\ j'[u] <= hi'[u]
      BY <1>4, <3>1 DEF SortInv, Segments, Sorting
    <3>2. Sorting(t)' => lo'[t] <= i'[t] /\ i'[t] < j'[t] /\ j'[t] <= hi'[t]
      BY <1>3 DEF Sorting
    <3> QED
      BY <3>1, <3>2
  <2>3. ASSUME NEW a \in T, NEW b \in T, a # b, tpc'[a] # "unborn", tpc'[b] # "unborn"
        PROVE  hi'[a] < lo'[b] \/ hi'[b] < lo'[a]
    <3>1. CASE a = t
      BY <1>3, <1>4, <2>3, <3>1
    <3>2. CASE b = t
      BY <1>3, <1>4, <2>3, <3>2
    <3>3. CASE a # t /\ b # t
      BY <1>4, <2>3, <3>3 DEF SortInv, Segments
    <3> QED
      BY <3>1, <3>2, <3>3
  <2> QED
    BY <2>1, <2>2, <2>3 DEF Segments
<1>7. PICK p : Permutes(L, p) /\ Rearranged(L, T, p)
  BY DEF SortInv
<1>8. \A u \in T : tpc'[u] = "store" <=> tpc[u] = "store"
  BY <1>2, <1>3, <1>4
<1>9. \A u \in T : tpc[u] = "store" => j'[u] = j[u]
  BY <1>2, <1>4
<1>10. Rearranged(L, T, p)'
  BY <1>2, <1>7, <1>8, <1>9 DEF Rearranged
<1>11. ASSUME NEW u \in T PROVE Ordered(u)'
  <2>1. CASE u = t
    BY <1>3, <2>1 DEF Ordered, Sorting
  <2>2. CASE u # t
    <3>1. Ordered(u)
      BY DEF SortInv
    <3> QED
      BY <1>2, <1>4, <2>2, <3>1 DEF Ordered, Sorting
  <2> QED
    BY <2>1, <2>2
<1> QED
  BY <1>2, <1>3, <1>4, <1>5, <1>6, <1>7, <1>10, <1>11 DEF SortInv

(* Nothing else disturbs it.                                               *)
LEMMA SortRest ==
  ASSUME NEW L, NEW T, SortInv(L, T),
         UNCHANGED <<num, input, tpc, lo, hi, i, j, temp>>
  PROVE  SortInv(L, T)'
<1>1. SortTypes(L, T)'
  BY DEF SortInv, SortTypes
<1>2. Segments(L, T)'
  BY DEF SortInv, Segments, Sorting
<1>3. PICK p : Permutes(L, p) /\ Rearranged(L, T, p)
  BY DEF SortInv
<1>4. Rearranged(L, T, p)'
  BY <1>3 DEF Rearranged
<1>5. ASSUME NEW t \in T PROVE Ordered(t)'
  <2>1. Ordered(t)
    BY DEF SortInv
  <2> QED
    BY <2>1 DEF Ordered, Sorting
<1> QED
  BY <1>1, <1>2, <1>3, <1>4, <1>5 DEF SortInv

-----------------------------------------------------------------------------
(* 6-34.c.  The places of the array, which has BarrierLength of them, and  *)
(* the threads.                                                            *)
RowLength == BarrierLength \div SortThreads

BarrierControl ==
    /\ created \in 0 .. SortThreads
    /\ arrived \subseteq 0 .. SortThreads
    /\ \A t \in Barrier!Sorters :
           IF t < created
           THEN /\ tpc[t] # "unborn"
                /\ lo[t] = Barrier!First(t) /\ hi[t] = Barrier!LastCell(t)
           ELSE tpc[t] = "unborn"
    /\ \A t \in Barrier!Sorters : t \in arrived => tpc[t] = "sorted"

(* What is printed is in the array, and is printed when all have come.     *)
BarrierOut ==
    /\ out \in Seq(Values) /\ Len(out) <= BarrierLength
    /\ \A k \in 1 .. Len(out) : out[k] = num[k - 1]
    /\ out # <<>> => arrived = 0 .. SortThreads

BarrierInv ==
    /\ SortInv(BarrierLength, Barrier!Sorters)
    /\ BarrierControl /\ BarrierOut

(* The threads and the rows of the array.                                  *)
LEMMA RowsAre ==
  /\ SortThreads \in Nat /\ SortThreads > 0
  /\ BarrierLength \in Nat /\ BarrierLength > 0
  /\ RowLength \in Nat /\ RowLength > 0
  /\ RowLength * SortThreads = BarrierLength
  /\ \A t \in Barrier!Sorters :
         /\ t \in Nat /\ t < SortThreads
         /\ Barrier!First(t) = RowLength * t
         /\ Barrier!LastCell(t) = RowLength * (t + 1) - 1
<1>1. /\ SortThreads \in Nat \ {0} /\ BarrierLength \in Nat \ {0}
      /\ BarrierLength % SortThreads = 0
  BY ProgramsAssumption
     DEF Barrier!BarrierSortAssumption, Barrier!SegmentSortAssumption
<1>2. /\ RowLength \in Int
      /\ BarrierLength = SortThreads * RowLength + (BarrierLength % SortThreads)
  BY <1>1 DEF RowLength
<1>3. RowLength > 0
  BY <1>1, <1>2
<1>4. RowLength * SortThreads = BarrierLength
  BY <1>1, <1>2
<1> QED
  BY <1>1, <1>2, <1>3, <1>4
     DEF Barrier!Sorters, Barrier!First, Barrier!LastCell, RowLength

(* Two rows have no cell in common.                                        *)
LEMMA RowsApart ==
  ASSUME NEW q \in Nat, NEW n \in Nat, NEW t \in 0 .. n - 1
  PROVE  /\ q * t \in Nat /\ q * (t + 1) \in Nat /\ q * (t + 1) = q * t + q
         /\ q * (t + 1) <= q * n
         /\ \A u \in 0 .. n - 1 : t < u => q * (t + 1) <= q * u
<1>1. q * t \in Nat /\ q * (t + 1) \in Nat /\ q * (t + 1) = q * t + q
  OBVIOUS
<1>2. ASSUME NEW m \in Nat, t + 1 <= m PROVE q * (t + 1) <= q * m
  <2>1. PICK d \in Nat : m = (t + 1) + d
    <3>1. m - (t + 1) \in Nat /\ m = (t + 1) + (m - (t + 1))
      BY <1>2
    <3> QED
      BY <3>1
  <2>2. q * m = q * (t + 1) + q * d /\ q * d \in Nat
    BY <2>1
  <2> QED
    BY <1>1, <2>2
<1> QED
  BY <1>1, <1>2

(* 6-34.c by itself.                                                       *)
BarrierSpec == Barrier!Init /\ [][Barrier!Next]_(Barrier!vars)

(* At the start no thread is born and the array is the input.              *)
LEMMA BarrierInit == Barrier!Init => BarrierInv
<1> SUFFICES ASSUME Barrier!Init PROVE BarrierInv
  OBVIOUS
<1>1. /\ BarrierLength \in Nat /\ SortThreads \in Nat
      /\ \A t \in Barrier!Sorters : t \in Nat
  BY RowsAre
<1>2. SortInv(BarrierLength, Barrier!Sorters)
  BY <1>1, SortStarts DEF Barrier!Init, Barrier!SortInit, Barrier!Cells, Cell
<1>3. BarrierControl
  BY <1>1 DEF BarrierControl, Barrier!Init, Barrier!SortInit
<1>4. BarrierOut
  BY <1>1 DEF BarrierOut, Barrier!Init
<1> QED
  BY <1>2, <1>3, <1>4 DEF BarrierInv

(* When all have come, all segments are in order.                          *)
LEMMA AllCome ==
  ASSUME BarrierInv, Barrier!IsOpen
  PROVE  arrived = 0 .. SortThreads /\ \A t \in Barrier!Sorters : tpc[t] = "sorted"
<1>1. SortThreads \in Nat
  BY RowsAre
<1>2. IsFiniteSet(0 .. SortThreads) /\ Cardinality(0 .. SortThreads) = SortThreads + 1
  BY <1>1, FS_Interval
<1>3. arrived \subseteq 0 .. SortThreads
  BY DEF BarrierInv, BarrierControl
<1>4. Cardinality(arrived) >= SortThreads + 1
  BY DEF Barrier!IsOpen, Barrier!Parties, Barrier!Cardinality, Cardinality,
         Barrier!IsFiniteSet, IsFiniteSet
<1>5. Cardinality(arrived) <= SortThreads + 1 /\ Cardinality(arrived) \in Nat
  BY <1>2, <1>3, FS_Subset, FS_CardinalityType
<1>6. Cardinality(arrived) = Cardinality(0 .. SortThreads)
  BY <1>1, <1>2, <1>4, <1>5
<1>7. arrived = 0 .. SortThreads
  BY <1>2, <1>3, <1>6, FS_Subset
<1>8. \A t \in Barrier!Sorters : t \in arrived
  BY <1>1, <1>7 DEF Barrier!Sorters
<1> QED
  BY <1>7, <1>8 DEF BarrierInv, BarrierControl

(* Every step of 6-34.c keeps the invariant.                               *)
LEMMA BarrierStep == BarrierInv /\ [Barrier!Next]_(Barrier!vars) => BarrierInv'
<1> SUFFICES ASSUME BarrierInv, [Barrier!Next]_(Barrier!vars) PROVE BarrierInv'
  OBVIOUS
<1> DEFINE T == Barrier!Sorters
           L == BarrierLength
<1>1. /\ SortThreads \in Nat /\ L \in Nat
      /\ \A t \in T : t \in Nat /\ t < SortThreads
      /\ \A t \in 0 .. SortThreads - 1 : t \in T
  BY RowsAre DEF Barrier!Sorters
<1>2. SortInv(L, T) /\ BarrierControl /\ BarrierOut
  BY DEF BarrierInv
<1> HIDE DEF T, L
<1>3. CASE UNCHANGED Barrier!vars
  <2>1. UNCHANGED <<num, input, tpc, lo, hi, i, j, temp, created, arrived, out>>
    BY <1>3 DEF Barrier!vars, Barrier!sortVars
  <2>2. SortInv(L, T)'
    BY <1>2, <2>1, SortRest
  <2>3. BarrierControl' /\ BarrierOut'
    BY <1>2, <2>1 DEF BarrierControl, BarrierOut
  <2> QED
    BY <2>2, <2>3 DEF BarrierInv, T, L
<1>4. CASE Barrier!Create
  <2> SUFFICES ASSUME NEW t, t = created, NEW first, first = Barrier!First(created),
                      NEW last, last = Barrier!LastCell(created)
               PROVE  BarrierInv'
    OBVIOUS
  <2>1. /\ t \in T /\ t \in Nat /\ Barrier!Start(t, first, last)
        /\ created' = created + 1 /\ UNCHANGED <<arrived, out>>
    BY <1>1, <1>2, <1>4 DEF Barrier!Create, BarrierControl
  <2>2. /\ first = RowLength * t /\ last = RowLength * (t + 1) - 1
        /\ RowLength * t \in Nat /\ RowLength * (t + 1) \in Nat
        /\ RowLength * (t + 1) <= L
        /\ \A u \in T : u < t => RowLength * (u + 1) <= RowLength * t
    <3>1. RowLength \in Nat /\ SortThreads \in Nat /\ RowLength * SortThreads = L
      BY RowsAre DEF L
    <3>2. \A u \in T : u \in 0 .. SortThreads - 1
      BY <1>1
    <3>3. /\ RowLength * t \in Nat /\ RowLength * (t + 1) \in Nat
          /\ RowLength * (t + 1) <= L
      BY <2>1, <3>1, <3>2, RowsApart
    <3>4. \A u \in T : u < t => RowLength * (u + 1) <= RowLength * t
      BY <2>1, <3>1, <3>2, RowsApart
    <3> QED
      BY <2>1, <3>3, <3>4, RowsAre DEF T
  <2>3. first \in Int /\ last \in Int /\ first >= 0 /\ last < L
    BY <1>1, <2>2
  <2>4. \A u \in T : u # t /\ tpc[u] # "unborn" => last < lo[u] \/ hi[u] < first
    <3> SUFFICES ASSUME NEW u \in T, u # t, tpc[u] # "unborn"
                 PROVE  last < lo[u] \/ hi[u] < first
      OBVIOUS
    <3>1. u < created /\ hi[u] = RowLength * (u + 1) - 1
      BY <1>2, RowsAre DEF BarrierControl, T
    <3>2. RowLength * (u + 1) <= RowLength * t /\ RowLength * (u + 1) \in Nat
      <4>1. RowLength \in Nat /\ u \in Nat
        BY <1>1, RowsAre
      <4> QED
        BY <2>2, <3>1, <4>1
    <3> QED
      BY <2>2, <3>1, <3>2
  <2>5. /\ SortInv(L, T)' /\ UNCHANGED <<num, input>>
        /\ tpc[t] = "unborn" /\ tpc'[t] # "unborn" /\ lo'[t] = first /\ hi'[t] = last
        /\ \A u \in T \ {t} : tpc'[u] = tpc[u] /\ lo'[u] = lo[u] /\ hi'[u] = hi[u]
    <3>1. L \in Nat /\ SortInv(L, T) /\ t \in T /\ Barrier!Start(t, first, last)
      BY <1>1, <1>2, <2>1
    <3> QED
      BY <2>3, <2>4, <3>1, StartStep
  <2>6. t \notin arrived
    BY <1>2, <2>1, <2>5 DEF BarrierControl, T
  <2>7. created' \in 0 .. SortThreads
    BY <1>1, <2>1
  <2>8. ASSUME NEW u \in T
        PROVE  IF u < created'
               THEN /\ tpc'[u] # "unborn"
                    /\ lo'[u] = Barrier!First(u) /\ hi'[u] = Barrier!LastCell(u)
               ELSE tpc'[u] = "unborn"
    <3>1. CASE u = t
      BY <2>1, <2>5, <3>1
    <3>2. CASE u # t
      <4>1. u < created' <=> u < created
        BY <1>1, <2>1, <3>2
      <4> QED
        BY <1>2, <2>5, <3>2, <4>1 DEF BarrierControl, T
    <3> QED
      BY <3>1, <3>2
  <2>9. \A u \in T : u \in arrived' => tpc'[u] = "sorted"
    BY <1>2, <2>1, <2>5, <2>6 DEF BarrierControl, T
  <2>10. BarrierControl'
    BY <1>2, <2>1, <2>7, <2>8, <2>9 DEF BarrierControl, T
  <2>11. BarrierOut'
    BY <1>2, <2>1, <2>5 DEF BarrierOut
  <2> QED
    BY <2>5, <2>10, <2>11 DEF BarrierInv, T, L
<1>5. ASSUME NEW t \in T, Barrier!Sort(t) PROVE BarrierInv'
  <2>1. Barrier!Sorts(t) /\ UNCHANGED <<created, arrived, out>>
    BY <1>5 DEF Barrier!Sort
  <2>2. SortInv(L, T)' /\ Sorting(t) /\ UNCHANGED <<input, lo, hi>>
    BY <1>1, <1>2, <2>1, SorterStep
  <2>3. /\ tpc \in [T -> {"unborn", "compare", "store", "sorted"}]
        /\ tpc' = [tpc EXCEPT ![t] = tpc'[t]] /\ tpc'[t] # "unborn"
    BY <1>2, <2>1 DEF SortInv, SortTypes, Barrier!Sorts, Barrier!InOrder,
       Barrier!Exchange, Barrier!Exchanged, Barrier!Advance
  <2>4. t \notin arrived
    BY <1>2, <2>2 DEF BarrierControl, Sorting, T
  <2>5. BarrierControl'
    BY <1>2, <2>1, <2>2, <2>3, <2>4 DEF BarrierControl, Sorting, T
  <2>6. out = <<>>
    BY <1>1, <1>2, <2>4 DEF BarrierOut
  <2>7. BarrierOut'
    BY <1>1, <2>1, <2>6 DEF BarrierOut, L
  <2> QED
    BY <2>2, <2>5, <2>7 DEF BarrierInv, T, L
<1>6. ASSUME NEW t \in T, Barrier!Arrive(t) PROVE BarrierInv'
  <2>1. /\ tpc[t] = "sorted" /\ t \notin arrived /\ arrived' = arrived \cup {t}
        /\ UNCHANGED <<num, input, tpc, lo, hi, i, j, temp, created, out>>
    BY <1>6 DEF Barrier!Arrive, Barrier!sortVars
  <2>2. SortInv(L, T)'
    BY <1>2, <2>1, SortRest
  <2>3. t \in 0 .. SortThreads
    BY <1>1
  <2>4. BarrierControl'
    BY <1>2, <2>1, <2>3 DEF BarrierControl, T
  <2>5. BarrierOut'
    BY <1>2, <2>1, <2>3 DEF BarrierOut
  <2> QED
    BY <2>2, <2>4, <2>5 DEF BarrierInv, T, L
<1>7. CASE Barrier!MainArrives
  <2>1. /\ SortThreads \notin arrived /\ arrived' = arrived \cup {SortThreads}
        /\ UNCHANGED <<num, input, tpc, lo, hi, i, j, temp, created, out>>
    BY <1>7 DEF Barrier!MainArrives, Barrier!sortVars
  <2>2. SortInv(L, T)'
    BY <1>2, <2>1, SortRest
  <2>3. \A t \in T : t # SortThreads
    BY <1>1
  <2>4. BarrierControl'
    BY <1>1, <1>2, <2>1, <2>3 DEF BarrierControl, T
  <2>5. BarrierOut'
    BY <1>1, <1>2, <2>1 DEF BarrierOut
  <2> QED
    BY <2>2, <2>4, <2>5 DEF BarrierInv, T, L
<1>8. CASE Barrier!PrintNumber
  <2>1. /\ Barrier!IsOpen /\ Len(out) < L /\ out' = Append(out, num[Len(out)])
        /\ UNCHANGED <<num, input, tpc, lo, hi, i, j, temp, created, arrived>>
    BY <1>8 DEF Barrier!PrintNumber, Barrier!sortVars, L
  <2>2. SortInv(L, T)'
    BY <1>2, <2>1, SortRest
  <2>3. BarrierControl'
    BY <1>2, <2>1 DEF BarrierControl
  <2>4. arrived = 0 .. SortThreads
    BY <2>1, AllCome
  <2>5. num \in [Cell(L) -> Values] /\ out \in Seq(Values)
    BY <1>2 DEF SortInv, SortTypes, BarrierOut
  <2>6. Len(out) \in Cell(L) /\ num[Len(out)] \in Values
    BY <1>1, <2>1, <2>5 DEF Cell
  <2>7. /\ out' \in Seq(Values) /\ Len(out') = Len(out) + 1
        /\ \A k \in 1 .. Len(out) : out'[k] = out[k]
        /\ out'[Len(out) + 1] = num[Len(out)]
    BY <2>1, <2>5, <2>6
  <2>8. \A k \in 1 .. Len(out') : out'[k] = num'[k - 1]
    BY <1>2, <2>1, <2>5, <2>7 DEF BarrierOut
  <2>9. Len(out') <= L
    BY <1>1, <2>1, <2>5, <2>7
  <2>10. BarrierOut'
    BY <2>1, <2>4, <2>7, <2>8, <2>9 DEF BarrierOut, L
  <2> QED
    BY <2>2, <2>3, <2>10 DEF BarrierInv, T, L
<1> QED
  BY <1>3, <1>4, <1>5, <1>6, <1>7, <1>8 DEF Barrier!Next, Barrier!Main, T

(* All that is printed: the input in another order, each row in order.     *)
LEMMA RowsArePrinted == BarrierInv => Barrier!PrintsRows
<1> SUFFICES ASSUME BarrierInv, Len(out) = BarrierLength
             PROVE  Barrier!SameNumbers(out) /\ Barrier!RowsSorted
  BY DEF Barrier!PrintsRows, Barrier!Over
<1> DEFINE T == Barrier!Sorters
           L == BarrierLength
           N == SortThreads
           Q == RowLength
<1>1. /\ N \in Nat /\ N > 0 /\ L \in Nat /\ L > 0 /\ Q \in Nat /\ Q > 0 /\ Q * N = L
      /\ \A t \in T : Barrier!First(t) = Q * t /\ Barrier!LastCell(t) = Q * (t + 1) - 1
      /\ \A t : t \in T <=> t \in Nat /\ t < N
  BY RowsAre DEF Barrier!Sorters
<1>2. SortInv(L, T) /\ BarrierControl /\ BarrierOut /\ Len(out) = L
  BY DEF BarrierInv
<1>3. Q = L \div N
  BY DEF RowLength
<1> HIDE DEF T, L, N, Q
<1>4. arrived = 0 .. N
  BY <1>1, <1>2 DEF BarrierOut, N, L
<1>5. \A t \in T : tpc[t] = "sorted" /\ lo[t] = Q * t /\ hi[t] = Q * (t + 1) - 1
  <2>1. ASSUME NEW t \in T PROVE tpc[t] = "sorted"
    <3>1. t \in arrived
      BY <1>1, <1>4
    <3> QED
      BY <1>2, <3>1 DEF BarrierControl, T
  <2>2. ASSUME NEW t \in T PROVE lo[t] = Q * t /\ hi[t] = Q * (t + 1) - 1
    <3>1. tpc[t] # "unborn"
      BY <2>1
    <3>2. lo[t] = Barrier!First(t) /\ hi[t] = Barrier!LastCell(t)
      BY <1>2, <3>1 DEF BarrierControl, T
    <3> QED
      BY <1>1, <3>2
  <2> QED
    BY <2>1, <2>2
<1>6. /\ DOMAIN out = 1 .. L /\ \A k \in Cell(L) : out[k + 1] = num[k]
      /\ \A k \in 1 .. L : k - 1 \in Cell(L) /\ out[k] = num[k - 1]
  <2>1. \A k \in 1 .. L : k - 1 \in Cell(L) /\ out[k] = num[k - 1]
    BY <1>1, <1>2 DEF BarrierOut, Cell
  <2>2. \A k \in Cell(L) : k + 1 \in 1 .. L /\ (k + 1) - 1 = k
    BY <1>1 DEF Cell
  <2>3. DOMAIN out = 1 .. L
    BY <1>2 DEF BarrierOut
  <2> QED
    BY <2>1, <2>2, <2>3
<1>7. Barrier!SameNumbers(out)
  <2>1. PICK p : Permutes(L, p) /\ Rearranged(L, T, p)
    BY <1>2 DEF SortInv
  <2>2. \A k \in Cell(L) : out[k + 1] = input[p[k]]
    BY <1>5, <1>6, <2>1 DEF Rearranged
  <2>3. AsOften(L, out)
    <3>1. L \in Nat /\ Permutes(L, p) /\ DOMAIN out = 1 .. L
      BY <1>1, <1>6, <2>1
    <3> QED
      BY <2>2, <3>1, SameCounts
  <2> QED
    BY <2>3 DEF AsOften, Barrier!SameNumbers, Barrier!Cells, Cell, L, Barrier!Cardinality,
                Cardinality, Barrier!IsFiniteSet, IsFiniteSet
<1>8. Barrier!RowsSorted
  <2> SUFFICES ASSUME NEW a \in 1 .. L, NEW b \in 1 .. L, a < b,
                      (a - 1) \div Q = (b - 1) \div Q
               PROVE  out[a] <= out[b]
    BY <1>3, <1>6 DEF Barrier!RowsSorted, L, N
  <2>1. PICK t \in Int : t = (b - 1) \div Q
    BY <1>1
  <2>2. /\ Q * t <= a - 1 /\ a - 1 <= Q * (t + 1) - 1
        /\ Q * t <= b - 1 /\ b - 1 <= Q * (t + 1) - 1
    <3>1. /\ a - 1 \in Nat /\ b - 1 \in Nat
      BY <1>1
    <3>2. /\ a - 1 = Q * ((a - 1) \div Q) + ((a - 1) % Q) /\ (a - 1) % Q \in 0 .. Q - 1
          /\ b - 1 = Q * ((b - 1) \div Q) + ((b - 1) % Q) /\ (b - 1) % Q \in 0 .. Q - 1
      BY <1>1, <3>1
    <3>3. Q * (t + 1) = Q * t + Q /\ Q * t \in Int
      BY <1>1
    <3> QED
      BY <1>1, <2>1, <3>1, <3>2, <3>3
  <2>3. t \in T
    <3>1. t >= 0
      BY <1>1, <2>1
    <3>2. t < N
      <4>1. SUFFICES ASSUME t >= N PROVE FALSE
        BY <1>1
      <4>2. t \in Nat /\ N \in Nat
        BY <1>1, <3>1
      <4>3. Q * N <= Q * t /\ Q * t \in Int
        <5>1. Q * t = Q * N + Q * (t - N) /\ Q * N \in Int /\ t - N \in Nat
          BY <1>1, <4>1, <4>2
        <5>2. Q * (t - N) \in Nat
          BY <1>1, <5>1
        <5> QED
          BY <5>1, <5>2
      <4> QED
        BY <1>1, <2>2, <4>3
    <3> QED
      BY <1>1, <3>1, <3>2
  <2>4. \A k, m \in lo[t] .. hi[t] : k < m => num[k] <= num[m]
    BY <1>2, <1>5, <2>3 DEF SortInv, Ordered
  <2>5. lo[t] = Q * t /\ hi[t] = Q * (t + 1) - 1 /\ Q * t \in Int /\ Q * (t + 1) \in Int
    BY <1>1, <1>5, <2>3
  <2>6. a - 1 \in lo[t] .. hi[t] /\ b - 1 \in lo[t] .. hi[t] /\ a - 1 < b - 1
    BY <2>2, <2>5
  <2>7. num[a - 1] <= num[b - 1]
    BY <2>4, <2>6
  <2> QED
    BY <1>6, <2>7
<1> QED
  BY <1>7, <1>8

(* 6-34.c: main() prints all numbers, each segment in order, for every     *)
(* array and number of threads.                                            *)
THEOREM RowsPrinted == BarrierSpec => []Barrier!PrintsRows
BY BarrierInit, BarrierStep, RowsArePrinted, PTL DEF BarrierSpec

-----------------------------------------------------------------------------
(* projects2.c.  The first half has the cells before the middle one.       *)
MergeControl ==
    /\ main \in {"create", "join", "merge", "copied", "print"}
    /\ main \in {"create", "join"} => joined \in {0, 1} /\ merged = <<>> /\ left = 0
    /\ \A t \in {0, 1} :
           IF main # "create" \/ t < joined
           THEN /\ tpc[t] # "unborn"
                /\ lo[t] = Merge!FirstCell(t) /\ hi[t] = Merge!LastCell(t)
           ELSE tpc[t] = "unborn"
    /\ main = "join" => \A t \in {0, 1} : t < joined => tpc[t] = "sorted"
    /\ main = "merge" => \A t \in {0, 1} : tpc[t] = "sorted"
    /\ main \in {"copied", "print"} => \A t \in {0, 1} : tpc[t] = "sorted"
    /\ main # "print" => out = <<>>

(* The cells that merge() has copied.                                      *)
Taken(m) == m < left \/ (Merge!Mid <= m /\ m < right)

(* Where each number in merged has come from.                              *)
Copies(f) ==
    /\ f \in [1 .. Len(merged) -> Cell(MergeLength)]
    /\ \A k, m \in 1 .. Len(merged) : f[k] = f[m] => k = m
    /\ \A k \in 1 .. Len(merged) : merged[k] = num[f[k]]
    /\ \A m \in Cell(MergeLength) :
           Taken(m) <=> \E k \in 1 .. Len(merged) : f[k] = m

(* merged is in order, and no number that is left is smaller than one of   *)
(* it.                                                                     *)
Merging ==
    /\ left \in 0 .. Merge!Mid /\ right \in Merge!Mid .. MergeLength
    /\ merged \in Seq(Values) /\ Len(merged) + Merge!Mid = left + right
    /\ \E f : Copies(f)
    /\ \A a, b \in 1 .. Len(merged) : a < b => merged[a] <= merged[b]
    /\ \A a \in 1 .. Len(merged) : \A m \in Cell(MergeLength) :
           ~Taken(m) => merged[a] <= num[m]

(* The whole array is in order, and is the input.                          *)
AllSorted ==
    /\ num \in [Cell(MergeLength) -> Values]
    /\ \A k, m \in Cell(MergeLength) : k < m => num[k] <= num[m]
    /\ \E p : /\ Permutes(MergeLength, p)
              /\ \A k \in Cell(MergeLength) : num[k] = input[p[k]]

MergeInv ==
    /\ MergeControl
    /\ main \notin {"copied", "print"} => SortInv(MergeLength, {0, 1})
    /\ main = "merge" => Merging
    /\ main \in {"copied", "print"} => AllSorted
    /\ main = "print" => out = [k \in 1 .. MergeLength |-> num[k - 1]]

(* projects2.c by itself.                                                  *)
MergeSpec == Merge!Init /\ [][Merge!Next]_(Merge!vars)

(* The two halves.                                                         *)
LEMMA HalvesAre ==
  /\ MergeLength \in Nat /\ MergeLength > 0 /\ SortThreads = 2
  /\ Merge!Sorters = {0, 1}
  /\ Merge!Mid \in Nat /\ Merge!Mid < MergeLength
  /\ Merge!FirstCell(0) = 0 /\ Merge!LastCell(0) = Merge!Mid - 1
  /\ Merge!FirstCell(1) = Merge!Mid /\ Merge!LastCell(1) = MergeLength - 1
<1>1. MergeLength \in Nat \ {0} /\ SortThreads = 2
  BY ProgramsAssumption DEF Merge!MergeSortAssumption, Merge!SegmentSortAssumption
<1>2. Merge!Mid \in Nat /\ Merge!Mid < MergeLength
  BY <1>1 DEF Merge!Mid
<1>3. Merge!Sorters = {0, 1}
  BY <1>1 DEF Merge!Sorters
<1> QED
  BY <1>1, <1>2, <1>3 DEF Merge!FirstCell, Merge!LastCell

(* At the start of projects2.c no thread is born.                          *)
LEMMA MergeInit == Merge!Init => MergeInv
<1> SUFFICES ASSUME Merge!Init PROVE MergeInv
  OBVIOUS
<1>1. MergeLength \in Nat /\ Merge!Sorters = {0, 1}
  BY HalvesAre
<1>2. SortInv(MergeLength, {0, 1})
  BY <1>1, SortStarts DEF Merge!Init, Merge!SortInit, Merge!Cells, Cell
<1>3. MergeControl /\ main = "create"
  BY <1>1 DEF MergeControl, Merge!Init, Merge!SortInit
<1> QED
  BY <1>2, <1>3 DEF MergeInv

(* merge() copies a cell c that is the least of those that are left.       *)
LEMMA CopyStep ==
  ASSUME Merging, num \in [Cell(MergeLength) -> Values],
         NEW c \in Cell(MergeLength), ~Taken(c),
         \A m \in Cell(MergeLength) : ~Taken(m) => num[c] <= num[m],
         merged' = Append(merged, num[c]), num' = num,
         left' \in 0 .. Merge!Mid, right' \in Merge!Mid .. MergeLength,
         left' + right' = left + right + 1,
         \A m \in Cell(MergeLength) : Taken(m)' <=> Taken(m) \/ m = c
  PROVE  Merging'
<1> DEFINE n == Len(merged)
<1>1. /\ left \in Int /\ right \in Int /\ left' \in Int /\ right' \in Int
      /\ Merge!Mid \in Nat
      /\ merged \in Seq(Values) /\ n \in Nat /\ n + Merge!Mid = left + right
  BY HalvesAre DEF Merging
<1>2. num[c] \in Values /\ num[c] \in Int
  BY ValuesAreInts
<1>3. /\ merged' \in Seq(Values) /\ Len(merged') = n + 1
      /\ \A k \in 1 .. n : merged'[k] = merged[k]
      /\ merged'[n + 1] = num[c]
  BY <1>1, <1>2
<1>4. Len(merged') + Merge!Mid = left' + right'
  <2>1. n + Merge!Mid + 1 = left' + right'
    BY <1>1
  <2> QED
    BY <1>1, <1>3, <2>1
<1>5. PICK f : Copies(f)
  BY DEF Merging
<1>6. /\ f \in [1 .. n -> Cell(MergeLength)]
      /\ \A k, m \in 1 .. n : f[k] = f[m] => k = m
      /\ \A k \in 1 .. n : merged[k] = num[f[k]] /\ Taken(f[k])
      /\ \A m \in Cell(MergeLength) : Taken(m) => \E k \in 1 .. n : f[k] = m
  BY <1>5 DEF Copies
<1>7. /\ \A a, b \in 1 .. n : a < b => merged[a] <= merged[b]
      /\ \A a \in 1 .. n : \A m \in Cell(MergeLength) : ~Taken(m) => merged[a] <= num[m]
  BY DEF Merging
<1> HIDE DEF n
<1>8. \A k \in 1 .. n + 1 : k \in 1 .. n \/ k = n + 1
  BY <1>1
<1> PICK g : g = [k \in 1 .. n + 1 |-> IF k = n + 1 THEN c ELSE f[k]]
  OBVIOUS
<1>9. /\ g \in [1 .. n + 1 -> Cell(MergeLength)] /\ g[n + 1] = c
      /\ \A k \in 1 .. n : g[k] = f[k]
  BY <1>1, <1>6, <1>8
<1>10. Copies(g)'
  <2>1. \A k, m \in 1 .. n + 1 : g[k] = g[m] => k = m
    BY <1>6, <1>8, <1>9
  <2>2. \A k \in 1 .. n + 1 : merged'[k] = num'[g[k]]
    BY <1>3, <1>6, <1>8, <1>9
  <2>3. ASSUME NEW m \in Cell(MergeLength), Taken(m)'
        PROVE  \E k \in 1 .. n + 1 : g[k] = m
    <3>1. CASE m = c
      BY <1>1, <1>9, <3>1
    <3>2. CASE m # c
      <4>1. PICK k \in 1 .. n : f[k] = m
        BY <1>6, <2>3, <3>2
      <4> QED
        BY <1>1, <1>9, <4>1
    <3> QED
      BY <3>1, <3>2
  <2>4. ASSUME NEW m \in Cell(MergeLength), NEW k \in 1 .. n + 1, g[k] = m
        PROVE  Taken(m)'
    BY <1>6, <1>8, <1>9, <2>4
  <2>5. \A m \in Cell(MergeLength) : Taken(m)' <=> \E k \in 1 .. n + 1 : g[k] = m
    BY <2>3, <2>4
  <2> QED
    BY <1>3, <1>9, <2>1, <2>2, <2>5 DEF Copies
<1>11. ASSUME NEW a \in 1 .. n + 1, NEW b \in 1 .. n + 1, a < b
       PROVE  merged'[a] <= merged'[b]
  <2>1. a \in 1 .. n
    BY <1>1, <1>11
  <2> QED
    BY <1>3, <1>7, <1>8, <1>11, <2>1
<1>12. ASSUME NEW a \in 1 .. n + 1, NEW m \in Cell(MergeLength), ~Taken(m)'
       PROVE  merged'[a] <= num'[m]
  BY <1>3, <1>7, <1>8, <1>12
<1> QED
  BY <1>3, <1>4, <1>10, <1>11, <1>12 DEF Merging, Merge!Mid

(* The number merge() copies is the least of those that are left.          *)
LEMMA LeastIsCopied ==
  ASSUME MergeInv, Merge!MergeLeft \/ Merge!MergeRight
  PROVE  Merging' /\ SortInv(MergeLength, {0, 1})'
<1> DEFINE L == MergeLength
           H == Merge!Mid
<1>1. /\ main = "merge" /\ Merging /\ SortInv(L, {0, 1}) /\ MergeControl
      /\ num \in [Cell(L) -> Values]
  BY DEF MergeInv, Merge!MergeLeft, Merge!MergeRight, SortInv, SortTypes
<1>2. /\ L \in Nat /\ H \in Nat /\ H < L /\ H' = H
  BY HalvesAre DEF Merge!Mid
<1>3. /\ left \in Nat /\ left <= H /\ right \in Nat /\ H <= right /\ right <= L
  BY <1>1, <1>2 DEF Merging
<1>4. /\ \A k, m \in 0 .. H - 1 : k < m => num[k] <= num[m]
      /\ \A k, m \in H .. L - 1 : k < m => num[k] <= num[m]
  <2>1. \A t \in {0, 1} : /\ tpc[t] = "sorted" /\ Ordered(t)
                         /\ lo[t] = Merge!FirstCell(t) /\ hi[t] = Merge!LastCell(t)
    BY <1>1 DEF MergeControl, SortInv
  <2>2. lo[0] = 0 /\ hi[0] = H - 1 /\ lo[1] = H /\ hi[1] = L - 1
    BY <2>1, HalvesAre
  <2>3. \A k, m \in lo[0] .. hi[0] : k < m => num[k] <= num[m]
    BY <2>1 DEF Ordered
  <2>4. \A k, m \in lo[1] .. hi[1] : k < m => num[k] <= num[m]
    BY <2>1 DEF Ordered
  <2> QED
    BY <2>2, <2>3, <2>4
<1>5. \A k \in 0 .. L - 1 : num[k] \in Int
  BY <1>1, ValuesAreInts DEF Cell
<1>6. UNCHANGED <<num, input, tpc, lo, hi, i, j, temp>>
  BY DEF Merge!MergeLeft, Merge!MergeRight, Merge!sortVars
<1>7. SortInv(L, {0, 1})'
  BY <1>1, <1>6, SortRest
<1> HIDE DEF L, H
<1>8. \A m : Taken(m) <=> m < left \/ (H <= m /\ m < right)
  BY DEF Taken, H
<1>9. \A m : Taken(m)' <=> m < left' \/ (H <= m /\ m < right')
  BY <1>2 DEF Taken, H
<1>10. CASE Merge!MergeLeft
  <2>1. /\ left < H /\ (right < L => num[left] <= num[right])
        /\ merged' = Append(merged, num[left]) /\ left' = left + 1 /\ right' = right
    BY <1>10 DEF Merge!MergeLeft, H, L
  <2>2. left \in Cell(L) /\ ~Taken(left)
    BY <1>2, <1>3, <1>8, <2>1 DEF Cell
  <2>3. ASSUME NEW m \in Cell(L), ~Taken(m) PROVE num[left] <= num[m]
    <3>1. m \in 0 .. L - 1 /\ (m < H => left <= m) /\ (m >= H => right <= m)
      BY <1>2, <1>3, <1>8, <2>3 DEF Cell
    <3>2. CASE m < H
      BY <1>2, <1>3, <1>4, <1>5, <2>1, <3>1, <3>2
    <3>3. CASE m >= H
      <4>1. right < L /\ right \in H .. L - 1 /\ m \in H .. L - 1
        BY <1>2, <1>3, <3>1, <3>3
      <4>2. num[left] <= num[right] /\ (m # right => num[right] <= num[m])
        BY <1>4, <2>1, <3>1, <3>3, <4>1
      <4>3. num[left] \in Int /\ num[right] \in Int /\ num[m] \in Int
        BY <1>2, <1>3, <1>5, <2>1, <3>1, <4>1
      <4> QED
        BY <4>2, <4>3
    <3> QED
      BY <1>2, <3>1, <3>2, <3>3
  <2>4. \A m \in Cell(L) : Taken(m)' <=> Taken(m) \/ m = left
    BY <1>2, <1>3, <1>8, <1>9, <2>1 DEF Cell
  <2>5. /\ left' \in 0 .. H /\ right' \in H .. L /\ left' + right' = left + right + 1
    BY <1>2, <1>3, <2>1
  <2>6. \A m \in Cell(L) : ~Taken(m) => num[left] <= num[m]
    BY <2>3
  <2>7. Merging'
    BY <1>1, <1>6, <2>1, <2>2, <2>4, <2>5, <2>6, CopyStep DEF L, H
  <2> QED
    BY <1>7, <2>7 DEF L
<1>11. CASE Merge!MergeRight
  <2>1. /\ right < L /\ (left < H => num[left] > num[right])
        /\ merged' = Append(merged, num[right]) /\ right' = right + 1 /\ left' = left
    BY <1>11 DEF Merge!MergeRight, H, L
  <2>2. right \in Cell(L) /\ ~Taken(right)
    BY <1>2, <1>3, <1>8, <2>1 DEF Cell
  <2>3. ASSUME NEW m \in Cell(L), ~Taken(m) PROVE num[right] <= num[m]
    <3>1. m \in 0 .. L - 1 /\ (m < H => left <= m) /\ (m >= H => right <= m)
      BY <1>2, <1>3, <1>8, <2>3 DEF Cell
    <3>2. CASE m >= H
      BY <1>2, <1>3, <1>4, <1>5, <2>1, <3>1, <3>2
    <3>3. CASE m < H
      <4>1. left < H /\ left \in 0 .. H - 1 /\ m \in 0 .. H - 1
        BY <1>2, <1>3, <3>1, <3>3
      <4>2. num[left] > num[right] /\ (m # left => num[left] <= num[m])
        BY <1>4, <2>1, <3>1, <3>3, <4>1
      <4>3. num[left] \in Int /\ num[right] \in Int /\ num[m] \in Int
        BY <1>2, <1>3, <1>5, <2>1, <3>1, <4>1
      <4> QED
        BY <4>2, <4>3
    <3> QED
      BY <1>2, <3>1, <3>2, <3>3
  <2>4. \A m \in Cell(L) : Taken(m)' <=> Taken(m) \/ m = right
    BY <1>2, <1>3, <1>8, <1>9, <2>1 DEF Cell
  <2>5. /\ left' \in 0 .. H /\ right' \in H .. L /\ left' + right' = left + right + 1
    BY <1>2, <1>3, <2>1
  <2>6. \A m \in Cell(L) : ~Taken(m) => num[right] <= num[m]
    BY <2>3
  <2>7. Merging'
    BY <1>1, <1>6, <2>1, <2>2, <2>4, <2>5, <2>6, CopyStep DEF L, H
  <2> QED
    BY <1>7, <2>7 DEF L
<1> QED
  BY <1>10, <1>11

(* When merge() has copied all, the whole array is in order.               *)
LEMMA BackInOrder ==
  ASSUME MergeInv, Merge!CopyBack PROVE AllSorted'
<1> DEFINE L == MergeLength
<1>1. /\ L \in Nat /\ Merge!Mid \in Nat /\ Merge!Mid < L
  BY HalvesAre
<1>2. /\ main = "merge" /\ Merging /\ SortInv(L, {0, 1}) /\ MergeControl
      /\ left >= Merge!Mid /\ right >= L
      /\ num' \in [Cell(L) -> Values] /\ \A k \in DOMAIN merged : num'[k - 1] = merged[k]
      /\ input' = input
  BY DEF MergeInv, Merge!CopyBack, Merge!MergeEnds, Merge!Cells, Cell
<1>3. /\ left = Merge!Mid /\ right = L /\ Len(merged) = L /\ merged \in Seq(Values)
  BY <1>1, <1>2 DEF Merging
<1>4. PICK f : Copies(f)
  BY <1>2 DEF Merging
<1>5. \A m \in Cell(L) : Taken(m)
  BY <1>1, <1>3 DEF Taken, Cell
<1>6. /\ f \in [1 .. L -> Cell(L)]
      /\ \A k, m \in 1 .. L : f[k] = f[m] => k = m
      /\ \A k \in 1 .. L : merged[k] = num[f[k]]
      /\ \A m \in Cell(L) : \E k \in 1 .. L : f[k] = m
  BY <1>3, <1>4, <1>5 DEF Copies
<1>7. PICK p : Permutes(L, p) /\ Rearranged(L, {0, 1}, p)
  BY <1>2 DEF SortInv
<1>8. /\ p \in [Cell(L) -> Cell(L)]
      /\ \A k, m \in Cell(L) : p[k] = p[m] => k = m
      /\ \A m \in Cell(L) : \E k \in Cell(L) : p[k] = m
      /\ \A k \in Cell(L) : num[k] = input[p[k]]
  BY <1>2, <1>7 DEF Permutes, Rearranged, MergeControl
<1> HIDE DEF L
<1>9. /\ \A k \in Cell(L) : k + 1 \in 1 .. L /\ (k + 1) - 1 = k /\ k \in Int
      /\ \A k \in 1 .. L : k - 1 \in Cell(L) /\ (k - 1) + 1 = k
  BY <1>1 DEF Cell
<1>10. \A k \in Cell(L) : num'[k] = merged[k + 1]
  BY <1>2, <1>3, <1>9
<1> DEFINE q == [k \in Cell(L) |-> p[f[k + 1]]]
<1>11. /\ q \in [Cell(L) -> Cell(L)] /\ \A k \in Cell(L) : q[k] = p[f[k + 1]]
  BY <1>6, <1>8, <1>9
<1> HIDE DEF q
<1>12. \A k, m \in Cell(L) : q[k] = q[m] => k = m
  <2> SUFFICES ASSUME NEW k \in Cell(L), NEW m \in Cell(L), q[k] = q[m] PROVE k = m
    OBVIOUS
  <2>1. f[k + 1] = f[m + 1]
    BY <1>6, <1>8, <1>9, <1>11
  <2>2. k + 1 = m + 1
    BY <1>6, <1>9, <2>1
  <2> QED
    BY <1>9, <2>2
<1>13. ASSUME NEW m \in Cell(L) PROVE \E k \in Cell(L) : q[k] = m
  <2>1. PICK x \in Cell(L) : p[x] = m
    BY <1>8
  <2>2. PICK y \in 1 .. L : f[y] = x
    BY <1>6
  <2>3. y - 1 \in Cell(L) /\ (y - 1) + 1 = y
    BY <1>9
  <2>4. q[y - 1] = m
    BY <1>11, <2>1, <2>2, <2>3
  <2> QED
    BY <2>3, <2>4
<1>14. Permutes(L, q)
  BY <1>11, <1>12, <1>13 DEF Permutes
<1>15. \A k \in Cell(L) : num'[k] = input'[q[k]]
  <2> SUFFICES ASSUME NEW k \in Cell(L) PROVE num'[k] = input'[q[k]]
    OBVIOUS
  <2>1. k + 1 \in 1 .. L /\ f[k + 1] \in Cell(L)
    BY <1>6, <1>9
  <2>2. num'[k] = num[f[k + 1]]
    BY <1>6, <1>10, <2>1
  <2>3. num[f[k + 1]] = input[p[f[k + 1]]]
    BY <1>8, <2>1
  <2> QED
    BY <1>2, <1>11, <2>2, <2>3
<1>16. ASSUME NEW k \in Cell(L), NEW m \in Cell(L), k < m PROVE num'[k] <= num'[m]
  <2>1. k + 1 < m + 1
    BY <1>9, <1>16
  <2>2. merged[k + 1] <= merged[m + 1]
    BY <1>2, <1>3, <1>9, <2>1 DEF Merging
  <2> QED
    BY <1>10, <2>2
<1>17. \E r : Permutes(L, r) /\ \A k \in Cell(L) : num'[k] = input'[r[k]]
  BY <1>14, <1>15
<1> QED
  BY <1>2, <1>16, <1>17 DEF AllSorted, L

(* Both programs create a sorter in the same way.                          *)
LEMMA SameStart ==
  \A t, first, last : Merge!Start(t, first, last) <=> Barrier!Start(t, first, last)
BY DEF Merge!Start, Barrier!Start

(* main() creates a sorter.                                                *)
LEMMA HalfStarts == ASSUME MergeInv, Merge!Create PROVE MergeInv'
<1> DEFINE L == MergeLength
           T == {0, 1}
<1>1. /\ L \in Nat /\ L > 0 /\ SortThreads = 2
      /\ Merge!Mid \in Nat /\ Merge!Mid < L
      /\ Merge!FirstCell(0) = 0 /\ Merge!LastCell(0) = Merge!Mid - 1
      /\ Merge!FirstCell(1) = Merge!Mid /\ Merge!LastCell(1) = L - 1
  BY HalvesAre
<1>2. /\ main = "create" /\ joined \in T /\ merged = <<>> /\ left = 0
      /\ SortInv(L, T) /\ MergeControl
      /\ UNCHANGED <<left, right, merged, out>>
  BY DEF MergeInv, MergeControl, Merge!Create
<1> SUFFICES ASSUME NEW t \in T, t = joined,
                    NEW first, first = Merge!FirstCell(joined),
                    NEW last, last = Merge!LastCell(joined)
             PROVE  MergeInv'
  BY <1>2
<1>3. /\ Barrier!Start(t, first, last)
      /\ joined' = (t + 1) % 2 /\ main' = IF t + 1 < 2 THEN "create" ELSE "join"
  BY <1>1, SameStart DEF Merge!Create
<1>4. /\ (t = 0 => joined' = 1 /\ main' = "create")
      /\ (t = 1 => joined' = 0 /\ main' = "join")
  BY <1>3
<1>5. first \in Int /\ last \in Int /\ first >= 0 /\ last < L
  BY <1>1
<1>6. \A u \in T : u # t /\ tpc[u] # "unborn" => last < lo[u] \/ hi[u] < first
  BY <1>1, <1>2 DEF MergeControl
<1>7. /\ SortInv(L, T)' /\ UNCHANGED <<num, input>>
      /\ tpc[t] = "unborn" /\ tpc'[t] # "unborn" /\ lo'[t] = first /\ hi'[t] = last
      /\ \A u \in T \ {t} : tpc'[u] = tpc[u] /\ lo'[u] = lo[u] /\ hi'[u] = hi[u]
  <2>1. L \in Nat /\ SortInv(L, T)
    BY <1>1, <1>2
  <2> HIDE DEF L, T
  <2> QED
    BY <1>3, <1>5, <1>6, <2>1, StartStep
<1>8. MergeControl'
  <2>1. \A u \in T : IF main' # "create" \/ u < joined'
                     THEN /\ tpc'[u] # "unborn"
                          /\ lo'[u] = Merge!FirstCell(u) /\ hi'[u] = Merge!LastCell(u)
                     ELSE tpc'[u] = "unborn"
    BY <1>2, <1>4, <1>7 DEF MergeControl
  <2>2. main' \in {"create", "join"} /\ joined' \in T /\ (main' = "join" => joined' = 0)
    BY <1>4
  <2>3. merged' = <<>> /\ left' = 0 /\ out' = <<>>
    BY <1>2 DEF MergeControl
  <2>4. \A u \in T : main' = "join" => ~(u < joined')
    BY <2>2
  <2> QED
    BY <2>1, <2>2, <2>3, <2>4 DEF MergeControl
<1>9. main' \in {"create", "join"}
  BY <1>4
<1> QED
  BY <1>7, <1>8, <1>9 DEF MergeInv

(* A sorter goes on.                                                       *)
LEMMA HalfGoesOn ==
  ASSUME MergeInv, NEW t \in {0, 1}, Merge!Sort(t) PROVE MergeInv'
<1> DEFINE L == MergeLength
           T == {0, 1}
<1>1. Barrier!Sorts(t) /\ UNCHANGED <<main, joined, left, right, merged, out>>
  BY SameSteps DEF Merge!Sort
<1>2. tpc[t] \in {"compare", "store"}
  BY <1>1 DEF Barrier!Sorts, Barrier!InOrder, Barrier!Exchange, Barrier!Exchanged
<1>3. /\ main \in {"create", "join"} /\ MergeControl /\ SortInv(L, T)
  BY <1>2 DEF MergeInv, MergeControl
<1>4. L \in Nat /\ t \in T
  BY HalvesAre
<1> HIDE DEF L, T
<1>5. SortInv(L, T)' /\ UNCHANGED <<input, lo, hi>>
  BY <1>1, <1>3, <1>4, SorterStep
<1>6. /\ tpc \in [T -> {"unborn", "compare", "store", "sorted"}]
      /\ tpc' = [tpc EXCEPT ![t] = tpc'[t]] /\ tpc'[t] # "unborn"
  BY <1>1, <1>3, <1>4 DEF SortInv, SortTypes, Barrier!Sorts, Barrier!InOrder,
     Barrier!Exchange, Barrier!Exchanged, Barrier!Advance
<1>7. \A u \in T : /\ (tpc'[u] = "unborn" <=> tpc[u] = "unborn")
                   /\ (tpc[u] = "sorted" => tpc'[u] = "sorted")
  BY <1>2, <1>4, <1>6
<1>8. MergeControl'
  BY <1>1, <1>3, <1>5, <1>7 DEF MergeControl, T
<1> QED
  BY <1>1, <1>3, <1>5, <1>8 DEF MergeInv, L, T

(* Every step of projects2.c keeps the invariant.                          *)
LEMMA MergeStep == MergeInv /\ [Merge!Next]_(Merge!vars) => MergeInv'
<1> SUFFICES ASSUME MergeInv, [Merge!Next]_(Merge!vars) PROVE MergeInv'
  OBVIOUS
<1>1. /\ MergeLength \in Nat /\ MergeLength > 0 /\ SortThreads = 2
      /\ Merge!Mid \in Nat /\ Merge!Mid < MergeLength /\ Merge!Sorters = {0, 1}
  BY HalvesAre
<1>2. MergeControl
  BY DEF MergeInv
<1>3. CASE UNCHANGED Merge!vars
  <2>1. /\ UNCHANGED <<num, input, tpc, lo, hi, i, j, temp>>
        /\ UNCHANGED <<main, joined, left, right, merged, out>>
    BY <1>3 DEF Merge!vars, Merge!sortVars
  <2>2. MergeControl'
    BY <1>2, <2>1 DEF MergeControl
  <2>3. main' \notin {"copied", "print"} => SortInv(MergeLength, {0, 1})'
    BY <2>1, SortRest DEF MergeInv
  <2>4. main' = "merge" => Merging'
    BY <2>1 DEF MergeInv, Merging, Copies, Taken
  <2>5. /\ main' \in {"copied", "print"} => AllSorted'
        /\ main' = "print" => out' = [k \in 1 .. MergeLength |-> num'[k - 1]]
    BY <2>1 DEF MergeInv, AllSorted
  <2> QED
    BY <2>2, <2>3, <2>4, <2>5 DEF MergeInv
<1>4. CASE Merge!Join
  <2>1. /\ main = "join" /\ joined \in {0, 1} /\ tpc[joined] = "sorted"
        /\ joined' = joined + 1 /\ main' = IF joined + 1 < 2 THEN "join" ELSE "merge"
        /\ right' = Merge!Mid /\ merged = <<>> /\ left = 0
        /\ UNCHANGED <<num, input, tpc, lo, hi, i, j, temp, left, merged, out>>
    BY <1>1, <1>2, <1>4 DEF Merge!Join, Merge!Joins, Merge!sortVars, MergeControl
  <2>2. SortInv(MergeLength, {0, 1})'
    BY <2>1, SortRest DEF MergeInv
  <2>3. /\ (joined = 0 => joined' = 1 /\ main' = "join")
        /\ (joined = 1 => joined' = 2 /\ main' = "merge")
    BY <2>1
  <2>4. MergeControl'
    BY <1>2, <2>1, <2>3 DEF MergeControl
  <2>5. main' = "merge" => Merging'
    <3>1. left' = 0 /\ right' = Merge!Mid /\ merged' = <<>> /\ Len(merged') = 0
      BY <2>1
    <3>2. \A m \in Cell(MergeLength) : ~Taken(m)'
      BY <1>1, <3>1 DEF Taken, Cell, Merge!Mid
    <3>3. Copies(<<>>)'
      BY <3>1, <3>2 DEF Copies
    <3>4. \E f : Copies(f)'
      BY <3>3
    <3> QED
      BY <1>1, <3>1, <3>4 DEF Merging, Merge!Mid
  <2> QED
    BY <2>1, <2>2, <2>3, <2>4, <2>5 DEF MergeInv
<1>5. CASE Merge!MergeLeft \/ Merge!MergeRight
  <2>1. /\ main = "merge" /\ UNCHANGED <<main, joined, out>>
        /\ UNCHANGED <<num, input, tpc, lo, hi, i, j, temp>>
    BY <1>5 DEF Merge!MergeLeft, Merge!MergeRight, Merge!sortVars
  <2>2. Merging' /\ SortInv(MergeLength, {0, 1})'
    BY <1>5, LeastIsCopied
  <2>3. MergeControl'
    BY <1>2, <2>1 DEF MergeControl
  <2> QED
    BY <2>1, <2>2, <2>3 DEF MergeInv
<1>6. CASE Merge!CopyBack
  <2>1. /\ main = "merge" /\ main' = "copied"
        /\ UNCHANGED <<tpc, lo, hi, joined, out>>
    BY <1>6 DEF Merge!CopyBack
  <2>2. AllSorted'
    BY <1>6, BackInOrder
  <2>3. MergeControl'
    BY <1>2, <2>1 DEF MergeControl
  <2> QED
    BY <2>1, <2>2, <2>3 DEF MergeInv
<1>7. CASE Merge!PrintArray
  <2>1. /\ main = "copied" /\ main' = "print"
        /\ out' = [k \in 1 .. MergeLength |-> num[k - 1]]
        /\ UNCHANGED <<num, input, tpc, lo, hi, i, j, temp, joined>>
    BY <1>7 DEF Merge!PrintArray, Merge!sortVars
  <2>2. AllSorted'
    BY <2>1 DEF MergeInv, AllSorted
  <2>3. MergeControl'
    BY <1>2, <2>1 DEF MergeControl
  <2> QED
    BY <2>1, <2>2, <2>3 DEF MergeInv
<1> QED
  BY <1>1, <1>3, <1>4, <1>5, <1>6, <1>7, HalfStarts, HalfGoesOn DEF Merge!Next, Merge!Main

(* The whole input is printed, in order.                                   *)
LEMMA ArrayIsPrinted == MergeInv => Merge!PrintsSorted
<1> SUFFICES ASSUME MergeInv, Len(out) = MergeLength
             PROVE  /\ Merge!SameNumbers(out)
                    /\ \A k \in 2 .. MergeLength : out[k - 1] <= out[k]
  BY DEF Merge!PrintsSorted, Merge!Over
<1>1. MergeLength \in Nat /\ MergeLength > 0
  BY HalvesAre
<1>2. main = "print"
  <2>1. out # <<>>
    BY <1>1
  <2> QED
    BY <2>1 DEF MergeInv, MergeControl
<1>3. /\ out = [k \in 1 .. MergeLength |-> num[k - 1]] /\ DOMAIN out = 1 .. MergeLength
      /\ \A k, m \in Cell(MergeLength) : k < m => num[k] <= num[m]
  BY <1>2 DEF MergeInv, AllSorted
<1>4. PICK p : /\ Permutes(MergeLength, p)
               /\ \A k \in Cell(MergeLength) : num[k] = input[p[k]]
  BY <1>2 DEF MergeInv, AllSorted
<1>5. \A k \in Cell(MergeLength) : out[k + 1] = input[p[k]]
  <2> SUFFICES ASSUME NEW k \in Cell(MergeLength) PROVE out[k + 1] = input[p[k]]
    OBVIOUS
  <2>1. k + 1 \in 1 .. MergeLength /\ (k + 1) - 1 = k
    BY <1>1 DEF Cell
  <2>2. out[k + 1] = num[k]
    BY <1>3, <2>1
  <2> QED
    BY <1>4, <2>2
<1>6. AsOften(MergeLength, out)
  <2>1. /\ MergeLength \in Nat /\ Permutes(MergeLength, p)
        /\ DOMAIN out = 1 .. MergeLength
    BY <1>1, <1>3, <1>4
  <2> QED
    BY <1>5, <2>1, SameCounts
<1>7. Merge!SameNumbers(out)
  BY <1>6 DEF AsOften, Merge!SameNumbers, Merge!Cells, Cell, Merge!Cardinality,
              Cardinality, Merge!IsFiniteSet, IsFiniteSet
<1>8. ASSUME NEW k \in 2 .. MergeLength PROVE out[k - 1] <= out[k]
  <2>1. /\ k - 1 \in Cell(MergeLength) /\ (k - 1) - 1 \in Cell(MergeLength)
        /\ (k - 1) - 1 < k - 1
        /\ k \in 1 .. MergeLength /\ k - 1 \in 1 .. MergeLength
    BY <1>1 DEF Cell
  <2> QED
    BY <1>3, <2>1
<1> QED
  BY <1>7, <1>8

(* projects2.c: main() prints the numbers in order, for every array.       *)
THEOREM ArrayPrinted == MergeSpec => []Merge!PrintsSorted
BY MergeInit, MergeStep, ArrayIsPrinted, PTL DEF MergeSpec

-----------------------------------------------------------------------------
(* 6-31.c, 6-33.c, 4-17.c.                                                  *)
(* An addition to what has wrapped is an addition to what has not.         *)
LEMMA WrappedAdds ==
  ASSUME NEW x \in Int, NEW a \in Int
  PROVE  /\ Sums!Wrapped(x) \in Sums!Ints /\ Sums!Wrapped(x) \in Int
         /\ Sums!Wrapped(Sums!Wrapped(x) + a) = Sums!Wrapped(x + a)
<1> DEFINE h == MaxInt + 1
           m == 2 * h
           y == x + h
<1>1. MaxInt \in Nat /\ h \in Nat /\ m \in Nat /\ m > 0 /\ y \in Int
  BY ProgramsAssumption DEF Sums!SharedCountAssumption
<1>2. /\ y = m * (y \div m) + (y % m) /\ y % m \in Int /\ y \div m \in Int
      /\ y % m \in 0 .. m - 1
  <2> HIDE DEF m, y
  <2> QED
    BY <1>1, QuotientOf
<1>11. (y % m) - h \in Sums!Ints
  <2> DEFINE r == y % m
  <2> HIDE DEF r
  <2>1. r \in 0 .. m - 1 => r - h \in Sums!Ints
    BY <1>1 DEF Sums!Ints
  <2> QED
    BY <1>2, <2>1 DEF r
<1>3. Sums!Wrapped(x) = (y % m) - h
  BY DEF Sums!Wrapped
<1>4. Sums!Wrapped(Sums!Wrapped(x) + a) = (((((y % m) - h) + a) + h) % m) - h
  BY <1>3 DEF Sums!Wrapped
<1>5. Sums!Wrapped(x + a) = (((x + a) + h) % m) - h
  BY DEF Sums!Wrapped
<1> HIDE DEF h, m
<1>6. y = x + h
  OBVIOUS
<1> HIDE DEF y
<1>7. m * (y \div m) \in Int
  BY <1>1, <1>2
<1>8. (x + a) + h = ((y % m) + a) + m * (y \div m)
  BY <1>1, <1>2, <1>6, <1>7
<1>9. (((y % m) + a) + m * (y \div m)) % m = ((y % m) + a) % m
  <2>1. (y % m) + a \in Int
    BY <1>2
  <2> QED
    BY <1>1, <1>2, <2>1, SameRemainder
<1>10. (((y % m) - h) + a) + h = (y % m) + a
  BY <1>1, <1>2
<1> QED
  BY <1>1, <1>2, <1>3, <1>4, <1>5, <1>8, <1>9, <1>10, <1>11

(* Nothing happens to a number that an int holds.                           *)
LEMMA WrappedSame ==
  ASSUME NEW x \in Int, -MaxInt - 1 <= x, x <= MaxInt
  PROVE  Sums!Wrapped(x) = x
<1> DEFINE m == 2 * (MaxInt + 1)
           z == x + (MaxInt + 1)
<1>1. MaxInt \in Nat /\ m \in Nat /\ m > 0 /\ z \in 0 .. m - 1
  BY ProgramsAssumption DEF Sums!SharedCountAssumption
<1>2. Sums!Wrapped(x) = (z % m) - (MaxInt + 1)
  BY DEF Sums!Wrapped
<1>3. z % m = z
  <2> HIDE DEF m, z
  <2>1. /\ z \div m \in Int /\ z % m \in 0 .. m - 1
        /\ z = m * (z \div m) + (z % m)
    BY <1>1, QuotientOf
  <2>2. z \div m = 0
    <3>1. z - (z % m) = m * (z \div m)
      BY <1>1, <2>1
    <3> QED
      BY <1>1, <2>1, <3>1, OnlyZero
  <2> QED
    BY <1>1, <2>1, <2>2
<1> HIDE DEF m
<1> QED
  BY <1>1, <1>2, <1>3

(* What a thread brings or takes with its next amount.                     *)
LEMMA UpToNext ==
  ASSUME NEW k \in Nat
  PROVE  Sums!UpTo(k) \in Int /\ Sums!UpTo(k + 1) = Sums!UpTo(k) + (k + 1)
<1> DEFINE y == k * (k + 1)
<1>1. y \in Int /\ (k + 1) * ((k + 1) + 1) = y + 2 * (k + 1)
  OBVIOUS
<1>2. Sums!UpTo(k) = y \div 2 /\ Sums!UpTo(k + 1) = (y + 2 * (k + 1)) \div 2
  BY <1>1 DEF Sums!UpTo
<1> HIDE DEF y
<1> QED
  BY <1>1, <1>2

SumTypes ==
    /\ counter \in Sums!Counters
    /\ resource \in Int /\ lock \in {0, 1} /\ has \subseteq Sums!Threads
    /\ turn \in [Sums!Threads -> 1 .. Rounds + 1]
    /\ read \in [Sums!Threads -> Int]
    /\ ret \in [Sums!Threads -> Nat] /\ hits \in Nat
    /\ joins \in 0 .. Sums!Created /\ sum \in Int

(* One thread has the lock, and what it has read is still there.           *)
OneHasLock ==
    /\ lock = 1 => has = {}
    /\ \A t, u \in has : t = u
    /\ \A t \in has : counter # "4-17" /\ Sums!Running(t) /\ read[t] = resource

(* What main() has added up in 4-17.c.                                     *)
JoinedRet == [t \in Sums!Threads |-> IF t <= joins THEN ret[t] ELSE 0]

(* The variable of each program at each point.                             *)
SumsRight ==
    /\ counter = "6-31" => resource = Sums!Wrapped(Sums!Balance)
    /\ counter = "6-33" =>
           resource = Sums!Wrapped(IF has = {} THEN hits ELSE hits - 1)
    /\ counter = "4-17" =>
           /\ hits = SumOf(ret) /\ sum = Sums!Wrapped(SumOf(JoinedRet))
           /\ \A t \in Sums!Threads : t > Counting => ret[t] = 0
           /\ \A t \in Sums!Threads : t <= joins => ~Sums!Running(t)

SumsInv == SumTypes /\ OneHasLock /\ SumsRight

SumsSpec == Sums!Inputs /\ Sums!Start /\ [][Sums!Next]_(Sums!vars)

(* The threads are numbered, and there are at least four.                  *)
LEMMA SumsNumbers ==
  /\ Rounds \in Nat /\ Counting \in Nat /\ AtStart \in Int /\ MaxInt \in Nat
  /\ AtStart >= 0 /\ AtStart <= MaxInt
  /\ IsFiniteSet(Sums!Threads)
  /\ \A t \in Sums!Threads : t \in Nat /\ t >= 1
  /\ \A t \in 1 .. 4 : t \in Sums!Threads
  /\ \A t \in 1 .. Sums!Created : t \in Sums!Threads
  /\ Sums!Created \in Nat
<1>1. /\ Rounds \in Nat /\ Counting \in Nat /\ AtStart \in Int /\ MaxInt \in Nat
      /\ AtStart >= 0 /\ AtStart <= MaxInt
  BY ProgramsAssumption DEF Sums!SharedCountAssumption
<1>2. IsFiniteSet(Sums!Threads)
  BY <1>1, FS_Interval DEF Sums!Threads
<1> QED
  BY <1>1, <1>2 DEF Sums!Threads, Sums!Created

(* At the start no turn has been taken and no thread has the lock.         *)
LEMMA SumsInit == Sums!Inputs /\ Sums!Start => SumsInv
<1> SUFFICES ASSUME Sums!Inputs, Sums!Start PROVE SumsInv
  OBVIOUS
<1>1. SumTypes
  BY SumsNumbers DEF SumTypes, Sums!Inputs, Sums!Start
<1>2. OneHasLock
  BY DEF OneHasLock, Sums!Start
<1>3. counter = "6-31" => resource = Sums!Wrapped(Sums!Balance)
  <2> SUFFICES ASSUME counter = "6-31" PROVE AtStart = Sums!Wrapped(Sums!Balance)
    BY DEF Sums!Start
  <2>1. /\ \A t \in 1 .. 4 : turn[t] = 1
        /\ Sums!UpTo(0) = 0 /\ Sums!UpTo(Rounds) \in Int
    BY SumsNumbers, UpToNext DEF Sums!Start, Sums!UpTo
  <2>2. Sums!Balance = AtStart
    BY <2>1, SumsNumbers DEF Sums!Balance, Sums!Brought, Sums!Taken
  <2>3. Sums!Wrapped(AtStart) = AtStart
    BY SumsNumbers, WrappedSame
  <2> QED
    BY <2>2, <2>3
<1>4. counter = "6-33" => resource = Sums!Wrapped(IF has = {} THEN hits ELSE hits - 1)
  <2>1. Sums!Wrapped(0) = 0
    BY SumsNumbers, WrappedSame
  <2> QED
    BY <2>1 DEF Sums!Start
<1>5. SumOf(ret) = 0 /\ SumOf(JoinedRet) = 0
  <2>1. /\ ret \in [Sums!Threads -> Nat] /\ \A t \in Sums!Threads : ret[t] = 0
        /\ JoinedRet \in [Sums!Threads -> Nat]
        /\ \A t \in Sums!Threads : JoinedRet[t] = 0
    BY DEF Sums!Start, JoinedRet
  <2> QED
    BY <2>1, SumOfNone
<1>6. \A t \in Sums!Threads : t > joins /\ ret[t] = 0
  BY SumsNumbers DEF Sums!Start
<1>7. Sums!Wrapped(0) = 0
  BY SumsNumbers, WrappedSame
<1> QED
  BY <1>1, <1>2, <1>3, <1>4, <1>5, <1>6, <1>7, SumsNumbers
     DEF SumsInv, SumsRight, Sums!Start

(* Another turn of a thread of 6-31.c brings its amount, or takes it.      *)
LEMMA TurnBalances ==
  ASSUME SumTypes, counter = "6-31", NEW t \in Sums!Threads, Sums!Running(t),
         turn' = [turn EXCEPT ![t] = @ + 1]
  PROVE  /\ Sums!Balance \in Int /\ Sums!Amount(t) \in Int
         /\ Sums!Balance' = Sums!Balance + Sums!Amount(t)
<1> DEFINE U(k) == Sums!UpTo(k)
<1>1. /\ t \in {1, 2, 3, 4} /\ Rounds \in Nat /\ AtStart \in Int
      /\ \A u \in 1 .. 4 : turn[u] \in Nat /\ turn[u] >= 1 /\ turn[u] <= Rounds + 1
      /\ \A u \in 1 .. 4 : turn'[u] = IF u = t THEN turn[u] + 1 ELSE turn[u]
      /\ turn[t] <= Rounds
  BY SumsNumbers DEF SumTypes, Sums!Running, Sums!Created
<1>2. \A k \in Nat : U(k) \in Int /\ U(k + 1) = U(k) + (k + 1)
  BY UpToNext
<1>3. \A u \in 1 .. 4 : Sums!Brought(u) \in Int /\ Sums!Taken(u) \in Int
  <2> SUFFICES ASSUME NEW u \in 1 .. 4
               PROVE  Sums!Brought(u) \in Int /\ Sums!Taken(u) \in Int
    OBVIOUS
  <2>1. turn[u] - 1 \in Nat /\ Rounds + 1 - turn[u] \in Nat
    BY <1>1
  <2> QED
    BY <1>1, <1>2, <2>1 DEF Sums!Brought, Sums!Taken
<1>4. \A u \in 1 .. 4 : u # t =>
          Sums!Brought(u)' = Sums!Brought(u) /\ Sums!Taken(u)' = Sums!Taken(u)
  BY <1>1 DEF Sums!Brought, Sums!Taken
<1>5. Sums!Brought(t)' = Sums!Brought(t) + turn[t]
  <2>1. turn[t] - 1 \in Nat /\ turn'[t] - 1 = (turn[t] - 1) + 1
    BY <1>1
  <2>2. U(turn'[t] - 1) = U(turn[t] - 1) + turn[t]
    BY <1>1, <1>2, <2>1
  <2> QED
    BY <2>2 DEF Sums!Brought
<1>6. Sums!Taken(t)' = Sums!Taken(t) + (Rounds + 1 - turn[t])
  <2> DEFINE k == Rounds - turn[t]
  <2>1. k \in Nat /\ Rounds + 1 - turn[t] = k + 1 /\ Rounds + 1 - turn'[t] = k
    BY <1>1
  <2>2. U(k) \in Int /\ U(k + 1) = U(k) + (k + 1) /\ U(Rounds) \in Int
    <3> HIDE DEF k, U
    <3> QED
      BY <1>1, <1>2, <2>1
  <2>3. Sums!Taken(t)' = U(Rounds) - U(k) /\ Sums!Taken(t) = U(Rounds) - U(k + 1)
    BY <2>1 DEF Sums!Taken
  <2> HIDE DEF k, U
  <2> QED
    BY <1>1, <2>1, <2>2, <2>3
<1>7. Sums!Amount(t) = IF t > 2 THEN turn[t] - Rounds - 1 ELSE turn[t]
  BY DEF Sums!Amount, Sums!IsConsumer
<1>8. Sums!Amount(t) \in Int
  BY <1>1, <1>7
<1>9. Sums!Balance \in Int
  BY <1>1, <1>3 DEF Sums!Balance
<1>10. CASE t \in {1, 2}
  <2>1. Sums!Amount(t) = turn[t]
    BY <1>7, <1>10
  <2> QED
    BY <1>1, <1>3, <1>4, <1>5, <1>8, <1>9, <1>10, <2>1 DEF Sums!Balance
<1>11. CASE t \in {3, 4}
  <2>1. Sums!Amount(t) = -(Rounds + 1 - turn[t])
    BY <1>1, <1>7, <1>11
  <2> QED
    BY <1>1, <1>3, <1>4, <1>6, <1>8, <1>9, <1>11, <2>1 DEF Sums!Balance
<1> QED
  BY <1>1, <1>10, <1>11

(* Every turn and every join keeps the variable right.                     *)
LEMMA SumsStep == SumsInv /\ [Sums!Next]_(Sums!vars) => SumsInv'
<1> SUFFICES ASSUME SumsInv, [Sums!Next]_(Sums!vars) PROVE SumsInv'
  OBVIOUS
<1>1. SumTypes /\ OneHasLock /\ SumsRight
  BY DEF SumsInv
<1>2. CASE UNCHANGED Sums!vars
  <2>1. UNCHANGED <<counter, resource, lock, turn, read, has, ret, hits, joins, sum>>
    BY <1>2 DEF Sums!vars
  <2>2. SumTypes'
    BY <1>1, <2>1 DEF SumTypes, Sums!Created
  <2>3. OneHasLock'
    BY <1>1, <2>1 DEF OneHasLock, Sums!Running, Sums!Created
  <2>4. SumsRight'
    BY <1>1, <2>1 DEF SumsRight, Sums!Balance, Sums!Brought, Sums!Taken,
                      JoinedRet, Sums!Running, Sums!Created
  <2> QED
    BY <2>2, <2>3, <2>4 DEF SumsInv
<1>3. ASSUME NEW t \in Sums!Threads, Sums!Lock(t) PROVE SumsInv'
  <2>1. /\ counter # "4-17" /\ Sums!Running(t) /\ lock = 1 /\ lock' = 0
        /\ has = {} /\ has' = {t}
        /\ read' = [read EXCEPT ![t] = resource]
        /\ hits' = IF counter = "6-33" THEN hits + 1 ELSE hits
        /\ UNCHANGED <<counter, resource, turn, ret, joins, sum>>
    BY <1>1, <1>3 DEF Sums!Lock, Sums!IsFree, OneHasLock
  <2>2. SumTypes'
    BY <1>1, <2>1 DEF SumTypes, Sums!Created
  <2>3. OneHasLock'
    BY <1>1, <2>1 DEF OneHasLock, SumTypes, Sums!Running, Sums!Created
  <2>4. (counter = "6-31" => resource = Sums!Wrapped(Sums!Balance))'
    BY <1>1, <2>1 DEF SumsRight, Sums!Balance, Sums!Brought, Sums!Taken
  <2>5. (counter = "6-33" =>
            resource = Sums!Wrapped(IF has = {} THEN hits ELSE hits - 1))'
    <3> SUFFICES ASSUME counter = "6-33"
                 PROVE  resource = Sums!Wrapped(hits' - 1)
      BY <2>1
    <3>1. hits' - 1 = hits
      BY <1>1, <2>1 DEF SumTypes
    <3> QED
      BY <1>1, <2>1, <3>1 DEF SumsRight
  <2> QED
    BY <2>1, <2>2, <2>3, <2>4, <2>5 DEF SumsInv, SumsRight
<1>4. ASSUME NEW t \in Sums!Threads, Sums!Update(t) PROVE SumsInv'
  <2>1. /\ t \in has /\ has' = {} /\ lock' = 1
        /\ read' = [read EXCEPT ![t] = 0]
        /\ UNCHANGED <<counter, ret, hits, joins, sum>>
        /\ counter # "4-17" /\ Sums!Running(t) /\ read[t] = resource
    BY <1>1, <1>4 DEF Sums!Update, OneHasLock
  <2>2. OneHasLock'
    BY <2>1 DEF OneHasLock
  <2>3. CASE Sums!IsConsumer(t) /\ UNCHANGED <<resource, turn>>
    <3>1. counter = "6-31"
      BY <2>3 DEF Sums!IsConsumer
    <3>2. SumTypes'
      BY <1>1, <2>1, <2>3 DEF SumTypes, Sums!Created
    <3>3. SumsRight'
      BY <1>1, <2>1, <2>3, <3>1
         DEF SumsRight, Sums!Balance, Sums!Brought, Sums!Taken
    <3> QED
      BY <2>2, <3>2, <3>3 DEF SumsInv
  <2>4. CASE /\ resource' = Sums!Wrapped(read[t] + Sums!Amount(t))
             /\ turn' = [turn EXCEPT ![t] = @ + 1]
    <3>1. /\ counter \in {"6-31", "6-33"} /\ turn[t] \in Int /\ hits \in Int
          /\ Rounds \in Int
      BY <1>1, <2>1, SumsNumbers DEF SumTypes, Sums!Counters
    <3>2. Sums!Amount(t) \in Int
      BY <3>1 DEF Sums!Amount
    <3>3. resource' = Sums!Wrapped(resource + Sums!Amount(t)) /\ resource \in Int
      BY <1>1, <2>1, <2>4 DEF SumTypes
    <3>4. resource' \in Int
      <4>1. resource + Sums!Amount(t) \in Int
        BY <3>2, <3>3
      <4> QED
        BY <3>3, <4>1, WrappedAdds
    <3>5. SumTypes'
      <4>1. turn' \in [Sums!Threads -> 1 .. Rounds + 1]
        BY <1>1, <2>1, <2>4, SumsNumbers DEF SumTypes, Sums!Running
      <4>2. read' \in [Sums!Threads -> Int]
        BY <1>1, <2>1 DEF SumTypes
      <4>3. joins' \in 0 .. Sums!Created'
        BY <1>1, <2>1 DEF SumTypes, Sums!Created
      <4>4. UNCHANGED <<counter, ret, hits, joins, sum>> /\ lock' = 1 /\ has' = {}
        BY <2>1
      <4> QED
        BY <1>1, <3>4, <4>1, <4>2, <4>3, <4>4 DEF SumTypes
    <3>6. (counter = "6-31" => resource = Sums!Wrapped(Sums!Balance))'
      <4> SUFFICES ASSUME counter = "6-31"
                   PROVE  resource' = Sums!Wrapped(Sums!Balance')
        BY <2>1 DEF Sums!Wrapped
      <4>1. /\ Sums!Balance \in Int /\ Sums!Balance' = Sums!Balance + Sums!Amount(t)
        BY <1>1, <2>1, <2>4, TurnBalances
      <4>2. resource = Sums!Wrapped(Sums!Balance)
        BY <1>1 DEF SumsRight
      <4> QED
        BY <3>2, <3>3, <4>1, <4>2, WrappedAdds
    <3>7. (counter = "6-33" =>
              resource = Sums!Wrapped(IF has = {} THEN hits ELSE hits - 1))'
      <4> SUFFICES ASSUME counter = "6-33"
                   PROVE  resource' = Sums!Wrapped(hits)
        BY <2>1
      <4>1. Sums!Amount(t) = 1
        BY DEF Sums!Amount, Sums!IsConsumer
      <4>2. resource = Sums!Wrapped(hits - 1)
        BY <1>1, <2>1 DEF SumsRight
      <4>3. hits - 1 \in Int /\ (hits - 1) + 1 = hits
        BY <3>1
      <4> QED
        BY <3>3, <4>1, <4>2, <4>3, WrappedAdds
    <3> QED
      BY <2>1, <2>2, <3>1, <3>5, <3>6, <3>7 DEF SumsInv, SumsRight
  <2> QED
    BY <1>4, <2>3, <2>4 DEF Sums!Update, Sums!Turns
<1>5. ASSUME NEW t \in Sums!Threads, Sums!Miss(t) PROVE SumsInv'
  <2>1. /\ counter # "6-31" /\ Sums!Running(t) /\ t \notin has
        /\ turn' = [turn EXCEPT ![t] = @ + 1]
        /\ UNCHANGED <<counter, resource, lock, read, has, ret, hits, joins, sum>>
    BY <1>5 DEF Sums!Miss, Sums!Turns
  <2>2. SumTypes'
    BY <1>1, <2>1, SumsNumbers DEF SumTypes, Sums!Running, Sums!Created
  <2>3. OneHasLock'
    BY <1>1, <2>1 DEF OneHasLock, SumTypes, Sums!Running, Sums!Created
  <2>4. SumsRight'
    <3>1. \A u \in Sums!Threads : ~Sums!Running(u) => ~Sums!Running(u)'
      BY <1>1, <2>1 DEF SumTypes, Sums!Running, Sums!Created
    <3> QED
      BY <1>1, <2>1, <3>1 DEF SumsRight, JoinedRet
  <2> QED
    BY <2>2, <2>3, <2>4 DEF SumsInv
<1>6. ASSUME NEW t \in Sums!Threads, Sums!Hit(t) PROVE SumsInv'
  <2>1. /\ counter = "4-17" /\ Sums!Running(t)
        /\ ret' = [ret EXCEPT ![t] = @ + 1] /\ hits' = hits + 1
        /\ turn' = [turn EXCEPT ![t] = @ + 1]
        /\ UNCHANGED <<counter, resource, lock, read, has, joins, sum>>
    BY <1>6 DEF Sums!Hit, Sums!Turns
  <2>2. SumTypes'
    BY <1>1, <2>1, SumsNumbers DEF SumTypes, Sums!Running, Sums!Created
  <2>3. OneHasLock'
    BY <1>1, <2>1 DEF OneHasLock
  <2>4. SumOf(ret') = hits'
    <3>1. /\ ret \in [Sums!Threads -> Nat] /\ ret' \in [Sums!Threads -> Nat]
          /\ \A u \in Sums!Threads : u # t => ret'[u] = ret[u]
          /\ ret'[t] = ret[t] + 1 /\ hits \in Nat
      BY <1>1, <2>1 DEF SumTypes
    <3>2. SumOf(ret') = SumOf(ret) + ret'[t] - ret[t]
      BY <3>1, SumsNumbers, SumChanges
    <3>3. ret[t] \in Nat /\ SumOf(ret) = hits
      BY <1>1, <2>1, <3>1 DEF SumsRight
    <3> QED
      BY <2>1, <3>1, <3>2, <3>3
  <2>5. JoinedRet' = JoinedRet
    <3>1. \A u \in Sums!Threads : u <= joins => ret'[u] = ret[u]
      BY <1>1, <2>1 DEF SumsRight, SumTypes
    <3> QED
      BY <2>1, <3>1 DEF JoinedRet
  <2>6. t <= Counting
    BY <2>1 DEF Sums!Running, Sums!Created
  <2>7. \A u \in Sums!Threads : u <= joins => ~Sums!Running(u)'
    BY <1>1, <2>1 DEF SumsRight, SumTypes, Sums!Running, Sums!Created
  <2>8. \A u \in Sums!Threads : u > Counting => ret'[u] = 0
    BY <1>1, <2>1, <2>6, SumsNumbers DEF SumsRight, SumTypes
  <2> QED
    BY <1>1, <2>1, <2>2, <2>3, <2>4, <2>5, <2>7, <2>8 DEF SumsInv, SumsRight
<1>7. ASSUME Sums!Join PROVE SumsInv'
  <2>1. PICK t \in Sums!Threads : t = joins + 1
    BY <1>1, <1>7, SumsNumbers DEF Sums!Join, SumTypes
  <2>2. /\ joins < Sums!Created /\ ~Sums!Running(t)
        /\ joins' = joins + 1 /\ sum' = Sums!Wrapped(sum + ret[t])
        /\ UNCHANGED <<counter, resource, lock, turn, read, has, ret, hits>>
    BY <1>7, <2>1 DEF Sums!Join
  <2>3. SumTypes'
    <3>1. sum + ret[t] \in Int
      BY <1>1 DEF SumTypes
    <3>2. sum' \in Int
      BY <2>2, <3>1, WrappedAdds
    <3> QED
      BY <1>1, <2>2, <3>2, SumsNumbers DEF SumTypes, Sums!Created
  <2>4. OneHasLock'
    BY <1>1, <2>2 DEF OneHasLock, Sums!Running, Sums!Created
  <2>5. ASSUME sum = Sums!Wrapped(SumOf(JoinedRet))
        PROVE  sum' = Sums!Wrapped(SumOf(JoinedRet'))
    <3>1. /\ JoinedRet \in [Sums!Threads -> Nat] /\ JoinedRet' \in [Sums!Threads -> Nat]
          /\ \A u \in Sums!Threads : u # t => JoinedRet'[u] = JoinedRet[u]
          /\ JoinedRet'[t] = ret[t] /\ JoinedRet[t] = 0
      BY <1>1, <2>1, <2>2, SumsNumbers DEF SumTypes, JoinedRet
    <3>2. /\ SumOf(JoinedRet) \in Int
          /\ SumOf(JoinedRet') = SumOf(JoinedRet) + JoinedRet'[t] - JoinedRet[t]
      BY <3>1, SumsNumbers, SumChanges, UnitsFinite
    <3>3. ret[t] \in Int
      BY <1>1 DEF SumTypes
    <3>4. SumOf(JoinedRet') = SumOf(JoinedRet) + ret[t]
      BY <3>1, <3>2, <3>3
    <3> QED
      BY <2>2, <2>5, <3>2, <3>3, <3>4, WrappedAdds
  <2>6. \A u \in Sums!Threads : u <= joins' => u <= joins \/ u = t
    BY <1>1, <2>1, <2>2, SumsNumbers DEF SumTypes
  <2>7. \A u \in Sums!Threads : ~Sums!Running(u) => ~Sums!Running(u)'
    BY <2>2 DEF Sums!Running, Sums!Created
  <2> QED
    BY <1>1, <2>2, <2>3, <2>4, <2>5, <2>6, <2>7
       DEF SumsInv, SumsRight, Sums!Balance, Sums!Brought, Sums!Taken
<1> QED
  BY <1>2, <1>3, <1>4, <1>5, <1>6, <1>7 DEF Sums!Next, Sums!Thread

(* What is left of 4-17.c when all threads are joined.                     *)
LEMMA SumsAddUp == SumsInv => Sums!AddsUp
<1> SUFFICES ASSUME SumsInv PROVE Sums!AddsUp
  OBVIOUS
<1>1. SumTypes /\ OneHasLock /\ SumsRight
  BY DEF SumsInv
<1>2. ASSUME counter = "4-17", joins = Sums!Created PROVE sum = Sums!Wrapped(hits)
  <2>1. \A t \in Sums!Threads : t <= joins \/ ret[t] = 0
    BY <1>1, <1>2, SumsNumbers DEF SumsRight, Sums!Created
  <2>2. JoinedRet = ret
    BY <1>1, <2>1 DEF JoinedRet, SumTypes
  <2> QED
    BY <1>1, <1>2, <2>2 DEF SumsRight
<1> QED
  BY <1>1, <1>2 DEF SumsRight, Sums!AddsUp, SumTypes, Sums!Counters

(* 6-31.c, 6-33.c, 4-17.c: nothing is lost between the threads, whatever   *)
(* they do with one variable, for any number of turns and of threads that  *)
(* count, and any size of an int.                                          *)
THEOREM NothingIsLost == SumsSpec => []Sums!AddsUp
BY SumsInit, SumsStep, SumsAddUp, PTL DEF SumsSpec

-----------------------------------------------------------------------------
(* 4-16.c.  The sums of the first numbers exist.                            *)
LEMMA SumsExist ==
  ASSUME NEW s \in Seq(Int)
  PROVE  \E f \in [0 .. Len(s) -> Int] :
             f[0] = 0 /\ \A k \in 1 .. Len(s) : f[k] = f[k - 1] + s[k]
<1> DEFINE Good(n) == \E f \in [0 .. n -> Int] :
               f[0] = 0 /\ \A k \in 1 .. n : f[k] = f[k - 1] + s[k]
           T == {n \in Nat : n <= Len(s) => Good(n)}
<1>1. Len(s) \in Nat /\ \A k \in 1 .. Len(s) : s[k] \in Int
  OBVIOUS
<1>2. Good(0)
  <2> DEFINE f == [k \in 0 .. 0 |-> 0]
  <2>1. f \in [0 .. 0 -> Int] /\ f[0] = 0 /\ \A k \in 1 .. 0 : f[k] = f[k - 1] + s[k]
    OBVIOUS
  <2> HIDE DEF f
  <2> QED
    BY <2>1
<1>3. ASSUME NEW n \in T PROVE n + 1 \in T
  <2>1. n \in Nat /\ (n <= Len(s) => Good(n))
    <3> HIDE DEF Good
    <3> QED
      OBVIOUS
  <2> SUFFICES ASSUME n + 1 <= Len(s) PROVE Good(n + 1)
    <3> HIDE DEF Good
    <3> QED
      BY <2>1
  <2>2. Good(n)
    <3> HIDE DEF Good
    <3> QED
      BY <1>1, <2>1
  <2>3. PICK f \in [0 .. n -> Int] :
            f[0] = 0 /\ \A k \in 1 .. n : f[k] = f[k - 1] + s[k]
    BY <2>2
  <2> DEFINE g == [k \in 0 .. n + 1 |-> IF k <= n THEN f[k] ELSE f[n] + s[n + 1]]
  <2>4. g \in [0 .. n + 1 -> Int]
    BY <1>1, <2>1
  <2>5. ASSUME NEW k \in 1 .. n + 1 PROVE g[k] = g[k - 1] + s[k]
    <3>1. CASE k <= n
      <4>1. k \in 1 .. n /\ k - 1 \in 0 .. n
        BY <2>1, <3>1
      <4>2. g[k] = f[k] /\ g[k - 1] = f[k - 1]
        BY <2>1, <4>1
      <4> QED
        BY <2>3, <4>1, <4>2
    <3>2. CASE k = n + 1
      BY <2>1, <3>2
    <3> QED
      BY <2>1, <3>1, <3>2
  <2>6. g[0] = 0
    BY <2>1, <2>3
  <2> HIDE DEF g
  <2> QED
    BY <2>4, <2>5, <2>6
<1>4. T = Nat
  <2>1. T \in SUBSET Nat /\ 0 \in T
    BY <1>2
  <2> HIDE DEF T
  <2> QED
    BY <1>3, <2>1, Inductive
<1>5. Good(Len(s))
  <2> HIDE DEF Good
  <2> QED
    BY <1>1, <1>4
<1> QED
  BY <1>5

(* The recursive function has the values that its equation says: there is  *)
(* one that satisfies it.                                                  *)
LEMMA SumOfFirstIs ==
  ASSUME numbers \in Seq(Int)
  PROVE  /\ Reads!SumOfFirst \in [0 .. Len(numbers) -> Int]
         /\ Reads!SumOfFirst[0] = 0
         /\ \A k \in 1 .. Len(numbers) :
                Reads!SumOfFirst[k] = Reads!SumOfFirst[k - 1] + numbers[k]
<1> DEFINE L == Len(numbers)
           Extends(g) == [k \in 0 .. L |-> IF k = 0 THEN 0 ELSE g[k - 1] + numbers[k]]
<1>1. PICK f \in [0 .. L -> Int] :
          f[0] = 0 /\ \A k \in 1 .. L : f[k] = f[k - 1] + numbers[k]
  BY SumsExist
<1>2. L \in Nat
  OBVIOUS
<1>3. f = Extends(f)
  BY <1>1, <1>2
<1>4. Reads!SumOfFirst = CHOOSE g : g = Extends(g)
  BY DEF Reads!SumOfFirst
<1>5. Reads!SumOfFirst = Extends(Reads!SumOfFirst)
  BY <1>3, <1>4
<1> DEFINE F == Reads!SumOfFirst
<1>6. /\ \A k \in 1 .. L : F[k] = F[k - 1] + numbers[k]
      /\ F[0] = 0 /\ F = [k \in 0 .. L |-> F[k]]
  <2> HIDE DEF F
  <2> QED
    BY <1>2, <1>5, SMTT(30) DEF F
<1> HIDE DEF F, L, Extends
<1> DEFINE T == {n \in Nat : n <= L => F[n] = f[n]}
<1>7. T = Nat
  <2>1. T \in SUBSET Nat /\ 0 \in T
    BY <1>1, <1>6
  <2>2. ASSUME NEW n \in T PROVE n + 1 \in T
    <3> SUFFICES ASSUME n \in Nat, n + 1 <= L, F[n] = f[n]
                 PROVE  F[n + 1] = f[n + 1]
      BY <1>2
    <3>1. n + 1 \in 1 .. L /\ (n + 1) - 1 = n
      BY <1>2
    <3>2. F[n + 1] = F[n] + numbers[n + 1] /\ f[n + 1] = f[n] + numbers[n + 1]
      BY <1>1, <1>6, <3>1
    <3> QED
      BY <3>2
  <2> HIDE DEF T
  <2> QED
    BY <2>1, <2>2, Inductive
<1>8. \A k \in 0 .. L : F[k] = f[k]
  BY <1>2, <1>7, SMTT(30)
<1>9. F \in [0 .. L -> Int]
  BY <1>1, <1>6, <1>8
<1> QED
  BY <1>6, <1>9 DEF F, L

(* All programs have the same int.                                          *)
LEMMA ReadsWrapped ==
  (\A x : Reads!Wrapped(x) = Sums!Wrapped(x)) /\ Reads!Ints = Sums!Ints
BY DEF Reads!Wrapped, Sums!Wrapped, Reads!Ints, Sums!Ints

(* The input, and what the threads have got of it.                         *)
ReadTypes ==
    /\ task \in {"4-16", "projects1"}
    /\ numbers \in Seq(Int) /\ numbers # <<>>
    /\ task = "projects1" => sudoku \in Sudokus
    /\ place \in [Reads!Threads -> 0 .. Len(numbers)]
    /\ found \in [Reads!Threads -> Int]
    /\ \A t \in Reads!Threads : found[t] \in Reads!Ints
    /\ \A k \in 1 .. Len(numbers) : numbers[k] \in Reads!Ints
    /\ result \in [Reads!Threads -> {<<>>} \cup {<<v>> : v \in Int}]
    /\ printed \in Seq(Int)

(* Each loop of 4-16.c has what it is to find among the numbers so far.    *)
LoopsRight ==
    LET seen(t) == 1 .. place[t] IN
    /\ place[1] > 0 => \E k \in seen(1) : found[1] = numbers[k]
    /\ place[2] > 0 => \E k \in seen(2) : found[2] = numbers[k]
    /\ \A k \in seen(1) : numbers[k] <= found[1]
    /\ \A k \in seen(2) : found[2] <= numbers[k]
    /\ found[3] = Sums!Wrapped(Reads!SumOfFirst[place[3]])

(* A thread returns at the end of its loop, and main() prints after that.  *)
ReturnsRight ==
    /\ \A t \in Reads!Threads : result[t] # <<>> =>
           /\ result[t] = <<Reads!Returns(t)>>
           /\ task = "4-16" => place[t] = Len(numbers)
    /\ printed # <<>> =>
           /\ \A t \in Reads!Threads : result[t] # <<>>
           /\ LET values == [t \in Reads!Threads |-> Reads!Returns(t)]
              IN  printed = IF task = "4-16" THEN values ELSE Reads!And(values)

ReadsInv == ReadTypes /\ (task = "4-16" => LoopsRight) /\ ReturnsRight

ReadsSpec == Reads!Inputs /\ Reads!Start /\ [][Reads!Next]_(Reads!vars)

(* Any input is a start.                                                   *)
LEMMA ReadsBegin ==
  ASSUME task \in {"4-16", "projects1"}, task = "projects1" => sudoku \in Sudokus,
         numbers \in Seq(Int), numbers # <<>>, Reads!Start,
         \A k \in 1 .. Len(numbers) : numbers[k] \in Reads!Ints
  PROVE  ReadsInv
<1>1. Len(numbers) \in Nat
  OBVIOUS
<1>2. ReadTypes
  <2>1. 0 \in Reads!Ints
    BY SumsNumbers DEF Reads!Ints
  <2> QED
    BY <1>1, <2>1 DEF ReadTypes, Reads!Start, Reads!None
<1>3. LoopsRight
  <2>1. Sums!Wrapped(0) = 0
    BY SumsNumbers, WrappedSame
  <2> QED
    BY <1>1, <2>1, SumOfFirstIs DEF LoopsRight, Reads!Start, Reads!Threads
<1>4. ReturnsRight
  BY DEF ReturnsRight, Reads!Start, Reads!None
<1> QED
  BY <1>2, <1>3, <1>4 DEF ReadsInv

(* The inputs of 4-16.c and of projects1.c.                                *)
LEMMA ReadsInit == Reads!Inputs /\ Reads!Start => ReadsInv
<1> SUFFICES ASSUME Reads!Inputs, Reads!Start PROVE ReadsInv
  OBVIOUS
<1>1. <<0>> \in Seq(Int) /\ <<0>> # <<>>
  OBVIOUS
<1>2. /\ numbers \in Seq(Int) /\ numbers # <<>>
      /\ \A k \in 1 .. Len(numbers) : numbers[k] \in Reads!Ints
  <2>1. CASE task = "4-16"
    <3>1. numbers \in Seq(Reads!Ints) /\ numbers # <<>>
      BY <2>1, ProgramsAssumption DEF Reads!ReadersAssumption, Reads!Inputs
    <3>2. \A x \in Reads!Ints : x \in Int
      BY SumsNumbers DEF Reads!Ints
    <3> HIDE DEF Reads!Ints
    <3>3. \A k \in 1 .. Len(numbers) : numbers[k] \in Reads!Ints
      BY <3>1
    <3>4. numbers \in Seq(Int)
      BY <3>1, <3>2, <3>3
    <3> QED
      BY <3>1, <3>3, <3>4
  <2>2. CASE task = "projects1"
    <3>1. numbers = <<0>> /\ 0 \in Reads!Ints
      BY <2>2, SumsNumbers DEF Reads!Inputs, Reads!Ints
    <3> QED
      BY <1>1, <3>1
  <2> QED
    BY <2>1, <2>2 DEF Reads!Inputs
<1>3. task \in {"4-16", "projects1"} /\ (task = "projects1" => sudoku \in Sudokus)
  BY DEF Reads!Inputs
<1> QED
  BY <1>2, <1>3, ReadsBegin

(* What a thread of the sudoku returns is a number.                         *)
LEMMA ReturnsNumber ==
  ASSUME ReadTypes, NEW t \in Reads!Threads
  PROVE  Reads!Returns(t) \in Int
<1>1. t \in {1, 2, 3} /\ found[t] \in Int /\ Len(numbers) \in Nat /\ Len(numbers) > 0
  BY DEF ReadTypes, Reads!Threads
<1>2. Reads!Row \in Int /\ Reads!Col \in Int /\ Reads!Sub \in Int
  BY DEF Reads!Row, Reads!Col, Reads!Sub, Reads!OneIfNone
<1>3. t = 3 => Reads!Quotient(found[3], Len(numbers)) \in Int
  BY <1>1 DEF Reads!Quotient
<1> QED
  BY <1>1, <1>2, <1>3 DEF Reads!Returns

(* A turn of a loop of 4-16.c.                                             *)
LEMMA LoopStep ==
  ASSUME ReadsInv, NEW t \in Reads!Threads, Reads!Loop(t)
  PROVE  ReadsInv'
<1>1. ReadTypes /\ LoopsRight /\ ReturnsRight /\ task = "4-16"
  BY DEF ReadsInv, Reads!Loop
<1> DEFINE L == Len(numbers)
           n == place[t]
           x == numbers[n + 1]
<1>2. /\ L \in Nat /\ t \in {1, 2, 3} /\ n \in Nat /\ n < L /\ x \in Int
      /\ found[t] \in Int /\ numbers[1] \in Int
      /\ \A k \in 1 .. L : numbers[k] \in Int
      /\ found[t] \in Reads!Ints /\ x \in Reads!Ints /\ numbers[1] \in Reads!Ints
  <2>1. /\ L \in Nat /\ t \in {1, 2, 3} /\ n \in Nat /\ n < L
        /\ found[t] \in Int /\ \A k \in 1 .. L : numbers[k] \in Int
        /\ found[t] \in Reads!Ints /\ \A k \in 1 .. L : numbers[k] \in Reads!Ints
    BY <1>1, SMTT(30) DEF ReadTypes, Reads!Threads, Reads!Loop
  <2> HIDE DEF L, n
  <2>2. n + 1 \in 1 .. L /\ 1 \in 1 .. L
    BY <2>1
  <2> QED
    BY <2>1, <2>2
<1>3. /\ place' = [place EXCEPT ![t] = n + 1]
      /\ UNCHANGED <<task, numbers, sudoku, result, printed>>
  BY DEF Reads!Loop
<1>4. found' = [found EXCEPT ![t] =
          IF t = 3 THEN Sums!Wrapped(found[t] + x)
          ELSE IF n = 0 THEN numbers[1]
          ELSE IF t = 1 THEN IF found[t] > x THEN found[t] ELSE x
          ELSE IF found[t] < x THEN found[t] ELSE x]
  BY ReadsWrapped DEF Reads!Loop, Reads!Add, Reads!Max, Reads!Min
<1> HIDE DEF L, x
<1>5. found'[t] \in Int /\ found'[t] \in Reads!Ints
  <2>1. found[t] + x \in Int
    BY <1>2
  <2>2. /\ Sums!Wrapped(found[t] + x) \in Int
        /\ Sums!Wrapped(found[t] + x) \in Reads!Ints
    BY <2>1, WrappedAdds, ReadsWrapped
  <2>3. \/ found'[t] = Sums!Wrapped(found[t] + x)
        \/ found'[t] \in {numbers[1], found[t], x}
    BY <1>1, <1>4 DEF ReadTypes
  <2> QED
    BY <1>2, <2>2, <2>3
<1>6. ReadTypes'
  <2>1. \A u \in Reads!Threads : found'[u] = IF u = t THEN found'[t] ELSE found[u]
    BY <1>1, <1>4 DEF ReadTypes
  <2>2. DOMAIN found' = Reads!Threads /\ found' = [u \in Reads!Threads |-> found'[u]]
    BY <1>1, <1>4 DEF ReadTypes
  <2>3. /\ found' \in [Reads!Threads -> Int]
        /\ \A u \in Reads!Threads : found'[u] \in Reads!Ints
    BY <1>1, <1>5, <2>1, <2>2 DEF ReadTypes
  <2>4. Reads!Ints' = Reads!Ints
    BY DEF Reads!Ints
  <2>5. place' \in [Reads!Threads -> 0 .. Len(numbers)]
    BY <1>1, <1>2, <1>3 DEF ReadTypes, L
  <2> QED
    BY <1>1, <1>3, <2>3, <2>4, <2>5 DEF ReadTypes
<1>7. LoopsRight'
  <2>1. /\ Reads!SumOfFirst' = Reads!SumOfFirst
        /\ place'[t] = n + 1 /\ n + 1 \in 1 .. L
        /\ \A u \in {1, 2, 3} : u # t => place'[u] = place[u] /\ found'[u] = found[u]
    <3>1. Reads!SumOfFirst' = Reads!SumOfFirst
      BY <1>3 DEF Reads!SumOfFirst
    <3>2. place'[t] = n + 1 /\ n + 1 \in 1 .. L
      BY <1>1, <1>2, <1>3 DEF ReadTypes
    <3>3. \A u \in {1, 2, 3} : u # t => place'[u] = place[u] /\ found'[u] = found[u]
      BY <1>1, <1>3, <1>4 DEF ReadTypes, Reads!Threads
    <3> QED
      BY <3>1, <3>2, <3>3
  <2>2. \A k \in 1 .. n + 1 : k \in 1 .. n \/ k = n + 1
    BY <1>2
  <2>3. CASE t = 1
    <3>1. found'[1] = IF n = 0 THEN numbers[1] ELSE IF found[1] > x THEN found[1] ELSE x
      BY <1>1, <1>2, <1>4, <2>3 DEF ReadTypes
    <3>2. \E k \in 1 .. n + 1 : found'[1] = numbers[k]
      BY <1>1, <1>2, <2>1, <2>3, <3>1 DEF LoopsRight, x
    <3>3. ASSUME NEW k \in 1 .. n + 1 PROVE numbers[k] <= found'[1]
      <4>1. CASE k = n + 1
        <5>1. numbers[k] = x /\ (n = 0 => numbers[1] = x)
          BY <4>1 DEF x
        <5> QED
          BY <1>2, <2>3, <3>1, <5>1
      <4>2. CASE k \in 1 .. n
        <5>1. numbers[k] <= found[1] /\ numbers[k] \in Int
          BY <1>1, <1>2, <2>3, <4>2 DEF LoopsRight
        <5> QED
          BY <1>2, <2>3, <3>1, <4>2, <5>1
      <4> QED
        BY <2>2, <4>1, <4>2
    <3> QED
      BY <1>1, <1>2, <1>3, <2>1, <2>3, <3>2, <3>3 DEF LoopsRight
  <2>4. CASE t = 2
    <3>1. found'[2] = IF n = 0 THEN numbers[1] ELSE IF found[2] < x THEN found[2] ELSE x
      BY <1>1, <1>2, <1>4, <2>4 DEF ReadTypes
    <3>2. \E k \in 1 .. n + 1 : found'[2] = numbers[k]
      BY <1>1, <1>2, <2>1, <2>4, <3>1 DEF LoopsRight, x
    <3>3. ASSUME NEW k \in 1 .. n + 1 PROVE found'[2] <= numbers[k]
      <4>1. CASE k = n + 1
        <5>1. numbers[k] = x /\ (n = 0 => numbers[1] = x)
          BY <4>1 DEF x
        <5> QED
          BY <1>2, <2>4, <3>1, <5>1
      <4>2. CASE k \in 1 .. n
        <5>1. found[2] <= numbers[k] /\ numbers[k] \in Int
          BY <1>1, <1>2, <2>4, <4>2 DEF LoopsRight
        <5> QED
          BY <1>2, <2>4, <3>1, <4>2, <5>1
      <4> QED
        BY <2>2, <4>1, <4>2
    <3> QED
      BY <1>1, <1>2, <1>3, <2>1, <2>4, <3>2, <3>3 DEF LoopsRight
  <2>5. CASE t = 3
    <3>1. found'[3] = Sums!Wrapped(found[3] + x)
      BY <1>1, <1>2, <1>4, <2>5 DEF ReadTypes
    <3>2. /\ Reads!SumOfFirst[n] \in Int
          /\ Reads!SumOfFirst[n + 1] = Reads!SumOfFirst[n] + x
      <4>1. numbers \in Seq(Int) /\ (n + 1) - 1 = n /\ n \in 0 .. L
        BY <1>1, <1>2 DEF ReadTypes
      <4> QED
        BY <2>1, <4>1, SumOfFirstIs DEF L, x
    <3>3. found[3] = Sums!Wrapped(Reads!SumOfFirst[n])
      BY <1>1, <2>5 DEF LoopsRight
    <3>4. found'[3] = Sums!Wrapped(Reads!SumOfFirst[n + 1])
      BY <1>2, <3>1, <3>2, <3>3, WrappedAdds
    <3> QED
      BY <1>1, <1>2, <1>3, <2>1, <2>5, <3>4 DEF LoopsRight
  <2> QED
    BY <1>2, <2>3, <2>4, <2>5
<1>8. ReturnsRight'
  <2>1. result[t] = <<>>
    BY <1>1, <1>2 DEF ReturnsRight, L
  <2>2. ASSUME NEW u \in Reads!Threads, u # t
        PROVE  Reads!Returns(u)' = Reads!Returns(u) /\ place'[u] = place[u]
    <3>1. found'[u] = found[u] /\ place'[u] = place[u] /\ (u = 3 => found'[3] = found[3])
      BY <1>1, <1>3, <1>4, <2>2 DEF ReadTypes
    <3> QED
      BY <1>1, <1>3, <3>1 DEF Reads!Returns
  <2>3. printed = <<>>
    BY <1>1, <2>1 DEF ReturnsRight
  <2> QED
    BY <1>1, <1>3, <2>1, <2>2, <2>3 DEF ReturnsRight
<1> QED
  BY <1>6, <1>7, <1>8 DEF ReadsInv

(* Every step of the readers keeps the invariant.                          *)
LEMMA ReadsStep == ReadsInv /\ [Reads!Next]_(Reads!vars) => ReadsInv'
<1> SUFFICES ASSUME ReadsInv, [Reads!Next]_(Reads!vars) PROVE ReadsInv'
  OBVIOUS
<1>1. ReadTypes /\ (task = "4-16" => LoopsRight) /\ ReturnsRight
  BY DEF ReadsInv
<1>2. ASSUME UNCHANGED <<task, numbers, sudoku, place, found>>
      PROVE  /\ (task = "4-16" => LoopsRight)'
             /\ \A t \in Reads!Threads : Reads!Returns(t)' = Reads!Returns(t)
  <2>1. Reads!SumOfFirst' = Reads!SumOfFirst
    BY <1>2 DEF Reads!SumOfFirst
  <2>2. (task = "4-16" => LoopsRight)'
    BY <1>1, <1>2, <2>1 DEF LoopsRight
  <2>3. Reads!Row' = Reads!Row /\ Reads!Col' = Reads!Col /\ Reads!Sub' = Reads!Sub
    BY <1>2 DEF Reads!Row, Reads!Col, Reads!Sub
  <2> QED
    BY <1>2, <2>2, <2>3 DEF Reads!Returns
<1>3. CASE UNCHANGED Reads!vars
  <2>1. UNCHANGED <<task, numbers, sudoku, place, found, result, printed>>
    BY <1>3 DEF Reads!vars
  <2>2. ReadTypes' /\ ReturnsRight'
    BY <1>1, <1>2, <2>1 DEF ReadTypes, ReturnsRight
  <2> QED
    BY <1>2, <2>1, <2>2 DEF ReadsInv
<1>4. ASSUME NEW t \in Reads!Threads, Reads!Return(t) PROVE ReadsInv'
  <2>1. /\ result[t] = <<>> /\ (task = "4-16" => place[t] = Len(numbers))
        /\ result' = [result EXCEPT ![t] = <<Reads!Returns(t)>>]
        /\ UNCHANGED <<task, numbers, sudoku, place, found, printed>>
    BY <1>4 DEF Reads!Return, Reads!None
  <2>2. Reads!Returns(t) \in Int
    BY <1>1, ReturnsNumber
  <2>3. ReadTypes'
    BY <1>1, <2>1, <2>2 DEF ReadTypes
  <2>4. printed = <<>>
    BY <1>1, <2>1 DEF ReturnsRight
  <2>5. ReturnsRight'
    BY <1>1, <1>2, <2>1, <2>4 DEF ReturnsRight, ReadTypes
  <2> QED
    BY <1>2, <2>1, <2>3, <2>5 DEF ReadsInv
<1>5. ASSUME Reads!PrintAll PROVE ReadsInv'
  <2> DEFINE values == [t \in Reads!Threads |-> Reads!Returns(t)]
  <2>1. /\ \A t \in Reads!Threads : result[t] # <<>>
        /\ UNCHANGED <<task, numbers, sudoku, place, found, result>>
    BY <1>5 DEF Reads!PrintAll, Reads!None
  <2>2. printed' = IF task = "4-16" THEN values ELSE Reads!And(values)
    <3>1. \A t \in Reads!Threads : result[t][1] = Reads!Returns(t)
      BY <1>1, <2>1 DEF ReturnsRight
    <3>2. [t \in Reads!Threads |-> result[t][1]] = values
      BY <3>1
    <3> HIDE DEF values
    <3> QED
      BY <1>5, <3>2 DEF Reads!PrintAll
  <2>3. values \in Seq(Int)
    <3>1. \A t \in Reads!Threads : Reads!Returns(t) \in Int
      BY <1>1, ReturnsNumber
    <3>2. values \in [1 .. 3 -> Int]
      BY <3>1 DEF Reads!Threads
    <3> QED
      BY <3>2
  <2>4. Reads!And(values) \in Seq(Int)
    BY DEF Reads!And
  <2>5. ReadTypes'
    BY <1>1, <2>1, <2>2, <2>3, <2>4 DEF ReadTypes
  <2>6. ReturnsRight'
    <3>1. values' = values
      BY <1>2, <2>1
    <3>2. Reads!And(values') = Reads!And(values)
      BY <3>1
    <3> QED
      BY <1>1, <1>2, <2>1, <2>2, <3>1, <3>2 DEF ReturnsRight
  <2> QED
    BY <1>2, <2>1, <2>5, <2>6 DEF ReadsInv
<1> QED
  BY <1>3, <1>4, <1>5, LoopStep DEF Reads!Next

(* What the division of 4-16.c leaves.                                      *)
LEMMA RestOfQuotient ==
  ASSUME NEW a \in Int, NEW b \in Nat, b > 0
  PROVE  LET rest == a - Reads!Quotient(a, b) * b
         IN  rest \in 1 - b .. b - 1 /\ rest * a >= 0
<1> DEFINE rest == a - Reads!Quotient(a, b) * b
<1>1. CASE a >= 0
  <2>1. a % b \in 0 .. b - 1 /\ a \div b \in Int /\ a = b * (a \div b) + (a % b)
    BY QuotientOf
  <2>2. rest = a % b
    BY <1>1, <2>1 DEF Reads!Quotient
  <2>3. (a % b) * a >= 0
    BY <1>1, <2>1
  <2> QED
    BY <2>1, <2>2, <2>3
<1>2. CASE a < 0
  <2> DEFINE c == -a
  <2>1. c % b \in 0 .. b - 1 /\ c \div b \in Int /\ c = b * (c \div b) + (c % b)
    BY QuotientOf
  <2>2. rest = -(c % b)
    <3>1. Reads!Quotient(a, b) = -(c \div b)
      BY <1>2 DEF Reads!Quotient
    <3>2. Reads!Quotient(a, b) * b = -(b * (c \div b))
      BY <2>1, <3>1
    <3> QED
      BY <2>1, <3>2
  <2>3. rest * a = (c % b) * c
    BY <2>1, <2>2
  <2>4. (c % b) * c >= 0
    BY <1>2, <2>1
  <2> QED
    BY <2>1, <2>2, <2>3, <2>4
<1> QED
  BY <1>1, <1>2

(* The three results at the ends of the loops.                             *)
LEMMA SummaryIsRight ==
  ASSUME ReadsInv, task = "4-16", printed # <<>>
  PROVE  Reads!IsSummary(printed[1], printed[2], printed[3])
<1> DEFINE L == Len(numbers)
           total == Reads!SumOfFirst[L]
<1>1. ReadTypes /\ LoopsRight /\ ReturnsRight
  BY DEF ReadsInv
<1>2. L \in Nat /\ L > 0 /\ DOMAIN numbers = 1 .. L
  <2>1. numbers \in Seq(Int) /\ numbers # <<>>
    BY <1>1 DEF ReadTypes
  <2> QED
    BY <2>1
<1>3. \A t \in {1, 2, 3} : place[t] = L /\ printed[t] = Reads!Returns(t)
  BY <1>1 DEF ReturnsRight, Reads!Threads
<1>4. /\ printed[1] = found[1] /\ printed[2] = found[2]
      /\ printed[3] = Reads!Quotient(Sums!Wrapped(total), L)
  <2>1. found[3] = Sums!Wrapped(total)
    BY <1>1, <1>3 DEF LoopsRight
  <2> HIDE DEF total
  <2> QED
    BY <1>3, <2>1 DEF Reads!Returns
<1>5. total \in Int
  <2>1. numbers \in Seq(Int)
    BY <1>1 DEF ReadTypes
  <2>2. L \in 0 .. L
    <3> HIDE DEF L
    <3> QED
      BY <1>2
  <2> QED
    BY <2>1, <2>2, SumOfFirstIs
<1>6. ASSUME total \in Reads!Ints
      PROVE  /\ total - printed[3] * L \in 1 - L .. L - 1
             /\ (total - printed[3] * L) * total >= 0
  <2>1. -MaxInt - 1 <= total /\ total <= MaxInt
    BY <1>5, <1>6, SumsNumbers DEF Reads!Ints
  <2>2. printed[3] = Reads!Quotient(total, L)
    <3> HIDE DEF total
    <3> QED
      BY <1>4, <1>5, <2>1, WrappedSame
  <2> QED
    BY <1>2, <1>5, <2>2, RestOfQuotient
<1>7. /\ \E k \in 1 .. L : printed[1] = numbers[k]
      /\ \E k \in 1 .. L : printed[2] = numbers[k]
      /\ \A k \in 1 .. L : printed[2] <= numbers[k] /\ numbers[k] <= printed[1]
  BY <1>1, <1>2, <1>3, <1>4 DEF LoopsRight
<1> HIDE DEF L, total
<1> QED
  BY <1>2, <1>6, <1>7 DEF Reads!IsSummary, L, total

-----------------------------------------------------------------------------
(* The sudoku.  As many cells as numbers: none is twice if and only if all *)
(* are there.                                                              *)
LEMMA NoneTwice ==
  ASSUME NEW c \in [Reads!Places -> 1 .. SquareSide * SquareSide]
  PROVE  ~Reads!Repeats(c) <=> {c[k] : k \in Reads!Places} = 1 .. SquareSide * SquareSide
<1> DEFINE n == SquareSide * SquareSide
           P == Reads!Places
           All == 1 .. n
<1>1. n \in Nat /\ P = 0 .. n - 1
  BY ProgramsAssumption DEF Reads!ReadersAssumption, Reads!Places
<1>2. c \in [P -> All]
  OBVIOUS
<1>3. ~Reads!Repeats(c) <=> \A k \in P : \A m \in 0 .. k - 1 : c[k] # c[m]
  BY DEF Reads!Repeats
<1> HIDE DEF n, P
<1>4. /\ IsFiniteSet(P) /\ IsFiniteSet(All)
      /\ Cardinality(P) = n /\ Cardinality(All) = n
  BY <1>1, FS_Interval
<1> HIDE DEF All
<1>5. c \in Injection(P, All) <=> c \in Surjection(P, All)
  BY <1>4, FS_Injection, FS_Surjection
<1>6. c \in Injection(P, All) <=> \A k \in P : \A m \in 0 .. k - 1 : c[k] # c[m]
  <2>1. c \in Injection(P, All) <=> \A k, m \in P : c[k] = c[m] => k = m
    BY <1>2 DEF Injection, IsInjective
  <2>2. ASSUME \A k \in P : \A m \in 0 .. k - 1 : c[k] # c[m],
               NEW k \in P, NEW m \in P, c[k] = c[m]
        PROVE  k = m
    <3>1. k \in Int /\ m \in Int /\ k >= 0 /\ m >= 0
      BY <1>1
    <3>2. CASE k < m
      BY <2>2, <3>1, <3>2
    <3>3. CASE m < k
      BY <2>2, <3>1, <3>3
    <3> QED
      BY <3>1, <3>2, <3>3
  <2>3. ASSUME \A k, m \in P : c[k] = c[m] => k = m,
               NEW k \in P, NEW m \in 0 .. k - 1
        PROVE  c[k] # c[m]
    <3>1. m \in P /\ m # k
      BY <1>1
    <3> QED
      BY <2>3, <3>1
  <2> QED
    BY <2>1, <2>2, <2>3
<1>7. c \in Surjection(P, All) <=> {c[k] : k \in P} = All
  <2>1. c \in Surjection(P, All) <=> \A v \in All : \E k \in P : c[k] = v
    BY <1>2 DEF Surjection
  <2>2. {c[k] : k \in P} \subseteq All
    BY <1>2
  <2> QED
    BY <2>1, <2>2
<1> QED
  BY <1>3, <1>5, <1>6, <1>7 DEF P, All, n

(* A cell, or a square, of the sudoku by its number, row by row.           *)
LEMMA PlaceOf ==
  /\ SquareSide \in Nat /\ SquareSide > 0
  /\ \A k \in Reads!Places :
         /\ k \div SquareSide \in 0 .. SquareSide - 1
         /\ k % SquareSide \in 0 .. SquareSide - 1
  /\ \A a, b \in 0 .. SquareSide - 1 :
         /\ a * SquareSide + b \in Reads!Places
         /\ (a * SquareSide + b) \div SquareSide = a
         /\ (a * SquareSide + b) % SquareSide = b
<1> DEFINE S == SquareSide
<1>1. S \in Nat /\ S > 0 /\ \A k : k \in Reads!Places <=> k \in Nat /\ k < S * S
  BY ProgramsAssumption DEF Reads!ReadersAssumption, Reads!Places
<1> HIDE DEF S
<1>2. ASSUME NEW k \in Reads!Places
      PROVE  k \div S \in 0 .. S - 1 /\ k % S \in 0 .. S - 1
  <2>1. k \div S \in Int /\ k % S \in 0 .. S - 1 /\ k = S * (k \div S) + (k % S)
    BY <1>1, QuotientOf
  <2> DEFINE q == k \div S
             r == k % S
  <2> HIDE DEF q, r
  <2>2. q \in Int /\ r \in 0 .. S - 1 /\ k = S * q + r /\ k >= 0 /\ k < S * S
    BY <1>1, <2>1 DEF q, r
  <2>3. q >= 0
    <3>1. q < 0 => S * q <= -S
      BY <1>1, <2>2
    <3> QED
      BY <1>1, <2>2, <3>1
  <2>4. q < S
    <3>1. q >= S => S * q >= S * S
      BY <1>1, <2>2
    <3> QED
      BY <1>1, <2>2, <3>1
  <2> QED
    BY <1>1, <2>2, <2>3, <2>4 DEF q, r
<1>3. ASSUME NEW a \in 0 .. S - 1, NEW b \in 0 .. S - 1
      PROVE  /\ a * S + b \in Reads!Places
             /\ (a * S + b) \div S = a /\ (a * S + b) % S = b
  <2> DEFINE k == a * S + b
  <2>1. k \in Nat /\ k < S * S
    <3>1. a * S \in Nat /\ a * S <= (S - 1) * S /\ (S - 1) * S = S * S - S
      BY <1>1
    <3>2. b >= 0 /\ b <= S - 1 /\ b \in Int /\ S * S \in Int
      BY <1>1
    <3> QED
      BY <1>1, <3>1, <3>2
  <2>2. k \div S \in Int /\ k % S \in 0 .. S - 1 /\ k = S * (k \div S) + (k % S)
    <3> HIDE DEF k
    <3> QED
      BY <1>1, <2>1, QuotientOf
  <2> DEFINE q == (k \div S) - a
  <2>3. q \in Int /\ b - (k % S) = S * q
    BY <1>1, <2>2
  <2>4. q = 0
    <3> HIDE DEF q, k
    <3> QED
      BY <1>1, <2>2, <2>3, OnlyZero
  <2> QED
    BY <1>1, <2>1, <2>2, <2>3, <2>4
<1> QED
  BY <1>1, <1>2, <1>3 DEF S

(* The numbers of a small square, as sub() reads them and as they are.     *)
SquareCells(k) ==
    [q \in Reads!Places |->
        sudoku[Reads!SubX(k) + (q \div SquareSide)][Reads!SubY(k) + (q % SquareSide)]]

Square(a, b) ==
    {sudoku[x][y] : x \in a * SquareSide .. (a + 1) * SquareSide - 1,
                    y \in b * SquareSide .. (b + 1) * SquareSide - 1}

(* sub() reads each small square, each cell of it once.                    *)
LEMMA SquareOf ==
  ASSUME NEW k \in Reads!Places
  PROVE  /\ \A q \in Reads!Places :
                /\ Reads!SubX(k) + (q \div SquareSide) \in Reads!Places
                /\ Reads!SubY(k) + (q % SquareSide) \in Reads!Places
         /\ {SquareCells(k)[q] : q \in Reads!Places} =
                Square(k \div SquareSide, k % SquareSide)
<1> DEFINE S == SquareSide
           a == k \div S
           b == k % S
<1>1. /\ S \in Nat /\ S > 0 /\ a \in 0 .. S - 1 /\ b \in 0 .. S - 1
      /\ Reads!SubX(k) = a * S /\ Reads!SubY(k) = b * S
  BY PlaceOf DEF Reads!SubX, Reads!SubY
<1> HIDE DEF a, b, S
<1>2. ASSUME NEW q \in Reads!Places
      PROVE  /\ q \div S \in 0 .. S - 1 /\ q % S \in 0 .. S - 1
             /\ a * S + (q \div S) \in Reads!Places
             /\ b * S + (q % S) \in Reads!Places
  BY <1>1, PlaceOf DEF S
<1>3. /\ a * S \in Nat /\ b * S \in Nat
      /\ (a + 1) * S = a * S + S /\ (b + 1) * S = b * S + S
  BY <1>1
<1>4. ASSUME NEW q \in Reads!Places PROVE SquareCells(k)[q] \in Square(a, b)
  <2> DEFINE x == a * S + (q \div S)
             y == b * S + (q % S)
  <2>1. x \in a * S .. (a + 1) * S - 1 /\ y \in b * S .. (b + 1) * S - 1
    BY <1>1, <1>2, <1>3
  <2>2. SquareCells(k)[q] = sudoku[x][y]
    BY <1>1 DEF SquareCells, S
  <2> QED
    BY <2>1, <2>2 DEF Square, S
<1>5. ASSUME NEW x \in a * S .. (a + 1) * S - 1, NEW y \in b * S .. (b + 1) * S - 1
      PROVE  \E q \in Reads!Places : SquareCells(k)[q] = sudoku[x][y]
  <2> DEFINE u == x - a * S
             v == y - b * S
             q == u * S + v
  <2>1. /\ u \in 0 .. S - 1 /\ v \in 0 .. S - 1
        /\ x = a * S + u /\ y = b * S + v
    BY <1>1, <1>3
  <2>2. q \in Reads!Places /\ q \div S = u /\ q % S = v
    <3> HIDE DEF u, v
    <3> QED
      BY <2>1, PlaceOf DEF S
  <2> HIDE DEF u, v, q
  <2>3. SquareCells(k)[q] = sudoku[a * S + (q \div S)][b * S + (q % S)]
    BY <1>1, <2>2 DEF SquareCells, S
  <2>4. SquareCells(k)[q] = sudoku[x][y]
    BY <2>1, <2>2, <2>3
  <2> QED
    BY <2>2, <2>4
<1>6. {SquareCells(k)[q] : q \in Reads!Places} = Square(a, b)
  <2>1. {SquareCells(k)[q] : q \in Reads!Places} \subseteq Square(a, b)
    BY <1>4
  <2>2. Square(a, b) \subseteq {SquareCells(k)[q] : q \in Reads!Places}
    BY <1>5 DEF Square, S
  <2> QED
    BY <2>1, <2>2
<1> QED
  BY <1>1, <1>2, <1>6 DEF S, a, b

(* No repetition in nine numbers out of nine: all of them are there.       *)
LEMMA SudokuIsRight ==
  ASSUME ReadsInv, task = "projects1", printed # <<>>
  PROVE  printed = <<1>> <=> Reads!IsSolution
<1> DEFINE P == Reads!Places
           All == 1 .. SquareSide * SquareSide
<1>1. sudoku \in [P -> [P -> All]]
  BY ProgramsAssumption DEF ReadsInv, ReadTypes, Reads!ReadersAssumption
<1>2. printed = <<1>> <=> Reads!Row = 1 /\ Reads!Col = 1 /\ Reads!Sub = 1
  <2> DEFINE values == [t \in Reads!Threads |-> Reads!Returns(t)]
  <2>1. printed = Reads!And(values)
    BY DEF ReadsInv, ReturnsRight
  <2>2. printed = <<1>> <=> \A t \in Reads!Threads : Reads!Returns(t) = 1
    BY <2>1 DEF Reads!And
  <2> QED
    BY <2>2 DEF Reads!Threads, Reads!Returns
<1>3. Reads!Row = 1 <=> \A k \in P : {sudoku[k][y] : y \in P} = All
  <2>1. \A k \in P : ~Reads!Repeats(sudoku[k]) <=> {sudoku[k][y] : y \in P} = All
    BY <1>1, NoneTwice
  <2>2. Reads!Row = 1 <=> \A k \in P : ~Reads!Repeats(sudoku[k])
    BY DEF Reads!Row, Reads!OneIfNone
  <2> QED
    BY <2>1, <2>2
<1>4. Reads!Col = 1 <=> \A k \in P : {sudoku[x][k] : x \in P} = All
  <2>1. ASSUME NEW k \in P
        PROVE  ~Reads!Repeats([q \in P |-> sudoku[q][k]]) <=>
                   {sudoku[x][k] : x \in P} = All
    <3> DEFINE c == [q \in P |-> sudoku[q][k]]
    <3>1. c \in [P -> All] /\ {c[x] : x \in P} = {sudoku[x][k] : x \in P}
      BY <1>1
    <3> HIDE DEF c
    <3> QED
      BY <3>1, NoneTwice DEF c
  <2>2. Reads!Col = 1 <=> \A k \in P : ~Reads!Repeats([q \in P |-> sudoku[q][k]])
    <3> DEFINE R(k) == Reads!Repeats([q \in P |-> sudoku[q][k]])
    <3>1. Reads!Col = IF \E k \in P : R(k) THEN 0 ELSE 1
      BY Zenon DEF Reads!Col, Reads!OneIfNone
    <3> HIDE DEF R
    <3>2. Reads!Col = 1 <=> \A k \in P : ~R(k)
      BY <3>1
    <3> QED
      BY <3>2 DEF R
  <2> QED
    BY <2>1, <2>2
<1>5. Reads!Sub = 1 <=> \A a, b \in 0 .. SquareSide - 1 : Square(a, b) = All
  <2>1. ASSUME NEW k \in P
        PROVE  ~Reads!Repeats(SquareCells(k)) <=>
                   Square(k \div SquareSide, k % SquareSide) = All
    <3>1. SquareCells(k) \in [P -> All]
      BY <1>1, SquareOf DEF SquareCells
    <3>2. {SquareCells(k)[q] : q \in P} = Square(k \div SquareSide, k % SquareSide)
      BY SquareOf
    <3> QED
      BY <3>1, <3>2, NoneTwice
  <2>2. Reads!Sub = 1 <=> \A k \in P : ~Reads!Repeats(SquareCells(k))
    <3> DEFINE R(k) == Reads!Repeats(SquareCells(k))
    <3>1. Reads!Sub = IF \E k \in P : R(k) THEN 0 ELSE 1
      BY Zenon DEF Reads!Sub, Reads!OneIfNone, SquareCells
    <3> HIDE DEF R
    <3>2. Reads!Sub = 1 <=> \A k \in P : ~R(k)
      BY <3>1
    <3> QED
      BY <3>2 DEF R
  <2>3. ASSUME NEW a \in 0 .. SquareSide - 1, NEW b \in 0 .. SquareSide - 1
        PROVE  \E k \in P : k \div SquareSide = a /\ k % SquareSide = b
    BY PlaceOf
  <2>4. \A k \in P : /\ k \div SquareSide \in 0 .. SquareSide - 1
                     /\ k % SquareSide \in 0 .. SquareSide - 1
    BY PlaceOf
  <2> HIDE DEF All, P
  <2> QED
    BY <2>1, <2>2, <2>3, <2>4
<1> QED
  BY <1>2, <1>3, <1>4, <1>5, SMTT(30) DEF Reads!IsSolution, Square

(* Both programs together.                                                 *)
LEMMA ResultsAreRight == ReadsInv => Reads!PrintsResults
BY SummaryIsRight, SudokuIsRight
   DEF Reads!PrintsResults, ReadsInv, ReadTypes

(* 4-16.c prints the largest and the smallest of all lists of ints that    *)
(* its array holds, and the average if an int holds their sum; projects1.c *)
(* prints whether the sudoku is right, for squares of all sizes.           *)
THEOREM ResultsPrinted == ReadsSpec => []Reads!PrintsResults
BY ReadsInit, ReadsStep, ResultsAreRight, PTL DEF ReadsSpec

-----------------------------------------------------------------------------
(* A run of MCPrograms is a run of one of these programs, or none.         *)
ResultInv ==
    /\ program = "barrier" => BarrierInv
    /\ program = "merge" => MergeInv
    /\ SumsInv /\ ReadsInv

(* The program that is chosen begins as it would by itself.                *)
LEMMA ResultInit == Init => ResultInv
<1> SUFFICES ASSUME Init PROVE ResultInv
  OBVIOUS
<1>1. program = "barrier" => BarrierInv
  BY BarrierInit DEF Init
<1>2. program = "merge" => MergeInv
  BY MergeInit DEF Init
<1>3. SumsInv
  <2>1. Sums!Inputs /\ Sums!Start
    BY DEF Init, Sums!Inputs, Sums!Counters
  <2> QED
    BY <2>1, SumsInit
<1>4. ReadsInv
  <2>1. CASE program = "reads"
    BY <2>1, ReadsInit DEF Init
  <2>2. CASE program # "reads"
    <3>1. /\ <<0>> \in Seq(Int) /\ <<0>> # <<>> /\ 0 \in Reads!Ints
          /\ \A k \in 1 .. Len(<<0>>) : <<0>>[k] = 0
      BY SumsNumbers DEF Reads!Ints
    <3> QED
      BY <2>2, <3>1, ReadsBegin DEF Init
  <2> QED
    BY <2>1, <2>2
<1> QED
  BY <1>1, <1>2, <1>3, <1>4 DEF ResultInv

(* A step of MCPrograms is one of the chosen program.                      *)
LEMMA ResultStep == ResultInv /\ [Next]_vars => ResultInv'
<1> SUFFICES ASSUME ResultInv, [Next]_vars PROVE ResultInv'
  OBVIOUS
<1>1. /\ UNCHANGED vars => UNCHANGED <<program, sorterVars, sumVars, readVars>>
      /\ UNCHANGED otherVars => UNCHANGED <<sumVars, readVars>>
      /\ UNCHANGED sumVars => UNCHANGED Sums!vars
      /\ UNCHANGED readVars => UNCHANGED Reads!vars
  BY DEF vars, otherVars, sumVars, readVars, Sums!vars, Reads!vars
<1>2. UNCHANGED sorterVars => UNCHANGED Barrier!vars /\ UNCHANGED Merge!vars
  BY DEF sorterVars, sortVars, barrierVars, mergeVars, Barrier!vars, Merge!vars,
         Barrier!sortVars, Merge!sortVars
<1>3. [Sums!Next]_(Sums!vars) /\ [Reads!Next]_(Reads!vars)
  BY <1>1 DEF Next, InBuffer, InTA, InMap, InTable, InBarrier, InMerge, InSums,
              InReads, InBridge, InBank
<1>4. SumsInv' /\ ReadsInv'
  BY <1>3, SumsStep, ReadsStep DEF ResultInv
<1>5. program' = program
  BY <1>1 DEF Next, InBuffer, InTA, InMap, InTable, InBarrier, InMerge, InSums,
              InReads, InBridge, InBank
<1>6. ASSUME program = "barrier" PROVE BarrierInv'
  <2>1. [Barrier!Next]_(Barrier!vars)
    BY <1>1, <1>2, <1>6 DEF Next, InBuffer, InTA, InMap, InTable, InBarrier, InMerge,
                            InSums, InReads, InBridge, InBank
  <2> QED
    BY <1>6, <2>1, BarrierStep DEF ResultInv
<1>7. ASSUME program = "merge" PROVE MergeInv'
  <2>1. [Merge!Next]_(Merge!vars)
    BY <1>1, <1>2, <1>7 DEF Next, InBuffer, InTA, InMap, InTable, InBarrier, InMerge,
                            InSums, InReads, InBridge, InBank
  <2> QED
    BY <1>7, <2>1, MergeStep DEF ResultInv
<1> QED
  BY <1>4, <1>5, <1>6, <1>7 DEF ResultInv

(* What the programs print is right, although their threads share arrays   *)
(* and counts: for arrays, lists and squares of all sizes, any number of   *)
(* threads that count, and any size of an int.  Counts and sums are right  *)
(* as far as an int holds them, and of a list that does not fit into the   *)
(* array of 4-16.c nothing is said.                                        *)
THEOREM AllPrintRight == Spec => []PrintsRight
<1>1. ResultInv => PrintsRight
  BY RowsArePrinted, ArrayIsPrinted, SumsAddUp, ResultsAreRight
     DEF ResultInv, PrintsRight
<1> QED
  BY <1>1, ResultInit, ResultStep, PTL DEF Spec

(* The types of the four programs.                                          *)
LEMMA BarrierTyped == BarrierInv => Barrier!TypeOK
<1> SUFFICES ASSUME BarrierInv PROVE Barrier!TypeOK
  OBVIOUS
<1>1. /\ SortTypes(BarrierLength, Barrier!Sorters)
      /\ Segments(BarrierLength, Barrier!Sorters)
      /\ BarrierLength \in Nat
  BY RowsAre DEF BarrierInv, SortInv
<1>2. Barrier!SortTypeOK
  <2>1. ASSUME NEW t \in Barrier!Sorters, tpc[t] \in {"compare", "store"}
        PROVE  i[t] \in Barrier!Cells /\ j[t] \in Barrier!Cells
    BY <1>1, <2>1 DEF SortTypes, Segments, Sorting, Barrier!Cells
  <2> QED
    BY <1>1, <2>1 DEF Barrier!SortTypeOK, SortTypes, Cell, Barrier!Cells
<1> QED
  BY <1>2 DEF BarrierInv, BarrierControl, BarrierOut, Barrier!TypeOK

(* Where the indices of merge() are at all times.                           *)
MergeRange ==
    /\ input \in [Cell(MergeLength) -> Values]
    /\ tpc \in [{0, 1} -> {"unborn", "compare", "store", "sorted"}]
    /\ joined \in 0 .. 2 /\ left \in 0 .. Merge!Mid /\ right \in 0 .. MergeLength
    /\ Len(merged) <= MergeLength

(* The indices stay in the halves, also when the merge is over.            *)
LEMMA MergeRangeStep ==
  MergeInv /\ MergeInv' /\ MergeRange /\ [Merge!Next]_(Merge!vars) => MergeRange'
<1> SUFFICES ASSUME MergeInv, MergeInv', MergeRange, [Merge!Next]_(Merge!vars)
             PROVE  MergeRange'
  OBVIOUS
<1>1. /\ MergeLength \in Nat /\ Merge!Mid \in Nat /\ Merge!Mid < MergeLength
      /\ SortThreads = 2
  BY HalvesAre
<1>2. main' = "merge" => MergeRange'
  <2> SUFFICES ASSUME main' = "merge" PROVE MergeRange'
    OBVIOUS
  <2>1. SortTypes(MergeLength, {0, 1})' /\ Merging'
    BY DEF MergeInv, SortInv
  <2>2. /\ left' \in 0 .. Merge!Mid /\ right' \in Merge!Mid .. MergeLength
        /\ Len(merged') + Merge!Mid = left' + right' /\ Len(merged') \in Nat
    BY <2>1 DEF Merging, Merge!Mid
  <2>3. joined' \in 0 .. 2
    <3>1. joined' = joined \/ (main = "join" /\ joined' = joined + 1)
      BY <1>1 DEF Merge!Next, Merge!Main, Merge!Create, Merge!Join, Merge!MergeLeft,
             Merge!MergeRight, Merge!CopyBack, Merge!PrintArray, Merge!Sort, Merge!vars
    <3> QED
      BY <3>1 DEF MergeRange, MergeInv, MergeControl
  <2>4. right' \in 0 .. MergeLength /\ Len(merged') <= MergeLength
    BY <1>1, <2>2
  <2>5. input' \in [Cell(MergeLength) -> Values]
        /\ tpc' \in [{0, 1} -> {"unborn", "compare", "store", "sorted"}]
    BY <2>1 DEF SortTypes
  <2>6. Merge!Mid' = Merge!Mid
    BY DEF Merge!Mid
  <2> QED
    BY <2>2, <2>3, <2>4, <2>5, <2>6 DEF MergeRange, Cell
<1>3. main' \in {"create", "join"} => MergeRange'
  <2> SUFFICES ASSUME main' \in {"create", "join"} PROVE MergeRange'
    OBVIOUS
  <2>1. SortTypes(MergeLength, {0, 1})' /\ MergeControl'
    BY DEF MergeInv, SortInv
  <2>2. joined' \in 0 .. 2 /\ left' = 0 /\ merged' = <<>>
    BY <2>1 DEF MergeControl
  <2>3. right' = right \/ right' = Merge!Mid
    BY DEF Merge!Next, Merge!Main, Merge!Create, Merge!Join, Merge!MergeLeft,
           Merge!MergeRight, Merge!CopyBack, Merge!PrintArray, Merge!Sort, Merge!vars
  <2>4. right' \in 0 .. MergeLength /\ left' \in 0 .. Merge!Mid
    BY <1>1, <2>2, <2>3 DEF MergeRange
  <2>5. Len(merged') <= MergeLength
    BY <1>1, <2>2
  <2>6. input' \in [Cell(MergeLength) -> Values]
        /\ tpc' \in [{0, 1} -> {"unborn", "compare", "store", "sorted"}]
    BY <2>1 DEF SortTypes
  <2>7. Merge!Mid' = Merge!Mid
    BY DEF Merge!Mid
  <2> QED
    BY <2>2, <2>4, <2>5, <2>6, <2>7 DEF MergeRange, Cell
<1>4. main' \in {"copied", "print"} => MergeRange'
  <2> SUFFICES ASSUME main' \in {"copied", "print"} PROVE MergeRange'
    OBVIOUS
  <2>1. \A t \in {0, 1} : tpc'[t] = "sorted"
    BY DEF MergeInv, MergeControl
  <2>2. UNCHANGED <<input, joined, left, right, merged>>
        /\ tpc' \in [{0, 1} -> {"unborn", "compare", "store", "sorted"}]
    BY HalvesAre DEF MergeRange, Merge!Next, Merge!Main, Merge!Create, Merge!Join,
           Merge!MergeLeft, Merge!MergeRight, Merge!CopyBack, Merge!PrintArray,
           Merge!Sort, Merge!vars, Merge!sortVars,
           Merge!Sorts, Merge!InOrder, Merge!Exchange, Merge!Exchanged, Merge!Advance
  <2> QED
    BY <2>2 DEF MergeRange, Merge!Mid, Cell
<1>5. main' \in {"create", "join", "merge", "copied", "print"}
  BY DEF MergeInv, MergeControl
<1> QED
  BY <1>2, <1>3, <1>4, <1>5

(* The types of projects2.c follow.                                        *)
LEMMA MergeTyped == MergeInv /\ MergeRange => Merge!TypeOK
<1> SUFFICES ASSUME MergeInv, MergeRange PROVE Merge!TypeOK
  OBVIOUS
<1>1. MergeLength \in Nat /\ Merge!Sorters = {0, 1} /\ SortThreads = 2
  BY HalvesAre
<1>2. Merge!SortTypeOK
  <2>1. CASE main \in {"copied", "print"}
    <3>1. num \in [Cell(MergeLength) -> Values] /\ \A t \in {0, 1} : tpc[t] = "sorted"
      BY <2>1 DEF MergeInv, MergeControl, AllSorted
    <3> QED
      BY <1>1, <3>1 DEF Merge!SortTypeOK, MergeRange, Cell, Merge!Cells
  <2>2. CASE main \notin {"copied", "print"}
    <3>1. SortTypes(MergeLength, {0, 1}) /\ Segments(MergeLength, {0, 1})
      BY <2>2 DEF MergeInv, SortInv
    <3>2. ASSUME NEW t \in {0, 1}, tpc[t] \in {"compare", "store"}
          PROVE  i[t] \in Merge!Cells /\ j[t] \in Merge!Cells
      BY <1>1, <3>1, <3>2 DEF SortTypes, Segments, Sorting, Merge!Cells
    <3> QED
      BY <1>1, <3>1, <3>2 DEF Merge!SortTypeOK, SortTypes, Cell, Merge!Cells
  <2> QED
    BY <2>1, <2>2
<1> QED
  BY <1>1, <1>2 DEF MergeInv, MergeControl, MergeRange, Merge!TypeOK

(* The types of the counters are in their invariant.                       *)
LEMMA CountersTyped == SumsInv => Sums!TypeOK
BY DEF SumsInv, SumTypes, Sums!TypeOK

(* So are those of the readers.                                            *)
LEMMA ReadersTyped == ReadsInv => Reads!TypeOK
<1> SUFFICES ASSUME ReadsInv PROVE Reads!TypeOK
  OBVIOUS
<1>1. place \in [Reads!Threads -> 0 .. Len(numbers)] /\ found \in [Reads!Threads -> Reads!Ints]
      /\ printed \in Seq(Int)
  BY DEF ReadsInv, ReadTypes
<1>2. result \in [Reads!Threads -> Seq(Int)]
  <2>1. \A t \in Reads!Threads : result[t] \in {<<>>} \cup {<<v>> : v \in Int}
    BY DEF ReadsInv, ReadTypes
  <2>2. \A v \in Int : <<v>> \in Seq(Int)
    OBVIOUS
  <2>3. <<>> \in Seq(Int)
    OBVIOUS
  <2>4. \A t \in Reads!Threads : result[t] \in Seq(Int)
    BY <2>1, <2>2, <2>3
  <2>5. result = [t \in Reads!Threads |-> result[t]]
    BY DEF ReadsInv, ReadTypes
  <2> QED
    BY <2>4, <2>5
<1> QED
  BY <1>1, <1>2 DEF Reads!TypeOK

(* The types of the four programs together.                                 *)
ResultTypes ==
    /\ program = "barrier" => Barrier!TypeOK
    /\ program = "merge" => Merge!TypeOK
    /\ Sums!TypeOK /\ Reads!TypeOK

(* The programs that print results keep their types, for all their sizes:  *)
(* no index of the sorters or of merge() leaves the array.                 *)
THEOREM ResultsTyped == Spec => []ResultTypes
<1>1. Init => (program = "merge" => MergeRange)
  <2> SUFFICES ASSUME Init, program = "merge" PROVE MergeRange
    OBVIOUS
  <2> QED
    BY HalvesAre DEF Init, MergeRange, Merge!Init, Merge!SortInit, Cell, Merge!Cells
<1>2. ResultInv /\ ResultInv' /\ (program = "merge" => MergeRange) /\ [Next]_vars =>
          (program = "merge" => MergeRange)'
  <2> SUFFICES ASSUME ResultInv, ResultInv', program = "merge" => MergeRange, [Next]_vars,
                      program' = "merge"
               PROVE  MergeRange'
    OBVIOUS
  <2>1. /\ UNCHANGED vars => UNCHANGED <<program, sorterVars>>
        /\ UNCHANGED sorterVars => UNCHANGED Merge!vars
    BY DEF vars, sorterVars, sortVars, mergeVars, Merge!vars, Merge!sortVars
  <2>2. program = "merge"
    BY <2>1 DEF Next, InBuffer, InTA, InMap, InTable, InBarrier, InMerge, InSums,
                InReads, InBridge, InBank
  <2>3. [Merge!Next]_(Merge!vars)
    BY <2>1, <2>2 DEF Next, InBuffer, InTA, InMap, InTable, InBarrier, InMerge, InSums,
                      InReads, InBridge, InBank
  <2> QED
    BY <2>2, <2>3, MergeRangeStep DEF ResultInv
<1>3. ResultInv /\ (program = "merge" => MergeRange) => ResultTypes
  BY BarrierTyped, MergeTyped, CountersTyped, ReadersTyped DEF ResultInv, ResultTypes
<1> QED
  BY <1>1, <1>2, <1>3, ResultInit, ResultStep, PTL DEF Spec
=============================================================================
