------------------------------- MODULE Readers ------------------------------
(***************************************************************************)
(* Three threads that only read what they share, and whose results main()  *)
(* takes as it joins them: the largest, the smallest and the average of    *)
(* some numbers (4-16.c), and the rows, columns and squares of a sudoku    *)
(* (projects1.c).                                                          *)
(***************************************************************************)
EXTENDS Sequences, MachineInt

CONSTANTS
    Lists,      \* the numbers that may be given to 4-16.c
    SIZE,       \* the places of its array (512 in the code)
    Sudokus,    \* the squares of projects1.c
    Side        \* of the small squares (3 in the code)

Places == 0 .. Side * Side - 1

ReadersAssumption ==
    /\ MaxInt \in Nat /\ SIZE \in Nat
    /\ \A s \in Lists : s # <<>> /\ s \in Seq(Ints)
    /\ Side \in Nat \ {0}
    /\ \A s \in Sudokus : s \in [Places -> [Places -> 1 .. Side * Side]]

VARIABLES
    task,
    num, sudoku,    \* the input
    i, ret,         \* of each thread of 4-16.c: its loop variable, and *ret
    result,         \* of each thread, None until it returns
    printed         \* what main() prints

vars == <<task, num, sudoku, i, ret, result, printed>>

Threads == {1, 2, 3}
None == <<>>

Inputs ==
    \/ task = "4-16" /\ num \in Lists /\ sudoku = <<>>
    \/ task = "projects1" /\ num = <<0>> /\ sudoku \in Sudokus

Start ==
    /\ i = [t \in Threads |-> 0] /\ ret = [t \in Threads |-> 0]
    /\ result = [t \in Threads |-> None] /\ printed = <<>>

(* main() does not check that the numbers fit into num: what it does after *)
(* it has stored past the end of it is not defined, and not followed here. *)
Overrun == task = "4-16" /\ Len(num) > SIZE

-----------------------------------------------------------------------------
(* my_max(), my_min(), my_avg(): the first two begin with the first        *)
(* number, the third with 0; division is towards 0.                        *)
Max(t) == IF ret[t] > num[i[t] + 1] THEN ret[t] ELSE num[i[t] + 1]
Min(t) == IF ret[t] < num[i[t] + 1] THEN ret[t] ELSE num[i[t] + 1]
Add(t) == Wrapped(ret[t] + num[i[t] + 1])
Quotient(a, b) == IF a >= 0 THEN a \div b ELSE -((-a) \div b)

Loop(t) ==
    /\ task = "4-16" /\ ~Overrun
    /\ i[t] < Len(num)
    /\ i' = [i EXCEPT ![t] = @ + 1]
    /\ ret' = [ret EXCEPT ![t] =
           IF t = 3 THEN Add(t)
           ELSE IF i[t] = 0 THEN num[1]
           ELSE IF t = 1 THEN Max(t) ELSE Min(t)]
    /\ UNCHANGED <<task, num, sudoku, result, printed>>

(* row(), col(), sub(): 0 if a cell repeats one that has been marked in    *)
(* temp, which is cleared for each row, column and square.                 *)
Repeats(cell) == \E k \in Places : \E m \in 0 .. k - 1 : cell[k] = cell[m]
OneIfNone(wrong) == IF wrong THEN 0 ELSE 1

Row == OneIfNone(\E k \in Places : Repeats(sudoku[k]))
Col == OneIfNone(\E k \in Places : Repeats([j \in Places |-> sudoku[j][k]]))

(* Mistake: all squares in the first row of squares.                       *)
Flat(k) == 0
SubX(k) == (k \div Side) * Side
SubY(k) == (k % Side) * Side
Sub == OneIfNone(\E k \in Places :
    Repeats([j \in Places |-> sudoku[SubX(k) + (j \div Side)][SubY(k) + (j % Side)]]))

Returns(t) ==
    IF task # "4-16" THEN <<Row, Col, Sub>>[t]
    ELSE IF t = 3 THEN Quotient(ret[3], Len(num)) ELSE ret[t]

Return(t) ==
    /\ result[t] = None /\ ~Overrun
    /\ task = "4-16" => i[t] = Len(num)
    /\ result' = [result EXCEPT ![t] = <<Returns(t)>>]
    /\ UNCHANGED <<task, num, sudoku, i, ret, printed>>

(* main() after its three joins.                                           *)
And(s) == IF \A k \in DOMAIN s : s[k] = 1 THEN <<1>> ELSE <<0>>

PrintAll ==
    /\ printed = <<>>
    /\ \A t \in Threads : result[t] # None
    /\ LET values == [t \in Threads |-> result[t][1]]
       IN  printed' = IF task = "4-16" THEN values ELSE And(values)
    /\ UNCHANGED <<task, num, sudoku, i, ret, result>>

Next == PrintAll \/ \E t \in Threads : Loop(t) \/ Return(t)

-----------------------------------------------------------------------------
(* Properties.                                                             *)

TypeOK ==
    /\ i \in [Threads -> 0 .. Len(num)] /\ ret \in [Threads -> Ints]
    /\ result \in [Threads -> Seq(Int)] /\ printed \in Seq(Int)

Over == printed # <<>> \/ Overrun

(* What the numbers and the squares of the sudoku are to be.               *)
IsSolution ==
    LET all == 1 .. Side * Side IN
    /\ \A x \in Places : {sudoku[x][y] : y \in Places} = all
    /\ \A y \in Places : {sudoku[x][y] : x \in Places} = all
    /\ \A a, b \in 0 .. Side - 1 :
           {sudoku[x][y] : x \in a * Side .. (a + 1) * Side - 1,
                           y \in b * Side .. (b + 1) * Side - 1} = all

(* The sum of the first k numbers.                                          *)
SumOfFirst[k \in 0 .. Len(num)] ==
    IF k = 0 THEN 0 ELSE SumOfFirst[k - 1] + num[k]

IsSummary(max, min, avg) ==
    LET all == {num[k] : k \in DOMAIN num}
        total == SumOfFirst[Len(num)]
        rest == total - avg * Len(num)
    IN  /\ max \in all /\ min \in all /\ \A x \in all : min <= x /\ x <= max
        /\ total \in Ints => rest \in 1 - Len(num) .. Len(num) - 1 /\ rest * total >= 0

(* main() prints what the threads were to find out, and the average if an  *)
(* int holds the sum; a sudoku is right only if no row, column or square   *)
(* repeats a number.                                                       *)
PrintsResults ==
    printed # <<>> =>
        IF task = "4-16" THEN IsSummary(printed[1], printed[2], printed[3])
        ELSE printed = <<1>> <=> IsSolution
=============================================================================
