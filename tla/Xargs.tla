------------------------------- MODULE Xargs --------------------------------
(***************************************************************************)
(* xargs of Lab 1 (xargs.c): for every line of the standard input, run the *)
(* command with its own arguments and then the words of the line.  The     *)
(* array of arguments is one and the same for all lines, ends at a null    *)
(* pointer, and is filled without a look at its size.                      *)
(***************************************************************************)
EXTENDS Integers, Sequences, FiniteSets

CONSTANTS
    Given,      \* argv[1 ..]: the command and its arguments
    Texts,      \* what a line may be: sequences of "a" and "blank"
    MaxLines,
    MaxLine,    \* the last place in buf (1023 in the code)
    MaxArg      \* the places of the array, arg (MAXARG: 32)

Null == <<"null">>
Places == 1 .. MaxArg

(* exec() has refused as many arguments as the array has places.           *)
XargsAssumption ==
    /\ Given \in Seq({Given[k] : k \in DOMAIN Given}) /\ Given # <<>>
    /\ \A k \in DOMAIN Given : Given[k] # Null
    /\ MaxLines \in Nat /\ MaxLine \in Nat \ {0}
    /\ MaxArg \in Nat /\ Len(Given) < MaxArg
    /\ \A s \in Texts : s \in Seq({"a", "blank"}) /\ Len(s) <= MaxLine

VARIABLES
    lines,      \* the standard input
    closed,     \* its last line ends with a newline
    at,         \* the line to read
    arg,        \* the array: words, and Null
    pc,
    child,      \* the arguments of the child that runs, or <<>>
    ran,        \* the arguments given to exec(), in order (history)
    refused,    \* the lines for which fork() has failed (history)
    status

vars == <<lines, closed, at, arg, pc, child, ran, refused, status>>

Inputs ==
    /\ lines \in UNION {[1 .. k -> Texts] : k \in 0 .. MaxLines}
    /\ closed \in BOOLEAN

Start ==
    /\ at = 1
    /\ arg = [k \in Places |-> IF k <= Len(Given) THEN Given[k] ELSE Null]
    /\ pc = "read"
    /\ child = <<>> /\ ran = <<>> /\ refused = {}
    /\ status = 0

-----------------------------------------------------------------------------
(* The second loop of readline(): a word goes up to the next blank, and    *)
(* the next one starts behind the blanks.                                  *)
Skip(s, k, bytes) == CHOOSE e \in k .. Len(s) + 1 :
    /\ \A m \in k .. e - 1 : s[m] \in bytes
    /\ e <= Len(s) => s[e] \notin bytes

Split(s) ==
    LET from[k \in 1 .. Len(s) + 1] ==
            IF k > Len(s) THEN <<>>
            ELSE LET e == Skip(s, k, {"a"})
                 IN  <<SubSeq(s, k, e - 1)>> \o from[Skip(s, e, {"blank"})]
    IN  from[1]

(* The first loop reads the byte of the newline into buf, too.             *)
Bytes(k) == Len(lines[k]) + IF k < Len(lines) \/ closed THEN 1 ELSE 0
TooLong(k) == Bytes(k) > MaxLine

(* Mistake: main() does not end the array, which may hold the rest of a    *)
(* longer line.                                                            *)
Unended(a, arc) == a
Ended(a, arc) == [a EXCEPT ![arc + 1] = Null]

(* The words and the null pointer behind them have places in the array.    *)
Fits(words) == Len(Given) + Len(words) < MaxArg

Written(words) ==
    LET g == Len(Given)
    IN  [k \in Places |-> IF k - g \in DOMAIN words THEN words[k - g] ELSE arg[k]]

Filled(words) == Ended(Written(words), Len(Given) + Len(words))

(* What exec() takes from the array.                                       *)
Passed ==
    SubSeq(arg, 1, (CHOOSE k \in Places : arg[k] = Null
                        /\ \A m \in 1 .. k - 1 : arg[m] # Null) - 1)

-----------------------------------------------------------------------------
(* The first loop of readline() and the return without a line, ...         *)
Stops ==
    /\ pc = "read"
    /\ at <= Len(lines) => lines[at] = <<>>
    /\ pc' = "exit"
    /\ UNCHANGED <<lines, closed, at, arg, child, ran, refused, status>>

GivesUp ==
    /\ pc = "read"
    /\ at <= Len(lines) /\ TooLong(at)
    /\ pc' = "exit" /\ status' = 1
    /\ UNCHANGED <<lines, closed, at, arg, child, ran, refused>>

(* ... with one, and main() up to fork().                                  *)
ReadLine ==
    /\ pc = "read"
    /\ at <= Len(lines) /\ lines[at] # <<>> /\ ~TooLong(at)
    /\ Fits(Split(lines[at]))
    /\ arg' = Filled(Split(lines[at]))
    /\ pc' = "fork"
    /\ UNCHANGED <<lines, closed, at, child, ran, refused, status>>

(* A line of too many words: the last of them, or the null pointer, is     *)
(* written behind the array.  What follows is undefined and not modelled.  *)
Overruns ==
    /\ pc = "read"
    /\ at <= Len(lines) /\ lines[at] # <<>> /\ ~TooLong(at)
    /\ ~Fits(Split(lines[at]))
    /\ arg' = Written(Split(lines[at]))
    /\ pc' = "overrun"
    /\ UNCHANGED <<lines, closed, at, child, ran, refused, status>>

Fork ==
    /\ pc = "fork"
    /\ child' = Passed
    /\ pc' = "wait"
    /\ UNCHANGED <<lines, closed, at, arg, ran, refused, status>>

(* -1 is not 0: main() goes on to a wait() that has nobody to wait for.    *)
ForkFails ==
    /\ pc = "fork"
    /\ refused' = refused \cup {at}
    /\ pc' = "wait"
    /\ UNCHANGED <<lines, closed, at, arg, child, ran, status>>

(* exec(), and the end of the command or of the child it has failed in.    *)
Exec ==
    /\ child # <<>>
    /\ ran' = Append(ran, child)
    /\ child' = <<>>
    /\ UNCHANGED <<lines, closed, at, arg, pc, refused, status>>

Wait ==
    /\ pc = "wait"
    /\ child = <<>>
    /\ at' = at + 1
    /\ pc' = "read"
    /\ UNCHANGED <<lines, closed, arg, child, ran, refused, status>>

Main == Stops \/ GivesUp \/ ReadLine \/ Overruns \/ Fork \/ ForkFails \/ Wait

Next == Main \/ Exec

-----------------------------------------------------------------------------
(* Properties.                                                             *)

TypeOK ==
    /\ at \in 1 .. Len(lines) + 1
    /\ pc \in {"read", "fork", "wait", "exit", "overrun"}
    /\ arg \in [Places -> {Given[k] : k \in DOMAIN Given} \cup {Null} \cup Seq({"a"})]
    /\ \A k \in Places : k > Len(Given) => arg[k] = Null \/ arg[k] \in Seq({"a"})
    /\ refused \subseteq DOMAIN lines /\ status \in {0, 1}

(* The words of a line, by where they start: a blank at the start of the   *)
(* line makes an empty first word.                                         *)
Starts(s) == {1} \cup {k \in 2 .. Len(s) : s[k] # "blank" /\ s[k - 1] = "blank"}
Nth(A, m) == CHOOSE k \in A : Cardinality({x \in A : x < k}) = m - 1
Word(s, k) ==
    SubSeq(s, k, k - 1 + Cardinality({e \in k .. Len(s) : \A x \in k .. e : s[x] # "blank"}))
Words(s) == [m \in 1 .. Cardinality(Starts(s)) |-> Word(s, Nth(Starts(s), m))]

(* The command runs once for each line up to an empty one, one that is too *)
(* long for buf or one of too many words for arg, in their order and one   *)
(* at a time, with its own arguments and the words of this line only, but  *)
(* not for a line whose fork() has failed.                                 *)
Runnable(k) == lines[k] # <<>> /\ ~TooLong(k) /\ Fits(Words(lines[k]))

Stop == CHOOSE k \in 1 .. Len(lines) + 1 :
    /\ k <= Len(lines) => ~Runnable(k)
    /\ \A m \in 1 .. k - 1 : Runnable(m)

RunOnceEach(kept) ==
    /\ Len(ran) = Cardinality(kept)
    /\ \A k \in kept :
           ran[Cardinality({j \in kept : j <= k})] = Given \o Words(lines[k])

(* At an empty line it ends well, at one that is too long it reports that, *)
(* and it writes behind the array at the first one of too many words.      *)
XargsRuns ==
    /\ child # <<>> => pc = "wait"
    /\ pc \in {"exit", "overrun"} => RunOnceEach((1 .. Stop - 1) \ refused)
    /\ pc = "exit" =>
          /\ Stop <= Len(lines) => lines[Stop] = <<>> \/ TooLong(Stop)
          /\ status = 1 <=> Stop <= Len(lines) /\ TooLong(Stop)
    /\ pc = "overrun" =>
          Stop <= Len(lines) /\ ~TooLong(Stop) /\ ~Fits(Words(lines[Stop]))

(* It comes to its end: it never waits for a child that is not there.      *)
Over == pc \in {"exit", "overrun"}
=============================================================================
