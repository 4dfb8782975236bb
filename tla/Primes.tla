------------------------------- MODULE Primes -------------------------------
(***************************************************************************)
(* The concurrent sieve of Lab 1 (primes.c).  Process 0 is main(), process *)
(* k >= 1 runs my_prime(): it keeps the first number it reads, sends the   *)
(* others on to process k + 1 unless its prime divides them, and creates   *)
(* that process when it has read a second number.  Pipe k leads to process *)
(* k.  A pipe ends when nobody has its write end open, and fork() copies   *)
(* every open descriptor, the ends of the older pipes too.                 *)
(***************************************************************************)
EXTENDS Naturals, Sequences, FiniteSets

CONSTANTS
    Last,       \* the last number sent (35 in the code)
    Cap,        \* numbers that a pipe holds
    NOFILE      \* descriptors a process may have open

Procs == 0 .. Last
EOF == 0            \* read() has not returned 4
Standard == 3       \* descriptors 0, 1 and 2 are the console

IsPrime(x) == x > 1 /\ \A d \in 2 .. x - 1 : x % d # 0
PrimesUpTo(x) == {p \in 2 .. x : IsPrime(p)}

(* There is a prime between a prime and its square, as Bertrand's          *)
(* postulate has it.  So the second number that a process reads is a prime *)
(* and never the square of its own: the child it creates has something to  *)
(* read.                                                                   *)
NextPrime ==
    \A p \in PrimesUpTo(Last) :
        p * p <= Last => \E q \in PrimesUpTo(Last) : p < q /\ q < p * p

(* There are descriptors for the primes there are: the program does not    *)
(* test whether pipe() has failed (11 primes and 16 descriptors).          *)
PrimesAssumption ==
    /\ Last \in Nat \ {0, 1} /\ Cap \in Nat \ {0} /\ NOFILE \in Nat
    /\ Standard + Cardinality(PrimesUpTo(Last)) + 1 <= NOFILE
    /\ NextPrime

VARIABLES
    pc,
    fds,        \* of each process, its open pipe ends
    buf,        \* of each pipe, the numbers in it
    prime,      \* the local variables of each process; in main(), next is i
    next,
    printed,    \* the numbers printed, in the order of printing
    status,     \* the exit status
    refused     \* the processes whose fork() has failed (history)

vars == <<pc, fds, buf, prime, next, printed, status, refused>>

R(k) == <<"r", k>>
W(k) == <<"w", k>>

Init ==
    /\ pc = [k \in Procs |-> IF k = 0 THEN "pipe" ELSE "unborn"]
    /\ fds = [k \in Procs |-> {}]
    /\ buf = [k \in Procs |-> <<>>]
    /\ prime = [k \in Procs |-> 0]
    /\ next = [k \in Procs |-> 2]
    /\ printed = <<>>
    /\ status = [k \in Procs |-> 0]
    /\ refused = {}

Goto(k, l) == pc' = [pc EXCEPT ![k] = l]

(* close() in process k.                                                   *)
Closes(k, ends) == fds' = [fds EXCEPT ![k] = @ \ ends]

(* exit(s) closes what is open.                                            *)
Exit(k, s) ==
    /\ Goto(k, "ended")
    /\ status' = [status EXCEPT ![k] = s]
    /\ Closes(k, fds[k])

IsOpen(end) == \E k \in Procs : end \in fds[k]

(* read() on pipe k: x is the number, or EOF; it waits for either.         *)
Receives(k, x) ==
    \/ /\ buf[k] # <<>>
       /\ x = Head(buf[k])
       /\ buf' = [buf EXCEPT ![k] = Tail(@)]
    \/ /\ buf[k] = <<>>
       /\ ~IsOpen(W(k))
       /\ x = EOF
       /\ UNCHANGED buf

-----------------------------------------------------------------------------
(* Mistakes: a child keeps the write end of its own pipe; a multiple of    *)
(* the prime goes on; the second number read is lost (while for do-while); *)
(* the process does not wait; main() sends a number too many; the write    *)
(* end is left open before wait().                                         *)
KeepsBoth(k) == {}
All(k) == TRUE
TakesFirst(k) == "take"
Hurries(k) == TRUE
LeavesOpen(k) == {}
OneMore == next[0] <= Last

ChildCloses(k) == {W(k)}
Wanted(k) == k > 0 => next[k] % prime[k] # 0
LoopStart(k) == "send"
ChildEnded(k) == pc[k + 1] = "ended"
SenderCloses(k) == {W(k + 1)}
MoreNumbers == next[0] < Last
HasRoom(k) == Len(buf[k]) < Cap

-----------------------------------------------------------------------------
(* pipe() and fork(), in main() and in my_prime().                         *)
Pipe(k) ==
    /\ pc[k] = "pipe"
    /\ fds' = [fds EXCEPT ![k] = @ \cup {R(k + 1), W(k + 1)}]
    /\ Goto(k, "fork")
    /\ UNCHANGED <<buf, prime, next, printed, status, refused>>

Fork(k) ==
    /\ pc[k] = "fork"
    /\ pc' = [pc EXCEPT ![k] = "parent", ![k + 1] = "child"]
    /\ fds' = [fds EXCEPT ![k + 1] = fds[k]]
    /\ UNCHANGED <<buf, prime, next, printed, status, refused>>

ForkFails(k) ==
    /\ pc[k] = "fork"
    /\ refused' = refused \cup {k}
    /\ Exit(k, 1)
    /\ UNCHANGED <<buf, prime, next, printed>>

(* The parent closes the read end of the new pipe.                         *)
Parent(k) ==
    /\ pc[k] = "parent"
    /\ Closes(k, {R(k + 1)})
    /\ Goto(k, LoopStart(k))
    /\ UNCHANGED <<buf, prime, next, printed, status, refused>>

-----------------------------------------------------------------------------
(* The start of my_prime(): close(p[1]), the prime, the second number.     *)
Child(k) ==
    /\ pc[k] = "child"
    /\ Closes(k, ChildCloses(k))
    /\ Goto(k, "first")
    /\ UNCHANGED <<buf, prime, next, printed, status, refused>>

First(k) ==
    /\ pc[k] = "first"
    /\ \E x \in 0 .. Last :
           /\ Receives(k, x)
           /\ IF x = EOF
              THEN Exit(k, 1) /\ UNCHANGED <<prime, printed>>
              ELSE /\ prime' = [prime EXCEPT ![k] = x]
                   /\ printed' = Append(printed, x)
                   /\ Goto(k, "second")
                   /\ UNCHANGED <<fds, status>>
    /\ UNCHANGED <<next, refused>>

Second(k) ==
    /\ pc[k] = "second"
    /\ \E x \in 0 .. Last :
           /\ Receives(k, x)
           /\ IF x = EOF
              THEN Exit(k, 0) /\ UNCHANGED next
              ELSE /\ next' = [next EXCEPT ![k] = x]
                   /\ Goto(k, "pipe")
                   /\ UNCHANGED <<fds, status>>
    /\ UNCHANGED <<prime, printed, refused>>

-----------------------------------------------------------------------------
(* The loops: write() waits while the pipe is full; without a reader it    *)
(* fails, at the latest when the pipe is full.                             *)
Send(k) ==
    /\ pc[k] = "send"
    /\ Wanted(k)
    /\ HasRoom(k + 1)
    /\ buf' = [buf EXCEPT ![k + 1] = Append(@, next[k])]
    /\ Goto(k, "take")
    /\ UNCHANGED <<fds, prime, next, printed, status, refused>>

(* main() gives up, my_prime() goes on.                                    *)
SendFails(k) ==
    /\ pc[k] = "send"
    /\ Wanted(k)
    /\ ~IsOpen(R(k + 1))
    /\ IF k = 0 THEN Exit(k, 1) ELSE Goto(k, "take") /\ UNCHANGED <<fds, status>>
    /\ UNCHANGED <<buf, prime, next, printed, refused>>

Skip(k) ==
    /\ pc[k] = "send"
    /\ ~Wanted(k)
    /\ Goto(k, "take")
    /\ UNCHANGED <<fds, buf, prime, next, printed, status, refused>>

(* The next number: main() counts, my_prime() reads.                       *)
TakeMain(k) ==
    /\ pc[k] = "take"
    /\ k = 0
    /\ IF MoreNumbers
       THEN next' = [next EXCEPT ![k] = @ + 1] /\ Goto(k, "send")
       ELSE Goto(k, "closeOut") /\ UNCHANGED next
    /\ UNCHANGED <<fds, buf, prime, printed, status, refused>>

Take(k) ==
    /\ pc[k] = "take"
    /\ k > 0
    /\ \E x \in 0 .. Last :
           /\ Receives(k, x)
           /\ IF x = EOF
              THEN Goto(k, "closeIn") /\ UNCHANGED next
              ELSE next' = [next EXCEPT ![k] = x] /\ Goto(k, "send")
    /\ UNCHANGED <<fds, prime, printed, status, refused>>

CloseIn(k) ==
    /\ pc[k] = "closeIn"
    /\ Closes(k, {R(k)})
    /\ Goto(k, "closeOut")
    /\ UNCHANGED <<buf, prime, next, printed, status, refused>>

CloseOut(k) ==
    /\ pc[k] = "closeOut"
    /\ Closes(k, SenderCloses(k))
    /\ Goto(k, "wait")
    /\ UNCHANGED <<buf, prime, next, printed, status, refused>>

Wait(k) ==
    /\ pc[k] = "wait"
    /\ ChildEnded(k)
    /\ Exit(k, 0)
    /\ UNCHANGED <<buf, prime, next, printed, refused>>

-----------------------------------------------------------------------------
Proc(k) ==
    \/ Pipe(k) \/ Fork(k) \/ ForkFails(k) \/ Parent(k)
    \/ Child(k) \/ First(k) \/ Second(k)
    \/ Send(k) \/ SendFails(k) \/ Skip(k) \/ TakeMain(k) \/ Take(k)
    \/ CloseIn(k) \/ CloseOut(k) \/ Wait(k)

Next == \E k \in Procs : Proc(k)

-----------------------------------------------------------------------------
(* Properties.                                                             *)

TypeOK ==
    /\ pc \in [Procs -> {"unborn", "pipe", "fork", "parent", "child", "first",
                         "second", "send", "take", "closeIn", "closeOut",
                         "wait", "ended"}]
    /\ fds \in [Procs -> SUBSET ({"r", "w"} \X (1 .. Last))]
    /\ buf \in [Procs -> Seq(2 .. Last)] /\ \A k \in Procs : Len(buf[k]) <= Cap
    /\ prime \in [Procs -> 0 .. Last] /\ next \in [Procs -> 2 .. Last]
    /\ printed \in Seq(2 .. Last)
    /\ status \in [Procs -> {0, 1}] /\ refused \subseteq Procs

(* The sieve prints the primes, in their order and without a gap, although *)
(* every process prints for itself.  Unless a fork() failed, all of them   *)
(* are printed when main() ends, and no process reports an error: nobody   *)
(* reads the end of a pipe for its prime.                                  *)
PrintsPrimes ==
    {printed[i] : i \in DOMAIN printed} =
        (IF printed = <<>> THEN {} ELSE PrimesUpTo(printed[Len(printed)]))
    /\ \A i \in 2 .. Len(printed) : printed[i - 1] < printed[i]
    /\ refused = {} =>
          /\ pc[0] = "ended" => Len(printed) = Cardinality(PrimesUpTo(Last))
          /\ \A k \in Procs : status[k] = 0

(* The descriptors fit although each process keeps the read ends of all    *)
(* its ancestors: the program does not test whether pipe() has failed.     *)
DescriptorsFit == \A k \in Procs : Standard + Cardinality(fds[k]) <= NOFILE

(* A process ends after the processes below it, also after a failure, so   *)
(* that the shell has the console back only when all has been printed.     *)
EndsInOrder ==
    \A k \in Procs \ {Last} : pc[k] = "ended" => pc[k + 1] \in {"unborn", "ended"}

(* The program ends: every pipe has its end, whoever has inherited it.     *)
Over == \A k \in Procs : pc[k] \in {"unborn", "ended"}
=============================================================================
