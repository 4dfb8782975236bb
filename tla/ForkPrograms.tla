---------------------------- MODULE ForkPrograms ----------------------------
(***************************************************************************)
(* The programs that fork one child and exchange something with it:        *)
(* pingpong.c of Lab 1, 3-12, 3-14, 3-15, 3-19 and 3-20 of chapter 3, and  *)
(* the second homework (code.c), where the child has a thread.  A program  *)
(* is the sequence of system calls of each of its processes, and one       *)
(* interpreter does what pipe, fork, read, write, close, wait and join do. *)
(***************************************************************************)
EXTENDS Sequences, FiniteSets, MachineInt

CONSTANTS
    Names,      \* the programs
    Arguments,  \* the argument of 3-14 and 3-15
    StrMax,     \* the largest number that fits into str of 3-15 (999999999)
    Room,       \* so many numbers fit into its shared memory, whatever they are
    X           \* x of code.c (100)

ForkProgramsAssumption ==
    /\ Names \subseteq {"pingpong", "3-12", "3-14", "3-15", "3-19", "3-20", "homework"}
    /\ MaxInt \in Nat /\ Arguments \subseteq Ints
    /\ StrMax \in Nat /\ Room \in Nat
    /\ X \in Nat /\ X < MaxInt /\ X * (X + 1) <= 2 * MaxInt

Procs == {"parent", "child", "thread"}
Pipes == {1, 2}

VARIABLES
    name,
    n,          \* the argument
    ip,         \* of each process: the call it is at, 0 before it is created
    fds,        \* of each process: its pipe ends
    pipes,      \* of each pipe: what has been written and not read, by whom
    buffer,     \* of each process: its bytes
    num,        \* of each process: its numbers (n, or i and *sum)
    shm,        \* the shared memory, or the file that is written
    out,        \* what is printed
    heard,      \* of each process: those it has read from (history)
    aborted     \* those who have reported an error, or have been killed

vars == <<name, n, ip, fds, pipes, buffer, num, shm, out, heard, aborted>>

R(k) == <<"r", k>>
W(k) == <<"w", k>>

-----------------------------------------------------------------------------
(* A mistake: the parent reads before the child has ended.                 *)
HastyParent ==
    << <<"pipe", 1>>, <<"fork", 0>>, <<"put", "a">>, <<"write", 1>>,
       <<"close", W(1)>>, <<"read", 1>>, <<"close", R(1)>>, <<"print", "pong">> >>

(* pingpong.c: the one pipe goes both ways.                                *)
PingParent ==
    << <<"pipe", 1>>, <<"fork", 0>>, <<"put", "a">>, <<"write", 1>>,
       <<"close", W(1)>>, <<"wait", "child">>, <<"read", 1>>, <<"close", R(1)>>,
       <<"print", "pong">> >>

PingChild ==
    << <<"read", 1>>, <<"close", R(1)>>, <<"print", "ping">>, <<"write", 1>>,
       <<"close", W(1)>> >>

(* 3-12.c *)
IdleParent == << <<"fork", 0>>, <<"print", "parent">>, <<"wait", "child">> >>
IdleChild == << <<"print", "child">>, <<"sleep", 30>> >>

(* 3-14.c: the child prints the 3n + 1 sequence.                           *)
WaitThenPrint == << <<"fork", 0>>, <<"wait", "child">>, <<"print", "parent">> >>
CollatzChild == << <<"print", "child">>, <<"number", <<n, 0>> >>, <<"collatz", "console">> >>

(* 3-15.c: it writes it to shared memory, for the parent to print.         *)
ShareParent == WaitThenPrint \o << <<"showShm", 0>> >>
ShareChild == << <<"print", "child">>, <<"number", <<n, 0>> >>, <<"collatz", "shm">> >>

(* 3-19.c: the child swaps the case of the letters.                        *)
SwapParent ==
    << <<"pipe", 1>>, <<"pipe", 2>>, <<"fork", 0>>, <<"close", R(1)>>,
       <<"put", "Hello_World">>, <<"write", 1>>, <<"close", W(1)>>,
       <<"wait", "child">>, <<"read", 2>>, <<"show", 0>>, <<"close", R(2)>> >>

SwapChild ==
    << <<"close", W(1)>>, <<"read", 1>>, <<"close", R(1)>>, <<"swap", 0>>,
       <<"close", R(2)>>, <<"write", 2>>, <<"close", W(2)>> >>

(* 3-20.c: the parent reads file1, whose text the 512 bytes of the buffer  *)
(* hold, and the child writes file2, which is new.                         *)
CopyParent ==
    << <<"pipe", 1>>, <<"fork", 0>>, <<"print", "parent_start">>, <<"close", R(1)>>,
       <<"put", "file1">>, <<"write", 1>>, <<"close", W(1)>>, <<"wait", "child">>,
       <<"print", "parent_end">> >>

CopyChild ==
    << <<"print", "child_start">>, <<"close", W(1)>>, <<"read", 1>>, <<"close", R(1)>>,
       <<"store", 0>>, <<"print", "child_end">> >>

(* code.c: the child sums up in a thread.                                  *)
SumChild ==
    << <<"print", "child">>, <<"create", 0>>, <<"wait", "thread">>, <<"showSum", 0>> >>
MySum == << <<"number", <<1, 0>> >>, <<"sum", 0>> >>

Program(parent, child, thread) ==
    [parent |-> parent, child |-> child, thread |-> thread]

Code ==
    CASE name = "pingpong" -> Program(PingParent, PingChild, <<>>)
      [] name = "3-12" -> Program(IdleParent, IdleChild, <<>>)
      [] name = "3-14" -> Program(WaitThenPrint, CollatzChild, <<>>)
      [] name = "3-15" -> Program(ShareParent, ShareChild, <<>>)
      [] name = "3-19" -> Program(SwapParent, SwapChild, <<>>)
      [] name = "3-20" -> Program(CopyParent, CopyChild, <<>>)
      [] name = "homework" -> Program(WaitThenPrint, SumChild, MySum)

-----------------------------------------------------------------------------
Inputs == name \in Names /\ n \in Arguments

Start ==
    /\ ip = [p \in Procs |-> IF p = "parent" THEN 1 ELSE 0]
    /\ fds = [p \in Procs |-> {}]
    /\ pipes = [k \in Pipes |-> <<>>]
    /\ buffer = [p \in Procs |-> ""]
    /\ num = [p \in Procs |-> <<0, 0>>]
    /\ shm = <<>> /\ out = <<>>
    /\ heard = [p \in Procs |-> {}]
    /\ aborted = {}

Ended(p) == ip[p] > Len(Code[p]) \/ p \in aborted
At(p, op) == ip[p] > 0 /\ ~Ended(p) /\ Code[p][ip[p]][1] = op
Arg(p) == Code[p][ip[p]][2]
Goes(p) == ip' = [ip EXCEPT ![p] = @ + 1]
Gets(p, x) == num' = [num EXCEPT ![p] = x]

(* Exit closes what is open.                                               *)
IsOpen(end) == \E p \in Procs : ~Ended(p) /\ end \in fds[p]

-----------------------------------------------------------------------------
(* The calls that change the descriptors.                                  *)
Pipe(p) ==
    /\ At(p, "pipe")
    /\ fds' = [fds EXCEPT ![p] = @ \cup {R(Arg(p)), W(Arg(p))}]
    /\ Goes(p)
    /\ UNCHANGED <<name, n, pipes, buffer, num, shm, out, heard, aborted>>

Close(p) ==
    /\ At(p, "close")
    /\ fds' = [fds EXCEPT ![p] = @ \ {Arg(p)}]
    /\ Goes(p)
    /\ UNCHANGED <<name, n, pipes, buffer, num, shm, out, heard, aborted>>

Fork(p) ==
    /\ At(p, "fork")
    /\ fds' = [fds EXCEPT !["child"] = fds[p]]
    /\ ip' = [ip EXCEPT ![p] = @ + 1, !["child"] = 1]
    /\ UNCHANGED <<name, n, pipes, buffer, num, shm, out, heard, aborted>>

-----------------------------------------------------------------------------
Write(p) ==
    /\ At(p, "write")
    /\ IsOpen(R(Arg(p)))
    /\ pipes' = [pipes EXCEPT ![Arg(p)] = Append(@, <<p, buffer[p]>>)]
    /\ Goes(p)
    /\ UNCHANGED <<name, n, fds, buffer, num, shm, out, heard, aborted>>

(* read() waits for bytes, or for the last writer to close.                *)
Read(p) ==
    /\ At(p, "read")
    /\ pipes[Arg(p)] # <<>>
    /\ LET message == Head(pipes[Arg(p)]) IN
           /\ heard' = [heard EXCEPT ![p] = @ \cup {message[1]}]
           /\ buffer' = [buffer EXCEPT ![p] = message[2]]
    /\ pipes' = [pipes EXCEPT ![Arg(p)] = Tail(@)]
    /\ Goes(p)
    /\ UNCHANGED <<name, n, fds, num, shm, out, aborted>>

(* What ends a process early: fork() fails; only in pingpong.c, read() has *)
(* met the end of the pipe; nobody can read what is written; there is no   *)
(* shared memory to map.                                                   *)
Dies(gone) ==
    /\ aborted' = aborted \cup gone
    /\ UNCHANGED <<name, n, ip, fds, pipes, buffer, num, shm, out, heard>>

ForkFails(p) == At(p, "fork") /\ Dies({p})

ReadsEnd(p) ==
    At(p, "read") /\ pipes[Arg(p)] = <<>> /\ ~IsOpen(W(Arg(p))) /\ Dies({p})

WriteFails(p) == At(p, "write") /\ ~IsOpen(R(Arg(p))) /\ Dies({p})

NotShared(p) == At(p, "showShm") /\ shm = <<>> /\ Dies({p})

(* Somebody kills the child, and its thread with it.                       *)
Killed ==
    /\ ip["child"] > 0 /\ ~Ended("child")
    /\ Dies({"child", "thread"})

(* wait(), and pthread_join().                                             *)
Wait(p) ==
    /\ At(p, "wait")
    /\ Ended(Arg(p))
    /\ Goes(p)
    /\ UNCHANGED <<name, n, fds, pipes, buffer, num, shm, out, heard, aborted>>

-----------------------------------------------------------------------------
(* One turn of while (n > 1), which prints or stores n, or its end.        *)
Successor(x) == IF x % 2 = 0 THEN x \div 2 ELSE Wrapped(3 * x + 1)

CollatzTurn(p) ==
    /\ At(p, "collatz")
    /\ LET x == num[p][1] IN
           /\ IF Arg(p) = "shm" THEN shm' = Append(shm, x) /\ UNCHANGED out
              ELSE out' = Append(out, x) /\ UNCHANGED shm
           /\ IF x > 1 THEN Gets(p, <<Successor(x), 0>>) /\ UNCHANGED ip
              ELSE Goes(p) /\ UNCHANGED num
    /\ UNCHANGED <<name, n, fds, pipes, buffer, heard, aborted>>

(* In 3-15.c neither the str for one number nor the shared memory for all  *)
(* is checked: what is written past their ends may do nothing, or be the   *)
(* end of the child.                                                       *)
Overruns(p) ==
    /\ At(p, "collatz") /\ Arg(p) = "shm"
    /\ num[p][1] > StrMax \/ Len(shm) >= Room
    /\ Dies({p})

(* One turn of for (i = 1; i <= *x; i++).                                  *)
SumTurn(p) ==
    /\ At(p, "sum")
    /\ LET i == num[p][1] IN
           IF i <= X THEN Gets(p, <<i + 1, num[p][2] + i>>) /\ UNCHANGED ip
           ELSE Goes(p) /\ UNCHANGED num
    /\ UNCHANGED <<name, n, fds, pipes, buffer, shm, out, heard, aborted>>

(* What touches only memory, the console or a file.  A text is one value,  *)
(* with _ for its blanks.                                                  *)
SetBuffer(p, x) == buffer' = [buffer EXCEPT ![p] = x] /\ UNCHANGED <<num, shm, out>>
Prints(x) == out' = Append(out, x) /\ UNCHANGED <<buffer, num, shm>>
SwapCase == [x \in {"Hello_World"} |-> "hELLO_wORLD"]

Local(p) ==
    /\ \/ At(p, "put") /\ SetBuffer(p, Arg(p))
       \/ At(p, "swap") /\ SetBuffer(p, SwapCase[buffer[p]])
       \/ At(p, "number") /\ Gets(p, Arg(p)) /\ UNCHANGED <<buffer, shm, out>>
       \/ At(p, "store") /\ shm' = <<buffer[p]>> /\ UNCHANGED <<buffer, num, out>>
       \/ At(p, "print") /\ Prints(Arg(p))
       \/ At(p, "show") /\ Prints(buffer[p])
       \/ At(p, "showShm") /\ shm # <<>> /\ Prints(shm)
       \/ At(p, "showSum") /\ Prints(num["thread"][2])
       \/ At(p, "sleep") /\ UNCHANGED <<buffer, num, shm, out>>
    /\ Goes(p)
    /\ UNCHANGED <<name, n, fds, pipes, heard, aborted>>

(* pthread_create() *)
Create(p) ==
    /\ At(p, "create")
    /\ ip' = [ip EXCEPT ![p] = @ + 1, !["thread"] = 1]
    /\ UNCHANGED <<name, n, fds, pipes, buffer, num, shm, out, heard, aborted>>

Step(p) ==
    \/ Pipe(p) \/ Close(p) \/ Fork(p) \/ Create(p) \/ Write(p) \/ Read(p) \/ Wait(p)
    \/ ForkFails(p) \/ WriteFails(p) \/ ReadsEnd(p) \/ NotShared(p)
    \/ Overruns(p)
    \/ CollatzTurn(p) \/ SumTurn(p) \/ Local(p)

Next == Killed \/ \E p \in Procs : Step(p)

-----------------------------------------------------------------------------
(* Properties.                                                             *)

TypeOK ==
    /\ \A p \in Procs : ip[p] \in 0 .. Len(Code[p]) + 1
    /\ \A p \in Procs : fds[p] \subseteq {"r", "w"} \X Pipes
    /\ \A k \in Pipes : Len(pipes[k]) <= 1
    /\ aborted \subseteq Procs

AllEnded == \A p \in Procs : ip[p] > 0 => Ended(p)

(* A number is followed by its half, or by three times itself and one if   *)
(* an int holds that; the first that is not above 1 is the last.           *)
IsCollatz(s) ==
    /\ s # <<>> /\ s[1] = n /\ s[Len(s)] <= 1
    /\ \A i \in 1 .. Len(s) - 1 :
           /\ s[i] > 1
           /\ s[i] % 2 = 0 => 2 * s[i + 1] = s[i]
           /\ s[i] % 2 = 1 /\ 3 * s[i] + 1 <= MaxInt => s[i + 1] = 3 * s[i] + 1

(* What each program is to print, and to leave in its file.                *)
Promise ==
    CASE name = "pingpong" -> out = <<"ping", "pong">>
      [] name = "3-12" -> out \in {<<"child", "parent">>, <<"parent", "child">>}
      [] name = "3-14" -> /\ out[1] = "child" /\ out[Len(out)] = "parent"
                          /\ IsCollatz(SubSeq(out, 2, Len(out) - 1))
      [] name = "3-15" -> out = <<"child", "parent", shm>> /\ IsCollatz(shm)
      [] name = "3-19" -> out = <<"hELLO_wORLD">>
      [] name = "3-20" -> /\ {out[1], out[2]} = {"child_start", "parent_start"}
                          /\ SubSeq(out, 3, Len(out)) = <<"child_end", "parent_end">>
                          /\ shm = <<"file1">>
      [] name = "homework" -> out = <<"child", (X * (X + 1)) \div 2, "parent">>

(* The processes exchange what they are to exchange: whatever their        *)
(* interleaving the printing is right and in order, a read never gets what *)
(* the same process has written, and the parent ends last.  A child that   *)
(* is killed may leave the parent of pingpong with its own byte.           *)
ExchangesRight ==
    /\ AllEnded /\ aborted = {} => Promise
    /\ "child" \notin aborted => \A p \in Procs : p \notin heard[p]
    /\ Ended("parent") => AllEnded

(* They end, also when the child is killed: but in 3-19.c the parent has   *)
(* the write end of the pipe it reads, and waits for itself.               *)
Over == AllEnded \/ (name = "3-19" /\ "child" \in aborted)
=============================================================================
