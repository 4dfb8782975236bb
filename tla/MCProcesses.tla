---------------------------- MODULE MCProcesses ----------------------------
(***************************************************************************)
(* The programs of several processes, for one run of TLC: the sieve, the   *)
(* programs with one child, xargs, find and the shell.  A behaviour is one *)
(* of the program it has chosen at the start.                              *)
(***************************************************************************)
EXTENDS Integers, Sequences, DirectoryTrees

CONSTANTS
    Last, Cap, NOFILE,                          \* Primes
    Names, Arguments, MaxInt, StrMax, Room, X,  \* ForkPrograms
    Given, Texts, MaxLines, MaxLine, MaxArg,    \* Xargs
    Trees, Descriptors, MaxPath, MaxUnlinks,    \* Find
    Slots, Processes, MaxCommands               \* Shell

VARIABLES
    program,
    pc, fds, buf, prime, next, printed, status, refused,
    name, n, ip, ends, pipes, buffer, num, shm, out, heard, aborted,
    lines, closed, at, arg, xargsPc, child, ran, unforked, xargsStatus,
    tree, gone, findPc, entry, stack, open, found, findStatus,
    state, parent, history, index, flag, read, started, commands

Sieve == INSTANCE Primes
Frk == INSTANCE ForkPrograms WITH fds <- ends
Xrg == INSTANCE Xargs WITH pc <- xargsPc, refused <- unforked, status <- xargsStatus
Fnd == INSTANCE Find WITH
           NOFILE <- Descriptors, pc <- findPc, out <- found, status <- findStatus
Osh == INSTANCE Shell

ASSUME ProcessesAssumption ==
    /\ Sieve!PrimesAssumption /\ Frk!ForkProgramsAssumption /\ Xrg!XargsAssumption
    /\ Fnd!FindAssumption /\ Osh!ShellAssumption

MCArguments == {-1, 0, 1, 2, 3, 6, 7}
MCGiven == << <<"command">>, <<"option">> >>
MCTexts == UNION {[1 .. k -> {"a", "blank"}] : k \in 0 .. 5}
MCTrees == TreesOf(1) \cup TreesOf(5)

sieveVars == <<pc, fds, buf, prime, next, printed, status, refused>>
forkVars == <<name, n, ip, ends, pipes, buffer, num, shm, out, heard, aborted>>
xargsVars == <<lines, closed, at, arg, xargsPc, child, ran, unforked, xargsStatus>>
findVars == <<tree, gone, findPc, entry, stack, open, found, findStatus>>
shellVars == <<state, parent, history, index, flag, read, started, commands>>
vars == <<program, sieveVars, forkVars, xargsVars, findVars, shellVars>>

(* Only the program that runs has inputs to choose.                        *)
Init ==
    /\ program \in {"primes", "fork", "xargs", "find", "shell"}
    /\ IF program = "fork" THEN Frk!Inputs ELSE name = "3-12" /\ n = 0
    /\ IF program = "xargs" THEN Xrg!Inputs ELSE lines = <<>> /\ closed = TRUE
    /\ IF program = "find" THEN tree \in Trees
       ELSE tree = [parent |-> <<0>>, kind |-> <<"dir">>]
    /\ Sieve!Init /\ Frk!Start /\ Xrg!Start /\ Fnd!Start /\ Osh!Init

InSieve ==
    program = "primes" /\ UNCHANGED <<program, forkVars, xargsVars, findVars, shellVars>>
InFork ==
    program = "fork" /\ UNCHANGED <<program, sieveVars, xargsVars, findVars, shellVars>>
InXargs ==
    program = "xargs" /\ UNCHANGED <<program, sieveVars, forkVars, findVars, shellVars>>
InFind ==
    program = "find" /\ UNCHANGED <<program, sieveVars, forkVars, xargsVars, shellVars>>
InShell ==
    program = "shell" /\ UNCHANGED <<program, sieveVars, forkVars, xargsVars, findVars>>

Next ==
    \/ InSieve /\ Sieve!Next
    \/ InFork /\ Frk!Next
    \/ InXargs /\ Xrg!Next
    \/ InFind /\ Fnd!Next
    \/ InShell /\ Osh!Next

(* Each process takes its steps; nobody has to kill or to unlink.          *)
Spec ==
    /\ Init /\ [][Next]_vars
    /\ \A k \in Sieve!Procs : WF_vars(InSieve /\ Sieve!Proc(k))
    /\ \A p \in Frk!Procs : WF_vars(InFork /\ Frk!Step(p))
    /\ WF_vars(InXargs /\ Xrg!Main) /\ WF_vars(InXargs /\ Xrg!Exec)
    /\ WF_vars(InFind /\ Fnd!Walk)

-----------------------------------------------------------------------------
(* Properties.                                                             *)

TypeOK ==
    Sieve!TypeOK /\ Frk!TypeOK /\ Xrg!TypeOK /\ Fnd!TypeOK /\ Osh!TypeOK

(* primes.c: all primes, in order, whoever prints them.                    *)
PrintsPrimes == Sieve!PrintsPrimes

(* primes.c: the descriptors of every process fit into its table.          *)
DescriptorsFit == Sieve!DescriptorsFit

(* primes.c: a process ends after those below it.                          *)
EndsInOrder == Sieve!EndsInOrder

(* The programs with one child print and exchange what they are to.        *)
ExchangesRight == program = "fork" => Frk!ExchangesRight

(* xargs.c: one command for each line, with the words of this line.        *)
XargsRuns == program = "xargs" => Xrg!XargsRuns

(* find.c: all files of the name, or an error that has a reason.           *)
FindsOrFails == program = "find" => Fnd!FindsOrFails

(* project1.c: the history is recent, and the prompt comes back before a   *)
(* command in the foreground has ended only for one of the background that *)
(* wait(NULL) has taken in its place.                                      *)
ShellKeepsUp == Osh!HistoryRecent /\ Osh!WaitsForOne

(* The programs end, the shell apart: every pipe has its end, whoever has  *)
(* inherited it, every wait() its child, and every walk its last entry.    *)
ProcessesEnd ==
    <>(\/ program = "primes" /\ Sieve!Over
       \/ program = "fork" /\ Frk!Over
       \/ program = "xargs" /\ Xrg!Over
       \/ program = "find" /\ Fnd!Over
       \/ program = "shell")
=============================================================================
