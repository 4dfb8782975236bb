------------------------------- MODULE Shell --------------------------------
(***************************************************************************)
(* The shell of chapter 3 (project1.c): it reads commands, keeps them in a *)
(* ring of the last ones, and runs them in the foreground or with "&" in   *)
(* the background.  wait(NULL) takes whichever child has ended, and a      *)
(* child whose execvp() fails goes on in the loop: a second shell, with    *)
(* its own copy of the history, at the same terminal.  A command is        *)
(* known by the place it has among all commands that are read.             *)
(***************************************************************************)
EXTENDS Integers, Sequences, FiniteSets

CONSTANTS
    Slots,      \* of the history (36 in the code)
    Processes,  \* 1 is the shell that is started
    MaxCommands \* that are read

ShellAssumption ==
    /\ Slots \in Nat \ {0, 1} /\ MaxCommands \in Nat
    /\ IsFiniteSet(Processes) /\ Processes = 1 .. Cardinality(Processes)

Kinds == {"history", "exit", "todo", "foreground", "background"}

VARIABLES
    state,      \* of each process: where it is, or that it is a command
    parent,
    history, index, flag,
    read,       \* the commands it has read, with those of its parents (history)
    started,    \* the kind of command it was started for, if any (history)
    commands    \* how many there have been

vars == <<state, parent, history, index, flag, read, started, commands>>

Init ==
    /\ state = [p \in Processes |-> IF p = 1 THEN "prompt" ELSE "none"]
    /\ parent = [p \in Processes |-> 0]
    /\ history = [p \in Processes |-> [k \in 0 .. Slots - 1 |-> 0]]
    /\ index = [p \in Processes |-> 0]
    /\ flag = [p \in Processes |-> FALSE]
    /\ read = [p \in Processes |-> <<>>]
    /\ started = [p \in Processes |-> "none"]
    /\ commands = 0

-----------------------------------------------------------------------------
(* Mistake: the command itself is counted.                                 *)
OneBack(p, k) == (index[p] + Slots - 1 - k) % Slots

(* The place of the k-th last command before this one, k from 0 on.        *)
Place(p, k) == (index[p] + Slots - 2 - k) % Slots

Listing(p) ==
    IF flag[p] THEN [k \in 1 .. Slots - 1 |-> history[p][Place(p, k - 1)]]
    ELSE [k \in 1 .. index[p] - 1 |-> history[p][index[p] - 1 - k]]

(* A line is read, and copied to the history.                              *)
ReadCommand(p, kind) ==
    /\ state[p] = "prompt"
    /\ commands < MaxCommands
    /\ commands' = commands + 1
    /\ read' = [read EXCEPT ![p] = Append(@, commands')]
    /\ history' = [history EXCEPT ![p][index[p]] = commands']
    /\ index' = [index EXCEPT ![p] = IF @ = Slots - 1 THEN 0 ELSE @ + 1]
    /\ flag' = [flag EXCEPT ![p] = @ \/ index[p] = Slots - 1]
    /\ state' = [state EXCEPT ![p] = kind]
    /\ UNCHANGED <<parent, started>>

(* "history" prints the listing; "!!" and "!" are to do.                   *)
ShowHistory(p) ==
    /\ state[p] \in {"history", "todo"}
    /\ state' = [state EXCEPT ![p] = "prompt"]
    /\ UNCHANGED <<parent, history, index, flag, read, started, commands>>

(* return 0, or the assertion after a failed fork().  The children of a    *)
(* process that has ended are not its concern any more.                    *)
Leaves(p) ==
    /\ state' = [state EXCEPT ![p] = "ended"]
    /\ UNCHANGED <<parent, history, index, flag, read, started, commands>>

Exit(p) == state[p] = "exit" /\ Leaves(p)
ForkFails(p) == state[p] \in {"foreground", "background"} /\ Leaves(p)

(* Mistake: it does not wait.                                              *)
Hurries(kind) == "prompt"
Waits(kind) == IF kind = "foreground" THEN "wait" ELSE "prompt"

(* fork() copies the shell; the parent waits if the command is in the      *)
(* foreground.                                                             *)
Fork(p, q) ==
    /\ state[p] \in {"foreground", "background"}
    /\ state[q] = "none"
    /\ state' = [state EXCEPT ![p] = Waits(@), ![q] = "exec"]
    /\ parent' = [parent EXCEPT ![q] = p]
    /\ history' = [history EXCEPT ![q] = history[p]]
    /\ index' = [index EXCEPT ![q] = index[p]]
    /\ flag' = [flag EXCEPT ![q] = flag[p]]
    /\ read' = [read EXCEPT ![q] = read[p]]
    /\ started' = [started EXCEPT ![q] = state[p]]
    /\ UNCHANGED <<commands>>

(* execvp() runs the command, or fails.                                    *)
Exec(q) ==
    /\ state[q] = "exec"
    /\ \E s \in {"command", "prompt"} : state' = [state EXCEPT ![q] = s]
    /\ UNCHANGED <<parent, history, index, flag, read, started, commands>>

CommandEnds(q) == state[q] = "command" /\ Leaves(q)

(* wait(NULL): any child.                                                  *)
Children(p) == {q \in Processes : parent[q] = p /\ state[q] # "reaped"}

Wait(p, q) ==
    /\ state[p] = "wait"
    /\ q \in Children(p) /\ state[q] = "ended"
    /\ state' = [state EXCEPT ![p] = "prompt", ![q] = "reaped"]
    /\ UNCHANGED <<parent, history, index, flag, read, started, commands>>

Next ==
    \E p \in Processes :
        \/ \E kind \in Kinds : ReadCommand(p, kind)
        \/ ShowHistory(p) \/ Exit(p) \/ ForkFails(p)
        \/ \E q \in Processes : Fork(p, q) \/ Wait(p, q)
        \/ Exec(p) \/ CommandEnds(p)

-----------------------------------------------------------------------------
(* Properties.                                                             *)

TypeOK ==
    /\ state \in [Processes -> Kinds \cup {"none", "prompt", "wait", "exec", "command",
                                           "ended", "reaped"}]
    /\ parent \in [Processes -> Processes \cup {0}]
    /\ history \in [Processes -> [0 .. Slots - 1 -> 0 .. MaxCommands]]
    /\ index \in [Processes -> 0 .. Slots - 1] /\ flag \in [Processes -> BOOLEAN]
    /\ read \in [Processes -> Seq(1 .. MaxCommands)] /\ commands \in 0 .. MaxCommands
    /\ started \in [Processes -> {"none", "foreground", "background"}]

(* The history of a shell has the last commands that it or the shell it    *)
(* was forked from has read, newest first: all of them, or as many as the  *)
(* ring holds beside the command "history" itself.                         *)
HistoryRecent ==
    \A p \in Processes :
        state[p] = "history" =>
            LET earlier == Len(read[p]) - 1
                shown == IF earlier < Slots THEN earlier ELSE Slots - 1
            IN  Listing(p) = [k \in 1 .. shown |-> read[p][earlier + 1 - k]]

(* The commands in the foreground that nobody has waited for, and those in *)
(* the background that wait(NULL) has taken.                               *)
LeftOver(p) == {q \in Children(p) : started[q] # "background"}
Taken(p) == {q \in Processes :
    parent[q] = p /\ state[q] = "reaped" /\ started[q] = "background"}

(* A shell waits for one child after each command in the foreground, but   *)
(* for any child: it comes back to its prompt while such a command runs    *)
(* only because a command in the background has ended and was taken for    *)
(* it, one for one.                                                        *)
WaitsForOne ==
    \A p \in Processes :
        /\ state[p] = "prompt" => Cardinality(LeftOver(p)) = Cardinality(Taken(p))
        /\ state[p] = "wait" => Cardinality(LeftOver(p)) = Cardinality(Taken(p)) + 1
=============================================================================
