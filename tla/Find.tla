-------------------------------- MODULE Find --------------------------------
(***************************************************************************)
(* find of Lab 1 (find.c): a walk over a directory tree that prints the    *)
(* paths of the files of one name.  my_find() calls itself, and closes no  *)
(* directory; the tree may change while it walks: other processes may      *)
(* unlink a file or an empty directory.                                    *)
(***************************************************************************)
EXTENDS Integers, Sequences, FiniteSets, DirectoryTrees

CONSTANTS
    Trees,      \* records of parent (0 for the start of the walk) and kind
    NOFILE,     \* descriptors a process may have open
    MaxPath,    \* names for which the buffer of 512 bytes has room
    MaxUnlinks

Standard == 3       \* descriptors 0, 1 and 2 are the console

FindAssumption ==
    /\ \A t \in Trees : Len(t.kind) \in Nat \ {0} /\ t \in TreesOf(Len(t.kind))
    /\ NOFILE \in Nat /\ NOFILE > Standard
    /\ MaxPath \in Nat /\ MaxUnlinks \in Nat

VARIABLES
    tree,
    gone,       \* the entries that have been unlinked
    pc,
    entry,      \* de, and the path that has been made of it
    stack,      \* the directories of the calls of my_find()
    open,       \* descriptors the walk has opened
    out,        \* the files printed
    status

vars == <<tree, gone, pc, entry, stack, open, out, status>>

Entries == DOMAIN tree.kind
Path(e) == Above(tree.parent, e)
Children(d) == {e \in Entries \ gone : tree.parent[e] = d}

Start ==
    /\ gone = {} /\ pc = "open" /\ entry = 1
    /\ stack = <<>> /\ open = 0 /\ out = <<>> /\ status = 0

Init == tree \in Trees /\ Start

Ends(s) == pc' = "exit" /\ status' = s

(* Mistake: directories in the directory are passed over.                  *)
NotRecursive(e) == FALSE
Descends(e) == tree.kind[e] = "dir"
CanOpen(e) == e \notin gone /\ Standard + open < NOFILE
HasRoom(d) == Cardinality(Path(d)) < MaxPath

-----------------------------------------------------------------------------
(* my_find() up to its loop.  A failed open() gives -1 and not 0: it is    *)
(* fstat() that fails.                                                     *)
OpenDirectory ==
    /\ pc = "open"
    /\ CanOpen(entry) /\ tree.kind[entry] = "dir" /\ HasRoom(entry)
    /\ open' = open + 1
    /\ stack' = <<entry>> \o stack
    /\ pc' = "read"
    /\ UNCHANGED <<tree, gone, entry, out, status>>

OpenFails ==
    /\ pc = "open"
    /\ ~(CanOpen(entry) /\ tree.kind[entry] = "dir" /\ HasRoom(entry))
    /\ Ends(1)
    /\ UNCHANGED <<tree, gone, entry, stack, open, out>>

(* The next entry of the directory, of which entry has been the last one.  *)
Rest == {e \in Children(Head(stack)) : e > entry}

ReadEntry ==
    /\ pc = "read"
    /\ \E e \in Rest :
           /\ \A x \in Rest : e <= x
           /\ entry' = e
    /\ pc' = "stat"
    /\ UNCHANGED <<tree, gone, stack, open, out, status>>

(* The end of a directory, of which the descriptor stays open.             *)
Return ==
    /\ pc = "read"
    /\ Rest = {}
    /\ stack' = Tail(stack)
    /\ IF Len(stack) = 1 THEN Ends(0) ELSE UNCHANGED <<pc, status>>
    /\ UNCHANGED <<tree, gone, entry, open, out>>

(* stat() opens the entry for a moment; then the switch.                   *)
Stat ==
    /\ pc = "stat"
    /\ CanOpen(entry)
    /\ pc' = IF Descends(entry) THEN "open" ELSE "read"
    /\ out' = IF tree.kind[entry] = "match" THEN Append(out, entry) ELSE out
    /\ UNCHANGED <<tree, gone, entry, stack, open, status>>

StatFails ==
    /\ pc = "stat"
    /\ ~CanOpen(entry)
    /\ Ends(1)
    /\ UNCHANGED <<tree, gone, entry, stack, open, out>>

(* Another process: unlink() refuses a directory with entries.             *)
Unlink(e) ==
    /\ pc # "exit" /\ Cardinality(gone) < MaxUnlinks
    /\ e \notin gone /\ Children(e) = {}
    /\ gone' = gone \cup {e}
    /\ UNCHANGED <<tree, pc, entry, stack, open, out, status>>

Walk == OpenDirectory \/ OpenFails \/ ReadEntry \/ Return \/ Stat \/ StatFails

Next == Walk \/ \E e \in Entries : Unlink(e)

-----------------------------------------------------------------------------
(* Properties.                                                             *)

TypeOK ==
    /\ gone \subseteq Entries /\ entry \in Entries
    /\ pc \in {"open", "read", "stat", "exit"}
    /\ stack \in Seq(Entries) /\ out \in Seq(Entries)
    /\ open \in 0 .. NOFILE - Standard
    /\ status \in {0, 1}

Directories == {e \in Entries : tree.kind[e] = "dir"}
Printed == {out[k] : k \in DOMAIN out}
Matching == {e \in Entries : tree.kind[e] = "match"}

(* What it prints are files of the name, each once and in the order of the *)
(* walk.  If it ends well, it has printed all of them that are there.  It  *)
(* ends with an error only if there are as many directories as descriptors *)
(* left, or a path has no room, or the tree has changed, or it was given   *)
(* no directory.                                                           *)
FindsOrFails ==
    /\ Printed \subseteq Matching
    /\ \A k \in 2 .. Len(out) : out[k - 1] < out[k]
    /\ pc = "exit" /\ status = 0 => Matching \ gone \subseteq Printed
    /\ status = 1 =>
          \/ Standard + Cardinality(Directories) >= NOFILE
          \/ \E d \in Directories : ~HasRoom(d)
          \/ gone # {} \/ 1 \notin Directories

(* report.md: all files of the name in the directory tree are found.       *)
FindsAll ==
    pc = "exit" /\ 1 \in Directories /\ gone = {} => Printed = Matching

Over == pc = "exit"

Spec == Init /\ [][Next]_vars /\ WF_vars(Walk)
=============================================================================
