------------------------------- MODULE MCFind -------------------------------
(***************************************************************************)
(* find in the tree of a usual home directory: some directories, and last  *)
(* a file of the name.                                                     *)
(***************************************************************************)
EXTENDS Find

WideTree(directories) ==
    [parent |-> [e \in 1 .. directories + 2 |-> IF e = 1 THEN 0 ELSE 1],
     kind |-> [e \in 1 .. directories + 2 |-> IF e = directories + 2 THEN "match" ELSE "dir"]]

MCWideTrees == {WideTree(k) : k \in 1 .. 12}
=============================================================================
