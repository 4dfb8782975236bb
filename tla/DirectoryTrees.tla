--------------------------- MODULE DirectoryTrees --------------------------
(***************************************************************************)
(* Directory trees, as the walk of find.c meets them.                      *)
(***************************************************************************)
EXTENDS Naturals

(* The trees of k entries, numbered as a walk meets them: the parent of an *)
(* entry is the one before it or one of its ancestors.                     *)
Above(parent, e) ==
    LET up[x \in 0 .. e] == IF x = 0 THEN {} ELSE {x} \cup up[parent[x]]
    IN  up[e]

TreesOf(k) ==
    LET shapes == {p \in [1 .. k -> 0 .. k - 1] :
            /\ p[1] = 0
            /\ \A e \in 2 .. k : p[e] \in 1 .. e - 1 /\ p[e] \in Above(p, e - 1)}
    IN  {t \in [parent : shapes, kind : [1 .. k -> {"dir", "match", "other"}]] :
            \A e \in 2 .. k : t.kind[t.parent[e]] = "dir"}
=============================================================================
