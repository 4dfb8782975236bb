------------------------------ MODULE PagePool ------------------------------
(***************************************************************************)
(* What the page allocator promises: a pool of free pages.  A page is      *)
(* handed to one caller until it is given back, an allocation fails only   *)
(* when no page is free, and a count of the free pages is true at one      *)
(* moment of the call.                                                     *)
(***************************************************************************)
EXTENDS FiniteSets

CONSTANT Pages

VARIABLES
    free,
    answer      \* what the last operation has returned

PInit == free = Pages /\ answer = <<"none">>

Alloc ==
    \E p \in free : free' = free \ {p} /\ answer' = <<"page", p>>

AllocFails == free = {} /\ UNCHANGED free /\ answer' = <<"fail">>

Release ==
    \E p \in Pages \ free : free' = free \cup {p} /\ UNCHANGED answer

CountFree == UNCHANGED free /\ answer' = <<"count", Cardinality(free)>>

PNext == Alloc \/ AllocFails \/ Release \/ CountFree

PSpec == PInit /\ [][PNext]_<<free, answer>>
=============================================================================
