----------------------------- MODULE BoundedFifo -----------------------------
(***************************************************************************)
(* What a bounded buffer promises: a FIFO queue of at most Capacity items. *)
(* Every producer puts its item once, every consumer gets one item once.   *)
(***************************************************************************)
EXTENDS Naturals, Sequences

CONSTANTS Producers, Consumers, Capacity

VARIABLES queue, put, got      \* put: the producers served; got: what each
                               \* consumer served has received

FInit == queue = << >> /\ put = {} /\ got = << >>

Put(p) ==
    /\ p \notin put
    /\ Len(queue) < Capacity
    /\ queue' = Append(queue, p)
    /\ put' = put \cup {p}
    /\ UNCHANGED got

Get(c) ==
    /\ c \notin DOMAIN got
    /\ queue # << >>
    /\ queue' = Tail(queue)
    /\ got' = [d \in DOMAIN got \cup {c} |->
                   IF d = c THEN Head(queue) ELSE got[d]]
    /\ UNCHANGED put

FNext == (\E p \in Producers : Put(p)) \/ (\E c \in Consumers : Get(c))

FSpec == FInit /\ [][FNext]_<<queue, put, got>>
=============================================================================
