------------------------------- MODULE Banker -------------------------------
(***************************************************************************)
(* The bank in the notes on chapter 7: customers request and release       *)
(* resources at random until they have had all they need.  What is         *)
(* available is changed under the lock, what a customer has been given     *)
(* after it.                                                               *)
(***************************************************************************)
EXTENDS Integers, Tally

CONSTANTS
    Customers, Resources,
    Total       \* of each resource, what is available at the start

BankerAssumption ==
    IsFiniteSet(Customers) /\ Total \in [Resources -> Nat]

Amounts == {a \in [Resources -> UNION {0 .. Total[r] : r \in Resources}] :
                \A r \in Resources : a[r] <= Total[r]}

VARIABLES
    available, allocation, need,
    flag,       \* of each customer: it has said that its requests are over
    pc,
    amount      \* request or release of the call

vars == <<available, allocation, need, flag, pc, amount>>

Zero == [r \in Resources |-> 0]
Plus(a, b) == [r \in Resources |-> a[r] + b[r]]
Minus(a, b) == [r \in Resources |-> a[r] - b[r]]
AtMost(a, b) == \A r \in Resources : a[r] <= b[r]

Inputs == need \in [Customers -> Amounts]

Start ==
    /\ available = Total
    /\ allocation = [c \in Customers |-> Zero]
    /\ flag = [c \in Customers |-> FALSE]
    /\ pc = [c \in Customers |-> "choose"]
    /\ amount = [c \in Customers |-> Zero]

(* Mistake: no test of what is available.                                  *)
Trusting(request) == TRUE
Suffices(request) == AtMost(request, available)

-----------------------------------------------------------------------------
(* The loop of customer(): a call with a random part of the need, or of    *)
(* the allocation, or the end.                                             *)
Choose(c, call, x) ==
    /\ pc[c] = "choose"
    /\ IF call = "request" THEN need[c] # Zero /\ AtMost(x, need[c])
       ELSE /\ allocation[c] # Zero /\ AtMost(x, allocation[c])
            /\ need[c] = Zero => flag[c]
    /\ amount' = [amount EXCEPT ![c] = x]
    /\ pc' = [pc EXCEPT ![c] = call]
    /\ UNCHANGED <<available, allocation, need, flag>>

SaysSo(c) ==
    /\ pc[c] = "choose" /\ ~flag[c]
    /\ need[c] = Zero /\ allocation[c] # Zero
    /\ flag' = [flag EXCEPT ![c] = TRUE]
    /\ UNCHANGED <<available, allocation, need, pc, amount>>

Finish(c) ==
    /\ pc[c] = "choose"
    /\ need[c] = Zero /\ allocation[c] = Zero
    /\ pc' = [pc EXCEPT ![c] = "end"]
    /\ UNCHANGED <<available, allocation, need, flag, amount>>

(* request_resources(): under the lock, and after it.                      *)
Request(c) ==
    /\ pc[c] = "request"
    /\ IF Suffices(amount[c])
       THEN /\ available' = Minus(available, amount[c])
            /\ pc' = [pc EXCEPT ![c] = "given"]
       ELSE pc' = [pc EXCEPT ![c] = "choose"] /\ UNCHANGED available
    /\ UNCHANGED <<allocation, need, flag, amount>>

Given(c) ==
    /\ pc[c] = "given"
    /\ allocation' = [allocation EXCEPT ![c] = Plus(@, amount[c])]
    /\ need' = [need EXCEPT ![c] = Minus(@, amount[c])]
    /\ pc' = [pc EXCEPT ![c] = "choose"]
    /\ UNCHANGED <<available, flag, amount>>

(* release_resources(): the test, which customer() has made sure of, and   *)
(* what is done under the lock; then the rest.                             *)
Release(c) ==
    /\ pc[c] = "release"
    /\ available' = Plus(available, amount[c])
    /\ pc' = [pc EXCEPT ![c] = "taken"]
    /\ UNCHANGED <<allocation, need, flag, amount>>

Taken(c) ==
    /\ pc[c] = "taken"
    /\ allocation' = [allocation EXCEPT ![c] = Minus(@, amount[c])]
    /\ pc' = [pc EXCEPT ![c] = "choose"]
    /\ UNCHANGED <<available, need, flag, amount>>

Next ==
    \E c \in Customers :
        \/ \E call \in {"request", "release"}, x \in Amounts : Choose(c, call, x)
        \/ SaysSo(c) \/ Finish(c)
        \/ Request(c) \/ Given(c) \/ Release(c) \/ Taken(c)

-----------------------------------------------------------------------------
(* Properties.                                                             *)

TypeOK ==
    /\ need \in [Customers -> Amounts] /\ allocation \in [Customers -> Amounts]
    /\ amount \in [Customers -> Amounts] /\ flag \in [Customers -> BOOLEAN]
    /\ pc \in [Customers -> {"choose", "request", "given", "release", "taken", "end"}]

(* What a customer has of r by the books of the bank, which are ahead of   *)
(* its own.                                                                *)
Held(c, r) ==
    IF pc[c] = "given" THEN allocation[c][r] + amount[c][r]
    ELSE IF pc[c] = "taken" THEN allocation[c][r] - amount[c][r]
    ELSE allocation[c][r]

(* Nothing is given twice or lost, although the books of a customer follow *)
(* those of the bank: what is available, allocated and on its way is the   *)
(* total, and never more is given than there is.                           *)
Conserved ==
    \A r \in Resources :
        /\ available[r] >= 0
        /\ available[r] + SumOf([c \in Customers |-> Held(c, r)]) = Total[r]
=============================================================================
