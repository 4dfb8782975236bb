------------------------------- MODULE Bridge -------------------------------
(***************************************************************************)
(* The one-lane bridge in the notes on chapter 7: the cars of a side count *)
(* themselves under the lock of the side, the first one waits for the      *)
(* bridge, with that lock in its hands, and the last one gives it back.    *)
(***************************************************************************)
EXTENDS Naturals, FiniteSets

CONSTANTS Left, Right       \* the cars of each side

BridgeAssumption ==
    IsFiniteSet(Left) /\ IsFiniteSet(Right) /\ Left \cap Right = {}

Cars == Left \cup Right
Sides == {"left", "right"}
SideOf(c) == IF c \in Left THEN "left" ELSE "right"

VARIABLES
    cars,       \* left, right: the cars that have counted themselves
    sidelock,   \* leftlock, rightlock
    brigelock,
    at          \* where each car is

bridgeVars == <<cars, sidelock, brigelock, at>>

BridgeInit ==
    /\ cars = [s \in Sides |-> 0]
    /\ sidelock = [s \in Sides |-> 1]
    /\ brigelock = 1
    /\ at = [c \in Cars |-> "acquire"]

Goto(c, l) == at' = [at EXCEPT ![c] = l]
Down(c) == sidelock[SideOf(c)] = 1 /\ sidelock' = [sidelock EXCEPT ![SideOf(c)] = 0]
Up(c) == sidelock' = [sidelock EXCEPT ![SideOf(c)] = 1]

(* Mistakes: every car that leaves gives the bridge back; none does.       *)
AnyCar(c) == TRUE
NoCar(c) == FALSE
IsLast(c) == cars[SideOf(c)] = 0

-----------------------------------------------------------------------------
(* acquire_left(), acquire_right()                                         *)
Acquire(c) ==
    /\ at[c] = "acquire"
    /\ Down(c)
    /\ cars' = [cars EXCEPT ![SideOf(c)] = @ + 1]
    /\ Goto(c, "counted")
    /\ UNCHANGED brigelock

Drive(c) ==
    /\ at[c] = "counted"
    /\ IF cars[SideOf(c)] = 1 THEN brigelock = 1 /\ brigelock' = 0
       ELSE UNCHANGED brigelock
    /\ Up(c)
    /\ Goto(c, "pass")
    /\ UNCHANGED cars

(* left_pass() and release_left(), right_pass() and release_right()        *)
Release(c) ==
    /\ at[c] = "pass"
    /\ Down(c)
    /\ cars' = [cars EXCEPT ![SideOf(c)] = @ - 1]
    /\ Goto(c, "leaving")
    /\ UNCHANGED brigelock

Leave(c) ==
    /\ at[c] = "leaving"
    /\ brigelock' = IF IsLast(c) THEN brigelock + 1 ELSE brigelock
    /\ Up(c)
    /\ Goto(c, "end")
    /\ UNCHANGED cars

Car(c) == Acquire(c) \/ Drive(c) \/ Release(c) \/ Leave(c)

BridgeNext == \E c \in Cars : Car(c)

BridgeSpec == BridgeInit /\ [][BridgeNext]_bridgeVars

-----------------------------------------------------------------------------
(* Properties.                                                             *)

BridgeTypeOK ==
    /\ cars \in [Sides -> 0 .. Cardinality(Cars)]
    /\ sidelock \in [Sides -> {0, 1}] /\ brigelock \in {0, 1}
    /\ at \in [Cars -> {"acquire", "counted", "pass", "leaving", "end"}]

(* Never are cars of both sides on the bridge.                             *)
OneWay ==
    \A c \in Left, d \in Right : ~(at[c] = "pass" /\ at[d] = "pass")

BridgeOver == \A c \in Cars : at[c] = "end"
=============================================================================
