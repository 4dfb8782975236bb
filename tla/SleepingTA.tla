----------------------------- MODULE SleepingTA -----------------------------
(***************************************************************************)
(* The sleeping teaching assistant of chapter 6, project 1 (project1.c):   *)
(* three chairs counted under seatlock, and the semaphore ta the students  *)
(* post to wake the assistant.  The assistant does not serve a student per *)
(* post: it looks at the chairs, and waits for a post both after it has    *)
(* taught and when all chairs are free.  A section under seatlock is one   *)
(* step; taking a chair and posting ta are two.                            *)
(***************************************************************************)
EXTENDS Integers, FiniteSets

CONSTANTS
    Students,   \* MAX - 1 of them
    Chairs      \* 3

TAAssumption ==
    /\ IsFiniteSet(Students)
    /\ Chairs \in Nat \ {0}

MAX == Cardinality(Students) + 1

VARIABLES
    seats,      \* mutex.seats: free chairs
    ta,         \* mutex.ta: the value of the semaphore
    helper,     \* the assistant: "look", "taught", "asleep" or "done"
    count,      \* its local variable
    student     \* "study", "post" (sits, has not posted yet) or "seated"

vars == <<seats, ta, helper, count, student>>

Init ==
    /\ seats = Chairs
    /\ ta = 0
    /\ helper = "look"
    /\ count = 0
    /\ student = [s \in Students |-> "study"]

-----------------------------------------------------------------------------
(* Mistakes: the assistant waits for a student who does not exist, or      *)
(* overlooks a single waiting student.                                     *)
StopsLate == count' = MAX
OverlooksOne == seats < Chairs - 1

LastStudent == count' = MAX - 1
SomeoneWaits == seats < Chairs
ChairFree == seats # 0

(* consumer(): someone is waiting, call and teach one.                     *)
Teach ==
    /\ helper = "look"
    /\ SomeoneWaits
    /\ seats' = seats + 1
    /\ count' = count + 1
    /\ helper' = IF LastStudent THEN "done" ELSE "taught"
    /\ UNCHANGED <<ta, student>>

(* ... or all chairs are free, go to sleep.                                *)
FallAsleep ==
    /\ helper = "look"
    /\ ~SomeoneWaits
    /\ helper' = "asleep"
    /\ UNCHANGED <<seats, ta, count, student>>

(* sem_wait(&mutex.ta), of both branches.                                  *)
WaitTA ==
    /\ helper \in {"taught", "asleep"}
    /\ ta > 0
    /\ ta' = ta - 1
    /\ helper' = "look"
    /\ UNCHANGED <<seats, count, student>>

(* producer(): no chair, back to studying.                                 *)
NoChair(s) ==
    /\ student[s] = "study"
    /\ ~ChairFree
    /\ UNCHANGED vars

TakeChair(s) ==
    /\ student[s] = "study"
    /\ ChairFree
    /\ seats' = seats - 1
    /\ student' = [student EXCEPT ![s] = "post"]
    /\ UNCHANGED <<ta, helper, count>>

Post(s) ==
    /\ student[s] = "post"
    /\ ta' = ta + 1
    /\ student' = [student EXCEPT ![s] = "seated"]
    /\ UNCHANGED <<seats, helper, count>>

Assistant == Teach \/ FallAsleep \/ WaitTA
Student(s) == NoChair(s) \/ TakeChair(s) \/ Post(s)

Next == Assistant \/ \E s \in Students : Student(s)

-----------------------------------------------------------------------------
(* Properties.                                                             *)
TypeOK ==
    /\ seats \in 0 .. Chairs
    /\ ta \in 0 .. Cardinality(Students)
    /\ helper \in {"look", "taught", "asleep", "done"}
    /\ count \in 0 .. Cardinality(Students)
    /\ student \in [Students -> {"study", "post", "seated"}]

Posted == Cardinality({s \in Students : student[s] = "seated"})

(* The assistant is not blocked in sem_wait() while a student who has      *)
(* posted waits on a chair, although the posts it takes are not those of   *)
(* the students it teaches.                                                *)
NeverSleepsOnStudents ==
    helper \in {"taught", "asleep"} /\ ta = 0 => Posted <= count

(* Everybody is taught once and all threads end: main() joins them.        *)
Over == helper = "done" /\ \A s \in Students : student[s] = "seated"
=============================================================================
