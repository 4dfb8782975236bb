--------------------------- MODULE ProcessesProofs --------------------------
(***************************************************************************)
(* Theorems about the programs of several processes: the sieve of primes.c,*)
(* the shell of chapter 3, and find and xargs of Lab 1; and, with those of *)
(* the programs with one child, their types.                               *)
(***************************************************************************)
EXTENDS MCProcesses, ForkProofs, TallyProofs

-----------------------------------------------------------------------------
(* primes.c.  The numbers that the processes before k let through.         *)
Candidates(k) ==
    {x \in 2 .. Last : \A j \in 1 .. k - 1 : prime[j] # 0 => x % prime[j] # 0}

(* A process that has a child, and one whose input has come to its end.    *)
Offers == {"parent", "send", "take", "closeIn", "closeOut", "wait"}
AtEnd == {"closeIn", "closeOut", "wait"}

(* The processes are a chain, and end from its end.                        *)
Chain ==
    /\ pc[0] \in {"pipe", "fork", "ended"} \cup (Offers \ {"closeIn"})
    /\ \A k \in 1 .. Last : pc[k] # "unborn" => pc[k - 1] \in Offers \cup {"ended"}
    /\ \A k \in 0 .. Last : pc[k] \in Offers => k < Last /\ pc[k + 1] # "unborn"
    /\ \A k \in 1 .. Last : pc[k - 1] = "ended" => pc[k] \in {"unborn", "ended"}

(* The descriptors of a process, by the point it is at: the read ends of   *)
(* its ancestors' pipes and of its own, and those of the pipe to its child.*)
EndsAt(k, l) ==
    LET Inherited(m) == {Sieve!R(j) : j \in 1 .. m}
    IN  CASE l \in {"unborn", "ended"} -> {}
          [] l = "child" -> Inherited(k) \cup {Sieve!W(k)}
          [] l \in {"first", "second", "pipe"} -> Inherited(k)
          [] l \in {"fork", "parent"} ->
                 Inherited(k) \cup {Sieve!R(k + 1), Sieve!W(k + 1)}
          [] l \in {"send", "take", "closeIn"} -> Inherited(k) \cup {Sieve!W(k + 1)}
          [] l = "closeOut" -> Inherited(k - 1) \cup {Sieve!W(k + 1)}
          [] l = "wait" -> Inherited(k - 1)

EndsOpen == \A k \in 0 .. Last : fds[k] = EndsAt(k, pc[k])

(* Who has read the end of its pipe has a parent that waits for it; who    *)
(* ends while its parent still writes has had no child.                    *)
EndsRead ==
    \A k \in 1 .. Last :
        /\ pc[k] \in AtEnd => pc[k - 1] = "wait"
        /\ pc[k] = "ended" /\ pc[k - 1] \in Offers \ {"wait"} => k \in refused

(* The prime of k is the first of its candidates.                          *)
PrimesRight ==
    /\ prime[0] = 0
    /\ \A k \in 1 .. Last :
           /\ pc[k] \in {"unborn", "child", "first"} => prime[k] = 0
           /\ pc[k] \in {"second", "pipe", "fork"} \cup Offers => prime[k] # 0
           /\ pc[k] # "unborn" => \A j \in 1 .. k - 1 : prime[j] # 0
           /\ prime[k] # 0 =>
                  /\ k < prime[k] /\ prime[k] \in Candidates(k)
                  /\ \A x \in Candidates(k) : prime[k] <= x

(* The number that k has read, or main() counts, is one of its candidates: *)
(* the second one at first, the last one at the end.                       *)
NumberRight(k) ==
    /\ pc[k] \in {"pipe", "fork"} \cup Offers =>
           next[k] \in Candidates(k) /\ prime[k] < next[k]
    /\ pc[k] \in {"pipe", "fork", "parent"} =>
           \A x \in Candidates(k) : prime[k] < x => next[k] <= x
    /\ pc[k] \in AtEnd => \A x \in Candidates(k) : x <= next[k]

NumbersRight == \A k \in 0 .. Last : NumberRight(k)

(* The last number k has read of its pipe, and the last one that it has    *)
(* written to the next one, or left out.                                   *)
Taken(k) == IF pc[k] \in {"child", "first", "second"} THEN prime[k] ELSE next[k]
Sent(k) == IF pc[k] \in {"pipe", "fork", "parent", "send"} THEN next[k] - 1 ELSE next[k]

(* A pipe has the candidates between these two, in their order.            *)
PipeRight(k) ==
    /\ pc[k] = "unborn" => buf[k] = <<>>
    /\ pc[k] \notin {"unborn", "ended"} =>
           /\ {buf[k][j] : j \in 1 .. Len(buf[k])} =
                  {x \in Candidates(k) : Taken(k) < x /\ x <= Sent(k - 1)}
           /\ \A i, j \in 1 .. Len(buf[k]) : i < j => buf[k][i] < buf[k][j]
           /\ Taken(k) <= Sent(k - 1)

PipesRight == \A k \in 1 .. Last : PipeRight(k)

(* The primes of the processes are printed in the order of the chain.      *)
PrintedRight ==
    /\ Len(printed) \in 0 .. Last
    /\ \A k \in 1 .. Len(printed) : printed[k] = prime[k]
    /\ \A k \in 1 .. Last : prime[k] # 0 <=> k <= Len(printed)

(* Every process has a number to read, and the last one no other.          *)
NoneMissed ==
    /\ \A k \in 1 .. Last : pc[k] # "unborn" => Candidates(k) # {}
    /\ \A k \in 0 .. Last : pc[k] = "ended" /\ k \notin refused =>
           /\ k > 0 => prime[k] # 0
           /\ k = Last \/ pc[k + 1] = "unborn" =>
                  k > 0 /\ \A x \in Candidates(k) : x <= prime[k]
    /\ refused = {} => \A k \in 0 .. Last : status[k] = 0

SieveInv ==
    /\ Sieve!TypeOK /\ Chain /\ EndsOpen /\ EndsRead /\ PrimesRight /\ NumbersRight
    /\ PipesRight /\ PrintedRight /\ NoneMissed

-----------------------------------------------------------------------------
(* What divides a divisor divides the number.                              *)
LEMMA DividesOn ==
  ASSUME NEW x \in Nat, NEW d \in Nat \ {0}, NEW p \in Nat \ {0},
         x % d = 0, d % p = 0
  PROVE  x % p = 0
<1> DEFINE a == x \div d
           b == d \div p
<1>1. a \in Int /\ x = d * a
  BY QuotientOf
<1>2. b \in Int /\ d = p * b
  BY QuotientOf
<1> HIDE DEF a, b
<1>3. x = p * (b * a)
  BY <1>1, <1>2
<1>4. b * a \in Int
  BY <1>1, <1>2
<1>5. (0 + p * (b * a)) % p = 0 % p
  BY <1>4, SameRemainder
<1>6. 0 % p = 0
  OBVIOUS
<1>7. 0 + p * (b * a) = x
  BY <1>3, <1>4
<1> QED
  BY <1>5, <1>6, <1>7

(* No number divides a smaller one.                                        *)
LEMMA DividesLess ==
  ASSUME NEW x \in Nat \ {0}, NEW p \in Nat \ {0}, x % p = 0
  PROVE  p <= x
<1> SUFFICES ASSUME x < p PROVE FALSE
  OBVIOUS
<1>1. x % p = x
  OBVIOUS
<1> QED
  BY <1>1

(* A number that something divides is a product.                           *)
LEMMA ProductOf ==
  ASSUME NEW x \in Nat, NEW p \in Nat, 1 < p, p < x, x % p = 0
  PROVE  \E m \in 2 .. x - 1 : x = p * m /\ x % m = 0
<1> DEFINE m == x \div p
<1>1. m \in Int /\ x = p * m
  BY QuotientOf
<1> HIDE DEF m
<1>2. m > 0
  <2> SUFFICES ASSUME m <= 0 PROVE FALSE
    BY <1>1
  <2>1. p * m <= 0
    BY <1>1
  <2> QED
    BY <1>1, <2>1
<1>3. m # 1
  BY <1>1
<1>4. m < p * m
  BY <1>1, <1>2
<1>5. (0 + m * p) % m = 0 % m
  BY <1>1, <1>2, SameRemainder
<1>6. 0 % m = 0 /\ 0 + m * p = x
  BY <1>1, <1>2
<1> QED
  BY <1>1, <1>2, <1>3, <1>4, <1>5, <1>6

-----------------------------------------------------------------------------
(* The points of my_prime(), from the start of a process to its end.       *)
Points == {"unborn", "pipe", "fork", "parent", "child", "first", "second", "send",
           "take", "closeIn", "closeOut", "wait", "ended"}

(* The types of the variables, one by one.                                 *)
LEMMA SieveTypes ==
  ASSUME Sieve!PrimesAssumption, Sieve!TypeOK
  PROVE  /\ Last \in Nat /\ Last > 1 /\ Cap \in Nat /\ Sieve!Procs = 0 .. Last
         /\ pc \in [0 .. Last -> Points]
         /\ fds \in [0 .. Last -> SUBSET ({"r", "w"} \X (1 .. Last))]
         /\ buf \in [0 .. Last -> Seq(2 .. Last)]
         /\ \A k \in 0 .. Last : Len(buf[k]) <= Cap
         /\ prime \in [0 .. Last -> 0 .. Last] /\ next \in [0 .. Last -> 2 .. Last]
         /\ printed \in Seq(2 .. Last)
         /\ status \in [0 .. Last -> {0, 1}] /\ refused \subseteq 0 .. Last
<1>1. Last \in Nat /\ Last > 1 /\ Cap \in Nat /\ Sieve!Procs = 0 .. Last
  BY DEF Sieve!PrimesAssumption, Sieve!Procs
<1>2. pc \in [0 .. Last -> Points]
  BY <1>1 DEF Sieve!TypeOK, Points
<1>3. fds \in [0 .. Last -> SUBSET ({"r", "w"} \X (1 .. Last))]
  BY <1>1 DEF Sieve!TypeOK
<1>4. buf \in [0 .. Last -> Seq(2 .. Last)] /\ \A k \in 0 .. Last : Len(buf[k]) <= Cap
  BY <1>1 DEF Sieve!TypeOK
<1>5. prime \in [0 .. Last -> 0 .. Last] /\ next \in [0 .. Last -> 2 .. Last]
  BY <1>1 DEF Sieve!TypeOK
<1>6. printed \in Seq(2 .. Last) /\ status \in [0 .. Last -> {0, 1}]
      /\ refused \subseteq 0 .. Last
  BY <1>1 DEF Sieve!TypeOK
<1> QED
  BY <1>1, <1>2, <1>3, <1>4, <1>5, <1>6

(* What the processes before k let through, k has not yet seen.            *)
LEMMA CandidatesAre ==
  ASSUME Sieve!PrimesAssumption, Sieve!TypeOK, NEW k \in 1 .. Last
  PROVE  /\ Candidates(k) \subseteq 2 .. Last
         /\ \A j \in 1 .. k : Candidates(k) \subseteq Candidates(j)
         /\ \A x \in Candidates(k), j \in 1 .. k - 1 : prime[j] # 0 => x % prime[j] # 0
         /\ k < Last => Candidates(k + 1) =
                {x \in Candidates(k) : prime[k] # 0 => x % prime[k] # 0}
<1> USE DEF Sieve!PrimesAssumption, Candidates
<1>1. \A j \in 1 .. k : 1 .. j - 1 \subseteq 1 .. k - 1
  OBVIOUS
<1>2. k < Last => 1 .. k = (1 .. k - 1) \cup {k}
  OBVIOUS
<1>3. (k + 1) - 1 = k
  OBVIOUS
<1>4. k < Last => Candidates(k + 1) =
          {x \in Candidates(k) : prime[k] # 0 => x % prime[k] # 0}
  BY <1>2, <1>3
<1>5. /\ Candidates(k) \subseteq 2 .. Last
      /\ \A j \in 1 .. k : Candidates(k) \subseteq Candidates(j)
      /\ \A x \in Candidates(k), j \in 1 .. k - 1 : prime[j] # 0 => x % prime[j] # 0
  BY <1>1
<1> QED
  BY <1>4, <1>5

(* The first two processes have all numbers to choose from.                *)
LEMMA AllCandidates ==
  ASSUME Sieve!PrimesAssumption
  PROVE  Candidates(0) = 2 .. Last /\ Candidates(1) = 2 .. Last
BY DEF Sieve!PrimesAssumption, Candidates

(* The first candidate is a prime.                                         *)
LEMMA LeastIsPrime ==
  ASSUME Sieve!PrimesAssumption, Sieve!TypeOK, NEW k \in 1 .. Last,
         \A j \in 1 .. k - 1 : prime[j] # 0,
         NEW p \in Candidates(k), \A x \in Candidates(k) : p <= x
  PROVE  Sieve!IsPrime(p)
<1>0. p \in 2 .. Last /\ Last \in Nat
  BY CandidatesAre DEF Sieve!PrimesAssumption
<1>1. p \in 2 .. Last /\ Last \in Nat /\ \A j \in 1 .. k - 1 : prime[j] \in Nat \ {0}
  <2>1. prime \in [0 .. Last -> 0 .. Last]
    BY DEF Sieve!TypeOK, Sieve!Procs
  <2>2. \A j \in 1 .. k - 1 : j \in 0 .. Last
    BY <1>0
  <2>3. \A j \in 1 .. k - 1 : prime[j] \in 0 .. Last
    BY <2>1, <2>2
  <2> QED
    BY <1>0, <2>3
<1> SUFFICES ASSUME NEW d \in 2 .. p - 1, p % d = 0 PROVE FALSE
  BY <1>1, SMTT(30) DEF Sieve!IsPrime
<1>2. d \notin Candidates(k) /\ d \in 2 .. Last /\ d \in Nat \ {0} /\ p \in Nat
  BY <1>1
<1>3. PICK j \in 1 .. k - 1 : d % prime[j] = 0
  BY <1>2 DEF Candidates
<1>4. p % prime[j] = 0
  BY <1>1, <1>2, <1>3, DividesOn
<1> QED
  BY <1>1, <1>4, CandidatesAre

(* The primes of the processes grow along the chain.                       *)
LEMMA PrimesGrow ==
  ASSUME Sieve!PrimesAssumption, Sieve!TypeOK, PrimesRight, NEW k \in 1 .. Last,
         \A j \in 1 .. k - 1 : prime[j] # 0, NEW p \in Candidates(k)
  PROVE  \A j \in 1 .. k - 1 : prime[j] \in 2 .. p - 1 /\ Sieve!IsPrime(prime[j])
<1> SUFFICES ASSUME NEW j \in 1 .. k - 1
             PROVE  prime[j] \in 2 .. p - 1 /\ Sieve!IsPrime(prime[j])
  OBVIOUS
<1>1. p \in 2 .. Last /\ Last \in Nat /\ j \in 1 .. Last
      /\ \A m \in 1 .. j - 1 : prime[m] # 0
  BY CandidatesAre DEF Sieve!PrimesAssumption
<1>2. prime[j] \in Candidates(j) /\ \A x \in Candidates(j) : prime[j] <= x
  BY <1>1 DEF PrimesRight
<1>3. prime[j] \in 2 .. Last
  BY <1>1, <1>2, CandidatesAre
<1>4. p \in Candidates(j) /\ p % prime[j] # 0
  BY CandidatesAre
<1>5. prime[j] <= p /\ prime[j] # p
  BY <1>1, <1>2, <1>3, <1>4
<1>6. Sieve!IsPrime(prime[j])
  BY <1>1, <1>2, LeastIsPrime
<1> QED
  BY <1>1, <1>3, <1>5, <1>6

(* A prime that no process has is a candidate.                             *)
LEMMA PrimesPass ==
  ASSUME Sieve!PrimesAssumption, Sieve!TypeOK, PrimesRight, NEW k \in 1 .. Last,
         \A j \in 1 .. k - 1 : prime[j] # 0,
         NEW x \in Sieve!PrimesUpTo(Last), \A j \in 1 .. k - 1 : prime[j] # x
  PROVE  x \in Candidates(k)
<1>1. x \in 2 .. Last /\ Last \in Nat /\ Sieve!IsPrime(x)
  BY DEF Sieve!PrimesUpTo, Sieve!PrimesAssumption
<1> SUFFICES ASSUME NEW j \in 1 .. k - 1, x % prime[j] = 0 PROVE FALSE
  BY <1>1 DEF Candidates
<1>2. j \in 1 .. Last /\ prime[j] # 0
  BY <1>1
<1>3. prime[j] \in 2 .. Last
  BY <1>2, CandidatesAre DEF PrimesRight
<1>4. prime[j] <= x
  BY <1>1, <1>3, DividesLess
<1> QED
  BY <1>1, <1>3, <1>4 DEF Sieve!IsPrime

(* The primes up to the first candidate are those of the processes before. *)
LEMMA PrimesSoFar ==
  ASSUME Sieve!PrimesAssumption, Sieve!TypeOK, PrimesRight, NEW k \in 1 .. Last,
         \A j \in 1 .. k - 1 : prime[j] # 0,
         NEW p \in Candidates(k), \A x \in Candidates(k) : p <= x
  PROVE  Sieve!PrimesUpTo(p) = {prime[j] : j \in 1 .. k - 1} \cup {p}
<1>1. p \in 2 .. Last /\ Last \in Nat
  BY CandidatesAre DEF Sieve!PrimesAssumption
<1>2. Sieve!IsPrime(p)
  BY LeastIsPrime
<1>3. \A j \in 1 .. k - 1 : prime[j] \in Sieve!PrimesUpTo(p)
  BY <1>1, PrimesGrow DEF Sieve!PrimesUpTo
<1>4. ASSUME NEW x \in Sieve!PrimesUpTo(p), \A j \in 1 .. k - 1 : prime[j] # x
      PROVE  x = p
  <2>1. x \in 2 .. p /\ x \in Sieve!PrimesUpTo(Last)
    BY <1>1 DEF Sieve!PrimesUpTo
  <2>2. x \in Candidates(k)
    BY <1>4, <2>1, PrimesPass
  <2> QED
    BY <1>1, <2>1, <2>2
<1>5. p \in Sieve!PrimesUpTo(p)
  BY <1>1, <1>2 DEF Sieve!PrimesUpTo
<1> QED
  BY <1>3, <1>4, <1>5

(* The second number that k reads is not a multiple of its prime.          *)
LEMMA SecondPasses ==
  ASSUME Sieve!PrimesAssumption, Sieve!TypeOK, PrimesRight, NEW k \in 1 .. Last,
         \A j \in 1 .. k : prime[j] # 0,
         NEW y \in Candidates(k), prime[k] < y,
         \A x \in Candidates(k) : prime[k] < x => y <= x
  PROVE  y % prime[k] # 0
<1> DEFINE p == prime[k]
<1>1. /\ Last \in Nat /\ y \in 2 .. Last /\ p \in Candidates(k) /\ p \in 2 .. Last
      /\ \A x \in Candidates(k) : p <= x
  BY CandidatesAre DEF PrimesRight, Sieve!PrimesAssumption
<1>2. Sieve!IsPrime(p)
  BY <1>1, LeastIsPrime
<1>3. \A j \in 1 .. k - 1 : prime[j] \in 2 .. p - 1
  BY <1>1, PrimesGrow
<1> SUFFICES ASSUME y % p = 0 PROVE FALSE
  OBVIOUS
<1>4. p < y /\ y % p = 0
  OBVIOUS
<1> HIDE DEF p
<1>5. PICK m \in 2 .. y - 1 : y = p * m /\ y % m = 0
  <2>1. y \in Nat /\ p \in Nat /\ 1 < p
    BY <1>1
  <2> QED
    BY <1>4, <2>1, ProductOf
<1>6. m \in Candidates(k)
  <2> SUFFICES ASSUME NEW j \in 1 .. k - 1, m % prime[j] = 0 PROVE FALSE
    BY <1>1 DEF Candidates
  <2>1. prime[j] \in Nat \ {0} /\ m \in Nat \ {0} /\ y \in Nat
    BY <1>1, <1>3
  <2>2. y % prime[j] = 0
    BY <1>5, <2>1, DividesOn
  <2> QED
    BY <2>1, <2>2, CandidatesAre
<1>7. m = p
  BY <1>1, <1>6 DEF p
<1>8. p \in Sieve!PrimesUpTo(Last) /\ p * p <= Last
  BY <1>1, <1>2, <1>5, <1>7 DEF Sieve!PrimesUpTo
<1>9. PICK q \in Sieve!PrimesUpTo(Last) : p < q /\ q < p * p
  BY <1>8 DEF Sieve!PrimesAssumption, Sieve!NextPrime
<1>10. q \in 2 .. Last /\ \A j \in 1 .. k - 1 : prime[j] # q
  BY <1>1, <1>3, <1>9 DEF Sieve!PrimesUpTo
<1>11. q \in Candidates(k)
  BY <1>10, PrimesPass
<1> QED
  BY <1>1, <1>5, <1>7, <1>9, <1>10, <1>11 DEF p

-----------------------------------------------------------------------------
(* What the descriptors say of the neighbours.  Nobody has the write end   *)
(* of a pipe that is read: the parent waits.                               *)
LEMMA NoWriter ==
  ASSUME Sieve!PrimesAssumption, SieveInv, NEW k \in 1 .. Last,
         pc[k] \in {"first", "second", "take"}, ~Sieve!IsOpen(Sieve!W(k))
  PROVE  pc[k - 1] = "wait"
<1>1. Last \in Nat /\ k - 1 \in 0 .. Last /\ (k - 1) + 1 = k
  BY DEF Sieve!PrimesAssumption
<1>2. pc[k - 1] \in Offers
  BY DEF SieveInv, Chain
<1>3. fds[k - 1] = EndsAt(k - 1, pc[k - 1]) /\ Sieve!W(k) \notin fds[k - 1]
  BY <1>1 DEF SieveInv, EndsOpen, Sieve!IsOpen, Sieve!Procs
<1>4. Sieve!W(k) \in EndsAt(k - 1, pc[k - 1]) \/ pc[k - 1] = "wait"
  BY <1>1, <1>2 DEF EndsAt, Offers
<1> QED
  BY <1>3, <1>4

(* Nobody has the read end of a pipe that is written: the reader could not *)
(* create a child of its own.                                              *)
LEMMA NoReader ==
  ASSUME Sieve!PrimesAssumption, SieveInv, NEW k \in 0 .. Last,
         pc[k] = "send", ~Sieve!IsOpen(Sieve!R(k + 1))
  PROVE  k < Last /\ pc[k + 1] = "ended" /\ k + 1 \in refused
<1>1. Last \in Nat /\ k < Last /\ pc[k + 1] # "unborn" /\ k + 1 \in 1 .. Last /\ (k + 1) - 1 = k
  BY DEF SieveInv, Chain, Offers, Sieve!PrimesAssumption
<1>2. fds[k + 1] = EndsAt(k + 1, pc[k + 1]) /\ Sieve!R(k + 1) \notin fds[k + 1]
  BY <1>1 DEF SieveInv, EndsOpen, Sieve!IsOpen, Sieve!Procs
<1>3. pc[k + 1] \notin AtEnd
  BY <1>1 DEF SieveInv, EndsRead
<1>4. pc[k + 1] \in {"unborn", "pipe", "fork", "parent", "child", "first",
                     "second", "send", "take", "closeIn", "closeOut", "wait", "ended"}
  BY <1>1 DEF SieveInv, Sieve!TypeOK, Sieve!Procs
<1>5. Sieve!R(k + 1) \in EndsAt(k + 1, pc[k + 1]) \/ pc[k + 1] = "ended"
  BY <1>1, <1>3, <1>4 DEF EndsAt, AtEnd
<1>6. pc[k + 1] = "ended"
  BY <1>2, <1>5
<1> QED
  BY <1>1, <1>6 DEF SieveInv, EndsRead, Offers

(* The head of an increasing sequence is its least element.                *)
LEMMA HeadLeast ==
  ASSUME NEW S \in SUBSET Nat, NEW b \in Seq(S), b # <<>>,
         \A i, j \in 1 .. Len(b) : i < j => b[i] < b[j]
  PROVE  /\ Head(b) \in {b[j] : j \in 1 .. Len(b)}
         /\ \A x \in {b[j] : j \in 1 .. Len(b)} : Head(b) <= x
         /\ Tail(b) \in Seq(S) /\ Len(Tail(b)) < Len(b)
         /\ {Tail(b)[j] : j \in 1 .. Len(Tail(b))} =
                {x \in {b[j] : j \in 1 .. Len(b)} : Head(b) < x}
         /\ \A i, j \in 1 .. Len(Tail(b)) : i < j => Tail(b)[i] < Tail(b)[j]
<1>1. Len(b) \in Nat \ {0} /\ Head(b) = b[1] /\ \A j \in 1 .. Len(b) : b[j] \in Nat
  <2>1. Len(b) \in Nat /\ Len(b) # 0 /\ Head(b) = b[1]
    OBVIOUS
  <2>2. \A j \in 1 .. Len(b) : b[j] \in S
    OBVIOUS
  <2> QED
    BY <2>1, <2>2
<1>2. Tail(b) \in Seq(S) /\ Len(Tail(b)) = Len(b) - 1
      /\ \A j \in 1 .. Len(b) - 1 : Tail(b)[j] = b[j + 1]
  BY HeadTailProperties
<1>3. Head(b) \in {b[j] : j \in 1 .. Len(b)} /\ \A j \in 1 .. Len(b) : b[1] <= b[j]
  BY <1>1
<1>4. \A j \in 1 .. Len(b) : b[1] < b[j] => j - 1 \in 1 .. Len(b) - 1 /\ (j - 1) + 1 = j
  BY <1>1
<1>5. \A j \in 1 .. Len(b) - 1 : j + 1 \in 1 .. Len(b) /\ b[1] < b[j + 1]
  BY <1>1
<1>6. {Tail(b)[j] : j \in 1 .. Len(Tail(b))} =
          {x \in {b[j] : j \in 1 .. Len(b)} : Head(b) < x}
  BY <1>1, <1>2, <1>4, <1>5
<1>7. ASSUME NEW i \in 1 .. Len(Tail(b)), NEW j \in 1 .. Len(Tail(b)), i < j
      PROVE  Tail(b)[i] < Tail(b)[j]
  BY <1>1, <1>2, <1>7
<1> QED
  BY <1>1, <1>2, <1>3, <1>6, <1>7

(* read(): the end of the pipe comes after the last candidate, and a       *)
(* number is the next one.                                                 *)
Reads(k, x) ==
    /\ x \in Candidates(k) /\ Taken(k) < x /\ x <= Sent(k - 1)
    /\ \A y \in Candidates(k) : Taken(k) < y => x <= y
    /\ \E b \in Seq(2 .. Last) :
           /\ buf' = [buf EXCEPT ![k] = b] /\ Len(b) <= Cap
           /\ {b[j] : j \in 1 .. Len(b)} = {y \in Candidates(k) : x < y /\ y <= Sent(k - 1)}
           /\ \A i, j \in 1 .. Len(b) : i < j => b[i] < b[j]

(* A read finds the next candidate in the pipe, or the end of a pipe whose *)
(* writer waits for its child: then no candidate is left.                  *)
LEMMA ReceivesNext ==
  ASSUME Sieve!PrimesAssumption, SieveInv, NEW k \in 1 .. Last,
         pc[k] \in {"first", "second", "take"}, NEW x, Sieve!Receives(k, x)
  PROVE  IF x = Sieve!EOF
         THEN /\ buf' = buf /\ pc[k - 1] = "wait"
              /\ \A y \in Candidates(k) : y <= Taken(k)
         ELSE Reads(k, x)
<1> DEFINE B == {buf[k][j] : j \in 1 .. Len(buf[k])}
<1>0. Sieve!TypeOK
  BY DEF SieveInv
<1>a. Last \in Nat /\ Cap \in Nat /\ k - 1 \in 0 .. Last /\ k \in 0 .. Last
  BY <1>0, SieveTypes
<1>b. Candidates(k) \subseteq 2 .. Last
  BY <1>0, CandidatesAre
<1>1. /\ Last \in Nat /\ Cap \in Nat /\ k - 1 \in 0 .. Last /\ k \in 0 .. Last
      /\ buf[k] \in Seq(2 .. Last) /\ Len(buf[k]) <= Cap
      /\ Candidates(k) \subseteq 2 .. Last
  BY <1>0, <1>a, <1>b, SieveTypes
<1>2. Taken(k) \in Nat /\ Sent(k - 1) \in Int
  <2>1. /\ prime \in [0 .. Last -> 0 .. Last]
        /\ next \in [0 .. Last -> 2 .. Last]
    BY <1>0, SieveTypes
  <2>2. prime[k] \in 0 .. Last /\ next[k] \in 2 .. Last /\ next[k - 1] \in 2 .. Last
    BY <1>1, <2>1
  <2>3. prime[k] \in Nat /\ next[k] \in Nat /\ next[k - 1] \in Nat
    BY <1>1, <2>2
  <2> QED
    BY <2>3 DEF Taken, Sent
<1>3. /\ B = {y \in Candidates(k) : Taken(k) < y /\ y <= Sent(k - 1)}
      /\ \A i, j \in 1 .. Len(buf[k]) : i < j => buf[k][i] < buf[k][j]
  BY DEF SieveInv, PipesRight, PipeRight
<1>4. CASE buf[k] = <<>> /\ ~Sieve!IsOpen(Sieve!W(k)) /\ x = Sieve!EOF /\ buf' = buf
  <2>1. pc[k - 1] = "wait"
    BY <1>4, NoWriter
  <2>2. Sent(k - 1) = next[k - 1]
    BY <2>1 DEF Sent
  <2>3. \A y \in Candidates(k - 1) : y <= next[k - 1]
    BY <1>1, <2>1 DEF SieveInv, NumbersRight, NumberRight, AtEnd
  <2>4. Candidates(k) \subseteq Candidates(k - 1)
    <3>1. CASE k = 1
      BY <3>1, AllCandidates
    <3>2. CASE k > 1
      BY <1>1, <3>2, CandidatesAre DEF SieveInv
    <3> QED
      BY <3>1, <3>2
  <2>5. B = {}
    BY <1>4
  <2>6. ASSUME NEW y \in Candidates(k), Taken(k) < y PROVE FALSE
    <3>1. y <= Sent(k - 1)
      BY <2>2, <2>3, <2>4, <2>6
    <3>2. y \in B
      BY <1>3, <2>6, <3>1
    <3> QED
      BY <2>5, <3>2
  <2>7. \A y \in Candidates(k) : y <= Taken(k)
    BY <1>1, <1>2, <2>6
  <2> QED
    BY <1>4, <2>1, <2>7
<1>5. CASE buf[k] # <<>> /\ x = Head(buf[k]) /\ buf' = [buf EXCEPT ![k] = Tail(buf[k])]
  <2>1. 2 .. Last \in SUBSET Nat
    BY <1>1
  <2>2. /\ x \in B /\ \A y \in B : x <= y
        /\ Tail(buf[k]) \in Seq(2 .. Last) /\ Len(Tail(buf[k])) < Len(buf[k])
        /\ {Tail(buf[k])[j] : j \in 1 .. Len(Tail(buf[k]))} = {y \in B : x < y}
        /\ \A i, j \in 1 .. Len(Tail(buf[k])) : i < j => Tail(buf[k])[i] < Tail(buf[k])[j]
    BY <1>1, <1>3, <1>5, <2>1, HeadLeast
  <2> HIDE DEF B
  <2>3. /\ x \in Candidates(k) /\ Taken(k) < x /\ x <= Sent(k - 1) /\ x \in 2 .. Last
    BY <1>1, <1>3, <2>2
  <2>4. \A y \in Candidates(k) : Taken(k) < y => x <= y
    BY <1>1, <1>2, <1>3, <2>2, <2>3
  <2>5. {y \in B : x < y} = {y \in Candidates(k) : x < y /\ y <= Sent(k - 1)}
    BY <1>1, <1>2, <1>3, <2>3
  <2>6. Len(Tail(buf[k])) <= Cap
    BY <1>1, <2>2
  <2>7. x # Sieve!EOF
    BY <1>1, <2>3 DEF Sieve!EOF
  <2> QED
    BY <1>5, <2>2, <2>3, <2>4, <2>5, <2>6, <2>7 DEF Reads
<1> QED
  BY <1>4, <1>5 DEF Sieve!Receives

-----------------------------------------------------------------------------
(* The parts of the invariant that the other lemmas need.                  *)
LEMMA InvParts ==
  ASSUME SieveInv
  PROVE  /\ Sieve!TypeOK /\ Chain /\ EndsOpen /\ EndsRead /\ PrimesRight
         /\ NumbersRight /\ PipesRight /\ PrintedRight /\ NoneMissed
BY DEF SieveInv

(* No process reads the end of its pipe for its prime.                     *)
LEMMA FirstReads ==
  ASSUME Sieve!PrimesAssumption, SieveInv, NEW k \in 0 .. Last, pc[k] = "first",
         NEW x, Sieve!Receives(k, x)
  PROVE  x # Sieve!EOF /\ k \in 1 .. Last /\ Reads(k, x)
<1>1. k \in 1 .. Last
  BY InvParts, SieveTypes DEF Chain, Offers
<1>2. Candidates(k) # {} /\ Candidates(k) \subseteq 2 .. Last /\ prime[k] = 0 /\ Last \in Nat
  BY <1>1, InvParts, SieveTypes, CandidatesAre DEF NoneMissed, PrimesRight
<1>3. Taken(k) = 0
  BY <1>2 DEF Taken
<1>4. x # Sieve!EOF
  <2> SUFFICES ASSUME x = Sieve!EOF PROVE FALSE
    OBVIOUS
  <2>1. \A y \in Candidates(k) : y <= 0
    BY <1>1, <1>3, ReceivesNext
  <2> QED
    BY <1>2, <2>1
<1> QED
  BY <1>1, <1>4, ReceivesNext

(* A process that has read a second number is not the last one.            *)
LEMMA NotTheLast ==
  ASSUME Sieve!PrimesAssumption, SieveInv, NEW k \in 0 .. Last,
         pc[k] \in {"pipe", "fork"} \cup Offers
  PROVE  k < Last /\ prime[k] < next[k] /\ next[k] \in Candidates(k)
<1>1. /\ Last \in Nat /\ Last > 1 /\ next[k] \in 2 .. Last
      /\ prime[k] < next[k] /\ next[k] \in Candidates(k) /\ prime[k] \in 0 .. Last
  BY InvParts, SieveTypes DEF NumbersRight, NumberRight
<1>2. k > 0 => k < prime[k]
  BY <1>1, InvParts DEF PrimesRight
<1> QED
  BY <1>1, <1>2

(* How the processes move.  One ends because fork() failed, when its pipe  *)
(* has had one number, after its child, or, main(), when its child has     *)
(* gone; and all numbers are read when the parent waits.                   *)
Edges ==
    {<<"pipe", "fork">>, <<"fork", "ended">>, <<"parent", "send">>, <<"child", "first">>,
     <<"first", "second">>, <<"second", "pipe">>, <<"second", "ended">>,
     <<"send", "take">>, <<"send", "ended">>, <<"take", "send">>, <<"take", "closeIn">>,
     <<"take", "closeOut">>, <<"closeIn", "closeOut">>, <<"closeOut", "wait">>,
     <<"wait", "ended">>}

Moves(k, l) ==
    /\ pc' = [pc EXCEPT ![k] = l] /\ <<pc[k], l>> \in Edges
    /\ refused' = IF pc[k] = "fork" /\ l = "ended" THEN refused \cup {k} ELSE refused
    /\ pc[k] = "second" /\ l = "ended" =>
           pc[k - 1] = "wait" /\ \A y \in Candidates(k) : y <= prime[k]
    /\ pc[k] = "send" /\ l = "ended" => k = 0 /\ pc[1] = "ended" /\ 1 \in refused
    /\ pc[k] = "wait" => pc[k + 1] = "ended"
    /\ l = "closeIn" =>
           k > 0 /\ pc[k - 1] = "wait" /\ \A y \in Candidates(k) : y <= next[k]
    /\ pc[k] = "take" /\ l = "closeOut" => k = 0

(* A step moves its own process along an edge; only fork() moves two.      *)
LEMMA StepMoves ==
  ASSUME Sieve!PrimesAssumption, SieveInv, NEW k \in 0 .. Last, Sieve!Proc(k)
  PROVE  \/ Sieve!Fork(k)
         \/ \E l \in Points : Moves(k, l)
<1>1. Last \in Nat /\ pc \in [0 .. Last -> Points]
  BY InvParts, SieveTypes
<1>2. pc[k] \in {"second", "take"} /\ k > 0 => k \in 1 .. Last
  BY <1>1
<1> USE DEF Moves, Points, Edges, Sieve!Goto, Sieve!Exit
<1>3. CASE Sieve!Pipe(k)
  BY <1>3 DEF Sieve!Pipe
<1>4. CASE Sieve!ForkFails(k)
  BY <1>4 DEF Sieve!ForkFails
<1>5. CASE Sieve!Parent(k)
  BY <1>5 DEF Sieve!Parent, Sieve!LoopStart
<1>6. CASE Sieve!Child(k)
  BY <1>6 DEF Sieve!Child
<1>7. CASE Sieve!First(k)
  <2>1. PICK x \in 0 .. Last :
           /\ Sieve!Receives(k, x)
           /\ IF x = Sieve!EOF THEN TRUE ELSE Sieve!Goto(k, "second")
    BY <1>7 DEF Sieve!First
  <2>2. x # Sieve!EOF
    BY <1>7, <2>1, FirstReads DEF Sieve!First
  <2> QED
    BY <1>7, <2>1, <2>2 DEF Sieve!First
<1>8. CASE Sieve!Second(k)
  <2>1. k \in 1 .. Last
    BY <1>1, <1>8, InvParts DEF Sieve!Second, Chain, Offers
  <2>2. PICK x \in 0 .. Last :
           /\ Sieve!Receives(k, x)
           /\ Sieve!Goto(k, IF x = Sieve!EOF THEN "ended" ELSE "pipe")
    BY <1>8 DEF Sieve!Second
  <2>3. x = Sieve!EOF => pc[k - 1] = "wait" /\ \A y \in Candidates(k) : y <= prime[k]
    <3>1. pc[k] = "second" /\ Taken(k) = prime[k]
      BY <1>8 DEF Sieve!Second, Taken
    <3> QED
      BY <2>1, <2>2, <3>1, ReceivesNext
  <2> QED
    BY <1>8, <2>2, <2>3 DEF Sieve!Second
<1>9. CASE Sieve!Send(k)
  BY <1>9 DEF Sieve!Send
<1>10. CASE Sieve!SendFails(k)
  <2>1. pc[k + 1] = "ended" /\ k + 1 \in refused
    BY <1>10, NoReader DEF Sieve!SendFails
  <2>2. CASE k = 0
    BY <1>10, <2>1, <2>2 DEF Sieve!SendFails
  <2>3. CASE k # 0
    BY <1>10, <2>3 DEF Sieve!SendFails
  <2> QED
    BY <2>2, <2>3
<1>11. CASE Sieve!Skip(k)
  BY <1>11 DEF Sieve!Skip
<1>12. CASE Sieve!TakeMain(k)
  <2>1. pc[k] = "take" /\ k = 0 /\ refused' = refused
        /\ (pc' = [pc EXCEPT ![k] = "send"] \/ pc' = [pc EXCEPT ![k] = "closeOut"])
    BY <1>12 DEF Sieve!TakeMain
  <2> QED
    BY <2>1
<1>13. CASE Sieve!Take(k)
  <2>1. k \in 1 .. Last
    BY <1>2, <1>13 DEF Sieve!Take
  <2>2. PICK x \in 0 .. Last :
           /\ Sieve!Receives(k, x)
           /\ Sieve!Goto(k, IF x = Sieve!EOF THEN "closeIn" ELSE "send")
    BY <1>13 DEF Sieve!Take
  <2>3. x = Sieve!EOF => pc[k - 1] = "wait" /\ \A y \in Candidates(k) : y <= next[k]
    <3>1. pc[k] = "take" /\ Taken(k) = next[k]
      BY <1>13 DEF Sieve!Take, Taken
    <3> QED
      BY <2>1, <2>2, <3>1, ReceivesNext
  <2> QED
    BY <1>13, <2>1, <2>2, <2>3 DEF Sieve!Take
<1>14. CASE Sieve!CloseIn(k)
  BY <1>14 DEF Sieve!CloseIn
<1>15. CASE Sieve!CloseOut(k)
  BY <1>15 DEF Sieve!CloseOut
<1>16. CASE Sieve!Wait(k)
  BY <1>16 DEF Sieve!Wait, Sieve!ChildEnded
<1> QED
  BY <1>3, <1>4, <1>5, <1>6, <1>7, <1>8, <1>9, <1>10, <1>11, <1>12, <1>13, <1>14,
     <1>15, <1>16 DEF Sieve!Proc

(* fork(): the child was not born before.                                  *)
LEMMA ForkMoves ==
  ASSUME Sieve!PrimesAssumption, SieveInv, NEW k \in 0 .. Last, Sieve!Fork(k)
  PROVE  /\ pc[k] = "fork" /\ k + 1 \in 1 .. Last /\ pc[k + 1] = "unborn"
         /\ pc' = [pc EXCEPT ![k] = "parent", ![k + 1] = "child"]
         /\ fds' = [fds EXCEPT ![k + 1] = fds[k]]
         /\ UNCHANGED <<buf, prime, next, printed, status, refused>>
<1>1. Last \in Nat /\ k < Last /\ pc[k] = "fork"
  BY InvParts, SieveTypes, NotTheLast DEF Sieve!Fork
<1>2. k + 1 \in 1 .. Last /\ (k + 1) - 1 = k
  BY <1>1
<1>3. pc[k + 1] = "unborn"
  BY <1>1, <1>2, InvParts DEF Chain, Offers
<1> QED
  BY <1>1, <1>2, <1>3 DEF Sieve!Fork

-----------------------------------------------------------------------------
(* The chain.                                                              *)
LEMMA ChainStep ==
  ASSUME Sieve!PrimesAssumption, SieveInv, NEW k \in 0 .. Last, Sieve!Proc(k)
  PROVE  Chain'
<1>1. Last \in Nat /\ Last > 1 /\ pc \in [0 .. Last -> Points] /\ Chain
  BY InvParts, SieveTypes
<1>2. CASE Sieve!Fork(k)
  <2>1. /\ pc[k] = "fork" /\ k + 1 \in 1 .. Last /\ pc[k + 1] = "unborn"
        /\ pc' = [pc EXCEPT ![k] = "parent", ![k + 1] = "child"]
    BY <1>2, ForkMoves
  <2> QED
    BY <1>1, <2>1 DEF Chain, Offers
<1>3. CASE \E l \in Points : Moves(k, l)
  <2>1. PICK l \in Points : Moves(k, l)
    BY <1>3
  <2>2. pc' = [pc EXCEPT ![k] = l] /\ <<pc[k], l>> \in Edges
    BY <2>1 DEF Moves
  <2>3. pc'[0] \in {"pipe", "fork", "ended"} \cup (Offers \ {"closeIn"})
    BY <1>1, <2>1, <2>2 DEF Chain, Offers, Edges, Moves
  <2>4. ASSUME NEW j \in 1 .. Last, pc'[j] # "unborn" PROVE pc'[j - 1] \in Offers \cup {"ended"}
    BY <1>1, <2>2, <2>4 DEF Chain, Offers, Edges
  <2>5. ASSUME NEW j \in 0 .. Last, pc'[j] \in Offers PROVE j < Last /\ pc'[j + 1] # "unborn"
    BY <1>1, <2>2, <2>5 DEF Chain, Offers, Edges
  <2>6. ASSUME NEW j \in 1 .. Last, pc'[j - 1] = "ended" PROVE pc'[j] \in {"unborn", "ended"}
    BY <1>1, <2>1, <2>2, <2>6 DEF Chain, Offers, Edges, Moves
  <2> QED
    BY <2>3, <2>4, <2>5, <2>6 DEF Chain
<1> QED
  BY <1>2, <1>3, StepMoves

(* Who has read the end of its pipe, and who ends early.                   *)
LEMMA EndsReadStep ==
  ASSUME Sieve!PrimesAssumption, SieveInv, NEW k \in 0 .. Last, Sieve!Proc(k)
  PROVE  EndsRead'
<1>1. Last \in Nat /\ pc \in [0 .. Last -> Points] /\ Chain /\ EndsRead
  BY InvParts, SieveTypes
<1> SUFFICES ASSUME NEW j \in 1 .. Last
             PROVE  /\ pc'[j] \in AtEnd => pc'[j - 1] = "wait"
                    /\ pc'[j] = "ended" /\ pc'[j - 1] \in Offers \ {"wait"} => j \in refused'
  BY DEF EndsRead
<1>2. CASE Sieve!Fork(k)
  <2>1. /\ pc[k] = "fork" /\ k + 1 \in 1 .. Last /\ pc[k + 1] = "unborn"
        /\ pc' = [pc EXCEPT ![k] = "parent", ![k + 1] = "child"] /\ refused' = refused
    BY <1>2, ForkMoves
  <2> QED
    BY <1>1, <2>1 DEF Chain, EndsRead, Offers, AtEnd
<1>3. CASE \E l \in Points : Moves(k, l)
  <2>1. PICK l \in Points : Moves(k, l)
    BY <1>3
  <2>2. pc' = [pc EXCEPT ![k] = l] /\ <<pc[k], l>> \in Edges /\ refused \subseteq refused'
    BY <2>1 DEF Moves
  <2>3. CASE j = k
    BY <1>1, <2>1, <2>2, <2>3 DEF Chain, EndsRead, Offers, AtEnd, Edges, Moves
  <2>4. CASE j - 1 = k
    BY <1>1, <2>1, <2>2, <2>4 DEF Chain, EndsRead, Offers, AtEnd, Edges, Moves
  <2>5. CASE j # k /\ j - 1 # k
    BY <1>1, <2>2, <2>5 DEF EndsRead
  <2> QED
    BY <2>3, <2>4, <2>5
<1> QED
  BY <1>2, <1>3, StepMoves

-----------------------------------------------------------------------------
(* What opens and closes between two points of a process.                  *)
LEMMA EndsMove ==
  ASSUME NEW k \in Nat
  PROVE  /\ EndsAt(k, "fork") = EndsAt(k, "pipe") \cup {Sieve!R(k + 1), Sieve!W(k + 1)}
         /\ EndsAt(k + 1, "child") = EndsAt(k, "fork") /\ EndsAt(k, "parent") = EndsAt(k, "fork")
         /\ EndsAt(k, "send") = EndsAt(k, "parent") \ {Sieve!R(k + 1)}
         /\ EndsAt(k, "first") = EndsAt(k, "child") \ {Sieve!W(k)}
         /\ EndsAt(k, "second") = EndsAt(k, "first") /\ EndsAt(k, "pipe") = EndsAt(k, "first")
         /\ EndsAt(k, "take") = EndsAt(k, "send") /\ EndsAt(k, "closeIn") = EndsAt(k, "take")
         /\ k > 0 => EndsAt(k, "closeOut") = EndsAt(k, "closeIn") \ {Sieve!R(k)}
         /\ k = 0 => EndsAt(k, "closeOut") = EndsAt(k, "take")
         /\ EndsAt(k, "wait") = EndsAt(k, "closeOut") \ {Sieve!W(k + 1)}
         /\ EndsAt(k, "ended") = {} /\ EndsAt(k, "unborn") = {}
<1> DEFINE Inherited(m) == {Sieve!R(j) : j \in 1 .. m}
<1>1. /\ EndsAt(k, "unborn") = {} /\ EndsAt(k, "ended") = {}
      /\ EndsAt(k, "child") = Inherited(k) \cup {Sieve!W(k)}
      /\ EndsAt(k + 1, "child") = Inherited(k + 1) \cup {Sieve!W(k + 1)}
      /\ EndsAt(k, "first") = Inherited(k) /\ EndsAt(k, "second") = Inherited(k)
      /\ EndsAt(k, "pipe") = Inherited(k)
      /\ EndsAt(k, "fork") = Inherited(k) \cup {Sieve!R(k + 1), Sieve!W(k + 1)}
      /\ EndsAt(k, "parent") = Inherited(k) \cup {Sieve!R(k + 1), Sieve!W(k + 1)}
      /\ EndsAt(k, "send") = Inherited(k) \cup {Sieve!W(k + 1)}
      /\ EndsAt(k, "take") = Inherited(k) \cup {Sieve!W(k + 1)}
      /\ EndsAt(k, "closeIn") = Inherited(k) \cup {Sieve!W(k + 1)}
      /\ EndsAt(k, "closeOut") = Inherited(k - 1) \cup {Sieve!W(k + 1)}
      /\ EndsAt(k, "wait") = Inherited(k - 1)
  BY DEF EndsAt
<1>2. /\ Inherited(k + 1) = Inherited(k) \cup {Sieve!R(k + 1)}
      /\ Sieve!R(k + 1) \notin Inherited(k)
  BY DEF Sieve!R
<1>3. k > 0 => Inherited(k) = Inherited(k - 1) \cup {Sieve!R(k)} /\ Sieve!R(k) \notin Inherited(k - 1)
  BY DEF Sieve!R
<1>4. k = 0 => Inherited(k) = {} /\ Inherited(k - 1) = {}
  OBVIOUS
<1>5. /\ Sieve!W(k + 1) \notin Inherited(k) /\ Sieve!W(k) \notin Inherited(k)
      /\ Sieve!W(k + 1) \notin Inherited(k - 1)
      /\ Sieve!W(k + 1) # Sieve!R(k + 1) /\ Sieve!W(k + 1) # Sieve!R(k)
  BY DEF Sieve!R, Sieve!W
<1> HIDE DEF Inherited
<1>6. /\ EndsAt(k, "fork") = EndsAt(k, "pipe") \cup {Sieve!R(k + 1), Sieve!W(k + 1)}
      /\ EndsAt(k + 1, "child") = EndsAt(k, "fork") /\ EndsAt(k, "parent") = EndsAt(k, "fork")
  BY <1>1, <1>2
<1>7. /\ EndsAt(k, "send") = EndsAt(k, "parent") \ {Sieve!R(k + 1)}
      /\ EndsAt(k, "first") = EndsAt(k, "child") \ {Sieve!W(k)}
  BY <1>1, <1>2, <1>5
<1>8. /\ EndsAt(k, "second") = EndsAt(k, "first") /\ EndsAt(k, "pipe") = EndsAt(k, "first")
      /\ EndsAt(k, "take") = EndsAt(k, "send") /\ EndsAt(k, "closeIn") = EndsAt(k, "take")
      /\ EndsAt(k, "ended") = {} /\ EndsAt(k, "unborn") = {}
  BY <1>1
<1>9. ASSUME k > 0 PROVE EndsAt(k, "closeOut") = EndsAt(k, "closeIn") \ {Sieve!R(k)}
  BY <1>1, <1>3, <1>5, <1>9
<1>10. ASSUME k = 0 PROVE EndsAt(k, "closeOut") = EndsAt(k, "take")
  BY <1>1, <1>4, <1>10
<1>11. EndsAt(k, "wait") = EndsAt(k, "closeOut") \ {Sieve!W(k + 1)}
  BY <1>1, <1>5
<1> QED
  BY <1>6, <1>7, <1>8, <1>9, <1>10, <1>11

(* The descriptors of every process.                                       *)
LEMMA EndsOpenStep ==
  ASSUME Sieve!PrimesAssumption, SieveInv, NEW k \in 0 .. Last, Sieve!Proc(k)
  PROVE  EndsOpen'
<1>1. /\ Last \in Nat /\ k \in Nat /\ pc \in [0 .. Last -> Points] /\ DOMAIN fds = 0 .. Last
      /\ \A j \in 0 .. Last : fds[j] = EndsAt(j, pc[j])
  BY InvParts, SieveTypes DEF EndsOpen
<1> SUFFICES ASSUME NEW j \in 0 .. Last PROVE fds'[j] = EndsAt(j, pc'[j])
  BY DEF EndsOpen
<1> USE DEF Sieve!Goto, Sieve!Closes, Sieve!Exit
<1>2. ASSUME NEW l, pc' = [pc EXCEPT ![k] = l],
             fds' = [fds EXCEPT ![k] = EndsAt(k, l)]
      PROVE  fds'[j] = EndsAt(j, pc'[j])
  BY <1>1, <1>2
<1>3. ASSUME NEW l, pc' = [pc EXCEPT ![k] = l], fds' = fds, EndsAt(k, l) = EndsAt(k, pc[k])
      PROVE  fds'[j] = EndsAt(j, pc'[j])
  BY <1>1, <1>3
<1>4. ASSUME pc' = [pc EXCEPT ![k] = "ended"], fds' = [fds EXCEPT ![k] = @ \ fds[k]]
      PROVE  fds'[j] = EndsAt(j, pc'[j])
  <2>1. fds' = [fds EXCEPT ![k] = {}]
    BY <1>4
  <2> QED
    BY <1>1, <1>4, <2>1, EndsMove
<1>5. CASE Sieve!Pipe(k)
  <2>1. EndsAt(k, "fork") = EndsAt(k, pc[k]) \cup {Sieve!R(k + 1), Sieve!W(k + 1)}
    BY <1>1, <1>5, EndsMove DEF Sieve!Pipe
  <2>2. fds' = [fds EXCEPT ![k] = EndsAt(k, "fork")]
    BY <1>1, <1>5, <2>1 DEF Sieve!Pipe
  <2> QED
    BY <1>2, <1>5, <2>2 DEF Sieve!Pipe
<1>6. CASE Sieve!Fork(k)
  <2>1. /\ pc[k] = "fork" /\ k + 1 \in 1 .. Last
        /\ pc' = [pc EXCEPT ![k] = "parent", ![k + 1] = "child"]
        /\ fds' = [fds EXCEPT ![k + 1] = fds[k]]
    BY <1>6, ForkMoves
  <2> QED
    BY <1>1, <2>1, EndsMove
<1>7. CASE Sieve!ForkFails(k)
  BY <1>4, <1>7 DEF Sieve!ForkFails
<1>8. CASE Sieve!Parent(k)
  <2>1. EndsAt(k, "send") = EndsAt(k, pc[k]) \ {Sieve!R(k + 1)}
    BY <1>1, <1>8, EndsMove DEF Sieve!Parent
  <2>2. fds' = [fds EXCEPT ![k] = EndsAt(k, "send")]
    BY <1>1, <1>8, <2>1 DEF Sieve!Parent, Sieve!LoopStart
  <2> QED
    BY <1>2, <1>8, <2>2 DEF Sieve!Parent, Sieve!LoopStart
<1>9. CASE Sieve!Child(k)
  <2>1. EndsAt(k, "first") = EndsAt(k, pc[k]) \ {Sieve!W(k)}
    BY <1>1, <1>9, EndsMove DEF Sieve!Child
  <2>2. fds' = [fds EXCEPT ![k] = EndsAt(k, "first")]
    BY <1>1, <1>9, <2>1 DEF Sieve!Child, Sieve!ChildCloses
  <2> QED
    BY <1>2, <1>9, <2>2 DEF Sieve!Child
<1>10. CASE Sieve!First(k)
  <2>1. \/ Sieve!Exit(k, 1)
        \/ Sieve!Goto(k, "second") /\ fds' = fds
    BY <1>10 DEF Sieve!First
  <2>2. EndsAt(k, "second") = EndsAt(k, pc[k])
    BY <1>1, <1>10, EndsMove DEF Sieve!First
  <2> QED
    BY <1>3, <1>4, <2>1, <2>2
<1>11. CASE Sieve!Second(k)
  <2>1. \/ Sieve!Exit(k, 0)
        \/ Sieve!Goto(k, "pipe") /\ fds' = fds
    BY <1>11 DEF Sieve!Second
  <2>2. EndsAt(k, "pipe") = EndsAt(k, pc[k])
    BY <1>1, <1>11, EndsMove DEF Sieve!Second
  <2> QED
    BY <1>3, <1>4, <2>1, <2>2
<1>12. CASE Sieve!Send(k)
  <2>1. EndsAt(k, "take") = EndsAt(k, pc[k])
    BY <1>1, <1>12, EndsMove DEF Sieve!Send
  <2> QED
    BY <1>3, <1>12, <2>1 DEF Sieve!Send
<1>13. CASE Sieve!SendFails(k)
  <2>1. EndsAt(k, "take") = EndsAt(k, pc[k])
    BY <1>1, <1>13, EndsMove DEF Sieve!SendFails
  <2>2. \/ Sieve!Exit(k, 1)
        \/ Sieve!Goto(k, "take") /\ fds' = fds
    BY <1>13 DEF Sieve!SendFails
  <2> QED
    BY <1>3, <1>4, <2>1, <2>2
<1>14. CASE Sieve!Skip(k)
  <2>1. EndsAt(k, "take") = EndsAt(k, pc[k])
    BY <1>1, <1>14, EndsMove DEF Sieve!Skip
  <2> QED
    BY <1>3, <1>14, <2>1 DEF Sieve!Skip
<1>15. CASE Sieve!TakeMain(k)
  <2>1. EndsAt(k, "send") = EndsAt(k, pc[k]) /\ EndsAt(k, "closeOut") = EndsAt(k, pc[k])
    BY <1>1, <1>15, EndsMove DEF Sieve!TakeMain
  <2>2. fds' = fds /\ (Sieve!Goto(k, "send") \/ Sieve!Goto(k, "closeOut"))
    BY <1>15 DEF Sieve!TakeMain
  <2> QED
    BY <1>3, <2>1, <2>2
<1>16. CASE Sieve!Take(k)
  <2>1. EndsAt(k, "send") = EndsAt(k, pc[k]) /\ EndsAt(k, "closeIn") = EndsAt(k, pc[k])
    BY <1>1, <1>16, EndsMove DEF Sieve!Take
  <2>2. fds' = fds /\ (Sieve!Goto(k, "send") \/ Sieve!Goto(k, "closeIn"))
    BY <1>16 DEF Sieve!Take
  <2> QED
    BY <1>3, <2>1, <2>2
<1>17. CASE Sieve!CloseIn(k)
  <2>1. k > 0
    BY <1>1, <1>17, InvParts DEF Chain, Offers, Sieve!CloseIn
  <2> QED
    <3>1. EndsAt(k, "closeOut") = EndsAt(k, pc[k]) \ {Sieve!R(k)}
      BY <1>1, <1>17, <2>1, EndsMove DEF Sieve!CloseIn
    <3>2. fds' = [fds EXCEPT ![k] = EndsAt(k, "closeOut")]
      BY <1>1, <1>17, <3>1 DEF Sieve!CloseIn
    <3> QED
      BY <1>2, <1>17, <3>2 DEF Sieve!CloseIn
<1>18. CASE Sieve!CloseOut(k)
  <2>1. EndsAt(k, "wait") = EndsAt(k, pc[k]) \ {Sieve!W(k + 1)}
    BY <1>1, <1>18, EndsMove DEF Sieve!CloseOut
  <2>2. fds' = [fds EXCEPT ![k] = EndsAt(k, "wait")]
    BY <1>1, <1>18, <2>1 DEF Sieve!CloseOut, Sieve!SenderCloses
  <2> QED
    BY <1>2, <1>18, <2>2 DEF Sieve!CloseOut
<1>19. CASE Sieve!Wait(k)
  BY <1>4, <1>19 DEF Sieve!Wait
<1> QED
  BY <1>5, <1>6, <1>7, <1>8, <1>9, <1>10, <1>11, <1>12, <1>13, <1>14, <1>15, <1>16,
     <1>17, <1>18, <1>19 DEF Sieve!Proc

-----------------------------------------------------------------------------
(* Who has not read its prime, or its second number, has nobody below it.  *)
LEMMA NobodyBelow ==
  ASSUME Sieve!PrimesAssumption, SieveInv, NEW k \in 0 .. Last,
         pc[k] \in {"child", "first", "second", "pipe", "fork"},
         NEW j \in k + 1 .. Last
  PROVE  pc[j] = "unborn" /\ prime[j] = 0 /\ j \in 1 .. Last
<1>1. /\ Last \in Nat /\ Chain /\ PrimesRight /\ j \in 1 .. Last
      /\ k + 1 \in 1 .. Last /\ (k + 1) - 1 = k
  BY InvParts, SieveTypes
<1>2. pc[k + 1] = "unborn"
  BY <1>1 DEF Chain, Offers
<1>3. prime[k + 1] = 0
  BY <1>1, <1>2 DEF PrimesRight
<1>4. pc[j] = "unborn"
  <2>1. CASE j = k + 1
    BY <1>2, <2>1
  <2>2. CASE j # k + 1
    <3>1. k + 1 \in 1 .. j - 1
      BY <1>1, <2>2
    <3> QED
      BY <1>1, <1>3, <3>1 DEF PrimesRight
  <2> QED
    BY <2>1, <2>2
<1> QED
  BY <1>1, <1>4 DEF PrimesRight

(* The first number read is the prime of the process, and printed.         *)
LEMMA FirstIs ==
  ASSUME Sieve!PrimesAssumption, SieveInv, NEW k \in 0 .. Last, Sieve!First(k)
  PROVE  \E x \in 2 .. Last :
             /\ k \in 1 .. Last /\ pc[k] = "first" /\ prime[k] = 0
             /\ Reads(k, x) /\ \A y \in Candidates(k) : x <= y
             /\ pc' = [pc EXCEPT ![k] = "second"]
             /\ prime' = [prime EXCEPT ![k] = x] /\ printed' = Append(printed, x)
             /\ UNCHANGED <<fds, status, next, refused>>
<1>1. PICK x \in 0 .. Last :
         /\ Sieve!Receives(k, x)
         /\ x # Sieve!EOF => /\ prime' = [prime EXCEPT ![k] = x]
                             /\ printed' = Append(printed, x)
                             /\ Sieve!Goto(k, "second") /\ UNCHANGED <<fds, status>>
  BY DEF Sieve!First
<1>2. pc[k] = "first" /\ UNCHANGED <<next, refused>>
  BY DEF Sieve!First
<1>3. x # Sieve!EOF /\ k \in 1 .. Last /\ Reads(k, x)
  BY <1>1, <1>2, FirstReads
<1>4. prime[k] = 0 /\ Candidates(k) \subseteq 2 .. Last /\ Last \in Nat
  BY <1>2, <1>3, InvParts, SieveTypes, CandidatesAre DEF PrimesRight
<1>5. Taken(k) = 0
  BY <1>2, <1>4 DEF Taken
<1>6. x \in 2 .. Last /\ \A y \in Candidates(k) : x <= y
  BY <1>3, <1>4, <1>5 DEF Reads
<1> QED
  BY <1>1, <1>2, <1>3, <1>4, <1>6 DEF Sieve!Goto

(* Only the first number changes the candidates, of the processes below.   *)
LEMMA CandidatesStay ==
  ASSUME Sieve!PrimesAssumption, SieveInv, NEW k \in 0 .. Last, Sieve!Proc(k),
         NEW j \in 0 .. Last, pc[k] = "first" => j <= k
  PROVE  Candidates(j)' = Candidates(j)
<1>1. CASE Sieve!First(k)
  <2>1. PICK x \in 2 .. Last : prime' = [prime EXCEPT ![k] = x] /\ pc[k] = "first"
    BY <1>1, FirstIs
  <2>2. Last \in Nat /\ DOMAIN prime = 0 .. Last
    BY InvParts, SieveTypes
  <2>3. \A i \in 1 .. j - 1 : i \in 0 .. Last /\ i # k
    BY <2>1, <2>2
  <2>4. \A i \in 1 .. j - 1 : prime'[i] = prime[i]
    BY <2>1, <2>2, <2>3
  <2> QED
    BY <2>4 DEF Candidates
<1>2. CASE ~Sieve!First(k)
  <2>1. prime' = prime
    BY <1>2 DEF Sieve!Proc, Sieve!Pipe, Sieve!Fork, Sieve!ForkFails, Sieve!Parent,
       Sieve!Child, Sieve!Second, Sieve!Send, Sieve!SendFails, Sieve!Skip,
       Sieve!TakeMain, Sieve!Take, Sieve!CloseIn, Sieve!CloseOut, Sieve!Wait
  <2> QED
    BY <2>1 DEF Candidates
<1> QED
  BY <1>1, <1>2

(* What a step leaves as it is.                                            *)
LEMMA StepKeeps ==
  ASSUME Sieve!PrimesAssumption, SieveInv, NEW k \in 0 .. Last, Sieve!Proc(k)
  PROVE  /\ \/ Sieve!First(k)
            \/ pc[k] # "first" /\ UNCHANGED <<prime, printed>>
         /\ \/ Sieve!Second(k) \/ Sieve!TakeMain(k) \/ Sieve!Take(k)
            \/ pc[k] \notin {"second", "take"} /\ UNCHANGED next
BY DEF Sieve!Proc, Sieve!Pipe, Sieve!Fork, Sieve!ForkFails, Sieve!Parent, Sieve!First,
   Sieve!Child, Sieve!Second, Sieve!Send, Sieve!SendFails, Sieve!Skip,
   Sieve!TakeMain, Sieve!Take, Sieve!CloseIn, Sieve!CloseOut, Sieve!Wait

-----------------------------------------------------------------------------
(* The primes.                                                             *)
LEMMA PrimesStep ==
  ASSUME Sieve!PrimesAssumption, SieveInv, NEW k \in 0 .. Last, Sieve!Proc(k)
  PROVE  PrimesRight'
<1>1. /\ Last \in Nat /\ pc \in [0 .. Last -> Points] /\ prime \in [0 .. Last -> 0 .. Last]
      /\ Chain /\ PrimesRight
  BY InvParts, SieveTypes
<1>2. CASE Sieve!First(k)
  <2>1. PICK x \in 2 .. Last :
           /\ k \in 1 .. Last /\ pc[k] = "first" /\ prime[k] = 0
           /\ Reads(k, x) /\ \A y \in Candidates(k) : x <= y
           /\ pc' = [pc EXCEPT ![k] = "second"]
           /\ prime' = [prime EXCEPT ![k] = x]
    BY <1>2, FirstIs
  <2>2. x \in Candidates(k)
    BY <2>1 DEF Reads
  <2>3. k < x
    <3>1. CASE k = 1
      BY <1>1, <3>1
    <3>2. CASE k # 1
      <4>1. k - 1 \in 1 .. k - 1 /\ k - 1 \in 1 .. Last /\ \A j \in 1 .. k - 1 : prime[j] # 0
        <5>1. k - 1 \in 1 .. k - 1 /\ k - 1 \in 1 .. Last
          BY <1>1, <2>1, <3>2
        <5>2. \A j \in 1 .. k - 1 : prime[j] # 0
          BY <1>1, <2>1 DEF PrimesRight
        <5> QED
          BY <5>1, <5>2
      <4>2. prime[k - 1] \in 2 .. x - 1
        BY <2>1, <2>2, <4>1, PrimesGrow, InvParts
      <4>3. k - 1 < prime[k - 1]
        BY <1>1, <2>1, <4>1 DEF PrimesRight
      <4> QED
        BY <1>1, <4>2, <4>3
    <3> QED
      BY <3>1, <3>2
  <2>4. \A j \in k + 1 .. Last : pc[j] = "unborn" /\ prime[j] = 0
    BY <2>1, NobodyBelow
  <2>10. \A j \in 1 .. k - 1 : prime[j] # 0
    BY <1>1, <2>1 DEF PrimesRight
  <2>9. pc'[k] = "second" /\ prime'[k] = x /\ x # 0
    BY <1>1, <2>1
  <2>5. \A j \in 0 .. k : Candidates(j)' = Candidates(j)
    BY <1>1, CandidatesStay
  <2>6. prime'[0] = 0
    BY <1>1, <2>1 DEF PrimesRight
  <2>7. ASSUME NEW j \in 1 .. Last
        PROVE  /\ pc'[j] \in {"unborn", "child", "first"} => prime'[j] = 0
               /\ pc'[j] \in {"second", "pipe", "fork"} \cup Offers => prime'[j] # 0
               /\ pc'[j] # "unborn" => \A i \in 1 .. j - 1 : prime'[i] # 0
    <3>1. CASE j < k
      <4>1. \A i \in 1 .. j : prime'[i] = prime[i] /\ i \in 1 .. Last
        BY <1>1, <2>1, <3>1
      <4> QED
        BY <1>1, <2>1, <3>1, <4>1 DEF PrimesRight
    <3>2. CASE j = k
      <4>1. \A i \in 1 .. k - 1 : prime'[i] = prime[i] /\ i \in 1 .. Last
        BY <1>1, <2>1
      <4> QED
        <5>1. \A i \in 1 .. k - 1 : prime'[i] # 0
          BY <2>10, <4>1
        <5> QED
          BY <2>9, <3>2, <5>1
    <3>3. CASE j > k
      <4>1. j \in k + 1 .. Last
        BY <1>1, <3>3
      <4> QED
        BY <1>1, <2>1, <2>4, <3>3, <4>1, SMTT(30) DEF Offers
    <3> QED
      BY <1>1, <3>1, <3>2, <3>3
  <2>8. ASSUME NEW j \in 1 .. Last, prime'[j] # 0
        PROVE  /\ j < prime'[j] /\ prime'[j] \in Candidates(j)'
               /\ \A y \in Candidates(j)' : prime'[j] <= y
    <3>1. CASE j < k
      BY <1>1, <2>1, <2>5, <2>8, <3>1 DEF PrimesRight
    <3>2. CASE j = k
      <4>1. k \in 0 .. k
        BY <1>1
      <4>2. Candidates(k)' = Candidates(k)
        BY <2>5, <4>1
      <4>3. prime'[k] \in Candidates(k)' /\ \A y \in Candidates(k)' : prime'[k] <= y
        BY <2>1, <2>2, <2>9, <4>2
      <4> QED
        BY <2>3, <2>9, <3>2, <4>3
    <3>3. CASE j > k
      BY <1>1, <2>1, <2>4, <2>8, <3>3
    <3> QED
      BY <1>1, <3>1, <3>2, <3>3
  <2> QED
    BY <2>6, <2>7, <2>8 DEF PrimesRight
<1>3. CASE pc[k] # "first" /\ prime' = prime
  <2>1. \A j \in 0 .. Last : Candidates(j)' = Candidates(j)
    BY <1>3, CandidatesStay
  <2>2. CASE Sieve!Fork(k)
    <3>1. /\ pc[k] = "fork" /\ k + 1 \in 1 .. Last /\ pc[k + 1] = "unborn"
          /\ pc' = [pc EXCEPT ![k] = "parent", ![k + 1] = "child"]
      BY <2>2, ForkMoves
    <3>2. \A j \in 1 .. k : prime[j] # 0
      <4>1. k \in 1 .. Last => prime[k] # 0 /\ \A j \in 1 .. k - 1 : prime[j] # 0
        BY <1>1, <3>1 DEF PrimesRight
      <4> QED
        BY <1>1, <4>1
    <3>3. (k + 1) - 1 = k
      BY <1>1
    <3> QED
      BY <1>1, <1>3, <2>1, <3>1, <3>2, <3>3, SMTT(30) DEF PrimesRight, Offers
  <2>3. CASE \E l \in Points : Moves(k, l)
    <3>1. PICK l \in Points : pc' = [pc EXCEPT ![k] = l] /\ <<pc[k], l>> \in Edges
      BY <2>3 DEF Moves
    <3> QED
      BY <1>1, <1>3, <2>1, <3>1, SMTT(30) DEF PrimesRight, Offers, Edges
  <2> QED
    BY <2>2, <2>3, StepMoves
<1> QED
  BY <1>2, <1>3, StepKeeps

(* The primes printed.                                                     *)
LEMMA PrintedStep ==
  ASSUME Sieve!PrimesAssumption, SieveInv, NEW k \in 0 .. Last, Sieve!Proc(k)
  PROVE  PrintedRight'
<1>1. /\ Last \in Nat /\ printed \in Seq(2 .. Last) /\ prime \in [0 .. Last -> 0 .. Last]
      /\ PrimesRight /\ PrintedRight
  BY InvParts, SieveTypes
<1>2. CASE Sieve!First(k)
  <2>1. PICK x \in 2 .. Last :
           /\ k \in 1 .. Last /\ pc[k] = "first" /\ prime[k] = 0
           /\ prime' = [prime EXCEPT ![k] = x] /\ printed' = Append(printed, x)
    BY <1>2, FirstIs
  <2>2. \A j \in 1 .. k - 1 : prime[j] # 0
    BY <1>1, <2>1 DEF PrimesRight
  <2>3. k = Len(printed) + 1
    <3>1. Len(printed) < k
      BY <1>1, <2>1 DEF PrintedRight
    <3>2. k - 1 <= Len(printed)
      BY <1>1, <2>1, <2>2, SMTT(30) DEF PrintedRight
    <3> QED
      BY <1>1, <3>1, <3>2
  <2>4. /\ Len(printed') = k /\ printed'[k] = x
        /\ \A j \in 1 .. k - 1 : printed'[j] = printed[j]
    BY <1>1, <2>1, <2>3
  <2>7. Len(printed) \in Nat /\ Last \in Nat
    BY <1>1
  <2>5. ASSUME NEW j \in 1 .. Last PROVE prime'[j] # 0 <=> j <= k
    <3>1. prime[j] # 0 <=> j <= Len(printed)
      BY <1>1 DEF PrintedRight
    <3>2. j \in 0 .. Last /\ DOMAIN prime = 0 .. Last
      BY <1>1
    <3>3. prime'[j] = IF j = k THEN x ELSE prime[j]
      BY <2>1, <3>2
    <3>4. x # 0 /\ Len(printed) \in Nat /\ j \in Nat /\ k = Len(printed) + 1
      BY <2>3, <2>7
    <3> QED
      BY <3>1, <3>3, <3>4
  <2>6. ASSUME NEW j \in 1 .. k PROVE printed'[j] = prime'[j]
    <3>1. CASE j = k
      BY <1>1, <2>1, <2>4, <3>1
    <3>2. CASE j # k
      <4>1. j \in 1 .. k - 1 /\ j \in 1 .. Len(printed) /\ j \in 0 .. Last
        <5>1. Len(printed) \in Nat
          BY <2>7
        <5> QED
          BY <2>3, <2>7, <3>2, <5>1
      <4> QED
        BY <1>1, <2>1, <2>4, <3>2, <4>1 DEF PrintedRight
    <3> QED
      BY <3>1, <3>2
  <2> QED
    BY <1>1, <2>1, <2>4, <2>5, <2>6 DEF PrintedRight
<1>3. CASE UNCHANGED <<prime, printed>>
  BY <1>1, <1>3 DEF PrintedRight
<1> QED
  BY <1>2, <1>3, StepKeeps

-----------------------------------------------------------------------------
(* The numbers read: the second one, and those of the loop.                *)
LEMMA SecondIs ==
  ASSUME Sieve!PrimesAssumption, SieveInv, NEW k \in 0 .. Last, Sieve!Second(k)
  PROVE  /\ k \in 1 .. Last /\ pc[k] = "second" /\ Taken(k) = prime[k]
         /\ UNCHANGED <<prime, printed, refused>>
         /\ \/ pc' = [pc EXCEPT ![k] = "ended"] /\ UNCHANGED <<buf, next>>
               /\ status' = [status EXCEPT ![k] = 0] /\ fds' = [fds EXCEPT ![k] = {}]
            \/ \E x \in 2 .. Last :
                   /\ Reads(k, x) /\ next' = [next EXCEPT ![k] = x]
                   /\ pc' = [pc EXCEPT ![k] = "pipe"] /\ UNCHANGED <<fds, status>>
<1>1. pc[k] = "second" /\ Taken(k) = prime[k]
  BY DEF Sieve!Second, Taken
<1>2. k \in 1 .. Last /\ Candidates(k) \subseteq 2 .. Last
  <2>1. k \in 1 .. Last
    BY <1>1, InvParts, SieveTypes DEF Chain, Offers
  <2> QED
    BY <2>1, InvParts, CandidatesAre
<1>3. PICK x \in 0 .. Last :
         /\ Sieve!Receives(k, x)
         /\ IF x = Sieve!EOF THEN Sieve!Exit(k, 0) /\ UNCHANGED next
            ELSE /\ next' = [next EXCEPT ![k] = x]
                 /\ Sieve!Goto(k, "pipe") /\ UNCHANGED <<fds, status>>
  BY DEF Sieve!Second
<1>4. UNCHANGED <<prime, printed, refused>>
  BY DEF Sieve!Second
<1>5. CASE x = Sieve!EOF
  <2>1. buf' = buf
    BY <1>1, <1>2, <1>3, <1>5, ReceivesNext
  <2>2. fds' = [fds EXCEPT ![k] = {}]
    BY <1>3, <1>5 DEF Sieve!Exit, Sieve!Closes
  <2> QED
    BY <1>1, <1>2, <1>3, <1>4, <1>5, <2>1, <2>2 DEF Sieve!Exit, Sieve!Goto
<1>6. CASE x # Sieve!EOF
  <2>1. Reads(k, x)
    BY <1>1, <1>2, <1>3, <1>6, ReceivesNext
  <2>2. x \in 2 .. Last
    BY <1>2, <2>1 DEF Reads
  <2> QED
    BY <1>1, <1>2, <1>3, <1>4, <1>6, <2>1, <2>2 DEF Sieve!Goto
<1> QED
  BY <1>5, <1>6

(* A read in the loop: the next number, or the end after the last one.     *)
LEMMA TakeIs ==
  ASSUME Sieve!PrimesAssumption, SieveInv, NEW k \in 0 .. Last, Sieve!Take(k)
  PROVE  /\ k \in 1 .. Last /\ pc[k] = "take" /\ Taken(k) = next[k]
         /\ UNCHANGED <<fds, prime, printed, status, refused>>
         /\ \/ pc' = [pc EXCEPT ![k] = "closeIn"] /\ UNCHANGED <<buf, next>>
               /\ \A y \in Candidates(k) : y <= next[k]
            \/ \E x \in 2 .. Last :
                   /\ Reads(k, x) /\ next' = [next EXCEPT ![k] = x]
                   /\ pc' = [pc EXCEPT ![k] = "send"]
<1>1. pc[k] = "take" /\ Taken(k) = next[k] /\ UNCHANGED <<fds, prime, printed, status, refused>>
  BY DEF Sieve!Take, Taken
<1>2. k \in 1 .. Last /\ Candidates(k) \subseteq 2 .. Last
  <2>1. k \in 1 .. Last
    BY InvParts, SieveTypes DEF Sieve!Take
  <2> QED
    BY <2>1, InvParts, CandidatesAre
<1>3. PICK x \in 0 .. Last :
         /\ Sieve!Receives(k, x)
         /\ IF x = Sieve!EOF THEN Sieve!Goto(k, "closeIn") /\ UNCHANGED next
            ELSE next' = [next EXCEPT ![k] = x] /\ Sieve!Goto(k, "send")
  BY DEF Sieve!Take
<1>4. CASE x = Sieve!EOF
  <2>1. buf' = buf /\ \A y \in Candidates(k) : y <= next[k]
    BY <1>1, <1>2, <1>3, <1>4, ReceivesNext
  <2> QED
    BY <1>1, <1>2, <1>3, <1>4, <2>1 DEF Sieve!Goto
<1>5. CASE x # Sieve!EOF
  <2>1. Reads(k, x)
    BY <1>1, <1>2, <1>3, <1>5, ReceivesNext
  <2>2. x \in 2 .. Last
    BY <1>2, <2>1 DEF Reads
  <2> QED
    BY <1>1, <1>2, <1>3, <1>5, <2>1, <2>2 DEF Sieve!Goto
<1> QED
  BY <1>4, <1>5

(* The number that a process has in hand stays one of its candidates.      *)
LEMMA NumbersStep ==
  ASSUME Sieve!PrimesAssumption, SieveInv, NEW k \in 0 .. Last, Sieve!Proc(k)
  PROVE  NumbersRight'
<1>1. /\ Last \in Nat /\ Last > 1 /\ pc \in [0 .. Last -> Points]
      /\ prime \in [0 .. Last -> 0 .. Last] /\ next \in [0 .. Last -> 2 .. Last]
      /\ PrimesRight
  BY InvParts, SieveTypes
<1>2. \A j \in 0 .. Last : NumberRight(j)
  BY InvParts DEF NumbersRight
<1> SUFFICES ASSUME NEW j \in 0 .. Last PROVE NumberRight(j)'
  BY DEF NumbersRight
<1>3. ASSUME Candidates(j)' = Candidates(j), pc'[j] = pc[j], prime'[j] = prime[j],
             next'[j] = next[j]
      PROVE  NumberRight(j)'
  BY <1>2, <1>3 DEF NumberRight
<1>4. CASE Sieve!First(k)
  <2>1. PICK x \in 2 .. Last :
           /\ k \in 1 .. Last /\ pc[k] = "first" /\ next' = next
           /\ pc' = [pc EXCEPT ![k] = "second"] /\ prime' = [prime EXCEPT ![k] = x]
    BY <1>4, FirstIs
  <2>2. CASE j < k
    <3>1. Candidates(j)' = Candidates(j)
      BY <1>1, <2>2, CandidatesStay
    <3> QED
      BY <1>1, <1>3, <2>1, <2>2, <3>1
  <2>3. CASE j = k
    <3>1. pc'[j] = "second"
      BY <1>1, <2>1, <2>3
    <3> QED
      BY <3>1 DEF NumberRight, Offers, AtEnd
  <2>4. CASE j > k
    <3>1. j \in k + 1 .. Last
      BY <1>1, <2>4
    <3>2. pc[j] = "unborn"
      BY <2>1, <3>1, NobodyBelow
    <3>3. pc'[j] = "unborn"
      BY <1>1, <2>1, <2>4, <3>2
    <3> QED
      BY <3>3 DEF NumberRight, Offers, AtEnd
  <2> QED
    BY <1>1, <2>2, <2>3, <2>4
<1>5. CASE pc[k] # "first" /\ prime' = prime
  <2>1. Candidates(j)' = Candidates(j)
    BY <1>5, CandidatesStay
  <2>2. CASE j # k /\ ~Sieve!Fork(k)
    <3>1. pc'[j] = pc[j]
      <4>1. PICK l : pc' = [pc EXCEPT ![k] = l]
        BY <2>2, StepMoves DEF Moves
      <4> QED
        BY <1>1, <2>2, <4>1
    <3>2. next'[j] = next[j]
      BY <1>1, <1>5, <2>2, StepKeeps, SecondIs, TakeIs, ZenonT(40) DEF Sieve!TakeMain
    <3> QED
      BY <1>3, <1>5, <2>1, <3>1, <3>2
  <2>3. CASE Sieve!Fork(k)
    <3>1. /\ pc[k] = "fork" /\ k + 1 \in 1 .. Last /\ next' = next
          /\ pc' = [pc EXCEPT ![k] = "parent", ![k + 1] = "child"]
      BY <2>3, ForkMoves
    <3>2. CASE j = k + 1
      <4>1. pc'[j] = "child"
        BY <1>1, <3>1, <3>2
      <4> QED
        BY <4>1 DEF NumberRight, Offers, AtEnd
    <3>3. CASE j = k
      <4>1. pc'[j] = "parent" /\ pc[j] = "fork"
        BY <1>1, <3>1, <3>3
      <4> QED
        BY <1>2, <1>5, <2>1, <3>1, <4>1 DEF NumberRight, Offers, AtEnd
    <3>4. CASE j # k /\ j # k + 1
      BY <1>1, <1>3, <1>5, <2>1, <3>1, <3>4
    <3> QED
      BY <3>2, <3>3, <3>4
  <2>4. CASE j = k /\ Sieve!Second(k)
    <3>1. CASE pc' = [pc EXCEPT ![k] = "ended"]
      <4>1. pc'[j] = "ended"
        BY <1>1, <2>4, <3>1
      <4> QED
        BY <4>1 DEF NumberRight, Offers, AtEnd
    <3>2. CASE \E x \in 2 .. Last :
                   /\ Reads(k, x) /\ next' = [next EXCEPT ![k] = x]
                   /\ pc' = [pc EXCEPT ![k] = "pipe"]
      <4>1. PICK x \in 2 .. Last : Reads(k, x) /\ next'[k] = x /\ pc'[k] = "pipe"
        BY <1>1, <3>2
      <4>2. Taken(k) = prime[k]
        BY <2>4, SecondIs
      <4> QED
        BY <1>5, <2>1, <2>4, <4>1, <4>2 DEF NumberRight, Reads, AtEnd
    <3> QED
      BY <2>4, <3>1, <3>2, SecondIs
  <2>5. CASE j = k /\ Sieve!Take(k)
    <3>1. pc[k] = "take" /\ Taken(k) = next[k] /\ prime[k] < next[k] /\ next[k] \in Candidates(k)
      BY <2>5, TakeIs, NotTheLast DEF Offers
    <3>2. CASE /\ pc' = [pc EXCEPT ![k] = "closeIn"] /\ next' = next
               /\ \A y \in Candidates(k) : y <= next[k]
      <4>1. pc'[k] = "closeIn"
        BY <1>1, <3>2
      <4> QED
        BY <1>5, <2>1, <2>5, <3>1, <3>2, <4>1 DEF NumberRight
    <3>3. CASE \E x \in 2 .. Last :
                   /\ Reads(k, x) /\ next' = [next EXCEPT ![k] = x]
                   /\ pc' = [pc EXCEPT ![k] = "send"]
      <4>1. PICK x \in 2 .. Last : Reads(k, x) /\ next'[k] = x /\ pc'[k] = "send"
        BY <1>1, <3>3
      <4>2. prime[k] \in 0 .. Last /\ next[k] \in 2 .. Last
        BY <1>1
      <4>3. x \in Candidates(k) /\ prime[k] < x
        BY <1>1, <3>1, <4>1, <4>2 DEF Reads
      <4> QED
        BY <1>5, <2>1, <2>5, <4>1, <4>3 DEF NumberRight, AtEnd
    <3> QED
      BY <2>5, <3>2, <3>3, TakeIs
  <2>6. CASE j = k /\ Sieve!TakeMain(k)
    <3>1. /\ k = 0 /\ pc[k] = "take" /\ prime[k] = 0
          /\ Candidates(k) = 2 .. Last /\ next[k] \in 2 .. Last
      BY <1>1, <2>6, AllCandidates DEF Sieve!TakeMain, PrimesRight
    <3>2. CASE next[k] < Last
      <4>1. next'[k] = next[k] + 1 /\ pc'[k] = "send"
        BY <1>1, <2>6, <3>1, <3>2 DEF Sieve!TakeMain, Sieve!MoreNumbers, Sieve!Goto
      <4>2. next'[k] \in 2 .. Last /\ 0 < next'[k]
        <5>1. Last \in Nat /\ next[k] \in 2 .. Last
          BY <1>1, <3>1
        <5> QED
          BY <3>2, <4>1, <5>1
      <4>3. prime'[k] = 0 /\ Candidates(k)' = 2 .. Last
        BY <1>5, <2>1, <2>6, <3>1
      <4> QED
        BY <2>6, <4>1, <4>2, <4>3 DEF NumberRight, AtEnd
    <3>3. CASE ~(next[k] < Last)
      <4>1. next'[k] = next[k] /\ pc'[k] = "closeOut"
        BY <1>1, <2>6, <3>1, <3>3 DEF Sieve!TakeMain, Sieve!MoreNumbers, Sieve!Goto
      <4> QED
        BY <1>1, <1>5, <2>1, <2>6, <3>1, <3>3, <4>1 DEF NumberRight, AtEnd
    <3> QED
      BY <3>2, <3>3
  <2>7. CASE j = k /\ pc[k] \notin {"second", "take"} /\ next' = next /\ ~Sieve!Fork(k)
    <3>1. PICK l : pc' = [pc EXCEPT ![k] = l] /\ <<pc[k], l>> \in Edges
      BY <2>7, StepMoves DEF Moves
    <3>2. pc'[k] = l
      BY <1>1, <3>1
    <3> QED
      BY <1>2, <1>5, <2>1, <2>7, <3>1, <3>2 DEF NumberRight, Offers, AtEnd, Edges
  <2> QED
    BY <1>5, <2>2, <2>3, <2>4, <2>5, <2>6, <2>7, StepKeeps DEF Sieve!First
<1> QED
  BY <1>4, <1>5, StepKeeps

-----------------------------------------------------------------------------
(* A greater number at the end leaves a sequence increasing.               *)
LEMMA AppendGreatest ==
  ASSUME NEW S \in SUBSET Nat, NEW b \in Seq(S), NEW y \in S,
         \A i, j \in 1 .. Len(b) : i < j => b[i] < b[j],
         \A j \in 1 .. Len(b) : b[j] < y
  PROVE  /\ {Append(b, y)[j] : j \in 1 .. Len(Append(b, y))} =
                {b[j] : j \in 1 .. Len(b)} \cup {y}
         /\ \A i, j \in 1 .. Len(Append(b, y)) : i < j => Append(b, y)[i] < Append(b, y)[j]
<1> DEFINE c == Append(b, y)
<1>1. /\ Len(b) \in Nat /\ Len(c) = Len(b) + 1 /\ c[Len(b) + 1] = y
      /\ \A j \in 1 .. Len(b) : c[j] = b[j]
  OBVIOUS
<1> HIDE DEF c
<1>2. 1 .. Len(c) = (1 .. Len(b)) \cup {Len(c)}
  BY <1>1
<1>3. {c[j] : j \in 1 .. Len(c)} = {b[j] : j \in 1 .. Len(b)} \cup {y}
  BY <1>1, <1>2
<1>4. ASSUME NEW i \in 1 .. Len(c), NEW j \in 1 .. Len(c), i < j PROVE c[i] < c[j]
  <2>1. i \in 1 .. Len(b)
    BY <1>1, <1>4
  <2>2. CASE j = Len(c)
    BY <1>1, <2>1, <2>2
  <2>3. CASE j \in 1 .. Len(b)
    BY <1>1, <1>4, <2>1, <2>3
  <2> QED
    BY <1>2, <2>2, <2>3
<1> QED
  BY <1>3, <1>4 DEF c

(* What a process sends on are the candidates of the next one.             *)
LEMMA PassedOn ==
  ASSUME Sieve!PrimesAssumption, SieveInv, NEW k \in 0 .. Last, k < Last
  PROVE  /\ Candidates(k + 1) \subseteq Candidates(k) /\ Candidates(k) \subseteq 2 .. Last
         /\ pc[k] = "send" => (Sieve!Wanted(k) <=> next[k] \in Candidates(k + 1))
<1>1. Last \in Nat
  BY InvParts, SieveTypes
<1>2. pc[k] = "send" => next[k] \in Candidates(k) /\ (k > 0 => prime[k] # 0)
  BY <1>1, InvParts DEF NumbersRight, NumberRight, PrimesRight, Offers
<1>3. CASE k = 0
  <2>1. Candidates(k + 1) = 2 .. Last /\ Candidates(k) = 2 .. Last
    BY <1>3, AllCandidates
  <2>2. Sieve!Wanted(k)
    BY <1>3 DEF Sieve!Wanted
  <2> QED
    BY <1>2, <2>1, <2>2
<1>4. CASE k > 0
  <2>1. k \in 1 .. Last
    BY <1>1, <1>4
  <2>2. /\ Candidates(k) \subseteq 2 .. Last
        /\ Candidates(k + 1) = {x \in Candidates(k) : prime[k] # 0 => x % prime[k] # 0}
    BY <2>1, InvParts, CandidatesAre
  <2> QED
    BY <1>2, <1>4, <2>2 DEF Sieve!Wanted
<1> QED
  BY <1>1, <1>3, <1>4

(* A pipe of which the next number has been read.                          *)
LEMMA PipeRead ==
  ASSUME Sieve!PrimesAssumption, SieveInv, NEW k \in 1 .. Last, NEW x \in 2 .. Last,
         Reads(k, x), pc[k] # "unborn", pc'[k] \notin {"unborn", "ended"},
         Candidates(k)' = Candidates(k), Taken(k)' = x, Sent(k - 1)' = Sent(k - 1)
  PROVE  PipeRight(k)'
<1>1. Last \in Nat /\ DOMAIN buf = 0 .. Last /\ k \in 0 .. Last
  BY InvParts, SieveTypes
<1>2. PICK b \in Seq(2 .. Last) :
         /\ buf' = [buf EXCEPT ![k] = b]
         /\ {b[j] : j \in 1 .. Len(b)} = {y \in Candidates(k) : x < y /\ y <= Sent(k - 1)}
         /\ \A i, j \in 1 .. Len(b) : i < j => b[i] < b[j]
  BY DEF Reads
<1>3. buf'[k] = b
  BY <1>1, <1>2
<1>4. x <= Sent(k - 1)
  BY DEF Reads
<1> QED
  BY <1>2, <1>3, <1>4 DEF PipeRight

(* The pipe that a process reads.                                          *)
LEMMA InputStep ==
  ASSUME Sieve!PrimesAssumption, SieveInv, NEW k \in 1 .. Last, Sieve!Proc(k)
  PROVE  PipeRight(k)'
<1>1. /\ Last \in Nat /\ k \in 0 .. Last /\ k - 1 \in 0 .. Last /\ k - 1 # k
      /\ DOMAIN pc = 0 .. Last /\ DOMAIN next = 0 .. Last /\ DOMAIN prime = 0 .. Last
      /\ DOMAIN buf = 0 .. Last
  BY InvParts, SieveTypes
<1>2. Candidates(k)' = Candidates(k)
  BY <1>1, CandidatesStay
<1>3. PipeRight(k) /\ pc[k] # "unborn"
  BY InvParts DEF PipesRight, Sieve!Proc, Sieve!Pipe, Sieve!Fork, Sieve!ForkFails,
     Sieve!Parent, Sieve!First, Sieve!Child, Sieve!Second, Sieve!Send, Sieve!SendFails,
     Sieve!Skip, Sieve!TakeMain, Sieve!Take, Sieve!CloseIn, Sieve!CloseOut, Sieve!Wait
<1>4. ASSUME NEW x \in 2 .. Last, NEW l, pc' = [pc EXCEPT ![k] = l],
             l \in {"second", "pipe", "send"},
             Reads(k, x), l = "second" => prime' = [prime EXCEPT ![k] = x],
             l # "second" => next' = [next EXCEPT ![k] = x], l = "second" => next' = next
      PROVE  PipeRight(k)'
  <2>1. pc'[k] = l /\ pc'[k - 1] = pc[k - 1] /\ next'[k - 1] = next[k - 1]
    BY <1>1, <1>4
  <2>2. Sent(k - 1)' = Sent(k - 1)
    BY <2>1 DEF Sent
  <2>3. Taken(k)' = x
    BY <1>1, <1>4, <2>1 DEF Taken
  <2> QED
    BY <1>2, <1>3, <1>4, <2>1, <2>2, <2>3, PipeRead
<1>5. CASE pc'[k] = "ended"
  BY <1>5 DEF PipeRight
<1>6. ASSUME pc[k] # "ended", pc'[k] # "unborn", buf'[k] = buf[k], Taken(k)' = Taken(k),
             Sent(k - 1)' = Sent(k - 1)
      PROVE  PipeRight(k)'
  BY <1>2, <1>3, <1>6 DEF PipeRight
<1>7. CASE Sieve!First(k)
  BY <1>1, <1>4, <1>7, FirstIs
<1>8. CASE Sieve!Second(k)
  <2>1. CASE pc' = [pc EXCEPT ![k] = "ended"]
    BY <1>1, <1>5, <2>1
  <2>2. CASE \E x \in 2 .. Last :
                 /\ Reads(k, x) /\ next' = [next EXCEPT ![k] = x]
                 /\ pc' = [pc EXCEPT ![k] = "pipe"]
    BY <1>4, <2>2
  <2> QED
    BY <1>1, <1>8, <2>1, <2>2, SecondIs
<1>9. CASE Sieve!Take(k)
  <2>1. CASE pc' = [pc EXCEPT ![k] = "closeIn"] /\ UNCHANGED <<buf, next>>
    <3>1. pc[k] = "take" /\ pc'[k] = "closeIn" /\ pc'[k - 1] = pc[k - 1]
      BY <1>1, <1>9, <2>1 DEF Sieve!Take
    <3>2. Taken(k)' = Taken(k) /\ Sent(k - 1)' = Sent(k - 1)
      BY <2>1, <3>1 DEF Taken, Sent
    <3> QED
      BY <1>6, <2>1, <3>1, <3>2
  <2>2. CASE \E x \in 2 .. Last :
                 /\ Reads(k, x) /\ next' = [next EXCEPT ![k] = x]
                 /\ pc' = [pc EXCEPT ![k] = "send"]
    BY <1>4, <2>2
  <2> QED
    BY <1>1, <1>9, <2>1, <2>2, TakeIs
<1>10. CASE /\ ~Sieve!First(k) /\ ~Sieve!Second(k) /\ ~Sieve!Take(k)
  <2>1. UNCHANGED <<prime, next>> /\ buf'[k] = buf[k]
        /\ pc[k] \notin {"first", "second", "take"}
    BY <1>1, <1>10 DEF Sieve!Proc, Sieve!Pipe, Sieve!Fork, Sieve!ForkFails,
     Sieve!Parent, Sieve!Child, Sieve!Send, Sieve!SendFails,
     Sieve!Skip, Sieve!TakeMain, Sieve!CloseIn, Sieve!CloseOut, Sieve!Wait
  <2>2. CASE Sieve!Fork(k)
    <3>1. pc[k] = "fork" /\ pc'[k] = "parent" /\ pc'[k - 1] = pc[k - 1]
      BY <1>1, <2>2, ForkMoves
    <3>2. Taken(k)' = Taken(k) /\ Sent(k - 1)' = Sent(k - 1)
      BY <2>1, <3>1 DEF Taken, Sent
    <3> QED
      BY <1>6, <2>1, <3>1, <3>2
  <2>3. CASE \E l \in Points : Moves(k, l)
    <3>1. PICK l \in Points : pc' = [pc EXCEPT ![k] = l] /\ <<pc[k], l>> \in Edges
      BY <2>3 DEF Moves
    <3>2. pc'[k] = l /\ pc'[k - 1] = pc[k - 1]
      BY <1>1, <3>1
    <3>3. CASE l # "ended"
      <4>1. Taken(k)' = Taken(k) /\ Sent(k - 1)' = Sent(k - 1) /\ pc[k] # "ended" /\ l # "unborn"
        BY <2>1, <3>1, <3>2, <3>3 DEF Taken, Sent, Edges
      <4> QED
        BY <1>6, <2>1, <3>2, <4>1
    <3> QED
      BY <1>5, <3>2, <3>3
  <2> QED
    BY <1>1, <2>2, <2>3, StepMoves
<1> QED
  BY <1>7, <1>8, <1>9, <1>10

(* The pipe that a process writes.                                         *)
LEMMA OutputStep ==
  ASSUME Sieve!PrimesAssumption, SieveInv, NEW k \in 0 .. Last, k < Last, Sieve!Proc(k)
  PROVE  PipeRight(k + 1)'
<1> DEFINE m == k + 1
           Numbers == {buf[m][j] : j \in 1 .. Len(buf[m])}
<1>1. /\ Last \in Nat /\ m \in 1 .. Last /\ m \in 0 .. Last /\ m # k /\ m - 1 = k
      /\ DOMAIN pc = 0 .. Last /\ DOMAIN next = 0 .. Last /\ DOMAIN prime = 0 .. Last
      /\ DOMAIN buf = 0 .. Last /\ buf[m] \in Seq(2 .. Last)
  <2>1. /\ Last \in Nat /\ DOMAIN pc = 0 .. Last /\ DOMAIN next = 0 .. Last
        /\ DOMAIN prime = 0 .. Last /\ DOMAIN buf = 0 .. Last
        /\ buf \in [0 .. Last -> Seq(2 .. Last)]
    BY InvParts, SieveTypes
  <2>2. m \in 1 .. Last /\ m \in 0 .. Last /\ m # k /\ m - 1 = k
    BY <2>1
  <2> QED
    BY <2>1, <2>2
<1>2. PipeRight(m)
  BY <1>1, InvParts DEF PipesRight
<1>3. Candidates(m) \subseteq Candidates(k) /\ Candidates(k) \subseteq 2 .. Last
      /\ (pc[k] = "send" => (Sieve!Wanted(k) <=> next[k] \in Candidates(m)))
  BY PassedOn
<1>4. next[k] \in 2 .. Last /\ next[m] \in 2 .. Last /\ prime[m] \in 0 .. Last
  BY <1>1, InvParts, SieveTypes
<1>5. Taken(m) \in Nat /\ Sent(k) \in Int
  BY <1>1, <1>4 DEF Taken, Sent
<1> HIDE DEF m
<1> SUFFICES PipeRight(m)'
  BY DEF m
<1>6. CASE pc'[m] = "ended"
  BY <1>6 DEF PipeRight
<1>7. CASE pc'[m] = "unborn" /\ buf'[m] = buf[m] /\ pc[m] = "unborn"
  BY <1>2, <1>7 DEF PipeRight
<1>8. ASSUME pc[k] # "first", pc[m] \notin {"unborn", "ended"}, pc'[m] = pc[m],
             next'[m] = next[m], prime'[m] = prime[m]
      PROVE  Candidates(m)' = Candidates(m) /\ Taken(m)' = Taken(m)
  <2>1. Candidates(m)' = Candidates(m)
    BY <1>1, <1>8, CandidatesStay
  <2> QED
    BY <1>8, <2>1 DEF Taken
<1>9. CASE pc[k] \in {"child", "first", "second", "pipe", "fork"}
  <2>1. pc[m] = "unborn" /\ prime[m] = 0
    <3>1. m \in k + 1 .. Last
      BY <1>1 DEF m
    <3> QED
      BY <1>9, <3>1, NobodyBelow
  <2>2. CASE Sieve!Fork(k)
    <3>1. /\ pc[k] = "fork" /\ buf' = buf /\ next' = next /\ prime' = prime
          /\ pc' = [pc EXCEPT ![k] = "parent", ![k + 1] = "child"]
      BY <2>2, ForkMoves
    <3>2. pc'[m] = "child" /\ pc'[k] = "parent"
      BY <1>1, <3>1 DEF m
    <3>3. Taken(m)' = 0 /\ Sent(m - 1)' = next[k] - 1
      BY <1>1, <2>1, <3>1, <3>2 DEF Taken, Sent
    <3>4. buf'[m] = <<>>
      BY <1>2, <2>1, <3>1 DEF PipeRight
    <3>5. Candidates(m)' = Candidates(m)
      BY <1>1, <3>1, CandidatesStay
    <3>6. \A x \in Candidates(k) : prime[k] < x => next[k] <= x
      BY <3>1, InvParts DEF NumbersRight, NumberRight
    <3>7. \A x \in Candidates(m) : prime[k] < x
      <4>1. CASE k = 0
        <5>1. prime[k] = 0
          BY <4>1, InvParts DEF PrimesRight
        <5> QED
          BY <1>1, <1>3, <5>1
      <4>2. CASE k # 0
        <5>1. k \in 1 .. Last
          BY <1>1, <4>2
        <5>2. /\ prime[k] # 0 /\ prime[k] \in Candidates(k)
              /\ \A x \in Candidates(k) : prime[k] <= x
          BY <3>1, <5>1, InvParts DEF PrimesRight
        <5>3. \A x \in Candidates(m) : x % prime[k] # 0
          <6>1. k \in 1 .. m - 1
            BY <1>1, <4>2 DEF m
          <6> QED
            BY <1>1, <5>2, <6>1, InvParts, CandidatesAre
        <5>4. prime[k] % prime[k] = 0 /\ prime[k] \in 2 .. Last
          BY <1>1, <1>3, <5>2
        <5> QED
          BY <1>1, <1>3, <5>2, <5>3, <5>4
      <4> QED
        BY <4>1, <4>2
    <3>8. ASSUME NEW x \in Candidates(m) PROVE ~(x <= next[k] - 1)
      <4>1. next[k] <= x /\ x \in 2 .. Last
        BY <1>3, <3>6, <3>7
      <4> QED
        BY <1>1, <1>4, <4>1
    <3>9. {buf'[m][j] : j \in 1 .. Len(buf'[m])} = {}
          /\ {x \in Candidates(m) : 0 < x /\ x <= next[k] - 1} = {}
      BY <3>4, <3>8
    <3>10. 0 <= next[k] - 1
      BY <1>1, <1>4
    <3>11. \A i, j \in 1 .. Len(buf'[m]) : i < j => buf'[m][i] < buf'[m][j]
      BY <3>4
    <3> QED
      BY <3>2, <3>3, <3>5, <3>9, <3>10, <3>11 DEF PipeRight
  <2>3. CASE \E l \in Points : Moves(k, l)
    <3>1. pc'[m] = pc[m]
      BY <1>1, <2>3 DEF Moves
    <3>2. buf'[m] = buf[m]
      BY <1>1, <1>9 DEF Sieve!Proc, Sieve!Pipe, Sieve!Fork, Sieve!ForkFails, Sieve!Receives,
       Sieve!Parent, Sieve!First, Sieve!Child, Sieve!Second, Sieve!Send, Sieve!SendFails,
       Sieve!Skip, Sieve!TakeMain, Sieve!Take, Sieve!CloseIn, Sieve!CloseOut, Sieve!Wait
    <3> QED
      BY <1>7, <2>1, <3>1, <3>2
  <2> QED
    BY <2>2, <2>3, StepMoves
<1>10. CASE pc[k] \in Offers
  <2>1. PICK l \in Points : Moves(k, l)
    BY <1>10, StepMoves, ForkMoves DEF Offers
  <2>2. /\ pc' = [pc EXCEPT ![k] = l] /\ <<pc[k], l>> \in Edges
        /\ pc'[k] = l /\ pc'[m] = pc[m] /\ prime' = prime
    BY <1>1, <1>10, <2>1, StepKeeps, FirstIs DEF Moves, Offers
  <2>3. pc[m] # "unborn"
    BY <1>1, <1>10, InvParts DEF Chain, m
  <2>4. CASE pc[m] = "ended"
    BY <1>6, <2>2, <2>4
  <2>5. ASSUME pc[m] # "ended", next'[m] = next[m], buf'[m] = buf[m], Sent(k)' = Sent(k)
        PROVE  PipeRight(m)'
    <3>1. Candidates(m)' = Candidates(m) /\ Taken(m)' = Taken(m)
      BY <1>8, <1>10, <2>2, <2>3, <2>5 DEF Offers
    <3>2. Sent(m - 1)' = Sent(m - 1)
      BY <1>1, <2>5
    <3> QED
      BY <1>2, <2>2, <2>3, <2>5, <3>1, <3>2 DEF PipeRight
  <2>6. ASSUME pc[m] # "ended", next'[m] = next[m], buf'[m] = buf[m],
               NEW y \in Int, Sent(k)' = y, Sent(k) <= y,
               \A x \in Candidates(m) : x <= y => x <= Sent(k)
        PROVE  PipeRight(m)'
    <3>1. Candidates(m)' = Candidates(m) /\ Taken(m)' = Taken(m)
      BY <1>8, <1>10, <2>2, <2>3, <2>6 DEF Offers
    <3>2. Sent(m - 1)' = y
      BY <1>1, <2>6
    <3>3. /\ {buf[m][j] : j \in 1 .. Len(buf[m])} =
                 {x \in Candidates(m) : Taken(m) < x /\ x <= Sent(k)}
          /\ \A i, j \in 1 .. Len(buf[m]) : i < j => buf[m][i] < buf[m][j]
          /\ Taken(m) <= Sent(k)
      BY <1>1, <1>2, <2>3, <2>6 DEF PipeRight
    <3>4. \A x \in Candidates(m) : x <= Sent(k) => x <= y
      BY <1>1, <1>3, <1>5, <2>6
    <3>5. {x \in Candidates(m) : Taken(m) < x /\ x <= Sent(k)} =
              {x \in Candidates(m) : Taken(m) < x /\ x <= y}
      BY <2>6, <3>4
    <3>6. Taken(m) <= y
      BY <1>5, <2>6, <3>3
    <3> QED
      BY <2>2, <2>3, <2>6, <3>1, <3>2, <3>3, <3>5, <3>6 DEF PipeRight
  <2>7. CASE pc[m] # "ended" /\ Sieve!Send(k)
    <3>1. /\ pc[k] = "send" /\ Sieve!Wanted(k) /\ next' = next
          /\ buf' = [buf EXCEPT ![k + 1] = Append(@, next[k])]
          /\ pc' = [pc EXCEPT ![k] = "take"]
      BY <2>7 DEF Sieve!Send, Sieve!Goto
    <3>2. buf'[m] = Append(buf[m], next[k]) /\ pc'[k] = "take"
      BY <1>1, <3>1 DEF m
    <3>3. Candidates(m)' = Candidates(m) /\ Taken(m)' = Taken(m)
      BY <1>8, <2>2, <2>3, <2>7, <3>1
    <3>4. Sent(m - 1)' = next[k] /\ Sent(m - 1) = next[k] - 1
      BY <1>1, <3>1, <3>2 DEF Sent
    <3>5. /\ Numbers = {x \in Candidates(m) : Taken(m) < x /\ x <= next[k] - 1}
          /\ \A i, j \in 1 .. Len(buf[m]) : i < j => buf[m][i] < buf[m][j]
          /\ Taken(m) <= next[k] - 1
      BY <1>2, <2>3, <2>7, <3>4 DEF PipeRight
    <3>6. \A j \in 1 .. Len(buf[m]) : buf[m][j] < next[k]
      <4> SUFFICES ASSUME NEW j \in 1 .. Len(buf[m]) PROVE buf[m][j] < next[k]
        OBVIOUS
      <4>1. buf[m][j] \in Numbers
        OBVIOUS
      <4> HIDE DEF Numbers
      <4>2. buf[m][j] \in 2 .. Last /\ buf[m][j] <= next[k] - 1
        BY <1>3, <3>5, <4>1
      <4> QED
        BY <1>1, <1>4, <4>2, SMTT(30)
    <3>7. 2 .. Last \in SUBSET Nat
      BY <1>1
    <3>8. /\ {buf'[m][j] : j \in 1 .. Len(buf'[m])} = Numbers \cup {next[k]}
          /\ \A i, j \in 1 .. Len(buf'[m]) : i < j => buf'[m][i] < buf'[m][j]
      <4>1. buf[m] \in Seq(2 .. Last) /\ next[k] \in 2 .. Last
        BY <1>1, <1>4
      <4>2. \A i, j \in 1 .. Len(buf[m]) : i < j => buf[m][i] < buf[m][j]
        BY <3>5
      <4> QED
        <5>1. /\ {Append(buf[m], next[k])[j] : j \in 1 .. Len(Append(buf[m], next[k]))} =
                     {buf[m][j] : j \in 1 .. Len(buf[m])} \cup {next[k]}
              /\ \A i, j \in 1 .. Len(Append(buf[m], next[k])) :
                     i < j => Append(buf[m], next[k])[i] < Append(buf[m], next[k])[j]
          BY <3>6, <3>7, <4>1, <4>2, AppendGreatest
        <5> QED
          BY <3>2, <5>1
    <3>9. next[k] \in Candidates(m)
      BY <1>3, <3>1
    <3> HIDE DEF Numbers
    <3>10. Numbers \cup {next[k]} = {x \in Candidates(m) : Taken(m) < x /\ x <= next[k]}
      <4>1. ASSUME NEW x \in Candidates(m) PROVE x <= next[k] <=> x <= next[k] - 1 \/ x = next[k]
        BY <1>1, <1>3, <1>4
      <4>2. Taken(m) < next[k]
        BY <1>1, <1>4, <1>5, <3>5
      <4> QED
        BY <3>5, <3>9, <4>1, <4>2
    <3>11. Taken(m) <= next[k]
      BY <1>1, <1>4, <1>5, <3>5
    <3> QED
      BY <2>2, <2>3, <3>3, <3>4, <3>8, <3>10, <3>11 DEF PipeRight
  <2>8. CASE Sieve!SendFails(k)
    <3>1. pc[m] = "ended"
      BY <2>8, NoReader DEF Sieve!SendFails, m
    <3> QED
      BY <2>4, <3>1
  <2>9. CASE pc[m] # "ended" /\ Sieve!Skip(k)
    <3>1. /\ pc[k] = "send" /\ ~Sieve!Wanted(k) /\ next' = next /\ buf' = buf
          /\ pc' = [pc EXCEPT ![k] = "take"]
      BY <2>9 DEF Sieve!Skip, Sieve!Goto
    <3>2. Sent(k)' = next[k] /\ Sent(k) = next[k] - 1
      BY <1>1, <3>1 DEF Sent
    <3>3. next[k] \notin Candidates(m)
      BY <1>3, <3>1
    <3>4. \A x \in Candidates(m) : x <= next[k] => x <= next[k] - 1
      BY <1>1, <1>3, <1>4, <3>3
    <3>5. next[k] \in Int /\ next[k] - 1 <= next[k]
      BY <1>1, <1>4
    <3> QED
      BY <2>6, <2>9, <3>1, <3>2, <3>4, <3>5
  <2>10. CASE pc[m] # "ended" /\ Sieve!TakeMain(k)
    <3>1. pc[k] = "take" /\ buf' = buf /\ next[m] = next'[m] /\ Sent(k) = next[k]
      BY <1>1, <2>10 DEF Sieve!TakeMain, Sent
    <3>2. CASE next' = [next EXCEPT ![k] = @ + 1] /\ pc' = [pc EXCEPT ![k] = "send"]
      <4>1. Sent(k)' = (next[k] + 1) - 1
        BY <1>1, <3>2 DEF Sent
      <4>2. Sent(k)' = Sent(k)
        BY <1>1, <1>4, <3>1, <4>1
      <4> QED
        BY <2>5, <2>10, <3>1, <4>2
    <3>3. CASE next' = next /\ pc' = [pc EXCEPT ![k] = "closeOut"]
      <4>1. Sent(k)' = next[k]
        BY <1>1, <3>3 DEF Sent
      <4> QED
        BY <2>5, <2>10, <3>1, <4>1
    <3> QED
      BY <2>10, <3>2, <3>3 DEF Sieve!TakeMain, Sieve!Goto
  <2>11. CASE pc[m] # "ended" /\ Sieve!Take(k)
    <3>1. pc[k] = "take" /\ Taken(k) = next[k] /\ Sent(k) = next[k]
      BY <2>11, TakeIs DEF Sent
    <3>2. CASE pc' = [pc EXCEPT ![k] = "closeIn"] /\ UNCHANGED <<buf, next>>
      <4>1. Sent(k)' = next[k]
        BY <1>1, <3>2 DEF Sent
      <4> QED
        BY <2>5, <2>11, <3>1, <3>2, <4>1
    <3>3. CASE \E x \in 2 .. Last :
                   /\ Reads(k, x) /\ next' = [next EXCEPT ![k] = x]
                   /\ pc' = [pc EXCEPT ![k] = "send"]
      <4>1. PICK x \in 2 .. Last :
                   /\ Reads(k, x) /\ next' = [next EXCEPT ![k] = x]
                   /\ pc' = [pc EXCEPT ![k] = "send"]
        BY <3>3
      <4>2. Sent(k)' = x - 1 /\ next'[m] = next[m]
        BY <1>1, <4>1 DEF Sent
      <4>3. buf'[m] = buf[m]
        BY <1>1, <4>1 DEF Reads
      <4>4. next[k] < x /\ \A y \in Candidates(k) : next[k] < y => x <= y
        BY <3>1, <4>1 DEF Reads
      <4>5. ASSUME NEW y \in Candidates(m), y <= x - 1 PROVE y <= next[k]
        <5>1. y \in Candidates(k) /\ y \in 2 .. Last
          BY <1>3
        <5>2. ~(next[k] < y)
          BY <1>1, <4>4, <4>5, <5>1
        <5> QED
          BY <1>1, <1>4, <5>1, <5>2
      <4>6. x - 1 \in Int /\ next[k] <= x - 1
        BY <1>1, <1>4, <4>4
      <4> QED
        BY <2>6, <2>11, <3>1, <4>2, <4>3, <4>5, <4>6
    <3> QED
      BY <2>11, <3>2, <3>3, TakeIs
  <2>12. CASE /\ pc[m] # "ended"
              /\ Sieve!Parent(k) \/ Sieve!CloseIn(k) \/ Sieve!CloseOut(k) \/ Sieve!Wait(k)
    <3>1. UNCHANGED <<buf, next>> /\ pc[k] \in {"parent", "closeIn", "closeOut", "wait"}
      BY <2>12 DEF Sieve!Parent, Sieve!CloseIn, Sieve!CloseOut, Sieve!Wait
    <3>2. Sent(k)' = Sent(k)
      BY <2>2, <3>1 DEF Sent, Edges
    <3> QED
      BY <2>5, <2>12, <3>1, <3>2
  <2> QED
    BY <1>10, <2>4, <2>7, <2>8, <2>9, <2>10, <2>11, <2>12 DEF Sieve!Proc, Sieve!Pipe,
       Sieve!Fork, Sieve!ForkFails, Sieve!First, Sieve!Child, Sieve!Second, Offers
<1> QED
  <2>1. pc[k] \in {"child", "first", "second", "pipe", "fork"} \cup Offers
    BY DEF Offers, Sieve!Proc, Sieve!Pipe, Sieve!Fork, Sieve!ForkFails, Sieve!Parent,
       Sieve!First, Sieve!Child, Sieve!Second, Sieve!Send, Sieve!SendFails, Sieve!Skip,
       Sieve!TakeMain, Sieve!Take, Sieve!CloseIn, Sieve!CloseOut, Sieve!Wait
  <2> QED
    BY <1>9, <1>10, <2>1

(* All pipes.                                                              *)
LEMMA PipesStep ==
  ASSUME Sieve!PrimesAssumption, SieveInv, NEW k \in 0 .. Last, Sieve!Proc(k)
  PROVE  PipesRight'
<1>1. /\ Last \in Nat /\ DOMAIN pc = 0 .. Last /\ DOMAIN next = 0 .. Last
      /\ DOMAIN prime = 0 .. Last /\ DOMAIN buf = 0 .. Last
  BY InvParts, SieveTypes
<1> SUFFICES ASSUME NEW j \in 1 .. Last PROVE PipeRight(j)'
  BY DEF PipesRight
<1>2. CASE j = k
  BY <1>2, InputStep
<1>3. CASE j = k + 1
  BY <1>1, <1>3, OutputStep
<1>4. CASE j # k /\ j # k + 1
  <2>1. PipeRight(j) /\ j \in 0 .. Last /\ j - 1 \in 0 .. Last /\ j - 1 # k
    <3>1. PipeRight(j) /\ j \in 0 .. Last /\ j - 1 \in 0 .. Last
      BY <1>1, InvParts DEF PipesRight
    <3>2. j - 1 # k
      BY <1>1, <1>4
    <3> QED
      BY <3>1, <3>2
  <2>2. /\ buf'[j] = buf[j] /\ next'[j] = next[j] /\ next'[j - 1] = next[j - 1]
        /\ pc'[j] = pc[j]
        /\ \/ j - 1 = k + 1 /\ Sieve!Fork(k)
           \/ pc'[j - 1] = pc[j - 1]
    BY <1>1, <1>4, <2>1 DEF Sieve!Proc, Sieve!Pipe, Sieve!Fork, Sieve!ForkFails, Sieve!Receives,
       Sieve!Parent, Sieve!First, Sieve!Child, Sieve!Second, Sieve!Send, Sieve!SendFails,
       Sieve!Skip, Sieve!TakeMain, Sieve!Take, Sieve!CloseIn, Sieve!CloseOut, Sieve!Wait,
       Sieve!Goto, Sieve!Exit
  <2>3. CASE pc[j] \in {"unborn", "ended"}
    BY <2>1, <2>2, <2>3 DEF PipeRight
  <2>4. CASE pc[j] \notin {"unborn", "ended"}
    <3>1. ~(j > k /\ pc[k] \in {"first", "fork"})
      <4>1. j > k => j \in k + 1 .. Last
        BY <1>1
      <4> QED
        BY <2>4, <4>1, NobodyBelow
    <3>2. Candidates(j)' = Candidates(j)
      BY <1>1, <2>1, <3>1, CandidatesStay
    <3>3. prime'[j] = prime[j]
      BY <1>1, <1>4, <2>1, StepKeeps, FirstIs, SMTT(30)
    <3>4. pc'[j - 1] = pc[j - 1]
      BY <1>1, <2>2, <3>1 DEF Sieve!Fork
    <3>5. Taken(j)' = Taken(j) /\ Sent(j - 1)' = Sent(j - 1)
      BY <2>2, <3>3, <3>4 DEF Taken, Sent
    <3> QED
      BY <2>1, <2>2, <2>4, <3>2, <3>5 DEF PipeRight
  <2> QED
    BY <2>3, <2>4
<1> QED
  BY <1>2, <1>3, <1>4

-----------------------------------------------------------------------------
(* The child that is created has a number to read.                         *)
LEMMA ChildHasPrime ==
  ASSUME Sieve!PrimesAssumption, SieveInv, NEW k \in 0 .. Last, pc[k] = "fork"
  PROVE  next[k] \in Candidates(k + 1)
<1>1. k < Last /\ Last \in Nat /\ next[k] \in Candidates(k) /\ prime[k] < next[k]
  BY NotTheLast, InvParts, SieveTypes
<1>2. CASE k = 0
  BY <1>1, <1>2, AllCandidates
<1>3. CASE k # 0
  <2>1. k \in 1 .. Last
    BY <1>1, <1>3
  <2>2. prime[k] # 0 /\ \A j \in 1 .. k - 1 : prime[j] # 0
    BY <2>1, InvParts DEF PrimesRight
  <2>3. \A j \in 1 .. k : prime[j] # 0
    BY <1>1, <2>1, <2>2
  <2>4. \A x \in Candidates(k) : prime[k] < x => next[k] <= x
    BY InvParts DEF NumbersRight, NumberRight
  <2>5. next[k] % prime[k] # 0
    BY <1>1, <2>1, <2>3, <2>4, SecondPasses, InvParts
  <2> QED
    BY <1>1, <2>1, <2>5, CandidatesAre, InvParts
<1> QED
  BY <1>2, <1>3

(* Who ends has read all there was, and only a failure makes an error.     *)
MissedNone(k) ==
    /\ k > 0 => prime[k] # 0
    /\ k = Last \/ pc[k + 1] = "unborn" => k > 0 /\ \A x \in Candidates(k) : x <= prime[k]

(* Nobody ends before it has read its numbers, and the last process of the *)
(* chain had only one, unless a fork() was refused.                        *)
LEMMA NoneMissedStep ==
  ASSUME Sieve!PrimesAssumption, SieveInv, NEW k \in 0 .. Last, Sieve!Proc(k)
  PROVE  NoneMissed'
<1>1. /\ Last \in Nat /\ pc \in [0 .. Last -> Points] /\ prime \in [0 .. Last -> 0 .. Last]
      /\ DOMAIN status = 0 .. Last /\ Chain /\ PrimesRight
      /\ \A j \in 1 .. Last : pc[j] # "unborn" => Candidates(j) # {}
      /\ \A j \in 0 .. Last : pc[j] = "ended" /\ j \notin refused => MissedNone(j)
      /\ refused = {} => \A j \in 0 .. Last : status[j] = 0
  BY InvParts, SieveTypes DEF NoneMissed, MissedNone
<1>2. CASE Sieve!First(k)
  <2>1. PICK x \in 2 .. Last :
           /\ k \in 1 .. Last /\ pc[k] = "first"
           /\ pc' = [pc EXCEPT ![k] = "second"] /\ prime' = [prime EXCEPT ![k] = x]
           /\ status' = status /\ refused' = refused
    BY <1>2, FirstIs
  <2>2. \A j \in k + 1 .. Last : pc[j] = "unborn"
    BY <2>1, NobodyBelow
  <2>3. \A j \in 0 .. k : Candidates(j)' = Candidates(j)
    BY <1>1, CandidatesStay
  <2>4. /\ pc'[k] = "second" /\ DOMAIN pc = 0 .. Last /\ DOMAIN prime = 0 .. Last
        /\ \A j \in 0 .. Last : j # k => pc'[j] = pc[j] /\ prime'[j] = prime[j]
    BY <1>1, <2>1
  <2>5. ASSUME NEW j \in 1 .. Last, pc'[j] # "unborn" PROVE Candidates(j)' # {}
    <3>1. CASE j > k
      BY <1>1, <2>2, <2>4, <2>5, <3>1
    <3>2. CASE j <= k
      <4>1. pc[j] # "unborn" /\ j \in 0 .. k
        BY <1>1, <2>1, <2>4, <2>5, <3>2
      <4> QED
        BY <1>1, <2>3, <4>1
    <3> QED
      BY <1>1, <3>1, <3>2
  <2>6. ASSUME NEW j \in 0 .. Last, pc'[j] = "ended" /\ j \notin refused'
        PROVE  MissedNone(j)'
    <3>1. pc[j] = "ended" /\ j # k /\ j \notin refused
      BY <2>1, <2>4, <2>6
    <3>2. CASE j > k
      BY <1>1, <2>2, <3>1, <3>2
    <3>3. CASE j < k
      <4>1. j \in 0 .. k /\ j # Last /\ j + 1 \in 0 .. Last /\ Candidates(j)' = Candidates(j)
        BY <1>1, <2>3, <3>3
      <4>2. pc'[j + 1] = "unborn" => pc[j + 1] = "unborn"
        BY <2>1, <2>4, <4>1
      <4> QED
        BY <1>1, <2>4, <3>1, <4>1, <4>2 DEF MissedNone
    <3> QED
      BY <1>1, <3>1, <3>2, <3>3
  <2> QED
    BY <1>1, <2>1, <2>5, <2>6 DEF NoneMissed, MissedNone
<1>3. CASE pc[k] # "first" /\ prime' = prime
  <2>1. \A j \in 0 .. Last : Candidates(j)' = Candidates(j)
    BY <1>3, CandidatesStay
  <2>2. CASE Sieve!Fork(k)
    <3>1. /\ pc[k] = "fork" /\ k + 1 \in 1 .. Last /\ status' = status /\ refused' = refused
          /\ pc' = [pc EXCEPT ![k] = "parent", ![k + 1] = "child"]
      BY <2>2, ForkMoves
    <3>2. Candidates(k + 1) # {}
      BY <3>1, ChildHasPrime
    <3>3. /\ pc'[k] = "parent" /\ pc'[k + 1] = "child"
          /\ \A j \in 0 .. Last : j # k /\ j # k + 1 => pc'[j] = pc[j]
      BY <1>1, <3>1
    <3>4. ASSUME NEW j \in 1 .. Last, pc'[j] # "unborn" PROVE Candidates(j)' # {}
      <4>1. pc[j] # "unborn" \/ j = k + 1
        BY <1>1, <3>1, <3>3, <3>4
      <4> QED
        BY <1>1, <2>1, <3>1, <3>2, <4>1, SMTT(30)
    <3>5. ASSUME NEW j \in 0 .. Last, pc'[j] = "ended" /\ j \notin refused'
          PROVE  MissedNone(j)'
      <4>1. pc[j] = "ended" /\ j \notin refused
        BY <3>1, <3>3, <3>5
      <4>2. j # Last /\ pc'[j + 1] = "unborn" => pc[j + 1] = "unborn"
        BY <1>1, <3>1, <3>3
      <4> QED
        BY <1>1, <1>3, <2>1, <4>1, <4>2 DEF MissedNone
    <3> QED
      BY <1>1, <3>1, <3>4, <3>5 DEF NoneMissed, MissedNone
  <2>3. CASE \E l \in Points : Moves(k, l)
    <3>1. PICK l \in Points : Moves(k, l)
      BY <2>3
    <3>2. /\ pc' = [pc EXCEPT ![k] = l] /\ <<pc[k], l>> \in Edges /\ refused \subseteq refused'
          /\ pc'[k] = l /\ \A j \in 0 .. Last : j # k => pc'[j] = pc[j]
          /\ pc[k] \notin {"unborn", "ended"} /\ l # "unborn"
      BY <1>1, <3>1 DEF Moves, Edges
    <3>3. ASSUME NEW j \in 1 .. Last, pc'[j] # "unborn" PROVE Candidates(j)' # {}
      <4>1. pc[j] # "unborn"
        BY <1>1, <3>2, <3>3
      <4> QED
        BY <1>1, <2>1, <4>1
    <3>4. ASSUME NEW j \in 0 .. Last, pc'[j] = "ended" /\ j \notin refused'
          PROVE  MissedNone(j)'
      <4>1. CASE j # k
        <5>1. pc[j] = "ended" /\ j \notin refused
          BY <3>2, <3>4, <4>1
        <5>2. j # Last /\ pc'[j + 1] = "unborn" => pc[j + 1] = "unborn"
          BY <1>1, <3>2
        <5> QED
          BY <1>1, <1>3, <2>1, <5>1, <5>2 DEF MissedNone
      <4>2. CASE j = k
        <5>1. l = "ended" /\ pc[k] \in {"second", "send", "wait"}
          BY <3>1, <3>2, <3>4, <4>2 DEF Moves, Edges
        <5>2. CASE pc[k] = "second"
          <6>1. k \in 1 .. Last
            BY <1>1, <5>2 DEF Chain, Offers
          <6>2. prime[k] # 0 /\ \A x \in Candidates(k) : x <= prime[k]
            BY <1>1, <3>1, <5>1, <5>2, <6>1 DEF PrimesRight, Moves
          <6> QED
            BY <1>1, <1>3, <2>1, <4>2, <6>1, <6>2 DEF MissedNone
        <5>3. CASE pc[k] \in {"send", "wait"}
          <6>1. k < Last /\ k + 1 \in 1 .. Last /\ pc[k + 1] # "unborn"
            BY <1>1, <5>3 DEF Chain, Offers
          <6>2. pc'[k + 1] # "unborn" /\ k # Last
            BY <1>1, <3>2, <6>1
          <6>3. k > 0 => prime[k] # 0
            BY <1>1, <5>3 DEF PrimesRight, Offers
          <6> QED
            BY <1>3, <4>2, <6>2, <6>3 DEF MissedNone
        <5> QED
          BY <5>1, <5>2, <5>3
      <4> QED
        BY <4>1, <4>2
    <3>5. ASSUME refused' = {} PROVE \A j \in 0 .. Last : status'[j] = 0
      <4>1. refused = {} /\ \A j \in 0 .. Last : status[j] = 0
        BY <1>1, <3>2, <3>5
      <4>2. \/ status' = status \/ status' = [status EXCEPT ![k] = 0]
        <5>1. CASE Sieve!ForkFails(k)
          BY <3>5, <5>1 DEF Sieve!ForkFails
        <5>2. CASE Sieve!SendFails(k)
          <6>1. k + 1 \in refused
            BY <5>2, NoReader DEF Sieve!SendFails
          <6> QED
            BY <4>1, <6>1
        <5>3. CASE Sieve!First(k)
          BY <1>3, <5>3 DEF Sieve!First
        <5>4. CASE ~Sieve!ForkFails(k) /\ ~Sieve!SendFails(k) /\ ~Sieve!First(k)
          BY <5>4 DEF Sieve!Proc, Sieve!Pipe, Sieve!Fork, Sieve!Parent,
             Sieve!Child, Sieve!Second, Sieve!Send, Sieve!Skip, Sieve!TakeMain,
             Sieve!Take, Sieve!CloseIn, Sieve!CloseOut, Sieve!Wait, Sieve!Exit
        <5> QED
          BY <5>1, <5>2, <5>3, <5>4
      <4> QED
        BY <1>1, <4>1, <4>2
    <3> QED
      BY <3>3, <3>4, <3>5 DEF NoneMissed, MissedNone
  <2> QED
    BY <2>2, <2>3, StepMoves
<1> QED
  BY <1>2, <1>3, StepKeeps

-----------------------------------------------------------------------------
(* The types.                                                              *)
LEMMA TypesStep ==
  ASSUME Sieve!PrimesAssumption, SieveInv, NEW k \in 0 .. Last, Sieve!Proc(k)
  PROVE  Sieve!TypeOK'
<1>1. /\ Last \in Nat /\ Last > 1 /\ Cap \in Nat /\ Sieve!Procs = 0 .. Last
      /\ pc \in [0 .. Last -> Points]
      /\ fds \in [0 .. Last -> SUBSET ({"r", "w"} \X (1 .. Last))]
      /\ buf \in [0 .. Last -> Seq(2 .. Last)]
      /\ \A j \in 0 .. Last : Len(buf[j]) <= Cap
      /\ prime \in [0 .. Last -> 0 .. Last] /\ next \in [0 .. Last -> 2 .. Last]
      /\ printed \in Seq(2 .. Last)
      /\ status \in [0 .. Last -> {0, 1}] /\ refused \subseteq 0 .. Last
  BY InvParts, SieveTypes
<1>2. pc' \in [0 .. Last -> Points]
  <2>1. CASE Sieve!Fork(k)
    <3>1. pc' = [pc EXCEPT ![k] = "parent", ![k + 1] = "child"]
      BY <2>1, ForkMoves
    <3> QED
      BY <1>1, <3>1 DEF Points
  <2>2. CASE \E l \in Points : Moves(k, l)
    BY <1>1, <2>2 DEF Moves
  <2> QED
    BY <2>1, <2>2, StepMoves
<1>3. fds' \in [0 .. Last -> SUBSET ({"r", "w"} \X (1 .. Last))]
  <2>1. CASE Sieve!Pipe(k)
    <3>1. k + 1 \in 1 .. Last
      BY <1>1, <2>1, NotTheLast DEF Sieve!Pipe
    <3>2. {Sieve!R(k + 1), Sieve!W(k + 1)} \subseteq {"r", "w"} \X (1 .. Last)
      BY <3>1 DEF Sieve!R, Sieve!W
    <3>3. fds' = [fds EXCEPT ![k] = @ \cup {Sieve!R(k + 1), Sieve!W(k + 1)}]
      BY <2>1 DEF Sieve!Pipe
    <3>4. fds[k] \cup {Sieve!R(k + 1), Sieve!W(k + 1)} \in SUBSET ({"r", "w"} \X (1 .. Last))
      BY <1>1, <3>2
    <3> QED
      BY <1>1, <3>3, <3>4
  <2>2. CASE Sieve!Fork(k)
    <3>1. k + 1 \in 1 .. Last /\ fds' = [fds EXCEPT ![k + 1] = fds[k]]
      BY <2>2, ForkMoves
    <3>2. fds[k] \in SUBSET ({"r", "w"} \X (1 .. Last))
      BY <1>1
    <3> QED
      BY <1>1, <3>1, <3>2
  <2>3. CASE \E E : fds' = [fds EXCEPT ![k] = @ \ E]
    <3>1. PICK E : fds' = [fds EXCEPT ![k] = @ \ E]
      BY <2>3
    <3>2. fds[k] \ E \in SUBSET ({"r", "w"} \X (1 .. Last))
      BY <1>1
    <3> QED
      BY <1>1, <3>1, <3>2
  <2>4. CASE ~Sieve!Pipe(k) /\ ~Sieve!Fork(k)
    <3>1. fds' = fds \/ \E E : fds' = [fds EXCEPT ![k] = @ \ E]
      BY <2>4 DEF Sieve!Proc, Sieve!ForkFails, Sieve!Parent, Sieve!First,
         Sieve!Child, Sieve!Second, Sieve!Send, Sieve!SendFails, Sieve!Skip,
         Sieve!TakeMain, Sieve!Take, Sieve!CloseIn, Sieve!CloseOut, Sieve!Wait,
         Sieve!Exit, Sieve!Closes
    <3> QED
      BY <1>1, <2>3, <3>1
  <2> QED
    BY <2>1, <2>2, <2>4
<1>4. buf' \in [0 .. Last -> Seq(2 .. Last)] /\ \A j \in 0 .. Last : Len(buf'[j]) <= Cap
  <2>1. ASSUME NEW j \in 0 .. Last, NEW b \in Seq(2 .. Last), Len(b) <= Cap,
               buf' = [buf EXCEPT ![j] = b]
        PROVE  buf' \in [0 .. Last -> Seq(2 .. Last)]
               /\ \A i \in 0 .. Last : Len(buf'[i]) <= Cap
    BY <1>1, <2>1
  <2>2. ASSUME NEW x, Reads(k, x)
        PROVE  buf' \in [0 .. Last -> Seq(2 .. Last)]
               /\ \A i \in 0 .. Last : Len(buf'[i]) <= Cap
    BY <2>1, <2>2 DEF Reads
  <2>3. CASE Sieve!First(k)
    BY <2>2, <2>3, FirstIs
  <2>4. CASE Sieve!Second(k)
    BY <1>1, <2>2, <2>4, SecondIs
  <2>5. CASE Sieve!Take(k)
    BY <1>1, <2>2, <2>5, TakeIs
  <2>6. CASE Sieve!Send(k)
    <3>1. /\ buf' = [buf EXCEPT ![k + 1] = Append(@, next[k])]
          /\ Len(buf[k + 1]) < Cap /\ pc[k] = "send"
      BY <2>6 DEF Sieve!Send, Sieve!HasRoom
    <3>2. k + 1 \in 0 .. Last
      BY <1>1, <3>1, NotTheLast DEF Offers
    <3>3. buf[k + 1] \in Seq(2 .. Last) /\ next[k] \in 2 .. Last
      BY <1>1, <3>2
    <3>4. /\ Append(buf[k + 1], next[k]) \in Seq(2 .. Last)
          /\ Len(Append(buf[k + 1], next[k])) = Len(buf[k + 1]) + 1
          /\ Len(buf[k + 1]) \in Nat
      BY <3>3
    <3>5. Len(Append(buf[k + 1], next[k])) <= Cap
      <4>1. Len(buf[k + 1]) < Cap /\ Cap \in Nat
        BY <1>1, <3>1
      <4> QED
        BY <3>4, <4>1
    <3>6. buf' = [buf EXCEPT ![k + 1] = Append(buf[k + 1], next[k])]
      BY <3>1
    <3> QED
      BY <2>1, <3>2, <3>4, <3>5, <3>6
  <2>7. CASE ~Sieve!First(k) /\ ~Sieve!Second(k) /\ ~Sieve!Take(k) /\ ~Sieve!Send(k)
    <3>1. buf' = buf
      BY <2>7 DEF Sieve!Proc, Sieve!Pipe, Sieve!Fork, Sieve!ForkFails, Sieve!Parent,
         Sieve!Child, Sieve!SendFails, Sieve!Skip, Sieve!TakeMain, Sieve!CloseIn,
         Sieve!CloseOut, Sieve!Wait
    <3> QED
      BY <1>1, <3>1
  <2> QED
    BY <2>3, <2>4, <2>5, <2>6, <2>7
<1>5. prime' \in [0 .. Last -> 0 .. Last] /\ printed' \in Seq(2 .. Last)
  <2>1. CASE Sieve!First(k)
    <3>1. PICK x \in 2 .. Last :
             prime' = [prime EXCEPT ![k] = x] /\ printed' = Append(printed, x)
      BY <2>1, FirstIs
    <3>2. x \in 0 .. Last
      BY <1>1
    <3>3. prime' \in [0 .. Last -> 0 .. Last]
      BY <1>1, <3>1, <3>2
    <3>4. printed' \in Seq(2 .. Last)
      BY <1>1, <3>1
    <3> QED
      BY <3>3, <3>4
  <2>2. CASE UNCHANGED <<prime, printed>>
    BY <1>1, <2>2
  <2> QED
    BY <2>1, <2>2, StepKeeps
<1>6. next' \in [0 .. Last -> 2 .. Last]
  <2>1. CASE Sieve!Second(k)
    BY <1>1, <2>1, SecondIs
  <2>2. CASE Sieve!Take(k)
    BY <1>1, <2>2, TakeIs
  <2>3. CASE Sieve!TakeMain(k)
    <3>1. /\ k = 0
          /\ \/ next' = next
             \/ next[k] < Last /\ next' = [next EXCEPT ![k] = next[k] + 1]
      BY <2>3 DEF Sieve!TakeMain, Sieve!MoreNumbers
    <3>2. Last \in Nat /\ next[k] \in 2 .. Last
      BY <1>1
    <3>3. next[k] < Last => next[k] + 1 \in 2 .. Last
      BY <3>2
    <3> QED
      BY <1>1, <3>1, <3>3
  <2> QED
    BY <1>1, <2>1, <2>2, <2>3, StepKeeps
<1>7. status' \in [0 .. Last -> {0, 1}] /\ refused' \subseteq 0 .. Last
  <2>1. \/ status' = status \/ status' = [status EXCEPT ![k] = 0]
        \/ status' = [status EXCEPT ![k] = 1]
    BY DEF Sieve!Proc, Sieve!Pipe, Sieve!Fork, Sieve!ForkFails, Sieve!Parent, Sieve!First,
       Sieve!Child, Sieve!Second, Sieve!Send, Sieve!SendFails, Sieve!Skip,
       Sieve!TakeMain, Sieve!Take, Sieve!CloseIn, Sieve!CloseOut, Sieve!Wait, Sieve!Exit
  <2>2. refused' = refused \/ refused' = refused \cup {k}
    BY DEF Sieve!Proc, Sieve!Pipe, Sieve!Fork, Sieve!ForkFails, Sieve!Parent, Sieve!First,
       Sieve!Child, Sieve!Second, Sieve!Send, Sieve!SendFails, Sieve!Skip,
       Sieve!TakeMain, Sieve!Take, Sieve!CloseIn, Sieve!CloseOut, Sieve!Wait
  <2> QED
    BY <1>1, <2>1, <2>2
<1> QED
  BY <1>1, <1>2, <1>3, <1>4, <1>5, <1>6, <1>7 DEF Sieve!TypeOK, Sieve!Procs, Points

-----------------------------------------------------------------------------
(* The invariant holds at first, and every step keeps it.                  *)
LEMMA SieveInit ==
  ASSUME Sieve!PrimesAssumption, Sieve!Init
  PROVE  SieveInv
<1>1. /\ Last \in Nat /\ Last > 1 /\ Cap \in Nat /\ Sieve!Procs = 0 .. Last
  BY DEF Sieve!PrimesAssumption, Sieve!Procs
<1>2. /\ pc = [k \in 0 .. Last |-> IF k = 0 THEN "pipe" ELSE "unborn"]
      /\ fds = [k \in 0 .. Last |-> {}] /\ buf = [k \in 0 .. Last |-> <<>>]
      /\ prime = [k \in 0 .. Last |-> 0] /\ next = [k \in 0 .. Last |-> 2]
      /\ printed = <<>> /\ status = [k \in 0 .. Last |-> 0] /\ refused = {}
  BY <1>1 DEF Sieve!Init
<1>3. /\ pc[0] = "pipe" /\ prime[0] = 0 /\ next[0] = 2
      /\ \A k \in 1 .. Last : pc[k] = "unborn" /\ prime[k] = 0 /\ buf[k] = <<>>
      /\ \A k \in 0 .. Last : fds[k] = {} /\ status[k] = 0
  BY <1>1, <1>2
<1>4. Candidates(0) = 2 .. Last
  BY AllCandidates
<1>5. Sieve!TypeOK
  <2>1. pc \in [0 .. Last -> Points]
    BY <1>2 DEF Points
  <2>2. /\ buf \in [0 .. Last -> Seq(2 .. Last)] /\ printed \in Seq(2 .. Last)
        /\ \A k \in 0 .. Last : Len(buf[k]) <= Cap
    <3>1. <<>> \in Seq(2 .. Last) /\ Len(<<>>) = 0 /\ 0 <= Cap
      BY <1>1
    <3> QED
      BY <1>2, <3>1
  <2>3. /\ fds \in [0 .. Last -> SUBSET ({"r", "w"} \X (1 .. Last))]
        /\ status \in [0 .. Last -> {0, 1}] /\ refused \subseteq 0 .. Last
    BY <1>2
  <2>4. prime \in [0 .. Last -> 0 .. Last] /\ next \in [0 .. Last -> 2 .. Last]
    BY <1>1, <1>2
  <2> QED
    BY <1>1, <2>1, <2>2, <2>3, <2>4 DEF Sieve!TypeOK, Points
<1>6. Chain
  <2>1. \A k \in 1 .. Last : k - 1 = 0 \/ k - 1 \in 1 .. Last
    BY <1>1
  <2> QED
    BY <1>1, <1>3, <2>1 DEF Chain, Offers
<1>7. EndsOpen
  <2>1. EndsAt(0, "pipe") = {}
    BY DEF EndsAt
  <2>2. \A k \in 0 .. Last : EndsAt(k, "unborn") = {}
    BY DEF EndsAt
  <2> QED
    <3> SUFFICES ASSUME NEW k \in 0 .. Last PROVE fds[k] = EndsAt(k, pc[k])
      BY DEF EndsOpen
    <3>1. CASE k = 0
      BY <1>3, <2>1, <3>1
    <3>2. CASE k # 0
      <4>1. k \in 1 .. Last
        BY <1>1, <3>2
      <4> QED
        BY <1>3, <2>2, <4>1
    <3> QED
      BY <3>1, <3>2
<1>8. EndsRead
  BY <1>1, <1>3 DEF EndsRead, AtEnd
<1>9. PrimesRight
  BY <1>1, <1>3 DEF PrimesRight, Offers
<1>10. NumbersRight
  <2>1. NumberRight(0)
    BY <1>1, <1>3, <1>4 DEF NumberRight, AtEnd
  <2>2. \A k \in 1 .. Last : NumberRight(k)
    BY <1>3 DEF NumberRight, Offers, AtEnd
  <2> QED
    BY <1>1, <2>1, <2>2 DEF NumbersRight
<1>11. PipesRight
  BY <1>3 DEF PipesRight, PipeRight
<1>12. PrintedRight
  <2>1. Len(printed) = 0
    BY <1>2
  <2> QED
    BY <1>1, <1>3, <2>1 DEF PrintedRight
<1>13. NoneMissed
  BY <1>1, <1>3 DEF NoneMissed
<1> QED
  BY <1>5, <1>6, <1>7, <1>8, <1>9, <1>10, <1>11, <1>12, <1>13 DEF SieveInv

(* The invariant is inductive.                                             *)
LEMMA SieveStep ==
  ASSUME Sieve!PrimesAssumption, SieveInv, [Next]_vars
  PROVE  SieveInv'
<1>1. CASE InSieve /\ Sieve!Next
  <2>1. PICK k \in 0 .. Last : Sieve!Proc(k)
    BY <1>1 DEF Sieve!Next, Sieve!Procs
  <2> QED
    BY <2>1, TypesStep, ChainStep, EndsOpenStep, EndsReadStep, PrimesStep, NumbersStep,
       PipesStep, PrintedStep, NoneMissedStep DEF SieveInv
<1>2. CASE UNCHANGED sieveVars
  <2>1. UNCHANGED <<pc, fds, buf, prime, next, printed, status, refused>>
    BY <1>2 DEF sieveVars
  <2>2. \A k : Candidates(k)' = Candidates(k)
    BY <2>1 DEF Candidates
  <2>3. \A k : Taken(k)' = Taken(k) /\ Sent(k)' = Sent(k)
    BY <2>1 DEF Taken, Sent
  <2>4. NumbersRight' /\ PipesRight' /\ NoneMissed' /\ PrimesRight'
    BY <2>1, <2>2, <2>3 DEF SieveInv, NumbersRight, NumberRight, PipesRight, PipeRight,
       NoneMissed, PrimesRight
  <2>5. Sieve!TypeOK' /\ Chain' /\ EndsOpen' /\ EndsRead' /\ PrintedRight'
    BY <2>1 DEF SieveInv, Sieve!TypeOK, Chain, EndsOpen, EndsRead, PrintedRight
  <2> QED
    BY <2>4, <2>5 DEF SieveInv
<1> QED
  BY <1>1, <1>2 DEF Next, InFork, InXargs, InFind, InShell, vars

(* The sieve at any time, among the other programs.                        *)
THEOREM SieveRight == Spec => []SieveInv
<1> USE ProcessesAssumption DEF ProcessesAssumption
<1>1. Init => SieveInv
  BY SieveInit DEF Init
<1>2. SieveInv /\ [Next]_vars => SieveInv'
  BY SieveStep
<1> QED
  BY <1>1, <1>2, PTL DEF Spec

-----------------------------------------------------------------------------
(* There are as many primes as processes before one that has a candidate.  *)
LEMMA PrimesFinite ==
  ASSUME Sieve!PrimesAssumption
  PROVE  /\ IsFiniteSet(Sieve!PrimesUpTo(Last)) /\ Cardinality(Sieve!PrimesUpTo(Last)) \in Nat
         /\ Sieve!Standard + Cardinality(Sieve!PrimesUpTo(Last)) + 1 <= NOFILE
<1>1. Last \in Nat
  BY DEF Sieve!PrimesAssumption
<1>2. IsFiniteSet(2 .. Last)
  BY <1>1, FS_Interval
<1>3. Sieve!PrimesUpTo(Last) \in SUBSET (2 .. Last)
  BY DEF Sieve!PrimesUpTo
<1>4. IsFiniteSet(Sieve!PrimesUpTo(Last))
  BY <1>2, <1>3, FS_Subset
<1>5. Cardinality(Sieve!PrimesUpTo(Last)) \in Nat
  BY <1>4, FS_CardinalityType
<1>6. Sieve!Cardinality(Sieve!PrimesUpTo(Last)) = Cardinality(Sieve!PrimesUpTo(Last))
  BY DEF Sieve!Cardinality, Cardinality, Sieve!IsFiniteSet, IsFiniteSet
<1> QED
  BY <1>4, <1>5, <1>6 DEF Sieve!PrimesAssumption

(* There are no more processes than primes: those before k have a prime    *)
(* each, and k will have one.                                              *)
LEMMA EnoughPrimes ==
  ASSUME Sieve!PrimesAssumption, SieveInv, NEW k \in 1 .. Last,
         \A j \in 1 .. k - 1 : prime[j] # 0, Candidates(k) # {}
  PROVE  k <= Cardinality(Sieve!PrimesUpTo(Last))
<1>1. Last \in Nat /\ Candidates(k) \subseteq 2 .. Last
  BY InvParts, SieveTypes, CandidatesAre
<1>2. Candidates(k) \in SUBSET Nat
  BY <1>1
<1>3. PICK p \in Candidates(k) : \A x \in Candidates(k) : p <= x
  BY <1>2, LeastNat
<1> DEFINE P == Sieve!PrimesUpTo(Last)
           f == [j \in 1 .. k |-> IF j = k THEN p ELSE prime[j]]
<1>4. p \in P
  BY <1>1, <1>3, LeastIsPrime, InvParts DEF Sieve!PrimesUpTo
<1>5. \A j \in 1 .. k - 1 : prime[j] \in P /\ prime[j] < p
  <2>1. \A j \in 1 .. k - 1 : prime[j] \in 2 .. p - 1 /\ Sieve!IsPrime(prime[j])
    BY PrimesGrow, InvParts
  <2> QED
    BY <1>1, <2>1 DEF Sieve!PrimesUpTo
<1>6. f \in [1 .. k -> P]
  <2>1. \A j \in 1 .. k : j # k => j \in 1 .. k - 1
    BY <1>1
  <2> QED
    BY <1>4, <1>5, <2>1
<1>7. ASSUME NEW i \in 1 .. k, NEW j \in 1 .. k, i < j PROVE f[i] # f[j]
  <2>1. i \in 1 .. k - 1
    BY <1>1, <1>7
  <2>2. CASE j = k
    BY <1>1, <1>5, <1>7, <2>1, <2>2
  <2>3. CASE j # k
    <3>1. j \in 1 .. k - 1 /\ j \in 1 .. Last /\ prime[j] # 0 /\ i \in 1 .. j - 1
      BY <1>1, <1>7, <2>3
    <3>2. prime[j] \in Candidates(j) /\ \A m \in 1 .. j - 1 : prime[m] # 0
      <4>1. prime[j] \in Candidates(j)
        BY <3>1, InvParts DEF PrimesRight
      <4>2. 1 .. j - 1 \subseteq 1 .. k - 1
        BY <1>1
      <4> QED
        BY <4>1, <4>2
    <3>3. prime[i] \in 2 .. prime[j] - 1 /\ prime[j] \in 2 .. Last
      BY <3>1, <3>2, PrimesGrow, CandidatesAre, InvParts
    <3>4. prime[i] # prime[j]
      BY <1>1, <3>3
    <3> QED
      BY <2>1, <2>3, <3>1, <3>4
  <2> QED
    BY <2>2, <2>3
<1>8. f \in Injection(1 .. k, P)
  <2> HIDE DEF f
  <2>1. \A i, j \in 1 .. k : i # j => i < j \/ j < i
    BY <1>1
  <2>2. \A i, j \in 1 .. k : f[i] = f[j] => i = j
    BY <1>7, <2>1
  <2> QED
    BY <1>6, <2>2 DEF Injection, IsInjective
<1>9. Cardinality(1 .. k) <= Cardinality(P)
  BY <1>8, PrimesFinite, FS_Injection
<1>10. Cardinality(1 .. k) = k
  BY <1>1, FS_Interval
<1> QED
  BY <1>9, <1>10

(* The read ends of m pipes.                                               *)
LEMMA ReadEnds ==
  ASSUME NEW m \in Nat
  PROVE  /\ IsFiniteSet({Sieve!R(j) : j \in 1 .. m})
         /\ Cardinality({Sieve!R(j) : j \in 1 .. m}) \in Nat
         /\ Cardinality({Sieve!R(j) : j \in 1 .. m}) <= m
<1> DEFINE T == {Sieve!R(j) : j \in 1 .. m}
           f == [j \in 1 .. m |-> Sieve!R(j)]
<1>1. f \in Surjection(1 .. m, T)
  BY DEF Surjection
<1>2. IsFiniteSet(1 .. m) /\ Cardinality(1 .. m) = m
  BY FS_Interval
<1> HIDE DEF f, T
<1>3. IsFiniteSet(T) /\ Cardinality(T) <= m
  BY <1>1, <1>2, FS_Surjection
<1>4. Cardinality(T) \in Nat
  BY <1>3, FS_CardinalityType
<1> QED
  BY <1>3, <1>4 DEF T

(* How many descriptors there are at most.                                 *)
LEMMA EndsCount ==
  ASSUME NEW k \in Nat, NEW l \in Points
  PROVE  Cardinality(EndsAt(k, l)) <= (IF l \in {"unborn", "ended"} THEN 0
                                       ELSE IF l \in {"fork", "parent"} THEN k + 2 ELSE k + 1)
<1> DEFINE T(m) == {Sieve!R(j) : j \in 1 .. m}
<1>1. \A m \in Nat : IsFiniteSet(T(m)) /\ Cardinality(T(m)) \in Nat /\ Cardinality(T(m)) <= m
  BY ReadEnds
<1>2. T(k - 1) \subseteq T(k)
  OBVIOUS
<1> HIDE DEF T
<1>3. \A x : IsFiniteSet(T(k) \cup {x}) /\ Cardinality(T(k) \cup {x}) \in Nat
             /\ Cardinality(T(k) \cup {x}) <= k + 1
  <2> SUFFICES ASSUME NEW x
               PROVE  /\ IsFiniteSet(T(k) \cup {x}) /\ Cardinality(T(k) \cup {x}) \in Nat
                      /\ Cardinality(T(k) \cup {x}) <= k + 1
    OBVIOUS
  <2>1. IsFiniteSet(T(k)) /\ Cardinality(T(k)) \in Nat /\ Cardinality(T(k)) <= k
    BY <1>1
  <2>2. /\ IsFiniteSet(T(k) \cup {x})
        /\ Cardinality(T(k) \cup {x}) =
               IF x \in T(k) THEN Cardinality(T(k)) ELSE Cardinality(T(k)) + 1
    BY <2>1, FS_AddElement
  <2> QED
    BY <2>1, <2>2
<1>4. \A x, y : /\ IsFiniteSet(T(k) \cup {x, y}) /\ Cardinality(T(k) \cup {x, y}) \in Nat
                /\ Cardinality(T(k) \cup {x, y}) <= k + 2
  <2> SUFFICES ASSUME NEW x, NEW y
               PROVE  /\ IsFiniteSet(T(k) \cup {x, y}) /\ Cardinality(T(k) \cup {x, y}) \in Nat
                      /\ Cardinality(T(k) \cup {x, y}) <= k + 2
    OBVIOUS
  <2> DEFINE A == T(k) \cup {x}
  <2>1. IsFiniteSet(A) /\ Cardinality(A) \in Nat /\ Cardinality(A) <= k + 1
    BY <1>3
  <2>2. T(k) \cup {x, y} = A \cup {y}
    OBVIOUS
  <2> HIDE DEF A
  <2>3. /\ IsFiniteSet(A \cup {y})
        /\ Cardinality(A \cup {y}) = IF y \in A THEN Cardinality(A) ELSE Cardinality(A) + 1
    BY <2>1, FS_AddElement
  <2> QED
    BY <2>1, <2>2, <2>3
<1>5. CASE l \in {"unborn", "ended"}
  <2>1. EndsAt(k, l) = {}
    BY <1>5 DEF EndsAt
  <2> QED
    BY <1>5, <2>1, FS_EmptySet
<1>6. CASE l = "child"
  <2>1. EndsAt(k, l) = T(k) \cup {Sieve!W(k)}
    BY <1>6 DEF EndsAt, T
  <2> QED
    BY <1>3, <1>6, <2>1
<1>7. CASE l \in {"fork", "parent"}
  <2>1. EndsAt(k, l) = T(k) \cup {Sieve!R(k + 1), Sieve!W(k + 1)}
    BY <1>7 DEF EndsAt, T
  <2> QED
    BY <1>4, <1>7, <2>1
<1>8. CASE l \in {"first", "second", "pipe", "send", "take", "closeIn", "closeOut", "wait"}
  <2>1. EndsAt(k, l) \in SUBSET (T(k) \cup {Sieve!W(k + 1)})
    <3>1. CASE l \in {"first", "second", "pipe"}
      BY <3>1 DEF EndsAt, T
    <3>2. CASE l \in {"send", "take", "closeIn"}
      BY <3>2 DEF EndsAt, T
    <3>3. CASE l \in {"closeOut", "wait"}
      <4>1. EndsAt(k, l) \in SUBSET (T(k - 1) \cup {Sieve!W(k + 1)})
        BY <3>3 DEF EndsAt, T
      <4> QED
        BY <1>2, <4>1
    <3> QED
      BY <1>8, <3>1, <3>2, <3>3
  <2>2. /\ IsFiniteSet(EndsAt(k, l))
        /\ Cardinality(EndsAt(k, l)) <= Cardinality(T(k) \cup {Sieve!W(k + 1)})
    BY <1>3, <2>1, FS_Subset
  <2>3. Cardinality(EndsAt(k, l)) \in Nat
    BY <2>2, FS_CardinalityType
  <2>4. /\ Cardinality(T(k) \cup {Sieve!W(k + 1)}) \in Nat
        /\ Cardinality(T(k) \cup {Sieve!W(k + 1)}) <= k + 1
    BY <1>3
  <2>5. Cardinality(EndsAt(k, l)) <= k + 1
    BY <2>2, <2>3, <2>4
  <2> QED
    BY <1>8, <2>5
<1> QED
  BY <1>5, <1>6, <1>7, <1>8 DEF Points

-----------------------------------------------------------------------------
(* Every process has descriptors for its pipes, with the read ends of all  *)
(* its ancestors' pipes among them: there are never more processes than    *)
(* primes.                                                                 *)
LEMMA DescriptorsEnough ==
  ASSUME Sieve!PrimesAssumption, SieveInv
  PROVE  DescriptorsFit
<1> DEFINE N == Cardinality(Sieve!PrimesUpTo(Last))
<1>1. N \in Nat /\ Sieve!Standard + N + 1 <= NOFILE /\ NOFILE \in Nat
  BY PrimesFinite DEF Sieve!PrimesAssumption
<1>2. /\ Last \in Nat /\ Sieve!Procs = 0 .. Last /\ pc \in [0 .. Last -> Points]
      /\ PrimesRight
  BY InvParts, SieveTypes
<1>3. ASSUME NEW k \in 0 .. Last
      PROVE  Cardinality(fds[k]) \in Nat
  <2>1. fds[k] \in SUBSET ({"r", "w"} \X (1 .. Last))
    BY InvParts, SieveTypes
  <2>2. IsFiniteSet({"r", "w"}) /\ IsFiniteSet(1 .. Last)
    <3>1. IsFiniteSet({"r"}) /\ {"r"} \cup {"w"} = {"r", "w"}
      BY FS_Singleton
    <3>2. IsFiniteSet({"r"} \cup {"w"})
      BY <3>1, FS_AddElement
    <3>3. Last \in Int /\ 1 \in Int
      BY <1>2
    <3>4. IsFiniteSet(1 .. Last)
      BY <3>3, FS_Interval
    <3> QED
      BY <3>1, <3>2, <3>4
  <2>3. IsFiniteSet({"r", "w"} \X (1 .. Last))
    BY <2>2, FS_Product
  <2> QED
    BY <2>1, <2>3, FS_Subset, FS_CardinalityType
<1>4. ASSUME NEW k \in 0 .. Last PROVE Cardinality(fds[k]) <= N + 1
  <2>1. fds[k] = EndsAt(k, pc[k]) /\ k \in Nat /\ pc[k] \in Points
    BY <1>2, InvParts DEF EndsOpen
  <2>2. Cardinality(fds[k]) <= (IF pc[k] \in {"unborn", "ended"} THEN 0
                                ELSE IF pc[k] \in {"fork", "parent"} THEN k + 2 ELSE k + 1)
    BY <2>1, EndsCount
  <2>3. CASE pc[k] \in {"unborn", "ended"}
    BY <1>1, <1>3, <2>2, <2>3
  <2>4. CASE pc[k] \in {"fork", "parent"}
    <3>1. k + 1 \in 1 .. Last
      BY <1>2, <2>4, NotTheLast DEF Offers
    <3>2. Candidates(k + 1) # {}
      <4>1. CASE pc[k] = "fork"
        BY <4>1, ChildHasPrime
      <4>2. CASE pc[k] = "parent"
        BY <3>1, <4>2, InvParts DEF Chain, Offers, NoneMissed
      <4> QED
        BY <2>4, <4>1, <4>2
    <3>3. \A j \in 1 .. (k + 1) - 1 : prime[j] # 0
      <4>1. k \in 1 .. Last => prime[k] # 0 /\ \A j \in 1 .. k - 1 : prime[j] # 0
        BY <1>2, <2>4 DEF PrimesRight, Offers
      <4> QED
        BY <1>2, <4>1
    <3>4. k + 1 <= N
      BY <3>1, <3>2, <3>3, EnoughPrimes
    <3> HIDE DEF N
    <3> QED
      BY <1>1, <1>3, <2>1, <2>2, <2>4, <3>4
  <2>5. CASE pc[k] \notin {"unborn", "ended", "fork", "parent"}
    <3>1. k <= N
      <4>1. CASE k = 0
        BY <1>1, <4>1
      <4>2. CASE k # 0
        <5>1. k \in 1 .. Last
          BY <1>2, <4>2
        <5>2. Candidates(k) # {} /\ \A j \in 1 .. k - 1 : prime[j] # 0
          BY <1>2, <2>5, <5>1, InvParts DEF PrimesRight, NoneMissed
        <5> QED
          BY <5>1, <5>2, EnoughPrimes
      <4> QED
        BY <4>1, <4>2
    <3> HIDE DEF N
    <3> QED
      BY <1>1, <1>3, <2>1, <2>2, <2>5, <3>1
  <2> QED
    BY <2>3, <2>4, <2>5
<1>5. \A k \in 0 .. Last : Sieve!Cardinality(fds[k]) = Cardinality(fds[k])
  BY DEF Sieve!Cardinality, Cardinality, Sieve!IsFiniteSet, IsFiniteSet
<1> HIDE DEF N
<1>6. \A k \in 0 .. Last : Sieve!Standard + Cardinality(fds[k]) <= NOFILE
  BY <1>1, <1>3, <1>4 DEF Sieve!Standard
<1> QED
  BY <1>2, <1>5, <1>6 DEF DescriptorsFit, Sieve!DescriptorsFit

(* primes.c: the read ends that a process inherits, and those of its own   *)
(* pipe, fit into its table of descriptors, so that pipe(), which is not   *)
(* tested, does not fail.                                                  *)
THEOREM SieveDescriptors == Spec => []DescriptorsFit
<1> USE ProcessesAssumption DEF ProcessesAssumption
<1>1. SieveInv => DescriptorsFit
  BY DescriptorsEnough
<1> QED
  BY <1>1, SieveRight, PTL

(* A process of the sieve ends after all those below it.                   *)
THEOREM SieveEndsInOrder == Spec => []EndsInOrder
<1> USE ProcessesAssumption DEF ProcessesAssumption
<1>1. SieveInv => EndsInOrder
  <2> SUFFICES ASSUME SieveInv PROVE EndsInOrder
    OBVIOUS
  <2>1. Last \in Nat /\ Sieve!Procs = 0 .. Last
    BY InvParts, SieveTypes
  <2>2. ASSUME NEW k \in 0 .. Last, k # Last, pc[k] = "ended"
        PROVE  pc[k + 1] \in {"unborn", "ended"}
    <3>1. k + 1 \in 1 .. Last /\ (k + 1) - 1 = k
      BY <2>1, <2>2
    <3> QED
      BY <2>2, <3>1, InvParts DEF Chain
  <2> QED
    BY <2>1, <2>2 DEF EndsInOrder, Sieve!EndsInOrder
<1> QED
  BY <1>1, SieveRight, PTL

-----------------------------------------------------------------------------
(* What is printed, at any time: the primes up to the last one printed.    *)
LEMMA PrintedUpTo ==
  ASSUME Sieve!PrimesAssumption, SieveInv, NEW m \in 1 .. Last, Len(printed) = m
  PROVE  /\ printed[m] = prime[m] /\ prime[m] # 0
         /\ Sieve!PrimesUpTo(prime[m]) = {prime[j] : j \in 1 .. m}
         /\ {printed[j] : j \in 1 .. m} = {prime[j] : j \in 1 .. m}
         /\ \A i, j \in 1 .. m : i < j => prime[i] < prime[j]
         /\ \A j \in 1 .. m : prime[j] \in 2 .. Last
<1>1. Last \in Nat /\ PrimesRight /\ PrintedRight
  BY InvParts, SieveTypes
<1>2. \A j \in 1 .. m : j \in 1 .. Last /\ printed[j] = prime[j] /\ prime[j] # 0
  BY <1>1 DEF PrintedRight
<1>3. /\ prime[m] \in Candidates(m) /\ \A x \in Candidates(m) : prime[m] <= x
      /\ \A j \in 1 .. m : prime[j] \in Candidates(j)
  BY <1>1, <1>2 DEF PrimesRight
<1>4. \A j \in 1 .. m - 1 : prime[j] # 0
  BY <1>1, <1>2
<1>5. Sieve!PrimesUpTo(prime[m]) = {prime[j] : j \in 1 .. m - 1} \cup {prime[m]}
  BY <1>1, <1>3, <1>4, PrimesSoFar, InvParts
<1>6. 1 .. m = (1 .. m - 1) \cup {m}
  BY <1>1
<1>7. Sieve!PrimesUpTo(prime[m]) = {prime[j] : j \in 1 .. m}
  BY <1>5, <1>6
<1>8. \A j \in 1 .. m : prime[j] \in 2 .. Last
  BY <1>2, <1>3, CandidatesAre, InvParts
<1>9. ASSUME NEW i \in 1 .. m, NEW j \in 1 .. m, i < j PROVE prime[i] < prime[j]
  <2>1. j \in 1 .. Last /\ i \in 1 .. j - 1 /\ prime[j] \in Candidates(j)
    BY <1>1, <1>2, <1>3, <1>9
  <2>2. \A q \in 1 .. j - 1 : prime[q] # 0
    BY <1>1, <1>2
  <2>3. prime[i] \in 2 .. prime[j] - 1
    BY <2>1, <2>2, PrimesGrow, InvParts
  <2> QED
    BY <1>1, <1>8, <2>3
<1> QED
  BY <1>1, <1>2, <1>7, <1>8, <1>9

(* When main() has ended, and no fork() has failed, the last process has   *)
(* found nothing more.                                                     *)
LEMMA AllFound ==
  ASSUME Sieve!PrimesAssumption, SieveInv, refused = {}, pc[0] = "ended"
  PROVE  /\ Len(printed) \in 1 .. Last
         /\ \A x \in Candidates(Len(printed)) : x <= prime[Len(printed)]
<1> DEFINE m == Len(printed)
<1>1. /\ Last \in Nat /\ Last > 1 /\ m \in 0 .. Last /\ PrintedRight /\ Chain /\ NoneMissed
      /\ PrimesRight
  BY InvParts, SieveTypes DEF PrintedRight
<1> HIDE DEF m
<1>2. \A j \in 1 .. Last : prime[j] # 0 <=> j <= m
  BY <1>1 DEF PrintedRight, m
<1>3. \A j \in 0 .. Last : pc[j] = "ended" =>
          /\ j > 0 => prime[j] # 0
          /\ j = Last \/ pc[j + 1] = "unborn" => j > 0 /\ \A x \in Candidates(j) : x <= prime[j]
  BY <1>1 DEF NoneMissed
<1>4. \A j \in 0 .. Last : j <= m => pc[j] = "ended"
  <2> DEFINE T == {j \in 0 .. Last : j <= m /\ pc[j] # "ended"}
  <2> SUFFICES ASSUME T # {} PROVE FALSE
    OBVIOUS
  <2>1. T \in SUBSET Nat
    BY <1>1
  <2>2. PICK x \in T : \A y \in T : x <= y
    <3> HIDE DEF T
    <3> QED
      BY <2>1, LeastNat
  <2>3. x \in 1 .. Last /\ x <= m /\ pc[x] # "ended" /\ x - 1 \in 0 .. Last /\ x - 1 <= m
    BY <1>1, <2>2
  <2>4. x - 1 \notin T
    <3>1. ~(x <= x - 1)
      BY <1>1, <2>3
    <3> HIDE DEF T
    <3> QED
      BY <2>2, <3>1
  <2>5. pc[x - 1] = "ended"
    BY <2>3, <2>4
  <2>6. pc[x] = "unborn"
    BY <1>1, <2>3, <2>5 DEF Chain
  <2>7. prime[x] = 0
    BY <1>1, <2>3, <2>6 DEF PrimesRight
  <2> QED
    BY <1>2, <2>3, <2>7
<1>5. m # 0
  <2>1. 0 \in 0 .. Last /\ 1 \in 1 .. Last /\ 1 - 1 = 0 /\ 0 # Last /\ 0 + 1 = 1
    BY <1>1
  <2>2. pc[1] \in {"unborn", "ended"} /\ pc[1] # "unborn"
    BY <1>1, <1>3, <2>1 DEF Chain
  <2>3. prime[1] # 0
    BY <1>1, <1>3, <2>1, <2>2
  <2> QED
    BY <1>1, <1>2, <2>1, <2>3
<1>6. m \in 1 .. Last /\ pc[m] = "ended"
  BY <1>1, <1>4, <1>5
<1>7. m = Last \/ pc[m + 1] = "unborn"
  <2> SUFFICES ASSUME m # Last, pc[m + 1] # "unborn" PROVE FALSE
    OBVIOUS
  <2>1. m + 1 \in 1 .. Last /\ (m + 1) - 1 = m /\ ~(m + 1 <= m)
    BY <1>1, <1>6
  <2>2. pc[m + 1] = "ended"
    BY <1>1, <1>6, <2>1 DEF Chain
  <2>3. prime[m + 1] # 0
    BY <1>1, <1>3, <2>1, <2>2
  <2> QED
    BY <1>2, <2>1, <2>3
<1>8. \A x \in Candidates(m) : x <= prime[m]
  BY <1>1, <1>3, <1>6, <1>7
<1> QED
  BY <1>6, <1>8 DEF m

(* The sieve prints the primes.                                            *)
LEMMA PrintsRight ==
  ASSUME Sieve!PrimesAssumption, SieveInv
  PROVE  PrintsPrimes
<1> DEFINE m == Len(printed)
<1>1. /\ Last \in Nat /\ Sieve!Procs = 0 .. Last /\ printed \in Seq(2 .. Last)
      /\ m \in 0 .. Last /\ DOMAIN printed = 1 .. m
      /\ (printed = <<>> <=> m = 0)
  <2>1. Last \in Nat /\ Sieve!Procs = 0 .. Last /\ printed \in Seq(2 .. Last) /\ m \in 0 .. Last
    BY InvParts, SieveTypes DEF PrintedRight
  <2> QED
    BY <2>1
<1> HIDE DEF m
<1>2. {printed[i] : i \in DOMAIN printed} =
          (IF printed = <<>> THEN {} ELSE Sieve!PrimesUpTo(printed[m]))
  <2>1. CASE m = 0
    BY <1>1, <2>1
  <2>2. CASE m # 0
    <3>1. m \in 1 .. Last
      BY <1>1, <2>2
    <3> QED
      BY <1>1, <2>2, <3>1, PrintedUpTo DEF m
  <2> QED
    BY <2>1, <2>2
<1>3. ASSUME NEW i \in 2 .. m PROVE printed[i - 1] < printed[i]
  <2>1. m \in 1 .. Last /\ i \in 1 .. m /\ i - 1 \in 1 .. m /\ i - 1 < i
    BY <1>1
  <2>2. printed[i] = prime[i] /\ printed[i - 1] = prime[i - 1]
    BY <1>1, <2>1, InvParts DEF PrintedRight, m
  <2>3. prime[i - 1] < prime[i]
    BY <2>1, PrintedUpTo DEF m
  <2> QED
    BY <2>2, <2>3
<1>4. ASSUME refused = {}, pc[0] = "ended" PROVE m = Cardinality(Sieve!PrimesUpTo(Last))
  <2> DEFINE P == Sieve!PrimesUpTo(Last)
             f == [j \in 1 .. m |-> prime[j]]
  <2>1. m \in 1 .. Last /\ \A x \in Candidates(m) : x <= prime[m]
    BY <1>4, AllFound DEF m
  <2>2. /\ prime[m] # 0 /\ Sieve!PrimesUpTo(prime[m]) = {prime[j] : j \in 1 .. m}
        /\ \A i, j \in 1 .. m : i < j => prime[i] < prime[j]
        /\ \A j \in 1 .. m : prime[j] \in 2 .. Last
    BY <2>1, PrintedUpTo DEF m
  <2>3. \A j \in 1 .. m - 1 : prime[j] # 0 /\ prime[j] <= prime[m]
    BY <1>1, <2>1, <2>2
  <2>4. P = {prime[j] : j \in 1 .. m}
    <3>1. prime[m] \in 2 .. Last
      BY <2>1, <2>2
    <3>2. Sieve!PrimesUpTo(prime[m]) \subseteq P
      BY <1>1, <3>1 DEF Sieve!PrimesUpTo
    <3>3. ASSUME NEW x \in P, x > prime[m] PROVE FALSE
      <4>1. x \in 2 .. Last
        BY DEF Sieve!PrimesUpTo
      <4>2. \A j \in 1 .. m - 1 : prime[j] # x
        BY <1>1, <2>1, <2>2, <2>3, <3>3, <4>1
      <4>3. x \in Candidates(m)
        BY <2>1, <2>3, <4>2, PrimesPass, InvParts
      <4> QED
        BY <1>1, <2>1, <3>1, <3>3, <4>1, <4>3
    <3>4. P \subseteq Sieve!PrimesUpTo(prime[m])
      BY <1>1, <3>1, <3>3 DEF Sieve!PrimesUpTo
    <3> QED
      BY <2>2, <3>2, <3>4
  <2>5. f \in Surjection(1 .. m, P) /\ f \in [1 .. m -> P]
    BY <2>4 DEF Surjection
  <2>6. \A i, j \in 1 .. m : f[i] = f[j] => i = j
    <3>1. \A i, j \in 1 .. m : i # j => i < j \/ j < i
      BY <1>1
    <3> QED
      BY <1>1, <2>2, <3>1
  <2> HIDE DEF f, P
  <2>7. f \in Injection(1 .. m, P)
    BY <2>5, <2>6 DEF Injection, IsInjective
  <2>8. Cardinality(1 .. m) = Cardinality(P)
    BY <2>5, <2>7, PrimesFinite, FS_Injection DEF P
  <2>9. Cardinality(1 .. m) = m
    BY <1>1, <2>1, FS_Interval
  <2> QED
    BY <2>8, <2>9 DEF P
<1>5. refused = {} => \A k \in 0 .. Last : status[k] = 0
  BY InvParts DEF NoneMissed
<1>6. Sieve!Cardinality(Sieve!PrimesUpTo(Last)) = Cardinality(Sieve!PrimesUpTo(Last))
  BY DEF Sieve!Cardinality, Cardinality, Sieve!IsFiniteSet, IsFiniteSet
<1> QED
  BY <1>1, <1>2, <1>3, <1>4, <1>5, <1>6 DEF PrintsPrimes, Sieve!PrintsPrimes, m

(* primes.c: the numbers printed are the first primes in their order, and  *)
(* all primes up to the last number when main() has ended and no fork()    *)
(* was refused.                                                            *)
THEOREM SievePrints == Spec => []PrintsPrimes
<1> USE ProcessesAssumption DEF ProcessesAssumption
<1>1. SieveInv => PrintsPrimes
  BY PrintsRight
<1> QED
  BY <1>1, SieveRight, PTL

-----------------------------------------------------------------------------
(* project1.c of chapter 3.  Where the ring of a shell has its commands: a *)
(* command that was read keeps its place until Slots others have followed. *)
RingRight(p) ==
    /\ index[p] = Len(read[p]) % Slots
    /\ flag[p] = (Len(read[p]) >= Slots)
    /\ \A i \in 1 .. Len(read[p]) :
           Len(read[p]) < i + Slots => history[p][(i - 1) % Slots] = read[p][i]

(* A shell that waits has one command in the foreground more left over than*)
(* it has taken of the background, any other process as many.  Who does not*)
(* exist has no parent.                                                    *)
Owed(p) == IF state[p] = "wait" THEN 1 ELSE 0

ChildrenRight(p) ==
    /\ Cardinality(Osh!LeftOver(p)) = Cardinality(Osh!Taken(p)) + Owed(p)
    /\ state[p] = "none" => parent[p] = 0

ShellInv == Osh!TypeOK /\ \A p \in Processes : RingRight(p) /\ ChildrenRight(p)

(* A number less than m is its own remainder.                              *)
LEMMA SmallRemainder ==
  ASSUME NEW m \in Nat, m > 1
  PROVE  \A y \in 0 .. m - 1 : y % m = y
OBVIOUS

(* The remainder of the next number.                                       *)
LEMMA NextRemainder ==
  ASSUME NEW m \in Nat, m > 1, NEW len \in Nat
  PROVE  (len + 1) % m = IF len % m = m - 1 THEN 0 ELSE (len % m) + 1
<1> DEFINE d == len \div m
           r == len % m
<1>1. d \in Int /\ r \in 0 .. m - 1 /\ len = m * d + r
  BY QuotientOf
<1>2. CASE len % m = m - 1
  <2> DEFINE q == d + 1
  <2>1. len + 1 = 0 + m * q /\ q \in Int
    <3>1. r = m - 1
      BY <1>2
    <3> HIDE DEF d, r
    <3> QED
      BY <1>1, <3>1
  <2>2. q \in Int
    BY <2>1
  <2> HIDE DEF q
  <2>3. (0 + m * q) % m = 0 % m
    BY <2>2, SameRemainder
  <2>4. 0 % m = 0
    OBVIOUS
  <2> QED
    BY <1>2, <2>1, <2>3, <2>4, Zenon
<1>3. CASE len % m # m - 1
  <2> DEFINE y == r + 1
  <2>1. len + 1 = y + m * d /\ y \in 0 .. m - 1
    <3>1. r # m - 1
      BY <1>3
    <3> HIDE DEF d, r
    <3> QED
      BY <1>1, <3>1
  <2>2. y \in Int /\ d \in Int
    BY <1>1
  <2>3. y % m = y
    <3> HIDE DEF y
    <3> QED
      BY <2>1
  <2> HIDE DEF d, y
  <2>4. (y + m * d) % m = y % m
    <3>1. m > 0
      OBVIOUS
    <3> QED
      BY <2>2, <3>1, SameRemainder, Zenon
  <2>5. (len + 1) % m = y
    BY <2>1, <2>3, <2>4, Zenon
  <2> QED
    BY <1>3, <2>5, Zenon DEF y
<1> QED
  BY <1>2, <1>3, Zenon

(* Numbers less than m apart have different remainders.                    *)
LEMMA RemaindersDiffer ==
  ASSUME NEW m \in Nat, m > 1, NEW a \in Nat, NEW b \in Nat, a < b, b < a + m
  PROVE  a % m # b % m
<1>1. a \div m \in Int /\ a % m \in 0 .. m - 1 /\ a = m * (a \div m) + (a % m)
  BY QuotientOf
<1>2. b \div m \in Int /\ b % m \in 0 .. m - 1 /\ b = m * (b \div m) + (b % m)
  BY QuotientOf
<1> SUFFICES ASSUME a % m = b % m PROVE FALSE
  OBVIOUS
<1> DEFINE q == b \div m - a \div m
<1>3. q \in Int /\ b - a = m * q
  BY <1>1, <1>2
<1>4. b - a \in 0 .. m - 1 /\ 0 \in 0 .. m - 1 /\ (b - a) - 0 = m * q
  BY <1>3
<1>5. q = 0
  <2> HIDE DEF q
  <2> QED
    BY <1>3, <1>4, OnlyZero
<1> QED
  BY <1>3, <1>5

(* The place that the shell computes for the k-th last command.            *)
LEMMA PlaceOf ==
  ASSUME NEW m \in Nat, m > 1, NEW len \in Nat, NEW k \in 1 .. m - 1, k < len
  PROVE  ((len % m) + m - 2 - (k - 1)) % m = (len - k - 1) % m
<1> DEFINE d == len \div m
           r == len % m
           q == 1 - d
           y == len - k - 1
<1>1. d \in Int /\ r \in 0 .. m - 1 /\ len = m * d + r
  BY QuotientOf
<1>2. r + m - 2 - (k - 1) = y + m * q
  <2> HIDE DEF d, r
  <2> QED
    BY <1>1
<1>3. y \in Int /\ q \in Int
  <2> HIDE DEF d
  <2> QED
    BY <1>1
<1> HIDE DEF d, q, y
<1>4. (y + m * q) % m = y % m
  <2>1. m > 0
    OBVIOUS
  <2> QED
    BY <1>3, <2>1, SameRemainder, Zenon
<1> QED
  BY <1>2, <1>4, Zenon DEF y

(* What a process of the shell may be.                                     *)
ShellStates == Osh!Kinds \cup {"none", "prompt", "wait", "exec", "command", "ended", "reaped"}

(* The types of the variables of the shell, and 0 is nobody.               *)
LEMMA ShellTypes ==
  ASSUME Osh!ShellAssumption, Osh!TypeOK
  PROVE  /\ Slots \in Nat /\ Slots > 1 /\ MaxCommands \in Nat
         /\ IsFiniteSet(Processes) /\ 0 \notin Processes
         /\ state \in [Processes -> ShellStates]
         /\ parent \in [Processes -> Processes \cup {0}]
         /\ history \in [Processes -> [0 .. Slots - 1 -> 0 .. MaxCommands]]
         /\ index \in [Processes -> 0 .. Slots - 1] /\ flag \in [Processes -> BOOLEAN]
         /\ read \in [Processes -> Seq(1 .. MaxCommands)] /\ commands \in 0 .. MaxCommands
         /\ started \in [Processes -> {"none", "foreground", "background"}]
<1>1. IsFiniteSet(Processes)
  BY DEF Osh!ShellAssumption, Osh!IsFiniteSet, IsFiniteSet
<1>2. 0 \notin Processes
  <2>1. PICK c : Processes = 1 .. c
    BY DEF Osh!ShellAssumption
  <2>2. Cardinality(Processes) \in Nat
    BY <1>1, FS_CardinalityType
  <2>3. Osh!Cardinality(Processes) = Cardinality(Processes)
    BY DEF Osh!Cardinality, Cardinality, Osh!IsFiniteSet, IsFiniteSet
  <2>4. Processes = 1 .. Cardinality(Processes)
    BY <2>3 DEF Osh!ShellAssumption
  <2> QED
    BY <2>2, <2>4
<1> QED
  BY <1>1, <1>2 DEF Osh!ShellAssumption, Osh!TypeOK, ShellStates

(* Both sets of children are finite, whoever counts them.                  *)
LEMMA ChildrenFinite ==
  ASSUME Osh!ShellAssumption, Osh!TypeOK, NEW p
  PROVE  /\ IsFiniteSet(Osh!LeftOver(p)) /\ Cardinality(Osh!LeftOver(p)) \in Nat
         /\ IsFiniteSet(Osh!Taken(p)) /\ Cardinality(Osh!Taken(p)) \in Nat
         /\ Osh!Cardinality(Osh!LeftOver(p)) = Cardinality(Osh!LeftOver(p))
         /\ Osh!Cardinality(Osh!Taken(p)) = Cardinality(Osh!Taken(p))
<1>1. /\ IsFiniteSet(Processes)
      /\ Osh!LeftOver(p) \subseteq Processes /\ Osh!Taken(p) \subseteq Processes
  BY ShellTypes DEF Osh!LeftOver, Osh!Children, Osh!Taken
<1>2. IsFiniteSet(Osh!LeftOver(p)) /\ IsFiniteSet(Osh!Taken(p))
  BY <1>1, FS_Subset
<1>3. \A S : Osh!Cardinality(S) = Cardinality(S)
  BY DEF Osh!Cardinality, Cardinality, Osh!IsFiniteSet, IsFiniteSet
<1> QED
  BY <1>2, <1>3, FS_CardinalityType

(* What a step does: it reads a command, forks, waits, or moves one        *)
(* process that is not in wait().                                          *)
Still == UNCHANGED <<parent, history, index, flag, read, started, commands>>

(* Each step of the shell is one of these.                                 *)
LEMMA ShellMoves ==
  ASSUME Osh!ShellAssumption, ShellInv, Osh!Next
  PROVE  \E p \in Processes :
             \/ \E kind \in Osh!Kinds : Osh!ReadCommand(p, kind)
             \/ \E q \in Processes : Osh!Fork(p, q) \/ Osh!Wait(p, q)
             \/ \E s \in ShellStates \ {"none", "wait", "reaped"} :
                    /\ state[p] \notin {"none", "wait", "reaped"}
                    /\ state' = [state EXCEPT ![p] = s] /\ Still
<1>1. PICK p \in Processes :
         \/ \E kind \in Osh!Kinds : Osh!ReadCommand(p, kind)
         \/ Osh!ShowHistory(p) \/ Osh!Exit(p) \/ Osh!ForkFails(p)
         \/ \E q \in Processes : Osh!Fork(p, q) \/ Osh!Wait(p, q)
         \/ Osh!Exec(p) \/ Osh!CommandEnds(p)
  BY DEF Osh!Next
<1>2. CASE Osh!ShowHistory(p)
  BY <1>2 DEF Osh!ShowHistory, Still, ShellStates
<1>3. CASE Osh!Exit(p) \/ Osh!ForkFails(p) \/ Osh!CommandEnds(p)
  BY <1>3 DEF Osh!Exit, Osh!ForkFails, Osh!CommandEnds, Osh!Leaves, Still, ShellStates
<1>4. CASE Osh!Exec(p)
  <2>1. PICK s \in {"command", "prompt"} : state' = [state EXCEPT ![p] = s]
    BY <1>4 DEF Osh!Exec
  <2> QED
    BY <1>4, <2>1 DEF Osh!Exec, Still, ShellStates
<1> QED
  BY <1>1, <1>2, <1>3, <1>4

(* The types of the shell are kept.                                        *)
LEMMA ShellTypesStep ==
  ASSUME Osh!ShellAssumption, ShellInv, Osh!Next
  PROVE  Osh!TypeOK'
<1> SUFFICES /\ state' \in [Processes -> ShellStates]
             /\ parent' \in [Processes -> Processes \cup {0}]
             /\ history' \in [Processes -> [0 .. Slots - 1 -> 0 .. MaxCommands]]
             /\ index' \in [Processes -> 0 .. Slots - 1] /\ flag' \in [Processes -> BOOLEAN]
             /\ read' \in [Processes -> Seq(1 .. MaxCommands)]
             /\ commands' \in 0 .. MaxCommands
             /\ started' \in [Processes -> {"none", "foreground", "background"}]
  BY DEF Osh!TypeOK, ShellStates
<1>1. /\ Slots \in Nat /\ Slots > 1 /\ MaxCommands \in Nat
      /\ state \in [Processes -> ShellStates]
      /\ parent \in [Processes -> Processes \cup {0}]
      /\ history \in [Processes -> [0 .. Slots - 1 -> 0 .. MaxCommands]]
      /\ index \in [Processes -> 0 .. Slots - 1] /\ flag \in [Processes -> BOOLEAN]
      /\ read \in [Processes -> Seq(1 .. MaxCommands)] /\ commands \in 0 .. MaxCommands
      /\ started \in [Processes -> {"none", "foreground", "background"}]
  BY ShellTypes DEF ShellInv
<1>2. ASSUME NEW p \in Processes, NEW kind \in Osh!Kinds, Osh!ReadCommand(p, kind)
      PROVE  /\ state' \in [Processes -> ShellStates] /\ parent' = parent /\ started' = started
             /\ history' \in [Processes -> [0 .. Slots - 1 -> 0 .. MaxCommands]]
             /\ index' \in [Processes -> 0 .. Slots - 1] /\ flag' \in [Processes -> BOOLEAN]
             /\ read' \in [Processes -> Seq(1 .. MaxCommands)]
             /\ commands' \in 0 .. MaxCommands
  <2>1. commands' \in 1 .. MaxCommands
    BY <1>1, <1>2 DEF Osh!ReadCommand
  <2>2. Append(read[p], commands') \in Seq(1 .. MaxCommands)
    BY <1>1, <2>1
  <2>3. read' \in [Processes -> Seq(1 .. MaxCommands)]
    BY <1>1, <1>2, <2>2 DEF Osh!ReadCommand
  <2>4. history' \in [Processes -> [0 .. Slots - 1 -> 0 .. MaxCommands]]
    <3>1. [history[p] EXCEPT ![index[p]] = commands'] \in [0 .. Slots - 1 -> 0 .. MaxCommands]
      BY <1>1, <2>1
    <3>2. history' = [history EXCEPT ![p] = [history[p] EXCEPT ![index[p]] = commands']]
      BY <1>1, <1>2 DEF Osh!ReadCommand
    <3> QED
      BY <1>1, <3>1, <3>2
  <2>5. index' \in [Processes -> 0 .. Slots - 1]
    BY <1>1, <1>2 DEF Osh!ReadCommand
  <2>6. flag' \in [Processes -> BOOLEAN]
    BY <1>1, <1>2 DEF Osh!ReadCommand
  <2>7. state' \in [Processes -> ShellStates]
    BY <1>1, <1>2 DEF Osh!ReadCommand, ShellStates
  <2> QED
    BY <1>2, <2>1, <2>3, <2>4, <2>5, <2>6, <2>7 DEF Osh!ReadCommand
<1>3. ASSUME NEW p \in Processes, NEW q \in Processes, Osh!Fork(p, q)
      PROVE  /\ state' \in [Processes -> ShellStates]
             /\ parent' \in [Processes -> Processes \cup {0}]
             /\ history' \in [Processes -> [0 .. Slots - 1 -> 0 .. MaxCommands]]
             /\ index' \in [Processes -> 0 .. Slots - 1] /\ flag' \in [Processes -> BOOLEAN]
             /\ read' \in [Processes -> Seq(1 .. MaxCommands)]
             /\ commands' = commands
             /\ started' \in [Processes -> {"none", "foreground", "background"}]
  <2>1. Osh!Waits(state[p]) \in ShellStates /\ "exec" \in ShellStates
    BY DEF Osh!Waits, ShellStates
  <2>2. state' = [state EXCEPT ![p] = Osh!Waits(state[p]), ![q] = "exec"]
    BY <1>3 DEF Osh!Fork
  <2>3. state' \in [Processes -> ShellStates]
    BY <1>1, <2>1, <2>2
  <2>4. history' \in [Processes -> [0 .. Slots - 1 -> 0 .. MaxCommands]]
    BY <1>1, <1>3 DEF Osh!Fork
  <2>5. read' \in [Processes -> Seq(1 .. MaxCommands)]
    BY <1>1, <1>3 DEF Osh!Fork
  <2>6. index' \in [Processes -> 0 .. Slots - 1] /\ flag' \in [Processes -> BOOLEAN]
    BY <1>1, <1>3 DEF Osh!Fork
  <2>7. /\ parent' \in [Processes -> Processes \cup {0}]
        /\ started' \in [Processes -> {"none", "foreground", "background"}]
    BY <1>1, <1>3 DEF Osh!Fork
  <2> QED
    BY <1>3, <2>3, <2>4, <2>5, <2>6, <2>7 DEF Osh!Fork
<1>4. ASSUME NEW p \in Processes, NEW q \in Processes, Osh!Wait(p, q)
      PROVE  state' \in [Processes -> ShellStates] /\ Still
  BY <1>1, <1>4 DEF Osh!Wait, ShellStates, Still
<1>5. CASE state' \in [Processes -> ShellStates] /\ Still
  BY <1>1, <1>5 DEF Still
<1>6. PICK p \in Processes :
         \/ \E kind \in Osh!Kinds : Osh!ReadCommand(p, kind)
         \/ \E q \in Processes : Osh!Fork(p, q) \/ Osh!Wait(p, q)
         \/ \E s \in ShellStates \ {"none", "wait", "reaped"} :
                /\ state[p] \notin {"none", "wait", "reaped"}
                /\ state' = [state EXCEPT ![p] = s] /\ Still
  BY ShellMoves
<1>7. CASE \E s \in ShellStates : state' = [state EXCEPT ![p] = s] /\ Still
  BY <1>1, <1>5, <1>7
<1>8. CASE \E kind \in Osh!Kinds : Osh!ReadCommand(p, kind)
  BY <1>1, <1>2, <1>8
<1>9. CASE \E q \in Processes : Osh!Fork(p, q) \/ Osh!Wait(p, q)
  BY <1>1, <1>3, <1>4, <1>5, <1>9
<1> QED
  BY <1>6, <1>7, <1>8, <1>9

(* The ring of a shell that reads a command, forks, or is forked.          *)
LEMMA RingStep ==
  ASSUME Osh!ShellAssumption, ShellInv, Osh!Next, NEW r \in Processes
  PROVE  RingRight(r)'
<1>1. /\ Slots \in Nat /\ Slots > 1
      /\ history \in [Processes -> [0 .. Slots - 1 -> 0 .. MaxCommands]]
      /\ index \in [Processes -> 0 .. Slots - 1] /\ flag \in [Processes -> BOOLEAN]
      /\ read \in [Processes -> Seq(1 .. MaxCommands)]
  BY ShellTypes DEF ShellInv
<1>2. \A q \in Processes : RingRight(q)
  BY DEF ShellInv
<1>3. CASE \E q \in Processes : /\ history'[r] = history[q] /\ index'[r] = index[q]
                                /\ flag'[r] = flag[q] /\ read'[r] = read[q]
  BY <1>2, <1>3 DEF RingRight
<1>4. CASE Still
  BY <1>3, <1>4 DEF Still
<1>5. ASSUME NEW p \in Processes, NEW q \in Processes, Osh!Fork(p, q)
      PROVE  RingRight(r)'
  <2>1. CASE r = q
    BY <1>1, <1>3, <1>5, <2>1 DEF Osh!Fork
  <2>2. CASE r # q
    BY <1>1, <1>3, <1>5, <2>2 DEF Osh!Fork
  <2> QED
    BY <2>1, <2>2
<1>6. ASSUME NEW p \in Processes, NEW kind, Osh!ReadCommand(p, kind)
      PROVE  RingRight(r)'
  <2>1. CASE r # p
    BY <1>1, <1>3, <1>6, <2>1 DEF Osh!ReadCommand
  <2>2. CASE r = p
    <3> DEFINE len == Len(read[p])
    <3>1. /\ read[p] \in Seq(1 .. MaxCommands) /\ len \in Nat /\ index[p] \in 0 .. Slots - 1
          /\ history[p] \in [0 .. Slots - 1 -> 0 .. MaxCommands]
      BY <1>1, SMTT(30)
    <3>2. /\ index[p] = len % Slots /\ flag[p] = (len >= Slots)
          /\ \A i \in 1 .. len : len < i + Slots => history[p][(i - 1) % Slots] = read[p][i]
      BY <1>2 DEF RingRight
    <3>3. /\ read'[p] = Append(read[p], commands')
          /\ history'[p] = [history[p] EXCEPT ![index[p]] = commands']
          /\ index'[p] = IF index[p] = Slots - 1 THEN 0 ELSE index[p] + 1
          /\ flag'[p] = (flag[p] \/ index[p] = Slots - 1)
      BY <1>1, <1>6 DEF Osh!ReadCommand
    <3>4. /\ Len(read'[p]) = len + 1 /\ read'[p][len + 1] = commands'
          /\ \A i \in 1 .. len : read'[p][i] = read[p][i]
      BY <3>1, <3>3
    <3> DEFINE x == len % Slots
    <3>a. \A y \in 0 .. Slots - 1 : y % Slots = y
      BY <1>1, SmallRemainder
    <3>b. (len + 1) % Slots = IF x = Slots - 1 THEN 0 ELSE x + 1
      BY <1>1, <3>1, NextRemainder
    <3>c. x \in 0 .. Slots - 1 /\ index[p] = x
      BY <3>1, <3>2
    <3> HIDE DEF len
    <3>5. index'[p] = (len + 1) % Slots
      BY <3>3, <3>b, <3>c, Zenon
    <3>6. flag'[p] = (len + 1 >= Slots)
      <4>1. CASE len < Slots
        <5>1. len \in 0 .. Slots - 1
          BY <1>1, <3>1, <4>1
        <5>2. index[p] = len
          BY <3>a, <3>c, <5>1
        <5>3. flag[p] = FALSE
          BY <1>1, <3>1, <3>2, <4>1
        <5>4. flag'[p] = (len = Slots - 1)
          BY <3>3, <5>2, <5>3
        <5>5. len = Slots - 1 <=> len + 1 >= Slots
          BY <1>1, <5>1, SMTT(30)
        <5> QED
          BY <5>4, <5>5
      <4>2. CASE ~ (len < Slots)
        <5>1. flag[p] = TRUE /\ len + 1 >= Slots
          BY <1>1, <3>1, <3>2, <4>2
        <5> QED
          BY <3>3, <5>1
      <4> QED
        BY <4>1, <4>2
    <3>7. \A i \in 1 .. len + 1 :
             len + 1 < i + Slots => history'[p][(i - 1) % Slots] = read'[p][i]
      <4> SUFFICES ASSUME NEW i \in 1 .. len + 1, len + 1 < i + Slots
                   PROVE  history'[p][(i - 1) % Slots] = read'[p][i]
        OBVIOUS
      <4>1. CASE i = len + 1
        <5>1. i - 1 = len
          BY <3>1, <4>1
        <5>2. history'[p][index[p]] = commands'
          BY <3>1, <3>3
        <5> QED
          BY <3>2, <3>4, <4>1, <5>1, <5>2, Zenon
      <4>2. CASE i \in 1 .. len
        <5>1. i - 1 \in Nat /\ i - 1 < len /\ len < (i - 1) + Slots
          BY <1>1, <3>1, <4>2
        <5>2. (i - 1) % Slots # len % Slots
          BY <1>1, <3>1, <5>1, RemaindersDiffer
        <5>3. (i - 1) % Slots \in 0 .. Slots - 1
          <6>1. i - 1 \in Int /\ Slots > 0
            BY <1>1, <5>1
          <6> QED
            BY <1>1, <6>1, QuotientOf
        <5>4. len < i + Slots
          BY <1>1, <3>1, <4>2
        <5>5. history[p][(i - 1) % Slots] = read[p][i]
          BY <3>2, <4>2, <5>4
        <5>6. history'[p][(i - 1) % Slots] = history[p][(i - 1) % Slots]
          BY <3>1, <3>2, <3>3, <5>2, <5>3
        <5> QED
          BY <3>4, <4>2, <5>5, <5>6
      <4> QED
        BY <3>1, <4>1, <4>2
    <3> QED
      BY <2>2, <3>4, <3>5, <3>6, <3>7 DEF RingRight
  <2> QED
    BY <2>1, <2>2
<1> QED
  BY <1>4, <1>5, <1>6, ShellMoves DEF Osh!Wait, Still

(* The children of a process in the next state: fork() adds one, wait()    *)
(* takes one away, of whichever kind.                                      *)
LEMMA ChildrenStep ==
  ASSUME Osh!ShellAssumption, ShellInv, Osh!Next, NEW r \in Processes
  PROVE  ChildrenRight(r)'
<1> DEFINE L == Osh!LeftOver(r)
           T == Osh!Taken(r)
           LL == Osh!LeftOver(r)'
           TT == Osh!Taken(r)'
<1>1. /\ 0 \notin Processes /\ state \in [Processes -> ShellStates]
      /\ parent \in [Processes -> Processes \cup {0}]
      /\ started \in [Processes -> {"none", "foreground", "background"}]
  BY ShellTypes DEF ShellInv
<1>2. \A q \in Processes : state[q] = "none" => parent[q] = 0
  BY DEF ShellInv, ChildrenRight
<1>3. /\ IsFiniteSet(L) /\ Cardinality(L) \in Nat
      /\ IsFiniteSet(T) /\ Cardinality(T) \in Nat
      /\ Cardinality(L) = Cardinality(T) + Owed(r)
  BY ChildrenFinite DEF ShellInv, ChildrenRight
<1>4. \A q : /\ q \in L <=> /\ q \in Processes /\ parent[q] = r /\ state[q] # "reaped"
                            /\ started[q] # "background"
             /\ q \in T <=> /\ q \in Processes /\ parent[q] = r /\ state[q] = "reaped"
                            /\ started[q] = "background"
  BY DEF Osh!LeftOver, Osh!Children, Osh!Taken
<1>5. \A q : /\ q \in LL <=> /\ q \in Processes /\ parent'[q] = r /\ state'[q] # "reaped"
                             /\ started'[q] # "background"
             /\ q \in TT <=> /\ q \in Processes /\ parent'[q] = r /\ state'[q] = "reaped"
                             /\ started'[q] = "background"
  BY DEF Osh!LeftOver, Osh!Children, Osh!Taken
<1>6. ChildrenRight(r)' <=>
          /\ Cardinality(LL) = Cardinality(TT) + Owed(r)'
          /\ state'[r] = "none" => parent'[r] = 0
  BY DEF ChildrenRight
<1>7. /\ Owed(r) = IF state[r] = "wait" THEN 1 ELSE 0
      /\ Owed(r)' = IF state'[r] = "wait" THEN 1 ELSE 0
  BY DEF Owed
<1> HIDE DEF L, T, LL, TT
<1> DEFINE Same(x) ==
               /\ parent'[x] = r <=> parent[x] = r
               /\ parent[x] = r => /\ started'[x] = started[x]
                                   /\ state'[x] = "reaped" <=> state[x] = "reaped"
<1>8. ASSUME NEW S \in SUBSET Processes, \A x \in Processes \ S : Same(x)
      PROVE  LL \ S = L \ S /\ TT \ S = T \ S
  <2>1. \A x : x \in LL \ S <=> x \in L \ S
    BY <1>4, <1>5, <1>8
  <2>2. \A x : x \in TT \ S <=> x \in T \ S
    BY <1>4, <1>5, <1>8
  <2> QED
    BY <2>1, <2>2
<1>9. ASSUME \A x \in Processes : Same(x), state'[r] = "wait" <=> state[r] = "wait",
              state'[r] = "none" => parent'[r] = 0
       PROVE  ChildrenRight(r)'
  <2>1. LL = L /\ TT = T
    <3>1. LL \ {} = L \ {} /\ TT \ {} = T \ {}
      BY <1>8, <1>9
    <3> QED
      BY <3>1
  <2> QED
    BY <1>3, <1>6, <1>7, <1>9, <2>1
<1>10. ASSUME NEW p \in Processes, NEW s \in ShellStates \ {"none", "wait", "reaped"},
             state[p] \notin {"none", "wait", "reaped"}, state' = [state EXCEPT ![p] = s],
             parent' = parent, started' = started
      PROVE  ChildrenRight(r)'
  <2>1. \A x \in Processes : Same(x)
    BY <1>1, <1>10
  <2>2. /\ state'[r] = "wait" <=> state[r] = "wait"
        /\ state'[r] = "none" => parent'[r] = 0
    BY <1>1, <1>2, <1>10
  <2> QED
    BY <1>9, <2>1, <2>2
<1>11. ASSUME NEW p \in Processes, NEW kind \in Osh!Kinds, Osh!ReadCommand(p, kind)
       PROVE  ChildrenRight(r)'
  <2>1. kind \in ShellStates \ {"none", "wait", "reaped"}
    BY DEF ShellStates, Osh!Kinds
  <2> QED
    BY <1>10, <1>11, <2>1 DEF Osh!ReadCommand
<1>12. ASSUME NEW p \in Processes, NEW q \in Processes, Osh!Wait(p, q)
       PROVE  ChildrenRight(r)'
  <2>1. /\ state[p] = "wait" /\ state[q] = "ended" /\ parent[q] = p /\ p # q
        /\ parent' = parent /\ started' = started
    BY <1>12 DEF Osh!Wait, Osh!Children
  <2>2. /\ state'[p] = "prompt" /\ state'[q] = "reaped"
        /\ \A x \in Processes : x # p /\ x # q => state'[x] = state[x]
    <3>1. state' = [state EXCEPT ![p] = "prompt", ![q] = "reaped"]
      BY <1>12 DEF Osh!Wait
    <3> QED
      BY <1>1, <2>1, <3>1
  <2>3. state'[r] = "none" => parent'[r] = 0
    BY <1>2, <2>1, <2>2
  <2>4. \A x \in Processes \ {q} : Same(x)
    BY <2>1, <2>2
  <2>5. LL \ {q} = L \ {q} /\ TT \ {q} = T \ {q}
    <3>1. {q} \in SUBSET Processes
      OBVIOUS
    <3> HIDE DEF Same
    <3> QED
      BY <1>8, <2>4, <3>1
  <2>6. CASE r # p
    <3>1. Same(q)
      BY <2>1, <2>6
    <3>2. state'[r] = "wait" <=> state[r] = "wait"
      BY <2>1, <2>2, <2>6
    <3> QED
      BY <1>9, <2>3, <2>4, <3>1, <3>2
  <2>7. ASSUME r = p PROVE Owed(r) = 1 /\ Owed(r)' = 0
    BY <1>7, <2>1, <2>2, <2>7
  <2>8. CASE r = p /\ started[q] = "background"
    <3>1. q \notin L /\ q \notin LL /\ q \notin T /\ q \in TT
      BY <1>4, <1>5, <2>1, <2>2, <2>8
    <3>2. LL = L /\ TT = T \cup {q}
      BY <2>5, <3>1
    <3>3. Cardinality(TT) = Cardinality(T) + 1
      BY <1>3, <3>1, <3>2, FS_AddElement
    <3> QED
      BY <1>3, <1>6, <2>3, <2>7, <2>8, <3>2, <3>3
  <2>9. CASE r = p /\ started[q] # "background"
    <3>1. q \in L /\ q \notin LL /\ q \notin T /\ q \notin TT
      BY <1>4, <1>5, <2>1, <2>2, <2>9
    <3>2. LL = L \ {q} /\ TT = T
      BY <2>5, <3>1
    <3>3. Cardinality(LL) = Cardinality(L) - 1
      BY <1>3, <3>1, <3>2, FS_RemoveElement
    <3> QED
      BY <1>3, <1>6, <2>3, <2>7, <2>9, <3>2, <3>3
  <2> QED
    BY <2>6, <2>8, <2>9
<1>13. ASSUME NEW p \in Processes, NEW q \in Processes, Osh!Fork(p, q)
       PROVE  ChildrenRight(r)'
  <2>1. /\ state[p] \in {"foreground", "background"} /\ state[q] = "none" /\ p # q
        /\ state' = [state EXCEPT ![p] = Osh!Waits(state[p]), ![q] = "exec"]
        /\ parent' = [parent EXCEPT ![q] = p]
        /\ started' = [started EXCEPT ![q] = state[p]]
    BY <1>13 DEF Osh!Fork
  <2>2. /\ state'[p] = IF state[p] = "foreground" THEN "wait" ELSE "prompt"
        /\ state'[q] = "exec" /\ parent'[q] = p
        /\ started'[q] = state[p]
        /\ \A x \in Processes : x # q => /\ parent'[x] = parent[x]
                                         /\ started'[x] = started[x]
                                         /\ x # p => state'[x] = state[x]
    BY <1>1, <2>1 DEF Osh!Waits
  <2>3. parent[q] = 0 /\ r # 0
    BY <1>1, <1>2, <2>1
  <2>4. state'[r] = "none" => parent'[r] = 0
    <3>1. CASE r \in {p, q}
      BY <2>2, <3>1
    <3>2. CASE r \notin {p, q}
      BY <1>2, <2>2, <3>2
    <3> QED
      BY <3>1, <3>2
  <2>5. \A x \in Processes \ {q} : Same(x)
    BY <1>1, <2>1, <2>2
  <2>6. LL \ {q} = L \ {q} /\ TT \ {q} = T \ {q}
    <3>1. {q} \in SUBSET Processes
      OBVIOUS
    <3> HIDE DEF Same
    <3> QED
      BY <1>8, <2>5, <3>1
  <2>7. CASE r # p
    <3>1. Same(q)
      BY <2>2, <2>3, <2>7
    <3>2. state'[r] = "wait" <=> state[r] = "wait"
      BY <2>1, <2>2, <2>7
    <3> QED
      BY <1>9, <2>4, <2>5, <3>1, <3>2
  <2>8. q \notin L /\ q \notin T
    BY <1>4, <2>3
  <2>9. CASE r = p /\ state[p] = "background"
    <3>1. q \notin LL /\ q \notin TT
      BY <1>5, <2>2, <2>9
    <3>2. LL = L /\ TT = T
      BY <2>6, <2>8, <3>1
    <3>3. Owed(r) = 0 /\ Owed(r)' = 0
      BY <1>7, <2>1, <2>2, <2>9
    <3> QED
      BY <1>3, <1>6, <2>4, <3>2, <3>3
  <2>10. CASE r = p /\ state[p] = "foreground"
    <3>1. q \in LL /\ q \notin TT
      BY <1>5, <2>2, <2>10
    <3>2. LL = L \cup {q} /\ TT = T
      BY <2>6, <2>8, <3>1
    <3>3. Cardinality(LL) = Cardinality(L) + 1
      BY <1>3, <2>8, <3>2, FS_AddElement
    <3>4. Owed(r) = 0 /\ Owed(r)' = 1
      BY <1>7, <2>1, <2>2, <2>10
    <3> QED
      BY <1>3, <1>6, <2>4, <3>2, <3>3, <3>4
  <2> QED
    BY <2>1, <2>7, <2>9, <2>10
<1>14. PICK p \in Processes :
         \/ \E kind \in Osh!Kinds : Osh!ReadCommand(p, kind)
         \/ \E q \in Processes : Osh!Fork(p, q) \/ Osh!Wait(p, q)
         \/ \E s \in ShellStates \ {"none", "wait", "reaped"} :
                /\ state[p] \notin {"none", "wait", "reaped"}
                /\ state' = [state EXCEPT ![p] = s] /\ Still
  BY ShellMoves
<1>15. CASE \E s \in ShellStates \ {"none", "wait", "reaped"} :
                /\ state[p] \notin {"none", "wait", "reaped"}
                /\ state' = [state EXCEPT ![p] = s] /\ Still
  BY <1>10, <1>15 DEF Still
<1> QED
  BY <1>11, <1>12, <1>13, <1>14, <1>15

(* The shell that is started.                                              *)
LEMMA ShellInit ==
  ASSUME Osh!ShellAssumption, Osh!Init
  PROVE  ShellInv
<1>1. /\ Slots \in Nat /\ Slots > 1 /\ MaxCommands \in Nat
  BY DEF Osh!ShellAssumption
<1>2. Osh!TypeOK
  <2>1. <<>> \in Seq(1 .. MaxCommands)
    OBVIOUS
  <2>2. [k \in 0 .. Slots - 1 |-> 0] \in [0 .. Slots - 1 -> 0 .. MaxCommands]
    BY <1>1
  <2>3. history \in [Processes -> [0 .. Slots - 1 -> 0 .. MaxCommands]]
    BY <2>2 DEF Osh!Init
  <2>4. read \in [Processes -> Seq(1 .. MaxCommands)]
    BY <2>1 DEF Osh!Init
  <2>5. /\ index \in [Processes -> 0 .. Slots - 1] /\ flag \in [Processes -> BOOLEAN]
        /\ commands \in 0 .. MaxCommands
        /\ started \in [Processes -> {"none", "foreground", "background"}]
        /\ parent \in [Processes -> Processes \cup {0}]
    BY <1>1 DEF Osh!Init
  <2>6. state \in [Processes -> ShellStates]
    BY DEF Osh!Init, ShellStates
  <2> QED
    BY <2>3, <2>4, <2>5, <2>6 DEF Osh!TypeOK, ShellStates
<1>3. ASSUME NEW p \in Processes PROVE RingRight(p)
  <2>1. 0 % Slots = 0
    <3>1. 0 \in 0 .. Slots - 1
      BY <1>1
    <3> QED
      BY <1>1, <3>1, SmallRemainder
  <2>2. read[p] = <<>> /\ Len(read[p]) = 0 /\ index[p] = 0 /\ flag[p] = FALSE
    BY DEF Osh!Init
  <2>3. (0 >= Slots) = FALSE
    BY <1>1
  <2>4. 1 .. Len(read[p]) = {}
    BY <2>2
  <2> QED
    <3>1. flag[p] = (Len(read[p]) >= Slots)
      BY <2>2, <2>3, Zenon
    <3>2. index[p] = Len(read[p]) % Slots
      BY <2>1, <2>2, Zenon
    <3> QED
      BY <2>4, <3>1, <3>2, Zenon DEF RingRight
<1>4. ASSUME NEW p \in Processes PROVE ChildrenRight(p)
  <2>1. 0 \notin Processes
    BY <1>2, ShellTypes
  <2>2. Osh!LeftOver(p) = {} /\ Osh!Taken(p) = {}
    BY <2>1 DEF Osh!LeftOver, Osh!Children, Osh!Taken, Osh!Init
  <2>3. Cardinality(Osh!LeftOver(p)) = 0 /\ Cardinality(Osh!Taken(p)) = 0
    BY <2>2, FS_EmptySet
  <2>4. parent[p] = 0 /\ Owed(p) = 0
    BY DEF Osh!Init, Owed
  <2> QED
    BY <2>3, <2>4 DEF ChildrenRight
<1> QED
  BY <1>2, <1>3, <1>4 DEF ShellInv

(* What ShellInv says of the shell holds whatever the shells run.          *)
THEOREM ShellRight == Spec => []ShellInv
<1> USE ProcessesAssumption DEF ProcessesAssumption
<1>1. Init => ShellInv
  BY ShellInit DEF Init
<1>2. ShellInv /\ [Next]_vars => ShellInv'
  <2> SUFFICES ASSUME ShellInv, [Next]_vars PROVE ShellInv'
    OBVIOUS
  <2>1. CASE InShell /\ Osh!Next
    BY <2>1, ShellTypesStep, RingStep, ChildrenStep DEF ShellInv
  <2>2. CASE UNCHANGED shellVars
    <3>1. UNCHANGED <<state, parent, history, index, flag, read, started, commands>>
      BY <2>2 DEF shellVars
    <3>2. Osh!TypeOK'
      BY <3>1 DEF ShellInv, Osh!TypeOK
    <3>3. \A p : Osh!LeftOver(p)' = Osh!LeftOver(p) /\ Osh!Taken(p)' = Osh!Taken(p)
      BY <3>1 DEF Osh!LeftOver, Osh!Children, Osh!Taken
    <3>4. \A p \in Processes : RingRight(p)'
      BY <3>1 DEF ShellInv, RingRight
    <3>5. \A p \in Processes : ChildrenRight(p)'
      BY <3>1, <3>3 DEF ShellInv, ChildrenRight, Owed
    <3> QED
      BY <3>2, <3>4, <3>5 DEF ShellInv
  <2> QED
    BY <2>1, <2>2 DEF Next, vars, InSieve, InFork, InXargs, InFind
<1> QED
  BY <1>1, <1>2, PTL DEF Spec

(* "history" lists the last commands, newest first.                        *)
LEMMA ListingIs ==
  ASSUME Osh!ShellAssumption, ShellInv
  PROVE  Osh!HistoryRecent
<1>1. /\ Slots \in Nat /\ Slots > 1
      /\ history \in [Processes -> [0 .. Slots - 1 -> 0 .. MaxCommands]]
      /\ read \in [Processes -> Seq(1 .. MaxCommands)]
  BY ShellTypes DEF ShellInv
<1> SUFFICES ASSUME NEW p \in Processes
             PROVE  LET earlier == Len(read[p]) - 1
                        shown == IF earlier < Slots THEN earlier ELSE Slots - 1
                    IN  Osh!Listing(p) = [k \in 1 .. shown |-> read[p][earlier + 1 - k]]
  BY DEF Osh!HistoryRecent
<1> DEFINE len == Len(read[p])
           shown == IF len - 1 < Slots THEN len - 1 ELSE Slots - 1
<1>2. /\ len \in Nat /\ index[p] = len % Slots /\ flag[p] = (len >= Slots)
      /\ \A i \in 1 .. len : len < i + Slots => history[p][(i - 1) % Slots] = read[p][i]
  BY <1>1 DEF ShellInv, RingRight
<1>3. Osh!Listing(p) =
        IF flag[p] THEN [k \in 1 .. Slots - 1 |-> history[p][Osh!Place(p, k - 1)]]
        ELSE [k \in 1 .. index[p] - 1 |-> history[p][index[p] - 1 - k]]
  BY DEF Osh!Listing
<1>4. SUFFICES Osh!Listing(p) = [k \in 1 .. shown |-> read[p][(len - 1) + 1 - k]]
  OBVIOUS
<1> HIDE DEF len
<1>5. ASSUME NEW k \in 1 .. Slots - 1, k < len
      PROVE  history[p][(len - k - 1) % Slots] = read[p][(len - 1) + 1 - k]
  <2>1. len - k \in 1 .. len /\ len < (len - k) + Slots
    BY <1>1, <1>2, <1>5
  <2>2. history[p][((len - k) - 1) % Slots] = read[p][len - k]
    BY <1>2, <2>1
  <2>3. (len - 1) + 1 - k = len - k
    BY <1>2
  <2> QED
    BY <2>2, <2>3, Zenon
<1>6. CASE len >= Slots
  <2>1. shown = Slots - 1
    BY <1>1, <1>2, <1>6
  <2>2. ASSUME NEW k \in 1 .. Slots - 1
        PROVE  history[p][Osh!Place(p, k - 1)] = read[p][(len - 1) + 1 - k]
    <3>1. k < len
      BY <1>1, <1>2, <1>6
    <3>2. ((len % Slots) + Slots - 2 - (k - 1)) % Slots = (len - k - 1) % Slots
      BY <1>1, <1>2, <3>1, PlaceOf
    <3>3. Osh!Place(p, k - 1) = (len - k - 1) % Slots
      BY <1>2, <3>2, Zenon DEF Osh!Place
    <3> QED
      BY <1>5, <3>1, <3>3, Zenon
  <2>3. flag[p] = TRUE
    BY <1>2, <1>6
  <2> HIDE DEF shown
  <2> QED
    BY <1>3, <2>1, <2>2, <2>3
<1>7. CASE ~ (len >= Slots)
  <2>1. len \in 0 .. Slots - 1 /\ shown = len - 1
    BY <1>1, <1>2, <1>7
  <2>2. index[p] = len
    BY <1>1, <1>2, <2>1, SmallRemainder, Zenon
  <2>3. ASSUME NEW k \in 1 .. len - 1
        PROVE  history[p][len - 1 - k] = read[p][(len - 1) + 1 - k]
    <3>1. k \in 1 .. Slots - 1 /\ k < len /\ len - k - 1 \in 0 .. Slots - 1 /\ len - 1 - k = len - k - 1
      BY <1>1, <1>2, <2>1
    <3>2. (len - k - 1) % Slots = len - k - 1
      BY <1>1, <3>1, SmallRemainder, Zenon
    <3> QED
      BY <1>5, <3>1, <3>2, Zenon
  <2>4. flag[p] = FALSE
    <3>1. flag[p] = (len >= Slots)
      BY <1>2
    <3>2. (len >= Slots) = FALSE
      BY <1>1, <1>2, <1>7
    <3> QED
      BY <3>1, <3>2, Zenon
  <2> HIDE DEF shown
  <2> QED
    BY <1>3, <2>1, <2>2, <2>3, <2>4
<1> QED
  BY <1>6, <1>7

(* project1.c of chapter 3: the history is that of the last commands, over *)
(* the end of its ring; and a shell at its prompt has as many commands in  *)
(* the foreground left over as its waits have taken of the background.     *)
THEOREM ShellPrompts == Spec => []ShellKeepsUp
<1> USE ProcessesAssumption DEF ProcessesAssumption
<1>1. ShellInv => ShellKeepsUp
  <2> SUFFICES ASSUME ShellInv PROVE Osh!WaitsForOne
    BY ListingIs DEF ShellKeepsUp
  <2> SUFFICES ASSUME NEW p \in Processes
               PROVE  Osh!Cardinality(Osh!LeftOver(p)) = Osh!Cardinality(Osh!Taken(p)) + Owed(p)
    BY ChildrenFinite DEF Osh!WaitsForOne, Owed, ShellInv
  <2> QED
    BY ChildrenFinite DEF ShellInv, ChildrenRight
<1> QED
  BY <1>1, ShellRight, PTL

-----------------------------------------------------------------------------
(* find.c.  The equation that Above solves: who is above whom in a tree of *)
(* k entries.                                                              *)
Ups(p, f, k) == f = [x \in 0 .. k |-> IF x = 0 THEN {} ELSE {x} \cup f[p[x]]]

(* A tree whose entries follow their parents has such a function.          *)
LEMMA UpsExist ==
  ASSUME NEW k \in Nat, NEW p, \A x \in 1 .. k : p[x] \in 0 .. x - 1
  PROVE  \E f : Ups(p, f, k)
<1> DEFINE T == {m \in Nat : m <= k => \E f : Ups(p, f, m)}
<1>1. 0 \in T
  <2> DEFINE f == [x \in 0 .. 0 |-> {}]
  <2>1. Ups(p, f, 0)
    BY DEF Ups
  <2> QED
    BY <2>1
<1>2. ASSUME NEW m \in T PROVE m + 1 \in T
  <2> SUFFICES ASSUME m + 1 <= k PROVE \E g : Ups(p, g, m + 1)
    OBVIOUS
  <2>1. PICK f : Ups(p, f, m)
    OBVIOUS
  <2> DEFINE g == [x \in 0 .. m + 1 |-> IF x <= m THEN f[x] ELSE {m + 1} \cup f[p[m + 1]]]
  <2>2. \A x \in 0 .. m : g[x] = f[x]
    OBVIOUS
  <2>3. p[m + 1] \in 0 .. m /\ \A x \in 1 .. m : p[x] \in 0 .. m
    OBVIOUS
  <2>4. \A x \in 0 .. m : f[x] = IF x = 0 THEN {} ELSE {x} \cup f[p[x]]
    BY <2>1 DEF Ups
  <2>5. \A x \in 0 .. m + 1 : g[x] = IF x = 0 THEN {} ELSE {x} \cup g[p[x]]
    <3> SUFFICES ASSUME NEW x \in 0 .. m + 1
                 PROVE  g[x] = IF x = 0 THEN {} ELSE {x} \cup g[p[x]]
      OBVIOUS
    <3>1. CASE x = m + 1
      <4>1. g[x] = {m + 1} \cup f[p[m + 1]]
        BY <3>1
      <4>2. g[p[m + 1]] = f[p[m + 1]]
        BY <2>2, <2>3
      <4> HIDE DEF g
      <4> QED
        BY <3>1, <4>1, <4>2
    <3>2. CASE x \in 0 .. m
      <4>1. x # 0 => g[p[x]] = f[p[x]]
        BY <2>2, <2>3, <3>2
      <4>2. g[x] = f[x]
        BY <2>2, <3>2
      <4> HIDE DEF g
      <4> QED
        BY <2>4, <3>2, <4>1, <4>2
    <3> QED
      BY <3>1, <3>2
  <2>6. DOMAIN g = 0 .. m + 1 /\ g = [x \in DOMAIN g |-> g[x]]
    OBVIOUS
  <2> HIDE DEF g
  <2>7. g = [x \in 0 .. m + 1 |-> IF x = 0 THEN {} ELSE {x} \cup g[p[x]]]
    BY <2>5, <2>6
  <2> QED
    BY <2>7 DEF Ups
<1>3. T \in SUBSET Nat
  OBVIOUS
<1> HIDE DEF T
<1>4. T = Nat
  BY <1>1, <1>2, <1>3, Inductive
<1>5. k \in T
  BY <1>4
<1> QED
  BY <1>5 DEF T

(* Above is that function.                                                 *)
LEMMA AboveIs ==
  ASSUME NEW k \in Nat, NEW p, \A x \in 1 .. k : p[x] \in 0 .. x - 1,
         NEW f, Ups(p, f, k)
  PROVE  \A e \in 0 .. k : Fnd!Above(p, e) = f[e]
<1> SUFFICES ASSUME NEW e \in 0 .. k PROVE Fnd!Above(p, e) = f[e]
  OBVIOUS
<1> DEFINE g == CHOOSE g : g = [x \in 0 .. e |-> IF x = 0 THEN {} ELSE {x} \cup g[p[x]]]
<1>1. Fnd!Above(p, e) = g[e]
  BY DEF Fnd!Above
<1>2. Ups(p, g, e)
  <2>1. e \in Nat /\ \A x \in 1 .. e : p[x] \in 0 .. x - 1
    OBVIOUS
  <2>2. \E h : Ups(p, h, e)
    BY <2>1, UpsExist
  <2> QED
    BY <2>2 DEF Ups
<1> HIDE DEF g
<1>3. \A x \in 0 .. e : g[x] = IF x = 0 THEN {} ELSE {x} \cup g[p[x]]
  BY <1>2 DEF Ups
<1>4. \A x \in 0 .. k : f[x] = IF x = 0 THEN {} ELSE {x} \cup f[p[x]]
  BY DEF Ups
<1> DEFINE T == {m \in Nat : \A x \in 0 .. m : x <= e => g[x] = f[x]}
<1>5. 0 \in T
  <2>a. 0 \in 0 .. e /\ 0 \in 0 .. k
    OBVIOUS
  <2>b. g[0] = {}
    BY <1>3, <2>a
  <2>c. f[0] = {}
    BY <1>4, <2>a
  <2>1. g[0] = {} /\ f[0] = {}
    BY <2>b, <2>c
  <2> QED
    BY <2>1
<1>6. ASSUME NEW m \in T PROVE m + 1 \in T
  <2> SUFFICES ASSUME NEW x \in 0 .. m + 1, x <= e PROVE g[x] = f[x]
    OBVIOUS
  <2>1. CASE x \in 0 .. m
    BY <2>1
  <2>2. CASE x = m + 1
    <3>1. p[x] \in 0 .. m /\ p[x] <= e /\ x \in 0 .. e /\ x \in 0 .. k /\ x # 0
      BY <2>2
    <3>2. g[p[x]] = f[p[x]]
      BY <3>1
    <3>3. g[x] = {x} \cup g[p[x]]
      BY <1>3, <3>1
    <3>4. f[x] = {x} \cup f[p[x]]
      BY <1>4, <3>1
    <3> QED
      BY <3>2, <3>3, <3>4
  <2> QED
    BY <2>1, <2>2
<1>7. T \in SUBSET Nat
  OBVIOUS
<1> HIDE DEF T
<1>8. e \in T
  BY <1>5, <1>6, <1>7, Inductive
<1>9. g[e] = f[e]
  BY <1>8 DEF T
<1> QED
  BY <1>1, <1>9

(* An entry is above those that follow it up to the end of its subtree:    *)
(* in a tree numbered as a walk meets its entries no entry between a       *)
(* directory and an entry in it has a parent before the directory.         *)
LEMMA SubtreesAreWhole ==
  ASSUME NEW k \in Nat, NEW p, \A x \in 1 .. k : p[x] \in 0 .. x - 1,
         \A x \in 2 .. k : p[x] # 0 /\ p[x] \in Fnd!Above(p, x - 1)
  PROVE  \A e \in 2 .. k : \A z \in p[e] + 1 .. e : p[z] >= p[e]
<1>1. PICK f : Ups(p, f, k)
  BY UpsExist
<1>2. \A e \in 0 .. k : Fnd!Above(p, e) = f[e]
  BY <1>1, AboveIs
<1>3. /\ f[0] = {}
      /\ \A x \in 1 .. k : f[x] = {x} \cup f[p[x]]
  <2>1. \A x \in 0 .. k : f[x] = IF x = 0 THEN {} ELSE {x} \cup f[p[x]]
    BY <1>1 DEF Ups
  <2>2. 0 \in 0 .. k /\ \A x \in 1 .. k : x \in 0 .. k /\ x # 0
    OBVIOUS
  <2> QED
    BY <2>1, <2>2
<1> DEFINE Over(m) == \A h \in f[m] : h \in 1 .. m /\ f[h] \subseteq f[m]
           Whole(m) == \A h \in f[m] : \A z \in h + 1 .. m : p[z] >= h
           T == {m \in Nat : \A x \in 0 .. m : x <= k => Over(x) /\ Whole(x)}
<1>4. 0 \in T
  BY <1>3
<1>5. ASSUME NEW m \in T PROVE m + 1 \in T
  <2> DEFINE n1 == m + 1
             q == p[n1]
  <2> SUFFICES ASSUME n1 <= k PROVE Over(n1) /\ Whole(n1)
    OBVIOUS
  <2>1. m \in Nat /\ n1 \in 1 .. k /\ q \in 0 .. m /\ m \in 0 .. k /\ q \in 0 .. k
    OBVIOUS
  <2>2. Over(q) /\ Whole(q) /\ Over(m) /\ Whole(m)
    BY <2>1
  <2>3. f[n1] = {n1} \cup f[q]
    BY <1>3, <2>1
  <2>4. q # 0 => q \in f[m]
    <3> SUFFICES ASSUME q # 0 PROVE q \in f[m]
      OBVIOUS
    <3>1. n1 \in 2 .. k
      BY <2>1
    <3>2. q \in Fnd!Above(p, n1 - 1) /\ n1 - 1 = m
      BY <3>1
    <3> QED
      BY <1>2, <2>1, <3>2
  <2>5. f[q] \subseteq f[m]
    BY <1>3, <2>2, <2>4
  <2> HIDE DEF n1, q
  <2>6. Over(n1)
    BY <2>1, <2>2, <2>3
  <2>7. ASSUME NEW h \in f[n1], NEW z \in h + 1 .. n1 PROVE p[z] >= h
    <3>1. CASE h = n1
      BY <2>1, <3>1
    <3>2. CASE h \in f[q]
      <4>1. h \in 1 .. q /\ h \in f[m]
        BY <2>2, <2>5, <3>2
      <4>2. CASE z = n1
        BY <2>1, <4>1, <4>2 DEF q
      <4>3. CASE z # n1
        <5>1. z \in h + 1 .. m
          BY <2>1, <4>1, <4>3 DEF n1
        <5> QED
          BY <2>2, <4>1, <5>1
      <4> QED
        BY <4>2, <4>3
    <3> QED
      BY <2>3, <3>1, <3>2
  <2> QED
    BY <2>6, <2>7
<1>6. T \in SUBSET Nat
  OBVIOUS
<1>7. T = Nat
  <2> HIDE DEF T
  <2> QED
    BY <1>4, <1>5, <1>6, Inductive
<1> SUFFICES ASSUME NEW e \in 2 .. k, NEW z \in p[e] + 1 .. e PROVE p[z] >= p[e]
  OBVIOUS
<1>8. p[e] \in f[e - 1] /\ p[e] \in 1 .. e - 1 /\ e - 1 \in 0 .. k /\ e - 1 \in Nat
  BY <1>2
<1>9. Whole(e - 1)
  <2>1. e - 1 \in T
    BY <1>7, <1>8
  <2> QED
    BY <1>8, <2>1
<1>10. CASE z = e
  BY <1>8, <1>10
<1>11. CASE z \in p[e] + 1 .. e - 1
  BY <1>8, <1>9, <1>11
<1> QED
  BY <1>8, <1>10, <1>11

(* The walk.  Its entry is the last one that a directory gave; it is       *)
(* pending until it has been looked at, or opened.                         *)
Pending == findPc \in {"open", "stat"}
OnStack == {stack[i] : i \in 1 .. Len(stack)}

TreeRight == Len(tree.kind) \in Nat \ {0} /\ tree \in Fnd!TreesOf(Len(tree.kind))

(* The directories of the calls lie inside of each other.                  *)
StackRight ==
    /\ \A i \in 1 .. Len(stack) :
           /\ tree.kind[stack[i]] = "dir" /\ stack[i] <= entry
           /\ Pending => stack[i] < entry
    /\ \A i, j \in 1 .. Len(stack) : i < j => stack[j] < stack[i]
    /\ findPc \in {"read", "stat"} => stack # <<>>
    /\ findPc = "open" => tree.kind[entry] = "dir" \/ entry = 1
    /\ findPc # "exit" => findStatus = 0
    /\ findPc = "exit" /\ findStatus = 0 => stack = <<>>

(* What is ahead of the walk is in a directory that is open, or that is    *)
(* ahead of it, too; a directory that is not empty is not unlinked.        *)
Ahead ==
    /\ \A x \in Fnd!Entries \ gone : x > 1 => tree.parent[x] \notin gone
    /\ findStatus = 0 =>
           \A x \in Fnd!Entries \ gone :
               x > entry =>
                   \/ tree.parent[x] > entry \/ tree.parent[x] \in OnStack
                   \/ Pending /\ tree.parent[x] = entry

(* What is behind it has been printed, if it has the name and is there.    *)
Behind ==
    /\ \A k \in 1 .. Len(found) :
           /\ found[k] \in Fnd!Matching /\ found[k] <= entry
           /\ Pending => found[k] < entry
    /\ \A k \in 2 .. Len(found) : found[k - 1] < found[k]
    /\ findStatus = 0 =>
           \A x \in Fnd!Matching \ gone :
               x < entry \/ (x = entry /\ ~Pending) => x \in Fnd!Printed

(* No directory is opened twice.                                           *)
Opened == {d \in Fnd!Directories : d < entry \/ (d = entry /\ ~Pending)}

Reason ==
    \/ Fnd!Standard + Cardinality(Fnd!Directories) >= Descriptors
    \/ \E d \in Fnd!Directories : ~Fnd!HasRoom(d)
    \/ gone # {} \/ 1 \notin Fnd!Directories

FindInv ==
    /\ Fnd!TypeOK /\ TreeRight /\ StackRight /\ Ahead /\ Behind
    /\ open <= Cardinality(Opened) /\ (findStatus = 1 => Reason)

(* A tree as the walk needs it: parents come first and are directories,    *)
(* and subtrees are whole.                                                 *)
LEMMA TreeIs ==
  ASSUME TreeRight
  PROVE  LET k == Len(tree.kind) IN
         /\ k \in Nat /\ k >= 1 /\ Fnd!Entries = 1 .. k
         /\ tree.parent[1] = 0
         /\ \A x \in 2 .. k : /\ tree.parent[x] \in 1 .. x - 1
                              /\ tree.kind[tree.parent[x]] = "dir"
         /\ \A e \in 2 .. k : \A z \in tree.parent[e] + 1 .. e : tree.parent[z] >= tree.parent[e]
<1> DEFINE k == Len(tree.kind)
           p == tree.parent
<1>1. k \in Nat /\ k >= 1
  BY DEF TreeRight
<1>2. tree \in Fnd!TreesOf(k)
  BY DEF TreeRight
<1> HIDE DEF k
<1>3. /\ p \in [1 .. k -> 0 .. k - 1] /\ p[1] = 0
      /\ \A e \in 2 .. k : p[e] \in 1 .. e - 1 /\ p[e] \in Fnd!Above(p, e - 1)
      /\ tree.kind \in [1 .. k -> {"dir", "match", "other"}]
      /\ \A e \in 2 .. k : tree.kind[p[e]] = "dir"
  BY <1>2 DEF Fnd!TreesOf
<1>4. Fnd!Entries = 1 .. k
  BY <1>3 DEF Fnd!Entries
<1>5. \A x \in 1 .. k : p[x] \in 0 .. x - 1
  <2> SUFFICES ASSUME NEW x \in 1 .. k PROVE p[x] \in 0 .. x - 1
    OBVIOUS
  <2>1. CASE x = 1
    BY <1>3, <2>1
  <2>2. CASE x \in 2 .. k
    BY <1>3, <2>2
  <2> QED
    BY <1>1, <2>1, <2>2
<1>6. \A x \in 2 .. k : p[x] # 0 /\ p[x] \in Fnd!Above(p, x - 1)
  BY <1>3
<1>7. \A e \in 2 .. k : \A z \in p[e] + 1 .. e : p[z] >= p[e]
  <2> HIDE DEF p
  <2> QED
    BY <1>1, <1>5, <1>6, SubtreesAreWhole
<1> QED
  BY <1>1, <1>3, <1>4, <1>7 DEF k

(* The types of the walk, and its entries as numbers.                      *)
LEMMA FindTypes ==
  ASSUME Fnd!FindAssumption, FindInv
  PROVE  LET k == Len(tree.kind) IN
         /\ k \in Nat /\ k >= 1 /\ Fnd!Entries = 1 .. k /\ gone \subseteq 1 .. k
         /\ entry \in 1 .. k /\ findPc \in {"open", "read", "stat", "exit"}
         /\ stack \in Seq(1 .. k) /\ found \in Seq(1 .. k)
         /\ open \in 0 .. Descriptors - 3 /\ Descriptors \in Nat /\ Descriptors > 3
         /\ findStatus \in {0, 1}
         /\ Fnd!Matching \subseteq 1 .. k /\ Fnd!Directories \subseteq 1 .. k
<1>1. Len(tree.kind) \in Nat /\ Len(tree.kind) >= 1 /\ Fnd!Entries = 1 .. Len(tree.kind)
  BY TreeIs DEF FindInv
<1>2. Fnd!Matching \subseteq Fnd!Entries /\ Fnd!Directories \subseteq Fnd!Entries
  BY DEF Fnd!Matching, Fnd!Directories
<1> QED
  BY <1>1, <1>2 DEF FindInv, Fnd!TypeOK, Fnd!FindAssumption, Fnd!Standard

(* A call of my_find() puts its directory on top of the others.            *)
LEMMA PushIs ==
  ASSUME NEW S, NEW s \in Seq(S), NEW x \in S
  PROVE  LET t == <<x>> \o s IN
         /\ t \in Seq(S) /\ Len(t) = Len(s) + 1 /\ t[1] = x
         /\ \A i \in 2 .. Len(t) : t[i] = s[i - 1]
<1>1. <<x>> \in Seq(S) /\ Len(<<x>>) = 1 /\ <<x>>[1] = x
  OBVIOUS
<1> DEFINE t == <<x>> \o s
<1>2. t \in Seq(S) /\ Len(t) = 1 + Len(s)
  BY <1>1, ConcatProperties
<1>3. \A i \in 1 .. Len(t) : t[i] = IF i <= 1 THEN <<x>>[i] ELSE s[i - 1]
  BY <1>1, ConcatProperties
<1> QED
  BY <1>1, <1>2, <1>3

(* And its return takes it away.                                           *)
LEMMA PopIs ==
  ASSUME NEW S, NEW s \in Seq(S), s # <<>>
  PROVE  LET t == Tail(s) IN
         /\ t \in Seq(S) /\ Len(t) = Len(s) - 1 /\ Head(s) = s[1] /\ Len(s) >= 1
         /\ \A i \in 1 .. Len(t) : t[i] = s[i + 1]
BY HeadTailProperties

(* Between the entry and the next one of its directory there is nothing.   *)
LEMMA NothingBetween ==
  ASSUME Fnd!FindAssumption, FindInv, findPc = "read", NEW e \in Fnd!Rest,
         \A x \in Fnd!Rest : e <= x
  PROVE  \A y \in Fnd!Entries \ gone : y <= entry \/ e <= y
<1> DEFINE k == Len(tree.kind)
           p == tree.parent
           B == {y \in Fnd!Entries \ gone : entry < y /\ y < e}
<1>1. /\ k \in Nat /\ k >= 1 /\ Fnd!Entries = 1 .. k /\ entry \in 1 .. k
      /\ stack \in Seq(1 .. k) /\ findStatus \in {0, 1}
  BY FindTypes
<1>2. /\ \A x \in 2 .. k : p[x] \in 1 .. x - 1
      /\ \A x \in 2 .. k : \A z \in p[x] + 1 .. x : p[z] >= p[x]
  BY TreeIs DEF FindInv
<1>3. /\ stack # <<>> /\ findStatus = 0 /\ ~Pending
      /\ \A i \in 1 .. Len(stack) : stack[i] <= entry
      /\ \A i, j \in 1 .. Len(stack) : i < j => stack[j] < stack[i]
  BY DEF FindInv, StackRight, Pending
<1>4. Len(stack) >= 1 /\ Head(stack) = stack[1] /\ Len(stack) \in Nat
  BY <1>1, <1>3, PopIs
<1>5. /\ \A x \in Fnd!Entries \ gone : x > 1 => p[x] \notin gone
      /\ \A x \in Fnd!Entries \ gone : x > entry => p[x] > entry \/ p[x] \in OnStack
  BY <1>3 DEF FindInv, Ahead
<1>6. \A x : x \in Fnd!Rest <=> x \in Fnd!Entries \ gone /\ p[x] = Head(stack) /\ x > entry
  BY DEF Fnd!Rest, Fnd!Children
<1>7. e \in 1 .. k /\ e > entry /\ p[e] = stack[1]
  BY <1>1, <1>4, <1>6
<1> HIDE DEF k, p
<1> SUFFICES ASSUME B # {} PROVE FALSE
  BY <1>1, <1>7, SMTT(30)
<1>8. B \in SUBSET Nat
  BY <1>1
<1>9. PICK z \in B : \A y \in B : z <= y
  BY <1>8, LeastNat
<1>10. /\ z \in 2 .. k /\ entry < z /\ z < e /\ e \in 2 .. k
       /\ z \in Fnd!Entries \ gone
  BY <1>1, <1>7, <1>9
<1>11. p[z] \in 1 .. z - 1 /\ p[z] \notin gone
  BY <1>2, <1>5, <1>10
<1>12. CASE p[z] > entry
  <2>1. p[z] \in B
    BY <1>1, <1>10, <1>11, <1>12
  <2> QED
    BY <1>9, <1>10, <1>11, <2>1
<1>13. CASE p[z] \in OnStack
  <2>1. PICK i \in 1 .. Len(stack) : p[z] = stack[i]
    BY <1>13 DEF OnStack
  <2>2. CASE i = 1
    <3>1. z \in Fnd!Rest
      BY <1>4, <1>6, <1>10, <2>1, <2>2
    <3> QED
      BY <1>7, <1>10, <3>1
  <2>3. CASE i # 1
    <3>1. p[z] < p[e]
      BY <1>3, <1>4, <1>7, <2>1, <2>3
    <3>2. p[e] <= entry /\ p[e] \in 1 .. e - 1
      BY <1>2, <1>3, <1>4, <1>7, <1>10
    <3>3. z \in p[e] + 1 .. e
      BY <1>1, <1>10, <3>2
    <3>4. p[z] >= p[e]
      BY <1>2, <1>10, <3>3
    <3> QED
      BY <1>11, <3>1, <3>2, <3>4
  <2> QED
    BY <2>2, <2>3
<1> QED
  BY <1>5, <1>10, <1>12, <1>13

(* When the outermost directory is read to its end, all is behind.         *)
LEMMA NothingAhead ==
  ASSUME Fnd!FindAssumption, FindInv, findStatus = 0, ~Pending, OnStack = {}
  PROVE  \A y \in Fnd!Entries \ gone : y <= entry
<1> DEFINE k == Len(tree.kind)
           p == tree.parent
           B == {y \in Fnd!Entries \ gone : entry < y}
<1>1. k \in Nat /\ k >= 1 /\ Fnd!Entries = 1 .. k /\ entry \in 1 .. k
  BY FindTypes
<1>2. \A x \in 2 .. k : p[x] \in 1 .. x - 1
  BY TreeIs DEF FindInv
<1>3. /\ \A x \in Fnd!Entries \ gone : x > 1 => p[x] \notin gone
      /\ \A x \in Fnd!Entries \ gone : x > entry => p[x] > entry
  BY DEF FindInv, Ahead
<1> HIDE DEF k, p
<1> SUFFICES ASSUME B # {} PROVE FALSE
  BY <1>1
<1>4. B \in SUBSET Nat
  BY <1>1
<1>5. PICK z \in B : \A y \in B : z <= y
  BY <1>4, LeastNat
<1>6. z \in 2 .. k /\ z \in Fnd!Entries \ gone /\ z > entry
  BY <1>1, <1>5
<1>7. p[z] \in 1 .. z - 1 /\ p[z] \notin gone /\ p[z] > entry
  BY <1>2, <1>3, <1>6
<1>8. p[z] \in B
  BY <1>1, <1>6, <1>7
<1> QED
  BY <1>5, <1>6, <1>7, <1>8

(* A step leaves the tree as it is, and unlinks at most.                   *)
LEMMA TreeStays ==
  ASSUME tree' = tree, FindInv
  PROVE  /\ Fnd!Entries' = Fnd!Entries /\ Fnd!Matching' = Fnd!Matching
         /\ Fnd!Directories' = Fnd!Directories /\ TreeRight'
         /\ gone \subseteq gone' => (Reason => Reason')
<1>1. Fnd!Entries' = Fnd!Entries
  BY DEF Fnd!Entries
<1>2. Fnd!Matching' = Fnd!Matching /\ Fnd!Directories' = Fnd!Directories
  BY <1>1 DEF Fnd!Matching, Fnd!Directories
<1>3. \A d : Fnd!HasRoom(d)' = Fnd!HasRoom(d)
  BY DEF Fnd!HasRoom, Fnd!Path
<1>4. TreeRight'
  BY DEF FindInv, TreeRight
<1> QED
  BY <1>1, <1>2, <1>3, <1>4 DEF Reason

(* The directories that are known, and how many.                           *)
LEMMA OpenedFinite ==
  ASSUME Fnd!FindAssumption, FindInv
  PROVE  /\ IsFiniteSet(Fnd!Directories) /\ IsFiniteSet(Opened)
         /\ Cardinality(Opened) \in Nat /\ Cardinality(Fnd!Directories) \in Nat
         /\ Cardinality(Opened) <= Cardinality(Fnd!Directories)
<1>1. Fnd!Directories \subseteq 1 .. Len(tree.kind) /\ Len(tree.kind) \in Nat
  BY FindTypes
<1>2. IsFiniteSet(Fnd!Directories)
  <2>1. IsFiniteSet(1 .. Len(tree.kind))
    BY <1>1, FS_Interval
  <2> QED
    BY <1>1, <2>1, FS_Subset
<1>3. Opened \subseteq Fnd!Directories
  BY DEF Opened
<1> QED
  BY <1>2, <1>3, FS_Subset, FS_CardinalityType

(* When no directory becomes unknown, the count holds on.                  *)
LEMMA OpenedGrows ==
  ASSUME Fnd!FindAssumption, FindInv, tree' = tree, open' = open, Opened \subseteq Opened'
  PROVE  open' <= Cardinality(Opened')
<1>1. Fnd!Directories' = Fnd!Directories
  BY TreeStays
<1>2. Opened' \subseteq Fnd!Directories
  BY <1>1 DEF Opened
<1>3. IsFiniteSet(Fnd!Directories) /\ IsFiniteSet(Opened) /\ Cardinality(Opened) \in Nat
  BY OpenedFinite
<1>4. IsFiniteSet(Opened')
  BY <1>2, <1>3, FS_Subset
<1>5. Cardinality(Opened) <= Cardinality(Opened') /\ Cardinality(Opened') \in Nat
  BY <1>4, FS_Subset, FS_CardinalityType
<1>6. open \in Nat
  <2>1. open \in 0 .. Descriptors - 3 /\ Descriptors \in Nat
    BY FindTypes
  <2> QED
    BY <2>1
<1>7. open <= Cardinality(Opened)
  BY DEF FindInv
<1> QED
  BY <1>3, <1>5, <1>6, <1>7

(* my_find() up to its loop, with a descriptor for one more directory: it  *)
(* preserves the invariant.                                                *)
LEMMA OpenStep ==
  ASSUME Fnd!FindAssumption, FindInv, Fnd!OpenDirectory
  PROVE  FindInv'
<1> DEFINE k == Len(tree.kind)
<1>1. /\ k \in Nat /\ k >= 1 /\ Fnd!Entries = 1 .. k /\ gone \subseteq 1 .. k
      /\ entry \in 1 .. k /\ stack \in Seq(1 .. k) /\ found \in Seq(1 .. k)
      /\ open \in 0 .. Descriptors - 3 /\ Descriptors \in Nat /\ findStatus \in {0, 1}
  BY FindTypes
<1>2. /\ findPc = "open" /\ tree.kind[entry] = "dir" /\ 3 + open < Descriptors
      /\ open' = open + 1 /\ stack' = <<entry>> \o stack /\ findPc' = "read"
      /\ UNCHANGED <<tree, gone, entry, found, findStatus>>
  BY DEF Fnd!OpenDirectory, Fnd!CanOpen, Fnd!Standard
<1>3. /\ Fnd!Entries' = Fnd!Entries /\ Fnd!Matching' = Fnd!Matching
      /\ Fnd!Directories' = Fnd!Directories /\ TreeRight' /\ (Reason => Reason')
  BY <1>2, TreeStays
<1>4. Pending /\ ~Pending' /\ findStatus = 0
  BY <1>2 DEF Pending, FindInv, StackRight
<1>5. /\ stack' \in Seq(1 .. k) /\ Len(stack') = Len(stack) + 1 /\ stack'[1] = entry
      /\ \A i \in 2 .. Len(stack') : stack'[i] = stack[i - 1]
  BY <1>1, <1>2, PushIs
<1> HIDE DEF k
<1>6. Fnd!TypeOK'
  <2>1. open' \in 0 .. Descriptors - 3
    BY <1>1, <1>2
  <2> QED
    BY <1>1, <1>2, <1>3, <1>5, <2>1 DEF FindInv, Fnd!TypeOK, Fnd!Standard
<1>7. Len(stack) \in Nat
  BY <1>1
<1>8. StackRight'
  <2>1. /\ \A i \in 1 .. Len(stack) : tree.kind[stack[i]] = "dir" /\ stack[i] < entry
        /\ \A i, j \in 1 .. Len(stack) : i < j => stack[j] < stack[i]
    BY <1>4 DEF FindInv, StackRight
  <2>2. \A i \in 1 .. Len(stack) : stack[i] \in 1 .. k
    BY <1>1
  <2>3. \A i \in 1 .. Len(stack') : tree.kind[stack'[i]] = "dir" /\ stack'[i] <= entry
    <3> SUFFICES ASSUME NEW i \in 1 .. Len(stack')
                 PROVE  tree.kind[stack'[i]] = "dir" /\ stack'[i] <= entry
      OBVIOUS
    <3>1. CASE i = 1
      BY <1>1, <1>2, <1>5, <3>1
    <3>2. CASE i \in 2 .. Len(stack')
      <4>1. i - 1 \in 1 .. Len(stack) /\ stack'[i] = stack[i - 1]
        BY <1>5, <1>7, <3>2
      <4>2. tree.kind[stack[i - 1]] = "dir" /\ stack[i - 1] < entry
        BY <2>1, <4>1
      <4>3. stack[i - 1] \in Nat /\ entry \in Nat
        BY <1>1, <2>2, <4>1
      <4>4. stack'[i] <= entry
        BY <4>1, <4>2, <4>3
      <4> QED
        BY <1>2, <4>1, <4>2, <4>4
    <3> QED
      BY <1>5, <1>7, <3>1, <3>2
  <2>4. ASSUME NEW i \in 1 .. Len(stack'), NEW j \in 1 .. Len(stack'), i < j
        PROVE  stack'[j] < stack'[i]
    <3>1. j \in 2 .. Len(stack') /\ j - 1 \in 1 .. Len(stack) /\ stack'[j] = stack[j - 1]
      BY <1>5, <1>7, <2>4
    <3>2. CASE i = 1
      BY <1>5, <2>1, <3>1, <3>2
    <3>3. CASE i # 1
      <4>1. i \in 2 .. Len(stack') /\ i - 1 \in 1 .. Len(stack) /\ i - 1 < j - 1
        BY <1>5, <1>7, <2>4, <3>3
      <4> QED
        BY <1>5, <2>1, <3>1, <4>1
    <3> QED
      BY <3>2, <3>3
  <2>5. stack' # <<>>
    BY <1>5, <1>7
  <2> QED
    BY <1>2, <1>4, <2>3, <2>4, <2>5 DEF StackRight
<1>9. Ahead'
  <2>1. \A x \in OnStack \cup {entry} : x \in OnStack'
    <3>1. entry \in OnStack'
      <4>1. 1 \in 1 .. Len(stack')
        BY <1>5, <1>7
      <4> QED
        BY <1>5, <4>1 DEF OnStack
    <3>2. ASSUME NEW i \in 1 .. Len(stack) PROVE stack[i] \in OnStack'
      <4>1. i + 1 \in 2 .. Len(stack') /\ i + 1 \in 1 .. Len(stack') /\ (i + 1) - 1 = i
        BY <1>5, <1>7
      <4>2. stack'[i + 1] = stack[i]
        BY <1>5, <4>1
      <4> QED
        BY <4>1, <4>2 DEF OnStack
    <3> QED
      BY <3>1, <3>2 DEF OnStack
  <2> QED
    BY <1>2, <1>3, <1>4, <2>1 DEF FindInv, Ahead
<1>10. Behind'
  <2>1. \A x \in Fnd!Matching : x # entry
    BY <1>2 DEF Fnd!Matching
  <2>2. Fnd!Printed' = Fnd!Printed
    BY <1>2 DEF Fnd!Printed
  <2> QED
    BY <1>2, <1>3, <1>4, <2>1, <2>2 DEF FindInv, Behind
<1>11. open' <= Cardinality(Opened')
  <2>1. Opened' = Opened \cup {entry} /\ entry \notin Opened
    <3>1. entry \in Fnd!Directories
      BY <1>1, <1>2 DEF Fnd!Directories
    <3>2. \A d : d \in Opened <=> d \in Fnd!Directories /\ d < entry
      BY <1>4 DEF Opened
    <3>3. \A d : d \in Opened' <=> d \in Fnd!Directories /\ (d < entry \/ d = entry)
      BY <1>2, <1>3, <1>4 DEF Opened
    <3> QED
      BY <1>1, <3>1, <3>2, <3>3
  <2>2. IsFiniteSet(Opened) /\ Cardinality(Opened) \in Nat
    BY OpenedFinite
  <2>3. Cardinality(Opened') = Cardinality(Opened) + 1
    BY <2>1, <2>2, FS_AddElement
  <2>4. open <= Cardinality(Opened) /\ open \in Nat
    BY <1>1 DEF FindInv
  <2> QED
    BY <1>2, <2>2, <2>3, <2>4
<1> QED
  BY <1>2, <1>3, <1>4, <1>6, <1>8, <1>9, <1>10, <1>11 DEF FindInv

(* An error has a reason.                                                  *)
LEMMA FailsForReason ==
  ASSUME Fnd!FindAssumption, FindInv, Fnd!OpenFails \/ Fnd!StatFails
  PROVE  Reason /\ Pending /\ findStatus = 0
<1>1. Pending /\ findStatus = 0
  BY DEF Fnd!OpenFails, Fnd!StatFails, Pending, FindInv, StackRight
<1>2. entry \in Fnd!Entries /\ open \in Nat /\ Descriptors \in Nat
  <2>1. open \in 0 .. Descriptors - 3 /\ Descriptors \in Nat
    BY FindTypes
  <2> QED
    BY <2>1, FindTypes
<1>3. CASE ~Fnd!CanOpen(entry)
  <2>1. CASE entry \in gone
    BY <1>1, <2>1 DEF Reason
  <2>2. CASE ~(Fnd!Standard + open < Descriptors)
    <3>1. open <= Cardinality(Opened) /\ Cardinality(Opened) <= Cardinality(Fnd!Directories)
          /\ Cardinality(Opened) \in Nat /\ Cardinality(Fnd!Directories) \in Nat
      BY OpenedFinite DEF FindInv
    <3>2. Fnd!Standard + Cardinality(Fnd!Directories) >= Descriptors
      BY <1>2, <2>2, <3>1 DEF Fnd!Standard
    <3> QED
      BY <1>1, <3>2 DEF Reason
  <2> QED
    BY <1>3, <2>1, <2>2, <1>1 DEF Fnd!CanOpen, Reason
<1>4. CASE Fnd!CanOpen(entry)
  <2>1. findPc = "open" /\ ~(tree.kind[entry] = "dir" /\ Fnd!HasRoom(entry))
    BY <1>4 DEF Fnd!OpenFails, Fnd!StatFails
  <2>2. CASE tree.kind[entry] = "dir"
    <3>1. entry \in Fnd!Directories /\ ~Fnd!HasRoom(entry)
      BY <1>2, <2>1, <2>2 DEF Fnd!Directories
    <3> QED
      BY <1>1, <3>1 DEF Reason
  <2>3. CASE tree.kind[entry] # "dir"
    <3>1. entry = 1
      BY <2>1, <2>3 DEF FindInv, StackRight
    <3> QED
      BY <1>1, <2>3, <3>1 DEF Reason, Fnd!Directories
  <2> QED
    BY <2>2, <2>3
<1> QED
  BY <1>3, <1>4

(* An error of open() or stat() preserves it.                              *)
LEMMA FailsStep ==
  ASSUME Fnd!FindAssumption, FindInv, Fnd!OpenFails \/ Fnd!StatFails
  PROVE  FindInv'
<1>1. /\ findPc' = "exit" /\ findStatus' = 1
      /\ UNCHANGED <<tree, gone, entry, stack, open, found>>
  BY DEF Fnd!OpenFails, Fnd!StatFails, Fnd!Ends
<1>2. Reason /\ Pending /\ ~Pending'
  BY <1>1, FailsForReason DEF Pending
<1>3. /\ Fnd!Entries' = Fnd!Entries /\ Fnd!Matching' = Fnd!Matching
      /\ Fnd!Directories' = Fnd!Directories /\ TreeRight' /\ (Reason => Reason')
  BY <1>1, TreeStays
<1>4. Fnd!TypeOK'
  BY <1>1, <1>3 DEF FindInv, Fnd!TypeOK
<1>5. StackRight'
  BY <1>1, <1>2 DEF FindInv, StackRight
<1>6. Ahead'
  BY <1>1, <1>3 DEF FindInv, Ahead
<1>7. Behind'
  BY <1>1, <1>2, <1>3 DEF FindInv, Behind
<1>8. Opened \subseteq Opened'
  BY <1>1, <1>2, <1>3 DEF Opened
<1>9. open' <= Cardinality(Opened')
  BY <1>1, <1>8, OpenedGrows
<1> QED
  BY <1>2, <1>3, <1>4, <1>5, <1>6, <1>7, <1>9 DEF FindInv

(* The next entry of a directory: what it passes over is not there.        *)
LEMMA ReadEntryStep ==
  ASSUME Fnd!FindAssumption, FindInv, Fnd!ReadEntry
  PROVE  FindInv'
<1> DEFINE k == Len(tree.kind)
           p == tree.parent
<1>1. /\ k \in Nat /\ Fnd!Entries = 1 .. k /\ gone \subseteq 1 .. k
      /\ entry \in 1 .. k /\ stack \in Seq(1 .. k) /\ found \in Seq(1 .. k)
      /\ findStatus \in {0, 1}
  BY FindTypes
<1>2. PICK e \in Fnd!Rest : (\A x \in Fnd!Rest : e <= x) /\ entry' = e
  BY DEF Fnd!ReadEntry
<1>3. /\ findPc = "read" /\ findPc' = "stat"
      /\ UNCHANGED <<tree, gone, stack, open, found, findStatus>>
  BY DEF Fnd!ReadEntry
<1>4. /\ Fnd!Entries' = Fnd!Entries /\ Fnd!Matching' = Fnd!Matching
      /\ Fnd!Directories' = Fnd!Directories /\ TreeRight' /\ (Reason => Reason')
  BY <1>3, TreeStays
<1>5. e \in 1 .. k /\ entry < e
  BY <1>1 DEF Fnd!Rest, Fnd!Children
<1>6. \A y \in Fnd!Entries \ gone : y <= entry \/ e <= y
  BY <1>2, <1>3, NothingBetween
<1>7. ~Pending /\ Pending' /\ findStatus = 0 /\ OnStack' = OnStack
  BY <1>3 DEF Pending, FindInv, StackRight, OnStack
<1>8. \A x \in 2 .. k : p[x] \in 1 .. x - 1
  BY TreeIs DEF FindInv
<1> HIDE DEF k
<1>9. Fnd!TypeOK'
  BY <1>1, <1>2, <1>3, <1>4, <1>5 DEF FindInv, Fnd!TypeOK
<1>10. StackRight'
  <2>1. \A i \in 1 .. Len(stack) : stack[i] \in 1 .. k /\ stack[i] <= entry
    BY <1>1 DEF FindInv, StackRight
  <2>2. \A i \in 1 .. Len(stack) : stack[i] < e /\ stack[i] <= e
    BY <1>1, <1>5, <2>1
  <2>3. /\ \A i \in 1 .. Len(stack) : tree.kind[stack[i]] = "dir"
        /\ \A i, j \in 1 .. Len(stack) : i < j => stack[j] < stack[i]
        /\ stack # <<>>
    BY <1>3 DEF FindInv, StackRight
  <2> QED
    BY <1>2, <1>3, <1>7, <2>2, <2>3 DEF StackRight
<1>11. Ahead'
  <2>1. \A x \in Fnd!Entries \ gone : x > 1 => p[x] \notin gone
    BY DEF FindInv, Ahead
  <2>2. ASSUME NEW x \in Fnd!Entries \ gone, x > e
        PROVE  p[x] > e \/ p[x] \in OnStack \/ p[x] = e
    <3>1. x \in 2 .. k /\ x > entry
      BY <1>1, <1>5, <2>2
    <3>2. p[x] > entry \/ p[x] \in OnStack
      BY <1>7, <3>1 DEF FindInv, Ahead
    <3>3. p[x] \in 1 .. k /\ p[x] \notin gone
      <4>1. p[x] \in 1 .. x - 1 /\ x <= k
        BY <1>8, <3>1
      <4> QED
        BY <1>1, <2>1, <3>1, <4>1
    <3>4. p[x] <= entry \/ e <= p[x]
      BY <1>1, <1>6, <3>3
    <3> HIDE DEF p
    <3> QED
      BY <1>1, <1>5, <3>2, <3>3, <3>4
  <2> QED
    BY <1>2, <1>3, <1>4, <1>7, <2>1, <2>2 DEF Ahead
<1>12. Behind'
  <2>1. ASSUME NEW j \in 1 .. Len(found)
        PROVE  found[j] \in Fnd!Matching /\ found[j] <= e /\ found[j] < e
    <3>1. found[j] \in Fnd!Matching /\ found[j] <= entry /\ found[j] \in 1 .. k
      BY <1>1 DEF FindInv, Behind
    <3> QED
      BY <1>1, <1>5, <3>1
  <2>2. \A j \in 2 .. Len(found) : found[j - 1] < found[j]
    BY DEF FindInv, Behind
  <2>3. ASSUME NEW x \in Fnd!Matching \ gone, x < e PROVE x \in Fnd!Printed
    <3>1. x \in Fnd!Entries \ gone /\ x \in 1 .. k
      BY <1>1 DEF Fnd!Matching
    <3>2. x < entry \/ x = entry
      <4>1. x <= entry \/ e <= x
        BY <1>6, <3>1
      <4> QED
        BY <1>1, <1>5, <2>3, <3>1, <4>1
    <3> QED
      BY <1>7, <3>2 DEF FindInv, Behind
  <2>4. Fnd!Printed' = Fnd!Printed
    BY <1>3 DEF Fnd!Printed
  <2> QED
    BY <1>2, <1>3, <1>4, <1>7, <2>1, <2>2, <2>3, <2>4 DEF Behind
<1>13. open' <= Cardinality(Opened')
  <2>1. ASSUME NEW d \in Opened PROVE d \in Opened'
    <3>1. d \in Fnd!Directories /\ d \in 1 .. k /\ d <= entry
      <4>1. d \in Fnd!Directories /\ (d < entry \/ d = entry)
        BY DEF Opened
      <4>2. d \in 1 .. k
        BY <1>1, <4>1 DEF Fnd!Directories
      <4> QED
        BY <1>1, <4>1, <4>2
    <3>2. d < e
      BY <1>1, <1>5, <3>1
    <3> QED
      BY <1>2, <1>4, <3>1, <3>2 DEF Opened
  <2> QED
    BY <1>3, <2>1, OpenedGrows
<1> QED
  BY <1>3, <1>4, <1>7, <1>9, <1>10, <1>11, <1>12, <1>13 DEF FindInv

(* The end of a directory: nothing is left in it ahead of the walk.        *)
LEMMA ReturnStep ==
  ASSUME Fnd!FindAssumption, FindInv, Fnd!Return
  PROVE  FindInv'
<1> DEFINE k == Len(tree.kind)
           p == tree.parent
<1>1. /\ k \in Nat /\ Fnd!Entries = 1 .. k /\ gone \subseteq 1 .. k
      /\ entry \in 1 .. k /\ stack \in Seq(1 .. k) /\ found \in Seq(1 .. k)
      /\ findStatus \in {0, 1}
  BY FindTypes
<1>2. /\ findPc = "read" /\ Fnd!Rest = {} /\ stack' = Tail(stack)
      /\ IF Len(stack) = 1 THEN findPc' = "exit" /\ findStatus' = 0
         ELSE findPc' = findPc /\ findStatus' = findStatus
      /\ UNCHANGED <<tree, gone, entry, open, found>>
  BY DEF Fnd!Return, Fnd!Ends
<1>3. /\ Fnd!Entries' = Fnd!Entries /\ Fnd!Matching' = Fnd!Matching
      /\ Fnd!Directories' = Fnd!Directories /\ TreeRight' /\ (Reason => Reason')
  BY <1>2, TreeStays
<1>4. ~Pending /\ ~Pending' /\ findStatus = 0 /\ findStatus' = 0 /\ stack # <<>>
  BY <1>2 DEF Pending, FindInv, StackRight
<1>5. /\ stack' \in Seq(1 .. k) /\ Len(stack') = Len(stack) - 1
      /\ Head(stack) = stack[1] /\ Len(stack) >= 1
      /\ \A i \in 1 .. Len(stack') : stack'[i] = stack[i + 1]
  BY <1>1, <1>2, <1>4, PopIs
<1> HIDE DEF k, p
<1>6. Fnd!TypeOK'
  BY <1>1, <1>2, <1>3, <1>4, <1>5 DEF FindInv, Fnd!TypeOK
<1>7. Len(stack) \in Nat /\ Len(stack') \in Nat
  BY <1>1, <1>5
<1>8. StackRight'
  <2>1. /\ \A i \in 1 .. Len(stack) : tree.kind[stack[i]] = "dir" /\ stack[i] <= entry
        /\ \A i, j \in 1 .. Len(stack) : i < j => stack[j] < stack[i]
    BY DEF FindInv, StackRight
  <2>2. \A i \in 1 .. Len(stack') : tree.kind[stack'[i]] = "dir" /\ stack'[i] <= entry
    <3> SUFFICES ASSUME NEW i \in 1 .. Len(stack')
                 PROVE  tree.kind[stack'[i]] = "dir" /\ stack'[i] <= entry
      OBVIOUS
    <3>1. i + 1 \in 1 .. Len(stack) /\ stack'[i] = stack[i + 1]
      BY <1>5, <1>7
    <3> QED
      BY <2>1, <3>1
  <2>3. ASSUME NEW i \in 1 .. Len(stack'), NEW j \in 1 .. Len(stack'), i < j
        PROVE  stack'[j] < stack'[i]
    <3>1. /\ i + 1 \in 1 .. Len(stack) /\ stack'[i] = stack[i + 1]
          /\ j + 1 \in 1 .. Len(stack) /\ stack'[j] = stack[j + 1]
          /\ i + 1 < j + 1
      BY <1>5, <1>7, <2>3
    <3> QED
      BY <2>1, <3>1
  <2>4. findPc' # "exit" => findPc' = "read" /\ stack' # <<>>
    <3> SUFFICES ASSUME findPc' # "exit" PROVE findPc' = "read" /\ Len(stack') >= 1
      BY <1>5
    <3> QED
      BY <1>2, <1>5, <1>7
  <2>5. findPc' = "exit" => stack' = <<>>
    <3> SUFFICES ASSUME findPc' = "exit" PROVE Len(stack') = 0
      BY <1>5, EmptySeq
    <3> QED
      BY <1>2, <1>5, <1>7
  <2> QED
    BY <1>2, <1>4, <2>2, <2>3, <2>4, <2>5 DEF StackRight
<1>9. Ahead'
  <2>1. /\ \A x \in Fnd!Entries \ gone : x > 1 => p[x] \notin gone
        /\ \A x \in Fnd!Entries \ gone : x > entry => p[x] > entry \/ p[x] \in OnStack
    BY <1>4 DEF FindInv, Ahead, p
  <2>2. ASSUME NEW x \in Fnd!Entries \ gone, x > entry, p[x] \in OnStack
        PROVE  p[x] \in OnStack'
    <3>1. PICK i \in 1 .. Len(stack) : p[x] = stack[i]
      BY <2>2 DEF OnStack
    <3>2. CASE i = 1
      <4>1. x \in Fnd!Rest
        BY <1>5, <2>2, <3>1, <3>2 DEF Fnd!Rest, Fnd!Children, p
      <4> QED
        BY <1>2, <4>1
    <3>3. CASE i # 1
      <4>1. i - 1 \in 1 .. Len(stack') /\ (i - 1) + 1 = i
        BY <1>5, <1>7, <3>3
      <4>2. stack'[i - 1] = stack[i]
        BY <1>5, <4>1
      <4> QED
        BY <3>1, <4>1, <4>2 DEF OnStack
    <3> QED
      BY <3>2, <3>3
  <2> QED
    BY <1>2, <1>3, <1>4, <2>1, <2>2 DEF Ahead, p
<1>10. Behind'
  <2>1. Fnd!Printed' = Fnd!Printed
    BY <1>2 DEF Fnd!Printed
  <2> QED
    BY <1>2, <1>3, <1>4, <2>1 DEF FindInv, Behind
<1>11. open' <= Cardinality(Opened')
  <2>1. Opened \subseteq Opened'
    BY <1>2, <1>3, <1>4 DEF Opened
  <2> QED
    BY <1>2, <2>1, OpenedGrows
<1> QED
  BY <1>3, <1>4, <1>6, <1>8, <1>9, <1>10, <1>11 DEF FindInv

(* The switch: a directory is pending again, to be opened, and a file of   *)
(* the name has been printed.                                              *)
LEMMA StatStep ==
  ASSUME Fnd!FindAssumption, FindInv, Fnd!Stat
  PROVE  FindInv'
<1> DEFINE k == Len(tree.kind)
           p == tree.parent
<1>1. /\ k \in Nat /\ Fnd!Entries = 1 .. k /\ gone \subseteq 1 .. k
      /\ entry \in 1 .. k /\ stack \in Seq(1 .. k) /\ found \in Seq(1 .. k)
      /\ findStatus \in {0, 1}
  BY FindTypes
<1>2. /\ findPc = "stat" /\ entry \notin gone
      /\ findPc' = IF tree.kind[entry] = "dir" THEN "open" ELSE "read"
      /\ found' = IF tree.kind[entry] = "match" THEN Append(found, entry) ELSE found
      /\ UNCHANGED <<tree, gone, entry, stack, open, findStatus>>
  BY DEF Fnd!Stat, Fnd!CanOpen, Fnd!Descends
<1>3. /\ Fnd!Entries' = Fnd!Entries /\ Fnd!Matching' = Fnd!Matching
      /\ Fnd!Directories' = Fnd!Directories /\ TreeRight' /\ (Reason => Reason')
  BY <1>2, TreeStays
<1>4. /\ Pending /\ findStatus = 0 /\ stack # <<>> /\ OnStack' = OnStack
      /\ (Pending' <=> tree.kind[entry] = "dir")
  BY <1>2 DEF Pending, FindInv, StackRight, OnStack
<1>5. \A x \in 2 .. k : tree.kind[p[x]] = "dir"
  BY TreeIs DEF FindInv
<1> HIDE DEF k
<1>6. Len(found) \in Nat /\ found' \in Seq(1 .. k)
  <2>1. Append(found, entry) \in Seq(1 .. k) /\ Len(found) \in Nat
    BY <1>1
  <2>2. found' = found \/ found' = Append(found, entry)
    BY <1>2
  <2> QED
    BY <1>1, <2>1, <2>2
<1>7. Fnd!TypeOK'
  BY <1>1, <1>2, <1>3, <1>6 DEF FindInv, Fnd!TypeOK
<1>8. StackRight'
  <2>1. /\ \A i \in 1 .. Len(stack) : tree.kind[stack[i]] = "dir" /\ stack[i] <= entry /\ stack[i] < entry
        /\ \A i, j \in 1 .. Len(stack) : i < j => stack[j] < stack[i]
    BY <1>4 DEF FindInv, StackRight
  <2> QED
    BY <1>2, <1>4, <2>1 DEF StackRight
<1>9. Ahead'
  <2>1. \A x \in Fnd!Entries \ gone : x > 1 => p[x] \notin gone
    BY DEF FindInv, Ahead
  <2>2. ASSUME NEW x \in Fnd!Entries \ gone, x > entry
        PROVE  p[x] > entry \/ p[x] \in OnStack \/ (Pending' /\ p[x] = entry)
    <3>1. p[x] > entry \/ p[x] \in OnStack \/ p[x] = entry
      BY <1>4, <2>2 DEF FindInv, Ahead
    <3>2. x \in 2 .. k
      BY <1>1, <2>2
    <3>3. p[x] = entry => Pending'
      BY <1>4, <1>5, <3>2
    <3> QED
      BY <3>1, <3>3
  <2> QED
    BY <1>2, <1>3, <1>4, <2>1, <2>2 DEF Ahead
<1>10. Behind'
  <2>1. /\ \A j \in 1 .. Len(found) : found[j] \in Fnd!Matching /\ found[j] < entry
        /\ \A j \in 2 .. Len(found) : found[j - 1] < found[j]
        /\ \A x \in Fnd!Matching \ gone : x < entry => x \in Fnd!Printed
    BY <1>4 DEF FindInv, Behind
  <2>2. \A j \in 1 .. Len(found) : found[j] \in 1 .. k
    BY <1>1
  <2>3. CASE tree.kind[entry] = "match"
    <3>1. /\ Len(found') = Len(found) + 1 /\ found'[Len(found) + 1] = entry
          /\ \A j \in 1 .. Len(found) : found'[j] = found[j]
      BY <1>1, <1>2, <2>3
    <3>2. entry \in Fnd!Matching /\ ~Pending'
      BY <1>1, <1>4, <2>3 DEF Fnd!Matching
    <3>3. ASSUME NEW j \in 1 .. Len(found')
          PROVE  found'[j] \in Fnd!Matching /\ found'[j] <= entry
      <4>1. CASE j \in 1 .. Len(found)
        <5>1. found[j] <= entry
          BY <1>1, <2>1, <2>2, <4>1
        <5> QED
          BY <2>1, <3>1, <4>1, <5>1
      <4>2. CASE j = Len(found) + 1
        BY <1>1, <3>1, <3>2, <4>2
      <4> QED
        BY <1>6, <3>1, <4>1, <4>2
    <3>4. ASSUME NEW j \in 2 .. Len(found') PROVE found'[j - 1] < found'[j]
      <4>1. j - 1 \in 1 .. Len(found)
        BY <1>6, <3>1
      <4>2. CASE j \in 2 .. Len(found)
        BY <2>1, <3>1, <4>1, <4>2
      <4>3. CASE j = Len(found) + 1
        BY <2>1, <3>1, <4>1, <4>3
      <4> QED
        BY <1>6, <3>1, <4>2, <4>3
    <3>5. Fnd!Printed \cup {entry} \subseteq Fnd!Printed'
      <4>1. /\ Len(found) + 1 \in DOMAIN found'
            /\ \A j \in DOMAIN found : j \in 1 .. Len(found) /\ j \in DOMAIN found'
        BY <1>1, <1>6, <3>1
      <4> QED
        BY <3>1, <4>1 DEF Fnd!Printed
    <3> QED
      BY <1>2, <1>3, <1>4, <2>1, <3>2, <3>3, <3>4, <3>5 DEF Behind
  <2>4. CASE tree.kind[entry] # "match"
    <3>1. entry \notin Fnd!Matching /\ found' = found
      BY <1>2, <2>4 DEF Fnd!Matching
    <3>2. Fnd!Printed' = Fnd!Printed
      BY <3>1 DEF Fnd!Printed
    <3>3. \A j \in 1 .. Len(found) : found[j] <= entry
      BY <1>1, <2>1, <2>2
    <3> QED
      BY <1>2, <1>3, <2>1, <3>1, <3>2, <3>3 DEF Behind
  <2> QED
    BY <2>3, <2>4
<1>11. open' <= Cardinality(Opened')
  <2>1. Opened \subseteq Opened'
    BY <1>2, <1>3, <1>4 DEF Opened
  <2> QED
    BY <1>2, <2>1, OpenedGrows
<1> QED
  BY <1>2, <1>3, <1>4, <1>7, <1>8, <1>9, <1>10, <1>11 DEF FindInv

(* Another process that unlinks a file or an empty directory preserves it, *)
(* wherever the walk is.                                                   *)
LEMMA UnlinkStep ==
  ASSUME Fnd!FindAssumption, FindInv, NEW e \in Fnd!Entries, Fnd!Unlink(e)
  PROVE  FindInv'
<1>1. /\ findPc # "exit" /\ Fnd!Children(e) = {} /\ gone' = gone \cup {e}
      /\ UNCHANGED <<tree, findPc, entry, stack, open, found, findStatus>>
  BY DEF Fnd!Unlink
<1>2. /\ Fnd!Entries' = Fnd!Entries /\ Fnd!Matching' = Fnd!Matching
      /\ Fnd!Directories' = Fnd!Directories /\ TreeRight' /\ (Reason => Reason')
      /\ Fnd!Printed' = Fnd!Printed /\ OnStack' = OnStack
  BY <1>1, TreeStays DEF Fnd!Printed, OnStack
<1>3. Pending' <=> Pending
  BY <1>1 DEF Pending
<1>4. Fnd!TypeOK'
  BY <1>1, <1>2 DEF FindInv, Fnd!TypeOK
<1>5. StackRight'
  BY <1>1, <1>3 DEF FindInv, StackRight
<1>6. Ahead'
  <2>1. \A x \in Fnd!Entries \ gone : tree.parent[x] # e
    BY <1>1 DEF Fnd!Children
  <2>2. \A x \in Fnd!Entries' \ gone' : x \in Fnd!Entries \ gone
    BY <1>1, <1>2
  <2> QED
    BY <1>1, <1>2, <1>3, <2>1, <2>2 DEF FindInv, Ahead
<1>7. Behind'
  BY <1>1, <1>2, <1>3 DEF FindInv, Behind
<1>8. Opened' = Opened /\ open' <= Cardinality(Opened')
  <2>1. Opened' = Opened
    BY <1>1, <1>2, <1>3 DEF Opened
  <2> QED
    BY <1>1, <2>1, OpenedGrows
<1> QED
  BY <1>1, <1>2, <1>4, <1>5, <1>6, <1>7, <1>8 DEF FindInv

(* The tree that stands in for the others when find does not run.          *)
LEMMA DefaultTree ==
  LET t == [parent |-> <<0>>, kind |-> <<"dir">>] IN
  Len(t.kind) \in Nat \ {0} /\ t \in Fnd!TreesOf(Len(t.kind))
<1> DEFINE t == [parent |-> <<0>>, kind |-> <<"dir">>]
<1>1. Len(t.kind) = 1
  OBVIOUS
<1>2. /\ t.parent \in [1 .. 1 -> 0 .. 1 - 1] /\ t.parent[1] = 0
      /\ t.kind \in [1 .. 1 -> {"dir", "match", "other"}]
  OBVIOUS
<1>3. 2 .. 1 = {}
  OBVIOUS
<1>4. t \in Fnd!TreesOf(1)
  <2>1. t \in [parent : {t.parent}, kind : [1 .. 1 -> {"dir", "match", "other"}]]
    BY <1>2
  <2> HIDE DEF t
  <2>2. t.parent \in {q \in [1 .. 1 -> 0 .. 1 - 1] :
            /\ q[1] = 0
            /\ \A e \in 2 .. 1 : q[e] \in 1 .. e - 1 /\ q[e] \in Fnd!Above(q, e - 1)}
    BY <1>2, <1>3, Zenon
  <2> QED
    BY <1>2, <1>3, <2>1, <2>2 DEF Fnd!TreesOf
<1> QED
  BY <1>1, <1>4

(* The walk begins at its first entry with everything ahead.               *)
LEMMA FindStarts ==
  ASSUME Fnd!FindAssumption, Init
  PROVE  FindInv
<1>1. TreeRight
  <2>1. CASE tree \in Trees
    BY <2>1 DEF Fnd!FindAssumption, TreeRight
  <2>2. CASE tree = [parent |-> <<0>>, kind |-> <<"dir">>]
    BY <2>2, DefaultTree DEF TreeRight
  <2> QED
    BY <2>1, <2>2 DEF Init
<1>2. /\ gone = {} /\ findPc = "open" /\ entry = 1
      /\ stack = <<>> /\ open = 0 /\ found = <<>> /\ findStatus = 0
  BY DEF Init, Fnd!Start
<1>3. Len(tree.kind) \in Nat /\ Len(tree.kind) >= 1 /\ Fnd!Entries = 1 .. Len(tree.kind)
      /\ \A x \in 2 .. Len(tree.kind) : tree.parent[x] \in 1 .. x - 1
  BY <1>1, TreeIs
<1>4. Pending /\ Len(stack) = 0 /\ Len(found) = 0 /\ 1 .. 0 = {} /\ 2 .. 0 = {}
  BY <1>2 DEF Pending
<1>5. Fnd!TypeOK
  <2>1. 0 \in 0 .. Descriptors - Fnd!Standard
    BY DEF Fnd!FindAssumption, Fnd!Standard
  <2> QED
    BY <1>2, <1>3, <2>1 DEF Fnd!TypeOK
<1>6. StackRight
  BY <1>2, <1>4 DEF StackRight
<1>7. Ahead
  <2>1. ASSUME NEW x \in Fnd!Entries, x > 1
        PROVE  tree.parent[x] > 1 \/ tree.parent[x] = 1
    <3>1. x \in 2 .. Len(tree.kind)
      BY <1>3, <2>1
    <3>2. tree.parent[x] \in 1 .. x - 1 /\ x \in Nat
      BY <1>3, <3>1
    <3> QED
      BY <3>2
  <2> QED
    BY <1>2, <1>4, <2>1 DEF Ahead
<1>8. Behind
  <2>1. \A x \in Fnd!Matching : ~(x < 1)
    <3>1. \A x \in Fnd!Entries : ~(x < 1)
      BY <1>3
    <3> QED
      BY <3>1 DEF Fnd!Matching
  <2> QED
    BY <1>2, <1>4, <2>1 DEF Behind
<1>9. open <= Cardinality(Opened)
  <2>1. Opened = {}
    <3>1. \A d \in Fnd!Directories : ~(d < 1)
      BY <1>3 DEF Fnd!Directories
    <3> QED
      BY <1>2, <1>4, <3>1 DEF Opened
  <2> QED
    BY <1>2, <2>1, FS_EmptySet
<1> QED
  BY <1>1, <1>2, <1>5, <1>6, <1>7, <1>8, <1>9 DEF FindInv

(* The invariant of the walk holds for every set of trees, numbers of      *)
(* descriptors and unlinks.                                                *)
THEOREM FindRight == Spec => []FindInv
<1> USE ProcessesAssumption DEF ProcessesAssumption
<1>1. Init => FindInv
  BY FindStarts
<1>2. FindInv /\ [Next]_vars => FindInv'
  <2> SUFFICES ASSUME FindInv, [Next]_vars PROVE FindInv'
    OBVIOUS
  <2>1. CASE InFind /\ Fnd!Next
    <3>1. CASE Fnd!OpenDirectory
      BY <3>1, OpenStep
    <3>2. CASE Fnd!OpenFails \/ Fnd!StatFails
      BY <3>2, FailsStep
    <3>3. CASE Fnd!ReadEntry
      BY <3>3, ReadEntryStep
    <3>4. CASE Fnd!Return
      BY <3>4, ReturnStep
    <3>5. CASE Fnd!Stat
      BY <3>5, StatStep
    <3>6. CASE \E e \in Fnd!Entries : Fnd!Unlink(e)
      BY <3>6, UnlinkStep
    <3> QED
      BY <2>1, <3>1, <3>2, <3>3, <3>4, <3>5, <3>6 DEF Fnd!Next, Fnd!Walk
  <2>2. CASE UNCHANGED findVars
    <3>1. UNCHANGED <<tree, gone, findPc, entry, stack, open, found, findStatus>>
      BY <2>2 DEF findVars
    <3>2. /\ Fnd!Entries' = Fnd!Entries /\ Fnd!Matching' = Fnd!Matching
          /\ Fnd!Directories' = Fnd!Directories /\ TreeRight' /\ (Reason => Reason')
          /\ Fnd!Printed' = Fnd!Printed /\ OnStack' = OnStack /\ Pending' = Pending
      BY <3>1, TreeStays DEF Fnd!Printed, OnStack, Pending
    <3>3. Fnd!TypeOK'
      BY <3>1, <3>2 DEF FindInv, Fnd!TypeOK
    <3>4. StackRight' /\ Behind'
      BY <3>1, <3>2 DEF FindInv, StackRight, Behind
    <3>5. Ahead'
      BY <3>1, <3>2 DEF FindInv, Ahead
    <3>6. open' <= Cardinality(Opened')
      <4>1. Opened' = Opened
        BY <3>1, <3>2 DEF Opened
      <4> QED
        BY <3>1, <4>1, OpenedGrows
    <3> QED
      BY <3>1, <3>2, <3>3, <3>4, <3>5, <3>6 DEF FindInv
  <2> QED
    BY <2>1, <2>2 DEF Next, vars, InSieve, InFork, InXargs, InShell
<1> QED
  BY <1>1, <1>2, PTL DEF Spec

(* find.c: the walk prints files of the name only, each once and in order; *)
(* if it ends well, all of them that are still there; and if it fails,     *)
(* then because there are too many directories or too long a path, or      *)
(* because the tree has changed or was none.                               *)
THEOREM FindComplete == Spec => []FindsOrFails
<1> USE ProcessesAssumption DEF ProcessesAssumption
<1>1. FindInv => FindsOrFails
  <2> SUFFICES ASSUME FindInv PROVE Fnd!FindsOrFails
    BY DEF FindsOrFails
  <2>1. Fnd!Entries = 1 .. Len(tree.kind) /\ found \in Seq(1 .. Len(tree.kind))
        /\ entry \in 1 .. Len(tree.kind) /\ Len(tree.kind) \in Nat
    BY FindTypes
  <2>2. Fnd!Printed \subseteq Fnd!Matching
    <3>1. DOMAIN found = 1 .. Len(found)
      BY <2>1
    <3> QED
      BY <3>1 DEF FindInv, Behind, Fnd!Printed
  <2>3. \A k \in 2 .. Len(found) : found[k - 1] < found[k]
    BY DEF FindInv, Behind
  <2>4. findPc = "exit" /\ findStatus = 0 => Fnd!Matching \ gone \subseteq Fnd!Printed
    <3> SUFFICES ASSUME findPc = "exit", findStatus = 0, NEW x \in Fnd!Matching \ gone
                 PROVE  x \in Fnd!Printed
      OBVIOUS
    <3>1. ~Pending /\ OnStack = {}
      <4>1. stack = <<>>
        BY DEF FindInv, StackRight
      <4>2. 1 .. Len(stack) = {}
        BY <4>1
      <4> QED
        BY <4>2 DEF Pending, OnStack
    <3>2. x \in Fnd!Entries \ gone
      BY DEF Fnd!Matching
    <3>3. x <= entry
      BY <3>1, <3>2, NothingAhead
    <3>4. x < entry \/ x = entry
      BY <2>1, <3>2, <3>3
    <3> QED
      BY <3>1, <3>4 DEF FindInv, Behind
  <2>5. findStatus = 1 =>
          \/ Fnd!Standard + Fnd!Cardinality(Fnd!Directories) >= Descriptors
          \/ \E d \in Fnd!Directories : ~Fnd!HasRoom(d)
          \/ gone # {} \/ 1 \notin Fnd!Directories
    <3>1. Fnd!Cardinality(Fnd!Directories) = Cardinality(Fnd!Directories)
      BY DEF Fnd!Cardinality, Cardinality, Fnd!IsFiniteSet, IsFiniteSet
    <3> QED
      BY <3>1 DEF FindInv, Reason
  <2> QED
    BY <2>2, <2>3, <2>4, <2>5 DEF Fnd!FindsOrFails
<1> QED
  BY <1>1, FindRight, PTL

-----------------------------------------------------------------------------
(* xargs.c.  How many elements of a set of numbers come before k.          *)
Before(A, k) == {x \in A : x < k}

(* Sets are as large in the instances as here.                             *)
LEMMA XargsCardinality ==
  \A A : Xrg!Cardinality(A) = Cardinality(A)
BY DEF Xrg!Cardinality, Cardinality, Xrg!IsFiniteSet, IsFiniteSet

(* They are finitely many.                                                 *)
LEMMA BeforeFinite ==
  ASSUME NEW A, IsFiniteSet(A), NEW k
  PROVE  IsFiniteSet(Before(A, k)) /\ Cardinality(Before(A, k)) \in Nat
         /\ Cardinality(Before(A, k)) <= Cardinality(A)
<1>1. Before(A, k) \subseteq A
  BY DEF Before
<1> QED
  BY <1>1, FS_Subset, FS_CardinalityType

(* No two elements have as many before them.                               *)
LEMMA RanksDiffer ==
  ASSUME NEW A \in SUBSET Nat, IsFiniteSet(A), NEW j \in A, NEW k \in A,
         Cardinality(Before(A, j)) = Cardinality(Before(A, k))
  PROVE  j = k
<1>1. ASSUME NEW x \in A, NEW y \in A, x < y
      PROVE  Cardinality(Before(A, x)) < Cardinality(Before(A, y))
  <2>1. Before(A, x) \cup {x} \subseteq Before(A, y) /\ x \notin Before(A, x)
    <3>1. x \in Nat /\ \A z \in A : z \in Nat /\ (z < x => z < y) /\ ~(x < x)
      BY <1>1
    <3> QED
      BY <1>1, <3>1 DEF Before
  <2>2. IsFiniteSet(Before(A, x)) /\ Cardinality(Before(A, x)) \in Nat
        /\ IsFiniteSet(Before(A, y)) /\ Cardinality(Before(A, y)) \in Nat
    BY BeforeFinite
  <2>3. Cardinality(Before(A, x) \cup {x}) = Cardinality(Before(A, x)) + 1
    BY <2>1, <2>2, FS_AddElement
  <2>4. Cardinality(Before(A, x) \cup {x}) <= Cardinality(Before(A, y))
    BY <2>1, <2>2, FS_Subset
  <2> QED
    BY <2>2, <2>3, <2>4
<1>2. Cardinality(Before(A, j)) \in Nat /\ j \in Nat /\ k \in Nat
  BY BeforeFinite
<1>3. CASE j < k
  BY <1>1, <1>2, <1>3
<1>4. CASE k < j
  BY <1>1, <1>2, <1>4
<1> QED
  BY <1>2, <1>3, <1>4

(* The m-th element is the one with m - 1 before it.                       *)
LEMMA NthIs ==
  ASSUME NEW A \in SUBSET Nat, IsFiniteSet(A), NEW m, NEW k \in A,
         Cardinality(Before(A, k)) = m - 1
  PROVE  Xrg!Nth(A, m) = k
<1> DEFINE c == CHOOSE x \in A : Cardinality(Before(A, x)) = m - 1
<1>1. c \in A /\ Cardinality(Before(A, c)) = m - 1
  OBVIOUS
<1>2. c = k
  BY <1>1, RanksDiffer
<1> QED
  BY <1>2, XargsCardinality DEF Xrg!Nth, Before

(* The first element of a set, and the others.                             *)
LEMMA NthBehind ==
  ASSUME NEW B \in SUBSET Nat, IsFiniteSet(B), NEW a \in Nat, \A x \in B : a < x
  PROVE  LET A == {a} \cup B IN
         /\ IsFiniteSet(A) /\ Cardinality(A) = Cardinality(B) + 1 /\ Cardinality(B) \in Nat
         /\ Xrg!Nth(A, 1) = a
         /\ \A m \in 1 .. Cardinality(B) :
               (\E x \in B : Cardinality(Before(B, x)) = m - 1)
                  => Xrg!Nth(A, m + 1) = Xrg!Nth(B, m)
         /\ \A x \in B : Cardinality(Before(A, x)) = Cardinality(Before(B, x)) + 1
<1> DEFINE A == {a} \cup B
<1>1. a \notin B /\ A \in SUBSET Nat /\ a \in A /\ A = B \cup {a}
  OBVIOUS
<1>2. IsFiniteSet(A) /\ Cardinality(A) = Cardinality(B) + 1 /\ Cardinality(B) \in Nat
  BY <1>1, FS_AddElement, FS_CardinalityType
<1>3. Xrg!Nth(A, 1) = a
  <2>1. Before(A, a) = {}
    <3>1. \A x \in A : ~(x < a)
      OBVIOUS
    <3> HIDE DEF A
    <3> QED
      BY <3>1 DEF Before
  <2>2. Cardinality(Before(A, a)) = 1 - 1
    BY <2>1, FS_EmptySet
  <2> HIDE DEF A
  <2> QED
    BY <1>1, <1>2, <2>2, NthIs
<1>4. ASSUME NEW x \in B
      PROVE  Cardinality(Before(A, x)) = Cardinality(Before(B, x)) + 1
  <2>1. Before(A, x) = Before(B, x) \cup {a} /\ a \notin Before(B, x)
    BY DEF Before
  <2>2. IsFiniteSet(Before(B, x)) /\ Cardinality(Before(B, x)) \in Nat
    BY BeforeFinite
  <2> QED
    BY <2>1, <2>2, FS_AddElement
<1>5. ASSUME NEW m \in 1 .. Cardinality(B), NEW x \in B, Cardinality(Before(B, x)) = m - 1
      PROVE  Xrg!Nth(A, m + 1) = Xrg!Nth(B, m)
  <2>1. Xrg!Nth(B, m) = x
    BY <1>5, NthIs
  <2>2. Cardinality(Before(A, x)) = (m + 1) - 1 /\ x \in A
    BY <1>2, <1>4, <1>5
  <2> HIDE DEF A
  <2>3. Xrg!Nth(A, m + 1) = x
    BY <1>1, <1>2, <2>2, NthIs
  <2> QED
    BY <2>1, <2>3
<1> QED
  BY <1>2, <1>3, <1>4, <1>5

(* A finite set of numbers has an m-th element.                            *)
LEMMA NthExists ==
  ASSUME NEW A \in SUBSET Nat, IsFiniteSet(A), NEW m \in 1 .. Cardinality(A)
  PROVE  \E x \in A : Cardinality(Before(A, x)) = m - 1
<1> DEFINE P(B) == \A j \in 1 .. Cardinality(B) : \E x \in B : Cardinality(Before(B, x)) = j - 1
           T == {c \in Nat : \A B \in SUBSET Nat : IsFiniteSet(B) /\ Cardinality(B) = c => P(B)}
<1>1. 0 \in T
  OBVIOUS
<1>2. ASSUME NEW c \in T PROVE c + 1 \in T
  <2> SUFFICES ASSUME NEW B \in SUBSET Nat, IsFiniteSet(B), Cardinality(B) = c + 1,
                      NEW j \in 1 .. c + 1
               PROVE  \E x \in B : Cardinality(Before(B, x)) = j - 1
    OBVIOUS
  <2>1. c \in Nat /\ B # {}
    BY FS_EmptySet
  <2>2. PICK a \in B : \A x \in B : a <= x
    BY <2>1, LeastNat
  <2> DEFINE R == B \ {a}
  <2>3. IsFiniteSet(R) /\ Cardinality(R) = c /\ R \in SUBSET Nat
    <3>1. IsFiniteSet(R) /\ Cardinality(R) = Cardinality(B) - 1
      BY FS_RemoveElement
    <3> QED
      BY <2>1, <3>1
  <2>4. B = {a} \cup R /\ a \in Nat /\ \A x \in R : a < x
    BY <2>2
  <2>5. P(R)
    BY <2>3
  <2> HIDE DEF R
  <2>6. \A x \in R : Cardinality(Before(B, x)) = Cardinality(Before(R, x)) + 1
    BY <2>3, <2>4, NthBehind
  <2>7. CASE j = 1
    <3>1. Before(B, a) = {}
      <4>1. \A x \in B : ~(x < a)
        BY <2>2
      <4> QED
        BY <4>1 DEF Before
    <3>2. Cardinality(Before(B, a)) = j - 1
      BY <2>7, <3>1, FS_EmptySet
    <3> QED
      BY <3>2
  <2>8. CASE j # 1
    <3>1. j - 1 \in 1 .. c
      BY <2>1, <2>8
    <3>2. PICK x \in R : Cardinality(Before(R, x)) = (j - 1) - 1
      BY <2>3, <2>5, <3>1
    <3>3. Cardinality(Before(B, x)) = j - 1
      BY <2>1, <2>6, <3>1, <3>2
    <3> QED
      BY <2>4, <3>3
  <2> QED
    BY <2>7, <2>8
<1>3. T \in SUBSET Nat
  OBVIOUS
<1> HIDE DEF T
<1>4. Cardinality(A) \in T
  BY <1>1, <1>2, <1>3, Inductive, FS_CardinalityType
<1> QED
  BY <1>4 DEF T

(* A run of bytes ends somewhere.                                          *)
LEMMA SkipIs ==
  ASSUME NEW s, Len(s) \in Nat, NEW k \in 1 .. Len(s) + 1, NEW bytes
  PROVE  LET e == Xrg!Skip(s, k, bytes) IN
         /\ e \in k .. Len(s) + 1
         /\ \A m \in k .. e - 1 : s[m] \in bytes
         /\ e <= Len(s) => s[e] \notin bytes
<1> DEFINE T == {e \in k .. Len(s) + 1 : e <= Len(s) => s[e] \notin bytes}
<1>1. T \in SUBSET Nat /\ Len(s) + 1 \in T
  OBVIOUS
<1>2. PICK e \in T : \A x \in T : e <= x
  BY <1>1, LeastNat
<1>3. ASSUME NEW m \in k .. e - 1 PROVE s[m] \in bytes
  <2>1. m \in k .. Len(s) + 1 /\ ~(e <= m) /\ m <= Len(s)
    BY <1>2, <1>3
  <2> QED
    BY <1>2, <2>1
<1>4. \E x \in k .. Len(s) + 1 :
        /\ \A m \in k .. x - 1 : s[m] \in bytes
        /\ x <= Len(s) => s[x] \notin bytes
  BY <1>2, <1>3
<1> HIDE DEF T
<1> QED
  BY <1>4 DEF Xrg!Skip

(* Where the words begin in what is left of a line from its k-th byte.     *)
Heads(s, k) ==
    IF k > Len(s) THEN {}
    ELSE {k} \cup {j \in k + 1 .. Len(s) : s[j] # "blank" /\ s[j - 1] = "blank"}

(* readline() meets them one after the other.                              *)
LEMMA NextHead ==
  ASSUME NEW s \in Seq({"a", "blank"}), NEW k \in 1 .. Len(s)
  PROVE  LET e == Xrg!Skip(s, k, {"a"})
             b == Xrg!Skip(s, e, {"blank"})
         IN  /\ e \in k .. Len(s) + 1 /\ b \in k + 1 .. Len(s) + 1
             /\ Heads(s, k) = {k} \cup Heads(s, b)
             /\ Xrg!Word(s, k) = SubSeq(s, k, e - 1)
<1> DEFINE e == Xrg!Skip(s, k, {"a"})
           b == Xrg!Skip(s, e, {"blank"})
           L == Len(s)
<1>1. L \in Nat /\ \A j \in 1 .. L : s[j] \in {"a", "blank"}
  OBVIOUS
<1>2. /\ e \in k .. L + 1
      /\ \A m \in k .. e - 1 : s[m] \in {"a"}
      /\ e <= L => s[e] \notin {"a"}
  BY <1>1, SkipIs
<1>3. /\ b \in e .. L + 1
      /\ \A m \in e .. b - 1 : s[m] \in {"blank"}
      /\ b <= L => s[b] \notin {"blank"}
  BY <1>1, <1>2, SkipIs
<1> HIDE DEF e, b, L
<1>4. k \in 1 .. L
  BY DEF L
<1>5. /\ \A m \in k .. e - 1 : s[m] = "a"
      /\ \A m \in e .. b - 1 : s[m] = "blank"
      /\ e <= L => s[e] = "blank"
      /\ b <= L => s[b] = "a"
  BY <1>1, <1>2, <1>3, <1>4
<1>6. b \in k + 1 .. L + 1
  <2>1. CASE e = L + 1
    BY <1>1, <1>2, <1>3, <1>4, <2>1
  <2>2. CASE e \in k .. L
    <3>1. b # e
      BY <1>5, <2>2
    <3> QED
      BY <1>1, <1>3, <1>4, <2>2, <3>1
  <2> QED
    BY <1>1, <1>2, <1>4, <2>1, <2>2
<1>7. b <= L => e < b
  BY <1>1, <1>2, <1>3, <1>4, <1>5
<1>8. ASSUME NEW j \in k + 1 .. L
      PROVE  (s[j] # "blank" /\ s[j - 1] = "blank") <=> (b <= L /\ (j = b \/ (j > b /\ s[j] # "blank" /\ s[j - 1] = "blank")))
  <2>1. CASE j < e
    <3>1. j - 1 \in k .. e - 1 /\ ~(j = b) /\ ~(j > b)
      BY <1>1, <1>2, <1>3, <1>4, <2>1
    <3> QED
      BY <1>5, <3>1
  <2>2. CASE e <= j /\ j < b
    <3>1. j \in e .. b - 1 /\ ~(j = b) /\ ~(j > b)
      BY <1>1, <1>2, <1>3, <1>4, <2>2
    <3> QED
      BY <1>5, <3>1
  <2>3. CASE j = b
    <3>1. j - 1 \in e .. b - 1 /\ b <= L
      BY <1>1, <1>2, <1>3, <1>4, <1>7, <2>3
    <3> QED
      BY <1>5, <2>3, <3>1
  <2>4. CASE j > b
    <3>1. b <= L
      BY <1>1, <1>3, <2>4
    <3> QED
      BY <2>4, <3>1
  <2> QED
    BY <1>1, <1>2, <1>3, <1>4, <2>1, <2>2, <2>3, <2>4
<1>9. Heads(s, k) = {k} \cup Heads(s, b)
  <2>1. \A j : j \in Heads(s, k) <=> j = k \/ (j \in k + 1 .. L /\ s[j] # "blank" /\ s[j - 1] = "blank")
    BY <1>1, <1>4 DEF Heads, L
  <2>2. \A j : j \in Heads(s, b) <=>
              b <= L /\ (j = b \/ (j \in b + 1 .. L /\ s[j] # "blank" /\ s[j - 1] = "blank"))
    BY <1>1, <1>6 DEF Heads, L
  <2>3. \A j : j \in Heads(s, k) <=> j = k \/ j \in Heads(s, b)
    <3> SUFFICES ASSUME NEW j PROVE j \in Heads(s, k) <=> j = k \/ j \in Heads(s, b)
      OBVIOUS
    <3>1. CASE j \in k + 1 .. L
      <4>1. j \in b + 1 .. L <=> j > b
        BY <1>1, <1>4, <1>6, <3>1
      <4>2. j # k
        BY <1>4, <3>1
      <4> QED
        BY <1>8, <2>1, <2>2, <3>1, <4>1, <4>2
    <3>2. CASE j \notin k + 1 .. L
      <4>1. j \notin b + 1 .. L /\ (b <= L => j # b)
        BY <1>1, <1>4, <1>6, <3>2
      <4> QED
        BY <2>1, <2>2, <3>2, <4>1
    <3> QED
      BY <3>1, <3>2
  <2> QED
    BY <2>3
<1>10. Xrg!Word(s, k) = SubSeq(s, k, e - 1)
  <2>1. {x \in k .. L : \A y \in k .. x : s[y] # "blank"} = k .. e - 1
    <3>1. ASSUME NEW x \in k .. L, \A y \in k .. x : s[y] # "blank" PROVE x \in k .. e - 1
      <4>1. CASE e <= x
        <5>1. e \in k .. x /\ e <= L
          BY <1>1, <1>2, <1>4, <4>1
        <5> QED
          BY <1>5, <3>1, <5>1
      <4> QED
        BY <1>1, <1>2, <1>4, <4>1
    <3>2. ASSUME NEW x \in k .. e - 1
          PROVE  x \in k .. L /\ \A y \in k .. x : s[y] # "blank"
      <4>1. x \in k .. L /\ \A y \in k .. x : y \in k .. e - 1
        BY <1>1, <1>2, <1>4
      <4> QED
        BY <1>5, <4>1
    <3> QED
      BY <3>1, <3>2
  <2>2. Cardinality(k .. e - 1) = e - k
    <3>1. k \in Int /\ e - 1 \in Int /\ (k > e - 1 => e = k)
      BY <1>1, <1>2, <1>4
    <3>2. Cardinality(k .. e - 1) = IF k > e - 1 THEN 0 ELSE (e - 1) - k + 1
      BY <3>1, FS_Interval
    <3> QED
      BY <1>1, <1>2, <1>4, <3>1, <3>2
  <2>3. k - 1 + Cardinality(k .. e - 1) = e - 1
    BY <1>1, <1>2, <1>4, <2>2
  <2> QED
    BY <2>1, <2>3, XargsCardinality DEF Xrg!Word, L
<1> QED
  BY <1>2, <1>6, <1>9, <1>10 DEF e, b, L

(* The words of what is left of a line.                                    *)
WordsFrom(s, k) ==
    LET A == Heads(s, k)
    IN  [m \in 1 .. Cardinality(A) |-> Xrg!Word(s, Xrg!Nth(A, m))]

(* There are no more words than bytes.                                     *)
LEMMA HeadsFinite ==
  ASSUME NEW s \in Seq({"a", "blank"}), NEW k \in 1 .. Len(s) + 1
  PROVE  /\ Heads(s, k) \in SUBSET Nat /\ Heads(s, k) \subseteq k .. Len(s)
         /\ IsFiniteSet(Heads(s, k)) /\ Cardinality(Heads(s, k)) \in Nat
         /\ Cardinality(Heads(s, k)) <= Len(s)
<1>1. Len(s) \in Nat /\ Heads(s, k) \subseteq k .. Len(s) /\ Heads(s, k) \subseteq 1 .. Len(s)
  BY DEF Heads
<1>2. IsFiniteSet(1 .. Len(s)) /\ Cardinality(1 .. Len(s)) = Len(s)
  <2> DEFINE L == Len(s)
  <2>1. L \in Nat
    BY <1>1
  <2> HIDE DEF L
  <2>2. IsFiniteSet(1 .. L) /\ Cardinality(1 .. L) = L
    <3>1. 1 \in Int /\ L \in Int
      BY <2>1
    <3>2. IsFiniteSet(1 .. L) /\ Cardinality(1 .. L) = IF 1 > L THEN 0 ELSE L - 1 + 1
      BY <3>1, FS_Interval
    <3> QED
      BY <2>1, <3>2
  <2> QED
    BY <2>2 DEF L
<1>3. IsFiniteSet(Heads(s, k)) /\ Cardinality(Heads(s, k)) <= Len(s)
  BY <1>1, <1>2, FS_Subset
<1> QED
  BY <1>1, <1>3, FS_CardinalityType

(* A word is made of bytes that are not blanks.                            *)
LEMMA WordIs ==
  ASSUME NEW s \in Seq({"a", "blank"}), NEW k \in 1 .. Len(s)
  PROVE  Xrg!Word(s, k) \in Seq({"a"})
<1> DEFINE e == Xrg!Skip(s, k, {"a"})
<1>1. Xrg!Word(s, k) = SubSeq(s, k, e - 1) /\ e \in k .. Len(s) + 1
  BY NextHead
<1>2. \A m \in k .. e - 1 : s[m] \in {"a"}
  BY SkipIs
<1> HIDE DEF e
<1>3. SubSeq(s, k, e - 1) \in Seq({"a"})
  BY <1>1, <1>2, SubSeqProperties
<1> QED
  BY <1>1, <1>3

(* The words of the rest are words, one for each place where one begins.   *)
LEMMA WordsFromIs ==
  ASSUME NEW s \in Seq({"a", "blank"}), NEW k \in 1 .. Len(s) + 1
  PROVE  /\ WordsFrom(s, k) \in Seq(Seq({"a"}))
         /\ Len(WordsFrom(s, k)) = Cardinality(Heads(s, k))
<1> DEFINE A == Heads(s, k)
<1>1. /\ A \in SUBSET Nat /\ A \subseteq 1 .. Len(s) /\ IsFiniteSet(A)
      /\ Cardinality(A) \in Nat
  BY HeadsFinite
<1> HIDE DEF A
<1>2. ASSUME NEW m \in 1 .. Cardinality(A) PROVE Xrg!Word(s, Xrg!Nth(A, m)) \in Seq({"a"})
  <2>1. PICK x \in A : Cardinality(Before(A, x)) = m - 1
    BY <1>1, NthExists
  <2>2. Xrg!Nth(A, m) = x /\ x \in 1 .. Len(s)
    BY <1>1, <2>1, NthIs
  <2> QED
    BY <2>2, WordIs
<1> QED
  BY <1>1, <1>2 DEF WordsFrom, A

(* They are the next word and those of the rest behind it.                 *)
LEMMA WordsFromNext ==
  ASSUME NEW s \in Seq({"a", "blank"}), NEW k \in 1 .. Len(s)
  PROVE  LET e == Xrg!Skip(s, k, {"a"})
             b == Xrg!Skip(s, e, {"blank"})
         IN  WordsFrom(s, k) = <<SubSeq(s, k, e - 1)>> \o WordsFrom(s, b)
<1> DEFINE e == Xrg!Skip(s, k, {"a"})
           b == Xrg!Skip(s, e, {"blank"})
           w == SubSeq(s, k, e - 1)
           A == Heads(s, k)
           B == Heads(s, b)
           u == WordsFrom(s, b)
           t == <<w>> \o u
<1>1. /\ b \in k + 1 .. Len(s) + 1 /\ A = {k} \cup B /\ Xrg!Word(s, k) = w
  BY NextHead
<1>2. b \in 1 .. Len(s) + 1 /\ k \in 1 .. Len(s) + 1 /\ Len(s) \in Nat /\ k \in Nat
  BY <1>1
<1>3. /\ u \in Seq(Seq({"a"})) /\ Len(u) = Cardinality(B)
      /\ WordsFrom(s, k) \in Seq(Seq({"a"})) /\ Len(WordsFrom(s, k)) = Cardinality(A)
  <2> HIDE DEF b
  <2> QED
    BY <1>2, WordsFromIs
<1>4. w \in Seq({"a"})
  BY <1>1, WordIs
<1>5. B \in SUBSET Nat /\ B \subseteq b .. Len(s) /\ IsFiniteSet(B)
  <2> HIDE DEF b
  <2> QED
    BY <1>2, HeadsFinite
<1>6. WordsFrom(s, k) = [m \in 1 .. Cardinality(A) |-> Xrg!Word(s, Xrg!Nth(A, m))]
      /\ u = [m \in 1 .. Cardinality(B) |-> Xrg!Word(s, Xrg!Nth(B, m))]
  BY DEF WordsFrom
<1> HIDE DEF e, b, A, B, u, w
<1>7. \A x \in B : k < x
  BY <1>1, <1>2, <1>5
<1>8. /\ Cardinality(A) = Cardinality(B) + 1 /\ Cardinality(B) \in Nat
      /\ Xrg!Nth(A, 1) = k
      /\ \A m \in 1 .. Cardinality(B) : Xrg!Nth(A, m + 1) = Xrg!Nth(B, m)
  <2>1. \A m \in 1 .. Cardinality(B) : \E x \in B : Cardinality(Before(B, x)) = m - 1
    BY <1>5, NthExists
  <2> QED
    BY <1>1, <1>2, <1>5, <1>7, <2>1, NthBehind
<1>9. /\ t \in Seq(Seq({"a"})) /\ Len(t) = Len(u) + 1 /\ t[1] = w
      /\ \A i \in 2 .. Len(t) : t[i] = u[i - 1]
  BY <1>3, <1>4, PushIs
<1> HIDE DEF t
<1>10. ASSUME NEW i \in 1 .. Cardinality(A) PROVE WordsFrom(s, k)[i] = t[i]
  <2>1. WordsFrom(s, k)[i] = Xrg!Word(s, Xrg!Nth(A, i))
    BY <1>6
  <2>2. CASE i = 1
    BY <1>1, <1>8, <1>9, <2>1, <2>2
  <2>3. CASE i # 1
    <3>1. i - 1 \in 1 .. Cardinality(B) /\ i \in 2 .. Len(t) /\ (i - 1) + 1 = i
      BY <1>3, <1>8, <1>9, <2>3
    <3>2. Xrg!Nth(A, i) = Xrg!Nth(B, i - 1)
      BY <1>8, <3>1
    <3>3. u[i - 1] = Xrg!Word(s, Xrg!Nth(B, i - 1))
      BY <1>6, <3>1
    <3> QED
      BY <1>9, <2>1, <3>1, <3>2, <3>3
  <2> QED
    BY <2>2, <2>3
<1>11. WordsFrom(s, k) = t
  BY <1>3, <1>8, <1>9, <1>10, SeqEqual
<1> QED
  BY <1>11 DEF t, u, b, w, e

(* readline() finds the words of a line, and there are no more of them     *)
(* than bytes.                                                             *)
LEMMA SplitIs ==
  ASSUME NEW s \in Seq({"a", "blank"}), s # <<>>
  PROVE  /\ Xrg!Split(s) = Xrg!Words(s)
         /\ Xrg!Words(s) \in Seq(Seq({"a"})) /\ Len(Xrg!Words(s)) <= Len(s)
<1> DEFINE L == Len(s)
           Next1(g, k) == IF k > Len(s) THEN <<>>
                          ELSE LET e == Xrg!Skip(s, k, {"a"})
                               IN  <<SubSeq(s, k, e - 1)>> \o g[Xrg!Skip(s, e, {"blank"})]
           g == CHOOSE g : g = [k \in 1 .. Len(s) + 1 |->
                          IF k > Len(s) THEN <<>>
                          ELSE LET e == Xrg!Skip(s, k, {"a"})
                               IN  <<SubSeq(s, k, e - 1)>> \o g[Xrg!Skip(s, e, {"blank"})]]
           f == [k \in 1 .. Len(s) + 1 |-> WordsFrom(s, k)]
<1>1. L \in Nat /\ L >= 1
  <2>1. L \in Nat /\ L # 0
    BY EmptySeq
  <2> QED
    BY <2>1
<1>2. Xrg!Split(s) = g[1]
  BY DEF Xrg!Split
<1>3. ASSUME NEW k \in 1 .. L + 1 PROVE f[k] = Next1(f, k)
  <2>1. CASE k \in 1 .. L
    <3> DEFINE e == Xrg!Skip(s, k, {"a"})
               b == Xrg!Skip(s, e, {"blank"})
    <3>1. b \in k + 1 .. L + 1
      BY <2>1, NextHead
    <3>2. b \in 1 .. L + 1 /\ ~(k > L)
      BY <1>1, <2>1, <3>1
    <3>3. f[k] = <<SubSeq(s, k, e - 1)>> \o WordsFrom(s, b)
      BY <2>1, WordsFromNext
    <3> QED
      BY <3>2, <3>3
  <2>2. CASE k = L + 1
    <3>1. k > L /\ Heads(s, k) = {}
      BY <1>1, <2>2 DEF Heads
    <3>2. WordsFrom(s, k) = <<>>
      BY <3>1, FS_EmptySet DEF WordsFrom
    <3> QED
      BY <3>1, <3>2
  <2> HIDE DEF Next1, f
  <2> QED
    BY <1>1, <2>1, <2>2
<1>4. f = [k \in 1 .. Len(s) + 1 |-> Next1(f, k)]
  <2> HIDE DEF Next1
  <2>1. f = [k \in 1 .. Len(s) + 1 |-> f[k]]
    OBVIOUS
  <2> HIDE DEF f
  <2> QED
    BY <1>3, <2>1
<1>5. \A k \in 1 .. L + 1 : g[k] = Next1(g, k)
  <2>1. g = [k \in 1 .. Len(s) + 1 |-> Next1(g, k)]
    <3> HIDE DEF f
    <3> QED
      BY <1>4
  <2> HIDE DEF g, Next1
  <2> QED
    BY <2>1
<1>6. \A k \in 1 .. L : Xrg!Skip(s, Xrg!Skip(s, k, {"a"}), {"blank"}) \in k + 1 .. L + 1
  BY NextHead
<1> HIDE DEF f, g, L
<1> DEFINE T == {d \in Nat : \A k \in 1 .. L + 1 : k >= L + 1 - d => g[k] = f[k]}
<1>7. 0 \in T
  <2>1. ASSUME NEW k \in 1 .. L + 1, k >= L + 1 - 0 PROVE g[k] = f[k]
    <3>1. k > L
      BY <1>1, <2>1
    <3> QED
      BY <1>3, <1>5, <3>1 DEF L
  <2> QED
    BY <2>1
<1>8. ASSUME NEW d \in T PROVE d + 1 \in T
  <2> SUFFICES ASSUME NEW k \in 1 .. L + 1, k >= L + 1 - (d + 1) PROVE g[k] = f[k]
    OBVIOUS
  <2>1. CASE k > L
    BY <1>3, <1>5, <2>1 DEF L
  <2>2. CASE ~(k > L)
    <3> DEFINE b == Xrg!Skip(s, Xrg!Skip(s, k, {"a"}), {"blank"})
    <3>1. b \in k + 1 .. L + 1
      BY <1>1, <1>6, <2>2
    <3>2. b \in 1 .. L + 1 /\ b >= L + 1 - d
      <4> HIDE DEF b
      <4> QED
        BY <1>1, <3>1
    <3>3. g[b] = f[b]
      <4> HIDE DEF b
      <4> QED
        BY <3>2
    <3> QED
      BY <1>3, <1>5, <2>2, <3>3 DEF L
  <2> QED
    BY <2>1, <2>2
<1>9. T \in SUBSET Nat
  OBVIOUS
<1>10. L \in T
  <2> HIDE DEF T
  <2> QED
    BY <1>1, <1>7, <1>8, <1>9, Inductive
<1>11. g[1] = f[1]
  <2>1. 1 \in 1 .. L + 1 /\ 1 >= L + 1 - L
    BY <1>1
  <2> QED
    BY <1>10, <2>1
<1>12. f[1] = WordsFrom(s, 1) /\ Heads(s, 1) = Xrg!Starts(s)
  BY <1>1 DEF f, L, Heads, Xrg!Starts
<1>13. WordsFrom(s, 1) = Xrg!Words(s)
  BY <1>12, XargsCardinality DEF WordsFrom, Xrg!Words
<1>14. WordsFrom(s, 1) \in Seq(Seq({"a"})) /\ Len(WordsFrom(s, 1)) <= L
  <2>1. 1 \in 1 .. Len(s) + 1
    BY <1>1 DEF L
  <2> QED
    BY <2>1, WordsFromIs, HeadsFinite DEF L
<1> QED
  BY <1>2, <1>11, <1>12, <1>13, <1>14 DEF L

(* The loop of main().  What the command of a line is given.               *)
LineRun(k) == Given \o Xrg!Words(lines[k])
LineRuns == {LineRun(k) : k \in 1 .. Len(lines)}
(* The lines whose command has run.                                        *)
DoneWith ==
    {k \in 1 .. at : k < at \/ (xargsPc = "wait" /\ child = <<>>)} \ unforked

(* The array ends behind the words of the line.                            *)
ArrayHolds(words) ==
    /\ \A i \in 1 .. Len(words) : arg[Len(Given) + i] = words[i]
    /\ arg[Len(Given) + Len(words) + 1] = Xrg!Null

XargsInv ==
    /\ Xrg!TypeOK /\ lines \in Seq(Texts) /\ ran \in Seq(LineRuns)
    /\ \A k \in 1 .. Len(Given) : arg[k] = Given[k]
    /\ \A k \in 1 .. at - 1 : Xrg!Runnable(k)
    /\ xargsPc \in {"fork", "wait"} => at <= Len(lines) /\ Xrg!Runnable(at)
    /\ xargsPc = "fork" => ArrayHolds(Xrg!Words(lines[at]))
    /\ child # <<>> => xargsPc = "wait" /\ child = LineRun(at) /\ at \notin unforked
    /\ \A k \in unforked : k <= at /\ (k = at => xargsPc = "wait")
    /\ Xrg!RunOnceEach(DoneWith)
    /\ xargsPc = "exit" =>
          /\ at <= Len(lines) => lines[at] = <<>> \/ Xrg!TooLong(at)
          /\ xargsStatus = 1 <=> at <= Len(lines) /\ Xrg!TooLong(at)
    /\ xargsPc = "overrun" =>
          at <= Len(lines) /\ ~Xrg!TooLong(at) /\ ~Xrg!Fits(Xrg!Words(lines[at]))
    /\ xargsPc # "exit" => xargsStatus = 0

(* What an argument may be.                                                *)
Arg == {Given[k] : k \in DOMAIN Given} \cup {Xrg!Null} \cup Seq({"a"})

(* Words are arguments, and none of them is the null pointer.              *)
LEMMA WordsAreArguments ==
  ASSUME NEW w \in Seq(Seq({"a"}))
  PROVE  /\ w \in Seq(Arg)
         /\ \A i \in 1 .. Len(w) : w[i] \in Seq({"a"}) /\ w[i] \in Arg /\ w[i] # Xrg!Null
<1>1. Len(w) \in Nat /\ w = [i \in 1 .. Len(w) |-> w[i]] /\ \A i \in 1 .. Len(w) : w[i] \in Seq({"a"})
  OBVIOUS
<1>2. \A i \in 1 .. Len(w) : w[i] \in Arg
  BY <1>1 DEF Arg
<1>3. ASSUME NEW i \in 1 .. Len(w), w[i] = <<"null">> PROVE FALSE
  <2>1. <<"null">> \in Seq({"a"})
    BY <1>1, <1>3
  <2>2. Len(<<"null">>) = 1 /\ <<"null">>[1] = "null"
    OBVIOUS
  <2>3. <<"null">>[1] \in {"a"}
    BY <2>1, <2>2
  <2> QED
    BY <2>2, <2>3
<1>4. w \in Seq(Arg)
  BY <1>1, <1>2, SMTT(30)
<1> QED
  BY <1>1, <1>2, <1>3, <1>4 DEF Xrg!Null

(* The types that the invariant gives, in numbers.                         *)
LEMMA XargsTypes ==
  ASSUME Xrg!XargsAssumption, XargsInv
  PROVE  /\ Len(lines) \in Nat /\ at \in 1 .. Len(lines) + 1
         /\ Len(Given) \in Nat /\ Len(Given) >= 1 /\ MaxLine \in Nat /\ MaxLine >= 1
         /\ Given \in Seq(Arg)
         /\ MaxArg \in Nat /\ Len(Given) < MaxArg
         /\ arg \in [1 .. MaxArg -> Arg]
         /\ xargsPc \in {"read", "fork", "wait", "exit", "overrun"}
         /\ xargsStatus \in {0, 1}
         /\ \A k \in 1 .. Len(lines) :
               lines[k] \in Seq({"a", "blank"}) /\ Len(lines[k]) <= MaxLine
<1>1. /\ Given \in Seq({Given[k] : k \in DOMAIN Given}) /\ Given # <<>>
      /\ MaxLine \in Nat \ {0}
      /\ \A s \in Texts : s \in Seq({"a", "blank"}) /\ Len(s) <= MaxLine
      /\ MaxArg \in Nat /\ Len(Given) < MaxArg
  BY DEF Xrg!XargsAssumption
<1>2. Len(Given) \in Nat /\ Len(Given) >= 1 /\ Given \in Seq(Arg)
  <2>1. Len(Given) \in Nat /\ Len(Given) # 0
    BY <1>1, EmptySeq
  <2>2. Given = [k \in 1 .. Len(Given) |-> Given[k]] /\ \A k \in 1 .. Len(Given) : Given[k] \in Arg
    BY <1>1 DEF Arg
  <2> QED
    BY <2>1, <2>2
<1>3. lines \in Seq(Texts) /\ Xrg!TypeOK
  BY DEF XargsInv
<1>4. Len(lines) \in Nat /\ \A k \in 1 .. Len(lines) : lines[k] \in Texts
  BY <1>3
<1> QED
  BY <1>1, <1>2, <1>3, <1>4 DEF Xrg!TypeOK, Xrg!Places, Arg

(* What is known of the words of a line.                                   *)
LEMMA LineIs ==
  ASSUME Xrg!XargsAssumption, XargsInv, NEW k \in 1 .. Len(lines), lines[k] # <<>>
  PROVE  LET w == Xrg!Words(lines[k]) IN
         /\ Xrg!Split(lines[k]) = w /\ w \in Seq(Seq({"a"}))
         /\ LineRun(k) # <<>>
<1>1. lines[k] \in Seq({"a", "blank"})
  BY XargsTypes
<1> DEFINE w == Xrg!Words(lines[k])
<1>2. Xrg!Split(lines[k]) = w /\ w \in Seq(Seq({"a"}))
  BY <1>1, SplitIs
<1> HIDE DEF w
<1>3. Len(w) \in Nat
  BY <1>2
<1>4. LineRun(k) # <<>>
  <2>1. Given \in Seq(Arg) /\ w \in Seq(Arg) /\ Len(Given) >= 1 /\ Len(Given) \in Nat
    BY <1>2, XargsTypes, WordsAreArguments
  <2>2. Len(Given \o w) = Len(Given) + Len(w)
    BY <2>1, ConcatProperties
  <2>3. Len(Given \o w) # 0
    BY <1>3, <2>1, <2>2
  <2> QED
    BY <2>3, EmptySeq DEF LineRun, w
<1> QED
  BY <1>1, <1>2, <1>3, <1>4 DEF w

(* readline() puts the words of a line behind the arguments that are given.*)
LEMMA WrittenIs ==
  ASSUME Xrg!XargsAssumption, XargsInv, NEW w \in Seq(Seq({"a"}))
  PROVE  LET b == Xrg!Written(w) IN
         /\ b \in [1 .. MaxArg -> Arg]
         /\ \A k \in 1 .. Len(Given) : b[k] = Given[k]
         /\ \A k \in 1 .. MaxArg :
               b[k] = Xrg!Null \/ b[k] \in Seq({"a"}) \/ k <= Len(Given)
         /\ \A i \in 1 .. Len(w) : Len(Given) + i \in 1 .. MaxArg => b[Len(Given) + i] = w[i]
<1> DEFINE g == Len(Given)
           P == 1 .. MaxArg
           b == [k \in P |-> IF k - g \in 1 .. Len(w) THEN w[k - g] ELSE arg[k]]
<1>1. /\ g \in Nat /\ g >= 1 /\ MaxArg \in Nat /\ g < MaxArg /\ arg \in [P -> Arg]
      /\ Len(w) \in Nat
  BY XargsTypes
<1>2. /\ \A k \in 1 .. g : arg[k] = Given[k]
      /\ \A k \in P : arg[k] = Xrg!Null \/ arg[k] \in Seq({"a"}) \/ k <= g
  BY DEF XargsInv, Xrg!TypeOK, Xrg!Places
<1>3. Xrg!Written(w) = b
  <2>1. DOMAIN w = 1 .. Len(w)
    OBVIOUS
  <2> QED
    BY <2>1 DEF Xrg!Written, Xrg!Places
<1>4. \A i \in 1 .. Len(w) : w[i] \in Seq({"a"}) /\ w[i] \in Arg
  BY WordsAreArguments
<1> HIDE DEF g
<1>5. b \in [P -> Arg]
  BY <1>1, <1>4
<1>6. \A k \in P : b[k] = IF k - g \in 1 .. Len(w) THEN w[k - g] ELSE arg[k]
  OBVIOUS
<1>7. \A i \in 1 .. Len(w) : g + i \in P => b[g + i] = w[i]
  <2>1. \A i \in 1 .. Len(w) : (g + i) - g = i
    BY <1>1
  <2> HIDE DEF b, P
  <2> QED
    BY <1>6, <2>1
<1>8. \A k \in 1 .. g : b[k] = Given[k]
  <2>1. \A k \in 1 .. g : k \in P /\ k - g \notin 1 .. Len(w)
    BY <1>1
  <2> HIDE DEF b, P
  <2> QED
    BY <1>2, <1>6, <2>1
<1>9. \A k \in P : b[k] = Xrg!Null \/ b[k] \in Seq({"a"}) \/ k <= g
  <2> HIDE DEF b, P
  <2> QED
    BY <1>2, <1>4, <1>6
<1> HIDE DEF b
<1> QED
  BY <1>3, <1>5, <1>7, <1>8, <1>9 DEF g

(* main() puts the null pointer behind them, if it has a place.            *)
LEMMA FilledIs ==
  ASSUME Xrg!XargsAssumption, XargsInv, NEW w \in Seq(Seq({"a"})), Xrg!Fits(w)
  PROVE  LET a == Xrg!Filled(w) IN
         /\ a \in [1 .. MaxArg -> Arg]
         /\ \A k \in 1 .. Len(Given) : a[k] = Given[k]
         /\ \A k \in 1 .. MaxArg :
               a[k] = Xrg!Null \/ a[k] \in Seq({"a"}) \/ k <= Len(Given)
         /\ \A i \in 1 .. Len(w) : a[Len(Given) + i] = w[i]
         /\ a[Len(Given) + Len(w) + 1] = Xrg!Null
<1> DEFINE g == Len(Given)
           P == 1 .. MaxArg
           b == Xrg!Written(w)
           e == g + Len(w) + 1
           a == [b EXCEPT ![e] = Xrg!Null]
<1>1. g \in Nat /\ MaxArg \in Nat /\ Len(w) \in Nat /\ g + Len(w) < MaxArg
  BY XargsTypes DEF Xrg!Fits
<1>2. /\ b \in [P -> Arg] /\ Xrg!Null \in Arg
      /\ \A k \in 1 .. g : b[k] = Given[k]
      /\ \A k \in P : b[k] = Xrg!Null \/ b[k] \in Seq({"a"}) \/ k <= g
      /\ \A i \in 1 .. Len(w) : g + i \in P => b[g + i] = w[i]
  BY WrittenIs DEF Arg
<1>3. Xrg!Filled(w) = a
  BY DEF Xrg!Filled, Xrg!Ended
<1> HIDE DEF g, b
<1>4. /\ e \in P
      /\ \A k \in 1 .. g : k \in P /\ k # e
      /\ \A i \in 1 .. Len(w) : g + i \in P /\ g + i # e
  BY <1>1
<1> HIDE DEF e, P
<1>5. a \in [P -> Arg] /\ a[e] = Xrg!Null /\ \A k \in P : k # e => a[k] = b[k]
  BY <1>2, <1>4
<1> HIDE DEF a
<1>6. /\ \A k \in 1 .. g : a[k] = Given[k]
      /\ \A i \in 1 .. Len(w) : a[g + i] = w[i]
      /\ \A k \in P : a[k] = Xrg!Null \/ a[k] \in Seq({"a"}) \/ k <= g
  BY <1>2, <1>4, <1>5
<1> QED
  BY <1>3, <1>5, <1>6 DEF g, P, e

(* exec() takes what is given and the words of the line, and no more.      *)
LEMMA PassedIs ==
  ASSUME Xrg!XargsAssumption, XargsInv, NEW w \in Seq(Seq({"a"})), Xrg!Fits(w),
         ArrayHolds(w)
  PROVE  Xrg!Passed = Given \o w
<1> DEFINE g == Len(Given)
           P == 1 .. MaxArg
           e == g + Len(w) + 1
<1>1. /\ g \in Nat /\ MaxArg \in Nat /\ g + Len(w) < MaxArg /\ arg \in [P -> Arg]
      /\ Len(w) \in Nat /\ Given \in Seq(Arg) /\ w \in Seq(Arg)
  BY XargsTypes, WordsAreArguments DEF Xrg!Fits
<1>2. /\ \A k \in 1 .. g : arg[k] = Given[k] /\ arg[k] # Xrg!Null
      /\ \A i \in 1 .. Len(w) : arg[g + i] = w[i]
      /\ arg[e] = Xrg!Null
  BY SMTT(30) DEF XargsInv, Xrg!XargsAssumption, ArrayHolds
<1>3. \A i \in 1 .. Len(w) : w[i] # Xrg!Null
  BY WordsAreArguments
<1> HIDE DEF g
<1>4. e \in P /\ e - 1 = g + Len(w)
  BY <1>1
<1>5. \A k \in 1 .. e - 1 : arg[k] = (Given \o w)[k] /\ arg[k] # Xrg!Null
  <2> SUFFICES ASSUME NEW k \in 1 .. e - 1
               PROVE  arg[k] = (Given \o w)[k] /\ arg[k] # Xrg!Null
    OBVIOUS
  <2>1. k \in 1 .. g + Len(w)
    BY <1>4
  <2>2. (Given \o w)[k] = IF k <= g THEN Given[k] ELSE w[k - g]
    BY <1>1, <2>1, ConcatProperties DEF g
  <2>3. CASE k <= g
    <3>1. k \in 1 .. g
      BY <1>1, <2>1, <2>3
    <3> QED
      BY <1>2, <2>2, <2>3, <3>1
  <2>4. CASE ~(k <= g)
    <3>1. k - g \in 1 .. Len(w) /\ g + (k - g) = k
      BY <1>1, <2>1, <2>4
    <3> QED
      BY <1>2, <1>3, <2>2, <2>4, <3>1
  <2> QED
    BY <2>3, <2>4
<1> HIDE DEF e
<1> DEFINE c == CHOOSE k \in P : arg[k] = Xrg!Null /\ \A m \in 1 .. k - 1 : arg[m] # Xrg!Null
<1>6. c = e
  <2>1. c \in P /\ arg[c] = Xrg!Null /\ \A m \in 1 .. c - 1 : arg[m] # Xrg!Null
    <3>1. e \in P /\ arg[e] = Xrg!Null /\ \A m \in 1 .. e - 1 : arg[m] # Xrg!Null
      BY <1>2, <1>4, <1>5
    <3> HIDE DEF P
    <3> QED
      BY <3>1
  <2> HIDE DEF c
  <2>2. ~(c < e)
    <3> SUFFICES ASSUME c < e PROVE FALSE
      OBVIOUS
    <3>1. c \in 1 .. e - 1
      BY <1>1, <1>4, <2>1
    <3> QED
      BY <1>5, <2>1, <3>1
  <2>3. ~(e < c)
    <3> SUFFICES ASSUME e < c PROVE FALSE
      OBVIOUS
    <3>1. e \in 1 .. c - 1
      BY <1>1, <1>4, <2>1
    <3> QED
      BY <1>2, <2>1, <3>1
  <2> QED
    BY <1>1, <1>4, <2>1, <2>2, <2>3
<1>7. Xrg!Passed = SubSeq(arg, 1, c - 1)
  BY DEF Xrg!Passed, Xrg!Places, g
<1> HIDE DEF c
<1>8. /\ SubSeq(arg, 1, e - 1) \in Seq(Arg) /\ Len(SubSeq(arg, 1, e - 1)) = e - 1
      /\ \A k \in 1 .. e - 1 : SubSeq(arg, 1, e - 1)[k] = arg[k]
  <2>1. 1 \in Int /\ e - 1 \in Int /\ e - 1 \in Nat /\ \A k \in 1 .. e - 1 : arg[k] \in Arg
    BY <1>1, <1>4
  <2>2. /\ SubSeq(arg, 1, e - 1) \in Seq(Arg)
        /\ Len(SubSeq(arg, 1, e - 1)) = IF 1 <= e - 1 THEN (e - 1) - 1 + 1 ELSE 0
        /\ \A k \in 1 .. (e - 1) - 1 + 1 : SubSeq(arg, 1, e - 1)[k] = arg[1 + k - 1]
    BY <2>1, SubSeqProperties
  <2>3. (e - 1) - 1 + 1 = e - 1 /\ \A k \in 1 .. e - 1 : 1 + k - 1 = k
    BY <2>1
  <2>4. Len(SubSeq(arg, 1, e - 1)) = e - 1
    BY <2>1, <2>2, <2>3
  <2> QED
    BY <2>2, <2>3, <2>4
<1>9. Given \o w \in Seq(Arg) /\ Len(Given \o w) = e - 1
  BY <1>1, <1>4, ConcatProperties DEF g
<1>10. SubSeq(arg, 1, e - 1) = Given \o w
  BY <1>5, <1>8, <1>9, SeqEqual
<1> QED
  BY <1>6, <1>7, <1>10

(* A step that reads on leaves the input as it is.                         *)
LEMMA InputStays ==
  ASSUME lines' = lines, closed' = closed
  PROVE  /\ LineRuns' = LineRuns
         /\ \A k : (Xrg!Runnable(k)' <=> Xrg!Runnable(k))
         /\ \A k : LineRun(k)' = LineRun(k) /\ (Xrg!TooLong(k)' <=> Xrg!TooLong(k))
<1>1. \A k : LineRun(k)' = LineRun(k)
  BY DEF LineRun
<1>2. \A k : Xrg!TooLong(k)' <=> Xrg!TooLong(k)
  BY DEF Xrg!TooLong, Xrg!Bytes
<1> QED
  BY <1>1, <1>2 DEF LineRuns, Xrg!Runnable

(* Each of some lines has had its command run, in their order.             *)
LEMMA RunOnceIs ==
  ASSUME NEW K
  PROVE  Xrg!RunOnceEach(K) <=>
            /\ Len(ran) = Cardinality(K)
            /\ \A k \in K : ran[Cardinality({j \in K : j <= k})] = LineRun(k)
BY XargsCardinality DEF Xrg!RunOnceEach, LineRun

(* Nothing is run, and no other line is done with.                         *)
LEMMA RunOnceStays ==
  ASSUME lines' = lines, ran' = ran, DoneWith' = DoneWith, XargsInv
  PROVE  Xrg!RunOnceEach(DoneWith)'
<1>1. Xrg!RunOnceEach(DoneWith)
  BY DEF XargsInv
<1> QED
  BY <1>1 DEF Xrg!RunOnceEach

(* The end of the input, an empty line and a line that is too long: main() *)
(* ends, and says so.                                                      *)
LEMMA StopsStep ==
  ASSUME Xrg!XargsAssumption, XargsInv, Xrg!Stops \/ Xrg!GivesUp
  PROVE  XargsInv'
<1>1. /\ xargsPc = "read" /\ xargsPc' = "exit"
      /\ UNCHANGED <<lines, closed, at, arg, child, ran, unforked>>
      /\ at <= Len(lines) => lines[at] = <<>> \/ Xrg!TooLong(at)
      /\ xargsStatus = 0 /\ xargsStatus' \in {0, 1}
      /\ xargsStatus' = 1 <=> at <= Len(lines) /\ Xrg!TooLong(at)
  <2>1. xargsPc = "read" /\ xargsStatus = 0
    BY DEF Xrg!Stops, Xrg!GivesUp, XargsInv
  <2>2. CASE Xrg!Stops
    <3>1. ~(at <= Len(lines) /\ Xrg!TooLong(at))
      <4> SUFFICES ASSUME at <= Len(lines), Xrg!TooLong(at) PROVE FALSE
        OBVIOUS
      <4>1. Len(lines[at]) = 0 /\ MaxLine \in Nat /\ MaxLine >= 1
        BY <2>2, XargsTypes DEF Xrg!Stops
      <4>2. Xrg!Bytes(at) \in {0, 1}
        BY <4>1 DEF Xrg!Bytes
      <4> QED
        BY <4>1, <4>2 DEF Xrg!TooLong
    <3> QED
      BY <2>1, <2>2, <3>1 DEF Xrg!Stops
  <2>3. CASE Xrg!GivesUp
    BY <2>1, <2>3 DEF Xrg!GivesUp
  <2> QED
    BY <2>2, <2>3
<1>2. /\ LineRuns' = LineRuns
      /\ \A k : (Xrg!Runnable(k)' <=> Xrg!Runnable(k))
      /\ \A k : LineRun(k)' = LineRun(k) /\ (Xrg!TooLong(k)' <=> Xrg!TooLong(k))
  BY <1>1, InputStays
<1>3. child = <<>> /\ \A k \in unforked : k # at
  BY <1>1 DEF XargsInv
<1>4. DoneWith' = DoneWith
  BY <1>1 DEF DoneWith
<1>5. Xrg!RunOnceEach(DoneWith)'
  BY <1>1, <1>4, RunOnceStays
<1>6. Xrg!TypeOK'
  BY <1>1 DEF XargsInv, Xrg!TypeOK
<1> QED
  BY <1>1, <1>2, <1>3, <1>5, <1>6 DEF XargsInv

(* A line with words, as far as fork().                                    *)
LEMMA ReadLineStep ==
  ASSUME Xrg!XargsAssumption, XargsInv, Xrg!ReadLine
  PROVE  XargsInv'
<1>1. /\ xargsPc = "read" /\ xargsPc' = "fork" /\ at <= Len(lines) /\ lines[at] # <<>>
      /\ ~Xrg!TooLong(at) /\ Xrg!Fits(Xrg!Split(lines[at]))
      /\ arg' = Xrg!Filled(Xrg!Split(lines[at]))
      /\ UNCHANGED <<lines, closed, at, child, ran, unforked, xargsStatus>>
  BY DEF Xrg!ReadLine
<1>2. /\ LineRuns' = LineRuns
      /\ \A k : (Xrg!Runnable(k)' <=> Xrg!Runnable(k))
      /\ \A k : LineRun(k)' = LineRun(k) /\ (Xrg!TooLong(k)' <=> Xrg!TooLong(k))
  BY <1>1, InputStays
<1>3. child = <<>> /\ (\A k \in unforked : k # at) /\ xargsStatus = 0
  BY <1>1 DEF XargsInv
<1>4. DoneWith' = DoneWith
  BY <1>1 DEF DoneWith
<1>5. Xrg!RunOnceEach(DoneWith)'
  BY <1>1, <1>4, RunOnceStays
<1> DEFINE w == Xrg!Words(lines[at])
<1>6. at \in 1 .. Len(lines)
  BY <1>1, XargsTypes
<1>7. arg' = Xrg!Filled(w) /\ w \in Seq(Seq({"a"})) /\ Xrg!Fits(w) /\ Xrg!Runnable(at)
  BY <1>1, <1>6, LineIs DEF Xrg!Runnable
<1>8. /\ arg' \in [1 .. MaxArg -> Arg]
      /\ \A k \in 1 .. Len(Given) : arg'[k] = Given[k]
      /\ \A k \in 1 .. MaxArg :
            arg'[k] = Xrg!Null \/ arg'[k] \in Seq({"a"}) \/ k <= Len(Given)
      /\ \A i \in 1 .. Len(w) : arg'[Len(Given) + i] = w[i]
      /\ arg'[Len(Given) + Len(w) + 1] = Xrg!Null
  <2> HIDE DEF w
  <2> QED
    BY <1>7, FilledIs
<1>9. ArrayHolds(Xrg!Words(lines[at]))'
  BY <1>1, <1>8 DEF ArrayHolds
<1>10. Xrg!TypeOK'
  <2>1. Len(Given) \in Nat /\ MaxArg \in Nat
    BY XargsTypes
  <2>2. \A k \in Xrg!Places : k > Len(Given) => arg'[k] = Xrg!Null \/ arg'[k] \in Seq({"a"})
    BY <1>8, <2>1 DEF Xrg!Places
  <2> QED
    BY <1>1, <1>8, <2>2 DEF XargsInv, Xrg!TypeOK, Xrg!Places, Arg
<1> HIDE DEF w
<1> QED
  BY <1>1, <1>2, <1>3, <1>5, <1>7, <1>8, <1>9, <1>10 DEF XargsInv

(* A line of too many words.                                               *)
LEMMA OverrunsStep ==
  ASSUME Xrg!XargsAssumption, XargsInv, Xrg!Overruns
  PROVE  XargsInv'
<1>1. /\ xargsPc = "read" /\ xargsPc' = "overrun" /\ at <= Len(lines) /\ lines[at] # <<>>
      /\ ~Xrg!TooLong(at) /\ ~Xrg!Fits(Xrg!Split(lines[at]))
      /\ arg' = Xrg!Written(Xrg!Split(lines[at]))
      /\ UNCHANGED <<lines, closed, at, child, ran, unforked, xargsStatus>>
  BY DEF Xrg!Overruns
<1>2. /\ LineRuns' = LineRuns
      /\ \A k : (Xrg!Runnable(k)' <=> Xrg!Runnable(k))
      /\ \A k : LineRun(k)' = LineRun(k) /\ (Xrg!TooLong(k)' <=> Xrg!TooLong(k))
  BY <1>1, InputStays
<1>3. child = <<>> /\ (\A k \in unforked : k # at) /\ xargsStatus = 0
  BY <1>1 DEF XargsInv
<1>4. DoneWith' = DoneWith
  BY <1>1 DEF DoneWith
<1>5. Xrg!RunOnceEach(DoneWith)'
  BY <1>1, <1>4, RunOnceStays
<1> DEFINE w == Xrg!Words(lines[at])
<1>6. at \in 1 .. Len(lines)
  BY <1>1, XargsTypes
<1>7. arg' = Xrg!Written(w) /\ w \in Seq(Seq({"a"})) /\ ~Xrg!Fits(w)
  BY <1>1, <1>6, LineIs
<1>8. /\ arg' \in [1 .. MaxArg -> Arg]
      /\ \A k \in 1 .. Len(Given) : arg'[k] = Given[k]
      /\ \A k \in 1 .. MaxArg :
            arg'[k] = Xrg!Null \/ arg'[k] \in Seq({"a"}) \/ k <= Len(Given)
  <2> HIDE DEF w
  <2> QED
    BY <1>7, WrittenIs
<1>9. Xrg!TypeOK'
  <2>1. Len(Given) \in Nat /\ MaxArg \in Nat
    BY XargsTypes
  <2>2. \A k \in Xrg!Places : k > Len(Given) => arg'[k] = Xrg!Null \/ arg'[k] \in Seq({"a"})
    BY <1>8, <2>1 DEF Xrg!Places
  <2> QED
    BY <1>1, <1>8, <2>2 DEF XargsInv, Xrg!TypeOK, Xrg!Places, Arg
<1>10. ~Xrg!Fits(Xrg!Words(lines[at]))'
  BY <1>1, <1>7 DEF Xrg!Fits
<1> HIDE DEF w
<1> QED
  BY <1>1, <1>2, <1>3, <1>5, <1>8, <1>9, <1>10 DEF XargsInv

(* The child gets the arguments of its line.                               *)
LEMMA ForkStep ==
  ASSUME Xrg!XargsAssumption, XargsInv, Xrg!Fork
  PROVE  XargsInv'
<1>1. /\ xargsPc = "fork" /\ xargsPc' = "wait" /\ child' = Xrg!Passed
      /\ UNCHANGED <<lines, closed, at, arg, ran, unforked, xargsStatus>>
  BY DEF Xrg!Fork
<1>2. /\ LineRuns' = LineRuns
      /\ \A k : (Xrg!Runnable(k)' <=> Xrg!Runnable(k))
      /\ \A k : LineRun(k)' = LineRun(k) /\ (Xrg!TooLong(k)' <=> Xrg!TooLong(k))
  BY <1>1, InputStays
<1>3. /\ child = <<>> /\ (\A k \in unforked : k # at) /\ xargsStatus = 0
      /\ at <= Len(lines) /\ Xrg!Runnable(at) /\ ArrayHolds(Xrg!Words(lines[at]))
  BY <1>1 DEF XargsInv
<1>4. at \in 1 .. Len(lines) /\ lines[at] # <<>>
  BY <1>3, XargsTypes DEF Xrg!Runnable
<1>5. child' = LineRun(at) /\ child' # <<>>
  <2> DEFINE w == Xrg!Words(lines[at])
  <2>1. w \in Seq(Seq({"a"})) /\ Xrg!Fits(w) /\ LineRun(at) # <<>>
    BY <1>3, <1>4, LineIs DEF Xrg!Runnable
  <2>2. ArrayHolds(w)
    BY <1>3
  <2>3. Xrg!Passed = Given \o w
    <3> HIDE DEF w
    <3> QED
      BY <2>1, <2>2, PassedIs
  <2> QED
    BY <1>1, <2>1, <2>3 DEF LineRun
<1>6. DoneWith' = DoneWith
  BY <1>1, <1>5 DEF DoneWith
<1>7. Xrg!RunOnceEach(DoneWith)'
  BY <1>1, <1>6, RunOnceStays
<1>8. Xrg!TypeOK'
  BY <1>1 DEF XargsInv, Xrg!TypeOK
<1> QED
  BY <1>1, <1>2, <1>3, <1>5, <1>7, <1>8 DEF XargsInv

(* A fork() that fails leaves out the line.                                *)
LEMMA ForkFailsStep ==
  ASSUME Xrg!XargsAssumption, XargsInv, Xrg!ForkFails
  PROVE  XargsInv'
<1>1. /\ xargsPc = "fork" /\ xargsPc' = "wait" /\ unforked' = unforked \cup {at}
      /\ UNCHANGED <<lines, closed, at, arg, child, ran, xargsStatus>>
  BY DEF Xrg!ForkFails
<1>2. /\ LineRuns' = LineRuns
      /\ \A k : (Xrg!Runnable(k)' <=> Xrg!Runnable(k))
      /\ \A k : LineRun(k)' = LineRun(k) /\ (Xrg!TooLong(k)' <=> Xrg!TooLong(k))
  BY <1>1, InputStays
<1>3. child = <<>> /\ xargsStatus = 0 /\ at <= Len(lines) /\ Xrg!Runnable(at)
  BY <1>1 DEF XargsInv
<1>4. at \in 1 .. Len(lines)
  BY <1>3, XargsTypes
<1>5. DoneWith' = DoneWith
  BY <1>1, <1>4 DEF DoneWith
<1>6. Xrg!RunOnceEach(DoneWith)'
  BY <1>1, <1>5, RunOnceStays
<1>7. Xrg!TypeOK'
  <2>1. at \in DOMAIN lines
    BY <1>4 DEF XargsInv
  <2> QED
    BY <1>1, <2>1 DEF XargsInv, Xrg!TypeOK
<1> QED
  BY <1>1, <1>2, <1>3, <1>4, <1>6, <1>7 DEF XargsInv

(* wait() and the next line: this one is done with.                        *)
LEMMA WaitStep ==
  ASSUME Xrg!XargsAssumption, XargsInv, Xrg!Wait
  PROVE  XargsInv'
<1>1. /\ xargsPc = "wait" /\ xargsPc' = "read" /\ child = <<>> /\ at' = at + 1
      /\ UNCHANGED <<lines, closed, arg, child, ran, unforked, xargsStatus>>
  BY DEF Xrg!Wait
<1>2. /\ LineRuns' = LineRuns
      /\ \A k : (Xrg!Runnable(k)' <=> Xrg!Runnable(k))
      /\ \A k : LineRun(k)' = LineRun(k) /\ (Xrg!TooLong(k)' <=> Xrg!TooLong(k))
  BY <1>1, InputStays
<1>3. xargsStatus = 0 /\ at <= Len(lines) /\ Xrg!Runnable(at) /\ \A k \in 1 .. at - 1 : Xrg!Runnable(k)
  BY <1>1 DEF XargsInv
<1>4. at \in 1 .. Len(lines) /\ Len(lines) \in Nat
  BY <1>3, XargsTypes
<1>5. \A k \in 1 .. at' - 1 : Xrg!Runnable(k)
  <2> SUFFICES ASSUME NEW k \in 1 .. at' - 1 PROVE Xrg!Runnable(k)
    OBVIOUS
  <2>1. k \in 1 .. at - 1 \/ k = at
    BY <1>1, <1>4
  <2> QED
    BY <1>3, <2>1
<1>6. DoneWith' = DoneWith
  <2>1. \A k : (k \in 1 .. at + 1 /\ k < at + 1) <=> k \in 1 .. at
    BY <1>4
  <2>2. \A k : k \in 1 .. at <=> k \in 1 .. at /\ (k < at \/ (xargsPc = "wait" /\ child = <<>>))
    BY <1>1
  <2> QED
    BY <1>1, <2>1, <2>2 DEF DoneWith
<1>7. Xrg!RunOnceEach(DoneWith)'
  BY <1>1, <1>6, RunOnceStays
<1>8. Xrg!TypeOK'
  <2>1. at + 1 \in 1 .. Len(lines) + 1
    BY <1>4
  <2> QED
    BY <1>1, <2>1 DEF XargsInv, Xrg!TypeOK
<1>9. \A k \in unforked : k <= at' /\ k # at'
  <2>1. \A k \in unforked : k <= at /\ k \in 1 .. Len(lines)
    BY DEF XargsInv, Xrg!TypeOK
  <2> QED
    BY <1>1, <1>4, <2>1
<1> QED
  BY <1>1, <1>2, <1>3, <1>5, <1>7, <1>8, <1>9 DEF XargsInv

(* The command of a line has run once, after those of the lines before it. *)
LEMMA ExecStep ==
  ASSUME Xrg!XargsAssumption, XargsInv, Xrg!Exec
  PROVE  XargsInv'
<1>1. /\ child # <<>> /\ ran' = Append(ran, child) /\ child' = <<>>
      /\ UNCHANGED <<lines, closed, at, arg, xargsPc, unforked, xargsStatus>>
  BY DEF Xrg!Exec
<1>2. /\ LineRuns' = LineRuns
      /\ \A k : (Xrg!Runnable(k)' <=> Xrg!Runnable(k))
      /\ \A k : LineRun(k)' = LineRun(k) /\ (Xrg!TooLong(k)' <=> Xrg!TooLong(k))
  BY <1>1, InputStays
<1>3. /\ xargsPc = "wait" /\ child = LineRun(at) /\ at \notin unforked
      /\ at <= Len(lines) /\ ran \in Seq(LineRuns)
      /\ Xrg!RunOnceEach(DoneWith)
  BY <1>1 DEF XargsInv
<1>4. at \in 1 .. Len(lines) /\ Len(lines) \in Nat
  BY <1>3, XargsTypes
<1>5. /\ ran' \in Seq(LineRuns) /\ Len(ran') = Len(ran) + 1 /\ ran'[Len(ran) + 1] = LineRun(at)
      /\ Len(ran) \in Nat /\ \A i \in 1 .. Len(ran) : ran'[i] = ran[i]
  <2>1. child \in LineRuns
    BY <1>3, <1>4 DEF LineRuns
  <2> QED
    BY <1>1, <1>3, <2>1
<1> DEFINE K == DoneWith
           upTo(k) == {j \in K : j <= k}
<1>6. K \in SUBSET (1 .. at - 1) /\ DoneWith' = K \cup {at} /\ at \notin K
  <2>1. \A k : k \in K <=> k \in 1 .. at /\ k < at /\ k \notin unforked
    BY <1>1 DEF DoneWith
  <2>2. \A k : k \in DoneWith' <=> k \in 1 .. at /\ k \notin unforked
    BY <1>1, <1>3 DEF DoneWith
  <2> HIDE DEF K
  <2>3. \A k : k \in 1 .. at <=> k = at \/ (k \in 1 .. at /\ k < at)
    BY <1>4
  <2>4. \A k : k \in DoneWith' <=> k \in K \/ k = at
    BY <1>3, <2>1, <2>2, <2>3
  <2>5. \A k \in K : k \in 1 .. at - 1
    BY <1>4, <2>1
  <2>6. at \notin K
    BY <1>4, <2>1
  <2> QED
    BY <2>4, <2>5, <2>6
<1>7. /\ Len(ran) = Cardinality(K)
      /\ \A k \in K : ran[Cardinality(upTo(k))] = LineRun(k)
  BY <1>3, RunOnceIs
<1> HIDE DEF K
<1>8. IsFiniteSet(K) /\ Cardinality(K) \in Nat /\ K \in SUBSET Nat
  <2>1. at - 1 \in Int /\ 1 \in Int /\ 1 .. at - 1 \subseteq Nat
    BY <1>4
  <2>2. IsFiniteSet(1 .. at - 1)
    BY <2>1, FS_Interval
  <2> QED
    BY <1>6, <2>1, <2>2, FS_Subset, FS_CardinalityType
<1>9. Cardinality(K \cup {at}) = Len(ran')
  BY <1>5, <1>6, <1>7, <1>8, FS_AddElement
<1>10. ASSUME NEW k \in K \cup {at}
       PROVE  ran'[Cardinality({j \in K \cup {at} : j <= k})] = LineRun(k)
  <2>1. CASE k = at
    <3>1. {j \in K \cup {at} : j <= k} = K \cup {at}
      <4>1. \A j \in K \cup {at} : j <= at
        BY <1>4, <1>6
      <4> QED
        BY <2>1, <4>1
    <3> QED
      BY <1>5, <1>9, <2>1, <3>1
  <2>2. CASE k \in K
    <3>1. {j \in K \cup {at} : j <= k} = upTo(k)
      <4>1. ~(at <= k)
        BY <1>4, <1>6, <2>2
      <4> QED
        BY <4>1
    <3>2. Cardinality(upTo(k)) \in 1 .. Len(ran)
      <4>1. upTo(k) \subseteq K /\ k \in upTo(k)
        BY <1>8, <2>2
      <4>2. IsFiniteSet(upTo(k)) /\ Cardinality(upTo(k)) <= Cardinality(K)
        BY <1>8, <4>1, FS_Subset
      <4>3. Cardinality(upTo(k)) \in Nat /\ Cardinality(upTo(k)) # 0
        BY <4>1, <4>2, FS_CardinalityType, FS_EmptySet
      <4> HIDE DEF upTo
      <4> QED
        BY <1>5, <1>7, <4>2, <4>3
    <3>3. ran'[Cardinality(upTo(k))] = LineRun(k)
      <4> HIDE DEF upTo
      <4> QED
        BY <1>5, <1>7, <2>2, <3>2
    <3> QED
      BY <3>1, <3>3
  <2> QED
    BY <2>1, <2>2
<1>11. Xrg!RunOnceEach(DoneWith)'
  <2>1. Len(ran') = Cardinality(DoneWith')
    BY <1>6, <1>9
  <2>2. \A k \in DoneWith' : ran'[Cardinality({j \in DoneWith' : j <= k})] = LineRun(k)'
    BY <1>2, <1>6, <1>10
  <2> QED
    BY <2>1, <2>2, XargsCardinality DEF Xrg!RunOnceEach, LineRun
<1>12. Xrg!TypeOK'
  BY <1>1 DEF XargsInv, Xrg!TypeOK
<1> QED
  BY <1>1, <1>2, <1>3, <1>5, <1>11, <1>12 DEF XargsInv

(* At the start the array holds what is given, and nothing has run.        *)
LEMMA XargsStarts ==
  ASSUME Xrg!XargsAssumption, Init
  PROVE  XargsInv
<1>1. /\ at = 1 /\ xargsPc = "read" /\ child = <<>> /\ ran = <<>> /\ unforked = {}
      /\ xargsStatus = 0
      /\ arg = [k \in Xrg!Places |-> IF k <= Len(Given) THEN Given[k] ELSE Xrg!Null]
  BY DEF Init, Xrg!Start
<1>2. lines \in Seq(Texts) /\ Len(lines) \in Nat
  <2>1. CASE lines = <<>>
    BY <2>1
  <2>2. CASE Xrg!Inputs
    <3>1. PICK k \in 0 .. MaxLines : lines \in [1 .. k -> Texts]
      BY <2>2 DEF Xrg!Inputs
    <3>2. k \in Nat
      BY <3>1 DEF Xrg!XargsAssumption
    <3> QED
      BY <3>1, <3>2
  <2> QED
    BY <2>1, <2>2 DEF Init
<1>3. /\ Len(Given) \in Nat /\ DOMAIN Given = 1 .. Len(Given)
      /\ MaxArg \in Nat /\ Len(Given) < MaxArg
  BY DEF Xrg!XargsAssumption
<1>4. Xrg!TypeOK
  <2>1. \A k \in Xrg!Places : k <= Len(Given) => k \in DOMAIN Given
    BY <1>3 DEF Xrg!Places
  <2>2. arg \in [Xrg!Places -> {Given[k] : k \in DOMAIN Given} \cup {Xrg!Null} \cup Seq({"a"})]
    BY <1>1, <2>1
  <2>3. \A k \in Xrg!Places : k > Len(Given) => arg[k] = Xrg!Null
    BY <1>1, <1>3 DEF Xrg!Places
  <2>4. at \in 1 .. Len(lines) + 1
    BY <1>1, <1>2
  <2> QED
    BY <1>1, <2>2, <2>3, <2>4 DEF Xrg!TypeOK
<1>5. \A k \in 1 .. Len(Given) : arg[k] = Given[k]
  <2>1. \A k \in 1 .. Len(Given) : k \in Xrg!Places /\ k <= Len(Given)
    BY <1>3 DEF Xrg!Places
  <2> QED
    BY <1>1, <2>1
<1>6. Xrg!RunOnceEach(DoneWith)
  <2>1. DoneWith = {}
    BY <1>1 DEF DoneWith
  <2>2. Len(ran) = 0 /\ Cardinality(DoneWith) = 0
    BY <1>1, <2>1, FS_EmptySet
  <2> QED
    BY <2>1, <2>2, RunOnceIs
<1>7. ran \in Seq(LineRuns) /\ 1 .. at - 1 = {}
  BY <1>1
<1> QED
  BY <1>1, <1>2, <1>4, <1>5, <1>6, <1>7 DEF XargsInv

(* The invariant of main() holds for every command, every set of lines and *)
(* every length of buf and of arg, up to a line of too many words.         *)
THEOREM XargsRight == Spec => []XargsInv
<1> USE ProcessesAssumption DEF ProcessesAssumption
<1>1. Init => XargsInv
  BY XargsStarts
<1>2. XargsInv /\ [Next]_vars => XargsInv'
  <2> SUFFICES ASSUME XargsInv, [Next]_vars PROVE XargsInv'
    OBVIOUS
  <2>1. CASE InXargs /\ Xrg!Next
    <3>1. CASE Xrg!Stops \/ Xrg!GivesUp
      BY <3>1, StopsStep
    <3>2. CASE Xrg!ReadLine \/ Xrg!Overruns
      BY <3>2, ReadLineStep, OverrunsStep
    <3>3. CASE Xrg!Fork
      BY <3>3, ForkStep
    <3>4. CASE Xrg!ForkFails
      BY <3>4, ForkFailsStep
    <3>5. CASE Xrg!Wait
      BY <3>5, WaitStep
    <3>6. CASE Xrg!Exec
      BY <3>6, ExecStep
    <3> QED
      BY <2>1, <3>1, <3>2, <3>3, <3>4, <3>5, <3>6 DEF Xrg!Next, Xrg!Main
  <2>2. CASE UNCHANGED xargsVars
    <3>1. UNCHANGED <<lines, closed, at, arg, xargsPc, child, ran, unforked, xargsStatus>>
      BY <2>2 DEF xargsVars
    <3>2. /\ LineRuns' = LineRuns
          /\ \A k : (Xrg!Runnable(k)' <=> Xrg!Runnable(k))
          /\ \A k : LineRun(k)' = LineRun(k) /\ (Xrg!TooLong(k)' <=> Xrg!TooLong(k))
      BY <3>1, InputStays
    <3>3. DoneWith' = DoneWith
      BY <3>1 DEF DoneWith
    <3>4. Xrg!RunOnceEach(DoneWith)'
      BY <3>1, <3>3, RunOnceStays
    <3>5. Xrg!TypeOK'
      BY <3>1 DEF XargsInv, Xrg!TypeOK
    <3>6. /\ xargsPc = "fork" => ArrayHolds(Xrg!Words(lines[at]))'
          /\ xargsPc = "overrun" => ~Xrg!Fits(Xrg!Words(lines[at]))'
      BY <3>1 DEF XargsInv, ArrayHolds, Xrg!Fits
    <3> QED
      BY <3>1, <3>2, <3>4, <3>5, <3>6 DEF XargsInv
  <2> QED
    BY <2>1, <2>2 DEF Next, vars, InSieve, InFork, InFind, InShell
<1> QED
  BY <1>1, <1>2, PTL DEF Spec

(* xargs.c: the command runs once for each line up to an empty one, one    *)
(* that is too long for buf or one of too many words for arg, in their     *)
(* order, with its own arguments and the words of this line only, whatever *)
(* longer line has been in the array before; a line whose fork() has       *)
(* failed is left out.  main() ends at the first of these lines, with an   *)
(* error if it is too long, or has written behind the array.               *)
THEOREM XargsComplete == Spec => []XargsRuns
<1> USE ProcessesAssumption DEF ProcessesAssumption
<1>1. XargsInv => XargsRuns
  <2> SUFFICES ASSUME XargsInv PROVE Xrg!XargsRuns
    BY DEF XargsRuns
  <2>1. child # <<>> => xargsPc = "wait"
    BY DEF XargsInv
  <2> SUFFICES ASSUME xargsPc \in {"exit", "overrun"}
               PROVE  Xrg!Stop = at /\ Xrg!RunOnceEach((1 .. Xrg!Stop - 1) \ unforked)
    BY <2>1 DEF XargsInv, Xrg!XargsRuns
  <2>2. Len(lines) \in Nat /\ at \in 1 .. Len(lines) + 1
    BY XargsTypes
  <2>3. /\ at <= Len(lines) => ~Xrg!Runnable(at)
        /\ \A k \in 1 .. at - 1 : Xrg!Runnable(k)
        /\ Xrg!RunOnceEach(DoneWith)
    BY DEF XargsInv, Xrg!Runnable
  <2> DEFINE Ends(k) == /\ k <= Len(lines) => ~Xrg!Runnable(k)
                        /\ \A m \in 1 .. k - 1 : Xrg!Runnable(m)
             c == CHOOSE k \in 1 .. Len(lines) + 1 : Ends(k)
  <2>4. c \in 1 .. Len(lines) + 1 /\ Ends(c)
    <3>1. Ends(at)
      BY <2>3
    <3> HIDE DEF Ends
    <3> QED
      BY <2>2, <3>1
  <2>5. Xrg!Stop = c
    BY DEF Xrg!Stop, Xrg!Runnable
  <2> HIDE DEF c
  <2>6. c = at
    <3>1. CASE c < at
      <4>1. c \in 1 .. at - 1 /\ c <= Len(lines)
        BY <2>2, <2>4, <3>1
      <4> QED
        BY <2>3, <2>4, <4>1
    <3>2. CASE at < c
      <4>1. at \in 1 .. c - 1 /\ at <= Len(lines)
        BY <2>2, <2>4, <3>2
      <4> QED
        BY <2>3, <2>4, <4>1
    <3> QED
      BY <2>2, <2>4, <3>1, <3>2
  <2>7. DoneWith = (1 .. at - 1) \ unforked
    <3>1. \A k : k \in 1 .. at - 1 <=> k \in 1 .. at /\ k < at
      BY <2>2
    <3> QED
      BY <3>1 DEF DoneWith
  <2> QED
    BY <2>3, <2>5, <2>6, <2>7
<1> QED
  BY <1>1, XargsRight, PTL

-----------------------------------------------------------------------------
(* The types of the programs of several processes.                         *)
THEOREM ProcessesTypes == Spec => []TypeOK
<1> USE ProcessesAssumption DEF ProcessesAssumption
<1>1. /\ SieveInv => Sieve!TypeOK
      /\ XargsInv => Xrg!TypeOK
      /\ FindInv => Fnd!TypeOK
      /\ ShellInv => Osh!TypeOK
  BY DEF SieveInv, XargsInv, FindInv, ShellInv
<1>2. ForkInv => Frk!TypeOK
  BY ForkTypesRight
<1>3. SieveInv /\ XargsInv /\ FindInv /\ ShellInv /\ ForkInv => TypeOK
  BY <1>1, <1>2 DEF TypeOK
<1> QED
  BY <1>3, SieveRight, XargsRight, FindRight, ShellRight, ForkRight, PTL
=============================================================================
