--------------------------- MODULE ProgramsProofs ---------------------------
(* Proofs about the thread programs of MCPrograms, each for every size of  *)
(* its program.                                                            *)
EXTENDS ResultProofs, SequenceTheorems

-----------------------------------------------------------------------------
(* project3.c.  How many of T are at one of the points in L.               *)
HowMany(T, f, L) == Cardinality({t \in T : f[t] \in L})

(* The points at which a thread has taken its semaphore, and those at which *)
(* it has moved its index.                                                 *)
Inside == {"lock", "slot", "index", "post", "done"}
Moved == {"post", "done"}

(* By how much the number at L changes when a thread goes from k to l.     *)
Shift(k, l, L) ==
    (IF l \in L THEN 1 ELSE 0) - (IF k \in L THEN 1 ELSE 0)

(* The items in the ring: put and not yet got.                              *)
InRing ==
    HowMany(Producers, bufferPc, Moved) - HowMany(Consumers, bufferPc, Moved)

(* The types, with semaphores of any size.                                  *)
BufferTypes ==
    /\ buffer \in [Buffer!Ring -> Producers \cup {NoItem}]
    /\ fast \in Buffer!Ring /\ slow \in Buffer!Ring
    /\ empty \in Nat /\ full \in Nat
    /\ mutex \in Buffer!Threads \cup {NoItem}
    /\ bufferPc \in
           [Buffer!Threads -> {"sem", "lock", "slot", "index", "post", "done"}]
    /\ item \in [Consumers -> Producers \cup {NoItem}]

(* What a semaphore counts is what the threads have not taken or given.    *)
Semaphores ==
    /\ empty = BufferSlots - HowMany(Producers, bufferPc, Inside)
                   + HowMany(Consumers, bufferPc, {"done"})
    /\ full = HowMany(Producers, bufferPc, {"done"})
                   - HowMany(Consumers, bufferPc, Inside)

(* Who is between lock and unlock has the mutex.                            *)
MutexHeld ==
    \A t \in Buffer!Threads : bufferPc[t] \in {"slot", "index"} <=> mutex = t

(* The producer that has stored and the consumer that has loaded have done *)
(* so where the index still is.                                            *)
RingInv ==
    /\ BufferTypes /\ Semaphores /\ MutexHeld
    /\ fast = (slow + InRing) % BufferSlots
    /\ \A p \in Producers : bufferPc[p] = "index" => buffer[fast] = p
    /\ \A c \in Consumers : bufferPc[c] = "index" => item[c] = buffer[slow]

(* project3.c by itself.                                                    *)
BufferSpec == Buffer!Init /\ [][Buffer!Next]_(Buffer!vars)

(* What is assumed of the threads and the ring.                             *)
LEMMA BufferSizes ==
  /\ BufferSlots \in Nat \ {0}
  /\ IsFiniteSet(Producers) /\ IsFiniteSet(Consumers)
  /\ Producers \cap Consumers = {} /\ NoItem \notin Producers \cup Consumers
  /\ Buffer!Threads = Producers \cup Consumers
  /\ Buffer!Ring = 0 .. BufferSlots - 1
  /\ Buffer!Stored = InRing
<1>1. Buffer!BufferAssumption
  BY ProgramsAssumption
<1>2. Buffer!Stored = InRing
  BY
     DEF Buffer!Stored, Buffer!Count, InRing, HowMany, Moved,
         Buffer!Cardinality, Cardinality
<1> QED
  BY <1>1, <1>2 DEF Buffer!BufferAssumption, Buffer!IsFiniteSet, IsFiniteSet,
                    Buffer!Threads, Buffer!Ring

(* The sums of positions in the ring.                                      *)
LEMMA RingSums ==
  /\ \A x \in Buffer!Ring : \A k \in 0 .. BufferSlots :
         (x + k) % BufferSlots =
             IF x + k < BufferSlots THEN x + k ELSE x + k - BufferSlots
  /\ \A x \in Int : x % BufferSlots \in Buffer!Ring
<1> DEFINE M == BufferSlots
<1>1. M \in Nat \ {0} /\ Buffer!Ring = 0 .. M - 1
  BY BufferSizes
<1> HIDE DEF M
<1>2. \A x \in 0 .. M - 1 : x % M = x
  BY <1>1
<1>3. \A x \in 0 .. M - 1 : \A k \in 0 .. M :
          (x + k) % M = IF x + k < M THEN x + k ELSE x + k - M
  BY <1>1
<1>4. \A x \in Int : x % M \in 0 .. M - 1
  BY <1>1
<1> QED
  BY <1>1, <1>3, <1>4 DEF M

(* There are finitely many threads anywhere.                                *)
LEMMA HowManyNat ==
  ASSUME NEW T, IsFiniteSet(T), NEW f, NEW L
  PROVE  HowMany(T, f, L) \in Nat /\ IsFiniteSet({t \in T : f[t] \in L})
<1>1. {t \in T : f[t] \in L} \in SUBSET T
  OBVIOUS
<1> QED
  BY <1>1, FS_Subset, FS_CardinalityType DEF HowMany

(* Sets that differ in one element at most.                                *)
LEMMA OneDiffers ==
  ASSUME NEW A, IsFiniteSet(A), NEW B, IsFiniteSet(B), NEW t,
         \A u : u # t => (u \in A <=> u \in B)
  PROVE  Cardinality(B) = Cardinality(A) + (IF t \in B THEN 1 ELSE 0)
                              - (IF t \in A THEN 1 ELSE 0)
<1>1. Cardinality(A) \in Nat /\ Cardinality(B) \in Nat
  BY FS_CardinalityType
<1>2. CASE t \in A /\ t \notin B
  <2>1. B = A \ {t}
    BY <1>2
  <2> QED
    BY <1>1, <1>2, <2>1, FS_RemoveElement
<1>3. CASE t \notin A /\ t \in B
  <2>1. B = A \cup {t}
    BY <1>3
  <2> QED
    BY <1>1, <1>3, <2>1, FS_AddElement
<1>4. CASE t \in A <=> t \in B
  <2>1. B = A
    BY <1>4
  <2> QED
    BY <1>1, <1>4, <2>1
<1> QED
  BY <1>2, <1>3, <1>4

(* Who is at one of fewer points is one of fewer.                          *)
LEMMA FewerPoints ==
  ASSUME NEW T, IsFiniteSet(T), NEW f, NEW K, NEW L, K \subseteq L
  PROVE  /\ HowMany(T, f, K) <= HowMany(T, f, L)
         /\ (\E t \in T : f[t] \in L \ K) => HowMany(T, f, K) < HowMany(T, f, L)
<1> DEFINE A == {t \in T : f[t] \in K}
           B == {t \in T : f[t] \in L}
<1>1. /\ HowMany(T, f, K) = Cardinality(A)
      /\ HowMany(T, f, L) = Cardinality(B)
      /\ IsFiniteSet(A) /\ IsFiniteSet(B)
      /\ Cardinality(A) \in Nat /\ Cardinality(B) \in Nat
  BY HowManyNat DEF HowMany
<1>2. A \in SUBSET B
  OBVIOUS
<1>3. (\E t \in T : f[t] \in L \ K) => A # B
  OBVIOUS
<1> HIDE DEF A, B
<1>4. Cardinality(A) <= Cardinality(B) /\ (Cardinality(A) = Cardinality(B) => A = B)
  BY <1>1, <1>2, FS_Subset
<1> QED
  BY <1>1, <1>3, <1>4

(* No more items than slots; room for who has taken empty, and an item for  *)
(* who has taken full.                                                      *)
LEMMA RingCounts ==
  ASSUME BufferTypes, Semaphores
  PROVE  /\ InRing \in 0 .. BufferSlots
         /\ empty <= BufferSlots /\ full <= BufferSlots
         /\ \A p \in Producers :
                bufferPc[p] \in {"lock", "slot", "index"} => InRing < BufferSlots
         /\ \A c \in Consumers :
                bufferPc[c] \in {"lock", "slot", "index"} => InRing > 0
<1> DEFINE P(L) == HowMany(Producers, bufferPc, L)
           C(L) == HowMany(Consumers, bufferPc, L)
<1>1. \A L : P(L) \in Nat /\ C(L) \in Nat
  BY BufferSizes, HowManyNat
<1>2. {"done"} \subseteq Moved /\ Moved \subseteq Inside
  BY DEF Moved, Inside
<1>3. /\ P({"done"}) <= P(Moved) /\ P(Moved) <= P(Inside)
      /\ C({"done"}) <= C(Moved) /\ C(Moved) <= C(Inside)
      /\ (\E p \in Producers : bufferPc[p] \in Inside \ Moved) => P(Moved) < P(Inside)
      /\ (\E c \in Consumers : bufferPc[c] \in Inside \ Moved) => C(Moved) < C(Inside)
  BY <1>2, BufferSizes, FewerPoints
<1>4. \A l \in {"lock", "slot", "index"} : l \in Inside \ Moved
  BY DEF Inside, Moved
<1>5. /\ empty = BufferSlots - P(Inside) + C({"done"})
      /\ full = P({"done"}) - C(Inside)
      /\ InRing = P(Moved) - C(Moved)
      /\ empty \in Nat /\ full \in Nat /\ BufferSlots \in Nat
  BY BufferSizes DEF BufferTypes, Semaphores, InRing
<1> HIDE DEF P, C
<1>6. /\ P({"done"}) \in Nat /\ P(Moved) \in Nat /\ P(Inside) \in Nat
      /\ C({"done"}) \in Nat /\ C(Moved) \in Nat /\ C(Inside) \in Nat
  BY <1>1
<1>7. /\ InRing \in 0 .. BufferSlots
      /\ empty <= BufferSlots
      /\ full <= BufferSlots
  BY <1>3, <1>5, <1>6
<1>8. /\ P(Moved) < P(Inside) => InRing < BufferSlots
      /\ C(Moved) < C(Inside) => InRing > 0
  BY <1>3, <1>5, <1>6
<1> QED
  BY <1>3, <1>4, <1>7, <1>8

(* What the counts become when a producer, or a consumer, goes on.         *)
LEMMA ProducerGoes ==
  ASSUME BufferTypes, NEW p \in Producers, NEW l,
         bufferPc' = [bufferPc EXCEPT ![p] = l]
  PROVE  \A L : /\ HowMany(Producers, bufferPc', L) =
                       HowMany(Producers, bufferPc, L) + Shift(bufferPc[p], l, L)
               /\ HowMany(Consumers, bufferPc', L) = HowMany(Consumers, bufferPc, L)
<1> SUFFICES ASSUME NEW L
             PROVE  /\ HowMany(Producers, bufferPc', L) =
                            HowMany(Producers, bufferPc, L) + Shift(bufferPc[p], l, L)
                    /\ HowMany(Consumers, bufferPc', L) = HowMany(Consumers, bufferPc, L)
  OBVIOUS
<1>1. /\ bufferPc'[p] = l /\ \A u \in Producers : u # p => bufferPc'[u] = bufferPc[u]
      /\ \A c \in Consumers : bufferPc'[c] = bufferPc[c]
  BY BufferSizes DEF BufferTypes
<1>2. {c \in Consumers : bufferPc'[c] \in L} = {c \in Consumers : bufferPc[c] \in L}
  BY <1>1
<1>3. HowMany(Consumers, bufferPc', L) = HowMany(Consumers, bufferPc, L)
  BY <1>2 DEF HowMany
<1>4. IsFiniteSet(Producers)
  BY BufferSizes
<1>5. HowMany(Producers, bufferPc', L) =
          HowMany(Producers, bufferPc, L) + (IF bufferPc'[p] \in L THEN 1 ELSE 0)
              - (IF bufferPc[p] \in L THEN 1 ELSE 0)
  <2> DEFINE A == {u \in Producers : bufferPc[u] \in L}
             B == {u \in Producers : bufferPc'[u] \in L}
  <2>1. IsFiniteSet(A) /\ IsFiniteSet(B)
    BY <1>4, FS_Subset
  <2>2. \A u : u # p => (u \in A <=> u \in B)
    BY <1>1
  <2>3. (p \in A <=> bufferPc[p] \in L) /\ (p \in B <=> bufferPc'[p] \in L)
    OBVIOUS
  <2>4. /\ HowMany(Producers, bufferPc, L) = Cardinality(A)
        /\ HowMany(Producers, bufferPc', L) = Cardinality(B)
    BY DEF HowMany
  <2> HIDE DEF A, B
  <2>5. Cardinality(B) = Cardinality(A) + (IF p \in B THEN 1 ELSE 0)
                             - (IF p \in A THEN 1 ELSE 0)
    BY <2>1, <2>2, OneDiffers
  <2> QED
    BY <2>3, <2>4, <2>5
<1> QED
  BY <1>1, <1>3, <1>5, <1>4, HowManyNat DEF Shift

(* The same for a consumer.                                                 *)
LEMMA ConsumerGoes ==
  ASSUME BufferTypes, NEW c \in Consumers, NEW l,
         bufferPc' = [bufferPc EXCEPT ![c] = l]
  PROVE  \A L : /\ HowMany(Consumers, bufferPc', L) =
                       HowMany(Consumers, bufferPc, L) + Shift(bufferPc[c], l, L)
               /\ HowMany(Producers, bufferPc', L) = HowMany(Producers, bufferPc, L)
<1> SUFFICES ASSUME NEW L
             PROVE  /\ HowMany(Consumers, bufferPc', L) =
                            HowMany(Consumers, bufferPc, L) + Shift(bufferPc[c], l, L)
                    /\ HowMany(Producers, bufferPc', L) = HowMany(Producers, bufferPc, L)
  OBVIOUS
<1>1. /\ bufferPc'[c] = l /\ \A u \in Consumers : u # c => bufferPc'[u] = bufferPc[u]
      /\ \A p \in Producers : bufferPc'[p] = bufferPc[p]
  BY BufferSizes DEF BufferTypes
<1>2. {p \in Producers : bufferPc'[p] \in L} = {p \in Producers : bufferPc[p] \in L}
  BY <1>1
<1>3. HowMany(Producers, bufferPc', L) = HowMany(Producers, bufferPc, L)
  BY <1>2 DEF HowMany
<1>4. IsFiniteSet(Consumers)
  BY BufferSizes
<1>5. HowMany(Consumers, bufferPc', L) =
          HowMany(Consumers, bufferPc, L) + (IF bufferPc'[c] \in L THEN 1 ELSE 0)
              - (IF bufferPc[c] \in L THEN 1 ELSE 0)
  <2> DEFINE A == {u \in Consumers : bufferPc[u] \in L}
             B == {u \in Consumers : bufferPc'[u] \in L}
  <2>1. IsFiniteSet(A) /\ IsFiniteSet(B)
    BY <1>4, FS_Subset
  <2>2. \A u : u # c => (u \in A <=> u \in B)
    BY <1>1
  <2>3. (c \in A <=> bufferPc[c] \in L) /\ (c \in B <=> bufferPc'[c] \in L)
    OBVIOUS
  <2>4. /\ HowMany(Consumers, bufferPc, L) = Cardinality(A)
        /\ HowMany(Consumers, bufferPc', L) = Cardinality(B)
    BY DEF HowMany
  <2> HIDE DEF A, B
  <2>5. Cardinality(B) = Cardinality(A) + (IF c \in B THEN 1 ELSE 0)
                             - (IF c \in A THEN 1 ELSE 0)
    BY <2>1, <2>2, OneDiffers
  <2> QED
    BY <2>3, <2>4, <2>5
<1> QED
  BY <1>1, <1>3, <1>5, <1>4, HowManyNat DEF Shift

(* The steps of a thread, and what they change.                            *)
LEMMA Shifts ==
  /\ Shift("sem", "lock", Inside) = 1 /\ Shift("sem", "lock", Moved) = 0
  /\ Shift("sem", "lock", {"done"}) = 0
  /\ Shift("lock", "slot", Inside) = 0 /\ Shift("lock", "slot", Moved) = 0
  /\ Shift("lock", "slot", {"done"}) = 0
  /\ Shift("slot", "index", Inside) = 0 /\ Shift("slot", "index", Moved) = 0
  /\ Shift("slot", "index", {"done"}) = 0
  /\ Shift("index", "post", Inside) = 0 /\ Shift("index", "post", Moved) = 1
  /\ Shift("index", "post", {"done"}) = 0
  /\ Shift("post", "done", Inside) = 0 /\ Shift("post", "done", Moved) = 0
  /\ Shift("post", "done", {"done"}) = 1
BY DEF Shift, Inside, Moved

(* The semaphores stay right if the step changes them as it should.        *)
LEMMA ProducerCounts ==
  ASSUME BufferTypes, Semaphores, NEW p \in Producers, NEW k, bufferPc[p] = k, NEW l,
         bufferPc' = [bufferPc EXCEPT ![p] = l],
         empty' = empty - Shift(k, l, Inside), full' = full + Shift(k, l, {"done"})
  PROVE  Semaphores' /\ InRing' = InRing + Shift(k, l, Moved)
<1>1. \A L : Shift(k, l, L) \in Int
  BY DEF Shift
<1>2. \A L : \A T \in {Producers, Consumers} : HowMany(T, bufferPc, L) \in Nat
  BY BufferSizes, HowManyNat
<1>3. \A L : /\ HowMany(Producers, bufferPc', L) =
                     HowMany(Producers, bufferPc, L) + Shift(k, l, L)
             /\ HowMany(Consumers, bufferPc', L) = HowMany(Consumers, bufferPc, L)
  BY ProducerGoes
<1>4. Semaphores'
  <2> DEFINE a == HowMany(Producers, bufferPc, Inside)
             b == HowMany(Producers, bufferPc, {"done"})
             m == HowMany(Consumers, bufferPc, Inside)
             n == HowMany(Consumers, bufferPc, {"done"})
  <2>1. /\ HowMany(Producers, bufferPc', Inside) = a + Shift(k, l, Inside)
        /\ HowMany(Producers, bufferPc', {"done"}) = b + Shift(k, l, {"done"})
        /\ HowMany(Consumers, bufferPc', Inside) = m
        /\ HowMany(Consumers, bufferPc', {"done"}) = n
    BY <1>3
  <2>2. /\ a \in Int /\ b \in Int /\ m \in Int /\ n \in Int
        /\ BufferSlots \in Int
        /\ Shift(k, l, Inside) \in Int /\ Shift(k, l, {"done"}) \in Int
    BY <1>1, <1>2, BufferSizes
  <2> QED
    BY <2>1, <2>2 DEF Semaphores
<1>5. InRing' = InRing + Shift(k, l, Moved)
  <2> DEFINE a == HowMany(Producers, bufferPc, Moved)
             b == HowMany(Consumers, bufferPc, Moved)
  <2>1. /\ a \in Int /\ b \in Int /\ Shift(k, l, Moved) \in Int
    BY <1>1, <1>2
  <2>2. InRing = a - b /\ InRing' = HowMany(Producers, bufferPc', Moved)
                                       - HowMany(Consumers, bufferPc', Moved)
    BY DEF InRing
  <2>3. /\ HowMany(Producers, bufferPc', Moved) = a + Shift(k, l, Moved)
        /\ HowMany(Consumers, bufferPc', Moved) = b
    BY <1>3
  <2> QED
    BY <2>1, <2>2, <2>3
<1> QED
  BY <1>4, <1>5

(* The same for a step of a consumer.                                       *)
LEMMA ConsumerCounts ==
  ASSUME BufferTypes, Semaphores, NEW c \in Consumers, NEW k, bufferPc[c] = k, NEW l,
         bufferPc' = [bufferPc EXCEPT ![c] = l],
         empty' = empty + Shift(k, l, {"done"}), full' = full - Shift(k, l, Inside)
  PROVE  Semaphores' /\ InRing' = InRing - Shift(k, l, Moved)
<1>1. \A L : Shift(k, l, L) \in Int
  BY DEF Shift
<1>2. \A L : \A T \in {Producers, Consumers} : HowMany(T, bufferPc, L) \in Nat
  BY BufferSizes, HowManyNat
<1>3. \A L : /\ HowMany(Consumers, bufferPc', L) =
                     HowMany(Consumers, bufferPc, L) + Shift(k, l, L)
             /\ HowMany(Producers, bufferPc', L) = HowMany(Producers, bufferPc, L)
  BY ConsumerGoes
<1>4. Semaphores'
  <2> DEFINE a == HowMany(Consumers, bufferPc, Inside)
             b == HowMany(Consumers, bufferPc, {"done"})
             m == HowMany(Producers, bufferPc, Inside)
             n == HowMany(Producers, bufferPc, {"done"})
  <2>1. /\ HowMany(Consumers, bufferPc', Inside) = a + Shift(k, l, Inside)
        /\ HowMany(Consumers, bufferPc', {"done"}) = b + Shift(k, l, {"done"})
        /\ HowMany(Producers, bufferPc', Inside) = m
        /\ HowMany(Producers, bufferPc', {"done"}) = n
    BY <1>3
  <2>2. /\ a \in Int /\ b \in Int /\ m \in Int /\ n \in Int
        /\ BufferSlots \in Int
        /\ Shift(k, l, Inside) \in Int /\ Shift(k, l, {"done"}) \in Int
    BY <1>1, <1>2, BufferSizes
  <2> QED
    BY <2>1, <2>2 DEF Semaphores
<1>5. InRing' = InRing - Shift(k, l, Moved)
  <2> DEFINE a == HowMany(Producers, bufferPc, Moved)
             b == HowMany(Consumers, bufferPc, Moved)
  <2>1. /\ a \in Int /\ b \in Int /\ Shift(k, l, Moved) \in Int
    BY <1>1, <1>2
  <2>2. InRing = a - b /\ InRing' = HowMany(Producers, bufferPc', Moved)
                                       - HowMany(Consumers, bufferPc', Moved)
    BY DEF InRing
  <2>3. /\ HowMany(Producers, bufferPc', Moved) = a
        /\ HowMany(Consumers, bufferPc', Moved) = b + Shift(k, l, Moved)
    BY <1>3
  <2> QED
    BY <2>1, <2>2, <2>3
<1> QED
  BY <1>4, <1>5

(* The ring starts empty, with all slots counted by empty.                  *)
LEMMA RingInit == Buffer!Init => RingInv
<1> SUFFICES ASSUME Buffer!Init PROVE RingInv
  OBVIOUS
<1> USE BufferSizes
<1>1. BufferTypes /\ MutexHeld
  BY DEF Buffer!Init, BufferTypes, MutexHeld
<1>2. ASSUME NEW T \in {Producers, Consumers}, NEW L, "sem" \notin L
      PROVE  HowMany(T, bufferPc, L) = 0
  <2>1. {t \in T : bufferPc[t] \in L} = {}
    BY <1>2 DEF Buffer!Init
  <2> QED
    BY <2>1, FS_EmptySet DEF HowMany
<1>3. "sem" \notin Moved /\ "sem" \notin Inside /\ "sem" \notin {"done"}
  BY DEF Moved, Inside
<1>4. InRing = 0 /\ Semaphores
  BY <1>2, <1>3 DEF InRing, Semaphores, Buffer!Init
<1>5. fast = (slow + InRing) % BufferSlots
  <2>1. slow = 0 /\ fast = 0
    BY DEF Buffer!Init
  <2> QED
    BY <1>4, <2>1, RingSums
<1> QED
  BY <1>1, <1>4, <1>5 DEF RingInv, Buffer!Init

(* Every step of a thread keeps the invariant.                              *)
LEMMA RingStep == RingInv /\ [Buffer!Next]_(Buffer!vars) => RingInv'
<1> SUFFICES ASSUME RingInv, [Buffer!Next]_(Buffer!vars) PROVE RingInv'
  OBVIOUS
<1> USE BufferSizes
<1>1. /\ BufferTypes /\ Semaphores /\ MutexHeld
      /\ fast = (slow + InRing) % BufferSlots
      /\ \A p \in Producers : bufferPc[p] = "index" => buffer[fast] = p
      /\ \A c \in Consumers : bufferPc[c] = "index" => item[c] = buffer[slow]
  BY DEF RingInv
<1>2. /\ InRing \in 0 .. BufferSlots
      /\ \A p \in Producers : bufferPc[p] = "index" => InRing < BufferSlots
      /\ \A c \in Consumers : bufferPc[c] = "index" => InRing > 0
  BY <1>1, RingCounts
<1>3. CASE UNCHANGED Buffer!vars
  BY <1>1, <1>3
     DEF Buffer!vars, RingInv, BufferTypes, Semaphores, MutexHeld, InRing
<1>4. \A t \in Buffer!Threads : bufferPc[t] \in {"slot", "index"} <=> mutex = t
  BY <1>1 DEF MutexHeld
<1>5. empty \in Int /\ full \in Int /\ InRing \in Int
  BY <1>1, <1>2 DEF BufferTypes
<1>6. ASSUME NEW p \in Producers, Buffer!WaitEmpty(p) PROVE RingInv'
  <2>1. /\ bufferPc[p] = "sem" /\ bufferPc' = [bufferPc EXCEPT ![p] = "lock"]
        /\ empty > 0 /\ empty' = empty - 1
        /\ UNCHANGED <<buffer, fast, slow, full, mutex, item>>
    BY <1>6 DEF Buffer!WaitEmpty, Buffer!At, Buffer!Goto
  <2>2. BufferTypes' /\ MutexHeld'
    BY <1>1, <2>1 DEF BufferTypes, MutexHeld
  <2>3. Semaphores' /\ InRing' = InRing
    <3>1. /\ empty' = empty - Shift("sem", "lock", Inside)
          /\ full' = full + Shift("sem", "lock", {"done"})
      BY <1>5, <2>1, Shifts
    <3>2. Semaphores' /\ InRing' = InRing + Shift("sem", "lock", Moved)
      BY <1>1, <2>1, <3>1, ProducerCounts
    <3> QED
      BY <1>5, <3>2, Shifts
  <2> QED
    BY <1>1, <2>1, <2>2, <2>3 DEF RingInv, BufferTypes
<1>7. ASSUME NEW t \in Buffer!Threads, Buffer!Lock(t) PROVE RingInv'
  <2>1. /\ bufferPc[t] = "lock" /\ bufferPc' = [bufferPc EXCEPT ![t] = "slot"]
        /\ mutex = NoItem /\ mutex' = t
        /\ UNCHANGED <<buffer, fast, slow, empty, full, item>>
    BY <1>7 DEF Buffer!Lock, Buffer!At, Buffer!Goto, Buffer!TakeMutex
  <2>2. BufferTypes' /\ MutexHeld'
    BY <1>1, <1>4, <2>1 DEF BufferTypes, MutexHeld
  <2>3. Semaphores' /\ InRing' = InRing
    <3>1. CASE t \in Producers
      <4>1. /\ empty' = empty - Shift("lock", "slot", Inside)
            /\ full' = full + Shift("lock", "slot", {"done"})
        BY <1>5, <2>1, Shifts
      <4>2. Semaphores' /\ InRing' = InRing + Shift("lock", "slot", Moved)
        BY <1>1, <2>1, <3>1, <4>1, ProducerCounts
      <4> QED
        BY <1>5, <4>2, Shifts
    <3>2. CASE t \in Consumers
      <4>1. /\ empty' = empty + Shift("lock", "slot", {"done"})
            /\ full' = full - Shift("lock", "slot", Inside)
        BY <1>5, <2>1, Shifts
      <4>2. Semaphores' /\ InRing' = InRing - Shift("lock", "slot", Moved)
        BY <1>1, <2>1, <3>2, <4>1, ConsumerCounts
      <4> QED
        BY <1>5, <4>2, Shifts
    <3> QED
      BY <3>1, <3>2
  <2> QED
    BY <1>1, <2>1, <2>2, <2>3 DEF RingInv, BufferTypes
<1>8. ASSUME NEW p \in Producers, Buffer!Store(p) PROVE RingInv'
  <2>1. /\ bufferPc[p] = "slot"
        /\ bufferPc' = [bufferPc EXCEPT ![p] = "index"]
        /\ buffer' = [buffer EXCEPT ![fast] = p]
        /\ UNCHANGED <<fast, slow, empty, full, mutex, item>>
    BY <1>8 DEF Buffer!Store, Buffer!At, Buffer!Goto
  <2>2. BufferTypes' /\ MutexHeld'
    BY <1>1, <2>1 DEF BufferTypes, MutexHeld
  <2>3. Semaphores' /\ InRing' = InRing
    <3>1. /\ empty' = empty - Shift("slot", "index", Inside)
          /\ full' = full + Shift("slot", "index", {"done"})
      BY <1>5, <2>1, Shifts
    <3>2. Semaphores' /\ InRing' = InRing + Shift("slot", "index", Moved)
      BY <1>1, <2>1, <3>1, ProducerCounts
    <3> QED
      BY <1>5, <3>2, Shifts
  <2>4. \A t \in Buffer!Threads : t # p => bufferPc'[t] # "index"
    BY <1>1, <1>4, <2>1 DEF BufferTypes
  <2> QED
    BY <1>1, <2>1, <2>2, <2>3, <2>4 DEF RingInv, BufferTypes
<1>9. ASSUME NEW p \in Producers, Buffer!MoveFast(p) PROVE RingInv'
  <2>1. /\ bufferPc[p] = "index"
        /\ bufferPc' = [bufferPc EXCEPT ![p] = "post"]
        /\ fast' = (fast + 1) % BufferSlots /\ mutex' = NoItem
        /\ UNCHANGED <<buffer, slow, empty, full, item>>
    BY <1>9 DEF Buffer!MoveFast, Buffer!At, Buffer!Goto, Buffer!Advance
  <2>2. fast \in Buffer!Ring /\ slow \in Buffer!Ring /\ InRing < BufferSlots
    BY <1>1, <1>2, <2>1 DEF BufferTypes
  <2>3. BufferTypes'
    <3>1. fast + 1 \in Int
      BY <2>2
    <3>2. fast' \in Buffer!Ring
      BY <2>1, <3>1, RingSums
    <3> QED
      BY <1>1, <2>1, <3>2 DEF BufferTypes
  <2>4. MutexHeld'
    BY <1>1, <1>4, <2>1 DEF BufferTypes, MutexHeld
  <2>5. Semaphores' /\ InRing' = InRing + 1
    <3>1. /\ empty' = empty - Shift("index", "post", Inside)
          /\ full' = full + Shift("index", "post", {"done"})
      BY <1>5, <2>1, Shifts
    <3>2. Semaphores' /\ InRing' = InRing + Shift("index", "post", Moved)
      BY <1>1, <2>1, <3>1, ProducerCounts
    <3> QED
      BY <1>5, <3>2, Shifts
  <2>6. fast' = (slow + InRing') % BufferSlots
    <3> DEFINE M == BufferSlots
               k == InRing
    <3>1. /\ slow \in 0 .. M - 1 /\ fast \in 0 .. M - 1 /\ k \in 0 .. M - 1
          /\ M \in Nat
          /\ fast = (slow + k) % M /\ fast' = (fast + 1) % M
          /\ InRing' = k + 1
      BY <1>1, <1>2, <2>1, <2>2, <2>5
    <3>2. /\ (slow + k) % M = IF slow + k < M THEN slow + k ELSE slow + k - M
          /\ (slow + (k + 1)) % M =
                 IF slow + (k + 1) < M THEN slow + (k + 1) ELSE slow + (k + 1) - M
          /\ (fast + 1) % M = IF fast + 1 < M THEN fast + 1 ELSE fast + 1 - M
      <4>1. k \in 0 .. M /\ k + 1 \in 0 .. M /\ 1 \in 0 .. M
        BY <3>1
      <4> QED
        BY <2>2, <4>1, RingSums
    <3> HIDE DEF M, k
    <3> QED
      BY <3>1, <3>2 DEF M
  <2>7. \A t \in Buffer!Threads : bufferPc'[t] # "index"
    BY <1>1, <1>4, <2>1 DEF BufferTypes
  <2> QED
    BY <2>1, <2>3, <2>4, <2>5, <2>6, <2>7 DEF RingInv
<1>10. ASSUME NEW p \in Producers, Buffer!ProducerPosts(p) PROVE RingInv'
  <2>1. /\ bufferPc[p] = "post" /\ bufferPc' = [bufferPc EXCEPT ![p] = "done"]
        /\ full' = full + 1
        /\ UNCHANGED <<buffer, fast, slow, empty, mutex, item>>
    BY <1>10 DEF Buffer!ProducerPosts, Buffer!At, Buffer!Goto, Buffer!PostFull
  <2>2. BufferTypes' /\ MutexHeld'
    BY <1>1, <2>1 DEF BufferTypes, MutexHeld
  <2>3. Semaphores' /\ InRing' = InRing
    <3>1. /\ empty' = empty - Shift("post", "done", Inside)
          /\ full' = full + Shift("post", "done", {"done"})
      BY <1>5, <2>1, Shifts
    <3>2. Semaphores' /\ InRing' = InRing + Shift("post", "done", Moved)
      BY <1>1, <2>1, <3>1, ProducerCounts
    <3> QED
      BY <1>5, <3>2, Shifts
  <2> QED
    BY <1>1, <2>1, <2>2, <2>3 DEF RingInv, BufferTypes
<1>11. ASSUME NEW c \in Consumers, Buffer!WaitFull(c) PROVE RingInv'
  <2>1. /\ bufferPc[c] = "sem" /\ bufferPc' = [bufferPc EXCEPT ![c] = "lock"]
        /\ full > 0 /\ full' = full - 1
        /\ UNCHANGED <<buffer, fast, slow, empty, mutex, item>>
    BY <1>11 DEF Buffer!WaitFull, Buffer!At, Buffer!Goto
  <2>2. BufferTypes' /\ MutexHeld'
    BY <1>1, <2>1 DEF BufferTypes, MutexHeld
  <2>3. Semaphores' /\ InRing' = InRing
    <3>1. /\ empty' = empty + Shift("sem", "lock", {"done"})
          /\ full' = full - Shift("sem", "lock", Inside)
      BY <1>5, <2>1, Shifts
    <3>2. Semaphores' /\ InRing' = InRing - Shift("sem", "lock", Moved)
      BY <1>1, <2>1, <3>1, ConsumerCounts
    <3> QED
      BY <1>5, <3>2, Shifts
  <2> QED
    BY <1>1, <2>1, <2>2, <2>3 DEF RingInv, BufferTypes
<1>12. ASSUME NEW c \in Consumers, Buffer!Load(c) PROVE RingInv'
  <2>1. /\ bufferPc[c] = "slot"
        /\ bufferPc' = [bufferPc EXCEPT ![c] = "index"]
        /\ item' = [item EXCEPT ![c] = buffer[slow]]
        /\ UNCHANGED <<buffer, fast, slow, empty, full, mutex>>
    BY <1>12 DEF Buffer!Load, Buffer!At, Buffer!Goto
  <2>2. BufferTypes' /\ MutexHeld'
    BY <1>1, <2>1 DEF BufferTypes, MutexHeld
  <2>3. Semaphores' /\ InRing' = InRing
    <3>1. /\ empty' = empty + Shift("slot", "index", {"done"})
          /\ full' = full - Shift("slot", "index", Inside)
      BY <1>5, <2>1, Shifts
    <3>2. Semaphores' /\ InRing' = InRing - Shift("slot", "index", Moved)
      BY <1>1, <2>1, <3>1, ConsumerCounts
    <3> QED
      BY <1>5, <3>2, Shifts
  <2>4. \A t \in Buffer!Threads : t # c => bufferPc'[t] # "index"
    BY <1>1, <1>4, <2>1 DEF BufferTypes
  <2> QED
    BY <1>1, <2>1, <2>2, <2>3, <2>4 DEF RingInv, BufferTypes
<1>13. ASSUME NEW c \in Consumers, Buffer!MoveSlow(c) PROVE RingInv'
  <2>1. /\ bufferPc[c] = "index"
        /\ bufferPc' = [bufferPc EXCEPT ![c] = "post"]
        /\ slow' = (slow + 1) % BufferSlots /\ mutex' = NoItem
        /\ UNCHANGED <<buffer, fast, empty, full, item>>
    BY <1>13 DEF Buffer!MoveSlow, Buffer!At, Buffer!Goto, Buffer!Advance
  <2>2. fast \in Buffer!Ring /\ slow \in Buffer!Ring /\ InRing > 0
    BY <1>1, <1>2, <2>1 DEF BufferTypes
  <2>3. BufferTypes'
    <3>1. slow + 1 \in Int
      BY <2>2
    <3>2. slow' \in Buffer!Ring
      BY <2>1, <3>1, RingSums
    <3> QED
      BY <1>1, <2>1, <3>2 DEF BufferTypes
  <2>4. MutexHeld'
    BY <1>1, <1>4, <2>1 DEF BufferTypes, MutexHeld
  <2>5. Semaphores' /\ InRing' = InRing - 1
    <3>1. /\ empty' = empty + Shift("index", "post", {"done"})
          /\ full' = full - Shift("index", "post", Inside)
      BY <1>5, <2>1, Shifts
    <3>2. Semaphores' /\ InRing' = InRing - Shift("index", "post", Moved)
      BY <1>1, <2>1, <3>1, ConsumerCounts
    <3> QED
      BY <1>5, <3>2, Shifts
  <2>6. fast' = (slow' + InRing') % BufferSlots
    <3> DEFINE M == BufferSlots
               k == InRing
    <3>1. /\ slow \in 0 .. M - 1 /\ slow' \in 0 .. M - 1 /\ k \in 1 .. M
          /\ M \in Nat
          /\ fast = (slow + k) % M /\ slow' = (slow + 1) % M
          /\ InRing' = k - 1
          /\ fast' = fast
      BY <1>1, <1>2, <2>1, <2>2, <2>3, <2>5 DEF BufferTypes
    <3>2. /\ (slow + k) % M = IF slow + k < M THEN slow + k ELSE slow + k - M
          /\ (slow' + (k - 1)) % M =
                 IF slow' + (k - 1) < M THEN slow' + (k - 1) ELSE slow' + (k - 1) - M
          /\ (slow + 1) % M = IF slow + 1 < M THEN slow + 1 ELSE slow + 1 - M
      <4>1. k \in 0 .. M /\ k - 1 \in 0 .. M /\ 1 \in 0 .. M
        BY <3>1
      <4> QED
        BY <2>2, <3>1, <4>1, RingSums
    <3> HIDE DEF M, k
    <3> QED
      BY <3>1, <3>2, SMTT(30) DEF M
  <2>7. \A t \in Buffer!Threads : bufferPc'[t] # "index"
    BY <1>1, <1>4, <2>1 DEF BufferTypes
  <2> QED
    BY <2>1, <2>3, <2>4, <2>5, <2>6, <2>7 DEF RingInv
<1>14. ASSUME NEW c \in Consumers, Buffer!ConsumerPosts(c) PROVE RingInv'
  <2>1. /\ bufferPc[c] = "post" /\ bufferPc' = [bufferPc EXCEPT ![c] = "done"]
        /\ empty' = empty + 1
        /\ UNCHANGED <<buffer, fast, slow, full, mutex, item>>
    BY <1>14 DEF Buffer!ConsumerPosts, Buffer!At, Buffer!Goto
  <2>2. BufferTypes' /\ MutexHeld'
    BY <1>1, <2>1 DEF BufferTypes, MutexHeld
  <2>3. Semaphores' /\ InRing' = InRing
    <3>1. /\ empty' = empty + Shift("post", "done", {"done"})
          /\ full' = full - Shift("post", "done", Inside)
      BY <1>5, <2>1, Shifts
    <3>2. Semaphores' /\ InRing' = InRing - Shift("post", "done", Moved)
      BY <1>1, <2>1, <3>1, ConsumerCounts
    <3> QED
      BY <1>5, <3>2, Shifts
  <2> QED
    BY <1>1, <2>1, <2>2, <2>3 DEF RingInv, BufferTypes
<1> QED
  BY <1>3, <1>6, <1>7, <1>8, <1>9, <1>10, <1>11, <1>12, <1>13, <1>14
     DEF Buffer!Next, Buffer!Producer, Buffer!Consumer

(* The variables of the queue.                                             *)
Served == {p \in Producers : bufferPc[p] \in {"post", "done"}}
Received ==
    [c \in {d \in Consumers : bufferPc[d] \in {"post", "done"}} |-> item[c]]
QueueVars == <<Buffer!Contents, Served, Received>>

(* The queue, before and after a step, in terms of InRing.                  *)
LEMMA ContentsAre ==
  /\ Buffer!Contents = [x \in 1 .. InRing |-> buffer[(slow + x - 1) % BufferSlots]]
  /\ Buffer!Contents' = [x \in 1 .. InRing' |-> buffer'[(slow' + x - 1) % BufferSlots]]
<1>1. Buffer!Stored = InRing /\ Buffer!Stored' = InRing'
  BY
     DEF Buffer!Stored, Buffer!Count, InRing, HowMany, Moved,
         Buffer!Cardinality, Cardinality
<1> QED
  BY <1>1 DEF Buffer!Contents

(* The queue starts empty.                                                  *)
LEMMA RingIsEmpty ==
  Buffer!Init => Buffer!Contents = << >> /\ Served = {} /\ Received = << >>
<1> SUFFICES ASSUME Buffer!Init
             PROVE  Buffer!Contents = << >> /\ Served = {} /\ Received = << >>
  OBVIOUS
<1>1. ASSUME NEW T \in {Producers, Consumers}
      PROVE  HowMany(T, bufferPc, Moved) = 0
  <2>1. {t \in T : bufferPc[t] \in Moved} = {}
    BY BufferSizes DEF Buffer!Init, Moved
  <2> QED
    BY <2>1, FS_EmptySet DEF HowMany
<1>2. InRing = 0
  BY <1>1 DEF InRing
<1>3. Buffer!Contents = << >>
  BY <1>2, ContentsAre
<1>4. Served = {} /\ {d \in Consumers : bufferPc[d] \in {"post", "done"}} = {}
  BY BufferSizes DEF Buffer!Init, Served
<1> QED
  BY <1>3, <1>4 DEF Received

(* A step that moves no index and writes no cell in use changes nothing of *)
(* the queue.                                                              *)
LEMMA QuietStep ==
  ASSUME slow' = slow, InRing' = InRing,
         \A t \in Buffer!Threads : bufferPc'[t] \in Moved <=> bufferPc[t] \in Moved,
         \A x \in 1 .. InRing : buffer'[(slow + x - 1) % BufferSlots] =
                                    buffer[(slow + x - 1) % BufferSlots],
         \A c \in Consumers : bufferPc[c] \in Moved => item'[c] = item[c]
  PROVE  QueueVars' = QueueVars
<1> USE BufferSizes
<1>1. Buffer!Contents' = Buffer!Contents
  BY ContentsAre
<1>2. Served' = Served
  BY DEF Served, Moved
<1>3. {d \in Consumers : bufferPc'[d] \in {"post", "done"}} =
          {d \in Consumers : bufferPc[d] \in {"post", "done"}}
  BY DEF Moved
<1>4. Received' = Received
  BY <1>3 DEF Received, Moved
<1> QED
  BY <1>1, <1>2, <1>4 DEF QueueVars

(* The cells of the ring in the order of the queue.                        *)
LEMMA Cells ==
  ASSUME RingInv
  PROVE  /\ InRing \in 0 .. BufferSlots /\ slow \in Buffer!Ring
         /\ \A x \in 1 .. InRing :
                /\ (slow + x - 1) % BufferSlots \in Buffer!Ring
                /\ InRing < BufferSlots => (slow + x - 1) % BufferSlots # fast
         /\ InRing > 0 => (slow + 1 - 1) % BufferSlots = slow
         /\ Buffer!Contents \in Seq(Producers \cup {NoItem})
         /\ Len(Buffer!Contents) = InRing
<1> DEFINE M == BufferSlots
           k == InRing
<1>1. /\ k \in 0 .. M /\ slow \in 0 .. M - 1 /\ M \in Nat \ {0}
      /\ fast = (slow + k) % M
  BY RingCounts, BufferSizes DEF RingInv, BufferTypes
<1>2. ASSUME NEW x \in 1 .. k
      PROVE  /\ (slow + x - 1) % M =
                    IF slow + x - 1 < M THEN slow + x - 1 ELSE slow + x - 1 - M
             /\ (slow + x - 1) % M \in 0 .. M - 1
  <2>1. /\ slow \in Buffer!Ring
        /\ x - 1 \in 0 .. M
        /\ slow + x - 1 = slow + (x - 1)
    BY <1>1, BufferSizes
  <2>2. (slow + (x - 1)) % M =
            IF slow + (x - 1) < M THEN slow + (x - 1) ELSE slow + (x - 1) - M
    BY <2>1, RingSums
  <2> HIDE DEF M, k
  <2> QED
    BY <1>1, <2>1, <2>2
<1>3. fast = IF slow + k < M THEN slow + k ELSE slow + k - M
  <2>1. slow \in Buffer!Ring
    BY <1>1, BufferSizes
  <2> QED
    BY <1>1, <2>1, RingSums
<1>4. Buffer!Ring = 0 .. M - 1
  BY BufferSizes
<1>5. buffer \in [0 .. M - 1 -> Producers \cup {NoItem}]
  BY <1>4 DEF RingInv, BufferTypes
<1>6. Buffer!Contents = [x \in 1 .. k |-> buffer[(slow + x - 1) % M]]
  BY ContentsAre
<1> HIDE DEF M, k
<1>7. \A x \in 1 .. k : k < M => (slow + x - 1) % M # fast
  BY <1>1, <1>2, <1>3
<1>8. k > 0 => (slow + 1 - 1) % M = slow
  BY <1>1, <1>2
<1>9. /\ Buffer!Contents \in Seq(Producers \cup {NoItem})
      /\ Len(Buffer!Contents) = k
  BY <1>1, <1>2, <1>5, <1>6
<1> QED
  BY <1>1, <1>2, <1>4, <1>7, <1>8, <1>9 DEF M, k

(* What Append and Tail are, as functions.                                 *)
LEMMA AppendIs ==
  ASSUME NEW S, NEW q \in Seq(S), NEW e \in S
  PROVE  Append(q, e) =
             [x \in 1 .. Len(q) + 1 |-> IF x = Len(q) + 1 THEN e ELSE q[x]]
<1>1. /\ Len(q) \in Nat /\ Append(q, e) \in Seq(S)
      /\ Len(Append(q, e)) = Len(q) + 1
      /\ \A x \in 1 .. Len(q) : Append(q, e)[x] = q[x]
      /\ Append(q, e)[Len(q) + 1] = e
  BY AppendProperties, LenProperties
<1> DEFINE f == Append(q, e)
<1>2. f \in [1 .. Len(q) + 1 -> S]
  BY <1>1, LenProperties
<1> HIDE DEF f
<1>3. f = [x \in 1 .. Len(q) + 1 |-> f[x]]
  BY <1>2
<1> QED
  BY <1>1, <1>3 DEF f

(* ... and a tail.                                                          *)
LEMMA TailIs ==
  ASSUME NEW S, NEW q \in Seq(S), q # << >>
  PROVE  Tail(q) = [x \in 1 .. Len(q) - 1 |-> q[x + 1]]
<1>1. /\ Len(q) \in Nat /\ Tail(q) \in Seq(S) /\ Len(Tail(q)) = Len(q) - 1
      /\ \A x \in 1 .. Len(q) - 1 : Tail(q)[x] = q[x + 1]
  BY HeadTailProperties, LenProperties
<1> DEFINE f == Tail(q)
<1>2. f \in [1 .. Len(q) - 1 -> S]
  BY <1>1, LenProperties
<1> HIDE DEF f
<1>3. f = [x \in 1 .. Len(q) - 1 |-> f[x]]
  BY <1>2
<1> QED
  BY <1>1, <1>3 DEF f

(* The producer that moves fast puts its item, the consumer that moves     *)
(* slow gets one.                                                          *)
LEMMA PutStep ==
  ASSUME RingInv, NEW p \in Producers, Buffer!MoveFast(p)
  PROVE  Buffer!Fifo!Put(p)
<1> USE BufferSizes
<1>1. /\ bufferPc[p] = "index" /\ bufferPc' = [bufferPc EXCEPT ![p] = "post"]
      /\ UNCHANGED <<buffer, slow, empty, full, item>>
  BY DEF Buffer!MoveFast, Buffer!At, Buffer!Goto
<1>2. /\ BufferTypes /\ Semaphores /\ buffer[fast] = p
      /\ fast = (slow + InRing) % BufferSlots
  BY <1>1 DEF RingInv
<1>3. InRing \in Nat /\ InRing < BufferSlots
  BY <1>1, <1>2, RingCounts
<1>4. InRing' = InRing + 1
  <2>1. empty' = empty - Shift("index", "post", Inside)
        /\ full' = full + Shift("index", "post", {"done"})
    BY <1>1, <1>2, Shifts DEF BufferTypes
  <2>2. InRing' = InRing + Shift("index", "post", Moved)
    BY <1>1, <1>2, <2>1, ProducerCounts
  <2> QED
    BY <2>2, Shifts
<1>5. Len(Buffer!Contents) < BufferSlots
  BY <1>3, Cells
<1>6. Buffer!Contents' = Append(Buffer!Contents, p)
  <2> DEFINE q == Buffer!Contents
             k == InRing
  <2>1. q \in Seq(Producers \cup {NoItem}) /\ Len(q) = k /\ k \in Nat
    BY <1>3, Cells
  <2>2. q = [x \in 1 .. k |-> buffer[(slow + x - 1) % BufferSlots]]
    BY ContentsAre
  <2>3. q' = [x \in 1 .. k + 1 |-> buffer[(slow + x - 1) % BufferSlots]]
    BY <1>1, <1>4, ContentsAre
  <2>4. slow + (k + 1) - 1 = slow + k
    BY <1>2, <2>1 DEF BufferTypes
  <2>5. buffer[(slow + (k + 1) - 1) % BufferSlots] = p
    BY <1>2, <2>4
  <2> HIDE DEF q, k
  <2>6. Append(q, p) = [x \in 1 .. k + 1 |-> IF x = k + 1 THEN p ELSE q[x]]
    BY <2>1, AppendIs
  <2>7. \A x \in 1 .. k + 1 : buffer[(slow + x - 1) % BufferSlots] =
                                  IF x = k + 1 THEN p ELSE q[x]
    BY <2>1, <2>2, <2>5
  <2> QED
    BY <2>3, <2>6, <2>7 DEF q
<1>7. p \notin Served /\ Served' = Served \cup {p}
  BY <1>1, <1>2 DEF Served, BufferTypes
<1>8. {d \in Consumers : bufferPc'[d] \in {"post", "done"}} =
          {d \in Consumers : bufferPc[d] \in {"post", "done"}}
  BY <1>1, <1>2 DEF BufferTypes
<1>9. Received' = Received
  BY <1>1, <1>8 DEF Received
<1> QED
  BY <1>5, <1>6, <1>7, <1>9 DEF Buffer!Fifo!Put, Served, Received

(* MoveSlow takes the item that Load has copied, the first of the queue.    *)
LEMMA GetStep ==
  ASSUME RingInv, NEW c \in Consumers, Buffer!MoveSlow(c)
  PROVE  Buffer!Fifo!Get(c)
<1> USE BufferSizes
<1>1. /\ bufferPc[c] = "index" /\ bufferPc' = [bufferPc EXCEPT ![c] = "post"]
      /\ slow' = (slow + 1) % BufferSlots
      /\ UNCHANGED <<buffer, fast, empty, full, item>>
  BY DEF Buffer!MoveSlow, Buffer!At, Buffer!Goto, Buffer!Advance
<1>2. BufferTypes /\ Semaphores /\ item[c] = buffer[slow]
  BY <1>1 DEF RingInv
<1>3. InRing \in 1 .. BufferSlots
  BY <1>1, <1>2, RingCounts
<1>4. InRing' = InRing - 1
  <2>1. empty' = empty + Shift("index", "post", {"done"})
        /\ full' = full - Shift("index", "post", Inside)
    BY <1>1, <1>2, Shifts DEF BufferTypes
  <2>2. InRing' = InRing - Shift("index", "post", Moved)
    BY <1>1, <1>2, <2>1, ConsumerCounts
  <2> QED
    BY <2>2, Shifts
<1> DEFINE q == Buffer!Contents
           k == InRing
           M == BufferSlots
<1>5. q \in Seq(Producers \cup {NoItem}) /\ Len(q) = k
  BY Cells
<1>6. q = [x \in 1 .. k |-> buffer[(slow + x - 1) % M]]
  BY ContentsAre
<1>7. q # << >> /\ Head(q) = item[c]
  <2>1. (slow + 1 - 1) % M = slow /\ 1 \in 1 .. k /\ k \in Nat
    BY <1>3, Cells
  <2> HIDE DEF q, k, M
  <2>2. q[1] = buffer[slow]
    BY <1>6, <2>1
  <2> QED
    BY <1>2, <1>5, <2>1, <2>2
<1>8. q' = Tail(q)
  <2>1. q' = [x \in 1 .. k - 1 |-> buffer[(slow' + x - 1) % M]]
    BY <1>1, <1>4, ContentsAre
  <2>2. slow \in 0 .. M - 1 /\ M \in Nat \ {0} /\ k \in 1 .. M
    BY <1>2, <1>3 DEF BufferTypes
  <2>3. ASSUME NEW x \in 1 .. k - 1
        PROVE  (slow' + x - 1) % M = (slow + (x + 1) - 1) % M
    <3>1. /\ slow + 1 \in Int /\ 1 \in 0 .. M /\ x \in 0 .. M
          /\ x - 1 \in 0 .. M
          /\ slow \in Buffer!Ring /\ slow' \in Buffer!Ring
      <4>1. /\ slow + 1 \in Int
            /\ 1 \in 0 .. M
            /\ x \in 0 .. M
            /\ x - 1 \in 0 .. M
        BY <2>2
      <4>2. slow' \in Buffer!Ring
        BY <1>1, <4>1, RingSums
      <4> QED
        BY <1>2, <4>1, <4>2 DEF BufferTypes
    <3>2. /\ slow' = IF slow + 1 < M THEN slow + 1 ELSE slow + 1 - M
          /\ (slow' + (x - 1)) % M =
                 IF slow' + (x - 1) < M THEN slow' + (x - 1) ELSE slow' + (x - 1) - M
          /\ (slow + x) % M = IF slow + x < M THEN slow + x ELSE slow + x - M
      BY <1>1, <3>1, RingSums
    <3>3. slow' + x - 1 = slow' + (x - 1) /\ slow + (x + 1) - 1 = slow + x
      BY <2>2, <3>1
    <3> HIDE DEF M, k
    <3> QED
      BY <2>2, <3>1, <3>2, <3>3
  <2> HIDE DEF q, k, M
  <2>4. Tail(q) = [x \in 1 .. k - 1 |-> q[x + 1]]
    BY <1>5, <1>7, TailIs
  <2>5. \A x \in 1 .. k - 1 : q[x + 1] = buffer[(slow + (x + 1) - 1) % M]
    BY <1>6, <2>2
  <2> QED
    BY <2>1, <2>3, <2>4, <2>5
<1>9. {d \in Consumers : bufferPc'[d] \in {"post", "done"}} =
          {d \in Consumers : bufferPc[d] \in {"post", "done"}} \cup {c}
      /\ c \notin {d \in Consumers : bufferPc[d] \in {"post", "done"}}
  BY <1>1, <1>2 DEF BufferTypes
<1>10. Received' = [d \in DOMAIN Received \cup {c} |->
                       IF d = c THEN Head(q) ELSE Received[d]]
  BY <1>1, <1>7, <1>9 DEF Received
<1>11. Served' = Served
  BY <1>1, <1>2 DEF Served, BufferTypes
<1>12. c \notin DOMAIN Received
  BY <1>9 DEF Received
<1> HIDE DEF k, M
<1> QED
  BY <1>7, <1>8, <1>10, <1>11, <1>12 DEF Buffer!Fifo!Get, Served, Received


(* Every other step leaves the queue as it is.                              *)
LEMMA FifoStep ==
  RingInv /\ [Buffer!Next]_(Buffer!vars) => [Buffer!Fifo!FNext]_QueueVars
<1> SUFFICES ASSUME RingInv, Buffer!Next \/ UNCHANGED Buffer!vars
             PROVE  Buffer!Fifo!FNext \/ QueueVars' = QueueVars
  OBVIOUS
<1> USE BufferSizes
<1>1. BufferTypes /\ MutexHeld
  BY DEF RingInv
<1>2. ASSUME NEW t \in Buffer!Threads, NEW l, bufferPc' = [bufferPc EXCEPT ![t] = l],
             bufferPc[t] \in Moved <=> l \in Moved
      PROVE  /\ InRing' = InRing
             /\ \A u \in Buffer!Threads : bufferPc'[u] \in Moved <=> bufferPc[u] \in Moved
  <2>1. \A u \in Buffer!Threads : bufferPc'[u] \in Moved <=> bufferPc[u] \in Moved
    BY <1>1, <1>2 DEF BufferTypes
  <2>2. /\ {u \in Producers : bufferPc'[u] \in Moved} =
               {u \in Producers : bufferPc[u] \in Moved}
        /\ {u \in Consumers : bufferPc'[u] \in Moved} =
               {u \in Consumers : bufferPc[u] \in Moved}
    BY <2>1
  <2>3. /\ HowMany(Producers, bufferPc', Moved) = HowMany(Producers, bufferPc, Moved)
        /\ HowMany(Consumers, bufferPc', Moved) = HowMany(Consumers, bufferPc, Moved)
    BY <2>2 DEF HowMany
  <2> QED
    BY <2>1, <2>3 DEF InRing
<1>3. CASE UNCHANGED Buffer!vars
  BY <1>3, QuietStep DEF Buffer!vars, InRing
<1>4. ASSUME NEW t \in Buffer!Threads, NEW l, bufferPc' = [bufferPc EXCEPT ![t] = l],
             bufferPc[t] \in Moved <=> l \in Moved,
             UNCHANGED <<buffer, slow, item>>
      PROVE  QueueVars' = QueueVars
  BY <1>2, <1>4, QuietStep
<1>5. ASSUME NEW p \in Producers, Buffer!Store(p) PROVE QueueVars' = QueueVars
  <2>1. /\ bufferPc[p] = "slot"
        /\ bufferPc' = [bufferPc EXCEPT ![p] = "index"]
        /\ buffer' = [buffer EXCEPT ![fast] = p] /\ UNCHANGED <<slow, item>>
    BY <1>5 DEF Buffer!Store, Buffer!At, Buffer!Goto
  <2>2. \A x \in 1 .. InRing : /\ (slow + x - 1) % BufferSlots \in Buffer!Ring
                               /\ (slow + x - 1) % BufferSlots # fast
    BY <2>1, RingCounts, Cells DEF RingInv
  <2>3. \A y \in Buffer!Ring : y # fast => buffer'[y] = buffer[y]
    BY <1>1, <2>1 DEF BufferTypes
  <2>4. /\ InRing' = InRing
        /\ \A u \in Buffer!Threads : bufferPc'[u] \in Moved <=> bufferPc[u] \in Moved
    BY <1>2, <2>1 DEF Moved
  <2> QED
    BY <2>1, <2>2, <2>3, <2>4, QuietStep
<1>6. ASSUME NEW c \in Consumers, Buffer!Load(c) PROVE QueueVars' = QueueVars
  <2>1. /\ bufferPc[c] = "slot"
        /\ bufferPc' = [bufferPc EXCEPT ![c] = "index"]
        /\ item' = [item EXCEPT ![c] = buffer[slow]]
        /\ UNCHANGED <<slow, buffer>>
    BY <1>6 DEF Buffer!Load, Buffer!At, Buffer!Goto
  <2>2. \A d \in Consumers : bufferPc[d] \in Moved => item'[d] = item[d]
    BY <1>1, <2>1 DEF BufferTypes, Moved
  <2>3. /\ InRing' = InRing
        /\ \A u \in Buffer!Threads : bufferPc'[u] \in Moved <=> bufferPc[u] \in Moved
    BY <1>2, <2>1 DEF Moved
  <2> QED
    BY <2>1, <2>2, <2>3, QuietStep
<1>7. ASSUME NEW p \in Producers, Buffer!WaitEmpty(p) \/ Buffer!ProducerPosts(p)
      PROVE  QueueVars' = QueueVars
  BY <1>4, <1>7
     DEF Buffer!WaitEmpty, Buffer!ProducerPosts, Buffer!At, Buffer!Goto, Moved
<1>8. ASSUME NEW c \in Consumers, Buffer!WaitFull(c) \/ Buffer!ConsumerPosts(c)
      PROVE  QueueVars' = QueueVars
  BY <1>4, <1>8
     DEF Buffer!WaitFull, Buffer!ConsumerPosts, Buffer!At, Buffer!Goto, Moved
<1>9. ASSUME NEW t \in Buffer!Threads, Buffer!Lock(t) PROVE QueueVars' = QueueVars
  BY <1>4, <1>9 DEF Buffer!Lock, Buffer!At, Buffer!Goto, Moved
<1>10. ASSUME NEW p \in Producers, Buffer!MoveFast(p) PROVE Buffer!Fifo!FNext
  BY <1>10, PutStep DEF Buffer!Fifo!FNext
<1>11. ASSUME NEW c \in Consumers, Buffer!MoveSlow(c) PROVE Buffer!Fifo!FNext
  BY <1>11, GetStep DEF Buffer!Fifo!FNext
<1> QED
  BY <1>3, <1>5, <1>6, <1>7, <1>8, <1>9, <1>10, <1>11
     DEF Buffer!Next, Buffer!Producer, Buffer!Consumer

(* project3.c: the ring, its two semaphores and the mutex are a FIFO queue *)
(* of as many items as there are slots, for all numbers of producers,      *)
(* consumers and slots.                                                    *)
THEOREM RingIsFifo == BufferSpec => ImplementsFifo
<1>1. Buffer!Init => Buffer!Fifo!FInit
  BY RingIsEmpty DEF Buffer!Fifo!FInit, Served, Received
<1>2. RingInv /\ [Buffer!Next]_(Buffer!vars) =>
          [Buffer!Fifo!FNext]_<<Buffer!Contents,
              {p \in Producers : bufferPc[p] \in {"post", "done"}},
              [c \in {d \in Consumers : bufferPc[d] \in {"post", "done"}} |-> item[c]]>>
  BY FifoStep DEF QueueVars, Served, Received
<1> QED
  BY <1>1, <1>2, RingInit, RingStep, PTL
     DEF BufferSpec, ImplementsFifo, Buffer!ImplementsFifo, Buffer!Fifo!FSpec

(* The ring is read and written inside of its bounds, and no semaphore     *)
(* counts more than the slots.                                             *)
THEOREM RingInBounds == BufferSpec => []Buffer!TypeOK
<1>1. RingInv => Buffer!TypeOK
  <2> SUFFICES ASSUME RingInv PROVE Buffer!TypeOK
    OBVIOUS
  <2> QED
    BY BufferSizes, RingCounts
       DEF RingInv, BufferTypes, MutexHeld, Buffer!TypeOK
<1> QED
  BY <1>1, RingInit, RingStep, PTL DEF BufferSpec

-----------------------------------------------------------------------------
(* 6-30.c.  Every pid a scan has passed has been taken by a thread, and a  *)
(* thread takes one pid in its life: so a scan that has passed all pids    *)
(* has met as many other threads, more than there are.                     *)
MapTypes ==
    /\ pidPc \in [PidThreads -> {"scan", "use", "done"}]
    /\ scanned \in [PidThreads -> Nat]
    /\ \A t \in PidThreads : scanned[t] \in MIN_PID .. MAX_PID + 1
    /\ pid \in [PidThreads -> Map!Pids \cup {Map!NoPid}]
    /\ \A t \in PidThreads : pidPc[t] = "use" => pid[t] \in Map!Pids

(* A pid behind a scan is, or was, the one of another thread.               *)
Passed ==
    \A t \in PidThreads : \A p \in MIN_PID .. scanned[t] - 1 :
        \E u \in PidThreads : pidPc[u] # "scan" /\ pid[u] = p

MapInv == MapTypes /\ Passed /\ Map!DistinctPids

(* 6-30.c by itself.                                                        *)
MapSpec == Map!Init /\ [][Map!Next]_(Map!vars)

(* There are no more threads than pids.                                     *)
LEMMA PidThreadsFinite ==
    /\ MIN_PID \in Nat /\ MAX_PID \in Nat
    /\ IsFiniteSet(PidThreads)
    /\ Cardinality(PidThreads) \in Nat
    /\ Cardinality(PidThreads) <= MAX_PID - MIN_PID + 1
    /\ PidThreads # {} => Cardinality(PidThreads) > 0
<1>1. Map!PidMapAssumption
  BY ProgramsAssumption
<1>2. IsFiniteSet(PidThreads)
  BY <1>1 DEF Map!PidMapAssumption, Map!IsFiniteSet, IsFiniteSet
<1>3. Cardinality(PidThreads) \in Nat
  BY <1>2, FS_CardinalityType
<1>4. PidThreads # {} => Cardinality(PidThreads) # 0
  BY <1>2, FS_EmptySet
<1> QED
  BY <1>1, <1>2, <1>3, <1>4
     DEF Map!PidMapAssumption, Map!Cardinality, Cardinality

(* A scan that is not over has not passed all pids.                        *)
LEMMA ScanEndsInTime == MapTypes /\ Passed => Map!NeverFails
<1> SUFFICES ASSUME MapTypes, Passed, NEW t \in PidThreads,
                    pidPc[t] = "scan", scanned[t] = MAX_PID + 1
             PROVE  FALSE
  BY PidThreadsFinite DEF MapTypes, Map!NeverFails
<1> DEFINE Others == PidThreads \ {t}
           P == MIN_PID .. MAX_PID
           f == [p \in P |->
                     CHOOSE u \in PidThreads : pidPc[u] # "scan" /\ pid[u] = p]
<1>1. \A p \in P : f[p] \in Others /\ pid[f[p]] = p
  <2>1. \A p \in P : \E u \in PidThreads : pidPc[u] # "scan" /\ pid[u] = p
    BY PidThreadsFinite DEF Passed
  <2> QED
    BY <2>1
<1>2. f \in Injection(P, Others)
  <2>1. f \in [P -> Others]
    BY <1>1
  <2>2. \A p, q \in P : f[p] = f[q] => p = q
    BY <1>1
  <2> HIDE DEF f
  <2> QED
    BY <2>1, <2>2 DEF Injection, IsInjective
<1>3. IsFiniteSet(Others) /\ Cardinality(Others) = Cardinality(PidThreads) - 1
  BY PidThreadsFinite, FS_RemoveElement
<1>4. Cardinality(P) <= Cardinality(Others)
  <2> HIDE DEF f, P, Others
  <2> QED
    BY <1>2, <1>3, FS_Injection
<1>5. Cardinality(P) = IF MIN_PID > MAX_PID THEN 0 ELSE MAX_PID - MIN_PID + 1
  BY PidThreadsFinite, FS_Interval
<1> QED
  BY <1>3, <1>4, <1>5, PidThreadsFinite

(* No pid is given out at the start.                                        *)
LEMMA MapInit == Map!Init => MapInv
<1> SUFFICES ASSUME Map!Init PROVE MapInv
  OBVIOUS
<1>1. MapTypes
  BY PidThreadsFinite DEF Map!Init, MapTypes
<1>2. Passed
  BY PidThreadsFinite DEF Map!Init, Passed
<1>3. Map!DistinctPids
  BY DEF Map!Init, Map!DistinctPids
<1> QED
  BY <1>1, <1>2, <1>3 DEF MapInv

(* Every step of a thread keeps the invariant.                              *)
LEMMA MapStep == MapInv /\ [Map!Next]_(Map!vars) => MapInv'
<1> SUFFICES ASSUME MapInv, [Map!Next]_(Map!vars) PROVE MapInv'
  OBVIOUS
<1> USE PidThreadsFinite
<1>1. CASE UNCHANGED Map!vars
  BY <1>1 DEF Map!vars, MapInv, MapTypes, Passed, Map!DistinctPids
<1>2. ASSUME NEW t \in PidThreads, Map!Take(t) PROVE MapInv'
  <2>1. /\ pidPc[t] = "scan" /\ scanned[t] \notin bitset /\ scanned[t] <= MAX_PID
        /\ bitset' = bitset \cup {scanned[t]}
        /\ pid' = [pid EXCEPT ![t] = scanned[t]]
        /\ pidPc' = [pidPc EXCEPT ![t] = "use"] /\ UNCHANGED scanned
    BY <1>2 DEF Map!Take, Map!SetBit
  <2>2. MapTypes'
    <3>1. scanned[t] \in Map!Pids
      BY <2>1 DEF MapInv, MapTypes, Map!Pids
    <3> QED
      BY <2>1, <3>1 DEF MapInv, MapTypes
  <2>3. Passed'
    BY <2>1 DEF MapInv, MapTypes, Passed
  <2>4. Map!DistinctPids'
    BY <2>1 DEF MapInv, MapTypes, Map!DistinctPids
  <2> QED
    BY <2>2, <2>3, <2>4 DEF MapInv
<1>3. ASSUME NEW t \in PidThreads, Map!Skip(t) PROVE MapInv'
  <2>1. /\ pidPc[t] = "scan" /\ scanned[t] \in bitset /\ scanned[t] <= MAX_PID
        /\ scanned' = [scanned EXCEPT ![t] = scanned[t] + 1]
        /\ UNCHANGED <<bitset, pidPc, pid>>
    BY <1>3 DEF Map!Skip, Map!NextPid
  <2>2. MapTypes'
    BY <2>1 DEF MapInv, MapTypes
  <2>3. \E u \in PidThreads : pidPc[u] # "scan" /\ pid[u] = scanned[t]
    BY <2>1 DEF MapInv, Map!DistinctPids
  <2>4. Passed'
    BY <2>1, <2>3 DEF MapInv, MapTypes, Passed
  <2>5. Map!DistinctPids'
    BY <2>1 DEF MapInv, Map!DistinctPids
  <2> QED
    BY <2>2, <2>4, <2>5 DEF MapInv
<1>4. ASSUME NEW t \in PidThreads, Map!Release(t) PROVE MapInv'
  <2>1. /\ pidPc[t] = "use" /\ bitset' = bitset \ {pid[t]}
        /\ pidPc' = [pidPc EXCEPT ![t] = "done"] /\ UNCHANGED <<scanned, pid>>
    BY <1>4 DEF Map!Release, Map!Released
  <2>2. MapTypes'
    BY <2>1 DEF MapInv, MapTypes
  <2>3. Passed'
    BY <2>1 DEF MapInv, MapTypes, Passed
  <2>4. Map!DistinctPids'
    BY <2>1 DEF MapInv, MapTypes, Map!DistinctPids
  <2> QED
    BY <2>2, <2>3, <2>4 DEF MapInv
<1> QED
  BY <1>1, <1>2, <1>3, <1>4 DEF Map!Next, Map!Thread

(* 6-30.c: no pid is in use twice, and allocate_pid() never gets past the  *)
(* last pid, however many threads there are, as long as there are pids for *)
(* all of them.                                                            *)
THEOREM PidsDiffer == MapSpec => []PidsDistinct
<1>1. MapInv => PidsDistinct
  BY ScanEndsInTime DEF MapInv, PidsDistinct
<1> QED
  BY <1>1, MapInit, MapStep, PTL DEF MapSpec

-----------------------------------------------------------------------------
(* project1.c.  The assistant has taken Posted - ta posts: at most one     *)
(* more than it has taught students, and not that one when it is about to  *)
(* wait.  It goes to sleep when all who sat down have been taught.         *)
(* Who waits on a chair or has been taught has sat down.                   *)
Sat == Cardinality({s \in Students : student[s] # "study"})

TAInv ==
    /\ student \in [Students -> {"study", "post", "seated"}]
    /\ ta \in 0 .. TA!Posted /\ count \in Nat /\ seats \in 0 .. Chairs
    /\ seats = Chairs - Sat + count
    /\ helper \in {"look", "taught", "asleep", "done"}
    /\ helper \in {"taught", "asleep"} => TA!Posted - ta <= count
    /\ helper = "look" => TA!Posted - ta <= count + 1

(* project1.c by itself.                                                    *)
TASpec == TA!Init /\ [][TA!Next]_(TA!vars)

(* There are finitely many students and chairs.                             *)
LEMMA StudentsFinite ==
    /\ Chairs \in Nat
    /\ IsFiniteSet(Students)
    /\ \A S : TA!Cardinality(S) = Cardinality(S)
<1>1. TA!TAAssumption
  BY ProgramsAssumption
<1> QED
  BY <1>1 DEF TA!TAAssumption, TA!IsFiniteSet, IsFiniteSet, TA!Cardinality,
              Cardinality

(* Those who have posted have sat down.                                    *)
LEMMA PostedSat ==
  /\ TA!Posted = Cardinality({s \in Students : student[s] = "seated"})
  /\ Sat \in Nat /\ TA!Posted \in Nat /\ TA!Posted <= Sat
<1> DEFINE A == {s \in Students : student[s] # "study"}
           B == {s \in Students : student[s] = "seated"}
<1>1. TA!Posted = Cardinality(B)
  BY StudentsFinite DEF TA!Posted
<1>2. IsFiniteSet(A) /\ B \in SUBSET A
  BY StudentsFinite, FS_Subset
<1>3. IsFiniteSet(B) /\ Cardinality(B) <= Cardinality(A)
  BY <1>2, FS_Subset
<1> QED
  BY <1>1, <1>2, <1>3, FS_CardinalityType DEF Sat

(* Nobody sits at the start.                                                *)
LEMMA TAInit == TA!Init => TAInv
<1> SUFFICES ASSUME TA!Init PROVE TAInv
  OBVIOUS
<1>1. {s \in Students : student[s] # "study"} = {}
      /\ {s \in Students : student[s] = "seated"} = {}
  BY DEF TA!Init
<1>2. Sat = 0 /\ TA!Posted = 0
  BY <1>1, PostedSat, FS_EmptySet DEF Sat
<1> QED
  BY <1>2, StudentsFinite DEF TA!Init, TAInv

(* Every step of the assistant or of a student keeps the counts.            *)
LEMMA TAStep == TAInv /\ [TA!Next]_(TA!vars) => TAInv'
<1> SUFFICES ASSUME TAInv, [TA!Next]_(TA!vars) PROVE TAInv'
  OBVIOUS
<1>1. CASE UNCHANGED TA!vars
  BY <1>1 DEF TA!vars, TAInv, Sat, TA!Posted
<1>2. CASE TA!Assistant
  <2>1. UNCHANGED student
    BY <1>2 DEF TA!Assistant, TA!Teach, TA!FallAsleep, TA!WaitTA
  <2>2. Sat' = Sat /\ TA!Posted' = TA!Posted
    BY <2>1 DEF Sat, TA!Posted
  <2> HIDE DEF Sat
  <2> QED
    BY <1>2, <2>1, <2>2, PostedSat, StudentsFinite
       DEF TA!Assistant, TA!Teach, TA!FallAsleep, TA!WaitTA, TA!SomeoneWaits,
           TAInv
<1>3. ASSUME NEW s \in Students, TA!TakeChair(s) PROVE TAInv'
  <2>1. /\ student[s] = "study" /\ student' = [student EXCEPT ![s] = "post"]
        /\ seats # 0 /\ seats' = seats - 1 /\ UNCHANGED <<ta, helper, count>>
    BY <1>3 DEF TA!TakeChair, TA!ChairFree
  <2>2. {r \in Students : student'[r] = "seated"} =
        {r \in Students : student[r] = "seated"}
    BY <2>1 DEF TAInv
  <2>3. TA!Posted' = TA!Posted
    BY <2>2 DEF TA!Posted
  <2>4. {r \in Students : student'[r] # "study"} =
        {r \in Students : student[r] # "study"} \cup {s}
    BY <2>1 DEF TAInv
  <2>5. IsFiniteSet({r \in Students : student[r] # "study"})
    BY StudentsFinite, FS_Subset
  <2>6. Sat' = Sat + 1
    BY <2>1, <2>4, <2>5, FS_AddElement DEF Sat
  <2> QED
    BY <2>1, <2>3, <2>6, PostedSat, StudentsFinite DEF TAInv
<1>4. ASSUME NEW s \in Students, TA!Post(s) PROVE TAInv'
  <2>1. /\ student[s] = "post" /\ student' = [student EXCEPT ![s] = "seated"]
        /\ ta' = ta + 1 /\ UNCHANGED <<seats, helper, count>>
    BY <1>4 DEF TA!Post
  <2>2. {r \in Students : student'[r] # "study"} =
        {r \in Students : student[r] # "study"}
    BY <2>1 DEF TAInv
  <2>3. Sat' = Sat
    BY <2>2 DEF Sat
  <2>4. {r \in Students : student'[r] = "seated"} =
        {r \in Students : student[r] = "seated"} \cup {s}
    BY <2>1 DEF TAInv
  <2>5. IsFiniteSet({r \in Students : student[r] = "seated"})
    BY StudentsFinite, FS_Subset
  <2>6. TA!Posted' = TA!Posted + 1
    BY <2>1, <2>4, <2>5, FS_AddElement, StudentsFinite DEF TA!Posted
  <2> QED
    BY <2>1, <2>3, <2>6, PostedSat, StudentsFinite DEF TAInv
<1>5. ASSUME NEW s \in Students, TA!NoChair(s) PROVE TAInv'
  BY <1>1, <1>5 DEF TA!NoChair
<1> QED
  BY <1>1, <1>2, <1>3, <1>4, <1>5 DEF TA!Next, TA!Student

-----------------------------------------------------------------------------
(* project2.c.  A marked fork is the first fork of one who has picked it   *)
(* up and not yet returned it: fork a is the only one that is ever marked. *)
TableInv ==
    /\ philPc \in [Table!Seats ->
           {"first", "second", "wait1", "wait2", "eat", "return", "done"}]
    /\ \A f \in forks :
           \E y \in Table!Seats : Table!a(y) = f /\ philPc[y] \in {"second", "wait2", "eat"}
    /\ Table!NobodyForgotten

(* project2.c by itself.                                                    *)
TableSpec == Table!Init /\ [][Table!Next]_(Table!vars)

(* The two forks of a philosopher, without a remainder: no two share their *)
(* first fork, and no two their second.                                    *)
LEMMA ForksOf ==
  /\ \A x \in Table!Seats : Table!a(x) \in Table!Seats /\ Table!b(x) \in Table!Seats
  /\ \A x, y \in Table!Seats : Table!a(x) = Table!a(y) => x = y
  /\ \A x, y \in Table!Seats : Table!b(x) = Table!b(y) => x = y
<1> DEFINE M == PhilosopherCount
<1>1. M \in Nat /\ M > 2
  BY ProgramsAssumption DEF Table!PhilosophersAssumption
<1>2. \A x \in 0 .. M - 1 : (x + 1) % M = IF x = M - 1 THEN 0 ELSE x + 1
  BY <1>1
<1>3. \A x \in 0 .. M - 1 : (x + M - 1) % M = IF x = 0 THEN M - 1 ELSE x - 1
  BY <1>1
<1>4. \A x \in Table!Seats : Table!a(x) = IF x = M - 1 THEN 0 ELSE x + 1
  BY <1>2 DEF Table!Seats, Table!a
<1>5. \A x \in Table!Seats : Table!b(x) = IF x = 0 THEN M - 1 ELSE x - 1
  BY <1>3 DEF Table!Seats, Table!b
<1>6. Table!Seats = 0 .. M - 1
  BY DEF Table!Seats
<1> HIDE DEF M
<1>7. ASSUME NEW x \in 0 .. M - 1 PROVE Table!a(x) \in 0 .. M - 1 /\ Table!b(x) \in 0 .. M - 1
  BY <1>1, <1>4, <1>5, <1>6
<1>8. ASSUME NEW x \in 0 .. M - 1, NEW y \in 0 .. M - 1, Table!a(x) = Table!a(y) PROVE x = y
  BY <1>1, <1>4, <1>6, <1>8
<1>9. ASSUME NEW x \in 0 .. M - 1, NEW y \in 0 .. M - 1, Table!b(x) = Table!b(y) PROVE x = y
  BY <1>1, <1>5, <1>6, <1>9
<1> QED
  BY <1>6, <1>7, <1>8, <1>9

(* No fork is marked at the start.                                          *)
LEMMA TableInit == Table!Init => TableInv
BY DEF Table!Init, TableInv, Table!NobodyForgotten

(* Every step of a philosopher keeps the invariant.                         *)
LEMMA TableStep == TableInv /\ [Table!Next]_(Table!vars) => TableInv'
<1> SUFFICES ASSUME TableInv, [Table!Next]_(Table!vars) PROVE TableInv'
  OBVIOUS
<1> USE ForksOf
<1>1. CASE UNCHANGED Table!vars
  BY <1>1 DEF Table!vars, TableInv, Table!NobodyForgotten
<1>2. ASSUME NEW x \in Table!Seats, Table!PickFirst(x) PROVE TableInv'
  BY <1>2 DEF Table!PickFirst, Table!Goto, TableInv, Table!NobodyForgotten
<1>3. ASSUME NEW x \in Table!Seats, Table!PickSecond(x) PROVE TableInv'
  BY <1>3 DEF Table!PickSecond, Table!Goto, TableInv, Table!NobodyForgotten
<1>4. ASSUME NEW x \in Table!Seats, Table!Wait(x) PROVE TableInv'
  BY <1>4 DEF Table!Wait, Table!Goto, TableInv, Table!NobodyForgotten
<1>5. ASSUME NEW x \in Table!Seats, Table!ReturnFirst(x) PROVE TableInv'
  (* Only the philosopher of seat x + 2 can wait on c[a(x)].              *)
  <2>1. philPc[x] = "eat" /\ forks' = forks \ {Table!a(x)}
    BY <1>5 DEF Table!ReturnFirst
  <2>2. CASE Table!Waiting(Table!a(x)) = {}
    <3>1. philPc' = [philPc EXCEPT ![x] = "return"]
      BY <1>5, <2>2 DEF Table!ReturnFirst, Table!SignalAndGoto, Table!Goto
    <3>2. \A z \in Table!Seats : philPc[z] = "wait2" => Table!b(z) # Table!a(x)
      BY <2>2 DEF Table!Waiting
    <3> QED
      BY <2>1, <3>1, <3>2 DEF TableInv, Table!NobodyForgotten
  <2>3. CASE Table!Waiting(Table!a(x)) # {}
    <3>1. PICK w \in Table!Waiting(Table!a(x)) :
              philPc' = [philPc EXCEPT ![x] = "return",
                  ![w] = IF @ = "wait1" THEN "first" ELSE "second"]
      BY <1>5, <2>3 DEF Table!ReturnFirst, Table!SignalAndGoto
    <3>2. /\ w \in Table!Seats /\ w # x
          /\ philPc[w] = "wait2" /\ Table!b(w) = Table!a(x)
      BY <2>1 DEF Table!Waiting
    <3>3. philPc' = [philPc EXCEPT ![x] = "return", ![w] = "second"]
      BY <3>1, <3>2 DEF TableInv
    <3> QED
      BY <2>1, <3>2, <3>3 DEF TableInv, Table!NobodyForgotten
  <2> QED
    BY <2>2, <2>3
<1>6. ASSUME NEW x \in Table!Seats, Table!ReturnSecond(x) PROVE TableInv'
  <2>1. philPc[x] = "return" /\ forks' = forks \ {Table!b(x)}
    BY <1>6 DEF Table!ReturnSecond
  <2>2. CASE Table!Waiting(Table!b(x)) = {}
    <3>1. philPc' = [philPc EXCEPT ![x] = "done"]
      BY <1>6, <2>2 DEF Table!ReturnSecond, Table!SignalAndGoto, Table!Goto
    <3> QED
      BY <2>1, <3>1 DEF TableInv, Table!NobodyForgotten
  <2>3. CASE Table!Waiting(Table!b(x)) # {}
    <3>1. PICK w \in Table!Waiting(Table!b(x)) :
              philPc' = [philPc EXCEPT ![x] = "done",
                  ![w] = IF @ = "wait1" THEN "first" ELSE "second"]
      BY <1>6, <2>3 DEF Table!ReturnSecond, Table!SignalAndGoto
    <3>2. w \in Table!Seats /\ w # x /\ philPc[w] = "wait1"
      BY <2>1 DEF Table!Waiting
    <3>3. philPc' = [philPc EXCEPT ![x] = "done", ![w] = "first"]
      BY <3>1, <3>2 DEF TableInv
    <3> QED
      BY <2>1, <3>2, <3>3 DEF TableInv, Table!NobodyForgotten
  <2> QED
    BY <2>2, <2>3
<1> QED
  BY <1>1, <1>2, <1>3, <1>4, <1>5, <1>6 DEF Table!Next, Table!Philosopher

(* project1.c and project2.c: the assistant never sleeps while a student   *)
(* who has posted waits, and no philosopher waits for a fork that all the  *)
(* others have returned: no signal goes to somebody who has no use for it. *)
THEOREM SignalsArrive == TASpec /\ TableSpec => []NoSignalLost
<1>1. TAInv => TA!NeverSleepsOnStudents
  BY PostedSat, StudentsFinite DEF TAInv, TA!NeverSleepsOnStudents
<1>2. TASpec => []TAInv
  BY TAInit, TAStep, PTL DEF TASpec
<1>3. TableSpec => []TableInv
  BY TableInit, TableStep, PTL DEF TableSpec
<1>4. TAInv /\ TableInv => NoSignalLost
  BY <1>1 DEF TableInv, NoSignalLost
<1> QED
  BY <1>2, <1>3, <1>4, PTL

-----------------------------------------------------------------------------
(* 第七章.md, the bridge, for every number of cars on each side.            *)
OnSide(s) == {c \in Cars : SideOf(c) = s /\ at[c] \in {"counted", "pass"}}

(* The side has the bridge.                                                *)
HasBridge(s) == \E c \in Cars : SideOf(c) = s /\ at[c] \in {"pass", "leaving"}

(* A car in the section of its side.                                        *)
InLock(c) == at[c] \in {"counted", "leaving"}

(* The types of the variables.                                              *)
BridgeTypes ==
    /\ cars \in [Sides -> Nat]
    /\ sidelock \in [Sides -> {0, 1}]
    /\ at \in [Cars -> {"acquire", "counted", "pass", "leaving", "end"}]

(* The lock of a side is taken by one car, or free.                         *)
SideLocks ==
    /\ \A c \in Cars : InLock(c) => sidelock[SideOf(c)] = 0
    /\ \A c, d \in Cars : InLock(c) /\ InLock(d) /\ SideOf(c) = SideOf(d) => c = d

(* The count of a side is the number of its cars on the way.                *)
SideCounts == \A s \in Sides : cars[s] = Cardinality(OnSide(s))

(* The semaphore is taken if and only if one side has the bridge.           *)
BridgeHeld ==
    /\ brigelock = IF \E s \in Sides : HasBridge(s) THEN 0 ELSE 1
    /\ \A s, t \in Sides : HasBridge(s) /\ HasBridge(t) => s = t

BridgeInv == BridgeTypes /\ SideLocks /\ SideCounts /\ BridgeHeld

(* Every car is on a side.                                                  *)
LEMMA SideType == \A c : SideOf(c) \in Sides
BY DEF SideOf, Sides

(* There are finitely many cars on the way.                                 *)
LEMMA OnSideFinite ==
  ASSUME BridgeAssumption, NEW s
  PROVE  IsFiniteSet(OnSide(s)) /\ Cardinality(OnSide(s)) \in Nat
<1>1. IsFiniteSet(Cars)
  BY FS_Union DEF BridgeAssumption, Cars
<1>2. OnSide(s) \in SUBSET Cars
  BY DEF OnSide
<1> QED
  BY <1>1, <1>2, FS_Subset, FS_CardinalityType

(* No car is on the way at the start.                                       *)
LEMMA BridgeInvInit == ASSUME BridgeAssumption PROVE BridgeInit => BridgeInv
<1> SUFFICES ASSUME BridgeInit PROVE BridgeInv
  OBVIOUS
<1>1. BridgeTypes /\ SideLocks
  BY DEF BridgeInit, BridgeTypes, SideLocks, InLock
<1>2. SideCounts
  <2>1. \A s \in Sides : OnSide(s) = {}
    BY DEF BridgeInit, OnSide
  <2> QED
    BY <2>1, FS_EmptySet DEF BridgeInit, SideCounts
<1>3. BridgeHeld
  BY DEF BridgeInit, BridgeHeld, HasBridge
<1> QED
  BY <1>1, <1>2, <1>3 DEF BridgeInv

(* If one side has the bridge, the other is not on it.                      *)
LEMMA BridgeInvSafe == ASSUME BridgeAssumption PROVE BridgeInv => OneWay
<1> SUFFICES ASSUME BridgeInv, NEW c \in Left, NEW d \in Right, at[c] = "pass", at[d] = "pass"
             PROVE  FALSE
  BY DEF OneWay
<1>1. SideOf(c) = "left" /\ SideOf(d) = "right" /\ c \in Cars /\ d \in Cars
  BY DEF BridgeAssumption, SideOf, Cars
<1>2. HasBridge("left") /\ HasBridge("right")
  BY <1>1 DEF HasBridge
<1> QED
  BY <1>2 DEF BridgeInv, BridgeHeld, Sides

(* Who holds the lock of a side, and what the count of the side says then. *)
LEMMA Alone ==
  ASSUME BridgeAssumption, BridgeInv, NEW c \in Cars, InLock(c)
  PROVE  /\ at[c] = "counted" =>
                /\ cars[SideOf(c)] # 0
                /\ cars[SideOf(c)] = 1 => ~HasBridge(SideOf(c))
                /\ cars[SideOf(c)] # 1 => HasBridge(SideOf(c))
         /\ at[c] = "leaving" =>
                (cars[SideOf(c)] = 0 <=>
                    ~\E d \in Cars : /\ d # c /\ SideOf(d) = SideOf(c)
                                     /\ at[d] \in {"pass", "leaving"})
<1> DEFINE s == SideOf(c)
<1>1. cars[s] = Cardinality(OnSide(s)) /\ s \in Sides
  BY SideType DEF BridgeInv, SideCounts
<1>2. IsFiniteSet(OnSide(s))
  BY OnSideFinite
<1>3. \A d \in Cars : d # c /\ SideOf(d) = s => ~InLock(d)
  BY DEF BridgeInv, SideLocks
<1>4. cars[s] = 0 <=> OnSide(s) = {}
  BY <1>1, <1>2, FS_EmptySet
<1>5. ASSUME at[c] = "counted"
      PROVE  cars[s] # 0 /\ (cars[s] = 1 => ~HasBridge(s)) /\ (cars[s] # 1 => HasBridge(s))
  <2>1. c \in OnSide(s)
    BY <1>5 DEF OnSide
  <2>2. cars[s] = 1 <=> \E x : OnSide(s) = {x}
    BY <1>1, <1>2, FS_Singleton
  <2>3. ASSUME cars[s] = 1, HasBridge(s) PROVE FALSE
    <3>1. PICK d \in Cars : SideOf(d) = s /\ at[d] \in {"pass", "leaving"}
      BY <2>3 DEF HasBridge
    <3>2. d # c /\ at[d] = "pass"
      BY <1>3, <1>5, <3>1 DEF InLock
    <3>3. d \in OnSide(s)
      BY <3>1, <3>2 DEF OnSide
    <3> QED
      BY <2>1, <2>2, <2>3, <3>2, <3>3
  <2>4. ASSUME cars[s] # 1 PROVE HasBridge(s)
    <3>1. PICK d \in OnSide(s) : d # c
      <4>1. OnSide(s) # {c}
        BY <2>2, <2>4
      <4> QED
        BY <2>1, <4>1
    <3>2. d \in Cars /\ SideOf(d) = s /\ at[d] = "pass"
      BY <1>3, <3>1 DEF OnSide, InLock
    <3> QED
      BY <3>2 DEF HasBridge
  <2> QED
    BY <1>4, <2>1, <2>3, <2>4
<1>6. ASSUME at[c] = "leaving"
      PROVE  cars[s] = 0 <=>
                 ~\E d \in Cars : d # c /\ SideOf(d) = s /\ at[d] \in {"pass", "leaving"}
  BY <1>3, <1>4, <1>6 DEF OnSide, InLock
<1> QED
  BY <1>5, <1>6

(* The lock of a side and the count of its cars.                           *)
LEMMA SideStep ==
  ASSUME BridgeAssumption, BridgeInv, NEW c \in Cars, Car(c)
  PROVE  BridgeTypes' /\ SideLocks' /\ SideCounts'
<1> DEFINE s == SideOf(c)
<1>1. /\ cars \in [Sides -> Nat] /\ sidelock \in [Sides -> {0, 1}]
      /\ at \in [Cars -> {"acquire", "counted", "pass", "leaving", "end"}]
      /\ s \in Sides /\ IsFiniteSet(OnSide(s))
      /\ cars[s] = Cardinality(OnSide(s))
  BY SideType, OnSideFinite DEF BridgeInv, BridgeTypes, SideCounts
<1>2. \A t : t # s => OnSide(t)' = OnSide(t)
  BY <1>1 DEF OnSide, Car, Acquire, Drive, Release, Leave, Goto
<1>3. ASSUME Acquire(c) \/ Release(c) PROVE SideLocks'
  <2>1. /\ sidelock[s] = 1 /\ sidelock' = [sidelock EXCEPT ![s] = 0]
        /\ \E l \in {"counted", "leaving"} : at' = [at EXCEPT ![c] = l]
    BY <1>3 DEF Acquire, Release, Down, Goto
  <2> QED
    BY <1>1, <2>1, SideType DEF BridgeInv, SideLocks, InLock
<1>4. ASSUME Drive(c) \/ Leave(c) PROVE SideLocks'
  <2>1. /\ InLock(c) /\ sidelock' = [sidelock EXCEPT ![s] = 1]
        /\ \E l \in {"pass", "end"} : at' = [at EXCEPT ![c] = l]
    BY <1>4 DEF Drive, Leave, Up, Goto, InLock
  <2> QED
    BY <1>1, <2>1, SideType DEF BridgeInv, SideLocks, InLock
<1>5. CASE Acquire(c)
  <2>1. /\ at[c] = "acquire" /\ at' = [at EXCEPT ![c] = "counted"]
        /\ cars' = [cars EXCEPT ![s] = @ + 1]
        /\ sidelock' = [sidelock EXCEPT ![s] = 0]
    BY <1>5 DEF Acquire, Goto, Down
  <2>2. OnSide(s)' = OnSide(s) \cup {c} /\ c \notin OnSide(s)
    BY <1>1, <2>1 DEF OnSide
  <2>3. Cardinality(OnSide(s) \cup {c}) = cars[s] + 1
    BY <1>1, <2>2, FS_AddElement
  <2>4. SideCounts'
    BY <1>1, <1>2, <2>1, <2>2, <2>3 DEF BridgeInv, SideCounts
  <2> QED
    BY <1>1, <1>3, <1>5, <2>1, <2>4 DEF BridgeTypes
<1>6. CASE Drive(c)
  <2>1. /\ at[c] = "counted" /\ at' = [at EXCEPT ![c] = "pass"]
        /\ cars' = cars /\ sidelock' = [sidelock EXCEPT ![s] = 1]
    BY <1>6 DEF Drive, Goto, Up
  <2>2. OnSide(s)' = OnSide(s)
    BY <1>1, <2>1 DEF OnSide
  <2>3. SideCounts'
    BY <1>1, <1>2, <2>1, <2>2 DEF BridgeInv, SideCounts
  <2> QED
    BY <1>1, <1>4, <1>6, <2>1, <2>3 DEF BridgeTypes
<1>7. CASE Release(c)
  <2>1. /\ at[c] = "pass" /\ at' = [at EXCEPT ![c] = "leaving"]
        /\ cars' = [cars EXCEPT ![s] = @ - 1]
        /\ sidelock' = [sidelock EXCEPT ![s] = 0]
    BY <1>7 DEF Release, Goto, Down
  <2>2. OnSide(s)' = OnSide(s) \ {c} /\ c \in OnSide(s)
    BY <1>1, <2>1 DEF OnSide
  <2>3. /\ Cardinality(OnSide(s) \ {c}) = cars[s] - 1
        /\ Cardinality(OnSide(s) \ {c}) \in Nat
    BY <1>1, <2>2, FS_RemoveElement, FS_CardinalityType
  <2>4. SideCounts'
    BY <1>1, <1>2, <2>1, <2>2, <2>3 DEF BridgeInv, SideCounts
  <2> QED
    BY <1>1, <1>3, <1>7, <2>1, <2>3, <2>4 DEF BridgeTypes
<1>8. CASE Leave(c)
  <2>1. /\ at[c] = "leaving" /\ at' = [at EXCEPT ![c] = "end"]
        /\ cars' = cars /\ sidelock' = [sidelock EXCEPT ![s] = 1]
    BY <1>8 DEF Leave, Goto, Up
  <2>2. OnSide(s)' = OnSide(s)
    BY <1>1, <2>1 DEF OnSide
  <2>3. SideCounts'
    BY <1>1, <1>2, <2>1, <2>2 DEF BridgeInv, SideCounts
  <2> QED
    BY <1>1, <1>4, <1>8, <2>1, <2>3 DEF BridgeTypes
<1> QED
  BY <1>5, <1>6, <1>7, <1>8 DEF Car

(* Who has the bridge.                                                     *)
LEMMA HeldStep ==
  ASSUME BridgeAssumption, BridgeInv, NEW c \in Cars, Car(c)
  PROVE  BridgeHeld'
<1>1. /\ at \in [Cars -> {"acquire", "counted", "pass", "leaving", "end"}]
      /\ SideOf(c) \in Sides
  BY SideType DEF BridgeInv, BridgeTypes
<1>2. \A t : t # SideOf(c) => (HasBridge(t)' <=> HasBridge(t))
  BY <1>1 DEF HasBridge, Car, Acquire, Drive, Release, Leave, Goto
<1>3. CASE Acquire(c) \/ Release(c)
  <2>1. HasBridge(SideOf(c))' <=> HasBridge(SideOf(c))
    BY <1>1, <1>3 DEF HasBridge, Acquire, Release, Goto
  <2>2. brigelock' = brigelock
    BY <1>3 DEF Acquire, Release
  <2> QED
    BY <1>2, <2>1, <2>2 DEF BridgeInv, BridgeHeld
<1>4. CASE Drive(c)
  <2>1. at[c] = "counted" /\ InLock(c) /\ HasBridge(SideOf(c))'
    BY <1>1, <1>4 DEF Drive, Goto, InLock, HasBridge
  <2>2. CASE cars[SideOf(c)] = 1
    <3>1. brigelock = 1 /\ brigelock' = 0
      BY <1>4, <2>2 DEF Drive
    <3>2. \A t \in Sides : ~HasBridge(t)
      BY <3>1 DEF BridgeInv, BridgeHeld
    <3> QED
      BY <1>1, <1>2, <2>1, <3>1, <3>2 DEF BridgeHeld
  <2>3. CASE cars[SideOf(c)] # 1
    <3>1. brigelock' = brigelock /\ HasBridge(SideOf(c))
      BY <1>4, <2>1, <2>3, Alone DEF Drive
    <3> QED
      BY <1>1, <1>2, <2>1, <3>1 DEF BridgeInv, BridgeHeld
  <2> QED
    BY <2>2, <2>3
<1>5. CASE Leave(c)
  <2>1. at[c] = "leaving" /\ InLock(c) /\ HasBridge(SideOf(c))
    BY <1>1, <1>5 DEF Leave, InLock, HasBridge
  <2>2. HasBridge(SideOf(c))' <=>
            \E d \in Cars : d # c /\ SideOf(d) = SideOf(c) /\ at[d] \in {"pass", "leaving"}
    BY <1>1, <1>5 DEF Leave, Goto, HasBridge
  <2>3. HasBridge(SideOf(c))' <=> cars[SideOf(c)] # 0
    BY <2>1, <2>2, Alone
  <2>4. brigelock = 0 /\ \A t \in Sides : HasBridge(t) => t = SideOf(c)
    BY <1>1, <2>1 DEF BridgeInv, BridgeHeld
  <2>5. brigelock' = IF cars[SideOf(c)] = 0 THEN brigelock + 1 ELSE brigelock
    BY <1>5 DEF Leave, IsLast
  <2> QED
    BY <1>1, <1>2, <2>3, <2>4, <2>5 DEF BridgeHeld
<1> QED
  BY <1>3, <1>4, <1>5 DEF Car

(* Every step of a car keeps the invariant.                                 *)
LEMMA BridgeInvStep ==
  ASSUME BridgeAssumption PROVE BridgeInv /\ [BridgeNext]_bridgeVars => BridgeInv'
<1> SUFFICES ASSUME BridgeInv, [BridgeNext]_bridgeVars PROVE BridgeInv'
  OBVIOUS
<1>1. CASE UNCHANGED bridgeVars
  BY <1>1
     DEF BridgeInv, BridgeTypes, SideLocks, SideCounts, BridgeHeld,
         bridgeVars, InLock, OnSide, HasBridge
<1> QED
  BY <1>1, SideStep, HeldStep DEF BridgeInv, BridgeNext

(* 第七章.md: never are cars of both sides on the bridge, although only     *)
(* the first and the last car of a side touch its lock.                    *)
THEOREM BridgeIsOneWay ==
  ASSUME BridgeAssumption PROVE BridgeSpec => []OneWay
BY BridgeInvInit, BridgeInvStep, BridgeInvSafe, PTL DEF BridgeSpec

-----------------------------------------------------------------------------
(* 第七章.md, the bank.  A customer asks for no more than it needs and      *)
(* releases no more than it has, and both until its books are written: so  *)
(* no number in them is ever negative.                                     *)
BankTypes ==
    /\ available \in [Resources -> Nat]
    /\ need \in [Customers -> [Resources -> Nat]]
    /\ allocation \in [Customers -> [Resources -> Nat]]
    /\ amount \in [Customers -> [Resources -> Nat]]
    /\ bankPc \in [Customers -> {"choose", "request", "given", "release", "taken", "end"}]

(* What a call asks for or gives back is there.                             *)
Covered ==
    \A c \in Customers : \A r \in Resources :
        /\ bankPc[c] \in {"request", "given"} => amount[c][r] <= need[c][r]
        /\ bankPc[c] \in {"release", "taken"} => amount[c][r] <= allocation[c][r]

BankInv == BankTypes /\ Covered /\ Bank!Conserved

(* The banker of 第七章.md by itself.                                          *)
BankSpec == Bank!Inputs /\ Bank!Start /\ [][Bank!Next]_(Bank!vars)

(* What is assumed of the bank, and the sums it uses.                       *)
LEMMA BankAssumed ==
  /\ IsFiniteSet(Customers) /\ Total \in [Resources -> Nat]
  /\ \A f : Bank!SumOf(f) = SumOf(f)
<1>1. Bank!BankerAssumption
  BY ProgramsAssumption
<1>2. ASSUME NEW f PROVE Bank!SumOf(f) = SumOf(f)
  BY DEF Bank!SumOf, Bank!Units, Bank!Cardinality, SumOf, Units, Cardinality
<1> QED
  BY <1>1, <1>2 DEF Bank!BankerAssumption, Bank!IsFiniteSet, IsFiniteSet

(* Amounts are vectors of numbers.                                         *)
LEMMA AmountsAre == \A x \in Bank!Amounts : x \in [Resources -> Nat]
BY BankAssumed DEF Bank!Amounts

(* What a customer holds is a number.                                       *)
LEMMA HeldNat ==
  ASSUME BankTypes, Covered, NEW r \in Resources
  PROVE  [c \in Customers |-> Bank!Held(c, r)] \in [Customers -> Nat]
<1>1. ASSUME NEW c \in Customers PROVE Bank!Held(c, r) \in Nat
  <2>1. /\ allocation[c][r] \in Nat /\ amount[c][r] \in Nat
        /\ bankPc[c] = "taken" => amount[c][r] <= allocation[c][r]
    BY DEF BankTypes, Covered
  <2> QED
    BY <2>1 DEF Bank!Held
<1> QED
  BY <1>1

(* All is available at the start.                                           *)
LEMMA BankInit == Bank!Inputs /\ Bank!Start => BankInv
<1> SUFFICES ASSUME Bank!Inputs, Bank!Start PROVE BankInv
  OBVIOUS
<1>1. BankTypes /\ Covered
  BY BankAssumed, AmountsAre
     DEF Bank!Inputs, Bank!Start, Bank!Zero, BankTypes, Covered
<1>2. ASSUME NEW r \in Resources
      PROVE  Bank!SumOf([c \in Customers |-> Bank!Held(c, r)]) = 0
  <2> DEFINE f == [c \in Customers |-> Bank!Held(c, r)]
  <2>1. f \in [Customers -> Nat]
    BY <1>1, HeldNat
  <2>2. \A c \in Customers : f[c] = 0
    BY DEF Bank!Start, Bank!Zero, Bank!Held
  <2> HIDE DEF f
  <2>3. SumOf(f) = 0
    BY <2>1, <2>2, SumOfNone
  <2> QED
    BY <2>3, BankAssumed DEF f
<1>3. Bank!Conserved
  BY <1>2, BankAssumed DEF Bank!Conserved, Bank!Start
<1> QED
  BY <1>1, <1>3 DEF BankInv

(* What a step of c writes into the books.                                 *)
LEMMA Balance ==
  ASSUME BankInv, BankTypes', Covered', NEW c \in Customers,
         \A d \in Customers : d # c =>
             /\ bankPc'[d] = bankPc[d] /\ allocation'[d] = allocation[d]
             /\ amount'[d] = amount[d],
         \A r \in Resources :
             available'[r] + Bank!Held(c, r)' = available[r] + Bank!Held(c, r)
  PROVE  BankInv'
<1>1. ASSUME NEW r \in Resources
      PROVE  /\ available'[r] >= 0
             /\ available'[r] + SumOf([d \in Customers |-> Bank!Held(d, r)'])
                    = Total[r]
  <2> DEFINE f == [d \in Customers |-> Bank!Held(d, r)]
             g == [d \in Customers |-> Bank!Held(d, r)']
  <2>1. f \in [Customers -> Nat]
    BY HeldNat DEF BankInv
  <2>2. g \in [Customers -> Nat]
    <3>1. ASSUME NEW d \in Customers PROVE Bank!Held(d, r)' \in Nat
      <4>1. /\ allocation'[d][r] \in Nat /\ amount'[d][r] \in Nat
            /\ bankPc'[d] = "taken" => amount'[d][r] <= allocation'[d][r]
        BY DEF BankTypes, Covered
      <4> QED
        BY <4>1 DEF Bank!Held
    <3> QED
      BY <3>1
  <2>3. \A d \in Customers : d # c => g[d] = f[d]
    BY DEF Bank!Held
  <2>4. f[c] = Bank!Held(c, r) /\ g[c] = Bank!Held(c, r)'
    OBVIOUS
  <2>5. /\ available[r] + SumOf(f) = Total[r]
        /\ available[r] \in Nat
        /\ available'[r] \in Nat
    BY BankAssumed DEF BankInv, Bank!Conserved, BankTypes
  <2>6. available'[r] + Bank!Held(c, r)' = available[r] + Bank!Held(c, r)
    OBVIOUS
  <2> HIDE DEF f, g
  <2>7. SumOf(g) = SumOf(f) + g[c] - f[c] /\ SumOf(f) \in Nat
    BY <2>1, <2>2, <2>3, BankAssumed, SumChanges, UnitsFinite
  <2>8. f[c] \in Nat /\ g[c] \in Nat /\ Total[r] \in Nat
    BY <2>1, <2>2, BankAssumed
  <2>9. available'[r] + SumOf(g) = Total[r]
    BY <2>4, <2>5, <2>6, <2>7, <2>8
  <2> QED
    BY <2>5, <2>9 DEF g
<1>2. Bank!Conserved'
  BY <1>1, BankAssumed DEF Bank!Conserved
<1> QED
  BY <1>2 DEF BankInv

(* Every step of a customer keeps the books balanced.                       *)
LEMMA BankStep == BankInv /\ [Bank!Next]_(Bank!vars) => BankInv'
<1> SUFFICES ASSUME BankInv, [Bank!Next]_(Bank!vars) PROVE BankInv'
  OBVIOUS
<1>1. CASE UNCHANGED Bank!vars
  BY <1>1
     DEF Bank!vars, BankInv, BankTypes, Covered, Bank!Conserved, Bank!Held
<1>2. BankTypes /\ Covered
  BY DEF BankInv
<1>3. ASSUME NEW c \in Customers, NEW op \in {"request", "release"},
             NEW x \in Bank!Amounts, Bank!Choose(c, op, x)
      PROVE  BankInv'
  <2>1. /\ bankPc[c] = "choose" /\ amount' = [amount EXCEPT ![c] = x]
        /\ bankPc' = [bankPc EXCEPT ![c] = op]
        /\ UNCHANGED <<available, allocation, need>>
        /\ x \in [Resources -> Nat]
    BY <1>3, AmountsAre DEF Bank!Choose
  <2>2. /\ op = "request" => \A r \in Resources : x[r] <= need[c][r]
        /\ op = "release" => \A r \in Resources : x[r] <= allocation[c][r]
    BY <1>3 DEF Bank!Choose, Bank!AtMost
  <2>3. BankTypes'
    BY <1>2, <2>1 DEF BankTypes
  <2>4. Covered'
    BY <1>2, <2>1, <2>2 DEF BankTypes, Covered
  <2>5. \A r \in Resources : Bank!Held(c, r)' = Bank!Held(c, r)
    BY <1>2, <2>1 DEF BankTypes, Bank!Held
  <2> QED
    BY <1>2, <2>1, <2>3, <2>4, <2>5, Balance DEF BankTypes
<1>4. ASSUME NEW c \in Customers, Bank!SaysSo(c) PROVE BankInv'
  BY <1>4
     DEF Bank!SaysSo, BankInv, BankTypes, Covered, Bank!Conserved, Bank!Held
<1>5. ASSUME NEW c \in Customers, Bank!Finish(c) PROVE BankInv'
  <2>1. /\ bankPc[c] = "choose" /\ bankPc' = [bankPc EXCEPT ![c] = "end"]
        /\ UNCHANGED <<available, allocation, need, amount>>
    BY <1>5 DEF Bank!Finish
  <2>2. BankTypes' /\ Covered'
    BY <1>2, <2>1 DEF BankTypes, Covered
  <2>3. \A r \in Resources : Bank!Held(c, r)' = Bank!Held(c, r)
    BY <1>2, <2>1 DEF BankTypes, Bank!Held
  <2> QED
    BY <1>2, <2>1, <2>2, <2>3, Balance DEF BankTypes
<1>6. ASSUME NEW c \in Customers, Bank!Request(c) PROVE BankInv'
  <2>1. bankPc[c] = "request" /\ UNCHANGED <<allocation, need, amount>>
    BY <1>6 DEF Bank!Request
  <2>2. CASE /\ Bank!Suffices(amount[c])
             /\ available' = Bank!Minus(available, amount[c])
             /\ bankPc' = [bankPc EXCEPT ![c] = "given"]
    <3>1. \A r \in Resources : /\ available'[r] = available[r] - amount[c][r]
                               /\ amount[c][r] <= available[r]
      BY <2>2 DEF Bank!Minus, Bank!Suffices, Bank!AtMost
    <3>2. available' \in [Resources -> Nat]
      BY <1>2, <2>2, <3>1 DEF BankTypes, Bank!Minus
    <3>3. BankTypes' /\ Covered'
      BY <1>2, <2>1, <2>2, <3>2 DEF BankTypes, Covered
    <3>4. \A r \in Resources :
              available'[r] + Bank!Held(c, r)' = available[r] + Bank!Held(c, r)
      BY <1>2, <2>1, <2>2, <3>1 DEF BankTypes, Bank!Held
    <3> QED
      BY <1>2, <2>1, <2>2, <3>3, <3>4, Balance DEF BankTypes
  <2>3. CASE bankPc' = [bankPc EXCEPT ![c] = "choose"] /\ UNCHANGED available
    <3>1. BankTypes' /\ Covered'
      BY <1>2, <2>1, <2>3 DEF BankTypes, Covered
    <3>2. \A r \in Resources : Bank!Held(c, r)' = Bank!Held(c, r)
      BY <1>2, <2>1, <2>3 DEF BankTypes, Bank!Held
    <3> QED
      BY <1>2, <2>1, <2>3, <3>1, <3>2, Balance DEF BankTypes
  <2> QED
    BY <1>6, <2>2, <2>3 DEF Bank!Request
<1>7. ASSUME NEW c \in Customers, Bank!Given(c) PROVE BankInv'
  <2>1. /\ bankPc[c] = "given" /\ bankPc' = [bankPc EXCEPT ![c] = "choose"]
        /\ allocation' = [allocation EXCEPT ![c] = Bank!Plus(allocation[c], amount[c])]
        /\ need' = [need EXCEPT ![c] = Bank!Minus(need[c], amount[c])]
        /\ UNCHANGED <<available, amount>>
    BY <1>7 DEF Bank!Given
  <2>2. Bank!Plus(allocation[c], amount[c]) \in [Resources -> Nat]
    BY <1>2 DEF BankTypes, Bank!Plus
  <2>3. Bank!Minus(need[c], amount[c]) \in [Resources -> Nat]
    BY <1>2, <2>1 DEF BankTypes, Covered, Bank!Minus
  <2>4. BankTypes'
    BY <1>2, <2>1, <2>2, <2>3 DEF BankTypes
  <2>5. Covered'
    BY <1>2, <2>1 DEF BankTypes, Covered
  <2>6. \A r \in Resources : Bank!Held(c, r)' = Bank!Held(c, r)
    BY <1>2, <2>1 DEF BankTypes, Bank!Held, Bank!Plus
  <2> QED
    BY <1>2, <2>1, <2>4, <2>5, <2>6, Balance DEF BankTypes
<1>8. ASSUME NEW c \in Customers, Bank!Release(c) PROVE BankInv'
  <2>1. /\ bankPc[c] = "release" /\ bankPc' = [bankPc EXCEPT ![c] = "taken"]
        /\ available' = Bank!Plus(available, amount[c])
        /\ UNCHANGED <<allocation, need, amount>>
    BY <1>8 DEF Bank!Release
  <2>2. Bank!Plus(available, amount[c]) \in [Resources -> Nat]
    BY <1>2 DEF BankTypes, Bank!Plus
  <2>3. BankTypes' /\ Covered'
    BY <1>2, <2>1, <2>2 DEF BankTypes, Covered
  <2>4. \A r \in Resources :
            available'[r] + Bank!Held(c, r)' = available[r] + Bank!Held(c, r)
    BY <1>2, <2>1 DEF BankTypes, Bank!Held, Bank!Plus
  <2> QED
    BY <1>2, <2>1, <2>3, <2>4, Balance DEF BankTypes
<1>9. ASSUME NEW c \in Customers, Bank!Taken(c) PROVE BankInv'
  <2>1. /\ bankPc[c] = "taken" /\ bankPc' = [bankPc EXCEPT ![c] = "choose"]
        /\ allocation' = [allocation EXCEPT ![c] = Bank!Minus(allocation[c], amount[c])]
        /\ UNCHANGED <<available, need, amount>>
    BY <1>9 DEF Bank!Taken
  <2>2. Bank!Minus(allocation[c], amount[c]) \in [Resources -> Nat]
    BY <1>2, <2>1 DEF BankTypes, Covered, Bank!Minus
  <2>3. BankTypes'
    BY <1>2, <2>1, <2>2 DEF BankTypes
  <2>4. Covered'
    BY <1>2, <2>1 DEF BankTypes, Covered
  <2>5. \A r \in Resources : Bank!Held(c, r)' = Bank!Held(c, r)
    BY <1>2, <2>1 DEF BankTypes, Bank!Held, Bank!Minus
  <2> QED
    BY <1>2, <2>1, <2>3, <2>4, <2>5, Balance DEF BankTypes
<1> QED
  BY <1>1, <1>3, <1>4, <1>5, <1>6, <1>7, <1>8, <1>9 DEF Bank!Next

(* 第七章.md: the bank gives nothing twice, loses nothing and gives no more *)
(* than there is, for all customers, resources and needs, although a       *)
(* customer writes its books after the lock.                               *)
THEOREM BankKeepsTotal == BankSpec => []BankConserves
<1>1. BankInv => BankConserves
  BY DEF BankInv, BankConserves
<1> QED
  BY <1>1, BankInit, BankStep, PTL DEF BankSpec

-----------------------------------------------------------------------------
(* A run of MCPrograms is a run of each of these programs: of the one it   *)
(* has chosen, and of the others, which do nothing.                        *)
LEMMA EachProgram ==
  Spec => /\ BufferSpec /\ MapSpec /\ TASpec /\ TableSpec
          /\ BridgeSpec /\ BankSpec
<1>1. Init => /\ Buffer!Init /\ Map!Init /\ TA!Init /\ Table!Init /\ BridgeInit
              /\ Bank!Inputs /\ Bank!Start
  <2>1. [c \in Customers |-> Bank!Zero] \in [Customers -> Bank!Amounts]
    <3>1. Bank!BankerAssumption
      BY ProgramsAssumption
    <3>2. Bank!Zero \in Bank!Amounts
      BY <3>1 DEF Bank!BankerAssumption, Bank!Zero, Bank!Amounts
    <3> QED
      BY <3>2
  <2> QED
    BY <2>1 DEF Init, Bank!Inputs
<1>2. [Next]_vars =>
          /\ [Buffer!Next]_(Buffer!vars)
          /\ [Map!Next]_(Map!vars) /\ [TA!Next]_(TA!vars)
          /\ [Table!Next]_(Table!vars) /\ [BridgeNext]_bridgeVars
          /\ [Bank!Next]_(Bank!vars)
  <2> SUFFICES ASSUME [Next]_vars
               PROVE  /\ [Buffer!Next]_(Buffer!vars)
                      /\ [Map!Next]_(Map!vars) /\ [TA!Next]_(TA!vars)
                      /\ [Table!Next]_(Table!vars) /\ [BridgeNext]_bridgeVars
                      /\ [Bank!Next]_(Bank!vars)
    OBVIOUS
  <2>1. /\ UNCHANGED bufferVars => UNCHANGED Buffer!vars
        /\ UNCHANGED mapVars => UNCHANGED Map!vars
        /\ UNCHANGED taVars => UNCHANGED TA!vars
        /\ UNCHANGED tableVars => UNCHANGED Table!vars
        /\ UNCHANGED bankVars => UNCHANGED Bank!vars
    BY DEF bufferVars, mapVars, taVars, tableVars, bankVars,
           Buffer!vars, Map!vars, TA!vars, Table!vars, Bank!vars
  <2>2. UNCHANGED chapter6Vars => UNCHANGED <<bufferVars, mapVars, taVars, tableVars>>
    BY DEF chapter6Vars
  <2>3. UNCHANGED otherVars => UNCHANGED <<bridgeVars, bankVars>>
    BY DEF otherVars
  <2>4. UNCHANGED vars => UNCHANGED <<chapter6Vars, otherVars>>
    BY DEF vars
  <2> QED
    BY <2>1, <2>2, <2>3, <2>4
       DEF Next, InBuffer, InTA, InMap, InTable, InBarrier, InMerge, InSums,
           InReads, InBridge, InBank
<1> QED
  BY <1>1, <1>2, PTL 
     DEF Spec, BufferSpec, MapSpec, TASpec, TableSpec, BridgeSpec, BankSpec

(* The types of the other programs.  In project1.c, no more students are   *)
(* taught than have sat down, and no more posts taken than made.           *)
LEMMA TATyped == TAInv => TA!TypeOK
<1> SUFFICES ASSUME TAInv PROVE TA!TypeOK
  OBVIOUS
<1>1. /\ Sat \in 0 .. Cardinality(Students) /\ TA!Posted \in 0 .. Cardinality(Students)
      /\ Cardinality(Students) \in Nat
  <2>1. {s \in Students : student[s] # "study"} \in SUBSET Students
    OBVIOUS
  <2>2. Sat <= Cardinality(Students) /\ Cardinality(Students) \in Nat
    BY <2>1, StudentsFinite, FS_Subset, FS_CardinalityType DEF Sat
  <2> QED
    BY <2>2, PostedSat
<1> HIDE DEF Sat
<1>2. ta \in 0 .. Cardinality(Students)
  BY <1>1, PostedSat DEF TAInv
<1>3. count \in 0 .. Cardinality(Students)
  <2>1. count \in Nat /\ seats = Chairs - Sat + count /\ seats <= Chairs
    BY StudentsFinite DEF TAInv
  <2>2. count <= Sat
    BY <1>1, <2>1, PostedSat, StudentsFinite
  <2> QED
    BY <1>1, <2>1, <2>2
<1> QED
  BY <1>2, <1>3, StudentsFinite DEF TAInv, TA!TypeOK

(* The bits of the map are those of pids in use.                            *)
LEMMA MapTyped == MapInv => Map!TypeOK
<1> SUFFICES ASSUME MapInv PROVE Map!TypeOK
  OBVIOUS
<1>1. bitset \subseteq Map!Pids
  BY DEF MapInv, MapTypes, Map!DistinctPids
<1> QED
  BY <1>1 DEF MapInv, MapTypes, Map!TypeOK

(* The marked forks are first forks of philosophers.                        *)
LEMMA TableTyped == TableInv => Table!TypeOK
BY ForksOf DEF TableInv, Table!TypeOK

(* A side counts no more cars than there are.                               *)
LEMMA BridgeTyped == ASSUME BridgeAssumption PROVE BridgeInv => BridgeTypeOK
<1> SUFFICES ASSUME BridgeInv PROVE BridgeTypeOK
  OBVIOUS
<1>1. IsFiniteSet(Cars)
  BY FS_Union DEF BridgeAssumption, Cars
<1>2. \A s \in Sides : cars[s] \in 0 .. Cardinality(Cars)
  <2> TAKE s \in Sides
  <2>1. OnSide(s) \in SUBSET Cars
    BY DEF OnSide
  <2>2. Cardinality(OnSide(s)) <= Cardinality(Cars)
    BY <1>1, <2>1, FS_Subset
  <2>3. Cardinality(OnSide(s)) \in Nat /\ Cardinality(Cars) \in Nat
    BY <1>1, OnSideFinite, FS_CardinalityType
  <2> QED
    BY <2>2, <2>3 DEF BridgeInv, SideCounts
<1>3. brigelock \in {0, 1}
  BY DEF BridgeInv, BridgeHeld
<1> QED
  BY <1>2, <1>3 DEF BridgeInv, BridgeTypes, BridgeTypeOK

(* What a customer needs and has is together no more than the total.        *)
BankBounds ==
    /\ flag \in [Customers -> BOOLEAN]
    /\ amount \in [Customers -> Bank!Amounts]
    /\ \A c \in Customers : \A r \in Resources : need[c][r] + allocation[c][r] <= Total[r]

(* A need or an allocation that is at most the total is an amount.         *)
LEMMA BankTyped == BankInv /\ BankBounds => Bank!TypeOK
<1> SUFFICES ASSUME BankInv, BankBounds PROVE Bank!TypeOK
  OBVIOUS
<1>1. ASSUME NEW x \in [Resources -> Nat], \A r \in Resources : x[r] <= Total[r]
      PROVE  x \in Bank!Amounts
  <2>1. \A r \in Resources : x[r] \in 0 .. Total[r]
    BY <1>1, BankAssumed
  <2>2. x \in [Resources -> UNION {0 .. Total[r] : r \in Resources}]
    BY <2>1
  <2> QED
    BY <1>1, <2>2 DEF Bank!Amounts
<1>2. ASSUME NEW c \in Customers PROVE need[c] \in Bank!Amounts /\ allocation[c] \in Bank!Amounts
  <2>1. \A r \in Resources : need[c][r] <= Total[r] /\ allocation[c][r] <= Total[r]
    BY BankAssumed DEF BankInv, BankTypes, BankBounds
  <2> QED
    BY <1>1, <2>1 DEF BankInv, BankTypes
<1> QED
  BY <1>2 DEF BankInv, BankTypes, BankBounds, Bank!TypeOK

(* The needs at the start are amounts.                                     *)
LEMMA BankBoundsInit == Bank!Inputs /\ Bank!Start => BankBounds
<1> SUFFICES ASSUME Bank!Inputs, Bank!Start PROVE BankBounds
  OBVIOUS
<1>1. Bank!Zero \in Bank!Amounts
  BY BankAssumed DEF Bank!Zero, Bank!Amounts
<1>2. ASSUME NEW c \in Customers, NEW r \in Resources
      PROVE  need[c][r] + allocation[c][r] <= Total[r]
  <2>1. need[c] \in [Resources -> Nat] /\ need[c][r] <= Total[r]
    BY AmountsAre DEF Bank!Inputs, Bank!Amounts
  <2>2. allocation[c][r] = 0
    BY DEF Bank!Start, Bank!Zero
  <2> QED
    BY <2>1, <2>2, BankAssumed
<1> QED
  BY <1>1, <1>2 DEF Bank!Start, BankBounds

(* What is given moves from the need to the allocation, what is released   *)
(* leaves the allocation.                                                  *)
LEMMA BankBoundsStep == BankInv /\ BankBounds /\ [Bank!Next]_(Bank!vars) => BankBounds'
<1> SUFFICES ASSUME BankInv, BankBounds, [Bank!Next]_(Bank!vars) PROVE BankBounds'
  OBVIOUS
<1>1. flag' \in [Customers -> BOOLEAN]
  BY DEF BankBounds, Bank!Next, Bank!Choose, Bank!SaysSo, Bank!Finish, Bank!Request,
         Bank!Given, Bank!Release, Bank!Taken, Bank!vars
<1>2. amount' \in [Customers -> Bank!Amounts]
  BY DEF BankBounds, Bank!Next, Bank!Choose, Bank!SaysSo, Bank!Finish, Bank!Request,
         Bank!Given, Bank!Release, Bank!Taken, Bank!vars
<1>3. BankTypes /\ Covered
  BY DEF BankInv
<1>4. ASSUME NEW c \in Customers, Bank!Given(c)
      PROVE  \A d \in Customers : \A r \in Resources :
                 need'[d][r] + allocation'[d][r] = need[d][r] + allocation[d][r]
  <2>1. /\ allocation' = [allocation EXCEPT ![c] = Bank!Plus(allocation[c], amount[c])]
        /\ need' = [need EXCEPT ![c] = Bank!Minus(need[c], amount[c])]
    BY <1>4 DEF Bank!Given
  <2>2. \A r \in Resources :
            /\ allocation'[c][r] = allocation[c][r] + amount[c][r]
            /\ need'[c][r] = need[c][r] - amount[c][r]
    BY <1>3, <2>1 DEF BankTypes, Bank!Plus, Bank!Minus
  <2>3. \A d \in Customers : d # c => allocation'[d] = allocation[d] /\ need'[d] = need[d]
    BY <1>3, <2>1 DEF BankTypes
  <2>4. \A r \in Resources :
            allocation[c][r] \in Nat /\ amount[c][r] \in Nat /\ need[c][r] \in Nat
    BY <1>3 DEF BankTypes
  <2> QED
    BY <2>2, <2>3, <2>4
<1>5. ASSUME NEW c \in Customers, Bank!Taken(c)
      PROVE  \A d \in Customers : \A r \in Resources :
                 need'[d][r] + allocation'[d][r] <= need[d][r] + allocation[d][r]
  <2>1. /\ allocation' = [allocation EXCEPT ![c] = Bank!Minus(allocation[c], amount[c])]
        /\ need' = need
    BY <1>5 DEF Bank!Taken
  <2>2. \A r \in Resources : allocation'[c][r] = allocation[c][r] - amount[c][r]
    BY <1>3, <2>1 DEF BankTypes, Bank!Minus
  <2>3. \A d \in Customers : d # c => allocation'[d] = allocation[d]
    BY <1>3, <2>1 DEF BankTypes
  <2>4. \A d \in Customers : \A r \in Resources :
            allocation[d][r] \in Nat /\ amount[d][r] \in Nat /\ need[d][r] \in Nat
    BY <1>3 DEF BankTypes
  <2> QED
    BY <2>1, <2>2, <2>3, <2>4
<1>6. (\A c \in Customers : ~Bank!Given(c) /\ ~Bank!Taken(c)) =>
          UNCHANGED <<need, allocation>>
  BY DEF Bank!Next, Bank!Choose, Bank!SaysSo, Bank!Finish, Bank!Request,
         Bank!Release, Bank!vars
<1>7. \A d \in Customers : \A r \in Resources :
          need'[d][r] + allocation'[d][r] <= need[d][r] + allocation[d][r]
  <2>1. \A d \in Customers : \A r \in Resources :
            need[d][r] \in Nat /\ allocation[d][r] \in Nat
    BY <1>3 DEF BankTypes
  <2> QED
    BY <1>4, <1>5, <1>6, <2>1
<1>8. BankTypes'
  BY BankStep DEF BankInv
<1>9. ASSUME NEW d \in Customers, NEW r \in Resources
      PROVE  need'[d][r] + allocation'[d][r] <= Total[r]
  <2>1. /\ need[d][r] \in Nat /\ allocation[d][r] \in Nat
        /\ need'[d][r] \in Nat /\ allocation'[d][r] \in Nat /\ Total[r] \in Nat
    BY <1>3, <1>8, BankAssumed DEF BankTypes
  <2>2. need[d][r] + allocation[d][r] <= Total[r]
    BY DEF BankBounds
  <2> QED
    BY <1>7, <2>1, <2>2
<1> QED
  BY <1>1, <1>2, <1>9 DEF BankBounds

(* Every variable of MCPrograms has its type: in particular, no index is   *)
(* outside its array, no count negative or larger than what is counted,    *)
(* and no semaphore above the number of posts.                             *)
THEOREM ProgramTypes == Spec => []TypeOK
<1>1. BridgeAssumption
  BY ProgramsAssumption
<1>2. TASpec => []TA!TypeOK
  BY TAInit, TAStep, TATyped, PTL DEF TASpec
<1>3. MapSpec => []Map!TypeOK
  BY MapInit, MapStep, MapTyped, PTL DEF MapSpec
<1>4. TableSpec => []Table!TypeOK
  BY TableInit, TableStep, TableTyped, PTL DEF TableSpec
<1>5. BridgeSpec => []BridgeTypeOK
  BY <1>1, BridgeInvInit, BridgeInvStep, BridgeTyped, PTL DEF BridgeSpec
<1>6. BankSpec => []Bank!TypeOK
  BY BankInit, BankStep, BankBoundsInit, BankBoundsStep, BankTyped, PTL DEF BankSpec
<1>7. Buffer!TypeOK /\ TA!TypeOK /\ Map!TypeOK /\ Table!TypeOK /\ BridgeTypeOK /\
      Bank!TypeOK /\ ResultTypes => TypeOK
  BY DEF TypeOK, ResultTypes
<1> QED
  BY <1>2, <1>3, <1>4, <1>5, <1>6, <1>7, EachProgram, RingInBounds, ResultsTyped, PTL

(* The programs of MCPrograms: what its run checks of the ring, the pid    *)
(* map, the teaching assistant, the philosophers, the bridge, the bank and *)
(* the results that are printed, for all sizes at once.                    *)
THEOREM ProgramsSafe ==
  Spec => /\ [](PidsDistinct /\ NoSignalLost /\ OneWay /\ BankConserves /\ PrintsRight)
          /\ ImplementsFifo
<1>1. BridgeAssumption
  BY ProgramsAssumption
<1>2. BridgeSpec => []OneWay
  BY <1>1, BridgeIsOneWay
<1> QED
  BY <1>2, EachProgram, RingIsFifo, PidsDiffer, SignalsArrive, BankKeepsTotal,
     AllPrintRight, PTL
=============================================================================
