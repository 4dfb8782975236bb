----------------------------- MODULE KernelProofs -----------------------------
(* Proofs about the subsystems of the kernel that MCKernel runs: the       *)
(* allocator of Kalloc, for every number of pages and every set of harts;  *)
(* the system calls of Syscalls, the clock and the sleepers of Sleep, for  *)
(* every number of processes, every width of an int and every time the     *)
(* scheduler takes; and the types of the subsystems beside the allocator.  *)
EXTENDS MCKernel, MemoryProofs

-----------------------------------------------------------------------------
(* Kalloc: the free pages and their owners.                                *)
Places == Pages \cup {Null}

(* The hart that holds kmem.lock is the one inside of a locked section.    *)
LockInv == \A h \in Harts : pc[h] \in {"link", "pop", "walk"} <=> lock = h

(* What the local r of a hart stands for.                                  *)
HandInv ==
    \A h \in Harts :
        /\ pc[h] \in {"junk", "push", "link", "fill"} => r[h] \in Pages
        /\ pc[h] = "pop" => r[h] = freelist
        /\ pc[h] = "link" => word[r[h]] = freelist

(* d[p] is the number of free pages from p to the end of the list: the     *)
(* links go down by one, and no two free pages share a number.  A walk has *)
(* counted the pages before r.                                             *)
Ranked(d) ==
    /\ d[Null] = 0
    /\ freelist \in Free \cup {Null}
    /\ d[freelist] = Cardinality(Free)
    /\ \A p \in Free :
           /\ word[p] \in Free \cup {Null}
           /\ d[p] = d[word[p]] + 1
           /\ d[p] <= d[freelist]
    /\ \A p, q \in Free : d[p] = d[q] => p = q
    /\ \A h \in Harts : pc[h] = "walk" =>
           /\ r[h] \in Free \cup {Null}
           /\ n[h] + d[r[h]] = d[freelist]

RankInv == \E d \in [Places -> Nat] : Ranked(d)

IInv == TypeOK /\ LockInv /\ HandInv /\ OneOwner /\ RankInv

-----------------------------------------------------------------------------
(* The free pages are finitely many.                                       *)
LEMMA FreeFinite == IsFiniteSet(Free) /\ Cardinality(Free) \in 0 .. NPAGES
<1>1. IsFiniteSet(Pages) /\ Cardinality(Pages) = NPAGES
  BY KallocAssumption, FS_Interval DEF Pages
<1>2. Free \in SUBSET Pages
  BY DEF Free
<1>3. IsFiniteSet(Free) /\ Cardinality(Free) <= Cardinality(Pages)
  BY <1>1, <1>2, FS_Subset
<1>4. Cardinality(Free) \in Nat
  BY <1>3, FS_CardinalityType
<1> QED
  BY <1>1, <1>3, <1>4, KallocAssumption

(* The list is empty only when no page is free.                            *)
LEMMA EmptyList ==
  ASSUME RankInv, freelist = Null
  PROVE  Free = {}
<1>1. PICK d \in [Places -> Nat] : Ranked(d)
  BY DEF RankInv
<1>2. Cardinality(Free) = 0
  BY <1>1 DEF Ranked
<1> QED
  BY <1>2, FreeFinite, FS_EmptySet

(* A step that leaves the free pages, their links, the head and the walks  *)
(* alone keeps the ranks.                                                  *)
LEMMA RanksKept ==
  ASSUME RankInv, Free' = Free, freelist' = freelist,
         \A p \in Free : word'[p] = word[p],
         \A h \in Harts : pc'[h] = "walk" =>
             pc[h] = "walk" /\ r'[h] = r[h] /\ n'[h] = n[h]
  PROVE  RankInv'
<1>1. PICK d \in [Places -> Nat] : Ranked(d)
  BY DEF RankInv
<1>2. Ranked(d)'
  BY <1>1 DEF Ranked
<1> QED
  BY <1>2 DEF RankInv, Places, Pages, Null

-----------------------------------------------------------------------------
(* All pages are free at the start, in a list that is empty or ranked.      *)
LEMMA InvInit == Init => IInv
<1> SUFFICES ASSUME Init PROVE IInv
  OBVIOUS
<1> USE KallocAssumption DEF Init
<1>1. TypeOK
  BY DEF TypeOK, Pages, Null, Junk
<1>2. LockInv /\ HandInv /\ OneOwner
  BY DEF LockInv, HandInv, OneOwner, InHand
<1>3. Free = Pages
  BY DEF Free, InHand
<1>4. Cardinality(Free) = NPAGES
  BY <1>3, FS_Interval DEF Pages
<1>5. Ranked([p \in Places |-> p])
  BY <1>3, <1>4 DEF Ranked, Places, Pages, Null
<1>6. [p \in Places |-> p] \in [Places -> Nat]
  BY DEF Places, Pages, Null
<1>7. RankInv
  BY <1>5, <1>6 DEF RankInv
<1> QED
  BY <1>1, <1>2, <1>7 DEF IInv

-----------------------------------------------------------------------------
(* The head of the list and the place of a walk, and where they lead.      *)
LEMMA Links ==
  ASSUME IInv
  PROVE  /\ freelist \in Free \cup {Null}
         /\ freelist # Null => word[freelist] \in Free \cup {Null}
         /\ \A h \in Harts : pc[h] = "walk" =>
                /\ r[h] \in Free \cup {Null}
                /\ r[h] # Null => /\ word[r[h]] \in Free \cup {Null}
                                  /\ n[h] < NPAGES
<1>1. PICK d \in [Places -> Nat] : Ranked(d)
  BY DEF IInv, RankInv
<1>2. Free \subseteq Places /\ Null \in Places
  BY DEF Free, Places
<1>3. ASSUME NEW h \in Harts, pc[h] = "walk", r[h] # Null
      PROVE  n[h] < NPAGES
  <2>1. r[h] \in Free /\ word[r[h]] \in Places /\ freelist \in Places
    BY <1>1, <1>2, <1>3 DEF Ranked
  <2>2. d[r[h]] \in Nat /\ d[word[r[h]]] \in Nat /\ d[r[h]] = d[word[r[h]]] + 1
    BY <1>1, <2>1, <1>2 DEF Ranked
  <2>3. n[h] + d[r[h]] = Cardinality(Free) /\ n[h] \in Nat
    BY <1>1, <1>3 DEF Ranked, IInv, TypeOK
  <2> QED
    BY <2>2, <2>3, FreeFinite, KallocAssumption
<1> QED
  BY <1>1, <1>3 DEF Ranked

(* Every step keeps the types.                                              *)
LEMMA TypeStep == IInv /\ [Next]_vars => TypeOK'
<1> SUFFICES ASSUME IInv, [Next]_vars PROVE TypeOK'
  OBVIOUS
<1> USE DEF TypeOK, At, Goto
<1>1. CASE UNCHANGED vars
  BY <1>1 DEF vars, IInv
<1>2. ASSUME NEW h \in Harts, Hart(h)
      PROVE  TypeOK'
  <2> USE DEF IInv, HandInv
  <2>1. ASSUME NEW p \in Pages, Kfree(h, p) PROVE TypeOK'
    BY <2>1 DEF Kfree
  <2>2. CASE KfreeJunk(h)
    BY <2>2 DEF KfreeJunk
  <2>3. CASE Push(h)
    BY <2>3 DEF Push, Acquire, LinkOf
  <2>4. CASE PushHead(h)
    BY <2>4 DEF PushHead
  <2>5. CASE Kalloc(h)
    BY <2>5 DEF Kalloc, TakeLock, Acquire, FirstFree
  <2>6. CASE Pop(h)
    <3>1. word[r[h]] \in Pages \cup {Null}
      BY <2>6, Links DEF Pop, Free
    <3> QED
      BY <2>6, <3>1 DEF Pop
  <2>7. CASE PopFails(h)
    BY <2>7 DEF PopFails
  <2>8. CASE KallocFill(h)
    BY <2>8 DEF KallocFill, Filled
  <2>9. CASE FreeMem(h)
    BY <2>9, KallocAssumption DEF FreeMem, Acquire
  <2>10. CASE Walk(h)
    <3>1. word[r[h]] \in Pages \cup {Null} /\ n[h] < NPAGES
      BY <2>10, Links DEF Walk, Free
    <3> QED
      BY <2>10, <3>1, KallocAssumption DEF Walk
  <2>11. CASE WalkEnds(h)
    BY <2>11, KallocAssumption DEF WalkEnds
  <2> QED
    BY <1>2, <2>1, <2>2, <2>3, <2>4, <2>5, <2>6, <2>7, <2>8, <2>9, <2>10, <2>11
       DEF Hart
<1> QED
  BY <1>1, <1>2 DEF Next

(* Every step keeps the lock with the hart that is in a section.            *)
LEMMA LockStep == IInv /\ [Next]_vars => LockInv'
<1> SUFFICES ASSUME IInv, [Next]_vars PROVE LockInv'
  OBVIOUS
<1> USE KallocAssumption DEF IInv, TypeOK, LockInv, At, Goto
<1>1. CASE UNCHANGED vars
  BY <1>1 DEF vars
<1>2. ASSUME NEW h \in Harts, Hart(h)
      PROVE  LockInv'
  <2>1. CASE \/ \E p \in Pages : Kfree(h, p)
             \/ KfreeJunk(h) \/ KallocFill(h) \/ Walk(h)
    BY <2>1 DEF Kfree, KfreeJunk, KallocFill, Walk
  <2>2. CASE Push(h) \/ Kalloc(h) \/ FreeMem(h)
    BY <2>2 DEF Push, Kalloc, FreeMem, TakeLock, Acquire
  <2>3. CASE PushHead(h) \/ Pop(h) \/ PopFails(h) \/ WalkEnds(h)
    BY <2>3 DEF PushHead, Pop, PopFails, WalkEnds
  <2> QED
    BY <1>2, <2>1, <2>2, <2>3 DEF Hart
<1> QED
  BY <1>1, <1>2 DEF Next

(* The head and the links under a hart that holds the lock are stable: the *)
(* lock keeps the others from the head, OneOwner their junk from the page. *)
LEMMA HandStep == IInv /\ [Next]_vars => HandInv'
<1> SUFFICES ASSUME IInv, [Next]_vars PROVE HandInv'
  OBVIOUS
<1> USE DEF IInv, TypeOK, LockInv, HandInv, At, Goto
<1>1. CASE UNCHANGED vars
  BY <1>1 DEF vars
<1>2. ASSUME NEW h \in Harts, Hart(h)
      PROVE  HandInv'
  <2>1. ASSUME NEW p \in Pages, Kfree(h, p) PROVE HandInv'
    BY <2>1 DEF Kfree
  <2>2. CASE KfreeJunk(h) \/ KallocFill(h)
    BY <2>2 DEF KfreeJunk, KallocFill, Filled, OneOwner, InHand
  <2>3. CASE Push(h)
    BY <2>3 DEF Push, Acquire, LinkOf, OneOwner, InHand
  <2>4. CASE PushHead(h)
    BY <2>4 DEF PushHead
  <2>5. CASE Kalloc(h)
    BY <2>5 DEF Kalloc, TakeLock, Acquire, FirstFree
  <2>6. CASE Pop(h)
    BY <2>6 DEF Pop
  <2>7. CASE PopFails(h) \/ WalkEnds(h)
    BY <2>7 DEF PopFails, WalkEnds
  <2>8. CASE FreeMem(h) \/ Walk(h)
    BY <2>8 DEF FreeMem, Walk, Acquire
  <2> QED
    BY <1>2, <2>1, <2>2, <2>3, <2>4, <2>5, <2>6, <2>7, <2>8 DEF Hart
<1> QED
  BY <1>1, <1>2 DEF Next

(* Only Pop puts a page into a hand that nobody had before: it is the head *)
(* of the list, and free.                                                  *)
LEMMA OwnerStep == IInv /\ [Next]_vars => OneOwner'
<1> SUFFICES ASSUME IInv, [Next]_vars PROVE OneOwner'
  OBVIOUS
<1> USE DEF IInv, TypeOK, HandInv, OneOwner, InHand, At, Goto
<1>1. CASE UNCHANGED vars
  BY <1>1 DEF vars
<1>2. ASSUME NEW h \in Harts, Hart(h)
      PROVE  OneOwner'
  <2>1. ASSUME NEW p \in Pages, Kfree(h, p) PROVE OneOwner'
    BY <2>1 DEF Kfree
  <2>2. CASE KfreeJunk(h) \/ Push(h) \/ PushHead(h)
    BY <2>2 DEF KfreeJunk, Push, PushHead
  <2>3. CASE Pop(h)
    <3>1. r[h] \in Free
      BY <2>3, Links DEF Pop
    <3> QED
      BY <2>3, <3>1 DEF Pop, Free
  <2>4. CASE KallocFill(h)
    BY <2>4 DEF KallocFill
  <2>5. CASE Kalloc(h) \/ PopFails(h)
    BY <2>5 DEF Kalloc, PopFails
  <2>6. CASE FreeMem(h) \/ Walk(h) \/ WalkEnds(h)
    BY <2>6 DEF FreeMem, Walk, WalkEnds
  <2> QED
    BY <1>2, <2>1, <2>2, <2>3, <2>4, <2>5, <2>6 DEF Hart
<1> QED
  BY <1>1, <1>2 DEF Next

-----------------------------------------------------------------------------
(* A page leaves the free ones when it is taken off the list, and joins    *)
(* them when it becomes its head; in between it is in the hand of a hart.  *)
LEMMA FreeChanges ==
  ASSUME IInv, NEW h \in Harts, Hart(h)
  PROVE  /\ Pop(h) => Free' = Free \ {r[h]} /\ r[h] \in Free
         /\ PushHead(h) => Free' = Free \cup {r[h]} /\ r[h] \in Pages \ Free
         /\ ~Pop(h) /\ ~PushHead(h) => Free' = Free
<1> USE DEF IInv, TypeOK, HandInv, OneOwner, InHand, At, Goto, Free
<1>1. ASSUME NEW p \in Pages, Kfree(h, p) PROVE Free' = Free
  BY <1>1 DEF Kfree
<1>2. CASE Pop(h)
  <2>1. r[h] \in Free
    BY <1>2, Links DEF Pop
  <2> QED
    BY <1>2, <2>1 DEF Pop, PushHead
<1>3. CASE PushHead(h)
  BY <1>3 DEF PushHead, Pop
<1>4. CASE KfreeJunk(h) \/ Push(h)
  BY <1>4 DEF KfreeJunk, Push, Pop, PushHead
<1>5. CASE KallocFill(h)
  BY <1>5 DEF KallocFill, Pop, PushHead
<1>6. CASE Kalloc(h) \/ PopFails(h)
  BY <1>6 DEF Kalloc, PopFails, Pop, PushHead
<1>7. CASE FreeMem(h) \/ Walk(h) \/ WalkEnds(h)
  BY <1>7 DEF FreeMem, Walk, WalkEnds, Pop, PushHead
<1>8. ASSUME NEW p \in Pages, Kfree(h, p) PROVE ~Pop(h) /\ ~PushHead(h)
  BY <1>8 DEF Kfree, Pop, PushHead
<1> HIDE DEF IInv, TypeOK, HandInv, OneOwner, InHand, At, Goto, Free
<1> QED
  BY <1>1, <1>2, <1>3, <1>4, <1>5, <1>6, <1>7, <1>8 DEF Hart

(* The ranks of the remaining pages still fit when the head is gone ...    *)
LEMMA RankPop ==
  ASSUME IInv, NEW h \in Harts, Pop(h), Hart(h)
  PROVE  RankInv'
<1>1. PICK d \in [Places -> Nat] : Ranked(d)
  BY DEF IInv, RankInv
<1>2. /\ Free' = Free \ {freelist} /\ freelist \in Free
      /\ freelist' = word[freelist] /\ word' = word
  BY FreeChanges DEF Pop, IInv, HandInv, At
<1>3. \A g \in Harts : pc'[g] # "walk"
  BY DEF Pop, IInv, LockInv, TypeOK, At, Goto
<1>4. Free \subseteq Places /\ Null \in Places /\ Null \notin Free
  BY DEF Free, Places, Pages, Null
<1>5. Cardinality(Free') = d[freelist] - 1
  BY <1>1, <1>2, FreeFinite, FS_RemoveElement DEF Ranked
<1>6. \A p \in Free : d[p] \in Nat /\ d[word[p]] \in Nat
  BY <1>1, <1>4 DEF Ranked
<1>7. \A p \in Free' : word[p] \in Free' \cup {Null} /\ d[p] <= d[word[freelist]]
  BY <1>1, <1>2, <1>6 DEF Ranked
<1>8. Ranked(d)'
  BY <1>1, <1>2, <1>3, <1>4, <1>5, <1>6, <1>7 DEF Ranked
<1> QED
  BY <1>8 DEF RankInv, Places, Pages, Null

(* ... and a new head gets the rank after the largest.                     *)
LEMMA RankPush ==
  ASSUME IInv, NEW h \in Harts, PushHead(h), Hart(h)
  PROVE  RankInv'
<1>1. PICK d \in [Places -> Nat] : Ranked(d)
  BY DEF IInv, RankInv
<1>2. PICK p \in Pages : p = r[h]
  BY FreeChanges
<1>3. /\ Free' = Free \cup {p} /\ p \notin Free
      /\ freelist' = p /\ word' = word /\ word[p] = freelist
  BY <1>2, FreeChanges DEF PushHead, IInv, HandInv, At
<1>4. \A g \in Harts : pc'[g] # "walk"
  BY DEF PushHead, IInv, LockInv, TypeOK, At, Goto
<1>5. /\ Free \subseteq Places /\ Null \in Places /\ p \in Places /\ p # Null
      /\ freelist \in Free \cup {Null} /\ freelist # p
  BY <1>1, <1>3 DEF Ranked, Free, Places, Pages, Null
<1>6. PICK e \in [Places -> Nat] : e = [d EXCEPT ![p] = d[freelist] + 1]
  <2>1. [d EXCEPT ![p] = d[freelist] + 1] \in [Places -> Nat]
    BY <1>5
  <2> QED
    BY <2>1
<1>7. e[p] = d[freelist] + 1 /\ \A q \in Places \ {p} : e[q] = d[q] /\ d[q] \in Nat
  BY <1>5, <1>6
<1>8. Cardinality(Free') = e[p]
  <2>1. Cardinality(Free \cup {p}) = Cardinality(Free) + 1
    BY <1>3, FreeFinite, FS_AddElement
  <2> QED
    BY <1>1, <1>3, <1>7, <2>1 DEF Ranked
<1>9. \A q \in Free :
          /\ q # p /\ word[q] \in Free \cup {Null} /\ word[q] # p
          /\ e[q] = d[q] /\ e[word[q]] = d[word[q]] /\ d[q] \in Nat
  BY <1>1, <1>3, <1>5, <1>7 DEF Ranked
<1>10. Ranked(e)'
  <2>1. e[Null] = 0 /\ freelist' \in Free' \cup {Null} /\ e[freelist'] = Cardinality(Free')
    BY <1>1, <1>3, <1>5, <1>7, <1>8 DEF Ranked
  <2>2. \A q \in Free' : /\ word'[q] \in Free' \cup {Null}
                          /\ e[q] = e[word'[q]] + 1
                          /\ e[q] <= e[freelist']
    BY <1>1, <1>3, <1>5, <1>7, <1>9 DEF Ranked
  <2>3. \A q, t \in Free' : e[q] = e[t] => q = t
    <3>1. \A q \in Free : e[q] < e[p]
      BY <1>1, <1>5, <1>7, <1>9 DEF Ranked
    <3> QED
      BY <1>1, <1>3, <1>9, <3>1 DEF Ranked
  <2> QED
    BY <2>1, <2>2, <2>3, <1>4 DEF Ranked
<1> QED
  BY <1>10 DEF RankInv, Places, Pages, Null

(* Every step that changes the list has a new ranking of the free pages.    *)
LEMMA RankStep == IInv /\ [Next]_vars => RankInv'
<1> SUFFICES ASSUME IInv, [Next]_vars PROVE RankInv'
  OBVIOUS
<1> USE DEF At, Goto
<1>1. CASE UNCHANGED vars
  BY <1>1, RanksKept DEF vars, IInv, Free, InHand
<1>2. ASSUME NEW h \in Harts, Hart(h)
      PROVE  RankInv'
  <2>1. CASE Pop(h)
    BY <1>2, <2>1, RankPop
  <2>2. CASE PushHead(h)
    BY <1>2, <2>2, RankPush
  <2>3. CASE ~Pop(h) /\ ~PushHead(h)
    <3>1. Free' = Free
      BY <1>2, <2>3, FreeChanges
    <3>2. \A p \in Free : \A g \in Harts : p \notin InHand(g)
      BY DEF Free
    <3>3. CASE \/ \E p \in Pages : Kfree(h, p)
               \/ KfreeJunk(h) \/ Push(h) \/ KallocFill(h)
      <4>1. freelist' = freelist /\ \A p \in Free : word'[p] = word[p]
        <5>1. pc[h] \in {"junk", "push", "fill"} => r[h] \in Pages \ Free
          BY <3>2 DEF InHand, IInv, HandInv
        <5>2. ASSUME NEW p \in Pages, Kfree(h, p) PROVE freelist' = freelist /\ word' = word
          BY <5>2 DEF Kfree
        <5>3. CASE KfreeJunk(h)
          BY <5>1, <5>3 DEF KfreeJunk, IInv, TypeOK, Free
        <5>4. CASE Push(h)
          BY <5>1, <5>4 DEF Push, IInv, TypeOK, Free
        <5>5. CASE KallocFill(h)
          BY <5>1, <5>5 DEF KallocFill, Filled, IInv, TypeOK, Free
        <5> QED
          BY <3>3, <5>2, <5>3, <5>4, <5>5
      <4>2. \A g \in Harts : pc'[g] = "walk" =>
                pc[g] = "walk" /\ r'[g] = r[g] /\ n'[g] = n[g]
        BY <3>3 DEF Kfree, KfreeJunk, Push, KallocFill, IInv, TypeOK
      <4> QED
        BY <3>1, <4>1, <4>2, RanksKept DEF IInv
    <3>4. CASE Kalloc(h) \/ PopFails(h) \/ WalkEnds(h)
      <4>1. freelist' = freelist /\ word' = word
        BY <3>4 DEF Kalloc, PopFails, WalkEnds
      <4>2. \A g \in Harts : pc'[g] = "walk" =>
                pc[g] = "walk" /\ r'[g] = r[g] /\ n'[g] = n[g]
        BY <3>4 DEF Kalloc, PopFails, WalkEnds, IInv, TypeOK
      <4> QED
        BY <3>1, <4>1, <4>2, RanksKept DEF IInv
    <3>5. CASE FreeMem(h)
      <4>1. PICK d \in [Places -> Nat] : Ranked(d)
        BY DEF IInv, RankInv
      <4>2. \A g \in Harts : pc'[g] = "walk" => g = h
        BY <3>5, KallocAssumption DEF FreeMem, Acquire, IInv, TypeOK, LockInv
      <4>3. r'[h] = freelist /\ n'[h] = 0 /\ freelist' = freelist /\ word' = word
        BY <3>5 DEF FreeMem, IInv, TypeOK
      <4>4. d[freelist] \in Nat
        BY <4>1 DEF Ranked, Places, Free
      <4>5. Ranked(d)'
        BY <3>1, <4>1, <4>2, <4>3, <4>4 DEF Ranked
      <4> QED
        BY <4>5 DEF RankInv, Places, Pages, Null
    <3>6. CASE Walk(h)
      <4>1. PICK d \in [Places -> Nat] : Ranked(d)
        BY DEF IInv, RankInv
      <4>2. \A g \in Harts : pc'[g] = "walk" => g = h
        BY <3>6 DEF Walk, IInv, TypeOK, LockInv
      <4>3. /\ r[h] \in Free /\ n[h] \in Nat /\ freelist' = freelist /\ word' = word
            /\ r'[h] = word[r[h]] /\ n'[h] = n[h] + 1
        BY <3>6, Links DEF Walk, IInv, TypeOK
      <4>4. /\ d[r[h]] \in Nat /\ d[word[r[h]]] \in Nat
            /\ word[r[h]] \in Free \cup {Null} /\ d[r[h]] = d[word[r[h]]] + 1
            /\ n[h] + d[r[h]] = d[freelist]
        BY <3>6, <4>1, <4>3 DEF Ranked, Places, Free, Walk
      <4>5. r'[h] \in Free \cup {Null} /\ n'[h] + d[r'[h]] = d[freelist]
        BY <4>3, <4>4
      <4>6. Ranked(d)'
        BY <3>1, <4>1, <4>2, <4>3, <4>5 DEF Ranked
      <4> QED
        BY <4>6 DEF RankInv, Places, Pages, Null
    <3> QED
      BY <1>2, <2>3, <3>3, <3>4, <3>5, <3>6 DEF Hart
  <2> QED
    BY <2>1, <2>2, <2>3
<1> QED
  BY <1>1, <1>2 DEF Next

-----------------------------------------------------------------------------
(* The invariant holds in every reachable state.                            *)
LEMMA Invariance == Spec => []IInv
<1>1. IInv /\ [Next]_vars => IInv'
  BY TypeStep, LockStep, HandStep, OwnerStep, RankStep DEF IInv
<1> QED
  BY InvInit, <1>1, PTL DEF Spec

(* The allocator keeps its types; the walk of free_mem() counts no page    *)
(* twice.                                                                  *)
THEOREM TypeCorrect == Spec => []TypeOK
  BY Invariance, PTL DEF IInv

(* No page is ever with two owners: kalloc() hands out a page only once    *)
(* between two calls of kfree(), for every number of pages and harts.      *)
THEOREM PagesOwnedOnce == Spec => []OneOwner
  BY Invariance, PTL DEF IInv

-----------------------------------------------------------------------------
(* Each step of the allocator is a step of the pool of pages or none.      *)
LEMMA StepsOfPool ==
  IInv /\ [Next]_vars => [Pool!PNext]_<<Free, answer>>
<1> SUFFICES ASSUME IInv, [Next]_vars PROVE [Pool!PNext]_<<Free, answer>>
  OBVIOUS
<1> USE DEF Pool!PNext, Pool!Alloc, Pool!AllocFails, Pool!Release, Pool!CountFree,
            At, Goto
<1>1. CASE UNCHANGED vars
  BY <1>1 DEF vars, Free, InHand
<1>2. ASSUME NEW h \in Harts, Hart(h)
      PROVE  [Pool!PNext]_<<Free, answer>>
  <2>1. CASE Pop(h)
    BY <1>2, <2>1, FreeChanges DEF Pop
  <2>2. CASE PushHead(h)
    <3>1. \E p \in Pages \ Free : Free' = Free \cup {p} /\ answer' = answer
      BY <1>2, <2>2, FreeChanges DEF PushHead
    <3> QED
      BY <3>1
  <2>3. CASE PopFails(h)
    <3>1. Free = {}
      BY <2>3, EmptyList DEF PopFails, IInv, HandInv
    <3>2. Free' = Free
      BY <1>2, <2>3, FreeChanges DEF PopFails, Pop, PushHead
    <3> QED
      BY <2>3, <3>1, <3>2 DEF PopFails
  <2>4. CASE WalkEnds(h)
    <3>1. n[h] = Cardinality(Free)
      <4>1. PICK d \in [Places -> Nat] : Ranked(d)
        BY DEF IInv, RankInv
      <4> QED
        BY <2>4, <4>1, FreeFinite DEF Ranked, WalkEnds, IInv, TypeOK
    <3>2. Free' = Free
      BY <1>2, <2>4, FreeChanges DEF WalkEnds, Pop, PushHead
    <3>3. Pool!Cardinality(Free) = Cardinality(Free)
      BY DEF Pool!Cardinality, Cardinality
    <3> QED
      BY <2>4, <3>1, <3>2, <3>3 DEF WalkEnds
  <2>5. CASE ~Pop(h) /\ ~PushHead(h) /\ ~PopFails(h) /\ ~WalkEnds(h)
    <3>1. answer' = answer
      BY <1>2, <2>5
         DEF Hart, Kfree, KfreeJunk, Push, Kalloc, KallocFill, FreeMem, Walk
    <3> QED
      BY <1>2, <2>5, <3>1, FreeChanges
  <2> QED
    BY <2>1, <2>2, <2>3, <2>4, <2>5
<1> QED
  BY <1>1, <1>2 DEF Next

(* kalloc(), kfree() and free_mem() are atomic operations on a pool of     *)
(* pages: a page handed out was free, an allocation fails only when none   *)
(* is, and free_mem() returns a number that was true during the call.      *)
THEOREM AllocatorIsPool == Spec => ImplementsPool
<1>1. Init => Pool!PInit
  BY DEF Init, Pool!PInit, Free, InHand
<1> QED
  BY <1>1, Invariance, StepsOfPool, PTL DEF Spec, ImplementsPool, Pool!PSpec

-----------------------------------------------------------------------------
(* Syscalls: traces and counts.                                            *)
HistoryTypes ==
    /\ asked \in [Slots -> SUBSET sysname]
    /\ always \in [Slots -> SUBSET Slots] /\ ever \in [Slots -> SUBSET Slots]

(* A process in a fork or in a count is alive, and nobody's new child; the *)
(* child of a fork is alive, in no call, has been asked for what its       *)
(* parent has, and has one parent.                                         *)
PlaceInv ==
    \A p \in Slots :
        /\ at[p] # "user" => status[p] = "live" /\ ~LockedByFork(p)
        /\ at[p] = "fork" <=> np[p] \in Slots
        /\ at[p] = "fork" => /\ status[np[p]] = "live" /\ at[np[p]] = "user"
                             /\ asked[np[p]] = asked[p]
        /\ at[p] # "count" => i[p] = 0 /\ found[p] = 0

OneParent ==
    \A p, q \in Slots : np[p] = np[q] /\ np[p] \in Slots => p = q

(* The mask is stale only while the fork still has the lock.               *)
MaskInv ==
    \A p \in Slots : status[p] # "free" /\ ~LockedByFork(p) => mask[p] = asked[p]

(* The process that has returned last has not been freed since.            *)
LastInv ==
    last = <<>> \/ \E p \in Slots :
        /\ status[p] # "free"
        /\ \/ \E name : last = <<p, name, name \in asked[p]>>
           \/ last[2] = "unknown"

CountInv ==
    \A p \in Slots : at[p] = "count" =>
        always[p] \subseteq Used(status) /\ Used(status) \subseteq ever[p]

CallsInv ==
    /\ CallsTypeOK /\ HistoryTypes
    /\ PlaceInv /\ OneParent /\ MaskInv /\ LastInv /\ CountInv

-----------------------------------------------------------------------------
(* init has not asked for any trace, and nobody is counting.                *)
LEMMA CallsInvInit ==
  ASSUME SyscallsAssumption PROVE CallsInit => CallsInv /\ CountBracket
<1> SUFFICES ASSUME CallsInit PROVE CallsInv /\ CountBracket
  OBVIOUS
<1> USE DEF SyscallsAssumption, CallsInit, Tree!TInit
<1>1. CallsTypeOK /\ HistoryTypes
  BY DEF CallsTypeOK, HistoryTypes, Tree!TreeTypeOK
<1>2. PlaceInv /\ OneParent /\ MaskInv /\ LastInv /\ CountInv /\ CountBracket
  BY DEF PlaceInv, OneParent, MaskInv, LastInv, CountInv, CountBracket, LockedByFork
<1> QED
  BY <1>1, <1>2 DEF CallsInv

(* The invariant says what was printed last.                                *)
LEMMA InvSafe == CallsInv => TraceInFamily
<1> SUFFICES ASSUME CallsInv, last # <<>>, last[2] # "unknown"
             PROVE  last[3] <=> last[2] \in asked[last[1]]
  BY DEF TraceInFamily
<1>1. PICK p \in Slots : \/ \E name : last = <<p, name, name \in asked[p]>>
                         \/ last[2] = "unknown"
  BY DEF CallsInv, LastInv
<1>2. PICK name : last = <<p, name, name \in asked[p]>>
  BY <1>1
<1> QED
  BY <1>2

-----------------------------------------------------------------------------
(* What the invariant says of a process, in a call or not.                  *)
LEMMA Kernel ==
  ASSUME SyscallsAssumption, CallsInv, NEW p \in Slots
  PROVE  /\ at[p] = "user" => np[p] = NoSlot
         /\ at[p] # "user" => status[p] = "live" /\ ~LockedByFork(p)
         /\ ~LockedByFork(p) <=> \A q \in Slots : np[q] # p
BY DEF SyscallsAssumption, CallsInv, CallsTypeOK, PlaceInv, LockedByFork

(* What a call prints is by the mask of the process, which is what has     *)
(* been asked for.                                                         *)
LEMMA Prints ==
  ASSUME NEW p \in Slots, NEW name, Returned(p, name),
         status'[p] # "free", mask'[p] = asked'[p]
  PROVE  LastInv'
<1>1. last' = <<p, name, name \in asked'[p]>>
  BY DEF Returned
<1> QED
  BY <1>1 DEF LastInv

(* Calls that change nothing but what is printed.                          *)
LEMMA QuietStep ==
  ASSUME SyscallsAssumption, CallsInv, NEW p \in Slots, NEW k,
         Unknown(p, k) \/ Fails(p, k) \/ Other(p, k)
  PROVE  CallsInv'
<1>1. /\ UNCHANGED <<treeVars, mask, locals, asked, always, ever>>
      /\ UserCode(p)
  BY DEF Unknown, Fails, Other, Calls
<1>2. CallsTypeOK' /\ HistoryTypes' /\ PlaceInv' /\ OneParent' /\ MaskInv' /\ CountInv'
  BY <1>1 DEF CallsInv, CallsTypeOK, HistoryTypes, PlaceInv, OneParent, MaskInv, CountInv,
              treeVars, locals, LockedByFork, Used, Tree!TreeTypeOK
<1>3. status'[p] # "free" /\ mask'[p] = asked'[p]
  BY <1>1 DEF UserCode, CallsInv, MaskInv, treeVars
<1>4. ASSUME Unknown(p, k) PROVE LastInv'
  <2>1. last' = <<p, "unknown", TRUE>>
    BY <1>4 DEF Unknown
  <2>2. last'[2] = "unknown"
    BY <2>1
  <2> QED
    BY <1>3, <2>2 DEF LastInv
<1>5. ASSUME Fails(p, k) PROVE LastInv'
  BY <1>3, <1>5, Prints DEF Fails
<1>6. ASSUME Other(p, k) PROVE LastInv'
  BY <1>3, <1>6, Prints DEF Other
<1> QED
  BY <1>2, <1>4, <1>5, <1>6 DEF CallsInv

(* fork() takes a slot, with the mask of its last process.                  *)
LEMMA ForkStep ==
  ASSUME SyscallsAssumption, CallsInv, NEW p \in Slots, NEW k, SysFork(p, k)
  PROVE  CallsInv'
<1> USE DEF SyscallsAssumption, CallsInv
<1>1. PICK q \in Slots :
          /\ ~LockedByFork(q) /\ status[p] = "live" /\ status[q] = "free"
          /\ status' = [status EXCEPT ![q] = "live"]
          /\ par' = [par EXCEPT ![q] = p]
          /\ at' = [at EXCEPT ![p] = "fork"]
          /\ np' = [np EXCEPT ![p] = q]
          /\ asked' = [asked EXCEPT ![q] = asked[p]]
  BY DEF SysFork, Tree!Create
<1>2. /\ at[p] = "user" /\ ~LockedByFork(p) /\ p # q /\ np[p] = NoSlot /\ at[q] = "user"
      /\ mask' = mask /\ i' = i /\ found' = found /\ last' = last /\ Watch
  BY <1>1, Kernel DEF SysFork, Calls, UserCode
<1>3. CallsTypeOK' /\ HistoryTypes'
  BY <1>1, <1>2 DEF CallsTypeOK, HistoryTypes, Tree!TreeTypeOK, Watch, Used
<1>4. \A z \in Slots : LockedByFork(z)' <=> LockedByFork(z) \/ z = q
  BY <1>1, <1>2 DEF LockedByFork, CallsTypeOK
<1>5. PlaceInv'
  BY <1>1, <1>2, <1>4, SMTT(30) DEF PlaceInv, CallsTypeOK, HistoryTypes, LockedByFork,
     Tree!TreeTypeOK
<1>6. OneParent'
  BY <1>1, <1>2 DEF OneParent, CallsTypeOK, LockedByFork
<1>7. MaskInv'
  BY <1>1, <1>2, <1>4 DEF MaskInv, CallsTypeOK, HistoryTypes, Tree!TreeTypeOK
<1>8. LastInv'
  <2>1. \A z \in Slots : status[z] # "free" => status'[z] # "free" /\ asked'[z] = asked[z]
    BY <1>1 DEF CallsTypeOK, HistoryTypes, Tree!TreeTypeOK
  <2> QED
    BY <1>2, <2>1 DEF LastInv
<1>9. CountInv'
  BY <1>1, <1>2 DEF CountInv, CallsTypeOK, HistoryTypes, Tree!TreeTypeOK, Watch, Used
<1> QED
  BY <1>3, <1>5, <1>6, <1>7, <1>8, <1>9

(* fork() copies the mask before it lets the child go.                      *)
LEMMA ForkReturnsStep ==
  ASSUME SyscallsAssumption, CallsInv, NEW p \in Slots, ForkReturns(p)
  PROVE  CallsInv'
<1> USE DEF SyscallsAssumption, CallsInv
<1>1. PICK q \in Slots : q = np[p]
  BY DEF ForkReturns, PlaceInv
<1>2. /\ at[p] = "fork" /\ mask' = [mask EXCEPT ![q] = mask[p]]
      /\ at' = [at EXCEPT ![p] = "user"] /\ np' = [np EXCEPT ![p] = NoSlot]
      /\ status' = status /\ par' = par
      /\ UNCHANGED <<i, found, asked, always, ever>> /\ Returned(p, "fork")
  BY <1>1 DEF ForkReturns, MaskOfChild, treeVars
<1>3. /\ q \in Slots /\ status[p] = "live" /\ ~LockedByFork(p) /\ q # p
      /\ asked[q] = asked[p] /\ mask[p] = asked[p] /\ at[q] = "user"
  BY <1>1, <1>2 DEF PlaceInv, LockedByFork, MaskInv
<1>4. CallsTypeOK' /\ HistoryTypes'
  BY <1>2, <1>3 DEF CallsTypeOK, HistoryTypes, Tree!TreeTypeOK
<1>5. \A z \in Slots : z # q => (LockedByFork(z)' <=> LockedByFork(z))
  BY <1>1, <1>2, <1>3 DEF LockedByFork, CallsTypeOK
<1>6. ~LockedByFork(q)'
  <2>1. np \in [Slots -> Slots \cup {NoSlot}] /\ np[p] = q
    BY <1>1 DEF CallsTypeOK
  <2>2. \A z \in Slots : np'[z] # q
    BY <1>2, <1>3, <2>1 DEF OneParent
  <2> QED
    BY <2>2 DEF LockedByFork
<1>7. PlaceInv'
  <2> SUFFICES ASSUME NEW z \in Slots
               PROVE  /\ at'[z] # "user" => status'[z] = "live" /\ ~LockedByFork(z)'
                      /\ at'[z] = "fork" <=> np'[z] \in Slots
                      /\ at'[z] = "fork" => /\ status'[np'[z]] = "live" /\ at'[np'[z]] = "user"
                                            /\ asked'[np'[z]] = asked'[z]
                      /\ at'[z] # "count" => i'[z] = 0 /\ found'[z] = 0
    BY DEF PlaceInv
  <2>1. /\ at \in [Slots -> {"user", "fork", "count"}]
        /\ np \in [Slots -> Slots \cup {NoSlot}]
    BY DEF CallsTypeOK
  <2>2. CASE z = p
    BY <1>2, <2>1, <2>2 DEF PlaceInv
  <2>3. CASE z # p
    <3>1. at'[z] = at[z] /\ np'[z] = np[z]
      BY <1>2, <2>1, <2>3
    <3>2. at[z] # "user" => ~LockedByFork(z)'
      BY <1>3, <1>5 DEF PlaceInv
    <3>3. at[z] = "fork" => at'[np[z]] = "user"
      BY <1>2, <2>1 DEF PlaceInv
    <3> QED
      BY <1>2, <3>1, <3>2, <3>3 DEF PlaceInv
  <2> QED
    BY <2>2, <2>3
<1>8. OneParent'
  BY <1>2 DEF OneParent, CallsTypeOK
<1>9. MaskInv'
  BY <1>2, <1>3, <1>5, <1>6 DEF MaskInv, CallsTypeOK
<1>10. LastInv'
  BY <1>2, <1>3, Prints DEF CallsTypeOK
<1>11. CountInv'
  BY <1>2 DEF CountInv, CallsTypeOK, Used
<1> QED
  BY <1>4, <1>7, <1>8, <1>9, <1>10, <1>11

(* exit(), with the children given to init.                                 *)
LEMMA ExitStep ==
  ASSUME SyscallsAssumption, CallsInv, NEW p \in Slots, (\E k : SysExit(p, k)) \/ Exiting(p)
  PROVE  CallsInv'
<1> USE DEF SyscallsAssumption, CallsInv
<1>1. UNCHANGED <<mask, at, np, i, found, last, asked, always, ever>>
  BY DEF SysExit, Exiting, locals
<1>2. Tree!TreeTypeOK
  BY DEF CallsTypeOK
<1>3. \A q \in Slots : at[q] # "user" \/ LockedByFork(q) => status[q] = "live"
  BY DEF PlaceInv, LockedByFork
<1>4. /\ Tree!TreeTypeOK'
      /\ \A q \in Slots : status'[q] = "free" <=> status[q] = "free"
      /\ \A q \in Slots : at[q] # "user" \/ LockedByFork(q) => status'[q] = status[q]
  <2>1. CASE \E k : SysExit(p, k)
    <3>1. /\ at[p] = "user" /\ ~LockedByFork(p) /\ status[p] = "live"
          /\ status' = [status EXCEPT ![p] = "exiting"] /\ par' = par
      BY <2>1 DEF SysExit, Calls, UserCode, Tree!BeginExit
    <3> QED
      BY <1>2, <3>1 DEF Tree!TreeTypeOK
  <2>2. CASE Exiting(p)
    <3>1. CASE Tree!Die(p)
      BY <1>2, <1>3, <3>1 DEF Tree!Die, Tree!TreeTypeOK
    <3>2. CASE \E q \in Slots : Tree!GiveAway(p, q)
      BY <1>2, <3>2 DEF Tree!GiveAway, Tree!TreeTypeOK
    <3> QED
      BY <2>2, <3>1, <3>2 DEF Exiting
  <2> QED
    BY <2>1, <2>2
<1>5. CallsTypeOK' /\ HistoryTypes' /\ OneParent'
  BY <1>4, <1>1 DEF CallsTypeOK, HistoryTypes, OneParent
<1>6. PlaceInv'
  BY <1>4, <1>1 DEF PlaceInv, LockedByFork
<1>7. MaskInv' /\ LastInv' /\ CountInv'
  BY <1>4, <1>1 DEF MaskInv, LastInv, CountInv, LockedByFork, Used
<1> QED
  BY <1>5, <1>6, <1>7

(* wait() frees a slot, whose mask stays.                                   *)
LEMMA WaitStep ==
  ASSUME SyscallsAssumption, CallsInv, NEW p \in Slots, NEW k, SysWait(p, k)
  PROVE  CallsInv'
<1> USE DEF SyscallsAssumption, CallsInv
<1>1. PICK q \in Slots :
          /\ status[p] = "live" /\ status[q] = "zombie"
          /\ status' = [status EXCEPT ![q] = "free"]
          /\ par' = [par EXCEPT ![q] = NoSlot]
          /\ asked' = [asked EXCEPT ![q] = {}]
  BY DEF SysWait, Tree!Reap
<1>2. /\ at[p] = "user" /\ ~LockedByFork(p) /\ p # q
      /\ mask' = mask /\ at' = at /\ np' = np /\ i' = i /\ found' = found /\ Watch
      /\ Returned(p, "wait")
  BY <1>1 DEF SysWait, Calls, UserCode, locals
<1>3. at[q] = "user" /\ \A z \in Slots : np[z] # q
  BY <1>1 DEF PlaceInv
<1>4. CallsTypeOK' /\ HistoryTypes' /\ OneParent'
  BY <1>1, <1>2 DEF CallsTypeOK, HistoryTypes, OneParent, Tree!TreeTypeOK, Watch, Used
<1>5. PlaceInv'
  BY <1>1, <1>2, <1>3 DEF PlaceInv, LockedByFork, CallsTypeOK, HistoryTypes,
     Tree!TreeTypeOK
<1>6. MaskInv'
  BY <1>1, <1>2 DEF MaskInv, LockedByFork, CallsTypeOK, HistoryTypes, Tree!TreeTypeOK
<1>7. LastInv'
  <2>1. status'[p] # "free" /\ mask'[p] = asked'[p]
    BY <1>1, <1>2 DEF MaskInv, CallsTypeOK, HistoryTypes, Tree!TreeTypeOK
  <2> QED
    BY <1>2, <2>1, Prints
<1>8. CountInv'
  BY <1>1, <1>2 DEF CountInv, CallsTypeOK, HistoryTypes, Tree!TreeTypeOK, Watch, Used
<1> QED
  BY <1>4, <1>5, <1>6, <1>7, <1>8

(* trace() sets the mask of its own process only.                           *)
LEMMA TraceStep ==
  ASSUME SyscallsAssumption, CallsInv, NEW p \in Slots, NEW k, SysTrace(p, k)
  PROVE  CallsInv'
<1> USE DEF SyscallsAssumption, CallsInv
<1>1. PICK m \in Masks : mask' = [mask EXCEPT ![p] = m] /\ asked' = [asked EXCEPT ![p] = m]
  BY DEF SysTrace
<1>2. /\ at[p] = "user" /\ ~LockedByFork(p) /\ status[p] = "live"
      /\ status' = status /\ par' = par /\ at' = at /\ np' = np /\ i' = i /\ found' = found
      /\ UNCHANGED <<always, ever>> /\ Returned(p, "trace")
  BY DEF SysTrace, Calls, UserCode, locals, treeVars
<1>3. CallsTypeOK' /\ HistoryTypes' /\ OneParent' /\ CountInv'
  BY <1>1, <1>2 DEF CallsTypeOK, HistoryTypes, OneParent, CountInv, Tree!TreeTypeOK,
     Used
<1>4. PlaceInv'
  BY <1>1, <1>2 DEF PlaceInv, LockedByFork, HistoryTypes
<1>5. MaskInv'
  BY <1>1, <1>2 DEF MaskInv, LockedByFork, CallsTypeOK, HistoryTypes
<1>6. LastInv'
  BY <1>1, <1>2, Prints DEF CallsTypeOK, HistoryTypes
<1> QED
  BY <1>3, <1>4, <1>5, <1>6

(* A step of count_proc() adds one slot to what has been scanned.           *)
LEMMA CountingStep ==
  ASSUME SyscallsAssumption, CallsInv, NEW p \in Slots,
         (\E k : SysInfo(p, k)) \/ CountSlot(p) \/ SysInfoReturns(p)
  PROVE  CallsInv'
<1> USE DEF SyscallsAssumption, CallsInv
<1>1. UNCHANGED <<treeVars, mask, np, asked>> /\ status' = status /\ par' = par
  BY DEF SysInfo, CountSlot, SysInfoReturns, treeVars
<1>2. CASE \E k : SysInfo(p, k)
  <2>1. /\ at[p] = "user" /\ ~LockedByFork(p) /\ status[p] = "live"
        /\ at' = [at EXCEPT ![p] = "count"] /\ UNCHANGED <<i, found, last>>
        /\ always' = [always EXCEPT ![p] = Used(status)]
        /\ ever' = [ever EXCEPT ![p] = Used(status)]
    BY <1>2 DEF SysInfo, Calls, UserCode
  <2>2. Used(status) \in SUBSET Slots /\ np[p] = NoSlot
    BY <2>1, Kernel DEF Used
  <2>3. CallsTypeOK' /\ HistoryTypes' /\ OneParent' /\ MaskInv' /\ LastInv'
    BY <1>1, <2>1, <2>2 DEF CallsTypeOK, HistoryTypes, OneParent, MaskInv, LastInv,
       LockedByFork, Tree!TreeTypeOK
  <2>4. PlaceInv'
    BY <1>1, <2>1, <2>2 DEF PlaceInv, LockedByFork, CallsTypeOK
  <2>5. CountInv'
    BY <1>1, <2>1, <2>2 DEF CountInv, CallsTypeOK, HistoryTypes, Used
  <2> QED
    BY <2>3, <2>4, <2>5
<1>3. CASE CountSlot(p)
  <2>1. /\ at[p] = "count" /\ i[p] < NPROC /\ UNCHANGED <<at, last, always, ever>>
        /\ found' = [found EXCEPT ![p] = IF Counted(i[p]) THEN @ + 1 ELSE @]
        /\ i' = [i EXCEPT ![p] = @ + 1]
    BY <1>3 DEF CountSlot
  <2>2. i[p] \in 0 .. NPROC /\ found[p] \in 0 .. NPROC /\ found[p] <= i[p]
    BY DEF CallsTypeOK
  <2>3. i'[p] = i[p] + 1 /\ found'[p] \in {found[p], found[p] + 1}
    BY <2>1 DEF CallsTypeOK
  <2>4. i' \in [Slots -> 0 .. NPROC] /\ found' \in [Slots -> 0 .. NPROC]
    <3>1. i[p] + 1 \in 0 .. NPROC /\ found[p] + 1 \in 0 .. NPROC
      BY <2>1, <2>2
    <3>2. i \in [Slots -> 0 .. NPROC] /\ found \in [Slots -> 0 .. NPROC]
      BY DEF CallsTypeOK
    <3> QED
      BY <2>1, <2>2, <3>1, <3>2
  <2>5. CallsTypeOK'
    <3>1. \A q \in Slots : found'[q] <= i'[q]
      <4>1. found'[p] <= i'[p]
        BY <2>2, <2>3
      <4>2. \A q \in Slots : q # p => found'[q] = found[q] /\ i'[q] = i[q]
        BY <2>1 DEF CallsTypeOK
      <4> QED
        BY <4>1, <4>2 DEF CallsTypeOK
    <3> QED
      BY <1>1, <2>1, <2>4, <3>1 DEF CallsTypeOK, Tree!TreeTypeOK
  <2>6. HistoryTypes' /\ OneParent' /\ MaskInv' /\ LastInv' /\ CountInv'
    BY <1>1, <2>1 DEF HistoryTypes, OneParent, MaskInv, LastInv, CountInv,
       LockedByFork, Used
  <2>7. PlaceInv'
    BY <1>1, <2>1 DEF PlaceInv, LockedByFork, CallsTypeOK
  <2> QED
    BY <2>5, <2>6, <2>7
<1>4. CASE SysInfoReturns(p)
  <2>1. /\ at[p] = "count" /\ at' = [at EXCEPT ![p] = "user"]
        /\ i' = [i EXCEPT ![p] = 0] /\ found' = [found EXCEPT ![p] = 0]
        /\ always' = [always EXCEPT ![p] = {}] /\ ever' = [ever EXCEPT ![p] = {}]
        /\ Returned(p, "sysinfo")
    BY <1>4 DEF SysInfoReturns
  <2>2. status[p] = "live" /\ ~LockedByFork(p) /\ np[p] = NoSlot
    BY <2>1 DEF PlaceInv, CallsTypeOK
  <2>3. CallsTypeOK' /\ HistoryTypes' /\ OneParent' /\ MaskInv' /\ CountInv'
    <3>1. /\ i' \in [Slots -> 0 .. NPROC] /\ found' \in [Slots -> 0 .. NPROC]
          /\ \A q \in Slots : found'[q] <= i'[q]
      <4>1. 0 \in 0 .. NPROC
        OBVIOUS
      <4> QED
        BY <2>1, <4>1 DEF CallsTypeOK
    <3>2. CallsTypeOK'
      BY <1>1, <2>1, <3>1 DEF CallsTypeOK, Tree!TreeTypeOK
    <3>3. HistoryTypes' /\ OneParent' /\ MaskInv' /\ CountInv'
      BY <1>1, <2>1, SMTT(30) DEF HistoryTypes, OneParent, MaskInv, CountInv, LockedByFork, Used,
                        CallsTypeOK
    <3> QED
      BY <3>2, <3>3
  <2>4. PlaceInv'
    BY <1>1, <2>1, <2>2 DEF PlaceInv, LockedByFork, CallsTypeOK
  <2>5. LastInv'
    BY <1>1, <2>1, <2>2, Prints DEF MaskInv
  <2> QED
    BY <2>3, <2>4, <2>5
<1> QED
  BY <1>2, <1>3, <1>4

(* Every step keeps the invariant.                                          *)
LEMMA InvStep ==
  ASSUME SyscallsAssumption PROVE CallsInv /\ [CallsNext]_callVars => CallsInv'
<1> SUFFICES ASSUME CallsInv, [CallsNext]_callVars PROVE CallsInv'
  OBVIOUS
<1>1. CASE UNCHANGED callVars
  BY <1>1 DEF CallsInv, CallsTypeOK, HistoryTypes, PlaceInv, OneParent, MaskInv, LastInv,
     CountInv,
              callVars, treeVars, locals, LockedByFork, Used, Tree!TreeTypeOK
<1> QED
  BY <1>1, QuietStep, ForkStep, ForkReturnsStep, ExitStep, WaitStep, TraceStep,
     CountingStep
  DEF CallsNext

-----------------------------------------------------------------------------
(* The count of one process in a step: it starts, it looks at one slot, or *)
(* somebody else changes the table.                                        *)
LEMMA CountChanges ==
  ASSUME SyscallsAssumption, CallsInv, [CallsNext]_callVars, NEW p \in Slots, at'[p] = "count"
  PROVE  \/ i'[p] = 0 /\ found'[p] = 0
         \/ CountSlot(p)
         \/ /\ at[p] = "count" /\ i'[p] = i[p] /\ found'[p] = found[p]
            /\ always'[p] \subseteq always[p] /\ ever[p] \subseteq ever'[p]
<1> DEFINE Same == /\ at[p] = "count" /\ i'[p] = i[p] /\ found'[p] = found[p]
                   /\ always'[p] \subseteq always[p] /\ ever[p] \subseteq ever'[p]
<1>1. /\ at \in [Slots -> {"user", "fork", "count"}]
      /\ i \in [Slots -> 0 .. NPROC] /\ found \in [Slots -> 0 .. NPROC]
      /\ always \in [Slots -> SUBSET Slots] /\ ever \in [Slots -> SUBSET Slots]
  BY DEF CallsInv, CallsTypeOK, HistoryTypes
<1>2. at[p] # "count" => i[p] = 0 /\ found[p] = 0
  BY DEF CallsInv, PlaceInv
<1>3. CASE UNCHANGED callVars
  BY <1>3 DEF callVars, locals
<1>4. ASSUME NEW q \in Slots, NEW k,
             \/ Unknown(q, k) \/ SysFork(q, k) \/ Fails(q, k) \/ SysExit(q, k)
             \/ SysWait(q, k) \/ SysTrace(q, k) \/ Other(q, k)
      PROVE  Same
  <2>1. CASE SysFork(q, k)
    BY <1>1, <2>1 DEF SysFork, Watch, Used
  <2>2. CASE SysWait(q, k)
    BY <1>1, <2>2 DEF SysWait, Watch, Used, locals
  <2> QED
    BY <1>4, <2>1, <2>2 DEF Unknown, Fails, SysExit, SysTrace, Other, locals
<1>5. ASSUME NEW q \in Slots, NEW k, SysInfo(q, k)
      PROVE  Same \/ (i'[p] = 0 /\ found'[p] = 0)
  <2>1. CASE q = p
    <3>1. at[p] = "user" /\ i' = i /\ found' = found
      BY <1>5, <2>1 DEF SysInfo, Calls, UserCode
    <3> QED
      BY <3>1, <1>2
  <2>2. CASE q # p
    BY <1>1, <1>5, <2>2 DEF SysInfo
  <2> QED
    BY <2>1, <2>2
<1>6. ASSUME NEW q \in Slots, ForkReturns(q) \/ Exiting(q) PROVE Same
  BY <1>1, <1>6 DEF ForkReturns, Exiting, locals
<1>7. ASSUME NEW q \in Slots, CountSlot(q), q # p PROVE Same
  BY <1>1, <1>7 DEF CountSlot
<1>8. ASSUME NEW q \in Slots, SysInfoReturns(q) PROVE Same
  BY <1>1, <1>8 DEF SysInfoReturns
<1> QED
  BY <1>3, <1>4, <1>5, <1>6, <1>7, <1>8 DEF CallsNext

(* Every step keeps the count between what was always and ever there.       *)
LEMMA CountStep ==
  ASSUME SyscallsAssumption, CallsInv, CountBracket, [CallsNext]_callVars
  PROVE  CountBracket'
<1> SUFFICES ASSUME NEW p \in Slots, at'[p] = "count"
             PROVE  /\ Cardinality(always'[p] \cap (0 .. i'[p] - 1)) <= found'[p]
                    /\ found'[p] <= Cardinality(ever'[p] \cap (0 .. i'[p] - 1))
  BY DEF CountBracket
<1> DEFINE seen == 0 .. i[p] - 1
           all == always[p] \cap seen
           some == ever[p] \cap seen
           allNow == always'[p] \cap (0 .. i'[p] - 1)
           someNow == ever'[p] \cap (0 .. i'[p] - 1)
<1>1. /\ i[p] \in 0 .. NPROC /\ found[p] \in 0 .. NPROC /\ NPROC \in Nat
      /\ i \in [Slots -> 0 .. NPROC] /\ found \in [Slots -> 0 .. NPROC]
  BY DEF SyscallsAssumption, CallsInv, CallsTypeOK
<1>2. IsFiniteSet(seen)
  BY <1>1, FS_Interval
<1>3. IsFiniteSet(all) /\ IsFiniteSet(some)
  BY <1>2, FS_Subset
<1>4. Cardinality(all) \in Nat /\ Cardinality(some) \in Nat
  BY <1>3, FS_CardinalityType
<1>5. at[p] = "count" => Cardinality(all) <= found[p] /\ found[p] <= Cardinality(some)
  BY DEF CountBracket
<1>6. CASE i'[p] = 0 /\ found'[p] = 0
  <2>1. 0 .. i'[p] - 1 = {}
    BY <1>6
  <2>2. Cardinality({}) = 0
    BY FS_EmptySet
  <2> QED
    BY <1>6, <2>1, <2>2
<1>7. CASE CountSlot(p)
  <2>1. /\ at[p] = "count" /\ i[p] < NPROC /\ always' = always /\ ever' = ever
        /\ found'[p] = IF Counted(i[p]) THEN found[p] + 1 ELSE found[p]
        /\ i'[p] = i[p] + 1
    BY <1>1, <1>7 DEF CountSlot
  <2>2. 0 .. i'[p] - 1 = seen \cup {i[p]} /\ i[p] \notin seen /\ i[p] \in Slots
    <3>1. i[p] \in 0 .. NPROC - 1
      BY <1>1, <2>1
    <3> QED
      BY <1>1, <2>1, <3>1, SMTT(30) DEF SyscallsAssumption
  <2>3. always[p] \subseteq Used(status) /\ Used(status) \subseteq ever[p]
    BY <2>1 DEF CallsInv, CountInv
  <2>4. Counted(i[p]) <=> i[p] \in Used(status)
    BY <2>2 DEF Counted, Used
  <2>5. CASE Counted(i[p])
    <3>1. someNow = some \cup {i[p]} /\ i[p] \notin some
      BY <2>1, <2>2, <2>3, <2>4, <2>5
    <3>2. Cardinality(some \cup {i[p]}) = Cardinality(some) + 1
      BY <1>3, <3>1, FS_AddElement
    <3>3. Cardinality(all \cup {i[p]}) \in {Cardinality(all), Cardinality(all) + 1}
          /\ IsFiniteSet(all \cup {i[p]})
      BY <1>3, FS_AddElement
    <3>4. allNow \in SUBSET (all \cup {i[p]})
      BY <2>1, <2>2
    <3>5. Cardinality(allNow) <= Cardinality(all \cup {i[p]})
      BY <3>3, <3>4, FS_Subset
    <3>6. Cardinality(allNow) \in Nat
      BY <3>3, <3>4, FS_Subset, FS_CardinalityType
    <3> HIDE DEF all, some, seen, allNow, someNow
    <3>7. Cardinality(allNow) <= found'[p] /\ found'[p] <= Cardinality(someNow)
      BY <1>1, <1>4, <1>5, <2>1, <2>5, <3>1, <3>2, <3>3, <3>5, <3>6
    <3> QED
      BY <3>7 DEF allNow, someNow
  <2>6. CASE ~Counted(i[p])
    <3>1. allNow = all
      BY <2>1, <2>2, <2>3, <2>4, <2>6
    <3>2. /\ some \in SUBSET (someNow)
          /\ IsFiniteSet(someNow)
      <4>1. IsFiniteSet(0 .. i'[p] - 1)
        BY <1>1, <2>1, FS_Interval
      <4> QED
        BY <4>1, <2>1, <2>2, FS_Subset
    <3>3. Cardinality(some) <= Cardinality(someNow)
          /\ Cardinality(someNow) \in Nat
      BY <3>2, FS_Subset, FS_CardinalityType
    <3> HIDE DEF all, some, seen, allNow, someNow
    <3> QED
      <4>1. Cardinality(allNow) <= found'[p] /\ found'[p] <= Cardinality(someNow)
        BY <1>1, <1>4, <1>5, <2>1, <2>6, <3>1, <3>3
      <4> QED
        BY <4>1 DEF allNow, someNow
  <2> QED
    BY <2>5, <2>6
<1>8. CASE /\ at[p] = "count" /\ i'[p] = i[p] /\ found'[p] = found[p]
           /\ always'[p] \subseteq always[p] /\ ever[p] \subseteq ever'[p]
  <2>1. allNow \in SUBSET all /\ some \in SUBSET someNow
    BY <1>8
  <2>2. someNow \in SUBSET seen
    BY <1>8
  <2>3. IsFiniteSet(someNow) /\ IsFiniteSet(allNow)
    <3> HIDE DEF all, some, seen, allNow, someNow
    <3>1. IsFiniteSet(someNow)
      BY <1>2, <2>2, FS_Subset
    <3>2. IsFiniteSet(allNow)
      BY <1>3, <2>1, FS_Subset
    <3> QED
      BY <3>1, <3>2
  <2>4. Cardinality(allNow) \in Nat /\ Cardinality(someNow) \in Nat
    BY <2>3, FS_CardinalityType
  <2>5. Cardinality(allNow) <= Cardinality(all) /\ Cardinality(some) <= Cardinality(someNow)
    BY <1>3, <2>1, <2>3, FS_Subset
  <2> HIDE DEF all, some, seen, allNow, someNow
  <2>6. Cardinality(allNow) <= found'[p] /\ found'[p] <= Cardinality(someNow)
    BY <1>1, <1>4, <1>5, <1>8, <2>4, <2>5
  <2> QED
    BY <2>6 DEF allNow, someNow
<1> QED
  BY <1>6, <1>7, <1>8, CountChanges

(* report.md: what a call prints is what the process, or an ancestor       *)
(* before its birth, has asked for, whoever has had the slot before: a     *)
(* child does not run before it has its mask.                              *)
THEOREM TracesStayInFamily ==
  ASSUME SyscallsAssumption PROVE CallsSpec => []TraceInFamily
BY CallsInvInit, InvStep, InvSafe, PTL DEF CallsSpec

(* No count is larger than the part of the table that has been scanned.    *)
THEOREM CallTypes ==
  ASSUME SyscallsAssumption PROVE CallsSpec => []CallsTypeOK
<1>1. CallsInv => CallsTypeOK
  BY DEF CallsInv
<1> QED
  BY <1>1, CallsInvInit, InvStep, PTL DEF CallsSpec

(* count_proc() counts every process that is there during the whole scan,  *)
(* and none that is not there at any time of it, however many are born and *)
(* freed before and behind it.                                             *)
THEOREM CountsWhoIsThere ==
  ASSUME SyscallsAssumption PROVE CallsSpec => []CountBracket
<1>1. CallsInit => CallsInv /\ CountBracket
  BY CallsInvInit
<1>2. (CallsInv /\ CountBracket) /\ [CallsNext]_callVars => (CallsInv /\ CountBracket)'
  BY InvStep, CountStep
<1> QED
  BY <1>1, <1>2, PTL DEF CallsSpec

-----------------------------------------------------------------------------
(* Sleep.                                                                  *)
(* The clock and the sleepers by themselves.                                *)
ClkSpec == Clk!Init /\ [][Clk!Next]_(Clk!vars)

(* Who holds tickslock, and which processes are off their harts.           *)
Locks ==
    /\ scan # 0 <=> tickslock = Clk!Clock
    /\ \A p \in Clk!Procs : sleepPc[p] \in {"test", "lock"} <=> tickslock = p
    /\ \A p \in Clk!Procs : state[p] = "RUNNING" <=> sleepPc[p] # "off"

(* What sys_sleep() computes from ticks is the time, as long as the        *)
(* history variable counts it.                                             *)
Measured ==
    \A p \in Clk!Procs :
        Clk!InSysSleep(p) /\ elapsed[p] < Clk!MaxElapsed =>
            Clk!Unsigned(ticks - ticks0[p]) = elapsed[p]

(* Whoever is asleep, or about to be, has time left, except at the tick    *)
(* whose wakeup() has not come to it; whoever has been woken is late by no *)
(* more than the ticks since then.                                         *)
Asleep(p) == sleepPc[p] = "sleep" \/ (sleepPc[p] = "off" /\ state[p] = "SLEEPING")
(* A process that the tick has woken, or that runs again.                   *)
Woken(p) == sleepPc[p] = "woken" \/ (sleepPc[p] = "off" /\ state[p] = "RUNNABLE")

(* The times of a sleep at each of its points.                              *)
InTime(p) ==
    /\ sleepPc[p] = "test" => elapsed[p] <= sleepN[p] + Lag
    /\ sleepPc[p] = "lock" => elapsed[p] < sleepN[p]
    /\ Asleep(p) => elapsed[p] <= sleepN[p]
    /\ Asleep(p) /\ (scan = 0 \/ scan > p) => elapsed[p] < sleepN[p]
    /\ Woken(p) => elapsed[p] <= sleepN[p] + lag[p]

(* The inductive invariant of the clock.                                    *)
ClkInv ==
    /\ Clk!TypeOK /\ Locks /\ Measured
    /\ \A p \in Clk!Procs : sleepN[p] >= 0 => InTime(p)

-----------------------------------------------------------------------------
(* What is assumed of the numbers, and of who holds tickslock.              *)
LEMMA ClkNumbers ==
  /\ SleepProcs \in Nat \ {0}
  /\ Wrap \in Nat \ {0} /\ Lag \in Nat \ {0}
  /\ \A x \in Requests \cup {0} : x \in Int /\ x + Lag < Wrap - 1 /\ x >= -Wrap
  /\ Nobody # Clk!Clock /\ \A p \in Clk!Procs : p # Nobody /\ p # Clk!Clock
<1>1. Clk!SleepAssumption
  BY KernelAssumption
<1> QED
  BY <1>1 DEF Clk!SleepAssumption, Clk!Clock, Clk!Procs

(* The unsigned arithmetic of sys_sleep().                                 *)
LEMMA UnsignedIs ==
  /\ \A x \in 0 .. Wrap - 1 :
         /\ Clk!Unsigned(x) = x
         /\ Clk!Unsigned(x + 1) = IF x = Wrap - 1 THEN 0 ELSE x + 1
  /\ \A x, y \in 0 .. Wrap - 1 :
         Clk!Unsigned(x - y) = IF x >= y THEN x - y ELSE x - y + Wrap
  /\ \A x \in Int : Clk!Unsigned(x) \in 0 .. Wrap - 1
<1> USE ClkNumbers DEF Clk!Unsigned
<1>1. \A x \in 0 .. Wrap - 1 : x % Wrap = x
  OBVIOUS
<1>2. \A x \in 0 .. Wrap - 1 : (x + 1) % Wrap = IF x = Wrap - 1 THEN 0 ELSE x + 1
  OBVIOUS
<1>3. \A x, y \in 0 .. Wrap - 1 :
          (x - y) % Wrap = IF x >= y THEN x - y ELSE x - y + Wrap
  OBVIOUS
<1>4. \A x \in Int : x % Wrap \in 0 .. Wrap - 1
  OBVIOUS
<1> QED
  BY <1>1, <1>2, <1>3, <1>4

(* Nobody sleeps at the start.                                              *)
LEMMA ClkInit == Clk!Init => ClkInv
<1> SUFFICES ASSUME Clk!Init PROVE ClkInv
  OBVIOUS
<1> USE ClkNumbers DEF Clk!Init
<1>1. Clk!TypeOK
  BY DEF Clk!TypeOK, Clk!MaxElapsed, Clk!Clock
<1>2. Locks /\ Measured
  BY DEF Locks, Measured, Clk!InSysSleep
<1>3. \A p \in Clk!Procs : InTime(p)
  BY DEF InTime, Asleep, Woken
<1> QED
  BY <1>1, <1>2, <1>3 DEF ClkInv

(* A sleep of no negative length that is not over is not over by far.      *)
LEMMA NotExpired ==
  ASSUME ClkInv, NEW p \in Clk!Procs, sleepPc[p] = "test", sleepN[p] >= 0,
         ~Clk!Expired(p)
  PROVE  elapsed[p] < sleepN[p]
<1>1. /\ elapsed[p] <= sleepN[p] + Lag /\ sleepN[p] \in Requests \cup {0}
      /\ elapsed[p] \in 0 .. Wrap - 1
  BY DEF ClkInv, InTime, Clk!TypeOK, Clk!MaxElapsed
<1>2. elapsed[p] < Clk!MaxElapsed /\ sleepN[p] \in 0 .. Wrap - 1
  BY <1>1, ClkNumbers DEF Clk!MaxElapsed
<1>3. Clk!Unsigned(ticks - ticks0[p]) = elapsed[p]
  BY <1>2 DEF ClkInv, Measured, Clk!InSysSleep
<1>4. Clk!Unsigned(sleepN[p]) = sleepN[p]
  BY <1>2, UnsignedIs
<1> QED
  BY <1>1, <1>2, <1>3, <1>4 DEF Clk!Expired

(* Every step of a process or of the clock keeps the invariant.             *)
LEMMA ClkStep == ClkInv /\ [Clk!Next]_(Clk!vars) => ClkInv'
<1> SUFFICES ASSUME ClkInv, [Clk!Next]_(Clk!vars) PROVE ClkInv'
  OBVIOUS
<1>1. CASE UNCHANGED Clk!vars
  BY <1>1
     DEF Clk!vars, ClkInv, Clk!TypeOK, Locks, Measured, InTime, Asleep, Woken,
         Clk!InSysSleep
<1> USE ClkNumbers DEF ClkInv, Clk!Goto, Clk!MaxElapsed
<1>2. ASSUME NEW p \in Clk!Procs, NEW x \in Requests, Clk!Call(p, x) PROVE ClkInv'
  <2>1. Clk!TypeOK'
    BY <1>2 DEF Clk!Call, Clk!TypeOK
  <2>2. Locks'
    BY <1>2 DEF Clk!Call, Clk!TypeOK, Locks
  <2>3. Measured'
    BY <1>2, UnsignedIs DEF Clk!Call, Clk!TypeOK, Measured, Clk!InSysSleep
  <2>4. \A q \in Clk!Procs : sleepN'[q] >= 0 => InTime(q)'
    BY <1>2 DEF Clk!Call, Clk!TypeOK, InTime, Asleep, Woken
  <2> QED
    BY <2>1, <2>2, <2>3, <2>4
<1>3. ASSUME NEW p \in Clk!Procs, Clk!ExitKilled(p) PROVE ClkInv'
  <2>1. Clk!TypeOK' /\ Locks'
    BY <1>3 DEF Clk!ExitKilled, Clk!TypeOK, Locks
  <2>2. Measured'
    BY <1>3 DEF Clk!ExitKilled, Clk!TypeOK, Measured, Clk!InSysSleep
  <2>3. \A q \in Clk!Procs : sleepN'[q] >= 0 => InTime(q)'
    BY <1>3 DEF Clk!ExitKilled, Clk!TypeOK, InTime, Asleep, Woken
  <2> QED
    BY <2>1, <2>2, <2>3
<1>4. ASSUME NEW p \in Clk!Procs, Clk!Return(p) PROVE ClkInv'
  <2>1. Clk!TypeOK'
    BY <1>4 DEF Clk!Return, Clk!LocalsEnd, Clk!TypeOK
  <2>2. Locks'
    BY <1>4 DEF Clk!Return, Clk!LocalsEnd, Clk!TypeOK, Locks
  <2>3. Measured'
    BY <1>4
       DEF Clk!Return, Clk!LocalsEnd, Clk!TypeOK, Measured, Clk!InSysSleep
  <2>4. \A q \in Clk!Procs : sleepN'[q] >= 0 => InTime(q)'
    BY <1>4 DEF Clk!Return, Clk!LocalsEnd, Clk!TypeOK, InTime, Asleep, Woken
  <2> QED
    BY <2>1, <2>2, <2>3, <2>4
<1>5. ASSUME NEW p \in Clk!Procs, Clk!Again(p) PROVE ClkInv'
  <2>1. Clk!TypeOK' /\ Locks'
    BY <1>5 DEF Clk!Again, Clk!TypeOK, Locks
  <2>2. Measured'
    BY <1>5 DEF Clk!Again, Clk!TypeOK, Measured, Clk!InSysSleep
  <2>3. \A q \in Clk!Procs : sleepN'[q] >= 0 => InTime(q)'
    BY <1>5, NotExpired DEF Clk!Again, Clk!TypeOK, InTime, Asleep, Woken
  <2> QED
    BY <2>1, <2>2, <2>3
<1>6. ASSUME NEW p \in Clk!Procs, Clk!SleepLock(p) PROVE ClkInv'
  <2>1. Clk!TypeOK' /\ Locks'
    BY <1>6 DEF Clk!SleepLock, Clk!TypeOK, Locks
  <2>2. Measured'
    BY <1>6 DEF Clk!SleepLock, Clk!TypeOK, Measured, Clk!InSysSleep
  <2>3. \A q \in Clk!Procs : sleepN'[q] >= 0 => InTime(q)'
    BY <1>6 DEF Clk!SleepLock, Clk!TypeOK, InTime, Asleep, Woken
  <2> QED
    BY <2>1, <2>2, <2>3
<1>7. ASSUME NEW p \in Clk!Procs, Clk!SleepSched(p) PROVE ClkInv'
  <2>1. Clk!TypeOK' /\ Locks'
    BY <1>7 DEF Clk!SleepSched, Clk!TypeOK, Locks
  <2>2. Measured'
    BY <1>7 DEF Clk!SleepSched, Clk!TypeOK, Measured, Clk!InSysSleep
  <2>3. \A q \in Clk!Procs : sleepN'[q] >= 0 => InTime(q)'
    BY <1>7 DEF Clk!SleepSched, Clk!TypeOK, InTime, Asleep, Woken
  <2> QED
    BY <2>1, <2>2, <2>3
<1>8. ASSUME NEW p \in Clk!Procs, Clk!Resume(p) PROVE ClkInv'
  <2>1. Clk!TypeOK' /\ Locks'
    BY <1>8 DEF Clk!Resume, Clk!TypeOK, Locks
  <2>2. Measured'
    BY <1>8 DEF Clk!Resume, Clk!TypeOK, Measured, Clk!InSysSleep
  <2>3. \A q \in Clk!Procs : sleepN'[q] >= 0 => InTime(q)'
    BY <1>8 DEF Clk!Resume, Clk!TypeOK, InTime, Asleep, Woken
  <2> QED
    BY <2>1, <2>2, <2>3
<1>9. ASSUME NEW p \in Clk!Procs, Clk!Relock(p) PROVE ClkInv'
  <2>1. Clk!TypeOK' /\ Locks'
    BY <1>9 DEF Clk!Relock, Clk!TypeOK, Locks
  <2>2. Measured'
    BY <1>9 DEF Clk!Relock, Clk!TypeOK, Measured, Clk!InSysSleep
  <2>3. \A q \in Clk!Procs : sleepN'[q] >= 0 => InTime(q)'
    BY <1>9 DEF Clk!Relock, Clk!TypeOK, InTime, Asleep, Woken
  <2> QED
    BY <2>1, <2>2, <2>3
<1>10. ASSUME NEW p \in Clk!Procs, Clk!Kill(p) PROVE ClkInv'
  <2>1. Clk!TypeOK' /\ Locks'
    BY <1>10 DEF Clk!Kill, Clk!Wake, Clk!TypeOK, Locks
  <2>2. Measured'
    BY <1>10 DEF Clk!Kill, Clk!TypeOK, Measured, Clk!InSysSleep
  <2>3. \A q \in Clk!Procs : sleepN'[q] >= 0 => InTime(q)'
    BY <1>10 DEF Clk!Kill, Clk!Wake, Clk!TypeOK, InTime, Asleep, Woken
  <2> QED
    BY <2>1, <2>2, <2>3
<1>11. CASE Clk!Tick
  <2>1. /\ tickslock = Nobody /\ tickslock' = Clk!Clock /\ scan' = 1
        /\ ticks' = Clk!Unsigned(ticks + 1)
        /\ UNCHANGED <<sleepPc, state, killed, sleepN, ticks0>>
    BY <1>11 DEF Clk!Tick
  <2>2. \A q \in Clk!Procs :
            /\ lag[q] < Lag
            /\ lag'[q] = IF Clk!Late(q) THEN lag[q] + 1 ELSE lag[q]
            /\ elapsed'[q] = IF sleepPc[q] \in {"user", "gone"} \/ elapsed[q] = Wrap - 1
                             THEN elapsed[q] ELSE elapsed[q] + 1
    BY <1>11 DEF Clk!Tick
  <2>3. /\ ticks \in 0 .. Wrap - 1 /\ ticks' \in 0 .. Wrap - 1
        /\ ticks' = IF ticks = Wrap - 1 THEN 0 ELSE ticks + 1
    BY <2>1, UnsignedIs DEF Clk!TypeOK
  <2>4. \A q \in Clk!Procs :
            /\ lag[q] \in 0 .. Lag /\ elapsed[q] \in 0 .. Wrap - 1
            /\ lag'[q] \in 0 .. Lag /\ elapsed'[q] \in 0 .. Wrap - 1
            /\ ticks0[q] \in 0 .. Wrap - 1 /\ sleepN[q] \in Requests \cup {0}
    BY <2>2 DEF Clk!TypeOK
  <2>5. Clk!TypeOK'
    <3>1. /\ lag' = [q \in Clk!Procs |-> IF Clk!Late(q) THEN lag[q] + 1 ELSE lag[q]]
          /\ elapsed' = [q \in Clk!Procs |->
                 IF sleepPc[q] \in {"user", "gone"} \/ elapsed[q] = Wrap - 1
                 THEN elapsed[q] ELSE elapsed[q] + 1]
      BY <1>11 DEF Clk!Tick
    <3>2. /\ lag' \in [Clk!Procs -> 0 .. Lag]
          /\ elapsed' \in [Clk!Procs -> 0 .. Wrap - 1]
      BY <2>4, <3>1
    <3>3. 1 \in 0 .. SleepProcs
      OBVIOUS
    <3> QED
      BY <2>1, <2>3, <3>2, <3>3 DEF Clk!TypeOK
  <2>6. Locks'
    BY <2>1 DEF Locks
  <2>7. Measured'
    <3> SUFFICES ASSUME NEW q \in Clk!Procs, Clk!InSysSleep(q)', elapsed'[q] < Wrap - 1
                 PROVE  Clk!Unsigned(ticks' - ticks0[q]) = elapsed'[q]
      BY <2>1 DEF Measured
    <3>1. Clk!InSysSleep(q) /\ elapsed'[q] = elapsed[q] + 1
      BY <2>1, <2>2, <2>4 DEF Clk!InSysSleep
    <3>2. /\ Clk!Unsigned(ticks - ticks0[q]) = elapsed[q]
          /\ elapsed[q] < Wrap - 2
      BY <2>4, <3>1 DEF Measured
    <3>3. ticks0[q] \in 0 .. Wrap - 1 /\ elapsed[q] \in 0 .. Wrap - 1
      BY <2>4
    <3>4. Clk!Unsigned(ticks - ticks0[q]) =
              IF ticks >= ticks0[q] THEN ticks - ticks0[q] ELSE ticks - ticks0[q] + Wrap
      BY <2>3, <3>3, UnsignedIs
    <3>5. Clk!Unsigned(ticks' - ticks0[q]) =
              IF ticks' >= ticks0[q] THEN ticks' - ticks0[q] ELSE ticks' - ticks0[q] + Wrap
      BY <2>3, <3>3, UnsignedIs
    <3> QED
      BY <2>3, <3>1, <3>2, <3>3, <3>4, <3>5
  <2>8. ASSUME NEW q \in Clk!Procs, sleepN'[q] >= 0 PROVE InTime(q)'
    <3>1. InTime(q) /\ q >= 1
      BY <2>1, <2>8 DEF Clk!Procs
    <3>2. sleepPc[q] \notin {"test", "lock"} /\ scan = 0
      BY <2>1 DEF Locks
    <3>3. elapsed'[q] <= elapsed[q] + 1
      BY <2>2, <2>4
    <3>4. Asleep(q) => elapsed[q] < sleepN[q]
      BY <3>1, <3>2 DEF InTime
    <3>5. Woken(q) => elapsed'[q] <= sleepN[q] + lag'[q]
      <4> SUFFICES ASSUME Woken(q) PROVE elapsed'[q] <= sleepN[q] + lag'[q]
        OBVIOUS
      <4>1. Clk!Late(q)
        BY DEF Woken, Clk!Late
      <4>2. lag'[q] = lag[q] + 1 /\ elapsed[q] <= sleepN[q] + lag[q]
        BY <2>2, <3>1, <4>1 DEF InTime
      <4> QED
        BY <2>4, <3>3, <4>2
    <3>6. (Asleep(q)' <=> Asleep(q)) /\ (Woken(q)' <=> Woken(q)) /\ scan' = 1
      BY <2>1 DEF Asleep, Woken
    <3>7. Asleep(q) => elapsed'[q] <= sleepN[q]
      BY <2>4, <3>3, <3>4
    <3> QED
      BY <2>1, <3>1, <3>2, <3>5, <3>6, <3>7 DEF InTime, Clk!Procs
  <2> QED
    BY <2>5, <2>6, <2>7, <2>8
<1>12. CASE Clk!Wakeup
  <2>1. /\ scan # 0 /\ scan \in Clk!Procs /\ sleepPc[scan] # "sleep"
        /\ state' = [state EXCEPT ![scan] = IF state[scan] = "SLEEPING" THEN "RUNNABLE"
                                            ELSE state[scan]]
        /\ UNCHANGED <<ticks, sleepPc, killed, sleepN, ticks0, elapsed, lag>>
    BY <1>12 DEF Clk!Wakeup, Clk!Wake, Clk!PLocked, Clk!TypeOK, Clk!Procs
  <2>2. \/ scan = SleepProcs /\ scan' = 0 /\ tickslock' = Nobody
        \/ scan < SleepProcs /\ scan' = scan + 1 /\ tickslock' = tickslock
    BY <1>12, <2>1 DEF Clk!Wakeup, Clk!ScanEnds, Clk!Procs
  <2>3. tickslock = Clk!Clock /\ \A q \in Clk!Procs : sleepPc[q] \notin {"test", "lock"}
    BY <2>1 DEF Locks
  <2>4. Clk!TypeOK'
    <3>1. scan' \in 0 .. SleepProcs
      BY <2>1, <2>2 DEF Clk!Procs
    <3> QED
      BY <2>1, <2>2, <3>1 DEF Clk!TypeOK
  <2>5. Locks'
    <3>1. \A q \in Clk!Procs : tickslock' # q
      BY <2>2, <2>3
    <3>2. scan' # 0 <=> tickslock' = Clk!Clock
      BY <2>1, <2>2, <2>3 DEF Clk!Procs
    <3>3. \A q \in Clk!Procs : state'[q] = "RUNNING" <=> state[q] = "RUNNING"
      BY <2>1 DEF Clk!TypeOK
    <3> QED
      BY <2>1, <2>3, <3>1, <3>2, <3>3 DEF Locks
  <2>6. Measured'
    BY <2>1 DEF Measured, Clk!InSysSleep
  <2>7. ASSUME NEW q \in Clk!Procs, sleepN'[q] >= 0 PROVE InTime(q)'
    <3>1. InTime(q) /\ lag[q] \in 0 .. Lag /\ elapsed[q] \in 0 .. Wrap - 1
          /\ sleepN[q] \in Requests \cup {0}
      BY <2>1, <2>7 DEF Clk!TypeOK
    <3>2. CASE q = scan
      <4>1. ~Asleep(q)'
        BY <2>1, <3>2 DEF Asleep, Clk!TypeOK
      <4>2. Woken(q)' => Woken(q) \/ Asleep(q)
        BY <2>1, <3>2 DEF Asleep, Woken, Clk!TypeOK
      <4>3. Woken(q)' => elapsed[q] <= sleepN[q] + lag[q]
        BY <3>1, <4>2 DEF InTime
      <4> QED
        BY <2>1, <2>3, <4>1, <4>3 DEF InTime
    <3>3. CASE q # scan
      <4>1. (Asleep(q)' <=> Asleep(q)) /\ (Woken(q)' <=> Woken(q))
        BY <2>1, <3>3 DEF Asleep, Woken, Clk!TypeOK
      <4>2. scan' = 0 \/ scan' > q => scan > q
        BY <2>1, <2>2, <3>3 DEF Clk!Procs
      <4> QED
        BY <2>1, <2>3, <3>1, <4>1, <4>2 DEF InTime
    <3> QED
      BY <3>2, <3>3
  <2> QED
    BY <2>4, <2>5, <2>6, <2>7
<1> QED
  BY <1>1, <1>2, <1>3, <1>4, <1>5, <1>6, <1>7, <1>8, <1>9, <1>10, <1>11, <1>12
     DEF Clk!Next, Clk!SysSleep

(* sys_sleep(): no wakeup is lost between the test of ticks and the sleep, *)
(* in whatever order the clock, the sleepers and their killers take the    *)
(* two locks: nobody stays longer than it asked for and the scheduler      *)
(* takes, and over the wrap of ticks.                                      *)
THEOREM SleepsNotTooLong == ClkSpec => []NotLate
<1>1. ClkInv => NotLate
  <2> SUFFICES ASSUME ClkInv, NEW p \in Clk!Procs, Clk!InSysSleep(p), sleepN[p] >= 0
               PROVE  elapsed[p] <= sleepN[p] + Lag
    BY DEF NotLate, Clk!NotLate
  <2>1. /\ InTime(p)
        /\ elapsed[p] \in Nat
        /\ lag[p] \in 0 .. Lag
        /\ sleepN[p] \in Int
    BY ClkNumbers DEF ClkInv, Clk!TypeOK, Clk!MaxElapsed
  <2>2. \/ sleepPc[p] \in {"test", "lock"} \/ Asleep(p) \/ Woken(p)
    BY DEF ClkInv, Clk!TypeOK, Locks, Clk!InSysSleep, Asleep, Woken
  <2> QED
    BY <2>1, <2>2, ClkNumbers DEF InTime
<1> QED
  BY <1>1, ClkInit, ClkStep, PTL DEF ClkSpec

(* sys_sleep() does not return 0 before the number of ticks it was asked   *)
(* for, a negative one as the unsigned number it converts to.              *)
THEOREM SleepsNotTooShort == ClkSpec => NotEarly
<1>1. ClkInv /\ [Clk!Next]_(Clk!vars) =>
          [\A p \in Clk!Procs :
               sleepPc[p] = "test" /\ sleepPc'[p] = "user" =>
                   elapsed[p] >= Clk!Unsigned(sleepN[p])]_(Clk!vars)
  <2> SUFFICES ASSUME ClkInv, Clk!Next, NEW p \in Clk!Procs,
                      sleepPc[p] = "test", sleepPc'[p] = "user"
               PROVE  elapsed[p] >= Clk!Unsigned(sleepN[p])
    OBVIOUS
  <2>1. Clk!TypeOK
    BY DEF ClkInv
  <2>2. Clk!Expired(p)
    BY <2>1
       DEF Clk!Next, Clk!SysSleep, Clk!Call, Clk!ExitKilled, Clk!Return,
           Clk!Again, Clk!SleepLock, Clk!SleepSched, Clk!Resume, Clk!Relock,
           Clk!Kill, Clk!Tick, Clk!Wakeup, Clk!Goto, Clk!TypeOK
  <2>3. /\ elapsed[p] \in 0 .. Wrap - 1 /\ sleepN[p] \in Int
        /\ Clk!Unsigned(sleepN[p]) \in 0 .. Wrap - 1
    BY <2>1, ClkNumbers, UnsignedIs DEF Clk!TypeOK, Clk!MaxElapsed
  <2>4. elapsed[p] < Clk!MaxElapsed => Clk!Unsigned(ticks - ticks0[p]) = elapsed[p]
    BY DEF ClkInv, Measured, Clk!InSysSleep
  <2> QED
    BY <2>2, <2>3, <2>4, ClkNumbers DEF Clk!Expired, Clk!MaxElapsed
<1> QED
  BY <1>1, ClkInit, ClkStep, PTL DEF ClkSpec, NotEarly, Clk!NotEarly

-----------------------------------------------------------------------------
(* A run of MCKernel is a run of each subsystem: of the one it has chosen, *)
(* and of the others, which do nothing.                                    *)
LEMMA EachSubsystem ==
  KernelSpec => Spec /\ MemSpec /\ ClkSpec /\ CallsSpec
<1> DEFINE all == <<subsystem, vars, memVars, clockVars, callVars>>
<1>1. KernelInit => Init /\ MemInit /\ Clk!Init /\ CallsInit
  BY DEF KernelInit
<1>2. [KernelNext]_all =>
          /\ [Next]_vars /\ [MemNext]_memVars
          /\ [Clk!Next]_(Clk!vars) /\ [CallsNext]_callVars
  <2> SUFFICES ASSUME [KernelNext]_all
               PROVE  /\ [Next]_vars /\ [MemNext]_memVars
                      /\ [Clk!Next]_(Clk!vars) /\ [CallsNext]_callVars
    OBVIOUS
  <2>1. UNCHANGED clockVars => UNCHANGED Clk!vars
    BY DEF clockVars, Clk!vars
  <2> QED
    BY <2>1 DEF KernelNext, InPages, InMemory, InSleep, InCalls
<1> QED
  BY <1>1, <1>2, PTL DEF KernelSpec, Spec, MemSpec, ClkSpec, CallsSpec

(* The types of Memory, Sleep and Syscalls: no size, no clock, no count    *)
(* and no history gets out of its range.                                   *)
THEOREM KernelTypes == KernelSpec => []KernelTypeOK
<1>1. MemoryAssumption /\ SyscallsAssumption
  BY KernelAssumption
<1>2. MemSpec => []MemTypeOK
  BY <1>1, MemoryTypes
<1>3. CallsSpec => []CallsTypeOK
  BY <1>1, CallTypes
<1>4. ClkInv => Clk!TypeOK
  BY DEF ClkInv
<1>5. ClkSpec => []Clk!TypeOK
  BY <1>4, ClkInit, ClkStep, PTL DEF ClkSpec
<1> QED
  BY <1>2, <1>3, <1>5, EachSubsystem, PTL DEF KernelTypeOK

(* The kernel beside its process table: all that the run of MCKernel       *)
(* checks of it, liveness apart, for all sizes at once.                    *)
THEOREM KernelSafe ==
  KernelSpec =>
      /\ [](OneOwner /\ NoLeak /\ FreesWhatIsMapped)
      /\ [](NotLate /\ TraceInFamily /\ CountBracket)
      /\ ImplementsPool /\ NotEarly
<1>1. MemoryAssumption /\ SyscallsAssumption
  BY KernelAssumption
<1>2. Spec => []OneOwner /\ ImplementsPool
  BY PagesOwnedOnce, AllocatorIsPool
<1>3. MemSpec => []NoLeak /\ []FreesWhatIsMapped
  BY <1>1, PagesAddUp, NothingFreedWrong
<1>4. CallsSpec => []TraceInFamily /\ []CountBracket
  BY <1>1, TracesStayInFamily, CountsWhoIsThere
<1> QED
  BY <1>2, <1>3, <1>4, EachSubsystem, SleepsNotTooLong, SleepsNotTooShort, PTL
=============================================================================
