---------------------------- MODULE MemoryProofs ----------------------------
(* Proofs about Memory, for every number of slots and pages.  The first    *)
(* part takes no account of how many pages are free, as if any allocation  *)
(* could fail; the second adds up the pages.                               *)
EXTENDS Memory, TallyProofs

MemType ==
    [trapframe : {0, 1}, tables : 0 .. AllTables, top : SUBSET Top,
     image : Nat, sz : Nat]
Points ==
    {"user", "trapframe", "root", "trampoline", "trapmap", "page", "map", "undo"}
CallType == [at : Points, np : MemSlots, goal : Nat, hand : {0, 1}]

(* The types of the variables.                                              *)
Types ==
    /\ avail \in Int
    /\ use \in [MemSlots -> {"UNUSED", "USED", "ZOMBIE"}]
    /\ mem \in [MemSlots -> MemType]
    /\ call \in [MemSlots -> CallType]

(* A page table that has its mappings at the top, with what may be below;  *)
(* and the memory of a process that can be freed.                          *)
Tabled(m) == m.tables \in TopTables .. AllTables /\ m.top = Top
Whole(m) == Tabled(m) /\ m.image = m.sz

(* The memory of a slot that fork() fills, at each point of it.            *)
Shape(l, m) ==
    /\ m.sz = 0
    /\ l = "trapframe" => m = Empty
    /\ l = "root" => m.tables = 0 /\ m.top = {} /\ m.image = 0
    /\ l = "trampoline" =>
           m.tables \in 1 .. TopTables /\ m.top = {} /\ m.image = 0
    /\ l = "trapmap" =>
           m.tables = TopTables /\ m.top = {"TRAMPOLINE"} /\ m.image = 0
    /\ l \in {"page", "map"} => Tabled(m)
    /\ l = "undo" => ((m.tables = 0 /\ m.top = {}) \/ Tabled(m)) /\ m.image = 0

(* A process in a call works on itself, in sbrk(), or on a free slot.      *)
InSbrk(p) == ~AtCall(p, "user") /\ Slot(p) = p
InFork(p) == ~AtCall(p, "user") /\ Slot(p) # p

(* A call fills its own slot or a free one, as far as it has come.          *)
CallInv ==
    \A p \in MemSlots :
        /\ ~AtCall(p, "user") => use[p] = "USED"
        /\ InSbrk(p) => call[p].at \in {"page", "map"} /\ Tabled(mem[p])
        /\ InFork(p) => use[Slot(p)] = "UNUSED" /\ Shape(call[p].at, Work(p))

(* No two of them work on the same slot.                                   *)
Apart ==
    \A p, q \in MemSlots :
        InFork(p) /\ InFork(q) /\ Slot(p) = Slot(q) => p = q

(* The slots on which nobody works.                                        *)
SlotInv ==
    \A s \in MemSlots :
        /\ use[s] # "UNUSED" /\ ~InSbrk(s) => Whole(mem[s])
        /\ use[s] = "UNUSED" => mem[s] = Empty \/ \E p \in MemSlots : InFork(p) /\ Slot(p) = s

MemInv == Types /\ CallInv /\ Apart /\ SlotInv

-----------------------------------------------------------------------------
(* At the start init has its page and nobody is in a call.                  *)
LEMMA MemInvInit == ASSUME MemoryAssumption PROVE MemInit => MemInv
<1> SUFFICES ASSUME MemInit PROVE MemInv
  OBVIOUS
<1> USE DEF MemInit, InitCode, Empty, User, Top, TopTables, AllTables
<1>1. 0 \in MemSlots /\ Booted \in Int
  BY DEF MemoryAssumption, MemSlots, Booted, Owned
<1>2. Types
  BY <1>1 DEF Types, MemType, CallType, Points
<1>3. CallInv /\ Apart
  BY DEF CallInv, Apart, InSbrk, InFork, AtCall
<1>4. SlotInv
  BY DEF SlotInv, Whole, Tabled
<1> QED
  BY <1>2, <1>3, <1>4 DEF MemInv

(* What is freed is what is mapped.                                        *)
LEMMA MemInvSafe == MemInv => FreesWhatIsMapped
<1> SUFFICES ASSUME MemInv, NEW s \in MemSlots
             PROVE  /\ mem[s].tables < TopTables => mem[s].top = {} /\ mem[s].image = 0
                    /\ (s \in Freeable /\ mem[s].tables > 0) =>
                           mem[s].top = Top /\ mem[s].image = mem[s].sz
  BY DEF FreesWhatIsMapped
<1> USE DEF MemInv, Types, MemType, CallType, Points, CallInv, SlotInv, TopTables, AllTables
<1>1. CASE use[s] # "UNUSED" /\ ~InSbrk(s)
  BY <1>1 DEF Whole, Tabled
<1>2. CASE InSbrk(s)
  <2>1. Tabled(mem[s]) /\ use[s] = "USED" /\ call[s].at # "user"
    BY <1>2 DEF InSbrk, AtCall
  <2>2. s \notin Freeable
    BY <1>2, <2>1 DEF Freeable, InUser, InSbrk, InFork, AtCall, Slot
  <2> QED
    BY <2>1, <2>2 DEF Tabled
<1>3. CASE use[s] = "UNUSED"
  <2>1. CASE mem[s] = Empty
    BY <2>1 DEF Empty
  <2>2. ASSUME NEW p \in MemSlots, InFork(p), Slot(p) = s
        PROVE  /\ mem[s].tables < TopTables => mem[s].top = {} /\ mem[s].image = 0
               /\ (s \in Freeable /\ mem[s].tables > 0) =>
                      mem[s].top = Top /\ mem[s].image = mem[s].sz
    <3>1. Shape(call[p].at, mem[s]) /\ call[p].at # "user"
      BY <2>2 DEF InFork, Work, AtCall
    <3>2. s \in Freeable => call[p].at = "undo"
      BY <1>3, <2>2 DEF Freeable, InUser, Apart, InFork, InSbrk, AtCall, Slot
    <3> QED
      BY <3>1, <3>2 DEF Shape, Tabled, Empty
  <2> QED
    BY <1>3, <2>1, <2>2
<1> QED
  BY <1>1, <1>2, <1>3

-----------------------------------------------------------------------------
(* A step inside of a fork, or inside of an sbrk: one process goes on in   *)
(* its call and changes the memory of the slot it works on.                *)
LEMMA GoesOn ==
  ASSUME MemInv, NEW p \in MemSlots, ~AtCall(p, "user"),
         use' = use,
         NEW m, mem' = [mem EXCEPT ![Slot(p)] = m],
         NEW c, call' = [call EXCEPT ![p] = c], c.at # "user", c.np = Slot(p),
         Types',
         InSbrk(p) => c.at \in {"page", "map"} /\ Tabled(m),
         InFork(p) => Shape(c.at, m)
  PROVE  MemInv'
<1> USE DEF MemInv, Types, MemType, CallType, Points
<1>1. \A q \in MemSlots :
          /\ call'[q].np = call[q].np
          /\ (call'[q].at = "user") <=> (call[q].at = "user")
  BY DEF AtCall, Slot
<1>2. \A q \in MemSlots : (InSbrk(q)' <=> InSbrk(q)) /\ (InFork(q)' <=> InFork(q))
  BY <1>1 DEF InSbrk, InFork, AtCall, Slot
<1>3. \A s \in MemSlots : s # Slot(p) => mem'[s] = mem[s]
  OBVIOUS
<1>4. Slot(p) \in MemSlots /\ mem'[Slot(p)] = m /\ call'[p] = c
  BY DEF Slot
<1>5. \A q \in MemSlots : q # p => call'[q] = call[q]
  OBVIOUS
<1>6. CallInv'
  <2> SUFFICES ASSUME NEW q \in MemSlots
               PROVE  /\ ~AtCall(q, "user")' => use'[q] = "USED"
                      /\ InSbrk(q)' => call'[q].at \in {"page", "map"} /\ Tabled(mem'[q])
                      /\ InFork(q)' => use'[Slot(q)'] = "UNUSED" /\ Shape(call'[q].at, Work(q)')
    BY DEF CallInv
  <2>1. CASE q = p
    BY <2>1, <1>1, <1>2, <1>4 DEF CallInv, AtCall, Slot, Work, InSbrk, InFork
  <2>2. CASE q # p
    <3>1. InSbrk(q) => Slot(p) # q
      BY <2>2 DEF CallInv, InSbrk, InFork, AtCall, Slot
    <3>2. InFork(q) => Slot(p) # Slot(q)
      BY <2>2 DEF CallInv, Apart, InSbrk, InFork, AtCall, Slot
    <3>3. call'[q] = call[q] /\ Slot(q)' = Slot(q) /\ Slot(q) \in MemSlots
      BY <2>2, <1>5 DEF Slot
    <3>4. ~AtCall(q, "user")' => use'[q] = "USED"
      BY <3>3 DEF CallInv, AtCall
    <3>5. ASSUME InSbrk(q) PROVE call'[q].at \in {"page", "map"} /\ Tabled(mem'[q])
      BY <3>1, <3>3, <3>5, <1>3 DEF CallInv
    <3>6. ASSUME InFork(q)
          PROVE  use'[Slot(q)'] = "UNUSED" /\ Shape(call'[q].at, Work(q)')
      <4>1. Work(q)' = Work(q)
        BY <3>2, <3>3, <3>6, <1>3 DEF Work
      <4> QED
        BY <4>1, <3>3, <3>6 DEF CallInv
    <3> QED
      BY <3>4, <3>5, <3>6, <1>2
  <2> QED
    BY <2>1, <2>2
<1>7. Apart'
  BY <1>1, <1>2 DEF Apart, Slot
<1>8. SlotInv'
  <2> SUFFICES ASSUME NEW s \in MemSlots
               PROVE  /\ use'[s] # "UNUSED" /\ ~InSbrk(s)' => Whole(mem'[s])
                      /\ use'[s] = "UNUSED" => mem'[s] = Empty
                             \/ \E q \in MemSlots : InFork(q)' /\ Slot(q)' = s
    BY DEF SlotInv
  <2>1. CASE s # Slot(p)
    BY <2>1, <1>1, <1>2, <1>3 DEF SlotInv, Slot
  <2>2. CASE s = Slot(p)
    BY <2>2, <1>1, <1>2 DEF CallInv, InSbrk, InFork, AtCall, Slot
  <2> QED
    BY <2>1, <2>2
<1> QED
  BY <1>6, <1>7, <1>8

-----------------------------------------------------------------------------
(* What a step writes into one field of a slot or of a call.               *)
LEMMA MemFields ==
  ASSUME NEW m \in MemType
  PROVE  /\ m.trapframe \in {0, 1} /\ m.tables \in 0 .. AllTables
         /\ m.image \in Nat /\ m.sz \in Nat
         /\ [m EXCEPT !.trapframe = 1] \in MemType
         /\ m.tables < AllTables => OneTableMore(m) \in MemType
         /\ [m EXCEPT !.top = {"TRAMPOLINE"}] \in MemType
         /\ [m EXCEPT !.top = Top] \in MemType
         /\ TableFreed(m) \in MemType
<1> USE DEF MemType, AllTables, Top
<1>1. m.tables < AllTables => m.tables + 1 \in 0 .. AllTables
  OBVIOUS
<1>2. m.tables < AllTables => OneTableMore(m) \in MemType
  BY <1>1 DEF OneTableMore
<1>3. TableFreed(m) \in MemType
  <2>1. {} \in SUBSET Top /\ 0 \in 0 .. AllTables
    OBVIOUS
  <2>2. [m EXCEPT !.tables = 0] \in MemType
    BY <2>1
  <2>3. \A n \in MemType : [n EXCEPT !.top = {}] \in MemType
    BY <2>1
  <2>4. TableFreed(m) = [[m EXCEPT !.tables = 0] EXCEPT !.top = {}]
    BY DEF TableFreed
  <2> QED
    BY <2>2, <2>3, <2>4
<1> QED
  BY <1>2, <1>3

(* A change of the size changes nothing else.                               *)
LEMMA SizeFields ==
  ASSUME NEW m \in MemType, NEW x \in Nat
  PROVE  Mapped(m, x) \in MemType /\ Sized(m, x) \in MemType
BY DEF MemType, Mapped, Sized

(* A call that goes on, or takes a page, stays well formed.                 *)
LEMMA CallFields ==
  ASSUME NEW c \in CallType
  PROVE  /\ c.np \in MemSlots /\ c.goal \in Nat /\ c.hand \in {0, 1}
         /\ \A l \in Points : [c EXCEPT !.at = l] \in CallType
         /\ \A l \in Points, x \in {0, 1} : Holds(c, l, x) \in CallType
<1>1. c.np \in MemSlots /\ c.goal \in Nat /\ c.hand \in {0, 1}
  BY DEF CallType
<1>2. ASSUME NEW l \in Points PROVE [c EXCEPT !.at = l] \in CallType
  BY DEF CallType
<1>3. ASSUME NEW n \in CallType, NEW x \in {0, 1} PROVE [n EXCEPT !.hand = x] \in CallType
  BY DEF CallType
<1>4. ASSUME NEW l \in Points, NEW x \in {0, 1} PROVE Holds(c, l, x) \in CallType
  <2>1. Holds(c, l, x) = [[c EXCEPT !.at = l] EXCEPT !.hand = x]
    BY DEF Holds, CallType
  <2> QED
    BY <1>2, <1>3, <2>1
<1> QED
  BY <1>1, <1>2, <1>4

(* What a process may write: any memory to its slot, and any place.        *)
LEMMA Writes ==
  ASSUME Types, NEW p \in MemSlots
  PROVE  /\ Slot(p) \in MemSlots /\ Work(p) \in MemType
         /\ call[p] \in CallType
         /\ Work(p) = mem[Slot(p)]
         /\ \A m \in MemType : [mem EXCEPT ![Slot(p)] = m] \in [MemSlots -> MemType]
         /\ \A c \in CallType : [call EXCEPT ![p] = c] \in [MemSlots -> CallType]
         /\ \A l \in Points : [call EXCEPT ![p].at = l] \in [MemSlots -> CallType]
<1>1. mem \in [MemSlots -> MemType] /\ call \in [MemSlots -> CallType]
  BY DEF Types
<1>2. call[p] \in CallType
  BY <1>1
<1>3. Slot(p) \in MemSlots
  BY <1>2 DEF CallType, Slot
<1>4. \A l \in Points : [call[p] EXCEPT !.at = l] \in CallType
  BY <1>2 DEF CallType
<1>5. \A c \in CallType : [call EXCEPT ![p] = c] \in [MemSlots -> CallType]
  BY <1>1
<1>6. ASSUME NEW l \in Points
      PROVE  [call EXCEPT ![p].at = l] \in [MemSlots -> CallType]
  <2>1. [call EXCEPT ![p].at = l] = [call EXCEPT ![p] = [call[p] EXCEPT !.at = l]]
    OBVIOUS
  <2> QED
    BY <2>1, <1>4, <1>5
<1>7. Work(p) \in MemType /\ Work(p) = mem[Slot(p)]
  BY <1>1, <1>3 DEF Work
<1>8. \A m \in MemType : [mem EXCEPT ![Slot(p)] = m] \in [MemSlots -> MemType]
  BY <1>1, <1>3
<1> QED
  BY <1>2, <1>3, <1>5, <1>6, <1>7, <1>8

(* Every step keeps the types.                                              *)
LEMMA MemTypeStep ==
  ASSUME MemoryAssumption, MemInv, [MemNext]_memVars
  PROVE  Types'
<1> DEFINE Use == [MemSlots -> {"UNUSED", "USED", "ZOMBIE"}]
           Mem == [MemSlots -> MemType]
           Calls == [MemSlots -> CallType]
<1>1. CASE UNCHANGED memVars
  BY <1>1 DEF MemInv, Types, memVars
<1>2. Types /\ avail \in Int /\ use \in Use /\ mem \in Mem /\ call \in Calls
  BY DEF MemInv, Types
<1>3. Empty \in MemType
  BY DEF MemType, Empty, AllTables
<1>4. User \in CallType
  BY DEF CallType, User, Points, MemoryAssumption, MemSlots
<1>5. /\ "root" \in Points /\ "trampoline" \in Points /\ "trapmap" \in Points
      /\ "page" \in Points /\ "map" \in Points /\ "undo" \in Points
  BY DEF Points
<1>6. ASSUME avail' \in Int, use' \in Use, mem' \in Mem, call' \in Calls
      PROVE  Types'
  BY <1>6 DEF Types
<1>7. ASSUME NEW p \in MemSlots,
             Fork(p) \/ Trapframe(p) \/ Root(p) \/ Trampoline(p) \/ TrapMap(p)
      PROVE  Types'
  <2>1. /\ Slot(p) \in MemSlots /\ Work(p) \in MemType
        /\ Work(p) = mem[Slot(p)]
        /\ \A m \in MemType : [mem EXCEPT ![Slot(p)] = m] \in Mem
        /\ \A c \in CallType : [call EXCEPT ![p] = c] \in Calls
        /\ \A l \in Points : [call EXCEPT ![p].at = l] \in Calls
    BY <1>2, Writes
  <2>2. /\ Work(p).tables \in 0 .. AllTables
        /\ [Work(p) EXCEPT !.trapframe = 1] \in MemType
        /\ Work(p).tables < AllTables => OneTableMore(Work(p)) \in MemType
        /\ [Work(p) EXCEPT !.top = {"TRAMPOLINE"}] \in MemType
        /\ [Work(p) EXCEPT !.top = Top] \in MemType
        /\ TableFreed(Work(p)) \in MemType
    BY <2>1, MemFields
  <2>3. ASSUME NEW m \in MemType, Gets(p, m) PROVE avail' \in Int /\ mem' \in Mem
    BY <1>2, <2>1, <2>3 DEF Gets
  <2>4. ASSUME NEW l \in Points, GotoCall(p, l) PROVE call' \in Calls
    BY <2>1, <2>4 DEF GotoCall
  <2>5. ASSUME GivesUp(p) PROVE avail' \in Int /\ mem' \in Mem /\ call' \in Calls
    <3>1. avail' = avail + Work(p).tables /\ GotoCall(p, "undo")
      BY <2>5 DEF GivesUp
    <3>2. mem' = [mem EXCEPT ![Slot(p)] = TableFreed(Work(p))]
      BY <2>1, <2>5 DEF GivesUp
    <3>3. avail' \in Int
      BY <3>1, <2>2, <1>2 DEF AllTables
    <3> QED
      BY <3>1, <3>2, <3>3, <2>1, <2>2, <2>4, <1>5
  <2> HIDE DEF Use, Mem, Calls
  <2>6. CASE Fork(p)
    <3>1. PICK s \in MemSlots :
              call' = [call EXCEPT ![p] =
                  [at |-> "trapframe", np |-> s, goal |-> mem[p].sz, hand |-> 0]]
      BY <2>6 DEF Fork
    <3>2. mem[p].sz \in Nat
      BY <1>2, MemFields DEF Mem
    <3>3. [at |-> "trapframe", np |-> s, goal |-> mem[p].sz, hand |-> 0] \in CallType
      BY <3>2 DEF CallType, Points
    <3>4. call' \in Calls /\ avail' = avail /\ use' = use /\ mem' = mem
      BY <2>6, <3>1, <3>3, <2>1 DEF Fork
    <3> QED
      BY <3>4, <1>2, <1>6
  <2>7. CASE Trapframe(p)
    BY <2>7, <1>2, <1>4, <1>5, <1>6, <2>1, <2>2, <2>3, <2>4 DEF Trapframe
  <2>8. CASE Root(p)
    <3>1. Work(p).tables < AllTables
      BY <2>8
         DEF Root, MemInv, CallInv, InFork, InSbrk, AtCall, Shape, AllTables
    <3> QED
      BY <2>8, <3>1, <1>2, <1>5, <1>6, <2>2, <2>3, <2>4 DEF Root
  <2>9. CASE Trampoline(p)
    <3>1. Work(p).tables < TopTables => Work(p).tables < AllTables
      BY <2>2 DEF TopTables, AllTables
    <3>2. [mem EXCEPT ![Slot(p)].top = {"TRAMPOLINE"}] \in Mem
      BY <2>1, <2>2
    <3>3. mem' \in Mem /\ avail' \in Int
      BY <2>9, <3>1, <3>2, <1>2, <2>2, <2>3, <2>5 DEF Trampoline
    <3>4. call' \in Calls /\ use' \in Use
      BY <2>9, <1>2, <1>5, <2>4, <2>5 DEF Trampoline
    <3> QED
      BY <3>3, <3>4, <1>6
  <2>10. CASE TrapMap(p)
    <3>1. [mem EXCEPT ![Slot(p)].top = Top] \in Mem
      BY <2>1, <2>2
    <3> QED
      BY <2>10, <3>1, <1>2, <1>5, <1>6, <2>4, <2>5 DEF TrapMap
  <2> QED
    BY <1>7, <2>6, <2>7, <2>8, <2>9, <2>10
<1>8. ASSUME NEW p \in MemSlots,
             Page(p) \/ Map(p) \/ NoPage(p) \/ Done(p) \/ Undo(p) \/ Exit(p)
      PROVE  Types'
  <2>1. /\ Slot(p) \in MemSlots /\ Work(p) \in MemType
        /\ Work(p) = mem[Slot(p)]
        /\ call[p] \in CallType
        /\ \A m \in MemType : [mem EXCEPT ![Slot(p)] = m] \in Mem
        /\ \A c \in CallType : [call EXCEPT ![p] = c] \in Calls
    BY <1>2, Writes
  <2>2. /\ Work(p).trapframe \in {0, 1} /\ Work(p).tables \in 0 .. AllTables
        /\ Work(p).image \in Nat /\ Work(p).sz \in Nat
        /\ Work(p).tables < AllTables => OneTableMore(Work(p)) \in MemType
    BY <2>1, MemFields
  <2>3. /\ call[p].goal \in Nat /\ call[p].hand \in {0, 1}
        /\ \A l \in Points, x \in {0, 1} : Holds(call[p], l, x) \in CallType
    BY <2>1, CallFields
  <2>4. ASSUME NEW x \in Nat
        PROVE  /\ [mem EXCEPT ![Slot(p)] = Mapped(@, x)] \in Mem
               /\ [mem EXCEPT ![Slot(p)] = Sized(@, x)] \in Mem
    <3>1. Mapped(Work(p), x) \in MemType /\ Sized(Work(p), x) \in MemType
      BY <2>1, SizeFields
    <3> QED
      BY <2>1, <3>1
  <2>5. ASSUME NEW l \in Points, NEW x \in {0, 1}
        PROVE  [call EXCEPT ![p] = Holds(@, l, x)] \in Calls
    BY <2>1, <2>3
  <2> HIDE DEF Use, Mem, Calls
  <2>6. CASE Page(p)
    <3>1. [call EXCEPT ![p] = Holds(@, "map", 1)] \in Calls
      BY <1>5, <2>5
    <3>2. avail' \in Int /\ use' \in Use /\ mem' \in Mem
      BY <2>6, <1>2 DEF Page
    <3> QED
      BY <2>6, <3>1, <3>2, <1>6 DEF Page
  <2>7. CASE Map(p)
    <3>1. CASE Work(p).tables < AllTables /\ Gets(p, OneTableMore(Work(p))) /\ UNCHANGED call
      <4>1. OneTableMore(Work(p)) \in MemType
        BY <3>1, <2>2
      <4>2. mem' \in Mem
        BY <3>1, <4>1, <2>1 DEF Gets
      <4>3. avail' \in Int /\ use' \in Use /\ call' \in Calls
        BY <2>7, <3>1, <1>2 DEF Map, Gets
      <4> QED
        BY <4>2, <4>3, <1>6
    <3>2. CASE /\ mem' = [mem EXCEPT ![Slot(p)] = Mapped(@, @.image + 1)]
               /\ call' = [call EXCEPT ![p] = Holds(@, "page", 0)]
               /\ UNCHANGED avail
      <4>1. mem' = [mem EXCEPT ![Slot(p)] = Mapped(@, Work(p).image + 1)]
        BY <3>2, <2>1
      <4>2. Work(p).image + 1 \in Nat
        BY <2>2
      <4>3. mem' \in Mem
        BY <4>1, <4>2, <2>4
      <4> QED
        BY <2>7, <3>2, <4>3, <1>2, <1>5, <1>6, <2>5 DEF Map
    <3> QED
      BY <2>7, <3>1, <3>2 DEF Map
  <2>8. CASE NoPage(p)
    <3>1. avail' \in Int
      BY <2>8, <1>2, <2>2, <2>3 DEF NoPage
    <3>2. mem' \in Mem /\ use' \in Use
      <4>1. /\ mem' = [mem EXCEPT ![Slot(p)] = Mapped(@, Work(p).sz)]
            /\ use' = use
        BY <2>8, <2>1 DEF NoPage
      <4> QED
        BY <4>1, <1>2, <2>2, <2>4
    <3>3. call' \in Calls
      <4>1. CASE Slot(p) = p
        BY <2>8, <4>1, <1>4, <2>1 DEF NoPage
      <4>2. CASE Slot(p) # p
        <5>1. call' = [call EXCEPT ![p] = Holds(@, "undo", 0)]
          BY <2>8, <4>2 DEF NoPage
        <5> QED
          BY <5>1, <1>5, <2>5
      <4> QED
        BY <4>1, <4>2
    <3> QED
      BY <3>1, <3>2, <3>3, <1>6
  <2>9. CASE Done(p)
    <3>1. mem' \in Mem
      BY <2>9, <2>3, <2>4 DEF Done
    <3>2. call' \in Calls /\ avail' \in Int
      BY <2>9, <1>2, <1>4, <2>1 DEF Done
    <3>3. use' \in Use
      BY <2>9, <1>2, <2>1 DEF Done, Use
    <3> QED
      BY <3>1, <3>2, <3>3, <1>6
  <2>10. CASE Undo(p)
    <3>1. Freed(Work(p)) \in Int
      BY <2>2 DEF Freed, AllTables
    <3>2. mem' \in Mem /\ call' \in Calls
      BY <2>10, <1>3, <1>4, <2>1 DEF Undo, FreeProc, Cleared
    <3>3. avail' \in Int /\ use' \in Use
      BY <2>10, <3>1, <1>2, <2>1 DEF Undo, FreeProc, Use
    <3> QED
      BY <3>2, <3>3, <1>6
  <2>11. CASE Exit(p)
    <3>1. use' \in Use
      BY <2>11, <1>2 DEF Exit, Use
    <3> QED
      BY <2>11, <3>1, <1>2, <1>6 DEF Exit
  <2> QED
    BY <1>8, <2>6, <2>7, <2>8, <2>9, <2>10, <2>11
<1>9. ASSUME NEW p \in MemSlots, NEW d \in Deltas, Grow(p, d) \/ Shrink(p, d)
      PROVE  Types'
  <2>1. mem[p] \in MemType /\ mem[p].sz \in Nat
    BY <1>2, MemFields
  <2>2. d \in Int
    BY DEF MemoryAssumption
  <2>3. NewSize(p, d) \in Nat
    BY <2>1, <2>2 DEF NewSize, MemoryAssumption
  <2>4. CASE Grow(p, d)
    <3>1. [at |-> "page", np |-> p, goal |-> NewSize(p, d), hand |-> 0] \in CallType
      BY <2>3 DEF CallType, Points
    <3> QED
      BY <2>4, <3>1, <1>2, <1>6 DEF Grow
  <2>5. CASE Shrink(p, d)
    <3>1. Sized(Mapped(mem[p], NewSize(p, d)), NewSize(p, d)) \in MemType
      BY <2>1, <2>3, SizeFields
    <3>2. mem' \in Mem
      BY <2>5, <3>1, <1>2 DEF Shrink
    <3> QED
      BY <2>1, <2>3, <2>5, <3>2, <1>2, <1>6 DEF Shrink
  <2> QED
    BY <1>9, <2>4, <2>5
<1>10. ASSUME NEW p \in MemSlots, NEW s \in MemSlots, Wait(p, s)
       PROVE  Types'
  <2>1. mem[s] \in MemType
    BY <1>2
  <2>2. /\ mem[s].trapframe \in {0, 1} /\ mem[s].tables \in 0 .. AllTables
        /\ mem[s].sz \in Nat
    BY <2>1, MemFields
  <2>3. Freed(mem[s]) \in Int
    BY <2>2 DEF Freed, AllTables
  <2>4. mem' \in Mem /\ use' \in Use
    BY <1>2, <1>3, <1>10 DEF Wait, FreeProc, Cleared
  <2> QED
    BY <2>3, <2>4, <1>2, <1>6, <1>10 DEF Wait, FreeProc
<1> QED
  BY <1>1, <1>7, <1>8, <1>9, <1>10 DEF MemNext

-----------------------------------------------------------------------------
(* The steps on the way through fork() and sbrk().                         *)
LEMMA FillStep ==
  ASSUME MemInv, Types', NEW p \in MemSlots,
         \/ Root(p) \/ Trampoline(p) \/ TrapMap(p) \/ Page(p) \/ Map(p)
         \/ Trapframe(p) /\ avail > 0
         \/ NoPage(p) /\ Slot(p) # p
  PROVE  MemInv'
<1> DEFINE w == Work(p)
<1>1. ~AtCall(p, "user") /\ use' = use
  BY DEF Root, Trampoline, TrapMap, Page, Map, Trapframe, NoPage, AtCall
<1>2. InSbrk(p) => call[p].at \in {"page", "map"} /\ Tabled(w)
  BY DEF MemInv, CallInv, InSbrk, Work
<1>3. InFork(p) => Shape(call[p].at, w)
  BY DEF MemInv, CallInv
<1>4. /\ Slot(p) \in MemSlots /\ w \in MemType /\ w = mem[Slot(p)]
      /\ call[p] \in CallType
      /\ w.tables \in 0 .. AllTables /\ w.image \in Nat
      /\ mem \in [MemSlots -> MemType] /\ call \in [MemSlots -> CallType]
  BY Writes, MemFields DEF MemInv, Types
<1>5. ASSUME NEW m, mem' = [mem EXCEPT ![Slot(p)] = m],
             NEW c, call' = [call EXCEPT ![p] = c], c.at # "user", c.np = Slot(p),
             InSbrk(p) => c.at \in {"page", "map"} /\ Tabled(m),
             InFork(p) => Shape(c.at, m)
      PROVE  MemInv'
  BY <1>1, <1>5, GoesOn
<1>6. ASSUME NEW l \in Points \ {"user"}, GotoCall(p, l),
             NEW m, mem' = [mem EXCEPT ![Slot(p)] = m],
             InSbrk(p) => l \in {"page", "map"} /\ Tabled(m),
             InFork(p) => Shape(l, m)
      PROVE  MemInv'
  <2> DEFINE c == [call[p] EXCEPT !.at = l]
  <2>1. call' = [call EXCEPT ![p] = c]
    BY <1>6 DEF GotoCall
  <2>2. c.at = l /\ c.np = Slot(p)
    BY <1>4 DEF CallType, Slot
  <2> HIDE DEF c
  <2> QED
    BY <1>5, <1>6, <2>1, <2>2
<1>7. ASSUME NEW l \in Points \ {"user"}, NEW n \in {0, 1},
             call' = [call EXCEPT ![p] = Holds(@, l, n)],
             NEW m, mem' = [mem EXCEPT ![Slot(p)] = m],
             InSbrk(p) => l \in {"page", "map"} /\ Tabled(m),
             InFork(p) => Shape(l, m)
      PROVE  MemInv'
  <2> DEFINE c == Holds(call[p], l, n)
  <2>1. call' = [call EXCEPT ![p] = c]
    BY <1>7
  <2>2. c.at = l /\ c.np = Slot(p)
    BY <1>4 DEF CallType, Slot, Holds
  <2> HIDE DEF c
  <2> QED
    BY <1>5, <1>7, <2>1, <2>2
<1>8. ASSUME call' = call, ~AtCall(p, "user"),
             NEW m, mem' = [mem EXCEPT ![Slot(p)] = m],
             InSbrk(p) => Tabled(m),
             InFork(p) => Shape(call[p].at, m)
      PROVE  MemInv'
  <2>1. call' = [call EXCEPT ![p] = call[p]]
    BY <1>4, <1>8
  <2>2. call[p].at # "user" /\ call[p].np = Slot(p)
    BY <1>8 DEF AtCall, Slot
  <2> QED
    BY <1>2, <1>5, <1>8, <2>1, <2>2
<1>9. mem = [mem EXCEPT ![Slot(p)] = w]
  BY <1>4
<1>10. /\ "root" \in Points \ {"user"} /\ "trampoline" \in Points \ {"user"}
       /\ "trapmap" \in Points \ {"user"} /\ "page" \in Points \ {"user"}
       /\ "map" \in Points \ {"user"} /\ "undo" \in Points \ {"user"}
  BY DEF Points
<1>11. OneTableMore(w).tables = w.tables + 1
       /\ OneTableMore(w).top = w.top /\ OneTableMore(w).image = w.image
       /\ OneTableMore(w).sz = w.sz
  BY <1>4 DEF OneTableMore, MemType
<1>12. \A l \in {"root", "trampoline", "trapmap", "undo", "trapframe"} :
           AtCall(p, l) => ~InSbrk(p)
  BY <1>2 DEF AtCall
<1>13. ASSUME NEW x \in Nat
       PROVE  /\ Mapped(w, x).image = x /\ Mapped(w, x).tables = w.tables
              /\ Mapped(w, x).top = w.top /\ Mapped(w, x).sz = w.sz
  BY <1>4 DEF Mapped, MemType
<1>14. CASE Root(p)
  <2>1. AtCall(p, "root") /\ ~InSbrk(p)
    BY <1>12, <1>14 DEF Root
  <2>2. CASE Gets(p, OneTableMore(w)) /\ GotoCall(p, "trampoline")
    <3>1. InFork(p) => Shape("trampoline", OneTableMore(w))
      BY <2>1, <1>3, <1>11 DEF Shape, AtCall, TopTables
    <3> QED
      BY <2>1, <2>2, <3>1, <1>6, <1>10 DEF Gets
  <2>3. CASE GotoCall(p, "undo") /\ mem' = mem
    <3>1. InFork(p) => Shape("undo", w)
      BY <2>1, <1>3 DEF Shape, AtCall
    <3> QED
      BY <2>1, <2>3, <3>1, <1>6, <1>9, <1>10
  <2> QED
    BY <1>14, <2>2, <2>3 DEF Root
<1>15. ASSUME GivesUp(p), AtCall(p, "trampoline") \/ AtCall(p, "trapmap")
       PROVE  MemInv'
  <2>1. ~InSbrk(p)
    BY <1>12, <1>15
  <2>2. TableFreed(w).tables = 0 /\ TableFreed(w).top = {}
        /\ TableFreed(w).image = w.image /\ TableFreed(w).sz = w.sz
    BY <1>4 DEF TableFreed, MemType
  <2>3. InFork(p) => Shape("undo", TableFreed(w))
    BY <2>2, <1>3, <1>15 DEF Shape, AtCall
  <2>4. mem' = [mem EXCEPT ![Slot(p)] = TableFreed(w)]
    BY <1>4, <1>15 DEF GivesUp
  <2> QED
    BY <2>1, <2>3, <2>4, <1>6, <1>10, <1>15 DEF GivesUp
<1>16. CASE Trampoline(p)
  <2>1. AtCall(p, "trampoline") /\ ~InSbrk(p)
    BY <1>12, <1>16 DEF Trampoline
  <2>2. CASE w.tables < TopTables /\ Gets(p, OneTableMore(w)) /\ UNCHANGED call
    <3>1. InFork(p) => Shape(call[p].at, OneTableMore(w))
      BY <2>1, <2>2, <1>3, <1>4, <1>11 DEF Shape, AtCall, TopTables
    <3> QED
      BY <2>1, <2>2, <3>1, <1>1, <1>8 DEF Gets
  <2>3. CASE /\ w.tables = TopTables
             /\ mem' = [mem EXCEPT ![Slot(p)].top = {"TRAMPOLINE"}]
             /\ GotoCall(p, "trapmap")
    <3> DEFINE m == [w EXCEPT !.top = {"TRAMPOLINE"}]
    <3>1. /\ m.tables = w.tables
          /\ m.top = {"TRAMPOLINE"}
          /\ m.image = w.image
          /\ m.sz = w.sz
      BY <1>4 DEF MemType
    <3>2. mem' = [mem EXCEPT ![Slot(p)] = m]
      BY <2>3, <1>4
    <3> HIDE DEF m
    <3>3. InFork(p) => Shape("trapmap", m)
      BY <2>1, <2>3, <3>1, <1>3 DEF Shape, AtCall
    <3> QED
      BY <2>1, <2>3, <3>2, <3>3, <1>6, <1>10
  <2> QED
    BY <1>15, <1>16, <2>1, <2>2, <2>3 DEF Trampoline
<1>17. CASE TrapMap(p)
  <2>1. AtCall(p, "trapmap") /\ ~InSbrk(p)
    BY <1>12, <1>17 DEF TrapMap
  <2>2. CASE mem' = [mem EXCEPT ![Slot(p)].top = Top] /\ GotoCall(p, "page")
    <3> DEFINE m == [w EXCEPT !.top = Top]
    <3>1. /\ m.tables = w.tables
          /\ m.top = Top
          /\ m.image = w.image
          /\ m.sz = w.sz
      BY <1>4 DEF MemType
    <3>2. mem' = [mem EXCEPT ![Slot(p)] = m]
      BY <2>2, <1>4
    <3> HIDE DEF m
    <3>3. InFork(p) => Shape("page", m)
      BY <2>1, <3>1, <1>3 DEF Shape, AtCall, Tabled, TopTables, AllTables
    <3> QED
      BY <2>1, <2>2, <3>2, <3>3, <1>6, <1>10
  <2> QED
    BY <1>15, <1>17, <2>1, <2>2 DEF TrapMap
<1>18. CASE Page(p)
  <2>1. InFork(p) => Shape("map", w)
    BY <1>3, <1>18 DEF Page, Shape, AtCall
  <2> QED
    BY <2>1, <1>2, <1>7, <1>9, <1>10, <1>18 DEF Page
<1>19. CASE Map(p)
  <2>1. CASE w.tables < AllTables /\ Gets(p, OneTableMore(w)) /\ UNCHANGED call
    <3>1. Tabled(w) => Tabled(OneTableMore(w))
      BY <2>1, <1>4, <1>11 DEF Tabled, TopTables, AllTables
    <3>2. InFork(p) => Shape(call[p].at, OneTableMore(w))
      BY <3>1, <1>3, <1>11, <1>19 DEF Map, Shape, AtCall
    <3> QED
      BY <2>1, <3>1, <3>2, <1>1, <1>2, <1>8 DEF Gets
  <2>2. CASE /\ mem' = [mem EXCEPT ![Slot(p)] = Mapped(@, @.image + 1)]
             /\ call' = [call EXCEPT ![p] = Holds(@, "page", 0)]
    <3> DEFINE m == Mapped(w, w.image + 1)
    <3>1. m.tables = w.tables /\ m.top = w.top /\ m.sz = w.sz
      BY <1>4, <1>13
    <3>2. mem' = [mem EXCEPT ![Slot(p)] = m]
      BY <2>2, <1>4
    <3> HIDE DEF m
    <3>3. Tabled(w) => Tabled(m)
      BY <3>1 DEF Tabled
    <3>4. InFork(p) => Shape("page", m)
      BY <3>1, <3>3, <1>3, <1>19 DEF Map, Shape, AtCall
    <3> QED
      BY <2>2, <3>2, <3>3, <3>4, <1>2, <1>7, <1>10
  <2> QED
    BY <1>19, <2>1, <2>2 DEF Map
<1>20. CASE Trapframe(p) /\ avail > 0
  <2>1. AtCall(p, "trapframe") /\ ~InSbrk(p)
    BY <1>12, <1>20 DEF Trapframe
  <2>2. InFork(p) => Shape("root", [w EXCEPT !.trapframe = 1])
    BY <2>1, <1>3 DEF Shape, AtCall, Empty
  <2> QED
    BY <2>1, <2>2, <1>6, <1>10, <1>20 DEF Trapframe, Gets
<1>21. CASE NoPage(p) /\ Slot(p) # p
  <2> DEFINE m == Mapped(w, w.sz)
  <2>1. InFork(p) /\ ~InSbrk(p) /\ w.sz = 0 /\ Tabled(w)
    BY <1>1, <1>3, <1>21 DEF NoPage, InFork, InSbrk, Shape, AtCall
  <2>2. m.tables = w.tables /\ m.top = w.top /\ m.sz = w.sz /\ m.image = w.sz
    BY <2>1, <1>13
  <2>3. /\ mem' = [mem EXCEPT ![Slot(p)] = m]
        /\ call' = [call EXCEPT ![p] = Holds(@, "undo", 0)]
    BY <1>4, <1>21 DEF NoPage
  <2> HIDE DEF m
  <2>4. Shape("undo", m)
    BY <2>1, <2>2 DEF Shape, Tabled
  <2> QED
    BY <2>1, <2>3, <2>4, <1>7, <1>10
<1> QED
  BY <1>14, <1>16, <1>17, <1>18, <1>19, <1>20, <1>21

(* The end of a call, or of a process: which slots are worked on.          *)
LEMMA UserStep ==
  ASSUME MemoryAssumption, MemInv, Types', NEW p \in MemSlots,
         \/ Fork(p) \/ Done(p) \/ Undo(p) \/ Exit(p)
         \/ Trapframe(p) /\ avail = 0
         \/ NoPage(p) /\ Slot(p) = p
         \/ \E d \in Deltas : Grow(p, d) \/ Shrink(p, d)
         \/ \E s \in MemSlots : Wait(p, s)
  PROVE  MemInv'
<1> USE DEF MemInv, Types, MemType, CallType, Points, AtCall, GotoCall, InFork, InSbrk, Slot, Work, CallInv
<1>1. CASE Fork(p)
  <2>1. PICK s \in MemSlots \ Taken :
            /\ use[s] = "UNUSED"
            /\ call' = [call EXCEPT ![p] =
                   [at |-> "trapframe", np |-> s, goal |-> mem[p].sz, hand |-> 0]]
    BY <1>1 DEF Fork
  <2>2. /\ s # p
        /\ use[p] = "USED"
        /\ use' = use
        /\ mem' = mem
        /\ call[p].at = "user"
    BY <1>1, <2>1 DEF Fork, InUser
  <2>3. \A q \in MemSlots : call[q].at # "user" => call[q].np # s
    BY <2>1 DEF Taken
  <2>4. mem[s] = Empty
    BY <2>1, <2>3 DEF SlotInv
  <2>5. CallInv'
    BY <2>1, <2>2, <2>4 DEF Shape, Empty
  <2>6. Apart'
    BY <2>1, <2>2, <2>3 DEF Apart
  <2>7. SlotInv'
    BY <2>1, <2>2, <2>4 DEF SlotInv
  <2> QED
    BY <2>5, <2>6, <2>7
<1>2. CASE Trapframe(p) /\ avail = 0
  <2>1. use' = use /\ mem' = mem /\ call' = [call EXCEPT ![p] = User]
    BY <1>2 DEF Trapframe, Gets, OneTableMore
  <2>2. InFork(p) /\ mem[Slot(p)] = Empty
    BY <1>2 DEF Trapframe, Shape
  <2>3. CallInv' /\ Apart'
    BY <2>1 DEF Apart, User
  <2>4. SlotInv'
    BY <2>1, <2>2 DEF SlotInv, User
  <2> QED
    BY <2>3, <2>4
<1>3. CASE NoPage(p) /\ Slot(p) = p
  <2>1. /\ use' = use /\ call' = [call EXCEPT ![p] = User] /\ InSbrk(p)
        /\ mem' = [mem EXCEPT ![p] = Mapped(@, @.sz)]
    BY <1>3 DEF NoPage
  <2>2. use[p] = "USED" /\ Whole(mem'[p])
    BY <2>1 DEF Whole, Tabled, Mapped
  <2>3. \A q \in MemSlots : q # p /\ call[q].at # "user" => call[q].np # p
    BY <2>2
  <2>4. CallInv' /\ Apart'
    BY <2>1, <2>3 DEF Apart, User
  <2>5. SlotInv'
    BY <2>1, <2>2, <2>3 DEF SlotInv, User
  <2> QED
    BY <2>4, <2>5
<1>4. CASE Done(p)
  <2>1. /\ mem' = [mem EXCEPT ![Slot(p)] = Sized(@, call[p].goal)]
        /\ use' = [use EXCEPT ![Slot(p)] = "USED"]
        /\ call' = [call EXCEPT ![p] = User] /\ call[p].at = "page"
        /\ mem[Slot(p)].image = call[p].goal
    BY <1>4 DEF Done
  <2>2. Whole(mem'[Slot(p)])
    BY <2>1, SMTT(30) DEF Whole, Tabled, Shape, Sized
  <2>3. \A q \in MemSlots : q # p /\ call[q].at # "user" => call[q].np # Slot(p)
    <3>1. CASE Slot(p) = p
      <4>1. use[p] = "USED"
        BY <2>1
      <4> QED
        BY <3>1, <4>1
    <3>2. CASE Slot(p) # p
      <4>1. InFork(p) /\ use[Slot(p)] = "UNUSED"
        BY <2>1, <3>2
      <4>2. \A q \in MemSlots : call[q].at # "user" => use[q] = "USED"
        OBVIOUS
      <4> QED
        BY <4>1, <4>2 DEF Apart
    <3> QED
      BY <3>1, <3>2
  <2>4. use[p] = "USED" /\ call'[Slot(p)].at = "user"
    BY <2>1 DEF User
  <2>5. CallInv' /\ Apart'
    BY <2>1, <2>3, <2>4 DEF Apart, User
  <2>6. SlotInv'
    BY <2>1, <2>2, <2>3, <2>4 DEF SlotInv, User
  <2> QED
    BY <2>5, <2>6
<1>5. CASE Undo(p)
  <2>1. /\ mem' = [mem EXCEPT ![Slot(p)] = Empty]
        /\ use' = [use EXCEPT ![Slot(p)] = "UNUSED"]
        /\ call' = [call EXCEPT ![p] = User] /\ call[p].at = "undo"
    BY <1>5 DEF Undo, FreeProc, Cleared
  <2>2. InFork(p) /\ use' = use
    BY <2>1
  <2>3. \A q \in MemSlots : q # p /\ call[q].at # "user" => call[q].np # Slot(p)
    BY <2>2 DEF Apart
  <2>4. CallInv' /\ Apart'
    BY <2>1, <2>2, <2>3 DEF Apart, User
  <2>5. SlotInv'
    BY <2>1, <2>2, <2>3 DEF SlotInv, User
  <2> QED
    BY <2>4, <2>5
<1>6. CASE Exit(p)
  <2>1. /\ use' = [use EXCEPT ![p] = "ZOMBIE"] /\ mem' = mem /\ call' = call
        /\ use[p] = "USED" /\ call[p].at = "user"
    BY <1>6 DEF Exit, InUser
  <2>2. \A q \in MemSlots : call[q].at # "user" => call[q].np # p
    BY <2>1
  <2>3. CallInv' /\ Apart'
    BY <2>1, <2>2 DEF Apart
  <2>4. SlotInv'
    BY <2>1, <2>2 DEF SlotInv
  <2> QED
    BY <2>3, <2>4
<1>7. ASSUME NEW d \in Deltas, Grow(p, d) PROVE MemInv'
  <2>1. /\ use' = use /\ mem' = mem /\ use[p] = "USED" /\ call[p].at = "user"
        /\ call' = [call EXCEPT ![p] =
               [at |-> "page", np |-> p, goal |-> NewSize(p, d), hand |-> 0]]
    BY <1>7 DEF Grow, InUser
  <2>2. Tabled(mem[p])
    BY <2>1 DEF SlotInv, Whole
  <2>3. CallInv' /\ Apart'
    BY <2>1, <2>2 DEF Apart
  <2>4. SlotInv'
    BY <2>1 DEF SlotInv
  <2> QED
    BY <2>3, <2>4
<1>8. ASSUME NEW d \in Deltas, Shrink(p, d) PROVE MemInv'
  <2>1. /\ use' = use /\ call' = call /\ use[p] = "USED"
        /\ call[p].at = "user"
        /\ mem' = [mem EXCEPT ![p] = Sized(Mapped(@, NewSize(p, d)), NewSize(p, d))]
    BY <1>8 DEF Shrink, InUser
  <2>2. Whole(mem'[p])
    BY <2>1 DEF SlotInv, Whole, Tabled, Mapped, Sized
  <2>3. \A q \in MemSlots : call[q].at # "user" => call[q].np # p
    BY <2>1
  <2>4. CallInv' /\ Apart'
    BY <2>1, <2>3 DEF Apart
  <2>5. SlotInv'
    BY <2>1, <2>2 DEF SlotInv
  <2> QED
    BY <2>4, <2>5
<1>9. ASSUME NEW s \in MemSlots, Wait(p, s) PROVE MemInv'
  <2>1. /\ mem' = [mem EXCEPT ![s] = Empty] /\ call' = call
        /\ use' = [use EXCEPT ![s] = "UNUSED"] /\ use[s] = "ZOMBIE"
    BY <1>9 DEF Wait, FreeProc, Cleared
  <2>2. /\ call[s].at = "user"
        /\ \A q \in MemSlots : call[q].at # "user" => call[q].np # s
    BY <2>1
  <2>3. CallInv' /\ Apart'
    BY <2>1, <2>2 DEF Apart
  <2>4. SlotInv'
    BY <2>1, <2>2 DEF SlotInv
  <2> QED
    BY <2>3, <2>4
<1> QED
  BY <1>1, <1>2, <1>3, <1>4, <1>5, <1>6, <1>7, <1>8, <1>9

(* Every step keeps the invariant.                                          *)
LEMMA MemInvStep ==
  ASSUME MemoryAssumption PROVE MemInv /\ [MemNext]_memVars => MemInv'
<1> SUFFICES ASSUME MemInv, [MemNext]_memVars PROVE MemInv'
  OBVIOUS
<1>1. Types'
  BY MemTypeStep
<1>2. CASE UNCHANGED memVars
  BY <1>1, <1>2
     DEF memVars, MemInv, Types, CallInv, Apart, SlotInv, InSbrk, InFork,
         AtCall, Slot, Work
<1>3. ASSUME NEW p \in MemSlots, Trapframe(p)
      PROVE  avail > 0 \/ avail = 0
  BY <1>3 DEF Trapframe, Gets, OneTableMore
<1> QED
  BY <1>1, <1>2, <1>3, FillStep, UserStep DEF MemNext

(* vm.c does not panic: whatever allocation of fork() or sbrk() fails, in  *)
(* whatever order the processes take and give back their pages, a table is *)
(* freed without mappings in it, and what freeproc() frees by p->sz is     *)
(* what is mapped.                                                         *)
THEOREM NothingFreedWrong ==
  ASSUME MemoryAssumption PROVE MemSpec => []FreesWhatIsMapped
BY MemInvInit, MemInvStep, MemInvSafe, PTL DEF MemSpec

(* A free slot on which no process works owns no page and maps nothing.    *)
THEOREM NothingLeft ==
  ASSUME MemoryAssumption PROVE MemSpec => []FreeSlotsEmpty
<1>1. MemInv => FreeSlotsEmpty
  BY DEF MemInv, SlotInv, InFork, Taken, FreeSlotsEmpty
<1> QED
  BY <1>1, MemInvInit, MemInvStep, PTL DEF MemSpec

-----------------------------------------------------------------------------
(* The pages add up.  A process has a page in its hand between the         *)
(* allocation and the mapping of a user page, and only then; and what is   *)
(* mapped is never less than p->sz, to which a failed sbrk() goes back.    *)
OwnedPages == SumOf([s \in MemSlots |-> Owned(mem[s])])
PagesInHand == SumOf([p \in MemSlots |-> call[p].hand])

AddUp == avail >= 0 /\ avail + OwnedPages + PagesInHand = Booted + Owned(InitCode)

(* An image is at least what sz says, and no size wraps.                    *)
Within ==
    \A s \in MemSlots :
        /\ call[s].hand = IF call[s].at = "map" THEN 1 ELSE 0
        /\ call[s].goal < SizeWrap
        /\ mem[s].sz < SizeWrap /\ mem[s].sz <= mem[s].image

PagesInv == MemInv /\ AddUp /\ Within

(* What a slot owns is a number of pages.                                  *)
LEMMA OwnedNat == ASSUME NEW m \in MemType PROVE Owned(m) \in Nat
BY DEF MemType, Owned, AllTables

(* What the slots own and the calls hold are numbers of pages.              *)
LEMMA PagesNat ==
  ASSUME MemoryAssumption, Types PROVE OwnedPages \in Nat /\ PagesInHand \in Nat
<1> DEFINE f == [s \in MemSlots |-> Owned(mem[s])]
           h == [p \in MemSlots |-> call[p].hand]
<1>1. IsFiniteSet(MemSlots)
  BY FS_Interval DEF MemoryAssumption, MemSlots
<1>2. f \in [MemSlots -> Nat] /\ h \in [MemSlots -> Nat]
  BY OwnedNat DEF Types, CallType
<1> HIDE DEF f, h
<1>3. SumOf(f) \in Nat /\ SumOf(h) \in Nat
  BY <1>1, <1>2, UnitsFinite
<1> QED
  BY <1>3 DEF OwnedPages, PagesInHand, f, h

(* A step on one slot changes the pages owned by what this slot gains.      *)
LEMMA OwnedChanges ==
  ASSUME MemoryAssumption, Types, Types', NEW s \in MemSlots,
         \A t \in MemSlots : t # s => mem'[t] = mem[t]
  PROVE  OwnedPages' = OwnedPages + Owned(mem'[s]) - Owned(mem[s])
<1> DEFINE f == [t \in MemSlots |-> Owned(mem[t])]
           g == [t \in MemSlots |-> Owned(mem'[t])]
<1>1. IsFiniteSet(MemSlots)
  BY FS_Interval DEF MemoryAssumption, MemSlots
<1>2. f \in [MemSlots -> Nat] /\ g \in [MemSlots -> Nat]
  BY OwnedNat DEF Types
<1>3. \A t \in MemSlots : t # s => g[t] = f[t]
  OBVIOUS
<1>4. f[s] = Owned(mem[s]) /\ g[s] = Owned(mem'[s])
  OBVIOUS
<1>5. OwnedPages = SumOf(f) /\ OwnedPages' = SumOf(g)
  BY DEF OwnedPages, Owned
<1> HIDE DEF f, g
<1>6. SumOf(g) = SumOf(f) + g[s] - f[s]
  BY <1>1, <1>2, <1>3, SumChanges
<1> QED
  BY <1>4, <1>5, <1>6

(* A call that takes or gives its page changes the pages in hand by that.   *)
LEMMA HandChanges ==
  ASSUME MemoryAssumption, Types, Types', NEW p \in MemSlots,
         \A q \in MemSlots : q # p => call'[q] = call[q]
  PROVE  PagesInHand' = PagesInHand + call'[p].hand - call[p].hand
<1> DEFINE f == [q \in MemSlots |-> call[q].hand]
           g == [q \in MemSlots |-> call'[q].hand]
<1>1. IsFiniteSet(MemSlots)
  BY FS_Interval DEF MemoryAssumption, MemSlots
<1>2. f \in [MemSlots -> Nat] /\ g \in [MemSlots -> Nat]
  BY DEF Types, CallType
<1>3. \A q \in MemSlots : q # p => g[q] = f[q]
  OBVIOUS
<1>4. f[p] = call[p].hand /\ g[p] = call'[p].hand
  OBVIOUS
<1>5. PagesInHand = SumOf(f) /\ PagesInHand' = SumOf(g)
  BY DEF PagesInHand
<1> HIDE DEF f, g
<1>6. SumOf(g) = SumOf(f) + g[p] - f[p]
  BY <1>1, <1>2, <1>3, SumChanges
<1> QED
  BY <1>4, <1>5, <1>6

(* A step of p that changes the memory of the slot s.                      *)
LEMMA PagesMove ==
  ASSUME MemoryAssumption, PagesInv, MemInv', NEW p \in MemSlots, NEW s \in MemSlots,
         \A t \in MemSlots : t # s => mem'[t] = mem[t],
         \A q \in MemSlots : q # p => call'[q] = call[q],
         avail' >= 0,
         avail' + Owned(mem'[s]) + call'[p].hand = avail + Owned(mem[s]) + call[p].hand,
         call'[p].hand = IF call'[p].at = "map" THEN 1 ELSE 0,
         call'[p].goal < SizeWrap,
         mem'[s].sz < SizeWrap, mem'[s].sz <= mem'[s].image
  PROVE  PagesInv'
<1>1. Types /\ Types'
  BY DEF PagesInv, MemInv
<1>2. /\ OwnedPages \in Nat /\ PagesInHand \in Nat
      /\ OwnedPages' = OwnedPages + Owned(mem'[s]) - Owned(mem[s])
  BY <1>1, PagesNat, OwnedChanges
<1>3. PagesInHand' = PagesInHand + call'[p].hand - call[p].hand
  BY <1>1, HandChanges
<1>4. /\ avail \in Int /\ avail' \in Int
      /\ Owned(mem[s]) \in Nat /\ Owned(mem'[s]) \in Nat
      /\ call[p].hand \in {0, 1} /\ call'[p].hand \in {0, 1}
  BY <1>1, OwnedNat DEF Types, CallType
<1>5. avail + OwnedPages + PagesInHand = Booted + Owned(InitCode)
  BY DEF PagesInv, AddUp
<1>6. avail' + OwnedPages' + PagesInHand' = avail + OwnedPages + PagesInHand
  BY <1>2, <1>3, <1>4
<1>7. AddUp'
  <2>1. (Booted + Owned(InitCode))' = Booted + Owned(InitCode)
    BY DEF Booted, Owned, InitCode
  <2> QED
    BY <1>5, <1>6, <2>1 DEF AddUp
<1>8. Within'
  BY DEF PagesInv, Within
<1> QED
  BY <1>7, <1>8 DEF PagesInv

(* At the start the free pages and those of init are all there are.         *)
LEMMA PagesInit == ASSUME MemoryAssumption PROVE MemInit => PagesInv
<1> SUFFICES ASSUME MemInit PROVE PagesInv
  OBVIOUS
<1>1. MemInv /\ Types
  BY MemInvInit DEF MemInv
<1>2. 0 \in MemSlots /\ IsFiniteSet(MemSlots)
  BY FS_Interval DEF MemoryAssumption, MemSlots
<1>3. OwnedPages = Owned(InitCode)
  <2> DEFINE f == [s \in MemSlots |-> Owned(mem[s])]
  <2>1. f \in [MemSlots -> Nat]
    BY <1>1, OwnedNat DEF Types
  <2>2. f[0] = Owned(InitCode) /\ \A s \in MemSlots : s # 0 => f[s] = 0
    BY <1>2 DEF MemInit, Owned, Empty
  <2> HIDE DEF f
  <2>3. SumOf(f) = Owned(InitCode)
    BY <1>2, <2>1, <2>2, SumOfOne
  <2> QED
    BY <2>3 DEF OwnedPages, f
<1>4. PagesInHand = 0
  <2> DEFINE f == [p \in MemSlots |-> call[p].hand]
  <2>1. f \in [MemSlots -> Nat] /\ \A p \in MemSlots : f[p] = 0
    BY DEF MemInit, User
  <2> HIDE DEF f
  <2>2. SumOf(f) = 0
    BY <2>1, SumOfNone
  <2> QED
    BY <2>2 DEF PagesInHand, f
<1>5. AddUp
  <2>1. avail = Booted /\ avail >= 0 /\ Booted \in Int
    BY DEF MemInit, MemoryAssumption, Booted, Owned, InitCode, AllTables
  <2>2. Owned(InitCode) \in Nat
    BY DEF Owned, InitCode, AllTables
  <2> QED
    BY <1>3, <1>4, <2>1, <2>2 DEF AddUp
<1>6. Within
  BY
     DEF MemInit, Within, MemoryAssumption, InitCode, Empty, User, Booted,
         Owned, AllTables, MemSlots
<1> QED
  BY <1>1, <1>5, <1>6 DEF PagesInv

(* What a process can free is what it owns.                                *)
LEMMA FreedIsOwned ==
  ASSUME MemInv, NEW s \in Freeable, s \in MemSlots
  PROVE  Freed(mem[s]) = Owned(mem[s])
<1>1. /\ mem[s].tables < TopTables => mem[s].image = 0
      /\ mem[s].tables > 0 => mem[s].image = mem[s].sz
  BY MemInvSafe DEF FreesWhatIsMapped
<1>2. /\ mem[s].tables \in Nat
      /\ mem[s].image \in Nat
      /\ mem[s].sz \in Nat
      /\ mem[s].trapframe \in Nat
  BY DEF MemInv, Types, MemType, AllTables
<1> QED
  BY <1>1, <1>2 DEF Freed, Owned, TopTables

(* What a step does to the sum.                                            *)
LEMMA NewMemory ==
  ASSUME NEW m \in MemType
  PROVE  /\ \A x \in Nat : /\ Owned(Mapped(m, x)) = Owned(m) - m.image + x
                           /\ Mapped(m, x).sz = m.sz /\ Mapped(m, x).image = x
                           /\ Owned(Sized(m, x)) = Owned(m)
                           /\ Sized(m, x).sz = x
                           /\ Sized(m, x).image = m.image
         /\ Owned(OneTableMore(m)) = Owned(m) + 1
         /\ OneTableMore(m).sz = m.sz /\ OneTableMore(m).image = m.image
         /\ Owned(TableFreed(m)) = Owned(m) - m.tables
         /\ TableFreed(m).sz = m.sz /\ TableFreed(m).image = m.image
         /\ m.trapframe = 0 => Owned([m EXCEPT !.trapframe = 1]) = Owned(m) + 1
         /\ [m EXCEPT !.trapframe = 1].sz = m.sz
         /\ [m EXCEPT !.trapframe = 1].image = m.image
         /\ Owned(m) \in Nat /\ m.sz \in Nat /\ m.image \in Nat
         /\ m.tables \in Nat
<1> USE DEF MemType, AllTables, Owned
<1>1. \A x \in Nat : /\ Owned(Mapped(m, x)) = Owned(m) - m.image + x
                     /\ Mapped(m, x).sz = m.sz /\ Mapped(m, x).image = x
  BY DEF Mapped
<1>2. \A x \in Nat : /\ Owned(Sized(m, x)) = Owned(m)
                     /\ Sized(m, x).sz = x /\ Sized(m, x).image = m.image
  BY DEF Sized
<1>3. /\ Owned(OneTableMore(m)) = Owned(m) + 1
      /\ OneTableMore(m).sz = m.sz /\ OneTableMore(m).image = m.image
  BY DEF OneTableMore
<1>4. /\ Owned(TableFreed(m)) = Owned(m) - m.tables
      /\ TableFreed(m).sz = m.sz /\ TableFreed(m).image = m.image
  BY DEF TableFreed
<1>5. /\ m.trapframe = 0 => Owned([m EXCEPT !.trapframe = 1]) = Owned(m) + 1
      /\ [m EXCEPT !.trapframe = 1].sz = m.sz
      /\ [m EXCEPT !.trapframe = 1].image = m.image
  OBVIOUS
<1>6. Owned(m) \in Nat /\ m.sz \in Nat /\ m.image \in Nat /\ m.tables \in Nat
  OBVIOUS
<1> QED
  BY <1>1, <1>2, <1>3, <1>4, <1>5, <1>6

(* p gives its slot the memory m, and goes to another point of its call.   *)
LEMMA PagesAt ==
  ASSUME MemoryAssumption, PagesInv, MemInv', NEW p \in MemSlots,
         NEW m, mem' = [mem EXCEPT ![Slot(p)] = m],
         m.sz = Work(p).sz, m.sz <= m.image,
         NEW l, call' = [call EXCEPT ![p].at = l], l # "map", call[p].at # "map",
         avail' >= 0, avail' + Owned(m) = avail + Owned(Work(p))
  PROVE  PagesInv'
<1>1. Types /\ MemInv
  BY DEF PagesInv, MemInv
<1>2. /\ Slot(p) \in MemSlots
      /\ Work(p) = mem[Slot(p)]
      /\ Work(p) \in MemType
      /\ call[p] \in CallType
  BY <1>1, Writes
<1>3. /\ call'[p].hand = call[p].hand
      /\ call'[p].goal = call[p].goal
      /\ call'[p].at = l
  BY <1>1, <1>2 DEF Types, CallType
<1>4. /\ call[p].hand = 0
      /\ call[p].goal < SizeWrap
      /\ mem[Slot(p)].sz < SizeWrap
  BY <1>2 DEF PagesInv, Within
<1>5. mem'[Slot(p)] = m /\ \A t \in MemSlots : t # Slot(p) => mem'[t] = mem[t]
  BY <1>1, <1>2 DEF Types
<1>6. \A q \in MemSlots : q # p => call'[q] = call[q]
  BY <1>1 DEF Types
<1>7. avail' + Owned(m) + call'[p].hand = avail + Owned(mem[Slot(p)]) + call[p].hand
  BY <1>2, <1>3
<1> QED
  BY <1>2, <1>3, <1>4, <1>5, <1>6, <1>7, PagesMove

(* p changes the memory of a slot, and its call is c.                      *)
LEMMA PagesTo ==
  ASSUME MemoryAssumption, PagesInv, MemInv', NEW p \in MemSlots, NEW s \in MemSlots,
         NEW m, mem' = [mem EXCEPT ![s] = m],
         NEW c, call' = [call EXCEPT ![p] = c],
         c.hand = IF c.at = "map" THEN 1 ELSE 0, c.goal < SizeWrap,
         m.sz < SizeWrap, m.sz <= m.image,
         avail' >= 0,
         avail' + Owned(m) + c.hand = avail + Owned(mem[s]) + call[p].hand
  PROVE  PagesInv'
<1>1. Types
  BY DEF PagesInv, MemInv
<1>2. call'[p] = c /\ \A q \in MemSlots : q # p => call'[q] = call[q]
  BY <1>1 DEF Types
<1>3. mem'[s] = m /\ \A t \in MemSlots : t # s => mem'[t] = mem[t]
  BY <1>1 DEF Types
<1> QED
  BY <1>2, <1>3, PagesMove

(* fork() until the child has its page table.                              *)
LEMMA PagesFork ==
  ASSUME MemoryAssumption, PagesInv, MemInv', NEW p \in MemSlots,
         Fork(p) \/ Trapframe(p) \/ Root(p) \/ Trampoline(p) \/ TrapMap(p)
  PROVE  PagesInv'
<1> DEFINE w == Work(p)
<1>1. MemInv /\ Types
  BY DEF PagesInv, MemInv
<1>2. /\ Slot(p) \in MemSlots
      /\ w = mem[Slot(p)]
      /\ w \in MemType
      /\ call[p] \in CallType
  BY <1>1, Writes
<1>3. /\ avail \in Int
      /\ avail >= 0
      /\ w.sz <= w.image
      /\ w.sz < SizeWrap
      /\ mem[p].sz < SizeWrap
      /\ call[p].hand = IF call[p].at = "map" THEN 1 ELSE 0
  BY <1>1, <1>2 DEF PagesInv, AddUp, Within, Types
<1>4. SizeWrap \in Nat \ {0}
  BY DEF MemoryAssumption
<1>5. Owned(w) \in Nat /\ w.tables \in Nat
  BY <1>2, NewMemory
<1> HIDE DEF w
<1>6. ASSUME UNCHANGED <<avail, mem>>,
             NEW l, call' = [call EXCEPT ![p].at = l], l # "map", call[p].at # "map"
      PROVE  PagesInv'
  <2>1. mem' = [mem EXCEPT ![Slot(p)] = w]
    BY <1>1, <1>2, <1>6 DEF Types
  <2> QED
    BY <1>3, <1>6, <2>1, PagesAt DEF w
<1>7. ASSUME NEW m, Gets(p, m), m.sz = w.sz, m.image = w.image, Owned(m) = Owned(w) + 1,
             NEW l, call' = [call EXCEPT ![p].at = l], l # "map", call[p].at # "map"
      PROVE  PagesInv'
  <2>1. mem' = [mem EXCEPT ![Slot(p)] = m] /\ avail' = avail - 1 /\ avail > 0
    BY <1>7 DEF Gets
  <2>2. avail' >= 0 /\ avail' + Owned(m) = avail + Owned(w)
    BY <1>3, <1>5, <1>7, <2>1
  <2>3. m.sz <= m.image
    BY <1>3, <1>7
  <2> QED
    BY <1>7, <2>1, <2>2, <2>3, PagesAt DEF w
<1>8. ASSUME NEW t, mem' = [mem EXCEPT ![Slot(p)].top = t], avail' = avail,
             NEW l, call' = [call EXCEPT ![p].at = l], l # "map", call[p].at # "map"
      PROVE  PagesInv'
  <2> DEFINE m == [w EXCEPT !.top = t]
  <2>1. mem' = [mem EXCEPT ![Slot(p)] = m]
    BY <1>2, <1>8
  <2>2. Owned(m) = Owned(w) /\ m.sz = w.sz /\ m.image = w.image
    BY <1>2 DEF MemType, Owned
  <2> HIDE DEF m
  <2>3. avail' >= 0 /\ avail' + Owned(m) = avail + Owned(w) /\ m.sz <= m.image
    BY <1>3, <1>8, <2>2
  <2> QED
    BY <1>8, <2>1, <2>2, <2>3, PagesAt DEF w
<1>9. ASSUME GivesUp(p), call[p].at # "map" PROVE PagesInv'
  <2>1. /\ mem' = [mem EXCEPT ![Slot(p)] = TableFreed(w)]
        /\ call' = [call EXCEPT ![p].at = "undo"] /\ avail' = avail + w.tables
    BY <1>2, <1>9 DEF GivesUp, GotoCall, w
  <2>2. /\ Owned(TableFreed(w)) = Owned(w) - w.tables
        /\ TableFreed(w).sz = w.sz /\ TableFreed(w).image = w.image
    BY <1>2, NewMemory
  <2>3. /\ avail' >= 0 /\ avail' + Owned(TableFreed(w)) = avail + Owned(w)
        /\ TableFreed(w).sz <= TableFreed(w).image
    BY <1>3, <1>5, <2>1, <2>2
  <2> QED
    BY <1>9, <2>1, <2>2, <2>3, PagesAt DEF w
<1>10. CASE Fork(p)
  <2>1. PICK s \in MemSlots :
            call' = [call EXCEPT ![p] =
                [at |-> "trapframe", np |-> s, goal |-> mem[p].sz, hand |-> 0]]
    BY <1>10 DEF Fork
  <2>2. mem' = mem /\ avail' = avail /\ call[p].hand = 0
    BY <1>3, <1>10 DEF Fork, InUser, AtCall
  <2>3. mem' = [mem EXCEPT ![Slot(p)] = w]
    BY <1>1, <1>2, <2>2 DEF Types
  <2>4. avail' + Owned(w) + 0 = avail + Owned(mem[Slot(p)]) + call[p].hand
    BY <1>2, <2>2
  <2> DEFINE c == [at |-> "trapframe", np |-> s, goal |-> mem[p].sz, hand |-> 0]
  <2>5. /\ c.hand = 0
        /\ c.at = "trapframe"
        /\ c.goal < SizeWrap
        /\ call' = [call EXCEPT ![p] = c]
    BY <1>3, <2>1
  <2> HIDE DEF c
  <2> QED
    BY <1>2, <1>3, <2>2, <2>3, <2>4, <2>5, PagesTo
<1>11. CASE Trapframe(p)
  <2>1. w.trapframe = 0 /\ call[p].at = "trapframe"
    BY <1>1, <1>11
       DEF Trapframe, MemInv, CallInv, InFork, InSbrk, Shape, Empty, AtCall, w
  <2>2. CASE Gets(p, [w EXCEPT !.trapframe = 1]) /\ GotoCall(p, "root")
    <3> DEFINE m == [w EXCEPT !.trapframe = 1]
    <3>1. m.sz = w.sz /\ m.image = w.image /\ Owned(m) = Owned(w) + 1
      BY <1>2, <2>1, NewMemory
    <3> HIDE DEF m
    <3> QED
      BY <1>7, <2>1, <2>2, <3>1 DEF GotoCall, m
  <2>3. CASE call' = [call EXCEPT ![p] = User] /\ UNCHANGED <<avail, mem>>
    <3>1. User.hand = 0 /\ User.at = "user" /\ User.goal = 0
      BY DEF User
    <3>2. mem' = [mem EXCEPT ![Slot(p)] = w]
      BY <1>1, <1>2, <2>3 DEF Types
    <3>3. User.goal < SizeWrap
      BY <1>4, <3>1
    <3>4. avail' + Owned(w) + User.hand = avail + Owned(mem[Slot(p)]) + call[p].hand
      BY <1>2, <1>3, <2>1, <2>3, <3>1
    <3> QED
      BY <1>2, <1>3, <2>3, <3>1, <3>2, <3>3, <3>4, PagesTo
  <2> QED
    BY <1>11, <2>2, <2>3 DEF Trapframe, w
<1>12. CASE Root(p) \/ Trampoline(p) \/ TrapMap(p)
  <2>1. call[p].at \in {"root", "trampoline", "trapmap"}
    BY <1>12 DEF Root, Trampoline, TrapMap, AtCall
  <2>2. /\ OneTableMore(w).sz = w.sz /\ OneTableMore(w).image = w.image
        /\ Owned(OneTableMore(w)) = Owned(w) + 1
    BY <1>2, NewMemory
  <2>3. UNCHANGED call => call' = [call EXCEPT ![p].at = call[p].at]
    BY <1>1, <1>2 DEF Types, CallType
  <2>4. ASSUME Gets(p, OneTableMore(w)), NEW l, call' = [call EXCEPT ![p].at = l], l # "map"
        PROVE  PagesInv'
    BY <1>7, <2>1, <2>2, <2>4
  <2>5. CASE Root(p)
    BY <1>6, <2>1, <2>4, <2>5 DEF Root, GotoCall, w
  <2>6. CASE Trampoline(p)
    BY <1>8, <1>9, <2>1, <2>3, <2>4, <2>6 DEF Trampoline, GotoCall, w
  <2>7. CASE TrapMap(p)
    BY <1>8, <1>9, <2>1, <2>7 DEF TrapMap, GotoCall
  <2> QED
    BY <1>12, <2>5, <2>6, <2>7
<1> QED
  BY <1>10, <1>11, <1>12

(* The loops of fork() and sbrk(), their ends, and exit().                 *)
LEMMA PagesLoop ==
  ASSUME MemoryAssumption, PagesInv, MemInv', NEW p \in MemSlots,
         Page(p) \/ Map(p) \/ NoPage(p) \/ Done(p) \/ Undo(p) \/ Exit(p)
  PROVE  PagesInv'
<1> DEFINE w == Work(p)
           s == Slot(p)
           h == call[p].hand
           g == call[p].goal
<1>1. MemInv /\ Types
  BY DEF PagesInv, MemInv
<1>2. s \in MemSlots /\ w = mem[s] /\ w \in MemType /\ call[p] \in CallType
  BY <1>1, Writes
<1>3. /\ avail \in Int /\ avail >= 0 /\ w.sz <= w.image /\ w.sz < SizeWrap
      /\ h = IF call[p].at = "map" THEN 1 ELSE 0
      /\ g \in Nat /\ g < SizeWrap
  BY <1>1, <1>2, CallFields DEF PagesInv, AddUp, Within, Types
<1>4. SizeWrap \in Nat \ {0}
  BY DEF MemoryAssumption
<1>5. Owned(w) \in Nat /\ w.sz \in Nat /\ w.image \in Nat
  BY <1>2, NewMemory
<1>6. User.hand = 0 /\ User.at = "user" /\ User.goal < SizeWrap
  BY <1>4 DEF User
<1>7. \A l, x : /\ Holds(call[p], l, x).at = l /\ Holds(call[p], l, x).hand = x
                /\ Holds(call[p], l, x).goal = g
  BY <1>2 DEF Holds, CallType
<1>8. mem = [mem EXCEPT ![s] = w] /\ call = [call EXCEPT ![p] = call[p]]
  BY <1>1, <1>2 DEF Types
<1> HIDE DEF w, s, h, g
<1>9. ASSUME NEW m, mem' = [mem EXCEPT ![s] = m], m.sz < SizeWrap, m.sz <= m.image,
             NEW c, call' = [call EXCEPT ![p] = c], c.goal < SizeWrap,
             c.hand = IF c.at = "map" THEN 1 ELSE 0,
             avail' >= 0, avail' + Owned(m) + c.hand = avail + Owned(w) + h
      PROVE  PagesInv'
  BY <1>2, <1>9, PagesTo DEF h
<1>10. CASE Page(p)
  <2> DEFINE c == Holds(call[p], "map", 1)
  <2>1. /\ call' = [call EXCEPT ![p] = c] /\ mem' = mem
        /\ avail > 0 /\ avail' = avail - 1 /\ call[p].at = "page"
    BY <1>10 DEF Page, AtCall
  <2>2. c.at = "map" /\ c.hand = 1 /\ c.goal = g /\ h = 0
    BY <1>3, <1>7, <2>1
  <2> HIDE DEF c
  <2>3. avail' >= 0 /\ avail' + Owned(w) + c.hand = avail + Owned(w) + h
    BY <1>3, <1>5, <2>1, <2>2
  <2> QED
    BY <1>3, <1>8, <1>9, <2>1, <2>2, <2>3
<1>11. CASE Map(p)
  <2>1. call[p].at = "map" /\ h = 1
    BY <1>3, <1>11 DEF Map, AtCall
  <2>2. CASE Gets(p, OneTableMore(w)) /\ UNCHANGED call
    <3> DEFINE m == OneTableMore(w)
    <3>1. mem' = [mem EXCEPT ![s] = m] /\ avail > 0 /\ avail' = avail - 1
      BY <2>2 DEF Gets, s
    <3>2. m.sz = w.sz /\ m.image = w.image /\ Owned(m) = Owned(w) + 1
      BY <1>2, NewMemory
    <3>3. call' = [call EXCEPT ![p] = call[p]]
      BY <1>8, <2>2
    <3> HIDE DEF m
    <3>4. avail' >= 0 /\ avail' + Owned(m) + h = avail + Owned(w) + h
      BY <1>3, <1>5, <2>1, <3>1, <3>2
    <3> QED
      BY <1>3, <1>9, <3>1, <3>2, <3>3, <3>4 DEF h, g
  <2>3. CASE /\ mem' = [mem EXCEPT ![Slot(p)] = Mapped(@, @.image + 1)]
             /\ call' = [call EXCEPT ![p] = Holds(@, "page", 0)]
             /\ UNCHANGED avail
    <3> DEFINE m == Mapped(w, w.image + 1)
               c == Holds(call[p], "page", 0)
    <3>1. /\ mem' = [mem EXCEPT ![s] = m] /\ avail' = avail
          /\ call' = [call EXCEPT ![p] = c]
      BY <1>2, <2>3 DEF s
    <3>2. /\ m.sz = w.sz
          /\ m.image = w.image + 1
          /\ Owned(m) = Owned(w) - w.image + (w.image + 1)
      <4>1. \A y \in Nat : /\ Owned(Mapped(w, y)) = Owned(w) - w.image + y
                           /\ Mapped(w, y).sz = w.sz /\ Mapped(w, y).image = y
        BY <1>2, NewMemory
      <4>2. w.image + 1 \in Nat
        BY <1>5
      <4> QED
        BY <4>1, <4>2
    <3>3. c.at = "page" /\ c.hand = 0 /\ c.goal = g
      BY <1>7
    <3> HIDE DEF m, c
    <3>4. /\ avail' >= 0
          /\ avail' + Owned(m) + c.hand = avail + Owned(w) + h
          /\ m.sz <= m.image
      BY <1>3, <1>5, <2>1, <3>1, <3>2, <3>3
    <3> QED
      BY <1>3, <1>9, <3>1, <3>2, <3>3, <3>4
  <2> QED
    BY <1>11, <2>2, <2>3 DEF Map, w
<1>12. CASE NoPage(p)
  <2> DEFINE m == Mapped(w, w.sz)
             c == IF s = p THEN User ELSE Holds(call[p], "undo", 0)
  <2>1. /\ mem' = [mem EXCEPT ![s] = m] /\ avail' = avail + w.image - w.sz + h
        /\ call' = [call EXCEPT ![p] = c]
    BY <1>2, <1>12 DEF NoPage, s, h, w
  <2>2. m.sz = w.sz /\ m.image = w.sz /\ Owned(m) = Owned(w) - w.image + w.sz
    BY <1>2, <1>5, NewMemory, ZenonT(40)
  <2>3. c.at \in {"user", "undo"} /\ c.hand = 0 /\ c.goal < SizeWrap
    BY <1>3, <1>6, <1>7
  <2> HIDE DEF m, c
  <2>4. /\ avail' >= 0
        /\ avail' + Owned(m) + c.hand = avail + Owned(w) + h
        /\ m.sz <= m.image
    BY <1>3, <1>5, <2>1, <2>2, <2>3
  <2> QED
    BY <1>3, <1>9, <2>1, <2>2, <2>3, <2>4
<1>13. CASE Done(p)
  <2> DEFINE m == Sized(w, g)
  <2>1. /\ mem' = [mem EXCEPT ![s] = m] /\ avail' = avail
        /\ call' = [call EXCEPT ![p] = User] /\ call[p].at = "page"
        /\ w.image = g
    BY <1>2, <1>13 DEF Done, AtCall, s, g, w
  <2>2. m.sz = g /\ m.image = w.image /\ Owned(m) = Owned(w) /\ h = 0
    BY <1>2, <1>3, <2>1, NewMemory
  <2> HIDE DEF m
  <2>3. /\ avail' >= 0
        /\ avail' + Owned(m) + User.hand = avail + Owned(w) + h
        /\ m.sz <= m.image
    BY <1>3, <1>5, <1>6, <2>1, <2>2
  <2> QED
    BY <1>3, <1>6, <1>9, <2>1, <2>2, <2>3
<1>14. CASE Undo(p)
  <2>1. s \in Freeable /\ call[p].at = "undo"
    BY <1>14 DEF Undo, Freeable, AtCall, s
  <2>2. Freed(w) = Owned(w)
    BY <1>1, <1>2, <2>1, FreedIsOwned
  <2>3. /\ mem' = [mem EXCEPT ![s] = Empty] /\ avail' = avail + Owned(w)
        /\ call' = [call EXCEPT ![p] = User]
    BY <1>2, <1>14, <2>2 DEF Undo, FreeProc, Cleared, s, w
  <2>4. Empty.sz = 0 /\ Empty.image = 0 /\ Owned(Empty) = 0 /\ h = 0
    BY <1>3, <2>1 DEF Empty, Owned
  <2>5. /\ avail' >= 0
        /\ avail' + Owned(Empty) + User.hand = avail + Owned(w) + h
        /\ Empty.sz <= Empty.image /\ Empty.sz < SizeWrap
    BY <1>3, <1>4, <1>5, <1>6, <2>3, <2>4
  <2> QED
    BY <1>6, <1>9, <2>3, <2>5
<1>15. CASE Exit(p)
  <2>1. mem' = mem /\ call' = call /\ avail' = avail
    BY <1>15 DEF Exit
  <2>2. mem' = [mem EXCEPT ![s] = w] /\ call' = [call EXCEPT ![p] = call[p]]
    BY <1>8, <2>1
  <2> QED
    BY <1>3, <1>9, <2>1, <2>2 DEF h, g
<1> QED
  BY <1>10, <1>11, <1>12, <1>13, <1>14, <1>15

(* Every step keeps the sum of the pages.                                   *)
LEMMA PagesStep ==
  ASSUME MemoryAssumption PROVE PagesInv /\ [MemNext]_memVars => PagesInv'
<1> SUFFICES ASSUME PagesInv, [MemNext]_memVars PROVE PagesInv'
  OBVIOUS
<1>1. MemInv /\ MemInv' /\ Types /\ Types'
  BY MemInvStep DEF PagesInv, MemInv
<1>2. CASE UNCHANGED memVars
  BY <1>1, <1>2
     DEF memVars, PagesInv, AddUp, OwnedPages, PagesInHand, Within, Owned,
         Booted, InitCode
<1>3. SizeWrap \in Nat \ {0} /\ avail \in Int /\ avail >= 0
  BY <1>1 DEF MemoryAssumption, Types, PagesInv, AddUp
<1>4. ASSUME NEW p \in MemSlots, NEW d \in Deltas, Grow(p, d) \/ Shrink(p, d)
      PROVE  PagesInv'
  <2> DEFINE m == mem[p]
             x == NewSize(p, d)
  <2>1. /\ m \in MemType
        /\ call[p] \in CallType
        /\ m.sz \in Nat
        /\ m.image \in Nat
        /\ Owned(m) \in Nat
    BY <1>1, NewMemory DEF Types
  <2>2. x \in 0 .. SizeWrap - 1
    <3>1. d \in Int
      BY DEF MemoryAssumption
    <3> QED
      BY <1>3, <2>1, <3>1 DEF NewSize
  <2>3. /\ m.sz < SizeWrap /\ m.sz <= m.image /\ call[p].at = "user"
        /\ call[p].hand = 0 /\ call[p].goal < SizeWrap
    BY <1>4 DEF Grow, Shrink, InUser, AtCall, PagesInv, Within
  <2>4. mem = [mem EXCEPT ![p] = m] /\ call = [call EXCEPT ![p] = call[p]]
    BY <1>1 DEF Types
  <2>5. CASE Grow(p, d)
    <3> DEFINE c == [at |-> "page", np |-> p, goal |-> x, hand |-> 0]
    <3>1. call' = [call EXCEPT ![p] = c] /\ mem' = mem /\ avail' = avail
      BY <2>5 DEF Grow
    <3>2. c.hand = 0 /\ c.at = "page" /\ c.goal < SizeWrap
      BY <1>3, <2>2
    <3> HIDE DEF m, x, c
    <3>3. /\ avail' >= 0
          /\ avail' + Owned(m) + c.hand = avail + Owned(m) + call[p].hand
      BY <1>3, <2>1, <2>3, <3>1, <3>2
    <3> QED
      BY <1>1, <2>3, <2>4, <3>1, <3>2, <3>3, PagesTo DEF m
  <2>6. CASE Shrink(p, d)
    <3> DEFINE o == Sized(Mapped(m, x), x)
    <3>1. /\ mem' = [mem EXCEPT ![p] = o]
          /\ call' = [call EXCEPT ![p] = call[p]]
          /\ x < m.sz /\ avail' = avail + m.sz - x
      BY <2>4, <2>6 DEF Shrink
    <3>2. m.image = m.sz
      BY <1>1, <2>6 DEF Shrink, InUser, MemInv, SlotInv, InSbrk, Whole
    <3>3. Mapped(m, x) \in MemType
      BY <2>1, <2>2, SizeFields
    <3>4. o.sz = x /\ o.image = x /\ Owned(o) = Owned(m) - m.image + x
      <4> DEFINE k == Mapped(m, x)
      <4>1. x \in Nat
        BY <2>2
      <4> HIDE DEF x, m
      <4>2. k.image = x /\ Owned(k) = Owned(m) - m.image + x
        BY <2>1, <4>1, NewMemory
      <4> HIDE DEF k
      <4>3. o.sz = x /\ o.image = k.image /\ Owned(o) = Owned(k)
        BY <3>3, <4>1, NewMemory DEF k
      <4> QED
        BY <4>2, <4>3
    <3> HIDE DEF m, x, o
    <3>5. /\ avail' >= 0 /\ o.sz <= o.image /\ o.sz < SizeWrap
          /\ avail' + Owned(o) + call[p].hand = avail + Owned(m) + call[p].hand
      BY <1>3, <2>1, <2>2, <2>3, <3>1, <3>2, <3>4
    <3> QED
      BY <1>1, <2>3, <3>1, <3>5, PagesTo DEF m
  <2> QED
    BY <1>4, <2>5, <2>6
<1>5. ASSUME NEW p \in MemSlots, NEW s \in MemSlots, Wait(p, s) PROVE PagesInv'
  <2> DEFINE m == mem[s]
  <2>1. s \in Freeable
    BY <1>5 DEF Wait, Freeable
  <2>2. Freed(m) = Owned(m) /\ Owned(m) \in Nat
    BY <1>1, <2>1, FreedIsOwned, OwnedNat DEF Types
  <2>3. /\ mem' = [mem EXCEPT ![s] = Empty]
        /\ call' = [call EXCEPT ![p] = call[p]]
        /\ avail' = avail + Owned(m)
    BY <1>1, <1>5, <2>2 DEF Wait, FreeProc, Cleared, Types
  <2>4. Empty.sz = 0 /\ Empty.image = 0 /\ Owned(Empty) = 0
    BY DEF Empty, Owned
  <2>5. /\ call[p].hand = (IF call[p].at = "map" THEN 1 ELSE 0)
        /\ call[p].goal < SizeWrap
    BY DEF PagesInv, Within
  <2>6. /\ avail' >= 0 /\ Empty.sz < SizeWrap /\ Empty.sz <= Empty.image
        /\ avail' + Owned(Empty) + call[p].hand = avail + Owned(m) + call[p].hand
    BY <1>3, <2>2, <2>3, <2>4, <2>5
  <2> QED
    BY <1>1, <2>3, <2>5, <2>6, PagesTo
<1> QED
  BY <1>1, <1>2, <1>4, <1>5, PagesFork, PagesLoop DEF MemNext

(* fork(), sbrk(), exit() and wait() lose no page and give none back       *)
(* twice, wherever an allocation fails and however they are interleaved.   *)
THEOREM PagesAddUp == ASSUME MemoryAssumption PROVE MemSpec => []NoLeak
<1>1. PagesInv => NoLeak
  BY
     DEF PagesInv, AddUp, OwnedPages, PagesInHand, MemInv, SlotInv, InFork,
         Taken, FreeSlotsEmpty, NoLeak
<1> QED
  BY <1>1, PagesInit, PagesStep, PTL DEF MemSpec

(* No process maps more pages than there are, so that no size gets as far  *)
(* as the wrap; and no count of free pages is negative or above the first. *)
THEOREM MemoryTypes == ASSUME MemoryAssumption PROVE MemSpec => []MemTypeOK
<1>1. PagesInv => MemTypeOK
  <2> SUFFICES ASSUME PagesInv PROVE MemTypeOK
    OBVIOUS
  <2>1. Types
    BY DEF PagesInv, MemInv
  <2>2. IsFiniteSet(MemSlots) /\ 0 \in MemSlots
    BY FS_Interval DEF MemoryAssumption, MemSlots
  <2>3. OwnedPages \in Nat /\ PagesInHand \in Nat
    BY <2>1, PagesNat
  <2>4. /\ avail \in Nat
        /\ avail + OwnedPages + PagesInHand = Booted + Owned(InitCode)
    BY <2>1 DEF PagesInv, AddUp, Types
  <2>5. /\ Booted + Owned(InitCode) \in Nat
        /\ Booted + Owned(InitCode) < SizeWrap
    BY DEF MemoryAssumption, Booted, Owned, InitCode, AllTables
  <2>6. SizeWrap \in Nat
    BY DEF MemoryAssumption
  <2>7. ASSUME NEW s \in MemSlots PROVE mem[s].image < SizeWrap
    <3> DEFINE f == [t \in MemSlots |-> Owned(mem[t])]
               rest == [f EXCEPT ![s] = 0]
    <3>1. f \in [MemSlots -> Nat] /\ rest \in [MemSlots -> Nat]
      BY <2>1, OwnedNat DEF Types
    <3>2. f[s] = Owned(mem[s]) /\ SumOf(f) = OwnedPages
      BY DEF OwnedPages
    <3>3. SumOf(f) = f[s] + SumOf(rest)
      <4> HIDE DEF f
      <4> QED
        BY <2>2, <3>1, SumSplits
    <3> HIDE DEF f, rest
    <3>4. SumOf(rest) \in Nat
      BY <2>2, <3>1, UnitsFinite
    <3>5. /\ Owned(mem[s]) >= mem[s].image
          /\ mem[s].image \in Nat
          /\ Owned(mem[s]) \in Nat
      BY <2>1 DEF Types, MemType, Owned, AllTables
    <3> QED
      BY <2>3, <2>4, <2>5, <2>6, <3>2, <3>3, <3>4, <3>5
  <2>8. avail \in 0 .. Booted + Owned(InitCode)
    BY <2>3, <2>4, <2>5
  <2>9. mem \in [MemSlots -> [trapframe : {0, 1}, tables : 0 .. AllTables,
                              top : SUBSET Top, image : Sizes, sz : Sizes]]
    BY <2>1, <2>7, <2>6 DEF Types, MemType, PagesInv, Within, Sizes
  <2>10. call \in [MemSlots ->
             [at : {"user", "trapframe", "root", "trampoline", "trapmap", "page",
                    "map", "undo"},
              np : MemSlots, goal : Sizes, hand : {0, 1}]]
    BY <2>1, <2>6 DEF Types, CallType, Points, PagesInv, Within, Sizes
  <2> QED
    BY <2>1, <2>8, <2>9, <2>10 DEF Types, MemTypeOK
<1> QED
  BY <1>1, PagesInit, PagesStep, PTL DEF MemSpec
=============================================================================
