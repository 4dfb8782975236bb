------------------------------- MODULE Memory -------------------------------
(***************************************************************************)
(* The memory of the processes (proc.c): what allocproc(), fork(), sbrk()  *)
(* and freeproc() take from the page allocator, one page at a time, and    *)
(* what they give back when an allocation fails half way.  A process has a *)
(* page for its trapframe, the pages of its page table, and its user       *)
(* pages, mapped from address 0.  uvmcreate(), mappages(), uvmcopy() and   *)
(* the others are in vm.c, outside of the repository.  Giving back is one  *)
(* step; which page or slot is taken, and who the parent is, does not      *)
(* matter here.  Sizes are whole pages.                                    *)
(***************************************************************************)
EXTENDS Integers, Tally

CONSTANTS
    TableSize,  \* NPROC
    Ram,        \* the pages kinit() has freed
    SizeWrap,   \* where the unsigned size in growproc() wraps, in pages
    Deltas      \* arguments of sbrk()

MemSlots == 0 .. TableSize - 1
Top == {"TRAMPOLINE", "TRAPFRAME"}      \* the mappings above user memory
TopTables == 3      \* the root and the two tables below it that these need
AllTables == 5      \* and those of the lowest user pages

VARIABLES
    avail,      \* the number of free pages
    use,        \* of each slot: "UNUSED", "USED" or "ZOMBIE"
    mem,        \* of each slot: pages owned, what is mapped, and p->sz
    call        \* of each process: where it is in its system call, the slot
                \* it works on, the size to reach, the page in its hand

memVars == <<avail, use, mem, call>>

Empty == [trapframe |-> 0, tables |-> 0, top |-> {}, image |-> 0, sz |-> 0]
User == [at |-> "user", np |-> 0, goal |-> 0, hand |-> 0]

(* userinit(): the first process, with one page of code.                   *)
InitCode ==
    [trapframe |-> 1, tables |-> AllTables, top |-> Top, image |-> 1, sz |-> 1]

Owned(m) == m.trapframe + m.tables + m.image

(* procinit() has taken a kernel stack for every slot.                     *)
Booted == Ram - TableSize - Owned(InitCode)

MemoryAssumption ==
    /\ TableSize \in Nat \ {0} /\ SizeWrap \in Nat \ {0}
    /\ Ram \in Nat /\ Booted >= 0
    /\ Ram < SizeWrap \div 2
    /\ Deltas \subseteq -(SizeWrap \div 2) .. (SizeWrap \div 2) - 1

MemInit ==
    /\ avail = Booted
    /\ use = [s \in MemSlots |-> IF s = 0 THEN "USED" ELSE "UNUSED"]
    /\ mem = [s \in MemSlots |-> IF s = 0 THEN InitCode ELSE Empty]
    /\ call = [s \in MemSlots |-> User]

-----------------------------------------------------------------------------
(* Mistakes: freeproc() forgets the trapframe, or to clear p->sz;          *)
(* proc_pagetable() frees a table with the trampoline in it.               *)
TrapframeKept(m) == m.tables + m.sz
SizeKept(m) == [Empty EXCEPT !.sz = m.sz]
TrampolineLeft(m) == [m EXCEPT !.tables = 0]

(* The pages freeproc() gives back: uvmfree() goes by p->sz.               *)
Freed(m) == m.trapframe + (IF m.tables > 0 THEN m.tables + m.sz ELSE 0)

(* freeproc() clears the slot.                                             *)
Cleared(m) == Empty

(* proc_pagetable() gives up: uvmunmap(TRAMPOLINE), uvmfree(pagetable, 0). *)
TableFreed(m) == [m EXCEPT !.tables = 0, !.top = {}]

-----------------------------------------------------------------------------
AtCall(p, l) == call[p].at = l
GotoCall(p, l) == call' = [call EXCEPT ![p].at = l]
Slot(p) == call[p].np
Work(p) == mem[Slot(p)]

(* kalloc(): one page, with which the slot has the memory m.               *)
Gets(p, m) ==
    /\ avail > 0
    /\ avail' = avail - 1
    /\ mem' = [mem EXCEPT ![Slot(p)] = m]

OneTableMore(m) == [m EXCEPT !.tables = @ + 1]
Mapped(m, n) == [m EXCEPT !.image = n]
Sized(m, n) == [m EXCEPT !.sz = n]
Holds(c, l, n) == [c EXCEPT !.at = l, !.hand = n]

InUser(p) == use[p] = "USED" /\ AtCall(p, "user")

(* The slots whose lock an allocproc() holds.                              *)
Taken == {Slot(p) : p \in {q \in MemSlots : ~AtCall(q, "user")}}

(* fork(): allocproc() takes a slot.                                       *)
Fork(p) ==
    /\ InUser(p)
    /\ \E s \in MemSlots \ Taken :
           /\ use[s] = "UNUSED"
           /\ call' = [call EXCEPT ![p] =
                  [at |-> "trapframe", np |-> s, goal |-> mem[p].sz, hand |-> 0]]
    /\ UNCHANGED <<avail, use, mem>>

(* Without a page for the trapframe allocproc() returns as it is.          *)
Trapframe(p) ==
    /\ AtCall(p, "trapframe")
    /\ \/ Gets(p, [Work(p) EXCEPT !.trapframe = 1]) /\ GotoCall(p, "root")
       \/ avail = 0 /\ call' = [call EXCEPT ![p] = User] /\ UNCHANGED <<avail, mem>>
    /\ UNCHANGED use

(* proc_pagetable(): uvmcreate() ...                                       *)
Root(p) ==
    /\ AtCall(p, "root")
    /\ \/ Gets(p, OneTableMore(Work(p))) /\ GotoCall(p, "trampoline")
       \/ avail = 0 /\ GotoCall(p, "undo") /\ UNCHANGED <<avail, mem>>
    /\ UNCHANGED use

GivesUp(p) ==
    /\ avail' = avail + Work(p).tables
    /\ mem' = [mem EXCEPT ![Slot(p)] = TableFreed(@)]
    /\ GotoCall(p, "undo")

(* ... mappages(TRAMPOLINE), which takes the tables on the way ...         *)
Trampoline(p) ==
    /\ AtCall(p, "trampoline")
    /\ \/ Work(p).tables < TopTables /\ Gets(p, OneTableMore(Work(p))) /\ UNCHANGED call
       \/ Work(p).tables < TopTables /\ avail = 0 /\ GivesUp(p)
       \/ /\ Work(p).tables = TopTables
          /\ mem' = [mem EXCEPT ![Slot(p)].top = {"TRAMPOLINE"}]
          /\ GotoCall(p, "trapmap")
          /\ UNCHANGED avail
    /\ UNCHANGED use

(* ... and mappages(TRAPFRAME), which may say no as well.                  *)
TrapMap(p) ==
    /\ AtCall(p, "trapmap")
    /\ \/ /\ mem' = [mem EXCEPT ![Slot(p)].top = Top]
          /\ GotoCall(p, "page")
          /\ UNCHANGED avail
       \/ GivesUp(p)
    /\ UNCHANGED use

-----------------------------------------------------------------------------
(* sys_sbrk() and growproc(): uvmdealloc() does nothing when the unsigned  *)
(* new size is not less, as it is for a negative sum.                      *)
NewSize(p, d) == (mem[p].sz + d) % SizeWrap

Grow(p, d) ==
    /\ InUser(p) /\ d > 0
    /\ call' = [call EXCEPT ![p] =
           [at |-> "page", np |-> p, goal |-> NewSize(p, d), hand |-> 0]]
    /\ UNCHANGED <<avail, use, mem>>

Shrink(p, d) ==
    /\ InUser(p) /\ d < 0
    /\ NewSize(p, d) < mem[p].sz
    /\ avail' = avail + mem[p].sz - NewSize(p, d)
    /\ mem' = [mem EXCEPT ![p] = Sized(Mapped(@, NewSize(p, d)), NewSize(p, d))]
    /\ UNCHANGED <<use, call>>

(* The loops of uvmcopy() and uvmalloc(): a page, and its mapping.         *)
Page(p) ==
    /\ AtCall(p, "page") /\ Work(p).image < call[p].goal
    /\ avail > 0
    /\ avail' = avail - 1
    /\ call' = [call EXCEPT ![p] = Holds(@, "map", 1)]
    /\ UNCHANGED <<use, mem>>

Map(p) ==
    /\ AtCall(p, "map")
    /\ \/ Work(p).tables < AllTables /\ Gets(p, OneTableMore(Work(p))) /\ UNCHANGED call
       \/ /\ Work(p).tables = AllTables
          /\ mem' = [mem EXCEPT ![Slot(p)] = Mapped(@, @.image + 1)]
          /\ call' = [call EXCEPT ![p] = Holds(@, "page", 0)]
          /\ UNCHANGED avail
    /\ UNCHANGED use

(* They give back what is above the old size; fork() goes on to freeproc().*)
NoPage(p) ==
    /\ avail = 0
    /\ \/ AtCall(p, "page") /\ Work(p).image < call[p].goal
       \/ AtCall(p, "map") /\ Work(p).tables < AllTables
    /\ avail' = avail + Work(p).image - Work(p).sz + call[p].hand
    /\ mem' = [mem EXCEPT ![Slot(p)] = Mapped(@, @.sz)]
    /\ call' = [call EXCEPT ![p] =
           IF Slot(p) = p THEN User ELSE Holds(@, "undo", 0)]
    /\ UNCHANGED use

(* p->sz = sz; np->state = RUNNABLE.                                       *)
Done(p) ==
    /\ AtCall(p, "page") /\ Work(p).image = call[p].goal
    /\ mem' = [mem EXCEPT ![Slot(p)] = Sized(@, call[p].goal)]
    /\ use' = [use EXCEPT ![Slot(p)] = "USED"]
    /\ call' = [call EXCEPT ![p] = User]
    /\ UNCHANGED avail

-----------------------------------------------------------------------------
FreeProc(s) ==
    /\ avail' = avail + Freed(mem[s])
    /\ mem' = [mem EXCEPT ![s] = Cleared(@)]
    /\ use' = [use EXCEPT ![s] = "UNUSED"]

Undo(p) ==
    /\ AtCall(p, "undo")
    /\ FreeProc(Slot(p))
    /\ call' = [call EXCEPT ![p] = User]

(* exit() keeps the memory; wait() of some other process frees it.         *)
Exit(p) ==
    /\ InUser(p) /\ p # 0
    /\ use' = [use EXCEPT ![p] = "ZOMBIE"]
    /\ UNCHANGED <<avail, mem, call>>

Wait(p, s) == InUser(p) /\ use[s] = "ZOMBIE" /\ FreeProc(s) /\ UNCHANGED call

MemNext ==
    \E p \in MemSlots :
        \/ Fork(p) \/ Trapframe(p) \/ Root(p) \/ Trampoline(p) \/ TrapMap(p)
        \/ Page(p) \/ Map(p) \/ NoPage(p) \/ Done(p) \/ Undo(p) \/ Exit(p)
        \/ \E d \in Deltas : Grow(p, d) \/ Shrink(p, d)
        \/ \E s \in MemSlots : Wait(p, s)

MemSpec == MemInit /\ [][MemNext]_memVars

-----------------------------------------------------------------------------
(* Properties.                                                             *)

Sizes == 0 .. SizeWrap - 1

MemTypeOK ==
    /\ avail \in 0 .. Booted + Owned(InitCode)
    /\ use \in [MemSlots -> {"UNUSED", "USED", "ZOMBIE"}]
    /\ mem \in [MemSlots -> [trapframe : {0, 1}, tables : 0 .. AllTables,
                             top : SUBSET Top, image : Sizes, sz : Sizes]]
    /\ call \in [MemSlots ->
           [at : {"user", "trapframe", "root", "trampoline", "trapmap", "page",
                  "map", "undo"},
            np : MemSlots, goal : Sizes, hand : {0, 1}]]

(* The slots freed, or left by an allocproc() that failed, own nothing.    *)
FreeSlotsEmpty ==
    \A s \in MemSlots \ Taken : use[s] = "UNUSED" => mem[s] = Empty

(* No page is lost and none is given back twice, wherever a fork or an     *)
(* sbrk runs out of pages: the free pages and those that are owned add up, *)
(* and a slot that is free, and not being filled, owns none.               *)
NoLeak ==
    /\ avail + SumOf([s \in MemSlots |-> Owned(mem[s])])
             + SumOf([p \in MemSlots |-> call[p].hand]) = Booted + Owned(InitCode)
    /\ FreeSlotsEmpty

(* The slots freeproc() is called for, or may be next.                     *)
Freeable ==
    {s \in MemSlots : use[s] = "ZOMBIE" \/ InUser(s)}
        \cup {Slot(p) : p \in {q \in MemSlots : AtCall(q, "undo")}}

(* vm.c does not panic: a table is freed without mappings in it, and what  *)
(* freeproc() unmaps, by p->sz, is what is mapped, in a fork undone half   *)
(* way as in an exited process.                                            *)
FreesWhatIsMapped ==
    \A s \in MemSlots :
        /\ mem[s].tables < TopTables => mem[s].top = {} /\ mem[s].image = 0
        /\ (s \in Freeable /\ mem[s].tables > 0) =>
               mem[s].top = Top /\ mem[s].image = mem[s].sz
=============================================================================
