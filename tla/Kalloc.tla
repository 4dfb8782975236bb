------------------------------- MODULE Kalloc -------------------------------
(***************************************************************************)
(* The physical page allocator (kalloc.c).  The free pages are a list that *)
(* runs through the first word of each page, under kmem.lock.  kfree()     *)
(* fills the page with junk before it takes the lock, kalloc() after it    *)
(* has left the lock, so that the junk must never reach a page of the      *)
(* list.  Each hart is in at most one of kalloc(), kfree() and free_mem(); *)
(* pages are numbered from 1, and 0 is the null pointer.                   *)
(***************************************************************************)
EXTENDS Integers, FiniteSets

CONSTANTS
    NPAGES,     \* pages between end and PHYSTOP
    Harts,
    Nobody

ASSUME KallocAssumption == NPAGES \in Nat \ {0} /\ Nobody \notin Harts

Pages == 1 .. NPAGES
Null == 0
Junk == -1          \* what memset() leaves in the first word

VARIABLES
    freelist,   \* kmem.freelist
    lock,       \* the hart that holds kmem.lock
    word,       \* the first word of each page: r->next while it is free
    held,       \* the pages the kernel and the processes use
    pc,         \* of each hart: "idle"; kfree(): "junk", "push", "link";
                \* kalloc(): "pop", "fill"; free_mem(): "walk"
    r,          \* the local variable r of the call
    n,          \* free_mem(): the pages it has counted
    answer      \* what the last call has returned (history)

vars == <<freelist, lock, word, held, pc, r, n, answer>>

(* kinit() has freed the pages from the first to the last.                 *)
Init ==
    /\ freelist = NPAGES
    /\ lock = Nobody
    /\ word = [p \in Pages |-> p - 1]
    /\ held = {}
    /\ pc = [h \in Harts |-> "idle"]
    /\ r = [h \in Harts |-> Null]
    /\ n = [h \in Harts |-> 0]
    /\ answer = <<"none">>

At(h, l) == pc[h] = l
Goto(h, l) == pc' = [pc EXCEPT ![h] = l]
Acquire(h) == lock = Nobody /\ lock' = h

-----------------------------------------------------------------------------
(* Mistakes: kalloc() takes no lock, and its update races with another;    *)
(* kfree() forgets the link; kalloc() fills the page that is now the head; *)
(* kalloc() keeps the last page back.                                      *)
NoLock(h) == UNCHANGED lock
LinkForgotten(h) == word[r[h]]
FillsNext(h) == freelist
OneKept(p) == IF p = Null \/ word[p] = Null THEN Null ELSE p

TakeLock(h) == Acquire(h)
LinkOf(h) == freelist
Filled(h) == r[h]
FirstFree(p) == p

-----------------------------------------------------------------------------
(* kfree(pa): the caller owns the page, so the panic test passes.          *)
Kfree(h, p) ==
    /\ At(h, "idle")
    /\ p \in held
    /\ held' = held \ {p}
    /\ r' = [r EXCEPT ![h] = p]
    /\ Goto(h, "junk")
    /\ UNCHANGED <<freelist, lock, word, n, answer>>

KfreeJunk(h) ==
    /\ At(h, "junk")
    /\ word' = [word EXCEPT ![r[h]] = Junk]
    /\ Goto(h, "push")
    /\ UNCHANGED <<freelist, lock, held, r, n, answer>>

Push(h) ==
    /\ At(h, "push")
    /\ Acquire(h)
    /\ word' = [word EXCEPT ![r[h]] = LinkOf(h)]
    /\ Goto(h, "link")
    /\ UNCHANGED <<freelist, held, r, n, answer>>

PushHead(h) ==
    /\ At(h, "link")
    /\ freelist' = r[h]
    /\ lock' = Nobody
    /\ r' = [r EXCEPT ![h] = Null]
    /\ Goto(h, "idle")
    /\ UNCHANGED <<word, held, n, answer>>

-----------------------------------------------------------------------------
(* kalloc(): read the head ...                                             *)
Kalloc(h) ==
    /\ At(h, "idle")
    /\ TakeLock(h)
    /\ r' = [r EXCEPT ![h] = FirstFree(freelist)]
    /\ Goto(h, "pop")
    /\ UNCHANGED <<freelist, word, held, n, answer>>

(* ... take it off the list, and release the lock ...                      *)
Pop(h) ==
    /\ At(h, "pop")
    /\ r[h] # Null
    /\ freelist' = word[r[h]]
    /\ lock' = Nobody
    /\ answer' = <<"page", r[h]>>
    /\ Goto(h, "fill")
    /\ UNCHANGED <<word, held, r, n>>

(* ... or return 0.                                                        *)
PopFails(h) ==
    /\ At(h, "pop")
    /\ r[h] = Null
    /\ lock' = Nobody
    /\ answer' = <<"fail">>
    /\ Goto(h, "idle")
    /\ UNCHANGED <<freelist, word, held, r, n>>

KallocFill(h) ==
    /\ At(h, "fill")
    /\ word' = [word EXCEPT ![Filled(h)] = Junk]
    /\ held' = held \cup {r[h]}
    /\ r' = [r EXCEPT ![h] = Null]
    /\ Goto(h, "idle")
    /\ UNCHANGED <<freelist, lock, n, answer>>

-----------------------------------------------------------------------------
(* free_mem() walks over the list, in bytes of PGSIZE a page.              *)
FreeMem(h) ==
    /\ At(h, "idle")
    /\ Acquire(h)
    /\ r' = [r EXCEPT ![h] = freelist]
    /\ n' = [n EXCEPT ![h] = 0]
    /\ Goto(h, "walk")
    /\ UNCHANGED <<freelist, word, held, answer>>

Walk(h) ==
    /\ At(h, "walk")
    /\ r[h] # Null
    /\ n' = [n EXCEPT ![h] = @ + 1]
    /\ r' = [r EXCEPT ![h] = word[r[h]]]
    /\ UNCHANGED <<freelist, lock, word, held, pc, answer>>

WalkEnds(h) ==
    /\ At(h, "walk")
    /\ r[h] = Null
    /\ lock' = Nobody
    /\ answer' = <<"count", n[h]>>
    /\ n' = [n EXCEPT ![h] = 0]
    /\ Goto(h, "idle")
    /\ UNCHANGED <<freelist, word, held, r>>

-----------------------------------------------------------------------------
Hart(h) ==
    \/ \E p \in Pages : Kfree(h, p)
    \/ KfreeJunk(h) \/ Push(h) \/ PushHead(h)
    \/ Kalloc(h) \/ Pop(h) \/ PopFails(h) \/ KallocFill(h)
    \/ FreeMem(h) \/ Walk(h) \/ WalkEnds(h)

Next == \E h \in Harts : Hart(h)

Spec == Init /\ [][Next]_vars

-----------------------------------------------------------------------------
(* Properties.                                                             *)

(* The pages in the hands of a hart: given back but not linked yet, or off *)
(* the list but not filled yet.                                            *)
InHand(h) ==
    IF pc[h] \in {"junk", "push", "link", "fill"} THEN {r[h]} ELSE {}

Free == Pages \ (held \cup UNION {InHand(h) : h \in Harts})

TypeOK ==
    /\ freelist \in Pages \cup {Null}
    /\ lock \in Harts \cup {Nobody}
    /\ word \in [Pages -> Pages \cup {Null, Junk}]
    /\ held \subseteq Pages
    /\ pc \in [Harts -> {"idle", "junk", "push", "link", "pop", "fill", "walk"}]
    /\ r \in [Harts -> Pages \cup {Null}]
    /\ n \in [Harts -> 0 .. NPAGES]

(* No page is with two owners: two harts at once, or a hart and a process. *)
OneOwner ==
    \A h \in Harts :
        /\ InHand(h) \cap held = {}
        /\ \A g \in Harts \ {h} : InHand(h) \cap InHand(g) = {}

Pool == INSTANCE PagePool WITH free <- Free

(* The three calls, with their lock and their two memset()s, are the steps *)
(* of PagePool: each takes effect in one step, in which it holds the lock. *)
ImplementsPool == Pool!PSpec
=============================================================================
