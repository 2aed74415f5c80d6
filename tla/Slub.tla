-------------------------------- MODULE Slub --------------------------------
(***************************************************************************)
(* The object allocator of kern/mm/slub.c: caches of equally sized objects *)
(* inside pages, on top of the page allocator.  The page allocator is its  *)
(* contract, PageAllocator, which the buddy system implements; a kmalloc   *)
(* that needs a page waits for its answer.  Addresses are in bytes from    *)
(* the first page of pages[].                                              *)
(***************************************************************************)
EXTENDS Integers, Sequences, FiniteSets, SequencesExt

CONSTANTS
  PGSIZE,          \* bytes in a page
  HeaderSize,      \* sizeof(slab_page_t), at the start of a slab's page
  SLUB_NCACHE,     \* number of size classes
  ObjSize,         \* ObjSize[i] is caches[i].obj_size
  Region,          \* the pages of the page allocator
  Sizes            \* what callers pass to kmalloc

Classes == 0..(SLUB_NCACHE - 1)
MaxSize == ObjSize[SLUB_NCACHE - 1]      \* 1U << SLUB_MAX_SHIFT

ASSUME ClassAssumption ==
  /\ SLUB_NCACHE \in Nat \ {0}
  /\ ObjSize \in [Classes -> Nat \ {0}]
  /\ \A i \in 1..(SLUB_NCACHE - 1) : ObjSize[i] = 2 * ObjSize[i - 1]

ASSUME PageAssumption ==
  /\ PGSIZE = MaxSize
  /\ HeaderSize \in 1..PGSIZE
  /\ Region \subseteq Nat

ASSUME SizesAssumption == Sizes \subseteq Nat

VARIABLES
  free, owned, asked,   \* the page allocator, see PageAllocator
  pages,           \* class -> its slabs (caches[i].pages), newest first
  slab,            \* the slab_page_t at the start of each slab's page
  live,            \* what callers hold: the address and the size asked for
  pc,              \* where the running kmalloc is: see PCs
  req,             \* its size
  sp               \* the slab it takes the object from

pageVars == <<free, owned, asked>>
vars == <<free, owned, asked, pages, slab, live, pc, req, sp>>

PCs == {"idle", "find", "take", "slab", "pages"}

\* np of a large allocation.
PagesFor(size) == (size + PGSIZE - 1) \div PGSIZE

PA == INSTANCE PageAllocator WITH Requests <- {1} \cup {PagesFor(s) : s \in Sizes}

NoSlab == -1
Slabs == DOMAIN slab
PageOf(ptr) == ptr \div PGSIZE

-----------------------------------------------------------------------------
\* The smallest class whose objects are large enough, at most the last one.
size_to_index(size) ==
  CHOOSE i \in Classes : /\ \A j \in 0..(i - 1) : ObjSize[j] < size
                         /\ i = SLUB_NCACHE - 1 \/ size <= ObjSize[i]

\* Faulty variant: the address is rounded down.
FirstObjectBelow(pg, i) ==
  ((pg * PGSIZE + HeaderSize) \div ObjSize[i]) * ObjSize[i]

\* aligned: the address after the header, rounded up to the object size.
FirstObject(pg, i) ==
  ((pg * PGSIZE + HeaderSize + ObjSize[i] - 1) \div ObjSize[i]) * ObjSize[i]

\* Faulty variant: the header is forgotten.
ObjPerPageHeaderless(i) == PGSIZE \div ObjSize[i]

ObjPerPage(i) == (PGSIZE - HeaderSize) \div ObjSize[i]

\* slab_page_init: the objects are pushed one by one, the last is the head.
NewSlabPage(pg, i) ==
  LET n == ObjPerPage(i)
  IN  [free_list |-> [k \in 1..n |-> FirstObject(pg, i) + (n - k) * ObjSize[i]],
       used |-> 0, obj_per_page |-> n, cache_idx |-> i]

\* Faulty variant: only the newest slab is looked at.
IsNewestWithFree(i, p) ==
  /\ p = 1
  /\ slab[pages[i][p]].free_list # <<>>

\* Position in pages[i] of the first slab with a free object.
IsFirstWithFree(i, p) ==
  /\ p \in 1..Len(pages[i])
  /\ slab[pages[i][p]].free_list # <<>>
  /\ \A q \in 1..(p - 1) : slab[pages[i][q]].free_list = <<>>

\* Faulty variant: the older slabs of the class are dropped.
LinkSlabAlone(i, pg) == pages' = [pages EXCEPT ![i] = <<pg>>]

LinkSlab(i, pg) == pages' = [pages EXCEPT ![i] = <<pg>> \o @]

\* Faulty variant: used is not lowered.
PutBackUncounted(sl, ptr) == [sl EXCEPT !.free_list = <<ptr>> \o @]

PutBack(sl, ptr) == [sl EXCEPT !.free_list = <<ptr>> \o @, !.used = @ - 1]

Return ==
  /\ pc' = "idle"
  /\ req' = 0
  /\ sp' = NoSlab

-----------------------------------------------------------------------------
\* slub_init, with the page allocator fresh.
Init ==
  /\ PA!Init
  /\ pages = [i \in Classes |-> <<>>]
  /\ slab = [pg \in {} |-> 0]
  /\ live = {}
  /\ pc = "idle"
  /\ req = 0
  /\ sp = NoSlab

kmalloc(size) ==
  /\ pc = "idle"
  /\ pc' = "find"
  /\ req' = size
  /\ UNCHANGED <<pageVars, pages, slab, live, sp>>

KmallocZero ==
  /\ pc = "find"
  /\ req = 0
  /\ Return
  /\ UNCHANGED <<pageVars, pages, slab, live>>

\* The first slab of the class that has a free object; a page otherwise.
FindSlab ==
  /\ pc = "find"
  /\ req \in 1..MaxSize
  /\ LET i == size_to_index(req)
     IN  \/ \E p \in 1..Len(pages[i]) :
              /\ IsFirstWithFree(i, p)
              /\ sp' = pages[i][p]
              /\ pc' = "take"
              /\ UNCHANGED pageVars
         \/ /\ \A p \in 1..Len(pages[i]) : ~IsFirstWithFree(i, p)
            /\ PA!Ask(1)
            /\ pc' = "slab"
            /\ UNCHANGED sp
  /\ UNCHANGED <<pages, slab, live, req>>

\* alloc_slab_page, given the page: its slab becomes the newest of the class.
AddSlab ==
  /\ pc = "slab"
  /\ LET i == size_to_index(req)
     IN  \E pg \in Region :
           /\ PA!Grant(pg, pg)
           /\ slab' = [p \in Slabs \cup {pg} |->
                         IF p = pg THEN NewSlabPage(pg, i) ELSE slab[p]]
           /\ LinkSlab(i, pg)
           /\ sp' = pg
  /\ pc' = "take"
  /\ UNCHANGED <<live, req>>

\* Faulty variant: the object stays on the free list.
TakeListed ==
  /\ pc = "take"
  /\ LET list == slab[sp].free_list
     IN  /\ list # <<>>
         /\ live' = live \cup {[ptr |-> list[1], size |-> req]}
         /\ slab' = [slab EXCEPT ![sp].used = @ + 1]
  /\ Return
  /\ UNCHANGED <<pageVars, pages>>

\* The head of the slab's free list is taken.  An empty list is a read
\* through NULL: the kernel goes no further.
TakeObject ==
  /\ pc = "take"
  /\ LET list == slab[sp].free_list
     IN  /\ list # <<>>
         /\ live' = live \cup {[ptr |-> list[1], size |-> req]}
         /\ slab' = [slab EXCEPT ![sp].free_list = Tail(list), ![sp].used = @ + 1]
  /\ Return
  /\ UNCHANGED <<pageVars, pages>>

\* More than a page is asked of the page allocator directly.
AskPages ==
  /\ pc = "find"
  /\ req > MaxSize
  /\ PA!Ask(PagesFor(req))
  /\ pc' = "pages"
  /\ UNCHANGED <<pages, slab, live, req, sp>>

GrantPages ==
  /\ pc = "pages"
  /\ \E lo, hi \in Region :
       /\ PA!Grant(lo, hi)
       /\ live' = live \cup {[ptr |-> lo * PGSIZE, size |-> req]}
  /\ Return
  /\ UNCHANGED <<pages, slab>>

\* Faulty variant: kmalloc starts again when it is refused.
KmallocRetry ==
  /\ pc \in {"slab", "pages"}
  /\ PA!Refuse
  /\ pc' = "find"
  /\ UNCHANGED <<pages, slab, live, req, sp>>

\* alloc_pages returned NULL, and so does kmalloc.
KmallocNull ==
  /\ pc \in {"slab", "pages"}
  /\ PA!Refuse
  /\ Return
  /\ UNCHANGED <<pages, slab, live>>

\* The header at the start of the object's page leads to its free list.  Of a
\* large allocation the bytes read as a header are the caller's own; whether
\* they pass the test of cache_idx or not, only these bytes are written, and
\* the pages are never given back.
kfree(o) ==
  /\ pc = "idle"
  /\ o \in live
  /\ live' = live \ {o}
  /\ LET pg == PageOf(o.ptr)
     IN  slab' = IF pg \in Slabs
                 THEN [slab EXCEPT ![pg] = PutBack(@, o.ptr)]
                 ELSE slab
  /\ UNCHANGED <<pageVars, pages, pc, req, sp>>

RunningCall ==
  \/ KmallocZero \/ FindSlab \/ AddSlab \/ TakeObject
  \/ AskPages \/ GrantPages \/ KmallocNull

Next ==
  \/ RunningCall
  \/ \E size \in Sizes : kmalloc(size)
  \/ \E o \in live : kfree(o)

Spec == Init /\ [][Next]_vars

\* Nothing preempts a call, and the page allocator answers (CallsReturn of
\* Buddy).
FairSpec == Spec /\ WF_vars(RunningCall)

-----------------------------------------------------------------------------
Apart(a, m, b, n) == a + m <= b \/ b + n <= a

LiveIn(pg) == {o \in live : PageOf(o.ptr) = pg}

FreeObjects(pg) == {slab[pg].free_list[k] : k \in 1..Len(slab[pg].free_list)}

\* The values of the variables: slabs are in pages the page allocator has
\* granted, and used, an unsigned counter, stays between 0 and the number of
\* objects in the slab.
TypeOK ==
  /\ free \subseteq Region
  /\ owned \subseteq Region
  /\ pages \in [Classes -> Seq(Region)]
  /\ Slabs \subseteq owned
  /\ \A pg \in Slabs :
       /\ slab[pg].used \in 0..slab[pg].obj_per_page
       /\ slab[pg].cache_idx \in Classes
  /\ live \subseteq [ptr : Nat, size : Sizes]
  /\ pc \in PCs
  /\ req \in Sizes \cup {0}
  /\ sp \in Region \cup {NoSlab}

\* No byte a caller may write belongs to anyone else: the live objects do not
\* overlap one another, nor the header of a slab, nor an object on a free
\* list (whose first bytes are its link), and none leaves the pages owned
\* (slab_page_init, kmalloc, kfree).  An object of a class is aligned to it.
ObjectsApart ==
  /\ \A o \in live :
       /\ \A p \in live : p # o => Apart(o.ptr, o.size, p.ptr, p.size)
       /\ \A pg \in Slabs :
            /\ Apart(o.ptr, o.size, pg * PGSIZE, HeaderSize)
            /\ \A f \in FreeObjects(pg) :
                 Apart(o.ptr, o.size, f, ObjSize[slab[pg].cache_idx])
       /\ PageOf(o.ptr) .. PageOf(o.ptr + o.size - 1) \subseteq owned
       /\ PageOf(o.ptr) \in Slabs => o.ptr % ObjSize[size_to_index(o.size)] = 0
  /\ \A pg \in Slabs : \A f \in FreeObjects(pg) :
       /\ f >= pg * PGSIZE + HeaderSize
       /\ f + ObjSize[slab[pg].cache_idx] <= (pg + 1) * PGSIZE

\* The counters of a slab agree with its list and with its callers: used is
\* the number of live objects, each of the others is on the list, once.
ObjectsConserved ==
  \A pg \in Slabs :
    /\ slab[pg].used = Cardinality(LiveIn(pg))
    /\ slab[pg].used + Len(slab[pg].free_list) = slab[pg].obj_per_page
    /\ Cardinality(FreeObjects(pg)) = Len(slab[pg].free_list)

\* Each slab is linked in one cache, the one its cache_idx names.
SlabsLinkedOnce ==
  \A pg \in Slabs, i \in Classes :
    Cardinality({p \in 1..Len(pages[i]) : pages[i][p] = pg})
      = IF i = slab[pg].cache_idx THEN 1 ELSE 0

\* A page is asked for only when every object of the class is in use, so that
\* freed objects are reused before memory grows (slub.c:195).
GrowsOnlyWhenFull ==
  pc = "slab" => \A pg \in Slabs :
    slab[pg].cache_idx = size_to_index(req) =>
      Cardinality(LiveIn(pg)) = slab[pg].obj_per_page

\* A slab that kmalloc takes an object from has one: kmalloc returns an
\* object or NULL, as the tests assert of every class (slub.c:155, 207).
ObjectAtHand == pc = "take" => slab[sp].free_list # <<>>

\* Every kmalloc returns.
KmallocReturns == pc # "idle" ~> pc = "idle"

\* The bytes of the pages of the page allocator.
Bytes == UNION {(pg * PGSIZE)..((pg + 1) * PGSIZE - 1) : pg \in Region}

Heap == INSTANCE ObjectHeap

\* Whatever the slabs and the page allocator do, callers see a heap: kmalloc
\* gives out bytes that belong to nobody else, or NULL, and kfree takes back
\* one object and touches no other (kmalloc, kfree).
ImplementsHeap == Heap!Spec

-----------------------------------------------------------------------------
(* The inductive invariant.                                                *)

\* The addresses slab_page_init makes objects of.
IsObject(pg, i, a) ==
  \E j \in 0..(ObjPerPage(i) - 1) : a = FirstObject(pg, i) + j * ObjSize[i]

PagesOf(o) == PageOf(o.ptr) .. PageOf(o.ptr + o.size - 1)

Large == {o \in live : PageOf(o.ptr) \notin Slabs}

\* The list, the counters and the callers of a slab.
SlabInv(pg) ==
  LET sl == slab[pg]
      list == sl.free_list
      i == sl.cache_idx
  IN  /\ sl \in [free_list : Seq(Nat), used : Nat, obj_per_page : Nat, cache_idx : Classes]
      /\ sl.obj_per_page = ObjPerPage(i)
      /\ sl.used = Cardinality(LiveIn(pg))
      /\ sl.used + Len(list) = sl.obj_per_page
      /\ \A k \in 1..Len(list) : IsObject(pg, i, list[k])
      /\ \A k, m \in 1..Len(list) : list[k] = list[m] => k = m
      /\ \A o \in LiveIn(pg) :
           /\ IsObject(pg, i, o.ptr)
           /\ o.size \in 1..ObjSize[i]
           /\ size_to_index(o.size) = i
           /\ \A k \in 1..Len(list) : list[k] # o.ptr

SlabsInv == \A pg \in Slabs : SlabInv(pg)

LiveInv ==
  /\ live \subseteq [ptr : Nat, size : Sizes \ {0}]
  /\ IsFiniteSet(live)
  /\ \A o, p \in live : o.ptr = p.ptr => o = p
  /\ \A o \in Large :
       /\ PagesOf(o) \subseteq owned \ Slabs
       /\ \A p \in Large : p # o => PagesOf(o) \cap PagesOf(p) = {}

LinksInv ==
  /\ pages \in [Classes -> Seq(Region)]
  /\ \A i \in Classes :
       /\ \A k \in 1..Len(pages[i]) :
            pages[i][k] \in Slabs /\ slab[pages[i][k]].cache_idx = i
       /\ \A k, m \in 1..Len(pages[i]) : pages[i][k] = pages[i][m] => k = m
  /\ \A pg \in Slabs : \E k \in 1..Len(pages[slab[pg].cache_idx]) :
       pages[slab[pg].cache_idx][k] = pg

PagesInv ==
  /\ free \subseteq Region
  /\ owned \subseteq Region
  /\ free \cap owned = {}
  /\ Slabs \subseteq owned

\* What the call under way has found out.
CallInv ==
  /\ pc \in PCs
  /\ req \in Sizes \cup {0}
  /\ sp \in Region \cup {NoSlab}
  /\ asked = CASE pc = "slab" -> 1 [] pc = "pages" -> PagesFor(req) [] OTHER -> -1
  /\ pc \in {"slab", "take"} => req \in 1..MaxSize
  /\ pc = "pages" => req > MaxSize
  /\ pc = "take" => sp \in Slabs /\ slab[sp].cache_idx = size_to_index(req)
  /\ pc = "slab" => \A pg \in Slabs :
       slab[pg].cache_idx = size_to_index(req) => slab[pg].free_list = <<>>

IInv == SlabsInv /\ LiveInv /\ LinksInv /\ PagesInv /\ CallInv
=============================================================================
