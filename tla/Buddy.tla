------------------------------- MODULE Buddy -------------------------------
(***************************************************************************)
(* The buddy system of kern/mm/buddy_pmm.c, the manager the kernel boots   *)
(* with, reached through the wrappers of kern/mm/pmm.c.  A call runs to    *)
(* completion before the next one starts; each iteration of the carving,   *)
(* splitting and coalescing loops is a step, so that the loops' invariants *)
(* are state invariants.  Pages are named by their index in pages[].       *)
(***************************************************************************)
EXTENDS Integers, Sequences, FiniteSets, SequencesExt

CONSTANTS
  MAX_ORDER,       \* largest order kept on a list (10 in the source)
  BlockSize,       \* BlockSize[k] is 1UL << k
  RegionBase,      \* index of the first page given to init_memmap
  RegionPages,     \* how many pages are given to init_memmap
  Requests         \* the n callers pass to alloc_pages

Orders == 0..MAX_ORDER
Region == RegionBase .. (RegionBase + RegionPages - 1)

ASSUME OrderAssumption == MAX_ORDER \in Nat

ASSUME SizeAssumption ==
  /\ BlockSize \in [0..(MAX_ORDER + 1) -> Nat \ {0}]
  /\ BlockSize[0] = 1
  /\ \A k \in Orders : BlockSize[k + 1] = 2 * BlockSize[k]

ASSUME RegionAssumption == RegionBase \in Nat /\ RegionPages \in Nat \ {0}

ASSUME RequestsAssumption == Requests \subseteq Nat

VARIABLES
  free_lists,        \* order -> descriptors on free_lists[order], head first
  nr_free,           \* free_area.nr_free
  max_order_inited,  \* largest order ever put on a list
  pc,                \* where the running call is: see PCs
  blk,               \* carve: cur; split, merge: the block in hand
  ord,               \* o of the running call
  arg,               \* carve: remain; alloc, split: the n asked for
  held               \* what callers hold: [base, n] as allocated

vars == <<free_lists, nr_free, max_order_inited, pc, blk, ord, arg, held>>

PCs == {"carve", "idle", "alloc", "split", "merge"}

-----------------------------------------------------------------------------
\* A descriptor: the head page of a free block, its order and base.
Block(base, k) == [base |-> base, order |-> k]
Span(b) == b.base .. (b.base + BlockSize[b.order] - 1)

IsOrderFor(n, k) ==
  /\ n <= BlockSize[k]
  /\ \A j \in 0..(k - 1) : BlockSize[j] < n

\* Faulty variant: rounds down, so that a request for 3 gets 2 pages.
size_to_order_floor(n) ==
  CHOOSE k \in Orders : /\ BlockSize[k] <= n
                        /\ k < MAX_ORDER => n < BlockSize[k + 1]

size_to_order(n) == CHOOSE k \in Orders : IsOrderFor(n, k)

\* Faulty variant: the search skips the order that fits best.
SearchOrdersAbove(n) == {k \in Orders : \E j \in 0..(k - 1) : IsOrderFor(n, j)}

\* Faulty variant: the search starts at order 0.
SearchOrdersFromZero(n) == {k \in Orders : \E j \in Orders : IsOrderFor(n, j)}

\* Orders the search for n pages visits: size_to_order(n) .. MAX_ORDER.
\* None when n exceeds the largest block.
SearchOrders(n) == {k \in Orders : \E j \in 0..k : IsOrderFor(n, j)}

\* Faulty variant: a block is only ever the left half.
RightNeighbour(i, k) == i + BlockSize[k]

\* idx ^ (1UL << k): bit k of the index flipped.
BuddyIndex(i, k) ==
  IF (i \div BlockSize[k]) % 2 = 0 THEN i + BlockSize[k] ELSE i - BlockSize[k]

\* Faulty variant: counts blocks instead of pages.
buddy_add_free_by_block(base, k) ==
  /\ free_lists' = [free_lists EXCEPT ![k] = <<Block(base, k)>> \o @]
  /\ nr_free' = nr_free + 1
  /\ max_order_inited' = IF k > max_order_inited THEN k ELSE max_order_inited

buddy_add_free(base, k) ==
  /\ free_lists' = [free_lists EXCEPT ![k] = <<Block(base, k)>> \o @]
  /\ nr_free' = nr_free + BlockSize[k]
  /\ max_order_inited' = IF k > max_order_inited THEN k ELSE max_order_inited

\* Unlinks the i-th descriptor of free_lists[k].
buddy_remove_free(k, i) ==
  /\ free_lists' = [free_lists EXCEPT ![k] = RemoveAt(@, i)]
  /\ nr_free' = nr_free - BlockSize[free_lists[k][i].order]
  /\ UNCHANGED max_order_inited

\* Faulty variant: only the head of the list is looked at.
IsHeadBuddy(i, k, p) ==
  /\ p = 1
  /\ free_lists[k][p].base = BuddyIndex(i, k)

\* Position of the buddy of block (i, k) on its free list.
IsFirstBuddy(i, k, p) ==
  /\ p \in 1..Len(free_lists[k])
  /\ free_lists[k][p].base = BuddyIndex(i, k)
  /\ \A q \in 1..(p - 1) : free_lists[k][q].base # BuddyIndex(i, k)

ReturnToCaller ==
  /\ pc' = "idle"
  /\ blk' = 0
  /\ ord' = 0
  /\ arg' = 0

-----------------------------------------------------------------------------
\* buddy_init, and buddy_init_memmap entered with the region.
Init ==
  /\ free_lists = [k \in Orders |-> <<>>]
  /\ nr_free = 0
  /\ max_order_inited = 0
  /\ pc = "carve"
  /\ blk = RegionBase
  /\ ord = 0
  /\ arg = RegionPages
  /\ held = {}

\* One block of buddy_init_memmap: the largest power of two that fits in
\* what remains, MAX_ORDER blocks one after the other above that.
CarveBlock ==
  /\ pc = "carve"
  /\ \E k \in Orders :
       /\ BlockSize[k] <= arg
       /\ k < MAX_ORDER => arg < BlockSize[k + 1]
       /\ buddy_add_free(blk, k)
       /\ blk' = blk + BlockSize[k]
       /\ arg' = arg - BlockSize[k]
  /\ UNCHANGED <<pc, ord, held>>

CarveDone ==
  /\ pc = "carve"
  /\ arg = 0
  /\ ReturnToCaller
  /\ UNCHANGED <<free_lists, nr_free, max_order_inited, held>>

alloc_pages(n) ==
  /\ pc = "idle"
  /\ pc' = "alloc"
  /\ arg' = n
  /\ UNCHANGED <<free_lists, nr_free, max_order_inited, blk, ord, held>>

\* Faulty variant: a search that finds nothing starts again.
AllocNullOrRetry ==
  /\ pc = "alloc"
  /\ IF arg = 0 \/ arg > nr_free
     THEN ReturnToCaller
     ELSE /\ \A k \in SearchOrders(arg) : free_lists[k] = <<>>
          /\ UNCHANGED <<pc, blk, ord, arg>>
  /\ UNCHANGED <<free_lists, nr_free, max_order_inited, held>>

\* buddy_alloc_pages returns NULL.
AllocNull ==
  /\ pc = "alloc"
  /\ \/ arg = 0
     \/ arg > nr_free
     \/ \A k \in SearchOrders(arg) : free_lists[k] = <<>>
  /\ ReturnToCaller
  /\ UNCHANGED <<free_lists, nr_free, max_order_inited, held>>

\* The head of the first non-empty list from the needed order up is taken.
AllocTake ==
  /\ pc = "alloc"
  /\ arg # 0
  /\ arg <= nr_free
  /\ \E k \in SearchOrders(arg) :
       /\ free_lists[k] # <<>>
       /\ \A j \in SearchOrders(arg) : j < k => free_lists[j] = <<>>
       /\ blk' = free_lists[k][1].base
       /\ ord' = k
       /\ buddy_remove_free(k, 1)
  /\ pc' = "split"
  /\ UNCHANGED <<arg, held>>

\* Faulty variant: the half that is kept is the one put on the list.
SplitBlockKeepingFreed ==
  /\ pc = "split"
  /\ ord > size_to_order(arg)
  /\ ord' = ord - 1
  /\ buddy_add_free(blk, ord - 1)
  /\ UNCHANGED <<pc, blk, arg, held>>

\* The upper half of the block in hand goes back on the list below.
SplitBlock ==
  /\ pc = "split"
  /\ ord > size_to_order(arg)
  /\ ord' = ord - 1
  /\ buddy_add_free(blk + BlockSize[ord - 1], ord - 1)
  /\ UNCHANGED <<pc, blk, arg, held>>

AllocReturn ==
  /\ pc = "split"
  /\ ord = size_to_order(arg)
  /\ held' = held \cup {[base |-> blk, n |-> arg]}
  /\ ReturnToCaller
  /\ UNCHANGED <<free_lists, nr_free, max_order_inited>>

\* A caller gives back what it was given, with the n it asked for.
free_pages(a) ==
  /\ pc = "idle"
  /\ a \in held
  /\ held' = held \ {a}
  /\ pc' = "merge"
  /\ blk' = a.base
  /\ ord' = size_to_order(a.n)
  /\ UNCHANGED <<free_lists, nr_free, max_order_inited, arg>>

\* Faulty variant: the joined block keeps the address of the block freed.
MergeBuddyInPlace ==
  /\ pc = "merge"
  /\ ord <= MAX_ORDER
  /\ \E p \in 1..Len(free_lists[ord]) :
       /\ IsFirstBuddy(blk, ord, p)
       /\ buddy_remove_free(ord, p)
  /\ ord' = ord + 1
  /\ UNCHANGED <<pc, blk, arg, held>>

\* The buddy is on the list of the same order: it is unlinked and joined to
\* the block in hand, which continues at the lower address.
MergeBuddy ==
  /\ pc = "merge"
  /\ ord <= MAX_ORDER
  /\ \E p \in 1..Len(free_lists[ord]) :
       /\ IsFirstBuddy(blk, ord, p)
       /\ buddy_remove_free(ord, p)
  /\ blk' = IF blk > BuddyIndex(blk, ord) THEN BuddyIndex(blk, ord) ELSE blk
  /\ ord' = ord + 1
  /\ UNCHANGED <<pc, arg, held>>

\* The buddy is not free: the block in hand goes on its list.
AddMerged ==
  /\ pc = "merge"
  /\ ord <= MAX_ORDER
  /\ \A p \in 1..Len(free_lists[ord]) : ~IsFirstBuddy(blk, ord, p)
  /\ buddy_add_free(blk, ord)
  /\ ReturnToCaller
  /\ UNCHANGED held

\* Two MAX_ORDER blocks were joined: the result is listed as MAX_ORDER.
AddCapped ==
  /\ pc = "merge"
  /\ ord > MAX_ORDER
  /\ buddy_add_free(blk, MAX_ORDER)
  /\ ReturnToCaller
  /\ UNCHANGED held

RunningCall ==
  \/ CarveBlock \/ CarveDone
  \/ AllocNull \/ AllocTake \/ SplitBlock \/ AllocReturn
  \/ MergeBuddy \/ AddMerged \/ AddCapped

Next ==
  \/ RunningCall
  \/ \E n \in Requests : alloc_pages(n)
  \/ \E a \in held : free_pages(a)

Spec == Init /\ [][Next]_vars

\* One hart, interrupts off, no scheduler: a call that is under way keeps
\* executing.
FairSpec == Spec /\ WF_vars(RunningCall)

-----------------------------------------------------------------------------
ListedBlocks == UNION {{free_lists[k][i] : i \in 1..Len(free_lists[k])} : k \in Orders}
FreePages == UNION {Span(b) : b \in ListedBlocks}

\* The block set aside for a caller.
HeldBlock(a) == Block(a.base, size_to_order(a.n))
HeldPages == UNION {Span(HeldBlock(a)) : a \in held}

\* Pages the running call has in hand, on no list and not yet given out.
HandPages ==
  IF pc = "carve" THEN blk .. (blk + arg - 1)
  ELSE IF pc \in {"split", "merge"} THEN blk .. (blk + BlockSize[ord] - 1)
  ELSE {}

\* Every page the allocator or a caller still knows of.
KnownPages == FreePages \cup HandPages \cup HeldPages

-----------------------------------------------------------------------------
\* The values of the variables, in every reachable state: the descriptors
\* linked on the lists name blocks of the region, and no counter goes out of
\* range (buddy_add_free and buddy_remove_free, nr_free an unsigned int).
TypeOK ==
  /\ free_lists \in [Orders -> Seq([base : Region, order : Orders])]
  /\ nr_free \in 0..RegionPages
  /\ max_order_inited \in Orders
  /\ pc \in PCs
  /\ blk \in Nat
  /\ ord \in 0..(MAX_ORDER + 1)
  /\ arg \in Nat
  /\ held \in SUBSET [base : Region, n : 1..RegionPages]

\* A block is linked once, on the list of its own order, so that the order
\* buddy_remove_free reads in the descriptor is the one of the list it
\* unlinks it from.
ListsWellFormed ==
  \A k \in Orders : \A i \in 1..Len(free_lists[k]) :
    /\ free_lists[k][i].order = k
    /\ \A j \in 1..Len(free_lists[k]) :
         free_lists[k][i] = free_lists[k][j] => i = j

\* Free blocks are pairwise disjoint: no page is on two lists or twice on
\* one, whatever buddy_free_pages joined and buddy_alloc_pages split.
FreeDisjoint ==
  \A b, c \in ListedBlocks : b # c => Span(b) \cap Span(c) = {}

\* No two callers share a page, and no page a caller holds is free.
HeldDisjoint ==
  /\ \A a, c \in held : a # c => Span(HeldBlock(a)) \cap Span(HeldBlock(c)) = {}
  /\ HeldPages \cap FreePages = {}

\* The block a split or a merge works on overlaps nothing else.
HandDisjoint == HandPages \cap (FreePages \cup HeldPages) = {}

\* The allocator never touches a page it was not given.
InRegion == KnownPages \subseteq Region

\* No page has two owners: the lists, the callers and the block the running
\* call has in hand never overlap (buddy_alloc_pages, buddy_free_pages).
NoOverlap == FreeDisjoint /\ HeldDisjoint /\ HandDisjoint /\ InRegion

\* nr_free, the counter alloc_pages tests before it searches, is the number
\* of pages on the lists after every link and unlink.
FreeCount == nr_free = Cardinality(FreePages)

\* While a request is served the block in hand is never too small for it, and
\* what a caller holds is one whole block (buddy_alloc_pages splits down to
\* need_order, never below).
EnoughInHand ==
  /\ pc = "split" => /\ arg \in 1..RegionPages
                     /\ ord \in Orders
                     /\ \E k \in 0..ord : IsOrderFor(arg, k)
  /\ \A a \in held : \E k \in Orders : IsOrderFor(a.n, k)

\* The inductive invariant of the buddy system.
IInv == TypeOK /\ ListsWellFormed /\ NoOverlap /\ FreeCount /\ EnoughInHand

\* Pages disappear from the books only when buddy_free_pages joins two
\* MAX_ORDER blocks, and then exactly one of the two is lost.
LossOnlyAtCap ==
  [][KnownPages' # KnownPages =>
       /\ pc = "merge" /\ ord = MAX_ORDER + 1 /\ pc' = "idle"
       /\ KnownPages' \subseteq KnownPages
       /\ Cardinality(KnownPages \ KnownPages') = BlockSize[MAX_ORDER]]_vars

\* Once every caller has given its pages back, nr_free is what it was after
\* boot: assert(nr_free_pages() == initial_free), buddy_pmm.c:197 and 206.
FreedInFull == (pc = "idle" /\ held = {}) => nr_free = RegionPages

\* Between calls no two free blocks could still be joined: coalescing is
\* never left for later, whatever the order of the frees.
EagerCoalescing ==
  pc = "idle" =>
    \A b, c \in ListedBlocks :
      ~ /\ b.order = c.order
        /\ b.order < MAX_ORDER
        /\ c.base = BuddyIndex(b.base, b.order)

\* The region in blocks: as many MAX_ORDER blocks as fit, then one block for
\* each bit that is set in the number of pages left, largest first.
CarvedBlocks ==
  {Block(RegionBase + i * BlockSize[MAX_ORDER], MAX_ORDER) :
     i \in 0..(RegionPages \div BlockSize[MAX_ORDER] - 1)}
  \cup
  {Block(RegionBase + (RegionPages \div BlockSize[k + 1]) * BlockSize[k + 1], k) :
     k \in {j \in 0..(MAX_ORDER - 1) : (RegionPages \div BlockSize[j]) % 2 = 1}}

\* When every caller has given its pages back, all splits have been undone:
\* the lists hold the very blocks the region was carved into
\* ("Should be able to coalesce back", buddy_pmm.c:233).
CoalesceBack == (pc = "idle" /\ held = {}) => ListedBlocks = CarvedBlocks

\* Every call returns: the carving, splitting and coalescing loops end.
CallsReturn == pc # "idle" ~> pc = "idle"

-----------------------------------------------------------------------------
(***************************************************************************)
(* The contract a pmm_manager offers.  A block in hand is still free until *)
(* alloc_pages returns it, and free again as soon as free_pages is called. *)
(***************************************************************************)
PA == INSTANCE PageAllocator WITH
        free <- FreePages \cup HandPages,
        owned <- HeldPages,
        asked <- IF pc \in {"alloc", "split"} THEN arg ELSE -1

\* The buddy system keeps the contract of a page allocator: it grants only
\* free pages, refuses a single page only when none is free and takes back
\* what it is given.
ImplementsAllocator == PA!Spec

\* The same, in a region where joining two MAX_ORDER blocks forfeits pages.
ImplementsLossyAllocator == PA!LossySpec
=============================================================================
