------------------------------- MODULE FitPmm -------------------------------
(***************************************************************************)
(* The first-fit manager of kern/mm/default_pmm.c and the best-fit manager *)
(* of kern/mm/best_fit_pmm.c, which differ only in how the search picks a  *)
(* block; pmm.c says which of them is used.  Free blocks hang on one list, *)
(* in address order, linked through their first page.  Each iteration of a *)
(* loop over the list is a step.                                           *)
(***************************************************************************)
EXTENDS Integers, FiniteSets, LinkedList

CONSTANTS
  RegionBase,      \* index of the first page given to init_memmap
  RegionPages,     \* how many pages are given to init_memmap
  Requests,        \* the n callers pass to alloc_pages
  Managers,        \* which of the two pmm.c may be compiled with
  TailFrees        \* may callers free a block that lies above all free ones?

ASSUME RegionAssumption == RegionBase \in Nat /\ RegionPages \in Nat \ {0}
ASSUME RequestsAssumption == Requests \subseteq Nat \ {0}   \* assert(n > 0)
ASSUME SwitchAssumption ==
  /\ Managers \subseteq {"default_pmm_manager", "best_fit_pmm_manager"}
  /\ TailFrees \in BOOLEAN

Region == RegionBase .. (RegionBase + RegionPages - 1)

free_list == -1            \* the list head; no page has this index
NULL == free_list          \* no page chosen
Entries == Region \cup {free_list}

VARIABLES
  pmm_manager,     \* the manager in use
  links,           \* the next and prev fields of every page_link and of free_list
  property,        \* p->property: for the head of a free block, its size
  PageProperty,    \* the pages whose PG_property flag is set
  nr_free,
  pc,              \* where the running call is: see PCs
  le,              \* the loop's position on the list
  page,            \* alloc: the block chosen so far; free: base
  arg,             \* alloc: n
  owned            \* the pages callers hold

vars == <<pmm_manager, links, property, PageProperty, nr_free,
          pc, le, page, arg, owned>>

BestFit == pmm_manager = "best_fit_pmm_manager"

PCs == {"idle", "scan", "take", "null", "insert", "merge_low", "merge_high"}

ReturnToCaller ==
  /\ pc' = "idle"
  /\ le' = free_list
  /\ page' = NULL
  /\ arg' = 0

-----------------------------------------------------------------------------
(* The entries met from the head on.                                       *)

Walk[i \in 0..(RegionPages + 1)] ==
  IF i = 0 THEN free_list ELSE list_next(links, Walk[i - 1])

Listed == {Walk[i] : i \in 1..(RegionPages + 1)} \ {free_list}

Pages(p) == p .. (p + property[p] - 1)
FreePages == UNION {Pages(p) : p \in Listed}

\* The block being freed, until it is linked.
HandPages == IF pc = "insert" THEN Pages(page) ELSE {}

-----------------------------------------------------------------------------
\* default_init, and default_init_memmap called with the region: the list is
\* empty, so its single block is linked behind the head.
Init ==
  /\ pmm_manager \in Managers
  /\ LET unlinked == [next |-> [e \in Entries |-> free_list],
                      prev |-> [e \in Entries |-> free_list]]
     IN  links = list_add(list_init(unlinked, free_list), free_list, RegionBase)
  /\ property = [p \in Region |-> IF p = RegionBase THEN RegionPages ELSE 0]
  /\ PageProperty = {RegionBase}
  /\ nr_free = RegionPages
  /\ pc = "idle"
  /\ le = free_list
  /\ page = NULL
  /\ arg = 0
  /\ owned = {}

\* Faulty variant: any block will do.
FitsAny(p) == TRUE

Fits(p) == property[p] >= arg

\* Faulty variant: starts at a size that some block may have.
min_size_reachable == IF page = NULL THEN nr_free ELSE property[page]

\* What a block must be smaller than to be chosen.
min_size == IF page = NULL THEN nr_free + 1 ELSE property[page]

alloc_pages(n) ==
  /\ pc = "idle"
  /\ pc' = IF n > nr_free THEN "null" ELSE "scan"
  /\ arg' = n
  /\ UNCHANGED <<links, property, PageProperty, nr_free, le, page, owned>>

\* First fit: the loop stops at the first block that is large enough.
ScanFirst ==
  /\ pc = "scan"
  /\ ~BestFit
  /\ list_next(links, le) # free_list
  /\ le' = list_next(links, le)
  /\ IF Fits(le')
     THEN page' = le' /\ pc' = "take"
     ELSE UNCHANGED <<page, pc>>
  /\ UNCHANGED <<links, property, PageProperty, nr_free, arg, owned>>

\* Best fit: the loop remembers the smallest block that is large enough.
ScanBest ==
  /\ pc = "scan"
  /\ BestFit
  /\ list_next(links, le) # free_list
  /\ le' = list_next(links, le)
  /\ page' = IF Fits(le') /\ property[le'] < min_size THEN le' ELSE page
  /\ UNCHANGED <<links, property, PageProperty, nr_free, pc, arg, owned>>

ScanEnd ==
  /\ pc = "scan"
  /\ list_next(links, le) = free_list
  /\ pc' = IF page = NULL THEN "null" ELSE "take"
  /\ UNCHANGED <<links, property, PageProperty, nr_free, le, page, arg, owned>>

AllocNull ==
  /\ pc = "null"
  /\ ReturnToCaller
  /\ UNCHANGED <<links, property, PageProperty, nr_free, owned>>

\* Faulty variant: the remainder keeps the size of the whole block.
RestWhole == property[page]

\* Pages of the chosen block beyond the n asked for.
Rest == property[page] - arg

\* Faulty variant: nr_free is not lowered.
LowerFreeNot == UNCHANGED nr_free

LowerFree == nr_free' = nr_free - arg

\* Faulty variant: PG_property of the block stays set.
KeepFlag(flags) == PageProperty' = flags

ClearFlag(flags) == PageProperty' = flags \ {page}

\* The block is unlinked; what it has beyond n pages takes its place.
Take ==
  /\ pc = "take"
  /\ LET rest == page + arg
         without == list_del(links, page)
     IN  IF property[page] > arg
         THEN /\ links' = list_add(without, list_prev(links, page), rest)
              /\ property' = [property EXCEPT ![rest] = Rest]
              /\ ClearFlag(PageProperty \cup {rest})
         ELSE /\ links' = without
              /\ ClearFlag(PageProperty)
              /\ UNCHANGED property
  /\ LowerFree
  /\ owned' = owned \cup page .. (page + arg - 1)
  /\ ReturnToCaller

\* assert(!PageProperty(p)) of each page that is freed; a failing assertion
\* stops the kernel.
Freeable(base, n) == PageProperty \cap base .. (base + n - 1) = {}

free_pages(base, n) ==
  /\ pc = "idle"
  /\ Freeable(base, n)
  /\ owned' = owned \ base .. (base + n - 1)
  /\ property' = [property EXCEPT ![base] = n]
  /\ PageProperty' = PageProperty \cup {base}
  /\ nr_free' = nr_free + n
  /\ page' = base
  /\ IF list_empty(links, free_list)
     THEN /\ links' = list_add(links, free_list, base)
          /\ pc' = "merge_low"
     ELSE /\ pc' = "insert"
          /\ UNCHANGED links
  /\ UNCHANGED <<le, arg>>

\* Faulty variant: the loop does not move on from a block below base.
InsertStuck ==
  /\ pc = "insert"
  /\ IF page < list_next(links, le)
     THEN /\ links' = list_add_before(links, list_next(links, le), page)
          /\ pc' = "merge_low"
     ELSE UNCHANGED <<links, pc>>
  /\ UNCHANGED <<property, PageProperty, nr_free, le, page, arg, owned>>

\* The loop that looks for the place of base: its test, and one iteration.  A
\* block put behind the last one does not end the loop: it is met next, and
\* added once more.
Insert ==
  /\ pc = "insert"
  /\ IF list_next(links, le) = free_list
     THEN pc' = "merge_low" /\ UNCHANGED <<links, le>>
     ELSE /\ le' = list_next(links, le)
          /\ IF page < le'
             THEN /\ links' = list_add_before(links, le', page)
                  /\ pc' = "merge_low"
             ELSE /\ links' = IF list_next(links, le') = free_list
                              THEN list_add(links, le', page) ELSE links
                  /\ UNCHANGED pc
  /\ UNCHANGED <<property, PageProperty, nr_free, page, arg, owned>>

\* Faulty variant: a block joined to the one before it is not joined to the
\* one after it.
MergeLowOnly ==
  /\ pc = "merge_low"
  /\ LET p == list_prev(links, page)
     IN  IF p # free_list /\ p + property[p] = page
         THEN /\ property' = [property EXCEPT ![p] = @ + property[page]]
              /\ PageProperty' = PageProperty \ {page}
              /\ links' = list_del(links, page)
              /\ ReturnToCaller
         ELSE /\ pc' = "merge_high"
              /\ UNCHANGED <<property, PageProperty, links, page, le, arg>>
  /\ UNCHANGED <<nr_free, owned>>

\* Join base to the block before it.
MergeLow ==
  /\ pc = "merge_low"
  /\ LET p == list_prev(links, page)
     IN  IF p # free_list /\ p + property[p] = page
         THEN /\ property' = [property EXCEPT ![p] = @ + property[page]]
              /\ PageProperty' = PageProperty \ {page}
              /\ links' = list_del(links, page)
              /\ page' = p
         ELSE UNCHANGED <<property, PageProperty, links, page>>
  /\ pc' = "merge_high"
  /\ UNCHANGED <<nr_free, le, arg, owned>>

\* Join base to the block after it.
MergeHigh ==
  /\ pc = "merge_high"
  /\ LET p == list_next(links, page)
     IN  IF p # free_list /\ page + property[page] = p
         THEN /\ property' = [property EXCEPT ![page] = @ + property[p]]
              /\ PageProperty' = PageProperty \ {p}
              /\ links' = list_del(links, p)
         ELSE UNCHANGED <<property, PageProperty, links>>
  /\ ReturnToCaller
  /\ UNCHANGED <<nr_free, owned>>

RunningCall ==
  \/ ScanFirst \/ ScanBest \/ ScanEnd \/ AllocNull \/ Take
  \/ Insert \/ MergeLow \/ MergeHigh

\* A caller gives back any run of pages it holds.
CallerFrees(base, n) ==
  /\ base .. (base + n - 1) \subseteq owned
  /\ TailFrees \/ list_empty(links, free_list) \/ \E p \in Listed : p > base
  /\ free_pages(base, n)

CallerStep ==
  \/ \E n \in Requests : alloc_pages(n)
  \/ \E base \in Region, n \in Requests : CallerFrees(base, n)

Next ==
  /\ RunningCall \/ CallerStep
  /\ UNCHANGED pmm_manager

Spec == Init /\ [][Next]_vars

\* Nothing preempts a call: the loop under way keeps executing.
FairSpec == Spec /\ WF_vars(RunningCall /\ UNCHANGED pmm_manager)

-----------------------------------------------------------------------------
\* The values of the variables: nr_free and the sizes never leave the range
\* of the region, so the unsigned arithmetic on them never wraps.
TypeOK ==
  /\ pmm_manager \in Managers
  /\ links \in [next : [Entries -> Entries], prev : [Entries -> Entries]]
  /\ property \in [Region -> 0..RegionPages]
  /\ PageProperty \subseteq Region
  /\ nr_free \in 0..RegionPages
  /\ pc \in PCs
  /\ le \in Entries
  /\ page \in Entries
  /\ arg \in Nat
  /\ owned \subseteq Region

\* The list is circular, readable in both directions and in address order
\* ("from low to high addr", default_pmm.c:53).
WellLinked ==
  \A e \in Listed \cup {free_list} :
    /\ list_prev(links, list_next(links, e)) = e
    /\ list_next(links, e) # free_list => list_next(links, e) > e

\* Every page is on the list, held by a caller or in hand, and in one of
\* these places only; the listed blocks do not overlap and nr_free is the
\* number of pages in them.
Accounted ==
  /\ \A p, q \in Listed : p # q => Pages(p) \cap Pages(q) = {}
  /\ FreePages \cup HandPages = Region \ owned
  /\ FreePages \cap HandPages = {}
  /\ nr_free = Cardinality(FreePages \cup HandPages)

\* Between calls no free block ends where another begins ("try to merge low
\* addr or high addr blocks", default_pmm.c:55).
Coalesced == pc = "idle" => \A p \in Listed : p + property[p] \notin Listed

\* What a caller holds has left the list ("unlink the pages from free_list",
\* default_pmm.c:45), and PG_property marks the heads of the listed blocks,
\* so that the assertion of free_pages never fails.
GrantedUnlinked ==
  pc = "idle" => Listed \cap owned = {} /\ PageProperty = Listed

NullJustified ==
  pc = "null" => \A p \in Region : ~(p .. (p + arg - 1) \subseteq FreePages)

LowestFit ==
  (pc = "take" /\ ~BestFit) =>
    \A p \in Region : p .. (p + arg - 1) \subseteq FreePages => page <= p

TightestFit ==
  (pc = "take" /\ BestFit) =>
    \A p, q \in Region :
      (/\ p .. q \subseteq FreePages
       /\ p - 1 \notin FreePages /\ q + 1 \notin FreePages
       /\ q - p + 1 >= arg)
      => property[page] <= q - p + 1

\* The search over the list decides as one over the whole region would: NULL
\* only when no n consecutive pages are free, with first fit the lowest such
\* pages, with best fit those of the smallest run of free pages that has n.
SearchExact == NullJustified /\ LowestFit /\ TightestFit

\* Every call returns ("If we can not find a free block (block size >=n),
\* then return NULL", default_pmm.c:50): no loop over the list runs forever.
CallsReturn == pc # "idle" ~> pc = "idle"

PA == INSTANCE PageAllocator WITH
        free <- FreePages \cup HandPages,
        asked <- IF pc \in {"scan", "take", "null"} THEN arg ELSE -1

\* The manager keeps the contract of a page allocator.
ImplementsAllocator == PA!Spec
-----------------------------------------------------------------------------
(* The inductive invariant, of callers that free no block above all free   *)
(* ones.                                                                   *)

\* The free blocks that are linked: all but the one whose place is looked for.
OnList == IF pc = "insert" THEN PageProperty \ {page} ELSE PageProperty

\* The list memory l links the blocks of L in address order, both ways.
Linked(l, L) ==
  \A e \in L \cup {free_list} :
    /\ list_next(l, e) \in L \cup {free_list}
    /\ list_prev(l, e) \in L \cup {free_list}
    /\ list_prev(l, list_next(l, e)) = e
    /\ list_next(l, list_prev(l, e)) = e
    /\ list_next(l, e) # free_list => list_next(l, e) > e
    /\ \A p \in L : p > e => list_next(l, e) # free_list /\ list_next(l, e) <= p

LinksInv ==
  /\ links \in [next : [Entries -> Entries], prev : [Entries -> Entries]]
  /\ Linked(links, OnList)

\* The flagged pages head disjoint blocks, which hold what callers do not.
BlocksInv ==
  /\ PageProperty \subseteq Region
  /\ owned \subseteq Region
  /\ property \in [Region -> 0..RegionPages]
  /\ \A p \in PageProperty :
       property[p] > 0 /\ p + property[p] <= RegionBase + RegionPages
  /\ \A p, q \in PageProperty : p < q => p + property[p] <= q
  /\ UNION {Pages(p) : p \in PageProperty} = Region \ owned
  /\ nr_free = Cardinality(Region \ owned)

\* Only next to the block being freed may two blocks touch.
JoinInv ==
  \A p \in PageProperty :
    p + property[p] \in PageProperty =>
      \/ pc \in {"insert", "merge_low"} /\ page \in {p, p + property[p]}
      \/ pc = "merge_high" /\ page = p

\* What the call under way has found out.
CallInv ==
  /\ pmm_manager \in Managers
  /\ pc \in PCs
  /\ le \in Entries
  /\ page \in Entries
  /\ arg \in Nat
  /\ pc = "idle" => le = free_list /\ page = NULL /\ arg = 0
  /\ pc \in {"scan", "take", "null"} => arg # 0
  /\ pc \in {"scan", "insert"} => le \in OnList \cup {free_list}
  /\ pc = "scan" =>
       /\ page # NULL => BestFit /\ page \in PageProperty /\ property[page] >= arg
       /\ \A p \in PageProperty :
            p <= le /\ property[p] >= arg => page # NULL /\ property[page] <= property[p]
  /\ pc = "take" =>
       /\ page \in PageProperty /\ property[page] >= arg
       /\ \A p \in PageProperty : property[p] >= arg =>
            IF BestFit THEN property[page] <= property[p] ELSE page <= p
  /\ pc = "null" => \A p \in PageProperty : property[p] < arg
  /\ pc \in {"insert", "merge_low", "merge_high"} => page \in PageProperty
  /\ pc = "insert" => le < page /\ \E q \in PageProperty : q > page

IInv == LinksInv /\ BlocksInv /\ JoinInv /\ CallInv
=============================================================================
