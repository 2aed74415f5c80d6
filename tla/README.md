# Verification of the lab2 kernel's memory management

This directory holds TLA+ models of the memory management of the lab2 kernel
(`kern/`, `libs/`), the TLC configurations that check them, and proofs about
them that TLAPS checks. Everything is translated from the C code; line numbers
below and in `PROJECT.json` refer to it.

## The system

The kernel runs on one hart with interrupts off and no scheduler. `kern_init`
(`kern/init/init.c`) clears the bss, reads the device tree, initialises the
console, prints, initialises physical memory management and spins. A call runs
to completion before the next one starts, so what is hard here is not
concurrency but *history*: the allocators keep their books inside the memory
they manage, and a long sequence of legal calls can bring them into states no
test visits.

| component | state | operations | depends on |
|---|---|---|---|
| manager interface, `pmm.c`, `pmm.h` | `pmm_manager`, `pages`, `npage` | `pmm_init`, `page_init`, `alloc_pages`, `free_pages`, `nr_free_pages` | device tree, one manager |
| buddy system, `buddy_pmm.c` (the manager in use, `pmm.c:43`) | `free_lists[0..MAX_ORDER]`, `nr_free`, `max_order_inited`; descriptors in the first `struct Page` of a free block | `init`, `init_memmap`, `alloc_pages`, `free_pages` | `list.h` |
| first fit and best fit, `default_pmm.c`, `best_fit_pmm.c` | one address-ordered list, `nr_free`, `property` and `PG_property` of each page | the same | `list.h` |
| linked list, `list.h` | next and prev of each entry | add, delete, step | - |
| SLUB, `slub.c` | ten caches of slabs; in each slab a header and a free list threaded through its objects | `slub_init`, `kmalloc`, `kfree` | `alloc_pages` |
| device tree, `dtb.c` | `memory_base`, `memory_size` | `dtb_init`, getters | boot firmware |
| string library, `string.c` | none of its own | `strlen` to `memcmp`, `strtol` | - |
| formatted output, `printfmt.c` | the counter and the bounded buffer behind `putdat` | `vprintfmt`, `snprintf` | a character sink |
| console, stdio, sbi | what the firmware shows | `cprintf`, `cputs`, `cputchar`, `getchar` | firmware, printfmt |
| line input, `readline.c` | the static buffer `buf` | `readline` | stdio |
| panic, `panic.c` | `is_panic` | `__panic`, `__warn` | stdio |

The managers are chosen at compile time behind `struct pmm_manager`; SLUB calls
`alloc_page` and `alloc_pages` through it. SLUB is built but `kern_init` never
calls it. `pmm_init` runs the check of the manager in use (`check_alloc_page`)
before anybody else asks for pages; an assertion that fails there stops the
kernel, so the checks are part of the boot.

What makes each component correct:

- *A page manager*: no page has two owners; `nr_free` is exact; a request is
  refused only when the manager cannot serve it; freeing everything restores
  what was there; free blocks that can be joined are joined; calls return.
- *SLUB*: no byte a caller may write belongs to another caller, a header or a
  free object; each slab's counters agree with its list; freed objects are used
  again before memory grows; `kmalloc` returns an object or NULL.
- *Device tree and `page_init`*: the region given to `init_memmap` is memory
  that exists, is mapped and holds neither the kernel nor `pages[]`.
- *The checks at boot*: they end, no assertion of theirs fails, and callers then
  meet a manager as good as new.
- *string.c*: memory and results are what the comments promise, for areas that
  overlap and strings that end anywhere; but for the prefix `0X`, which `strtol` refuses.
- *printfmt, snprintf*: each directive prints what the comments describe, but for
  two departures named below, whatever precedes and follows it, and a buffer is never exceeded.
- *readline*: the line kept, the line shown and the line typed agree.

## The modules

`PageAllocator` is the abstract specification: what `struct pmm_manager`
promises. Its state is the set of free pages, the set of owned pages and the
request under way. `Grant` gives out a run of free pages at least as long as was
asked for, `Refuse` answers NULL (for a single page, only when none is free),
`Release` takes a run back. `LossySpec` adds `Forfeit`, a free run that the
manager drops from its books.

`Buddy` is `buddy_pmm.c` behind the wrappers of `pmm.c`. Its variables have the
names of the C ones, `held` being what callers have, and `pc`, `blk`, `ord`,
`arg` the position and the locals of the running call. Each iteration of a loop
is an action, so that the invariants cover the states inside a call:

| action | code |
|---|---|
| `Init`, `CarveBlock`, `CarveDone` | `buddy_init`; `buddy_init_memmap` (the inner loop that adds several MAX_ORDER blocks is taken block by block: it carves the same blocks in the same order) |
| `alloc_pages`, `AllocNull`, `AllocTake`, `SplitBlock`, `AllocReturn` | `buddy_alloc_pages` |
| `free_pages`, `MergeBuddy`, `AddMerged`, `AddCapped` | `buddy_free_pages` with `buddy_find_and_remove` |

A free list is a sequence of descriptors with the head first, which is what
`list_add` and `list_next` of `list.h` make of it while each descriptor is
linked once; `ListsWellFormed`, a part of `IInv`, says that it is. `BlockSize[k]` stands for
`1UL << k`: the module assumes `BlockSize[0] = 1` and that each is twice the one
before, and `BuddyIndex` flips a bit by adding or subtracting. Callers free what
they were given with the `n` they asked for.

`FitPmm` is both `default_pmm.c` (`BestFit = FALSE`) and `best_fit_pmm.c`
(`BestFit = TRUE`); their code differs only in the search. Here the list is not
a sequence but the pointers of `LinkedList`, because the code can link an entry
twice and follow what that leaves. A caller may free any run of pages it holds
whose length is one of `Requests`, also part of what it was given.
The constant `TailFrees` says whether callers may free a block that lies above
every free block; see the findings.

`BuddyCheck` is the boot of a kernel that uses `Buddy`: `buddy_check` as a
sequence of statements. A statement that calls the manager runs through the
steps of that call; `fill` and `drain` are the loops of `buddy_random_tests` and
of the smoke test. The sizes of the random rounds are any sizes. `FitCheck` is
the same for `FitPmm`: `default_check` and `best_fit_check` with the
`basic_check` they share. They take the manager's list and count away and put
them back between calls of the manager, statement by statement. After the check
both modules go on with `Next` of the manager, for the callers. Left out are the
assertions of `basic_check` on `page_ref` (every
`set_page_ref` of the managers sets 0) and on the range of `page2pa`, and the scores that
are printed.

`LinkedList` is `list.h`, pointer by pointer: each operation is a function from
the next and prev fields to the next and prev fields, in the order of the
assignments.

`Slub` is `slub.c` on top of the variables and actions of `PageAllocator`: a
`kmalloc` that needs a page performs `PA!Ask`, and the page allocator's `Grant`
or `Refuse` continues it. Since `Buddy` implements that contract, what holds
for `Slub` holds on top of it. Objects are byte addresses, the free list of a
slab is the sequence of the addresses its `next` pointers visit. `kfree` of a
large allocation reads the caller's bytes as a header; both outcomes leave the
allocator as it was and the pages are never given back, as the comment at
`slub.c:129-132` says, so the model has one outcome: it takes the branch by
knowing whether the page is a slab, and the bytes written on a wrong guess, which lie in
the block being freed, are argued in a comment and not modelled. `kfree(NULL)` changes nothing and
is left out.

`ObjectHeap` is what `kmalloc` and `kfree` promise, without slabs, classes or pages:
`Grant` gives out bytes that are in no other object, `Refuse` answers NULL,
`kfree` takes one object back. `ImplementsHeap` says that `Slub` refines it; the
`live` and `req` of both are the same.

`Dtb` is `dtb_init` and the token loop of `extract_memory_info`. A tree is the
sequence of the entries of its structure block; what the format itself says of
them (their layout in bytes) is external to the code and used only to place the entries. The
walk is at a byte offset and advances by the code's own arithmetic, so that
losing step is possible in the model. The trees have the five tokens the code
knows, so the default branch of the loop (`dtb.c:97-98`) is never taken. `Boot` continues with `page_init`: words
wrap at `Word`, and `region` is the set of page frames that `init_memmap` gets,
the `RegionBase` and `RegionPages` of the managers' modules counted from
`nbase`.

`Strings` is `string.c`: a caller prepares a small memory and makes one call, each
iteration of its loop is a step, and the outcome is there to see until the next
call. Callers keep to the rules of C: strings end inside the memory, areas fit,
and only those of `memmove` overlap. `strtol` has texts of its own. Overflow of
its result is left out. What the functions should return is defined without the
operators that model the code: `NumberRead` reads a number text by the prefixes, the
digits and the values that the comment above `strtol` grants. One departure has a name of its own: in
base 16 the comment allows `0X` and the code stops behind the 0
(`HasRefusedPrefix`, `ZeroRead`). White space means spaces and tabs, the ones the code skips.

`Printfmt` is `vprintfmt`, a step for each literal character and each piece of a
directive (flag, number, star, point, size, conversion), with the directive's
locals in a frame. `%e` calls `vprintfmt` again, so frames form a stack. A
character is a string; the name of a heading or a message is one
character where its letters do not matter. Ints have `IntBits` bits, longs
`LongBits`. The sinks are `cputch` and `sprintputch`. `Rendered` says what a
directive should print, in one expression over the whole directive; the code
finds its way there character by character. It is what the comments of `printfmt.c`
describe but for two departures, each an operator of its own: with the flag `-` a number is padded
on the left with `-` characters where the comment says on the right
(`PaddedNumber` against `Field`), and strings are padded to a width although fields are
said to be for numbers only (`StringField`). The negation of the most negative
value (`printfmt.c:192, 230`) is undefined and left out.

`Console` adds the callers: `cprintf`, `cputs`, `snprintf`, `__panic`, `__warn`,
`print_kerninfo`, and `readline` over `getchar`. Any contents of the static
buffer may be left from an earlier line. The firmware is external: it shows what
it is given and answers `getchar` with a character, nothing yet, or an error
(the model skips "nothing yet", on which `getchar` just asks again, `stdio.c`).
A panic stops the thread, so nothing panics a second time and the `is_panic` branch of
`__panic` (`panic.c:12-14`) is never taken.
`Libs` puts `Strings` and `Console` together: the one thread is in one or the
other.

`MCBuddy`, `MCBuddyCheck`, `MCFitPmm`, `MCSlub`, `MCBoot` and `MCLibs` give the
constants their values for TLC. `BuddyProofs`, `FitProofs`, `FitCheckProofs`,
`SlubProofs`, `BootProofs` and `StringsProofs` hold the proofs about the modules they
are named for, the first also those about `BuddyCheck`; `ConsoleProofs` those about
`Printfmt`, `Console` and `Libs`; `Numbers` has what they share: the least-number
principle, the existence and uniqueness of functions defined by recursion, and facts
about quotients and remainders.

Definitions marked *Faulty variant* are plausible errors in the definition that
follows them. No action of a specification uses them: each shows that some
property notices when the code goes wrong in that way.

## The runs

Passing runs:

| run | instance | checks |
|---|---|---|
| `buddy_misaligned` | MAX_ORDER 2, pages 3..10, requests 0, 1, 2, 3, 4, 9 | the inductive invariant of the proofs; no page with two owners; exact `nr_free`; pages lost only when two MAX_ORDER blocks are joined; refinement of `LossySpec`; every call returns |
| `buddy_boot` | MAX_ORDER 2, pages 4..13, two random rounds of four requests of 1, 3, 4 or 8 pages, then callers with requests 1, 2, 3, 4, 8 | `buddy_check` ends and no assertion fails; eager coalescing; the carved blocks come back; refinement of `PageAllocator!Spec` across check and callers |
| `fit_managers` | pages 3..7, requests 1 and 4, both managers | the inductive invariant of the proofs; list sorted and readable both ways; every page in one place; coalescing; grants off the list; the search exact for its policy; refinement; every call returns |
| `fit_boot` | pages 3..8, callers with requests of 1, both managers | `default_check` and `best_fit_check` end, no assertion fails, and callers meet an allocator with the whole region free |
| `slub_objects` | 3 pages of 16 bytes, header 4, classes 4, 8, 16, sizes 0, 3, 8, 17 | the inductive invariant of the proofs; refinement of `ObjectHeap`; objects, headers and free objects apart and aligned; counters and lists agree; growth only when full; every `kmalloc` returns |
| `boot_region` | 8-bit words, pages of 4 bytes, trees with a root, up to two nodes and a nested one, nine sizes of memory | the walk stays in step and finds the first memory node's reg; the region is exactly what is left; each page has a descriptor; a panic only without usable memory; the boot ends |
| `libs` | memories of 4 bytes of 3 values, number texts of at most 4 characters, 4-bit ints, buffers of 0, 1 and 5 characters, a line buffer of 3 | string functions against their comments (`0X` apart); directives against `Rendered` (the comments, with two departures); bounded buffers; the line kept, shown and typed |

`buddy_misaligned` starts at an odd index and is carved into two
MAX_ORDER blocks, so splits whose halves are not buddies, buddies that are not
halves of one block, and the joining of two MAX_ORDER blocks all happen; 9 is
above the region, 3 is rounded up, 0 is refused. The region of `buddy_boot` is
aligned and carved into 4 + 4 + 2 pages at 4, 8 and 12, of which the first
two are not buddies (4 and 0, 8 and 12): no join exceeds MAX_ORDER and the full contract holds. The
deterministic tests ask for up to 8 pages, more than any block, which is the NULL
they tolerate; the random rounds reach lists in every state of fragmentation
before the next round begins, and `CAP` is above the number of pages, so the
smoke test ends because memory runs out.

Five pages let the first-fit list have three separate free blocks, so
that a block is inserted in the middle and joined on either or both sides; since
callers may free part of what they hold, blocks of every size and
place arise. Requests of 4 are refused both by `nr_free` and by the search. In
`fit_boot` the region has one page more than the five the checks take, so
that the list they put away is not empty.

In `slub_objects` the header takes a quarter of the page, the first object of the class of 8
is aligned past it, two slabs of one class fill up, a large allocation takes two pages, and
the pages run out. The sizes of `boot_region`
leave no page, one page and many above `pages[]`, end on and off a page
boundary, and end on and off the one that `pages[]` fills; its trees have a reg
of one-cell numbers, properties whose length is no multiple of 4, nodes with a
reg before and after the memory node, and a null or invalid tree. They have no node
whose name merely begins with "memory" and no memory below or away from
`DRAM_BASE`.

In `libs` all calls of each string function on all memories are made: four bytes
hold areas that overlap by one, two or three bytes in either direction, and
three values make strings that differ upwards, downwards and by where
they end. The texts of `strtol` are all those of blanks, signs, `0`, `9`, `a`,
`x`, `X` and `Z` up to length 4, in five bases: every combination of a missing or
present sign, prefix and digit. The directives are the product of five sequences of flags,
four widths, four precisions, three sizes and eleven conversions (one unknown,
one cut short) with arguments at the ends of their ranges, between two
literals, and each twice in one message. A buffer of 5 is shorter and longer than messages,
1 has room for the NUL only. A line buffer of 3 with at most 5 characters
typed is filled, overrun, and erased to its start and beyond.

Runs that show where the code departs from what its documents, comments or
tests say (each fails on the one property it checks):

| run | what happens | what is said |
|---|---|---|
| `buddy_cap_loss` | when two MAX_ORDER blocks are buddies, freeing the second lists both as one MAX_ORDER block: `nr_free` ends 2^MAX_ORDER short and the pages are gone (`buddy_pmm.c:170-174`). In a region of two such blocks `buddy_check` itself fails and the kernel does not boot | `assert(nr_free_pages() == initial_free)`, `buddy_pmm.c:197, 206` |
| `buddy_split_forever` | a block carved at an index that is no multiple of its size is never whole again once split (`buddy_pmm.c:134` against `:84-104`) | "Should be able to coalesce back", `buddy_pmm.c:233` |
| `fit_tail_relisted` | freeing a block above all free ones adds it behind the last entry, meets it as the next entry and adds it behind itself; a later `list_del` does not remove it and it stays listed while a caller holds it (`best_fit_pmm.c:121`, `default_pmm.c:148`) | "unlink the pages from free_list", `default_pmm.c:45` |
| `slub_empty_slab` | a slab of the 4096-byte class has room for no object, so `kmalloc` of 2049 to 4096 bytes reads through NULL (`slub.c:113-114`) | `assert(ptrs[i] != NULL)`, `slub.c:155` |
| `boot_kmemsize` | `pmm.c:86` compares a physical address with the virtual `KERNTOP`, so memory is never limited, and the region would not follow the limit anyway (`pmm.c:103`) | "the maximum amount of physical memory", `memlayout.h:7` |

A search that meets the links left by `fit_tail_relisted` can also go round a
cycle without the list head; it has that cause and no run of its own. The
managers' own checks free such a block (`best_fit_pmm.c:254`, and `p1` and `p2` of
`basic_check`), and `fit_boot` shows that they survive it: the blocks listed twice are
thrown away with the list the check made, or are not the ones the next
assertion asks for. That a check passes says nothing of this defect.

`fit_managers`, and the callers of `fit_boot`, have `TailFrees = FALSE`: a caller
frees only below some free block, or when nothing is free. With `TRUE` the
properties that pass fail, as the violation run shows. In `fit_managers`
`Insert` therefore never adds behind the last entry; the insertions and joins of the
other branch all happen, and the remaining branch is taken by the checks.

Other places where code and text differ, seen while modelling and not run,
because the model follows the code and the difference is in one line:

- `%-5d` pads on the left with `-` characters: `printnum` knows no other side
  (`printfmt.c:139` "flag to pad on the right"): the departure named `PaddedNumber`.
- `%5s` pads a string, where `printfmt.c:8-9` grants width and padding to "the
  numeric formats only": named in `StringField`.
- in `%.0s` the 0 is read as the flag and no precision is set; `%5.` leaves the precision unset.
- `strtol` takes the prefix `0x` but not `0X` in base 16 (`string.c:199`): the departure
  named `HasRefusedPrefix`. It skips spaces and tabs only, where `string.c:181` speaks
  of whitespace.
- the seed of `buddy_random_tests` is a local, so its four rounds ask for the same sizes.
- test 4 of `buddy_check` does not look at `nr_free` after freeing three pages; a
  free that rounded down would pass it.
- the firmware answers -1 when no character waits, while `console.c:18` says 0.

`max_order_inited` is only written; no decision depends on it.

### Bounds

No counter of the models is unbounded: the regions, requests and sizes are the
only bounds, with `N`, `Rounds` and `CAP` of `buddy_check` (256, 4 and 1024 in
the source; 4, 2 and 12 here) and `MaxTyped`, after which only the end of the line can be
typed. MAX_ORDER is 10 in the source and 2 or 3 here; the theorems hold
for every value. `Slub` scales the page and the header down together, `Printfmt`
the widths of int and long.

### Fairness

`FairSpec` adds weak fairness of `RunningCall`, the steps of the call under
way: with one hart, no interrupts and no scheduler, code that is running keeps
running. Nothing is assumed of callers, who may stop calling. In `Slub` it
also covers the answer of the page allocator, which `CallsReturn` of `Buddy`
provides. `FairSpec` of `Boot` and `FairCheckSpec` of the checks are the same
assumption for the one thread of the boot. Nothing is claimed of `getchar`,
which waits for somebody to type.

## What is proved

`BuddyProofs` holds for every `MAX_ORDER`, region, set of requests, under the
assumptions named in `Buddy` (`OrderAssumption`, `SizeAssumption`,
`RegionAssumption`, `RequestsAssumption`).

- `Invariance`: `IInv`, the conjunction of `TypeOK`, `ListsWellFormed`,
  `NoOverlap`, `FreeCount` and `EnoughInHand`, holds always. None of these is inductive
  alone. That unlinking an entry lowers `nr_free` by the right amount and frees
  the page from exactly one place needs the order in the descriptor to be the one
  of the list and the entry to be there once; that a step leaves blocks disjoint needs
  the block in hand to be disjoint from everything first; that `nr_free` is a
  cardinality needs both. The proof splits `IInv` into what it says of the
  lists (`ListInv`), of the callers (`HeldInv`) and of the call in hand
  (`CallInv`), has a lemma for `buddy_add_free` and `buddy_remove_free`
  (`AddFreeInv`, `RemoveFreeInv`) and one for each action.
- `TypeCorrect`, `Exclusive`, `CountExact`: its consequences, stated apart.
- `LossConfined`: pages disappear only in `AddCapped`, and then exactly
  `BlockSize[MAX_ORDER]`. The merged block covers its two halves, and the
  half that is not listed is on no other list (`CappedLoss`).
- `LossyRefinement`: every step of `Buddy` is a step of
  `PageAllocator!LossyNext` or leaves its variables unchanged. The least
  obvious case is NULL: for a single page, the search visits all orders, so if they
  are all empty no page is free (`RefuseStep`).
- `FreedInFullSmall`, `StrictRefinementSmall`: if the region is smaller than two
  MAX_ORDER blocks (`SmallRegion`), `AddCapped` never happens, nothing is ever
  lost, and the contract is kept in full. The hypothesis is where
  `buddy_cap_loss` shows it is needed.

The second part of `BuddyProofs` assumes a region that starts at a multiple of the largest block
(`AlignedRegion`), as that of `buddy_boot` does; `buddy_split_forever` and
the misaligned region of `buddy_misaligned` are what happens otherwise.

- `CoalescedEagerly`: no two free blocks that could be joined are left apart. The
  invariant added to `IInv` (`ApartInv`) says that every block, free, held or in
  hand, starts at a multiple of its size. Then flipping a bit of the index
  is an involution that leads to the other half (`BuddyOf`): the half that a split
  lists has its buddy in hand, and the block that a free lists has one that the
  search did not find, so that no listed block has it for a buddy either (`AddApart`).
- `CoalescesBack`: when nothing is held, the lists hold the blocks first carved. It
  assumes besides that the region does not hold two MAX_ORDER blocks that are buddies
  (`NoPairAtCap`). Aligned blocks are nested or apart (`Nested`). Call a
  block maximal if the block it is a half of does not lie in the region: the free
  blocks are then exactly the maximal ones, since of those that are not, a
  smallest one has a buddy whose pages can be free only as that buddy
  (`ListedMaximal`); and the maximal ones are those `buddy_init_memmap` carves, one for each
  bit of the size of the region (`MaximalCarved`).
- `StrictRefinementAligned`: in such a region the contract is kept in full.
- `BuddyCheckPasses`: no assertion of `buddy_check` fails, for every `MAX_ORDER` from 2
  up, every number and size of the random requests, and every region of
  `CheckableRegion`: aligned, without two buddies of the largest order, and of eight pages or
  more. `buddy_cap_loss` is an aligned region with such buddies, where an assertion fails;
  with fewer pages a request of the tests has no block. The 35 statements of
  `buddy_deterministic_tests` are seen as loans (`Loans`): what one statement borrows and
  a later one gives back. At every statement the callers hold what the loans under way
  were given (`TestInv`), so `nr_free`, which is what nobody holds (`HeldCount`), is what
  the assertion says. That each loan is served needs a block: the
  few pages lent meet at most as many of the aligned blocks of the
  wanted size as there are loans (`SomeBlockFree`), and an aligned block that is wholly free
  lies in a listed one, the half that is not listed being excluded by `NoBuddies`
  (`FreeBlockServes`).
- `CheckIsCaller`, `CheckLeavesWhole`: the check is one of the callers of `Buddy`, so that what is
  proved of these holds while and after the kernel boots.

`FitProofs` holds for both managers, every region (`RegionAssumption`) and every
set of requests, under `TailFrees = FALSE`; `fit_tail_relisted` shows that
without it most of what it proves is false.

- `Inductive`: `IInv` has four parts. `LinksInv` says that the pointers link
  exactly the flagged pages (`OnList`), both ways, and that the next of an entry
  is the nearest flagged page above it: this is local, so that an
  assignment to two pointers can be followed, where the set of pages
  reached from the head cannot. `BlocksInv` says that the flagged pages head
  disjoint blocks which hold all that callers do not; `JoinInv` that blocks
  touch only next to the one being freed; `CallInv` what the search has
  seen so far, and that the place of a freed block lies ahead.
- `ListedIsOnList`, a lemma: walking the list from its head meets every
  flagged page and nothing else, by looking at the lowest page for which it would
  not. It links the local statement to `Listed`, in which the properties
  are stated. `DeleteLinked` and `InsertLinked` are what `list_del` and `list_add`
  do to a sorted list.
- `Sorted`, `PagesAccounted`, `FullyCoalesced`, `Unlinked`, `SearchesExactly`,
  `TypeCorrect`: the properties of `fit_managers`. That the search is exact needs
  that a run of free pages lies in one block (`RunInBlock`), hence that
  blocks do not touch while nothing is being freed.
- `Implements`: both managers refine `PageAllocator!Spec`, without the loss that
  the buddy system has.

`FitCheckProofs` holds for both managers and every region that has a page beyond the five
the checks take (`Checkable`), whatever callers ask for later. It is about the boot, where
the manager's own invariant does not help: the check puts the manager's list away,
and on the empty list it frees pages above all listed ones, which is what `TailFrees`
forbids callers.

- `CheckInductive`: `CheckInv` says for each of the 53 statements of `default_check` and
  the 46 of `best_fit_check` what the list, the blocks, `nr_free`, the pages held and the
  check's variables are. While the list is put away the manager is in a `Row`: a chain
  in address order (`Chained`) in which some entries point back at themselves and some
  lack their flag, having been deleted in vain, beside the block that is off the list but
  keeps its flag and its links. While it is not, `Open` says that the manager's own `IInv` holds, from
  the proofs of which the steps of the calls are taken. `DeleteChained`, `AddBetween` and
  `FreeServed`, `Picked`, `TakeRest` are what `list_del`, `list_add`, `free_pages` and `alloc_pages` make of a
  `Row`; there is one lemma for each statement.
- `CheckSucceeds`: no assertion of the checks fails. `fit_boot` shows this for a region of
  6 pages; a larger one differs in the size of the block that is put away. That the checks pass
  in spite of the defect of `fit_tail_relisted` has two reasons. `basic_check` and `default_check`
  take entries in address order, and deleting the one before an entry that points back at itself
  repairs its link before its turn comes. `best_fit_check` does delete such an entry, `p0 + 4`: it stays
  listed without its flag until the list is thrown away, but it is one page and the requests that
  still look for a block are of two and five.
- `CheckInvisible`: before the check ends nothing of what callers see changes, and when it ends the
  whole region is free; from there `RefinementStep` of `FitProofs` goes on.
  `CheckInductive` and this assume `TailFrees = FALSE`, for the callers.

`SlubProofs` holds for every number of classes, each twice the one before and the largest
a page, every header that fits a page, every region and every set of sizes
(`ClassAssumption`, `PageAssumption`, `SizesAssumption`). The class without room
for an object is included: there the call stops in `TakeObject`, the crash of
`slub_empty_slab`, and what is proved holds until then.

- `Inductive`: `IInv` says of each slab that its free list and its live
  objects are distinct objects of its class, as many as `obj_per_page` together
  (`SlabInv`); that large allocations own their pages alone (`LiveInv`); that
  each slab is in the cache of its class once (`LinksInv`); and what the
  search has excluded when it asks for a page (`CallInv`). `kfree` finds
  the header from the address alone, so its step needs that the page of an object is the
  page of its slab (`ObjectPage`), and `kmalloc` takes a new slab's first
  object, so its step needs `Layout`: as many aligned objects as are counted fit behind the
  header.
- `NoOverlaps`, `Conserved`, `LinkedOnce`, `ReusesFirst`, `TypeCorrect`: its
  consequences, stated apart.
- `ImplementsObjects`: `Slub` refines `ObjectHeap`. Each step that adds an object is
  a `Grant`, since the invariant holds after the step and the object is new; the steps
  that only move slabs and pages about are stutters.

`BootProofs` holds for every set of trees of the form the format prescribes
(`TreesAssumption`: the entries of a block end with END and have no other) and
every machine that satisfies `WordAssumption` and `KernelAssumption` (the
kernel lies in mapped memory).

- `InStep`: the walk reads tokens only where entries start. Entries start at
  multiples of 4 (`StartWords`), and the three formulas by which the code skips an
  entry all lead to the next (`Skips`).
- `Found`: the first memory node's reg is found, or nothing. It assumes
  `PlainMemory`: names that begin with "memory" belong to memory nodes, and these hold no
  other nodes. Then the one flag of the code is as good as a stack: it is
  up exactly in the body of a memory node (`FlagInv`), which is where the
  definition by nesting puts it (`BodyIsNode`).
- `RegionCorrect`, `AllDescribed`, `PanicsOnlyWithout`: what `page_init` makes of it. They
  assume in addition that each memory node's memory begins at `DRAM_BASE`, ends below
  `KERNTOP` and leaves room in a word for the end of `pages[]` (`MemoryFits`);
  `Arithmetic` then removes every remainder and `page_initStep` compares the
  two roundings. `KERNTOP` is a virtual address, far above any memory, as
  `boot_kmemsize` points out.
- `DescriptorsInMemory`: the descriptors end where memory does or before. This needs memory of
  which the kernel takes no larger part than a page has beyond its
  descriptor (`MemoryLeavesRoom`): `page_init` has no check of its own.

`MCBoot` assumes `PlainMemory`, `MemoryFits` and `MemoryLeavesRoom` of its trees, so TLC
confirms that the hypotheses can be met.

`StringsProofs` holds for every memory size, every set of bytes, every set of
terminated texts and every base from 2 to 36, 0 standing for "look at the prefix"
(`StringsAssumption`, `TextsAssumption`).

- `StringsMemoryAsDocumented`: the functions that write leave in memory what
  their comments promise. The invariant of each loop (`WriteLoop`, `BackLoop`) says
  which bytes are done and that the ones still to be read are as they were: for `memmove`
  that is where the direction of the copy matters.
- `StringsResultAsDocumented`: the functions that look return what they should, `0X` in base
  16 apart. The
  loops of `strlen`, `strcmp`, `strchr` and the others have seen no end and no difference
  so far (`CountLoop`, `CompareLoop`, `FindLoop`); `strtol` holds the value of the
  digits it has read (`DigitsLoop`), a recursive function of the text that is unrolled
  one digit a step. That the code's tests find the documented prefix and digits is
  proved, not assumed (`HexPrefixTaken`, `RadixDigitsAre`).

`ConsoleProofs` holds for every message a caller may write (`IsMessage` in
`Printfmt`: directives of any flags, width, precision and size with an argument
that fits; no `%` as a literal, no error code without a positive counterpart, a directive cut
short only at the end), words of any width (`PrintfmtAssumption`), buffers of any size, any
characters typed and any prompts (`ConsoleAssumption`, `LineAssumption`: no NUL is
typed, no prompt moves the cursor back; `MessagesAssumption`). TLC evaluates these
on its own messages.

- `TextAlwaysRendered`, `BufferAlwaysBounded`: the text is the one `Rendered` gives, with
  the two departures it names. A format is the concatenation of
  the pieces of its directives; `At(f, m, out)` says that the frame `f` of `vprintfmt`,
  having written `out`, stands between two directives of `m`, inside one (with its
  flags, width, precision and size read so far in the frame: `Stage`), or in one that is
  printed literally because nobody knows it. `AtStep` shows that each action moves from one
  such place to another. The largest parts are that each conversion prints what
  `Rendered` says of the whole directive (`ConversionWrites`): that `getint` and
  `getuint` are the signed and the unsigned value of so many bits (`GetintIs`, `GetuintIs`),
  that the nested calls of `printnum` spell the shortest numeral (`PrintnumIs`), that the fields
  of a directive are read as written (`NumberFieldIs`, `WidthStep`, `PrecisionStep`). `%e`
  calls `vprintfmt`: `Underway` says this of the stack, whose inner call has a
  message of its own (`ErrorMessageIs`). `Busy` adds the messages already printed, and
  `PrintInv` the calls.
- `LineAlwaysAsEdited`, `ScreenAlwaysShowsLine`: `LineInv` holds the line in the buffer,
  the line that the characters typed make and the one on the screen equal (`Editing`), for which
  none of the kept characters may be a control or NUL. The
  prompt is on the screen because the printing that precedes it ends with it
  (`EndReads`), so that this invariant needs `PrintInv`.
- `LibsInvHolds`, `MemoryAlwaysAsDocumented`, `ResultAlwaysAsDocumented`: the
  string functions and the console leave each other alone.

The library's induction theorems take an operator, which the provers cannot
instantiate; `Numbers` has the least-number principle for a set instead, proved from
the well-foundedness of `<` on the naturals. With it recursive functions are
shown to exist (`RecursionFollows`) and two that agree step by step to be equal
(`RecursionUnique`): `Walk`, `Start`, the quotients of `printnum`, the line typed.

Only model-checked: liveness (`CallsReturn`, `KmallocReturns`, `Boots`,
`BootEnds`), which is out of the prover's reach as is anything about ENABLED. Every other
property of a passing run is stated by a theorem.

## Not modelled

`riscv.h`, `mmu.h` and `memlayout.h` are definitions: macros for registers and
page table entries, which nothing uses after `entry.S`. `entry.S` sets up the
page table and the stack in machine code. `slub_check` is a test that nobody
calls; its calls are among those of `slub_objects`. The descriptor of a free block overlays `ref` and `flags` of its
page in `buddy_pmm.c`; nothing reads these fields of a granted page. The loops
that convert byte order in `dtb.c` are their results.

## What is left

1. *`Slub` on `Buddy`* in one run instead of on the contract.
