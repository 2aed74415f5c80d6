--------------------------- MODULE PageAllocator ---------------------------
(***************************************************************************)
(* What a physical memory manager promises its callers: the contract of    *)
(* struct pmm_manager (kern/mm/pmm.h), independent of how the free pages   *)
(* are organised.  Every page of Region is free, owned by a caller, or     *)
(* (only under LossySpec) lost to the allocator for good.                  *)
(***************************************************************************)
EXTENDS Integers

CONSTANTS
  Region,          \* the page indices handed to init_memmap
  Requests         \* the sizes callers ask for

VARIABLES
  free,            \* pages the allocator can still hand out
  owned,           \* pages reserved for callers
  asked            \* size of the alloc_pages call under way, NoCall if none

vars == <<free, owned, asked>>

NoCall == -1

Init ==
  /\ free = Region
  /\ owned = {}
  /\ asked = NoCall

\* alloc_pages(n) is entered.
Ask(n) ==
  /\ asked = NoCall
  /\ asked' = n
  /\ UNCHANGED <<free, owned>>

\* alloc_pages returns a run lo..hi of at least the size asked for, all of
\* it free until now.
Grant(lo, hi) ==
  /\ asked # NoCall
  /\ hi - lo + 1 >= asked
  /\ lo..hi \subseteq free
  /\ free' = free \ (lo..hi)
  /\ owned' = owned \cup (lo..hi)
  /\ asked' = NoCall

\* alloc_pages returns NULL.  Fragmentation may cause that for any request
\* but a single page, which any free page can serve.
Refuse ==
  /\ asked # NoCall
  /\ asked = 1 => free = {}
  /\ asked' = NoCall
  /\ UNCHANGED <<free, owned>>

\* free_pages takes a run back from its owner.
Release(lo, hi) ==
  /\ asked = NoCall
  /\ lo..hi \subseteq owned
  /\ owned' = owned \ (lo..hi)
  /\ free' = free \cup (lo..hi)
  /\ UNCHANGED asked

\* The allocator drops a free run from its books.
Forfeit(lo, hi) ==
  /\ asked = NoCall
  /\ lo..hi \subseteq free
  /\ free' = free \ (lo..hi)
  /\ UNCHANGED <<owned, asked>>

Next ==
  \/ \E n \in Requests : Ask(n)
  \/ \E lo, hi \in Region : Grant(lo, hi) \/ Release(lo, hi)
  \/ Refuse

LossyNext ==
  \/ Next
  \/ \E lo, hi \in Region : Forfeit(lo, hi)

Spec == Init /\ [][Next]_vars
LossySpec == Init /\ [][LossyNext]_vars
=============================================================================
