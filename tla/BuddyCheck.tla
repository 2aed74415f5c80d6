----------------------------- MODULE BuddyCheck -----------------------------
(***************************************************************************)
(* The boot of a kernel that uses the buddy system: pmm_init calls         *)
(* buddy_check before anybody else may ask for pages.  It makes a fixed    *)
(* sequence of calls, rounds of calls of pseudo-random sizes, and takes    *)
(* single pages until there are no more; an assertion that fails stops the *)
(* kernel.  The sizes of the rounds are any sizes here.                    *)
(*                                                                         *)
(* buddy_check is a sequence of statements.  A statement that calls the    *)
(* manager runs through the steps of that call; fill and drain are loops.  *)
(***************************************************************************)
EXTENDS Buddy

CONSTANTS
  Sizes,           \* the sizes of the randomized tests (1..16 in the source)
  N,               \* how many of them are tried in a round (256)
  Rounds,          \* how many rounds (4)
  CAP              \* how many single pages the smoke test takes (1024)

VARIABLES
  line,            \* the statement buddy_check is at
  local,           \* a, b, c, d and large
  plist,           \* allocs and sizes of the round; plist of the smoke test
  initial_free,    \* nr_free_pages() before the tests
  is_panic         \* has an assertion failed?

checkVars == <<line, local, plist, initial_free, is_panic>>
allVars == <<vars, checkVars>>

NULL == -1
Names == {"a", "b", "c", "d", "large"}

-----------------------------------------------------------------------------
(* The statements.                                                         *)

Alloc(x, n) == [do |-> "alloc", to |-> x, n |-> n]
Free(x, n) == [do |-> "free", at |-> x, n |-> n]      \* if x is not NULL
NotNull(xs) == [do |-> "not null", of |-> xs]
Count == [do |-> "count"]                             \* initial_free = ...
Used(n) == [do |-> "used", n |-> n]                   \* == initial_free - n
UsedAtLeast(x, n) == [do |-> "used at least", at |-> x, n |-> n]
Fill(sizes, count, all) ==
  [do |-> "fill", sizes |-> sizes, count |-> count, all |-> all]
Drain(from) == [do |-> "drain", from |-> from]

Half == BlockSize[MAX_ORDER - 1]     \* 1 << (MAX_ORDER - 1)

\* The check is one of the callers.
ASSUME CheckAssumption ==
  /\ MAX_ORDER # 0
  /\ Sizes \subseteq Nat \ {0}
  /\ {N, Rounds, CAP} \subseteq Nat
  /\ Sizes \cup {1, 2, 3, 4, 8, Half} \subseteq Requests

buddy_deterministic_tests ==
  << Count,
     Alloc("a", 1), Alloc("b", 1), Alloc("c", 1), NotNull({"a", "b", "c"}), Used(3),
     Free("b", 1), Free("a", 1), Free("c", 1), Used(0),
     Alloc("a", 2), Alloc("b", 4), NotNull({"a", "b"}), Used(6),
     Free("a", 2), Free("b", 4), Used(0),
     Alloc("a", 3), NotNull({"a"}), UsedAtLeast("a", 4), Free("a", 3),
     Alloc("d", Half), UsedAtLeast("d", Half), Free("d", Half),
     Alloc("a", 2), Alloc("b", 2), Alloc("c", 2), Alloc("d", 2),
     NotNull({"a", "b", "c", "d"}),
     Free("d", 2), Free("b", 2), Free("c", 2), Free("a", 2),
     Alloc("large", 8), Free("large", 8) >>

\* All N requests are made whatever comes of them; the last is freed first.
buddy_random_tests == << Fill(Sizes, N, TRUE), Drain("last") >>

\* Single pages until there is none; the first is freed first.
smoke_test == << Fill({1}, CAP, FALSE), Drain("first") >>

buddy_check ==
  buddy_deterministic_tests
  \o [i \in 1..(2 * Rounds) |-> buddy_random_tests[IF i % 2 = 1 THEN 1 ELSE 2]]
  \o smoke_test

-----------------------------------------------------------------------------
CheckInit ==
  /\ Init
  /\ line = 1
  /\ local = [x \in Names |-> NULL]
  /\ plist = <<>>
  /\ initial_free = 0
  /\ is_panic = FALSE

Booted == line > Len(buddy_check)
Statement == buddy_check[line]
Executing(what) == ~Booted /\ ~is_panic /\ pc = "idle" /\ Statement.do = what

Goto(next) == line' = next /\ UNCHANGED is_panic

Assertion(holds) ==
  /\ is_panic' = ~holds
  /\ line' = line + 1

\* init_memmap comes before the check.
Carve ==
  /\ CarveBlock \/ CarveDone
  /\ UNCHANGED checkVars

CallAlloc ==
  /\ Executing("alloc")
  /\ alloc_pages(Statement.n)
  /\ UNCHANGED checkVars

CallFree ==
  /\ Executing("free")
  /\ IF local[Statement.at] = NULL
     THEN Goto(line + 1) /\ UNCHANGED vars
     ELSE /\ free_pages([base |-> local[Statement.at], n |-> Statement.n])
          /\ UNCHANGED <<line, is_panic>>
  /\ UNCHANGED <<local, plist, initial_free>>

\* One more request, with its size.
CallFill ==
  /\ Executing("fill")
  /\ \E n \in Statement.sizes : alloc_pages(n)
  /\ UNCHANGED checkVars

\* The next block the loop frees; a request that got nothing is passed over.
CallDrain ==
  /\ Executing("drain")
  /\ LET last == Statement.from = "last"
         next == IF last THEN plist[Len(plist)] ELSE Head(plist)
     IN  IF plist = <<>>
         THEN Goto(line + 1) /\ UNCHANGED <<vars, plist>>
         ELSE /\ IF next.base = NULL
                 THEN UNCHANGED vars
                 ELSE free_pages(next)
              /\ plist' = IF last THEN Front(plist) ELSE Tail(plist)
              /\ UNCHANGED <<line, is_panic>>
  /\ UNCHANGED <<local, initial_free>>

\* What alloc_pages returns in the step that ends it.
Result == [base |-> IF pc = "split" THEN blk ELSE NULL, n |-> arg]

\* The call made by the check goes on, and its result is stored.
CallStep ==
  /\ ~Booted
  /\ pc # "carve"
  /\ RunningCall
  /\ IF pc' # "idle" THEN UNCHANGED <<line, is_panic, local, plist>>
     ELSE CASE Statement.do = "alloc" ->
                 /\ local' = [local EXCEPT ![Statement.to] = Result.base]
                 /\ Goto(line + 1) /\ UNCHANGED plist
            [] Statement.do = "fill" ->
                 LET kept == Statement.all \/ Result.base # NULL
                 IN  /\ plist' = IF kept THEN Append(plist, Result) ELSE plist
                     /\ Goto(IF kept /\ Len(plist') < Statement.count
                             THEN line ELSE line + 1)
                     /\ UNCHANGED local
            [] Statement.do = "free" -> Goto(line + 1) /\ UNCHANGED <<local, plist>>
            [] OTHER -> UNCHANGED <<line, is_panic, local, plist>>
  /\ UNCHANGED initial_free

CountFree ==
  /\ Executing("count")
  /\ initial_free' = nr_free
  /\ Goto(line + 1)
  /\ UNCHANGED <<vars, local, plist>>

\* The assertions, and the test that guards one of them.
Look ==
  /\ \/ Executing("not null") /\ Assertion(\A x \in Statement.of : local[x] # NULL)
     \/ Executing("used") /\ Assertion(nr_free = initial_free - Statement.n)
     \/ /\ Executing("used at least")
        /\ Assertion(local[Statement.at] # NULL => nr_free <= initial_free - Statement.n)
  /\ UNCHANGED <<vars, local, plist, initial_free>>

CheckStep ==
  \/ Carve
  \/ CallAlloc \/ CallFree \/ CallFill \/ CallDrain
  \/ CallStep \/ CountFree \/ Look

\* Callers come after the check.
BootedStep ==
  /\ Booted /\ ~is_panic
  /\ Next
  /\ UNCHANGED checkVars

CheckNext == CheckStep \/ BootedStep

CheckSpec == CheckInit /\ [][CheckNext]_allVars

FairCheckSpec == CheckSpec /\ WF_allVars(CheckStep)

-----------------------------------------------------------------------------
\* No assertion of buddy_check fails ("assert(nr_free_pages() ==
\* initial_free)", buddy_pmm.c:197 and 206): the kernel boots.
CheckPasses == ~is_panic

\* buddy_check ends, whatever the sizes of its rounds and however many pages
\* there are, with every page it was given put back.
Boots == <>(Booted /\ held = {})
=============================================================================
