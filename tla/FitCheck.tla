------------------------------ MODULE FitCheck ------------------------------
(***************************************************************************)
(* The boot of a kernel that uses FitPmm: pmm_init calls the check of the  *)
(* manager in use (default_check, best_fit_check, and the basic_check they *)
(* share) before anybody else may ask for pages.  The check empties the    *)
(* manager's list behind its back, works on a few pages and puts the list  *)
(* back; an assertion that fails stops the kernel.                         *)
(*                                                                         *)
(* A check is a sequence of statements, executed one after the other; a    *)
(* statement that calls the manager runs through the steps of that call.   *)
(***************************************************************************)
EXTENDS FitPmm, Sequences, FiniteSetsExt

VARIABLES
  line,            \* the statement the check is at
  local,           \* the check's page variables
  stored,          \* free_list_store and nr_free_store
  counted,         \* count and total
  is_panic         \* has an assertion failed?

checkVars == <<line, local, stored, counted, is_panic>>
allVars == <<vars, checkVars>>

\* The page variables; "none" takes a result that is only compared.
Names == {"p0", "p1", "p2", "p", "none"}

-----------------------------------------------------------------------------
(* The statements.  The result of alloc_pages is asserted to be some page, *)
(* NULL, or the page i beyond the one that was in variable y.              *)

Alloc(x, n) == [do |-> "alloc", n |-> n, to |-> x, want |-> "page"]
AllocNone(n) == [do |-> "alloc", n |-> n, to |-> "none", want |-> "NULL"]
AllocAt(x, n, y, i) ==
  [do |-> "alloc", n |-> n, to |-> x, want |-> "this_page", at |-> y, plus |-> i]
Free(x, i, n) == [do |-> "free", at |-> x, plus |-> i, n |-> n]
Let(x, y, i) == [do |-> "let", to |-> x, at |-> y, plus |-> i]
HeadsBlock(x, i, n) == [do |-> "heads", at |-> x, plus |-> i, n |-> n]
NotHead(x) == [do |-> "not_head", at |-> x]
NrFreeIs(n) == [do |-> "nr_free", n |-> n]
Do(what) == [do |-> what]

basic_check ==
  << Alloc("p0", 1), Alloc("p1", 1), Alloc("p2", 1), Do("distinct"),
     Do("store_list"), Do("store_nr_free"), AllocNone(1),
     Free("p0", 0, 1), Free("p1", 0, 1), Free("p2", 0, 1), NrFreeIs(3),
     Alloc("p0", 1), Alloc("p1", 1), Alloc("p2", 1), AllocNone(1),
     Free("p0", 0, 1), Do("not_empty"), AllocAt("p", 1, "p0", 0), AllocNone(1),
     NrFreeIs(0), Do("restore_list"), Do("restore_nr_free"),
     Free("p", 0, 1), Free("p1", 0, 1), Free("p2", 0, 1) >>

\* Both checks hide the rest of the region once they hold five pages.
Isolate ==
  << Alloc("p0", 5), NotHead("p0"),
     Do("store_list"), AllocNone(1), Do("store_nr_free") >>

\* Faulty variant: nr_free is put back after the pages are freed.
RestoreLate ==
  << Alloc("p0", 5), AllocNone(1), NrFreeIs(0),
     Do("restore_list"), Free("p0", 0, 5), Do("restore_nr_free"), Do("recount") >>

Restore ==
  << Alloc("p0", 5), AllocNone(1), NrFreeIs(0),
     Do("restore_nr_free"), Do("restore_list"), Free("p0", 0, 5), Do("recount") >>

default_check ==
  <<Do("count")>> \o basic_check \o Isolate \o
  << Free("p0", 2, 3), AllocNone(4), HeadsBlock("p0", 2, 3),
     AllocAt("p1", 3, "p0", 2), AllocNone(1),
     Let("p2", "p0", 1), Free("p0", 0, 1), Free("p1", 0, 3),
     HeadsBlock("p0", 0, 1), HeadsBlock("p1", 0, 3),
     AllocAt("p0", 1, "p2", -1), Free("p0", 0, 1),
     AllocAt("p0", 2, "p2", 1), Free("p0", 0, 2), Free("p2", 0, 1) >>
  \o Restore

best_fit_check ==
  <<Do("count")>> \o basic_check \o Isolate \o
  << Free("p0", 1, 2), Free("p0", 4, 1), AllocNone(4), HeadsBlock("p0", 1, 2),
     AllocAt("p1", 1, "p0", 4), Alloc("none", 2),
     Let("p2", "p0", 1), Free("p0", 0, 5) >>
  \o Restore

Check == IF BestFit THEN best_fit_check ELSE default_check

-----------------------------------------------------------------------------
CheckInit ==
  /\ Init
  /\ line = 1
  /\ local = [x \in Names |-> NULL]
  /\ stored = [next |-> free_list, prev |-> free_list, nr_free |-> 0]
  /\ counted = [count |-> 0, total |-> 0]
  /\ is_panic = FALSE

Booted == line > Len(Check)
Statement == Check[line]
Executing(what) == ~Booted /\ ~is_panic /\ pc = "idle" /\ Statement.do = what

Location == local[Statement.at] + Statement.plus

\* The statement is over; the kernel panics unless what it asserts holds.
Assertion(holds) ==
  /\ is_panic' = ~holds
  /\ line' = line + 1

CallAlloc ==
  /\ Executing("alloc")
  /\ alloc_pages(Statement.n)
  /\ UNCHANGED checkVars

CallFree ==
  /\ Executing("free")
  /\ IF Freeable(Location, Statement.n)
     THEN free_pages(Location, Statement.n) /\ UNCHANGED checkVars
     ELSE Assertion(FALSE) /\ UNCHANGED <<vars, local, stored, counted>>

\* The call made by the check goes on, and its result is looked at.
CallStep ==
  /\ ~Booted
  /\ RunningCall
  /\ IF pc' = "idle"
     THEN IF Statement.do = "alloc"
          THEN LET got == IF pc = "take" THEN page ELSE NULL
               IN  /\ Assertion(CASE Statement.want = "page" -> got # NULL
                               [] Statement.want = "NULL" -> got = NULL
                               [] OTHER -> got = Location)
                   /\ local' = [local EXCEPT ![Statement.to] = got]
          ELSE Assertion(TRUE) /\ UNCHANGED local
     ELSE UNCHANGED <<line, is_panic, local>>
  /\ UNCHANGED <<stored, counted>>

\* Looks at the manager's state, or copies a page variable.
Look ==
  /\ \/ Executing("distinct") /\ Assertion(Cardinality({local[x] : x \in {"p0", "p1", "p2"}}) = 3)
     \/ Executing("not_empty") /\ Assertion(~list_empty(links, free_list))
     \/ Executing("nr_free") /\ Assertion(nr_free = Statement.n)
     \/ Executing("not_head") /\ Assertion(local[Statement.at] \notin PageProperty)
     \/ Executing("heads") /\ Assertion(Location \in PageProperty /\ property[Location] = Statement.n)
     \/ Executing("let") /\ Assertion(TRUE)
  /\ local' = IF Statement.do = "let" THEN [local EXCEPT ![Statement.to] = Location] ELSE local
  /\ UNCHANGED <<vars, stored, counted>>

StoreList ==
  /\ Executing("store_list")
  /\ stored' = [stored EXCEPT !.next = links.next[free_list], !.prev = links.prev[free_list]]
  /\ links' = list_init(links, free_list)
  /\ Assertion(list_empty(links', free_list))
  /\ UNCHANGED nr_free

StoreNrFree ==
  /\ Executing("store_nr_free")
  /\ stored' = [stored EXCEPT !.nr_free = nr_free]
  /\ nr_free' = 0
  /\ Assertion(TRUE)
  /\ UNCHANGED links

\* Only the head of the list was stored.
RestoreList ==
  /\ Executing("restore_list")
  /\ links' = [links EXCEPT !.next[free_list] = stored.next, !.prev[free_list] = stored.prev]
  /\ Assertion(TRUE)
  /\ UNCHANGED <<nr_free, stored>>

RestoreNrFree ==
  /\ Executing("restore_nr_free")
  /\ nr_free' = stored.nr_free
  /\ Assertion(TRUE)
  /\ UNCHANGED <<links, stored>>

\* The list as it is walked, each block with PG_property set.
Blocks ==
  [count |-> Cardinality(Listed),
   total |-> MapThenSumSet(LAMBDA p : property[p], Listed)]

Count ==
  /\ \/ Executing("count") /\ Assertion(Listed \subseteq PageProperty /\ Blocks.total = nr_free)
     \/ Executing("recount") /\ Assertion(Blocks = counted)
  /\ counted' = Blocks
  /\ UNCHANGED <<vars, local, stored>>

CheckStep ==
  \/ (CallAlloc \/ CallFree \/ CallStep) /\ UNCHANGED pmm_manager
  \/ Look \/ Count
  \/ /\ StoreList \/ StoreNrFree \/ RestoreList \/ RestoreNrFree
     /\ UNCHANGED <<local, counted, pmm_manager, property, PageProperty, pc, le, page, arg, owned>>

\* Callers come after the check.
BootedStep == Booted /\ ~is_panic /\ Next /\ UNCHANGED checkVars

CheckNext == CheckStep \/ BootedStep

CheckSpec == CheckInit /\ [][CheckNext]_allVars

\* The boot goes on by itself.
FairCheckSpec == CheckSpec /\ WF_allVars(CheckStep)

-----------------------------------------------------------------------------
\* No assertion of default_check or best_fit_check fails, though both free
\* pages above everything on the list they made: the kernel boots.
CheckPasses == ~is_panic

\* The check ends, though it frees blocks that lie above all free ones (the
\* search and insertion loops, default_pmm.c:104 and 140, best_fit_pmm.c:67 and
\* 116, end whatever links that leaves).
Boots == <>Booted

\* Callers meet a page allocator that starts with the whole region free, as if
\* there had been no check, and keeps its contract.
PC == INSTANCE PageAllocator WITH
        free <- IF Booted THEN FreePages \cup HandPages ELSE Region,
        owned <- IF Booted THEN owned ELSE {},
        asked <- IF Booted /\ pc \in {"scan", "take", "null"} THEN arg ELSE -1

\* The check is invisible to callers, who are served by a page allocator
\* (pmm_init, pmm.c:123).
CheckThenAllocate == PC!Spec
=============================================================================
