---------------------------- MODULE BuddyProofs ----------------------------
(***************************************************************************)
(* Proofs about the buddy system of kern/mm/buddy_pmm.c, for every order,  *)
(* region and set of requests.                                             *)
(*                                                                         *)
(* The second part is about a region that starts at a multiple of the      *)
(* largest block: there every block is a multiple of its size, so that     *)
(* flipping a bit of its index (buddy_find_and_remove) leads to the other  *)
(* half of the block it was split from, and free blocks that could be      *)
(* joined are never left apart.  The kernel boots there: no assertion of   *)
(* buddy_check fails.                                                      *)
(***************************************************************************)
EXTENDS BuddyCheck, TLAPS, FiniteSetTheorems, SequenceTheorems, Numbers

Descriptors == [base : Region, order : Orders]

-----------------------------------------------------------------------------
(* Sequences: what list_add at the head and list_del do to a list.         *)

\* Adding at the head shifts every element by one.
LEMMA ConsSeq ==
  ASSUME NEW S, NEW x \in S, NEW s \in Seq(S)
  PROVE  /\ <<x>> \o s \in Seq(S)
         /\ Len(<<x>> \o s) = Len(s) + 1
         /\ (<<x>> \o s)[1] = x
         /\ \A i \in 1..Len(s) : (<<x>> \o s)[i + 1] = s[i]
  OBVIOUS

\* Removing the i-th element closes the gap.
LEMMA RemoveAtSeq ==
  ASSUME NEW S, NEW s \in Seq(S), NEW i \in 1..Len(s)
  PROVE  /\ RemoveAt(s, i) \in Seq(S)
         /\ Len(RemoveAt(s, i)) = Len(s) - 1
         /\ \A j \in 1..(Len(s) - 1) :
              RemoveAt(s, i)[j] = IF j < i THEN s[j] ELSE s[j + 1]
<1> DEFINE u == SubSeq(s, 1, i - 1)
           v == SubSeq(s, i + 1, Len(s))
<1>1. Len(s) \in Nat /\ \A j \in 1..Len(s) : s[j] \in S
  BY LenProperties, ElementOfSeq
<1>2. /\ u \in Seq(S)
      /\ Len(u) = i - 1
      /\ \A j \in 1..(i - 1) : u[j] = s[j]
  <2>1. \A j \in 1..(i - 1) : s[j] \in S
    BY <1>1
  <2>2. 1 \in Int /\ i - 1 \in Int
    BY <1>1
  <2>3. /\ u \in Seq(S)
        /\ Len(u) = IF 1 <= i - 1 THEN i - 1 - 1 + 1 ELSE 0
        /\ \A j \in 1..(i - 1 - 1 + 1) : u[j] = s[1 + j - 1]
    BY <2>1, <2>2, SubSeqProperties
  <2> QED
    BY <1>1, <2>3
<1>3. /\ v \in Seq(S)
      /\ Len(v) = Len(s) - i
      /\ \A j \in 1..(Len(s) - i) : v[j] = s[i + j]
  <2>1. \A j \in (i + 1)..Len(s) : s[j] \in S
    BY <1>1
  <2>2. i + 1 \in Int /\ Len(s) \in Int
    BY <1>1
  <2>3. /\ v \in Seq(S)
        /\ Len(v) = IF i + 1 <= Len(s) THEN Len(s) - (i + 1) + 1 ELSE 0
        /\ \A j \in 1..(Len(s) - (i + 1) + 1) : v[j] = s[i + 1 + j - 1]
    BY <2>1, <2>2, SubSeqProperties
  <2> QED
    BY <1>1, <2>3
<1>4. /\ u \o v \in Seq(S)
      /\ Len(u \o v) = Len(u) + Len(v)
      /\ \A j \in 1..(Len(u) + Len(v)) :
           (u \o v)[j] = IF j <= Len(u) THEN u[j] ELSE v[j - Len(u)]
  BY <1>2, <1>3, ConcatProperties
<1>5. RemoveAt(s, i) = u \o v
  BY DEF RemoveAt
<1> HIDE DEF u, v
<1>6. ASSUME NEW j \in 1..(Len(s) - 1)
      PROVE  (u \o v)[j] = IF j < i THEN s[j] ELSE s[j + 1]
  <2>0. j \in 1..(Len(u) + Len(v))
    BY <1>1, <1>2, <1>3
  <2>1. CASE j < i
    BY <1>1, <1>2, <1>4, <2>0, <2>1
  <2>2. CASE ~(j < i)
    <3>1. j - (i - 1) \in 1..(Len(s) - i)
      BY <1>1, <2>2
    <3>2. v[j - (i - 1)] = s[i + (j - (i - 1))]
      BY <1>3, <3>1
    <3>3. i + (j - (i - 1)) = j + 1
      BY <1>1
    <3>4. ~(j <= Len(u))
      BY <1>1, <1>2, <2>2
    <3> QED
      BY <1>2, <1>4, <2>0, <2>2, <3>2, <3>3, <3>4
  <2> QED
    BY <2>1, <2>2
<1> QED
  BY <1>1, <1>2, <1>3, <1>4, <1>5, <1>6

\* In a list without repetitions, removing one element removes it for good
\* and leaves the others, still without repetitions.
LEMMA RemoveAtElements ==
  ASSUME NEW S, NEW s \in Seq(S), NEW i \in 1..Len(s),
         \A p, q \in 1..Len(s) : s[p] = s[q] => p = q
  PROVE  LET t == RemoveAt(s, i)
         IN  /\ \A y : (\E j \in 1..Len(t) : t[j] = y)
                         <=> (y # s[i] /\ \E j \in 1..Len(s) : s[j] = y)
             /\ \A p, q \in 1..Len(t) : t[p] = t[q] => p = q
<1> DEFINE t == RemoveAt(s, i)
           from(j) == IF j < i THEN j ELSE j + 1
<1>1. /\ Len(t) = Len(s) - 1
      /\ \A j \in 1..(Len(s) - 1) : t[j] = IF j < i THEN s[j] ELSE s[j + 1]
  BY RemoveAtSeq
<1>2. Len(s) \in Nat
  BY LenProperties
<1>3. \A j \in 1..Len(t) : /\ from(j) \in 1..Len(s)
                           /\ from(j) # i
                           /\ t[j] = s[from(j)]
  BY <1>1, <1>2
<1>4. \A p, q \in 1..Len(t) : from(p) = from(q) => p = q
  BY <1>1, <1>2
<1>5. \A p, q \in 1..Len(t) : t[p] = t[q] => p = q
  BY <1>3, <1>4
<1>6. ASSUME NEW y, NEW j \in 1..Len(t), t[j] = y
      PROVE  y # s[i] /\ \E k \in 1..Len(s) : s[k] = y
  BY <1>3, <1>6
<1>7. ASSUME NEW y, y # s[i], NEW j \in 1..Len(s), s[j] = y
      PROVE  \E k \in 1..Len(t) : t[k] = y
  <2>1. j # i
    BY <1>7
  <2>2. CASE j < i
    BY <1>1, <1>2, <1>7, <2>2, j \in 1..Len(t)
  <2>3. CASE j > i
    <3>1. j - 1 \in 1..Len(t)
      BY <1>1, <1>2, <2>3
    <3>2. from(j - 1) = j
      BY <1>2, <2>3
    <3> QED
      BY <1>3, <1>7, <3>1, <3>2
  <2> QED
    BY <1>2, <2>1, <2>2, <2>3
<1> HIDE DEF t, from
<1> QED
  BY <1>5, <1>6, <1>7 DEF t

-----------------------------------------------------------------------------
(* The lists: buddy_add_free and buddy_remove_free.                        *)

ListsOK ==
  /\ free_lists \in [Orders -> Seq(Descriptors)]
  /\ ListsWellFormed

\* A listed block is an element of the list of its order.
LEMMA ListedMember ==
  ASSUME ListsOK, NEW b
  PROVE  b \in ListedBlocks
           <=> /\ b \in Descriptors
               /\ \E i \in 1..Len(free_lists[b.order]) : free_lists[b.order][i] = b
<1>1. \A k \in Orders : /\ free_lists[k] \in Seq(Descriptors)
                        /\ \A i \in 1..Len(free_lists[k]) :
                             /\ free_lists[k][i] \in Descriptors
                             /\ free_lists[k][i].order = k
  BY ElementOfSeq DEF ListsOK, ListsWellFormed
<1>2. b \in ListedBlocks <=>
        \E k \in Orders : \E i \in 1..Len(free_lists[k]) : free_lists[k][i] = b
  BY DEF ListedBlocks
<1>3. b \in Descriptors => b.order \in Orders
  BY DEF Descriptors
<1> QED
  BY <1>1, <1>2, <1>3

\* The block of a page of the region and an order is a descriptor of both.
LEMMA BlockDescriptor ==
  ASSUME NEW i \in Region, NEW k \in Orders
  PROVE  /\ Block(i, k) \in Descriptors
         /\ Block(i, k).base = i
         /\ Block(i, k).order = k
BY DEF Block, Descriptors

\* buddy_add_free lists one more block.
LEMMA AddFree ==
  ASSUME ListsOK, NEW i \in Region, NEW k \in Orders,
         max_order_inited \in Orders,
         Block(i, k) \notin ListedBlocks,
         buddy_add_free(i, k)
  PROVE  /\ ListsOK'
         /\ ListedBlocks' = ListedBlocks \cup {Block(i, k)}
         /\ nr_free' = nr_free + BlockSize[k]
         /\ max_order_inited' \in Orders
<1> DEFINE b == Block(i, k)
           s == free_lists[k]
           t == <<b>> \o s
<1>1. /\ b \in Descriptors
      /\ b.order = k
  BY BlockDescriptor
<1>2. s \in Seq(Descriptors)
  BY DEF ListsOK
<1>3. /\ t \in Seq(Descriptors)
      /\ Len(t) = Len(s) + 1
      /\ t[1] = b
      /\ \A j \in 1..Len(s) : t[j + 1] = s[j]
  BY <1>1, <1>2, ConsSeq
<1>4. Len(s) \in Nat
  BY <1>2, LenProperties
<1>5. free_lists' = [free_lists EXCEPT ![k] = t]
  BY DEF buddy_add_free
<1>6. /\ free_lists'[k] = t
      /\ \A j \in Orders \ {k} : free_lists'[j] = free_lists[j]
      /\ free_lists' \in [Orders -> Seq(Descriptors)]
  BY <1>3, <1>5 DEF ListsOK
<1>8. \A j \in 1..Len(s) : s[j] # b
  BY ListedMember, <1>1
<1> HIDE DEF b, s, t
<1>9. ASSUME NEW j \in 1..Len(t), j # 1
      PROVE  j - 1 \in 1..Len(s) /\ t[j] = s[j - 1]
  <2>1. j - 1 \in 1..Len(s) /\ (j - 1) + 1 = j
    BY <1>3, <1>4, <1>9
  <2> QED
    BY <1>3, <2>1
<1>7. ASSUME NEW y
      PROVE  (\E j \in 1..Len(t) : t[j] = y)
               <=> (y = b \/ \E j \in 1..Len(s) : s[j] = y)
  <2>1. b = t[1] /\ 1 \in 1..Len(t)
    BY <1>3, <1>4
  <2>2. \A j \in 1..Len(s) : s[j] = t[j + 1] /\ j + 1 \in 1..Len(t)
    BY <1>3, <1>4
  <2>3. (\E j \in 1..Len(t) : t[j] = y) => (y = b \/ \E j \in 1..Len(s) : s[j] = y)
    BY <1>3, <1>9
  <2> QED
    BY <2>1, <2>2, <2>3
<1>10. \A p, q \in 1..Len(s) : s[p] = s[q] => p = q
  BY DEF ListsOK, ListsWellFormed, s
<1>11. \A p, q \in 1..Len(t) : t[p] = t[q] => p = q
  <2> SUFFICES ASSUME NEW p \in 1..Len(t), NEW q \in 1..Len(t), t[p] = t[q]
               PROVE  p = q
    OBVIOUS
  <2>1. CASE p = 1 /\ q = 1
    BY <2>1
  <2>2. CASE p = 1 /\ q # 1
    BY <1>3, <1>8, <1>9, <2>2
  <2>3. CASE p # 1 /\ q = 1
    BY <1>3, <1>8, <1>9, <2>3
  <2>4. CASE p # 1 /\ q # 1
    <3>1. p - 1 = q - 1
      BY <1>9, <1>10, <2>4
    <3> QED
      BY <1>3, <1>4, <3>1
  <2> QED
    BY <2>1, <2>2, <2>3, <2>4
<1>12. \A j \in 1..Len(t) : t[j].order = k
  <2>1. \A j \in 1..Len(s) : s[j].order = k
    BY DEF ListsOK, ListsWellFormed, s
  <2> QED
    BY <1>1, <1>3, <1>9, <2>1
<1>13. ListsOK'
  <2> SUFFICES ListsWellFormed'
    BY <1>6 DEF ListsOK
  <2> SUFFICES ASSUME NEW j \in Orders
               PROVE  \A p \in 1..Len(free_lists'[j]) :
                        /\ free_lists'[j][p].order = j
                        /\ \A q \in 1..Len(free_lists'[j]) :
                             free_lists'[j][p] = free_lists'[j][q] => p = q
    BY DEF ListsWellFormed
  <2>1. CASE j = k
    BY <1>6, <1>11, <1>12, <2>1
  <2>2. CASE j # k
    BY <1>6, <2>2 DEF ListsOK, ListsWellFormed
  <2> QED
    BY <2>1, <2>2
<1>14. ASSUME NEW y PROVE y \in ListedBlocks' <=> y \in ListedBlocks \cup {b}
  <2>1. y \in ListedBlocks' <=>
          \E j \in Orders : \E p \in 1..Len(free_lists'[j]) : free_lists'[j][p] = y
    BY DEF ListedBlocks
  <2>2. y \in ListedBlocks <=>
          \E j \in Orders : \E p \in 1..Len(free_lists[j]) : free_lists[j][p] = y
    BY DEF ListedBlocks
  <2>3. (\E p \in 1..Len(free_lists'[k]) : free_lists'[k][p] = y)
          <=> (y = b \/ \E p \in 1..Len(free_lists[k]) : free_lists[k][p] = y)
    BY <1>6, <1>7 DEF s
  <2> QED
    BY <1>6, <2>1, <2>2, <2>3
<1>15. ListedBlocks' = ListedBlocks \cup {b}
  BY <1>14
<1> QED
  BY <1>13, <1>15 DEF buddy_add_free, b

\* buddy_remove_free unlists one block, the one it is pointed at.
LEMMA RemoveFree ==
  ASSUME ListsOK, NEW k \in Orders, NEW i \in 1..Len(free_lists[k]),
         buddy_remove_free(k, i)
  PROVE  /\ free_lists[k][i] \in ListedBlocks
         /\ free_lists[k][i].order = k
         /\ ListsOK'
         /\ ListedBlocks' = ListedBlocks \ {free_lists[k][i]}
         /\ nr_free' = nr_free - BlockSize[k]
         /\ max_order_inited' = max_order_inited
<1> DEFINE s == free_lists[k]
           t == RemoveAt(s, i)
<1>1. s \in Seq(Descriptors)
  BY DEF ListsOK
<1>2. /\ \A p, q \in 1..Len(s) : s[p] = s[q] => p = q
      /\ \A p \in 1..Len(s) : s[p].order = k
  BY DEF ListsOK, ListsWellFormed
<1>3. t \in Seq(Descriptors)
  BY <1>1, RemoveAtSeq
<1>4. free_lists' = [free_lists EXCEPT ![k] = t]
  BY DEF buddy_remove_free
<1>5. /\ free_lists'[k] = t
      /\ \A j \in Orders \ {k} : free_lists'[j] = free_lists[j]
      /\ free_lists' \in [Orders -> Seq(Descriptors)]
  BY <1>3, <1>4 DEF ListsOK
<1>6. /\ \A y : (\E j \in 1..Len(t) : t[j] = y)
                 <=> (y # s[i] /\ \E j \in 1..Len(s) : s[j] = y)
      /\ \A p, q \in 1..Len(t) : t[p] = t[q] => p = q
  BY <1>1, <1>2, RemoveAtElements
<1> HIDE DEF s, t
<1>7. \A p \in 1..Len(t) : t[p].order = k
  <2> SUFFICES ASSUME NEW p \in 1..Len(t) PROVE t[p].order = k
    OBVIOUS
  <2>1. PICK j \in 1..Len(s) : s[j] = t[p]
    BY <1>6
  <2> QED
    BY <1>2, <2>1
<1>8. ListsOK'
  <2> SUFFICES ListsWellFormed'
    BY <1>5 DEF ListsOK
  <2> SUFFICES ASSUME NEW j \in Orders
               PROVE  \A p \in 1..Len(free_lists'[j]) :
                        /\ free_lists'[j][p].order = j
                        /\ \A q \in 1..Len(free_lists'[j]) :
                             free_lists'[j][p] = free_lists'[j][q] => p = q
    BY DEF ListsWellFormed
  <2>1. CASE j = k
    BY <1>5, <1>6, <1>7, <2>1
  <2>2. CASE j # k
    BY <1>5, <2>2 DEF ListsOK, ListsWellFormed
  <2> QED
    BY <2>1, <2>2
<1>9. ASSUME NEW y PROVE y \in ListedBlocks' <=> y \in ListedBlocks \ {s[i]}
  <2>1. y \in ListedBlocks' <=>
          \E j \in Orders : \E p \in 1..Len(free_lists'[j]) : free_lists'[j][p] = y
    BY DEF ListedBlocks
  <2>2. y \in ListedBlocks <=>
          \E j \in Orders : \E p \in 1..Len(free_lists[j]) : free_lists[j][p] = y
    BY DEF ListedBlocks
  <2>3. (\E p \in 1..Len(free_lists'[k]) : free_lists'[k][p] = y)
          <=> (y # s[i] /\ \E p \in 1..Len(free_lists[k]) : free_lists[k][p] = y)
    BY <1>5, <1>6 DEF s
  <2>4. \A j \in Orders \ {k} : \A p \in 1..Len(free_lists[j]) : free_lists[j][p] # s[i]
    BY <1>2 DEF ListsOK, ListsWellFormed, s
  <2> QED
    BY <1>5, <2>1, <2>2, <2>3, <2>4
<1>10. ListedBlocks' = ListedBlocks \ {s[i]}
  BY <1>9
<1>11. s[i] \in ListedBlocks
  BY DEF ListedBlocks, s
<1> QED
  BY <1>2, <1>8, <1>10, <1>11 DEF buddy_remove_free, s

-----------------------------------------------------------------------------
(* Sizes and orders.                                                       *)

\* Sizes are positive and double from one order to the next.
LEMMA BlockSizes ==
  /\ MAX_ORDER \in Nat
  /\ \A k \in 0..(MAX_ORDER + 1) : BlockSize[k] \in Nat \ {0}
  /\ \A k \in Orders : /\ k \in Nat
                       /\ BlockSize[k] \in Nat \ {0}
                       /\ BlockSize[k + 1] = 2 * BlockSize[k]
BY OrderAssumption, SizeAssumption DEF Orders

\* Every order has a size.
LEMMA OrdersInRange == \A k \in Orders : k \in 0..(MAX_ORDER + 1)
BY OrderAssumption DEF Orders

\* At most one order serves a request best, so size_to_order returns it.
LEMMA OrderUnique ==
  ASSUME NEW n \in Nat, NEW k \in Orders, IsOrderFor(n, k)
  PROVE  size_to_order(n) = k
<1>1. ASSUME NEW j \in Orders, IsOrderFor(n, j)
      PROVE  j = k
  <2>1. ~(j < k)
    BY <1>1, BlockSizes DEF IsOrderFor, Orders
  <2>2. ~(k < j)
    BY <1>1, BlockSizes DEF IsOrderFor, Orders
  <2> QED
    BY <2>1, <2>2, BlockSizes
<1> QED
  BY <1>1 DEF size_to_order

-----------------------------------------------------------------------------
(* The free pages, under the two list operations.                          *)

ListInv ==
  /\ ListsOK
  /\ max_order_inited \in Orders
  /\ FreeDisjoint
  /\ FreeCount
  /\ FreePages \subseteq Region

\* n consecutive pages are n pages.
LEMMA IntervalSize ==
  ASSUME NEW a \in Nat, NEW n \in Nat \ {0}
  PROVE  /\ IsFiniteSet(a .. (a + n - 1))
         /\ Cardinality(a .. (a + n - 1)) = n
<1> DEFINE c == a + n - 1
<1>1. a \in Int /\ c \in Int /\ ~(a > c) /\ c - a + 1 = n
  OBVIOUS
<1> HIDE DEF c
<1>2. /\ IsFiniteSet(a..c)
      /\ Cardinality(a..c) = IF a > c THEN 0 ELSE c - a + 1
  BY <1>1, FS_Interval
<1>3. IsFiniteSet(a..c) /\ Cardinality(a..c) = n
  BY <1>1, <1>2
<1> QED
  BY <1>3 DEF c

\* The region is a finite set of RegionPages pages.
LEMMA RegionFinite ==
  /\ Region \subseteq Nat
  /\ IsFiniteSet(Region)
  /\ Cardinality(Region) = RegionPages
BY IntervalSize, RegionAssumption DEF Region

\* The pages of a block: as many as its order says.
LEMMA SpanSize ==
  ASSUME NEW i \in Region, NEW k \in Orders
  PROVE  /\ Span(Block(i, k)) = i .. (i + BlockSize[k] - 1)
         /\ i \in Span(Block(i, k))
         /\ IsFiniteSet(Span(Block(i, k)))
         /\ Cardinality(Span(Block(i, k))) = BlockSize[k]
<1>1. /\ i \in Nat
      /\ BlockSize[k] \in Nat \ {0}
  BY RegionFinite, BlockSizes
<1>2. Span(Block(i, k)) = i .. (i + BlockSize[k] - 1)
  BY BlockDescriptor DEF Span
<1> QED
  BY <1>1, <1>2, IntervalSize

\* A count of pages of the region stays within the size of the region.
LEMMA CountBound ==
  ASSUME NEW F, F \subseteq Region
  PROVE  /\ IsFiniteSet(F)
         /\ Cardinality(F) \in 0..RegionPages
<1>1. /\ IsFiniteSet(F)
      /\ Cardinality(F) <= RegionPages
  BY RegionFinite, FS_Subset
<1>2. Cardinality(F) \in Nat
  BY <1>1, FS_CardinalityType
<1> QED
  BY <1>1, <1>2, RegionAssumption

\* A descriptor is the block of its base and order.
LEMMA SpanOfDescriptor ==
  ASSUME NEW b \in Descriptors
  PROVE  b = Block(b.base, b.order) /\ b.base \in Region /\ b.order \in Orders
BY DEF Descriptors, Block

\* buddy_add_free keeps the invariant of the lists, given a block of the region
\* that overlaps none of the listed ones.
LEMMA AddFreeInv ==
  ASSUME ListInv, NEW i \in Region, NEW k \in Orders,
         Span(Block(i, k)) \subseteq Region \ FreePages,
         buddy_add_free(i, k)
  PROVE  /\ ListInv'
         /\ FreePages' = FreePages \cup Span(Block(i, k))
<1> DEFINE b == Block(i, k)
<1>1. b \notin ListedBlocks
  <2>1. i \in Span(b) /\ i \notin FreePages
    BY SpanSize
  <2> QED
    BY <2>1 DEF FreePages
<1>2. /\ ListsOK'
      /\ ListedBlocks' = ListedBlocks \cup {b}
      /\ nr_free' = nr_free + BlockSize[k]
      /\ max_order_inited' \in Orders
  BY <1>1, AddFree DEF ListInv
<1> HIDE DEF b
<1>3. FreePages' = FreePages \cup Span(b)
  BY <1>2 DEF FreePages, Span
<1>4. FreeDisjoint'
  <2> SUFFICES ASSUME NEW c \in ListedBlocks', NEW d \in ListedBlocks', c # d
               PROVE  Span(c) \cap Span(d) = {}
    BY DEF FreeDisjoint, Span
  <2>1. \A e \in ListedBlocks : Span(e) \cap Span(b) = {}
    BY DEF FreePages, b
  <2>2. CASE c \in ListedBlocks /\ d \in ListedBlocks
    BY <2>2 DEF ListInv, FreeDisjoint
  <2>3. CASE c = b \/ d = b
    BY <1>2, <2>1, <2>3
  <2> QED
    BY <1>2, <2>2, <2>3
<1>5. FreeCount'
  <2>1. /\ IsFiniteSet(Span(b))
        /\ Cardinality(Span(b)) = BlockSize[k]
    BY SpanSize DEF b
  <2>2. IsFiniteSet(FreePages)
    BY CountBound DEF ListInv
  <2>3. FreePages \cap Span(b) = {}
    BY DEF b
  <2>4. Cardinality(FreePages \cup Span(b)) =
          Cardinality(FreePages) + Cardinality(Span(b)) - Cardinality(FreePages \cap Span(b))
    BY <2>1, <2>2, FS_Union
  <2>5. Cardinality(FreePages \cap Span(b)) = 0
    BY <2>3, FS_EmptySet
  <2>6. BlockSize[k] \in Nat /\ Cardinality(FreePages) \in Nat
    BY <2>2, BlockSizes, FS_CardinalityType
  <2>7. nr_free = Cardinality(FreePages)
    BY DEF ListInv, FreeCount
  <2>8. nr_free' = Cardinality(FreePages \cup Span(b))
    BY <1>2, <2>1, <2>4, <2>5, <2>6, <2>7
  <2> QED
    BY <1>3, <2>8 DEF FreeCount
<1>6. FreePages' \subseteq Region
  BY <1>3 DEF ListInv, b
<1>7. Region' = Region
  BY DEF Region
<1> QED
  BY <1>2, <1>3, <1>4, <1>5, <1>6, <1>7 DEF ListInv, b

\* buddy_remove_free keeps the invariant of the lists and takes the pages of one
\* block off them.
LEMMA RemoveFreeInv ==
  ASSUME ListInv, NEW k \in Orders, NEW i \in 1..Len(free_lists[k]),
         buddy_remove_free(k, i)
  PROVE  /\ free_lists[k][i] = Block(free_lists[k][i].base, k)
         /\ free_lists[k][i].base \in Region
         /\ Span(free_lists[k][i]) \subseteq FreePages
         /\ ListInv'
         /\ FreePages' = FreePages \ Span(free_lists[k][i])
<1> DEFINE b == free_lists[k][i]
<1>1. /\ b \in ListedBlocks
      /\ b.order = k
      /\ ListsOK'
      /\ ListedBlocks' = ListedBlocks \ {b}
      /\ nr_free' = nr_free - BlockSize[k]
      /\ max_order_inited' = max_order_inited
  BY RemoveFree DEF ListInv
<1> HIDE DEF b
<1>2. b = Block(b.base, k) /\ b.base \in Region
  BY <1>1, ListedMember, SpanOfDescriptor DEF ListInv
<1>3. Span(b) \subseteq FreePages
  BY <1>1 DEF FreePages
<1>4. FreePages' = FreePages \ Span(b)
  <2>1. \A e \in ListedBlocks \ {b} : Span(e) \cap Span(b) = {}
    BY <1>1 DEF ListInv, FreeDisjoint
  <2>2. FreePages' = UNION {Span(e) : e \in ListedBlocks \ {b}}
    BY <1>1 DEF FreePages, Span
  <2> QED
    BY <2>1, <2>2 DEF FreePages
<1>5. FreeDisjoint'
  BY <1>1 DEF ListInv, FreeDisjoint, Span
<1>6. FreeCount'
  <2>1. Cardinality(Span(b)) = BlockSize[k]
    BY <1>2, SpanSize
  <2>2. IsFiniteSet(FreePages)
    BY CountBound DEF ListInv
  <2>3. Cardinality(FreePages \ Span(b)) =
          Cardinality(FreePages) - Cardinality(FreePages \cap Span(b))
    BY <2>2, FS_Difference
  <2>4. FreePages \cap Span(b) = Span(b)
    BY <1>3
  <2>5. nr_free = Cardinality(FreePages)
    BY DEF ListInv, FreeCount
  <2> QED
    BY <1>1, <1>4, <2>1, <2>3, <2>4, <2>5 DEF FreeCount
<1>7. Region' = Region
  BY DEF Region
<1> QED
  BY <1>1, <1>2, <1>3, <1>4, <1>5, <1>6, <1>7 DEF ListInv, b

\* What leaves the lists alone keeps their invariant.
LEMMA SameLists ==
  ASSUME ListInv, UNCHANGED <<free_lists, nr_free, max_order_inited>>
  PROVE  ListInv' /\ FreePages' = FreePages
<1>1. ListedBlocks' = ListedBlocks
  BY DEF ListedBlocks
<1>2. FreePages' = FreePages
  BY <1>1 DEF FreePages, Span
<1>3. FreeDisjoint'
  BY <1>1 DEF ListInv, FreeDisjoint, Span
<1>4. ListsOK'
  BY DEF ListInv, ListsOK, ListsWellFormed
<1> QED
  BY <1>2, <1>3, <1>4 DEF ListInv, FreeCount, Region

-----------------------------------------------------------------------------
(* The inductive invariant in three parts: the lists, what callers hold,   *)
(* and the call under way.                                                 *)

HeldInv ==
  /\ held \in SUBSET [base : Region, n : 1..RegionPages]
  /\ \A a \in held : \E k \in Orders : IsOrderFor(a.n, k)
  /\ \A a, c \in held : a # c => Span(HeldBlock(a)) \cap Span(HeldBlock(c)) = {}
  /\ HeldPages \subseteq Region

CallInv ==
  /\ pc \in PCs
  /\ blk \in Nat
  /\ ord \in 0..(MAX_ORDER + 1)
  /\ arg \in Nat
  /\ pc = "split" => /\ arg \in 1..RegionPages
                     /\ ord \in Orders
                     /\ \E k \in 0..ord : IsOrderFor(arg, k)
  /\ HandPages \subseteq Region
  /\ HandPages \cap FreePages = {}
  /\ HandPages \cap HeldPages = {}
  /\ HeldPages \cap FreePages = {}

\* The invariant is what it says of the lists, the callers and the call.
LEMMA PartsOfInvariant == IInv <=> (ListInv /\ HeldInv /\ CallInv)
<1>1. FreePages \subseteq Region => Cardinality(FreePages) \in 0..RegionPages
  BY CountBound
<1> QED
  BY <1>1 DEF IInv, TypeOK, NoOverlap, HeldDisjoint, HandDisjoint, InRegion, KnownPages,
         EnoughInHand, ListInv, ListsOK, Descriptors, HeldInv, CallInv, FreeCount

\* The same after a step.
LEMMA PartsOfNextInvariant == (ListInv /\ HeldInv /\ CallInv)' => IInv'
<1>1. FreePages' \subseteq Region => Cardinality(FreePages') \in 0..RegionPages
  BY CountBound
<1> QED
  BY <1>1 DEF IInv, TypeOK, NoOverlap, HeldDisjoint, HandDisjoint, InRegion, KnownPages,
         EnoughInHand, ListInv, ListsOK, Descriptors, HeldInv, CallInv, FreeCount, Region, Orders, PCs

\* What leaves the callers alone keeps their invariant.
LEMMA SameHeld ==
  ASSUME HeldInv, held' = held
  PROVE  HeldInv' /\ HeldPages' = HeldPages
<1>1. \A a : Span(HeldBlock(a))' = Span(HeldBlock(a))
  BY DEF Span, HeldBlock, Block, size_to_order, IsOrderFor, Orders
<1>2. HeldPages' = HeldPages
  BY <1>1 DEF HeldPages
<1> QED
  BY <1>1, <1>2 DEF HeldInv, Region, Orders, IsOrderFor

\* The pages in hand after a call has returned: none.
LEMMA ReturnHand ==
  ASSUME ReturnToCaller
  PROVE  /\ HandPages' = {}
         /\ pc' = "idle"
         /\ (pc \in PCs)'
         /\ blk' \in Nat
         /\ ord' \in 0..(MAX_ORDER + 1)
         /\ arg' \in Nat
BY BlockSizes DEF ReturnToCaller, HandPages, PCs

-----------------------------------------------------------------------------
(* Each action preserves the invariant.                                    *)

\* Carving one block.
LEMMA CarveBlockInv ==
  ASSUME ListInv, HeldInv, CallInv, CarveBlock
  PROVE  /\ ListInv' /\ HeldInv' /\ CallInv'
         /\ HeldPages' = HeldPages
         /\ FreePages' \cup HandPages' = FreePages \cup HandPages
<1>1. PICK k \in Orders : /\ BlockSize[k] <= arg
                         /\ buddy_add_free(blk, k)
                         /\ blk' = blk + BlockSize[k]
                         /\ arg' = arg - BlockSize[k]
  BY DEF CarveBlock
<1>2. /\ pc = "carve" /\ pc' = "carve"
      /\ ord' = ord /\ held' = held
  BY DEF CarveBlock
<1>3. /\ BlockSize[k] \in Nat \ {0}
      /\ blk \in Nat
      /\ arg \in Nat
  BY BlockSizes DEF CallInv
<1>4. HandPages = blk .. (blk + arg - 1)
  BY <1>2 DEF HandPages
<1>5. blk \in HandPages
  BY <1>1, <1>3, <1>4
<1>6. blk \in Region
  BY <1>5 DEF CallInv
<1>7. Span(Block(blk, k)) = blk .. (blk + BlockSize[k] - 1)
  BY <1>6, SpanSize
<1>8. Span(Block(blk, k)) \subseteq HandPages
  BY <1>1, <1>3, <1>4, <1>7
<1>9. HandPages' = HandPages \ Span(Block(blk, k))
  <2>1. HandPages' = (blk + BlockSize[k]) .. (blk + arg - 1)
    BY <1>1, <1>2, <1>3 DEF HandPages
  <2> QED
    BY <1>1, <1>3, <1>4, <1>7, <2>1
<1>10. /\ ListInv'
       /\ FreePages' = FreePages \cup Span(Block(blk, k))
  BY <1>1, <1>6, <1>8, AddFreeInv DEF CallInv
<1>11. HeldInv' /\ HeldPages' = HeldPages
  BY <1>2, SameHeld
<1>12. blk' \in Nat /\ arg' \in Nat
  BY <1>1, <1>3
<1> QED
  BY <1>2, <1>8, <1>9, <1>10, <1>11, <1>12 DEF CallInv, Region, PCs

\* The end of buddy_init_memmap.
LEMMA CarveDoneInv ==
  ASSUME ListInv, HeldInv, CallInv, CarveDone
  PROVE  /\ ListInv' /\ HeldInv' /\ CallInv'
         /\ HeldPages' = HeldPages
         /\ FreePages' \cup HandPages' = FreePages \cup HandPages
<1>1. /\ UNCHANGED <<free_lists, nr_free, max_order_inited, held>>
      /\ ReturnToCaller
  BY DEF CarveDone
<1>2. ListInv' /\ FreePages' = FreePages
  BY <1>1, SameLists
<1>3. HeldInv' /\ HeldPages' = HeldPages
  BY <1>1, SameHeld
<1>4. HandPages = {}
  BY DEF CarveDone, HandPages, CallInv
<1> QED
  BY <1>1, <1>2, <1>3, <1>4, ReturnHand DEF CallInv, PCs

\* Entering alloc_pages.
LEMMA AskInv ==
  ASSUME ListInv, HeldInv, CallInv, NEW n \in Requests, alloc_pages(n)
  PROVE  /\ ListInv' /\ HeldInv' /\ CallInv'
         /\ HeldPages' = HeldPages
         /\ FreePages' \cup HandPages' = FreePages \cup HandPages
<1>1. ListInv' /\ FreePages' = FreePages
  BY SameLists DEF alloc_pages
<1>2. HeldInv' /\ HeldPages' = HeldPages
  BY SameHeld DEF alloc_pages
<1>3. HandPages' = {}
  BY DEF HandPages, alloc_pages
<1>4. arg' \in Nat
  BY RequestsAssumption DEF alloc_pages
<1>5. HandPages = {}
  BY DEF alloc_pages, HandPages
<1> QED
  BY <1>1, <1>2, <1>3, <1>4, <1>5 DEF CallInv, PCs, alloc_pages

\* buddy_alloc_pages returning NULL.
LEMMA AllocNullInv ==
  ASSUME ListInv, HeldInv, CallInv, AllocNull
  PROVE  /\ ListInv' /\ HeldInv' /\ CallInv'
         /\ HeldPages' = HeldPages
         /\ FreePages' \cup HandPages' = FreePages \cup HandPages
<1>1. /\ UNCHANGED <<free_lists, nr_free, max_order_inited, held>>
      /\ ReturnToCaller
  BY DEF AllocNull
<1>2. ListInv' /\ FreePages' = FreePages
  BY <1>1, SameLists
<1>3. HeldInv' /\ HeldPages' = HeldPages
  BY <1>1, SameHeld
<1>4. HandPages = {}
  BY DEF AllocNull, HandPages
<1> QED
  BY <1>1, <1>2, <1>3, <1>4, ReturnHand DEF CallInv, PCs

\* Taking the block that is split.
LEMMA AllocTakeInv ==
  ASSUME ListInv, HeldInv, CallInv, AllocTake
  PROVE  /\ ListInv' /\ HeldInv' /\ CallInv'
         /\ HeldPages' = HeldPages
         /\ FreePages' \cup HandPages' = FreePages \cup HandPages
<1>1. PICK k \in SearchOrders(arg) : /\ free_lists[k] # <<>>
                                    /\ blk' = free_lists[k][1].base
                                    /\ ord' = k
                                    /\ buddy_remove_free(k, 1)
  BY DEF AllocTake
<1>2. /\ pc = "alloc" /\ pc' = "split"
      /\ arg # 0 /\ arg <= nr_free /\ arg' = arg
      /\ held' = held
  BY DEF AllocTake
<1>3. k \in Orders /\ \E j \in 0..k : IsOrderFor(arg, j)
  BY <1>1 DEF SearchOrders
<1>4. 1 \in 1..Len(free_lists[k])
  <2>1. free_lists[k] \in Seq(Descriptors)
    BY <1>3 DEF ListInv, ListsOK
  <2> QED
    BY <1>1, <2>1, EmptySeq
<1> DEFINE b == free_lists[k][1]
<1>5. /\ b = Block(b.base, k)
      /\ b.base \in Region
      /\ Span(b) \subseteq FreePages
      /\ ListInv'
      /\ FreePages' = FreePages \ Span(b)
  BY <1>1, <1>3, <1>4, RemoveFreeInv
<1>6. HandPages' = Span(b)
  <2>1. HandPages' = b.base .. (b.base + BlockSize[k] - 1)
    BY <1>1, <1>2 DEF HandPages
  <2> QED
    BY <1>3, <1>5, <2>1, SpanSize
<1>7. HeldInv' /\ HeldPages' = HeldPages
  BY <1>2, SameHeld
<1>8. arg \in 1..RegionPages
  <2>1. nr_free \in 0..RegionPages
    BY CountBound DEF ListInv, FreeCount
  <2> QED
    BY <1>2, <2>1, RegionAssumption DEF CallInv
<1>9. blk' \in Nat /\ ord' \in 0..(MAX_ORDER + 1)
  <2>1. blk' \in Region /\ ord' \in Orders
    BY <1>1, <1>3, <1>5
  <2> QED
    BY <2>1, RegionFinite, OrdersInRange
<1>10. /\ HandPages' \subseteq Region
       /\ HandPages' \cap FreePages' = {}
       /\ HandPages' \cap HeldPages' = {}
       /\ HeldPages' \cap FreePages' = {}
  BY <1>5, <1>6, <1>7 DEF ListInv, CallInv
<1>11. (\E j \in 0..ord : IsOrderFor(arg, j))'
  BY <1>1, <1>2, <1>3 DEF IsOrderFor
<1>12. FreePages' \cup HandPages' = FreePages \cup HandPages
  <2>1. HandPages = {}
    BY <1>2 DEF HandPages
  <2> QED
    BY <1>5, <1>6, <2>1
<1> QED
  BY <1>1, <1>2, <1>3, <1>5, <1>12, <1>7, <1>8, <1>9, <1>10, <1>11 DEF CallInv, Region, PCs, Orders

\* The order a request is served at, while its block is being split.
LEMMA ServedOrder ==
  ASSUME CallInv, pc = "split"
  PROVE  /\ size_to_order(arg) \in 0..ord
         /\ size_to_order(arg) \in Orders
         /\ IsOrderFor(arg, size_to_order(arg))
<1>1. PICK k \in 0..ord : IsOrderFor(arg, k)
  BY DEF CallInv
<1>2. k \in Orders /\ arg \in Nat
  BY BlockSizes DEF CallInv, Orders
<1> QED
  BY <1>1, <1>2, OrderUnique

\* Splitting once: the upper half goes on a list, the lower stays in hand.
LEMMA SplitBlockInv ==
  ASSUME ListInv, HeldInv, CallInv, SplitBlock
  PROVE  /\ ListInv' /\ HeldInv' /\ CallInv'
         /\ HeldPages' = HeldPages
         /\ FreePages' \cup HandPages' = FreePages \cup HandPages
<1> DEFINE k == ord - 1
           half == BlockSize[k]
<1>1. /\ pc = "split" /\ pc' = "split"
      /\ ord > size_to_order(arg)
      /\ ord' = k
      /\ buddy_add_free(blk + half, k)
      /\ blk' = blk /\ arg' = arg /\ held' = held
  BY DEF SplitBlock
<1>2. /\ ord \in Orders
      /\ size_to_order(arg) \in 0..k
      /\ size_to_order(arg) \in Orders
      /\ IsOrderFor(arg, size_to_order(arg))
  BY <1>1, ServedOrder DEF CallInv, Orders
<1>3. k \in Orders /\ k + 1 = ord
  BY <1>2, BlockSizes DEF Orders
<1>4. /\ half \in Nat \ {0}
      /\ BlockSize[ord] = 2 * half
      /\ blk \in Nat
  BY <1>3, BlockSizes DEF CallInv
<1> HIDE DEF k, half
<1>5. HandPages = blk .. (blk + 2 * half - 1)
  BY <1>1, <1>4 DEF HandPages
<1>6. /\ blk \in HandPages
      /\ blk + half \in HandPages
  BY <1>4, <1>5
<1>7. blk \in Region /\ blk + half \in Region
  BY <1>6 DEF CallInv
<1>8. Span(Block(blk + half, k)) = (blk + half) .. (blk + half + half - 1)
  BY <1>3, <1>7, SpanSize DEF half
<1>9. HandPages' = blk .. (blk + half - 1)
  BY <1>1 DEF HandPages, half
<1>10. /\ Span(Block(blk + half, k)) \subseteq HandPages
       /\ HandPages' \subseteq HandPages
       /\ HandPages' \cap Span(Block(blk + half, k)) = {}
  BY <1>4, <1>5, <1>8, <1>9
<1>11. /\ ListInv'
       /\ FreePages' = FreePages \cup Span(Block(blk + half, k))
  BY <1>1, <1>3, <1>7, <1>10, AddFreeInv DEF CallInv
<1>12. HeldInv' /\ HeldPages' = HeldPages
  BY <1>1, SameHeld
<1>13. (\E j \in 0..ord : IsOrderFor(arg, j))'
  BY <1>1, <1>2 DEF IsOrderFor
<1>14. ord' \in Orders /\ ord' \in 0..(MAX_ORDER + 1)
  BY <1>1, <1>3, BlockSizes DEF Orders
<1>15. HandPages = HandPages' \cup Span(Block(blk + half, k))
  BY <1>4, <1>5, <1>8, <1>9
<1>16. FreePages' \cup HandPages' = FreePages \cup HandPages
  BY <1>11, <1>15
<1> QED
  BY <1>16, <1>1, <1>10, <1>11, <1>12, <1>13, <1>14 DEF CallInv, Region, PCs, Orders

\* What a caller holds is a block of the region.
LEMMA HeldBlockOf ==
  ASSUME HeldInv, NEW a \in held
  PROVE  /\ a.base \in Region
         /\ size_to_order(a.n) \in Orders
         /\ IsOrderFor(a.n, size_to_order(a.n))
         /\ HeldBlock(a) = Block(a.base, size_to_order(a.n))
         /\ Span(HeldBlock(a)) = a.base .. (a.base + BlockSize[size_to_order(a.n)] - 1)
         /\ Span(HeldBlock(a)) \subseteq HeldPages
<1>1. a.base \in Region /\ a.n \in 1..RegionPages
  BY DEF HeldInv
<1>2. PICK k \in Orders : IsOrderFor(a.n, k)
  BY DEF HeldInv
<1>3. size_to_order(a.n) = k
  BY <1>1, <1>2, OrderUnique, RegionAssumption
<1> QED
  BY <1>1, <1>2, <1>3, SpanSize DEF HeldBlock, HeldPages

\* Handing the block out.
LEMMA AllocReturnInv ==
  ASSUME ListInv, HeldInv, CallInv, AllocReturn
  PROVE  /\ ListInv' /\ HeldInv' /\ CallInv'
         /\ FreePages' = FreePages
         /\ HandPages' = {}
         /\ HeldPages' = HeldPages \cup HandPages
         /\ HandPages = blk .. (blk + BlockSize[ord] - 1)
         /\ ord \in Orders /\ blk \in Region
         /\ arg <= BlockSize[ord]
<1> DEFINE a == [base |-> blk, n |-> arg]
<1>1. /\ pc = "split"
      /\ ord = size_to_order(arg)
      /\ held' = held \cup {a}
      /\ UNCHANGED <<free_lists, nr_free, max_order_inited>>
      /\ ReturnToCaller
  BY DEF AllocReturn
<1>2. ListInv' /\ FreePages' = FreePages
  BY <1>1, SameLists
<1>3. /\ ord \in Orders
      /\ IsOrderFor(arg, ord)
      /\ arg \in 1..RegionPages
  BY <1>1, ServedOrder DEF CallInv
<1>4. HandPages = blk .. (blk + BlockSize[ord] - 1)
  BY <1>1 DEF HandPages
<1>5. blk \in HandPages /\ blk \in Region
  BY <1>3, <1>4, BlockSizes DEF CallInv
<1>6. Span(HeldBlock(a)) = HandPages
  BY <1>1, <1>3, <1>4, <1>5, SpanSize DEF HeldBlock
<1>7. HeldPages' = HeldPages \cup HandPages
  <2>1. \A c : Span(HeldBlock(c))' = Span(HeldBlock(c))
    BY DEF Span, HeldBlock, Block, size_to_order, IsOrderFor, Orders
  <2>2. HeldPages' = UNION {Span(HeldBlock(c)) : c \in held'}
    BY <2>1 DEF HeldPages
  <2> QED
    BY <1>1, <1>6, <2>2 DEF HeldPages
<1>8. HeldInv'
  <2>1. a \in [base : Region, n : 1..RegionPages]
    BY <1>3, <1>5
  <2>2. \A c \in held' : \E k \in Orders : IsOrderFor(c.n, k)
    BY <1>1, <1>3 DEF HeldInv
  <2>3. \A c \in held : Span(HeldBlock(c)) \cap Span(HeldBlock(a)) = {}
    BY <1>6 DEF CallInv, HeldPages
  <2>4. \A c, d \in held' : c # d => Span(HeldBlock(c)) \cap Span(HeldBlock(d)) = {}
    BY <1>1, <2>3 DEF HeldInv
  <2>5. HeldPages' \subseteq Region
    BY <1>7 DEF HeldInv, CallInv
  <2>6. held' \in SUBSET [base : Region, n : 1..RegionPages]
    BY <1>1, <2>1 DEF HeldInv
  <2> HIDE DEF a
  <2> QED
    BY <2>2, <2>4, <2>5, <2>6
       DEF HeldInv, Region, Orders, IsOrderFor, Span, HeldBlock, Block, size_to_order
<1> QED
  BY <1>1, <1>2, <1>3, <1>4, <1>5, <1>7, <1>8, ReturnHand DEF CallInv, PCs, IsOrderFor

\* Entering free_pages: the caller's block is in hand again.
LEMMA FreeInv ==
  ASSUME ListInv, HeldInv, CallInv, NEW a \in held, free_pages(a)
  PROVE  /\ ListInv' /\ HeldInv' /\ CallInv'
         /\ FreePages' = FreePages
         /\ HandPages' = Span(HeldBlock(a))
         /\ HeldPages' = HeldPages \ Span(HeldBlock(a))
<1> DEFINE k == size_to_order(a.n)
<1>1. /\ pc = "idle" /\ pc' = "merge"
      /\ held' = held \ {a}
      /\ blk' = a.base
      /\ ord' = k
      /\ arg' = arg
      /\ UNCHANGED <<free_lists, nr_free, max_order_inited>>
  BY DEF free_pages
<1>2. ListInv' /\ FreePages' = FreePages
  BY <1>1, SameLists
<1>3. /\ a.base \in Region
      /\ k \in Orders
      /\ Span(HeldBlock(a)) = a.base .. (a.base + BlockSize[k] - 1)
      /\ Span(HeldBlock(a)) \subseteq HeldPages
  BY HeldBlockOf
<1> HIDE DEF k
<1>4. HandPages' = Span(HeldBlock(a))
  BY <1>1, <1>3 DEF HandPages
<1>5. \A c : Span(HeldBlock(c))' = Span(HeldBlock(c))
  BY DEF Span, HeldBlock, Block, size_to_order, IsOrderFor, Orders
<1>6. HeldPages' = HeldPages \ Span(HeldBlock(a))
  <2>1. HeldPages' = UNION {Span(HeldBlock(c)) : c \in held \ {a}}
    BY <1>1, <1>5 DEF HeldPages
  <2>2. \A c \in held \ {a} : Span(HeldBlock(c)) \cap Span(HeldBlock(a)) = {}
    BY DEF HeldInv
  <2> QED
    BY <2>1, <2>2 DEF HeldPages
<1>7. HeldInv'
  BY <1>1, <1>5, <1>6 DEF HeldInv, Region, Orders, IsOrderFor
<1>8. blk' \in Nat /\ ord' \in 0..(MAX_ORDER + 1)
  <2>1. blk' \in Region /\ ord' \in Orders
    BY <1>1, <1>3
  <2> QED
    BY <2>1, RegionFinite, OrdersInRange
<1>9. /\ HandPages' \subseteq Region
      /\ HandPages' \cap FreePages' = {}
      /\ HandPages' \cap HeldPages' = {}
      /\ HeldPages' \cap FreePages' = {}
  BY <1>2, <1>3, <1>4, <1>6 DEF HeldInv, CallInv
<1> QED
  BY <1>1, <1>2, <1>4, <1>6, <1>7, <1>8, <1>9 DEF CallInv, PCs, Region

\* Joining the block in hand with its buddy.
LEMMA MergeBuddyInv ==
  ASSUME ListInv, HeldInv, CallInv, MergeBuddy
  PROVE  /\ ListInv' /\ HeldInv' /\ CallInv'
         /\ HeldPages' = HeldPages
         /\ FreePages' \cup HandPages' = FreePages \cup HandPages
<1>1. PICK p \in 1..Len(free_lists[ord]) : /\ IsFirstBuddy(blk, ord, p)
                                          /\ buddy_remove_free(ord, p)
  BY DEF MergeBuddy
<1> DEFINE size == BlockSize[ord]
           buddy == BuddyIndex(blk, ord)
           b == free_lists[ord][p]
<1>2. /\ pc = "merge" /\ pc' = "merge"
      /\ ord <= MAX_ORDER
      /\ blk' = IF blk > buddy THEN buddy ELSE blk
      /\ ord' = ord + 1
      /\ arg' = arg /\ held' = held
  BY DEF MergeBuddy
<1>3. /\ ord \in Orders
      /\ ord + 1 \in 0..(MAX_ORDER + 1)
  BY <1>2, OrderAssumption DEF CallInv, Orders
<1>4. /\ size \in Nat \ {0}
      /\ BlockSize[ord + 1] = 2 * size
      /\ blk \in Nat
  BY <1>3, BlockSizes DEF CallInv
<1>5. /\ b = Block(b.base, ord)
      /\ b.base \in Region
      /\ Span(b) \subseteq FreePages
      /\ ListInv'
      /\ FreePages' = FreePages \ Span(b)
  BY <1>1, <1>3, RemoveFreeInv
<1>6. b.base = buddy
  BY <1>1 DEF IsFirstBuddy
<1>7. buddy = blk + size \/ buddy = blk - size
  BY DEF BuddyIndex
<1> HIDE DEF size, buddy, b
<1>8. buddy \in Nat /\ Span(b) = buddy .. (buddy + size - 1)
  BY <1>3, <1>5, <1>6, SpanSize, RegionFinite DEF size
<1>9. HandPages = blk .. (blk + size - 1)
  BY <1>2 DEF HandPages, size
<1>10. HandPages' = blk' .. (blk' + 2 * size - 1)
  BY <1>2, <1>4 DEF HandPages
<1>11. HandPages' = HandPages \cup Span(b)
  <2>1. CASE buddy = blk + size
    <3>1. blk' = blk
      BY <1>2, <1>4, <2>1
    <3> QED
      BY <1>4, <1>8, <1>9, <1>10, <2>1, <3>1
  <2>2. CASE buddy = blk - size
    <3>1. blk' = buddy
      BY <1>2, <1>4, <2>2
    <3> QED
      BY <1>4, <1>8, <1>9, <1>10, <2>2, <3>1
  <2> QED
    BY <1>7, <2>1, <2>2
<1>12. HeldInv' /\ HeldPages' = HeldPages
  BY <1>2, SameHeld
<1>13. blk' \in Nat
  BY <1>2, <1>4, <1>8
<1>14. /\ HandPages' \subseteq Region
       /\ HandPages' \cap FreePages' = {}
       /\ HandPages' \cap HeldPages' = {}
       /\ HeldPages' \cap FreePages' = {}
       /\ FreePages' \cup HandPages' = FreePages \cup HandPages
  BY <1>5, <1>11, <1>12 DEF ListInv, CallInv
<1> QED
  BY <1>2, <1>3, <1>5, <1>12, <1>13, <1>14 DEF CallInv, Region, PCs

\* Listing the joined block.
LEMMA AddMergedInv ==
  ASSUME ListInv, HeldInv, CallInv, AddMerged
  PROVE  /\ ListInv' /\ HeldInv' /\ CallInv'
         /\ HeldPages' = HeldPages
         /\ HandPages' = {}
         /\ FreePages' = FreePages \cup HandPages
<1>1. /\ pc = "merge"
      /\ ord <= MAX_ORDER
      /\ buddy_add_free(blk, ord)
      /\ ReturnToCaller
      /\ held' = held
  BY DEF AddMerged
<1>2. ord \in Orders
  BY <1>1, OrderAssumption DEF CallInv, Orders
<1>3. HandPages = blk .. (blk + BlockSize[ord] - 1)
  BY <1>1 DEF HandPages
<1>4. blk \in Region
  <2>1. blk \in HandPages
    BY <1>2, <1>3, BlockSizes DEF CallInv
  <2> QED
    BY <2>1 DEF CallInv
<1>5. Span(Block(blk, ord)) = HandPages
  BY <1>2, <1>3, <1>4, SpanSize
<1>6. /\ ListInv'
      /\ FreePages' = FreePages \cup HandPages
  BY <1>1, <1>2, <1>4, <1>5, AddFreeInv DEF CallInv
<1>7. HeldInv' /\ HeldPages' = HeldPages
  BY <1>1, SameHeld
<1> QED
  BY <1>1, <1>6, <1>7, ReturnHand DEF CallInv, PCs

\* Of a block of order MAX_ORDER + 1, the upper half is never listed.
LEMMA AddCappedInv ==
  ASSUME ListInv, HeldInv, CallInv, AddCapped
  PROVE  LET lost == (blk + BlockSize[MAX_ORDER]) .. (blk + 2 * BlockSize[MAX_ORDER] - 1)
         IN  /\ ListInv' /\ HeldInv' /\ CallInv'
             /\ HeldPages' = HeldPages
             /\ HandPages' = {}
             /\ lost \subseteq HandPages
             /\ FreePages' = (FreePages \cup HandPages) \ lost
<1> DEFINE size == BlockSize[MAX_ORDER]
           lost == (blk + size) .. (blk + 2 * size - 1)
<1>1. /\ pc = "merge"
      /\ ord > MAX_ORDER
      /\ buddy_add_free(blk, MAX_ORDER)
      /\ ReturnToCaller
      /\ held' = held
  BY DEF AddCapped
<1>2. /\ MAX_ORDER \in Orders
      /\ ord = MAX_ORDER + 1
  BY <1>1, OrderAssumption DEF CallInv, Orders
<1>3. /\ size \in Nat \ {0}
      /\ BlockSize[ord] = 2 * size
      /\ blk \in Nat
  BY <1>2, BlockSizes DEF CallInv
<1> HIDE DEF size
<1>4. HandPages = blk .. (blk + 2 * size - 1)
  BY <1>1, <1>3 DEF HandPages
<1>5. blk \in Region
  <2>1. blk \in HandPages
    BY <1>3, <1>4
  <2> QED
    BY <2>1 DEF CallInv
<1>6. Span(Block(blk, MAX_ORDER)) = blk .. (blk + size - 1)
  BY <1>2, <1>5, SpanSize DEF size
<1>7. /\ Span(Block(blk, MAX_ORDER)) = HandPages \ lost
      /\ lost \subseteq HandPages
  BY <1>3, <1>4, <1>6
<1> HIDE DEF lost
<1>8. /\ ListInv'
      /\ FreePages' = FreePages \cup (HandPages \ lost)
  BY <1>1, <1>2, <1>5, <1>7, AddFreeInv DEF CallInv
<1>9. HeldInv' /\ HeldPages' = HeldPages
  BY <1>1, SameHeld
<1>10. /\ HandPages' = {} /\ pc' = "idle"
       /\ blk' \in Nat /\ ord' \in 0..(MAX_ORDER + 1) /\ arg' \in Nat
  BY <1>1, ReturnHand
<1>11. HeldPages' \cap FreePages' = {}
  BY <1>8, <1>9 DEF CallInv
<1>12. CallInv'
  BY <1>10, <1>11 DEF CallInv, PCs
<1>13. FreePages' = (FreePages \cup HandPages) \ lost
  BY <1>7, <1>8 DEF CallInv
<1> QED
  BY <1>7, <1>8, <1>9, <1>10, <1>12, <1>13 DEF lost, size

-----------------------------------------------------------------------------
(* The theorems.                                                           *)

\* The invariant holds initially.
LEMMA InitInv ==
  ASSUME Init
  PROVE  /\ ListInv /\ HeldInv /\ CallInv
         /\ FreePages = {} /\ HeldPages = {} /\ HandPages = Region
<1>1. \A k \in Orders : free_lists[k] = <<>> /\ free_lists[k] \in Seq(Descriptors)
  BY DEF Init
<1>2. ListedBlocks = {}
  BY <1>1 DEF ListedBlocks
<1>3. FreePages = {}
  BY <1>2 DEF FreePages
<1>4. ListsOK
  <2>1. free_lists \in [Orders -> Seq(Descriptors)]
    BY <1>1 DEF Init
  <2>2. ListsWellFormed
    BY <1>1 DEF ListsWellFormed
  <2> QED
    BY <2>1, <2>2 DEF ListsOK
<1>5. FreeCount
  BY <1>3, FS_EmptySet DEF FreeCount, Init
<1>6. ListInv
  BY <1>2, <1>3, <1>4, <1>5, OrderAssumption DEF ListInv, FreeDisjoint, Orders, Init
<1>7. HeldPages = {} /\ HeldInv
  BY DEF HeldPages, HeldInv, Init
<1>8. HandPages = Region
  BY RegionAssumption DEF HandPages, Region, Init
<1>9. CallInv
  BY <1>3, <1>7, <1>8, RegionAssumption, OrderAssumption DEF CallInv, PCs, Init
<1> QED
  BY <1>3, <1>6, <1>7, <1>8, <1>9

\* Every step preserves the invariant.
LEMMA NextInv ==
  ASSUME IInv, [Next]_vars
  PROVE  IInv'
<1>1. ListInv /\ HeldInv /\ CallInv
  BY PartsOfInvariant
<1>2. (ListInv /\ HeldInv /\ CallInv)'
  <2>1. CASE CarveBlock
    BY <1>1, <2>1, CarveBlockInv
  <2>2. CASE CarveDone
    BY <1>1, <2>2, CarveDoneInv
  <2>3. CASE AllocNull
    BY <1>1, <2>3, AllocNullInv
  <2>4. CASE AllocTake
    BY <1>1, <2>4, AllocTakeInv
  <2>5. CASE SplitBlock
    BY <1>1, <2>5, SplitBlockInv
  <2>6. CASE AllocReturn
    BY <1>1, <2>6, AllocReturnInv
  <2>7. CASE MergeBuddy
    BY <1>1, <2>7, MergeBuddyInv
  <2>8. CASE AddMerged
    BY <1>1, <2>8, AddMergedInv
  <2>9. CASE AddCapped
    BY <1>1, <2>9, AddCappedInv
  <2>10. ASSUME NEW n \in Requests, alloc_pages(n)
         PROVE  (ListInv /\ HeldInv /\ CallInv)'
    BY <1>1, <2>10, AskInv
  <2>11. ASSUME NEW a \in held, free_pages(a)
         PROVE  (ListInv /\ HeldInv /\ CallInv)'
    BY <1>1, <2>11, FreeInv
  <2>12. CASE UNCHANGED vars
    <3>1. ListInv' /\ FreePages' = FreePages
      BY <1>1, <2>12, SameLists DEF vars
    <3>2. HeldInv' /\ HeldPages' = HeldPages
      BY <1>1, <2>12, SameHeld DEF vars
    <3>3. HandPages' = HandPages
      BY <2>12 DEF vars, HandPages
    <3>4. (\E k \in 0..ord : IsOrderFor(arg, k))' <=> \E k \in 0..ord : IsOrderFor(arg, k)
      BY <2>12 DEF vars, IsOrderFor
    <3> QED
      BY <1>1, <2>12, <3>1, <3>2, <3>3, <3>4 DEF CallInv, vars, PCs, Orders, Region
  <2> QED
    BY <2>1, <2>2, <2>3, <2>4, <2>5, <2>6, <2>7, <2>8, <2>9, <2>10, <2>11, <2>12
       DEF Next, RunningCall
<1> QED
  BY <1>2, PartsOfNextInvariant

\* The invariant holds in every reachable state.
THEOREM Invariance == Spec => []IInv
<1>1. Init => IInv
  BY InitInv, PartsOfInvariant
<1>2. IInv /\ [Next]_vars => IInv'
  BY NextInv
<1> QED
  BY <1>1, <1>2, PTL DEF Spec

\* The variables of buddy_pmm.c keep to their values: nr_free, an unsigned
\* counter that is only ever added to and subtracted from, never wraps.
THEOREM TypeCorrect == Spec => []TypeOK
<1>1. IInv => TypeOK
  BY DEF IInv
<1> QED
  BY <1>1, Invariance, PTL

\* No page is ever free twice, held twice, or free and held, for every size of
\* region, aligned or not, and every order of calls.
THEOREM Exclusive == Spec => []NoOverlap
<1>1. IInv => NoOverlap
  BY DEF IInv
<1> QED
  BY <1>1, Invariance, PTL

\* nr_free is the number of pages on the free lists.
THEOREM CountExact == Spec => []FreeCount
<1>1. IInv => FreeCount
  BY DEF IInv
<1> QED
  BY <1>1, Invariance, PTL

-----------------------------------------------------------------------------
(* What a step does to the pages known to the allocator or to a caller.    *)

SamePages ==
  /\ HeldPages' = HeldPages
  /\ FreePages' \cup HandPages' = FreePages \cup HandPages

\* A stuttering step moves no page.
LEMMA StutterPages ==
  ASSUME UNCHANGED vars
  PROVE  SamePages
BY DEF vars, SamePages, HeldPages, FreePages, HandPages, ListedBlocks, Span, HeldBlock,
       Block, size_to_order, IsOrderFor, Orders

\* The pages lost when two MAX_ORDER blocks are joined.
LEMMA CappedLoss ==
  ASSUME IInv, AddCapped
  PROVE  /\ KnownPages' \subseteq KnownPages
         /\ Cardinality(KnownPages \ KnownPages') = BlockSize[MAX_ORDER]
<1> DEFINE size == BlockSize[MAX_ORDER]
           lost == (blk + size) .. (blk + 2 * size - 1)
<1>1. ListInv /\ HeldInv /\ CallInv
  BY PartsOfInvariant
<1>2. /\ HeldPages' = HeldPages
      /\ HandPages' = {}
      /\ lost \subseteq HandPages
      /\ FreePages' = (FreePages \cup HandPages) \ lost
  BY <1>1, AddCappedInv
<1>3. size \in Nat \ {0} /\ blk \in Nat
  BY <1>1, SizeAssumption, OrderAssumption DEF CallInv
<1>4. Cardinality(lost) = size
  <2> HIDE DEF size
  <2> DEFINE first == blk + size
  <2>1. first \in Nat /\ lost = first .. (first + size - 1)
    BY <1>3
  <2> HIDE DEF first
  <2> QED
    BY <1>3, <2>1, IntervalSize
<1> HIDE DEF lost, size
<1>5. KnownPages \ KnownPages' = lost /\ KnownPages' \subseteq KnownPages
  BY <1>1, <1>2 DEF KnownPages, CallInv
<1> QED
  BY <1>4, <1>5 DEF size

LossStep ==
  KnownPages' # KnownPages =>
    /\ pc = "merge" /\ ord = MAX_ORDER + 1 /\ pc' = "idle"
    /\ KnownPages' \subseteq KnownPages
    /\ Cardinality(KnownPages \ KnownPages') = BlockSize[MAX_ORDER]

\* Every step that is not AddCapped keeps the pages known, and AddCapped loses
\* one block's worth.
LEMMA LossOnlyCapped ==
  ASSUME IInv, [Next]_vars
  PROVE  LossStep
<1>1. ListInv /\ HeldInv /\ CallInv
  BY PartsOfInvariant
<1>2. SamePages => LossStep
  BY DEF SamePages, LossStep, KnownPages
<1>3. CASE CarveBlock
  BY <1>1, <1>2, <1>3, CarveBlockInv DEF SamePages
<1>4. CASE CarveDone
  BY <1>1, <1>2, <1>4, CarveDoneInv DEF SamePages
<1>5. CASE AllocNull
  BY <1>1, <1>2, <1>5, AllocNullInv DEF SamePages
<1>6. CASE AllocTake
  BY <1>1, <1>2, <1>6, AllocTakeInv DEF SamePages
<1>7. CASE SplitBlock
  BY <1>1, <1>2, <1>7, SplitBlockInv DEF SamePages
<1>8. CASE AllocReturn
  BY <1>1, <1>8, AllocReturnInv DEF LossStep, KnownPages
<1>9. CASE MergeBuddy
  BY <1>1, <1>2, <1>9, MergeBuddyInv DEF SamePages
<1>10. CASE AddMerged
  BY <1>1, <1>10, AddMergedInv DEF LossStep, KnownPages
<1>11. CASE AddCapped
  <2>1. pc = "merge" /\ ord = MAX_ORDER + 1 /\ pc' = "idle"
    BY <1>1, <1>11, OrderAssumption DEF AddCapped, ReturnToCaller, CallInv
  <2> QED
    BY <1>11, <2>1, CappedLoss DEF LossStep
<1>12. ASSUME NEW n \in Requests, alloc_pages(n)
       PROVE  LossStep
  BY <1>1, <1>2, <1>12, AskInv DEF SamePages
<1>13. ASSUME NEW a \in held, free_pages(a)
       PROVE  LossStep
  <2>1. /\ FreePages' = FreePages
        /\ HandPages' = Span(HeldBlock(a))
        /\ HeldPages' = HeldPages \ Span(HeldBlock(a))
    BY <1>1, <1>13, FreeInv
  <2>2. Span(HeldBlock(a)) \subseteq HeldPages
    BY <1>1, HeldBlockOf
  <2>3. HandPages = {}
    BY <1>13 DEF free_pages, HandPages
  <2> QED
    BY <2>1, <2>2, <2>3 DEF LossStep, KnownPages
<1>14. CASE UNCHANGED vars
  BY <1>2, <1>14, StutterPages
<1> QED
  BY <1>3, <1>4, <1>5, <1>6, <1>7, <1>8, <1>9, <1>10, <1>11, <1>12, <1>13, <1>14
     DEF Next, RunningCall

\* Pages are lost at one place only, the joining of two MAX_ORDER blocks, and
\* each time exactly one block's worth of them.
THEOREM LossConfined == Spec => LossOnlyAtCap
<1>1. IInv /\ [Next]_vars => LossStep
  BY LossOnlyCapped
<1>2. LossStep <=> (KnownPages' # KnownPages =>
        /\ pc = "merge" /\ ord = MAX_ORDER + 1 /\ pc' = "idle"
        /\ KnownPages' \subseteq KnownPages
        /\ Cardinality(KnownPages \ KnownPages') = BlockSize[MAX_ORDER])
  BY DEF LossStep
<1> QED
  BY <1>1, <1>2, Invariance, PTL DEF Spec, LossOnlyAtCap

-----------------------------------------------------------------------------
(* The buddy system implements the contract of a page allocator.           *)

Asked == IF pc \in {"alloc", "split"} THEN arg ELSE -1

\* A step that moves no page between the allocator and its callers, and
\* neither starts nor ends a request, is invisible in the contract.
LEMMA InternalStep ==
  ASSUME SamePages, Asked' = Asked
  PROVE  UNCHANGED PA!vars
BY DEF SamePages, Asked, PA!vars

\* NULL for a single page means that no page is free.
LEMMA RefuseStep ==
  ASSUME IInv, AllocNull
  PROVE  PA!Refuse
<1>1. ListInv /\ HeldInv /\ CallInv
  BY PartsOfInvariant
<1>2. SamePages
  BY <1>1, AllocNullInv DEF SamePages
<1>3. /\ pc = "alloc" /\ pc' = "idle"
      /\ HandPages = {}
      /\ arg \in Nat
  BY <1>1 DEF AllocNull, ReturnToCaller, HandPages, CallInv
<1>4. ASSUME arg = 1
      PROVE  FreePages = {}
  <2>1. IsOrderFor(1, 0) /\ \A k \in Orders : 0 \in 0..k
    BY SizeAssumption, OrderAssumption DEF IsOrderFor, Orders
  <2>2. SearchOrders(1) = Orders
    BY <2>1 DEF SearchOrders
  <2>3. CASE 1 > nr_free
    <3>1. IsFiniteSet(FreePages) /\ nr_free = Cardinality(FreePages)
      BY <1>1, CountBound DEF ListInv, FreeCount
    <3>2. nr_free = 0
      BY <2>3, <3>1, FS_CardinalityType
    <3> QED
      BY <3>1, <3>2, FS_EmptySet
  <2>4. CASE \A k \in SearchOrders(1) : free_lists[k] = <<>>
    <3>1. ListedBlocks = {}
      BY <2>2, <2>4 DEF ListedBlocks
    <3> QED
      BY <3>1 DEF FreePages
  <2> QED
    BY <1>4, <2>3, <2>4 DEF AllocNull
<1> QED
  BY <1>2, <1>3, <1>4 DEF PA!Refuse, PA!NoCall, SamePages

\* What alloc_pages returns was free, and is enough.
LEMMA GrantStep ==
  ASSUME IInv, AllocReturn
  PROVE  \E lo, hi \in Region : PA!Grant(lo, hi)
<1> DEFINE hi == blk + BlockSize[ord] - 1
<1>1. ListInv /\ HeldInv /\ CallInv
  BY PartsOfInvariant
<1>2. /\ FreePages' = FreePages
      /\ HandPages' = {}
      /\ HeldPages' = HeldPages \cup HandPages
      /\ HandPages = blk .. hi
      /\ ord \in Orders /\ blk \in Region
      /\ arg <= BlockSize[ord]
  BY <1>1, AllocReturnInv
<1>3. /\ BlockSize[ord] \in Nat \ {0}
      /\ blk \in Nat /\ arg \in Nat
  BY <1>1, <1>2, BlockSizes DEF CallInv
<1>4. hi \in blk .. hi /\ hi - blk + 1 >= arg
  BY <1>2, <1>3
<1>5. hi \in Region
  BY <1>1, <1>2, <1>4 DEF CallInv
<1>6. pc = "split" /\ pc' = "idle"
  BY DEF AllocReturn, ReturnToCaller
<1>7. arg # -1
  BY <1>3
<1> HIDE DEF hi
<1>8. PA!Grant(blk, hi)
  BY <1>1, <1>2, <1>4, <1>6, <1>7 DEF PA!Grant, PA!NoCall, CallInv
<1> QED
  BY <1>2, <1>5, <1>8

\* Entering alloc_pages is Ask of the contract.
LEMMA AskStep ==
  ASSUME IInv, NEW n \in Requests, alloc_pages(n)
  PROVE  PA!Ask(n)
<1>1. SamePages
  BY PartsOfInvariant, AskInv DEF SamePages
<1>2. pc = "idle" /\ pc' = "alloc" /\ arg' = n
  BY DEF alloc_pages
<1> QED
  BY <1>1, <1>2 DEF PA!Ask, PA!NoCall, SamePages

\* Entering free_pages is Release of the contract.
LEMMA ReleaseStep ==
  ASSUME IInv, NEW a \in held, free_pages(a)
  PROVE  \E lo, hi \in Region : PA!Release(lo, hi)
<1> DEFINE size == BlockSize[size_to_order(a.n)]
           hi == a.base + size - 1
<1>1. ListInv /\ HeldInv /\ CallInv
  BY PartsOfInvariant
<1>2. /\ FreePages' = FreePages
      /\ HandPages' = Span(HeldBlock(a))
      /\ HeldPages' = HeldPages \ Span(HeldBlock(a))
  BY <1>1, FreeInv
<1>3. /\ a.base \in Region
      /\ size_to_order(a.n) \in Orders
      /\ Span(HeldBlock(a)) = a.base .. hi
      /\ Span(HeldBlock(a)) \subseteq HeldPages
  BY <1>1, HeldBlockOf
<1>4. size \in Nat \ {0} /\ a.base \in Nat
  BY <1>3, BlockSizes, RegionFinite
<1>5. hi \in a.base .. hi
  BY <1>4
<1>6. hi \in Region
  BY <1>1, <1>3, <1>5 DEF HeldInv
<1>7. pc = "idle" /\ pc' = "merge" /\ HandPages = {}
  BY DEF free_pages, HandPages
<1> HIDE DEF hi
<1>8. PA!Release(a.base, hi)
  BY <1>2, <1>3, <1>7 DEF PA!Release, PA!NoCall
<1> QED
  BY <1>3, <1>6, <1>8

\* Listing two MAX_ORDER blocks as one is Forfeit of the contract.
LEMMA ForfeitStep ==
  ASSUME IInv, AddCapped
  PROVE  \E lo, hi \in Region : PA!Forfeit(lo, hi)
<1> DEFINE size == BlockSize[MAX_ORDER]
           lo == blk + size
           hi == blk + 2 * size - 1
<1>1. ListInv /\ HeldInv /\ CallInv
  BY PartsOfInvariant
<1>2. /\ HeldPages' = HeldPages
      /\ HandPages' = {}
      /\ lo..hi \subseteq HandPages
      /\ FreePages' = (FreePages \cup HandPages) \ (lo..hi)
  BY <1>1, AddCappedInv
<1>3. size \in Nat \ {0} /\ blk \in Nat
  BY <1>1, SizeAssumption, OrderAssumption DEF CallInv
<1>4. lo \in lo..hi /\ hi \in lo..hi
  BY <1>3
<1> HIDE DEF lo, hi
<1>5. lo \in Region /\ hi \in Region
  BY <1>1, <1>2, <1>4 DEF CallInv
<1>6. pc = "merge" /\ pc' = "idle"
  BY DEF AddCapped, ReturnToCaller
<1>7. PA!Forfeit(lo, hi)
  BY <1>2, <1>6 DEF PA!Forfeit, PA!NoCall
<1> QED
  BY <1>5, <1>7

\* Every step but AddCapped is one of the contract, or invisible in it.
LEMMA StepSimulationButCap ==
  ASSUME IInv, [Next]_vars, ~AddCapped
  PROVE  [PA!Next]_(PA!vars)
<1>1. ListInv /\ HeldInv /\ CallInv
  BY PartsOfInvariant
<1>2. CASE CarveBlock
  BY <1>1, <1>2, CarveBlockInv, InternalStep DEF SamePages, Asked, CarveBlock
<1>3. CASE CarveDone
  BY <1>1, <1>3, CarveDoneInv, InternalStep DEF SamePages, Asked, CarveDone, ReturnToCaller
<1>4. CASE AllocNull
  BY <1>4, RefuseStep DEF PA!Next
<1>5. CASE AllocTake
  BY <1>1, <1>5, AllocTakeInv, InternalStep DEF SamePages, Asked, AllocTake
<1>6. CASE SplitBlock
  BY <1>1, <1>6, SplitBlockInv, InternalStep DEF SamePages, Asked, SplitBlock
<1>7. CASE AllocReturn
  BY <1>7, GrantStep DEF PA!Next
<1>8. CASE MergeBuddy
  BY <1>1, <1>8, MergeBuddyInv, InternalStep DEF SamePages, Asked, MergeBuddy
<1>9. CASE AddMerged
  BY <1>1, <1>9, AddMergedInv, InternalStep DEF SamePages, Asked, AddMerged, ReturnToCaller
<1>10. ASSUME NEW n \in Requests, alloc_pages(n)
       PROVE  PA!Next
  BY <1>10, AskStep DEF PA!Next
<1>11. ASSUME NEW a \in held, free_pages(a)
       PROVE  PA!Next
  BY <1>11, ReleaseStep DEF PA!Next
<1>12. CASE UNCHANGED vars
  BY <1>12, StutterPages, InternalStep DEF Asked, vars
<1> QED
  BY <1>2, <1>3, <1>4, <1>5, <1>6, <1>7, <1>8, <1>9, <1>10, <1>11, <1>12
     DEF Next, RunningCall

\* Every step is one of the contract with Forfeit, or invisible in it.
LEMMA StepSimulation ==
  ASSUME IInv, [Next]_vars
  PROVE  [PA!LossyNext]_(PA!vars)
<1>1. CASE AddCapped
  BY <1>1, ForfeitStep DEF PA!LossyNext
<1>2. CASE ~AddCapped
  BY <1>2, StepSimulationButCap DEF PA!LossyNext
<1> QED
  BY <1>1, <1>2

\* Whatever the region and the calls, the buddy system is a page allocator
\* that may only forfeit pages: it grants only free pages, and enough of them,
\* takes back what it granted, and refuses a single page only when none is
\* free.
THEOREM LossyRefinement == Spec => ImplementsLossyAllocator
<1>1. Init => PA!Init
  <2> SUFFICES ASSUME Init PROVE PA!Init
    OBVIOUS
  <2>1. FreePages = {} /\ HeldPages = {} /\ HandPages = Region
    BY InitInv
  <2> QED
    BY <2>1 DEF PA!Init, PA!NoCall, Init
<1>2. IInv /\ [Next]_vars => [PA!LossyNext]_(PA!vars)
  BY StepSimulation
<1> QED
  BY <1>1, <1>2, Invariance, PTL DEF Spec, ImplementsLossyAllocator, PA!LossySpec

-----------------------------------------------------------------------------
(* A region too small for two MAX_ORDER blocks loses nothing.              *)

SmallRegion == RegionPages < 2 * BlockSize[MAX_ORDER]

\* A block of order MAX_ORDER + 1 would not fit in such a region.
LEMMA NeverCapped ==
  ASSUME SmallRegion, IInv
  PROVE  ~AddCapped
<1> SUFFICES ASSUME AddCapped PROVE FALSE
  OBVIOUS
<1> DEFINE size == BlockSize[MAX_ORDER]
<1>1. ListInv /\ HeldInv /\ CallInv
  BY PartsOfInvariant
<1>2. MAX_ORDER \in Orders /\ ord = MAX_ORDER + 1 /\ pc = "merge"
  BY <1>1, OrderAssumption DEF AddCapped, CallInv, Orders
<1>3. size \in Nat \ {0} /\ BlockSize[ord] = 2 * size /\ blk \in Nat
  BY <1>1, <1>2, BlockSizes DEF CallInv
<1>4. HandPages = blk .. (blk + 2 * size - 1)
  BY <1>2, <1>3 DEF HandPages
<1> HIDE DEF size
<1>5. blk \in HandPages /\ blk + 2 * size - 1 \in HandPages
  BY <1>3, <1>4
<1>6. blk \in Region /\ blk + 2 * size - 1 \in Region
  BY <1>1, <1>5 DEF CallInv
<1>7. blk >= RegionBase /\ blk + 2 * size - 1 <= RegionBase + RegionPages - 1
  BY <1>6 DEF Region
<1>8. RegionPages < 2 * size
  BY DEF SmallRegion, size
<1> QED
  BY <1>3, <1>7, <1>8, RegionAssumption

Complete == KnownPages = Region

\* In a small region no step loses a page.
LEMMA CompleteStep ==
  ASSUME SmallRegion, IInv, Complete, [Next]_vars
  PROVE  Complete'
<1>1. LossStep /\ IInv'
  BY LossOnlyCapped, NextInv
<1>2. ~AddCapped
  BY NeverCapped
<1>3. CASE KnownPages' = KnownPages
  BY <1>3 DEF Complete, Region
<1>4. CASE KnownPages' # KnownPages
  <2>1. pc = "merge" /\ ord = MAX_ORDER + 1 /\ pc' = "idle"
    BY <1>1, <1>4 DEF LossStep
  <2>2. AddMerged \/ AddCapped
    BY <2>1 DEF Next, RunningCall, vars, CarveBlock, CarveDone, AllocNull, AllocTake,
                SplitBlock, AllocReturn, MergeBuddy, alloc_pages, free_pages
  <2>3. ~AddMerged
    BY <2>1, OrderAssumption DEF AddMerged
  <2> QED
    BY <1>2, <2>2, <2>3
<1> QED
  BY <1>3, <1>4

\* nr_free is back at the size of the region whenever every caller has given
\* its pages back, provided the region cannot hold two MAX_ORDER blocks.
THEOREM FreedInFullSmall ==
  ASSUME SmallRegion
  PROVE  Spec => []FreedInFull
<1>1. Init => Complete
  BY InitInv DEF Complete, KnownPages
<1>2. IInv /\ Complete /\ [Next]_vars => Complete'
  BY CompleteStep
<1>3. IInv /\ Complete => FreedInFull
  <2> SUFFICES ASSUME IInv, Complete, pc = "idle", held = {}
               PROVE  nr_free = RegionPages
    BY DEF FreedInFull
  <2>1. HandPages = {} /\ HeldPages = {}
    BY DEF HandPages, HeldPages
  <2>2. FreePages = Region
    BY <2>1 DEF Complete, KnownPages
  <2> QED
    BY <2>2, RegionFinite DEF IInv, FreeCount
<1> QED
  BY <1>1, <1>2, <1>3, Invariance, PTL DEF Spec

\* In such a region the buddy system keeps the contract in full.
THEOREM StrictRefinementSmall ==
  ASSUME SmallRegion
  PROVE  Spec => ImplementsAllocator
<1>1. Init => PA!Init
  <2> SUFFICES ASSUME Init PROVE PA!Init
    OBVIOUS
  <2>1. FreePages = {} /\ HeldPages = {} /\ HandPages = Region
    BY InitInv
  <2> QED
    BY <2>1 DEF PA!Init, PA!NoCall, Init
<1>2. IInv /\ [Next]_vars => [PA!Next]_(PA!vars)
  <2> SUFFICES ASSUME IInv, [Next]_vars PROVE [PA!Next]_(PA!vars)
    OBVIOUS
  <2>1. ~AddCapped
    BY NeverCapped
  <2> QED
    BY <2>1, StepSimulationButCap
<1> QED
  BY <1>1, <1>2, Invariance, PTL DEF Spec, ImplementsAllocator, PA!Spec

-----------------------------------------------------------------------------
(* Regions that start at a multiple of the largest block.                  *)

Aligned(i, k) == \E q \in Nat : i = q * BlockSize[k]

AlignedRegion == Aligned(RegionBase, MAX_ORDER)

-----------------------------------------------------------------------------
(* Multiples of a block's size.                                            *)

\* A multiple of a size is a multiple of half that size.
LEMMA AlignedHalf ==
  ASSUME NEW i, NEW k \in Orders, Aligned(i, k + 1)
  PROVE  Aligned(i, k)
<1> DEFINE s == BlockSize[k]
<1>1. s \in Nat \ {0} /\ BlockSize[k + 1] = 2 * s
  BY BlockSizes
<1>2. PICK q \in Nat : i = q * (2 * s)
  BY <1>1 DEF Aligned
<1> HIDE DEF s
<1>3. i = (2 * q) * s /\ 2 * q \in Nat
  BY <1>1, <1>2
<1> QED
  BY <1>3 DEF Aligned, s

\* A multiple of a size is a multiple of every smaller size.
LEMMA AlignedBelow ==
  ASSUME NEW i, NEW k \in 0..(MAX_ORDER + 1), Aligned(i, k), NEW j \in 0..k
  PROVE  Aligned(i, j)
<1> SUFFICES ASSUME ~Aligned(i, j) PROVE FALSE
  OBVIOUS
<1> DEFINE T == {d \in Nat : d <= k /\ ~Aligned(i, k - d)}
<1>1. k \in Nat /\ j \in Nat /\ MAX_ORDER \in Nat
  BY OrderAssumption
<1>2. k - (k - j) = j /\ k - j \in Nat /\ k - j <= k
  BY <1>1
<1>3. k - j \in T
  BY <1>2
<1>4. PICK d \in T : \A e \in T : d <= e
  BY <1>3, LeastNatural
<1>5. d # 0
  <2>1. k - 0 = k
    BY <1>1
  <2> QED
    BY <1>4, <2>1
<1>6. d - 1 \in Nat /\ d - 1 <= k /\ ~(d <= d - 1)
  BY <1>1, <1>4, <1>5
<1>7. Aligned(i, k - (d - 1))
  BY <1>4, <1>6
<1>8. k - (d - 1) = (k - d) + 1 /\ k - d \in Orders
  BY <1>1, <1>4, <1>5 DEF Orders
<1>9. Aligned(i, k - d)
  BY <1>7, <1>8, AlignedHalf
<1> QED
  BY <1>4, <1>9

\* Sizes grow with the order.
LEMMA SizesGrow ==
  ASSUME NEW k \in Orders, NEW j \in Orders, k <= j
  PROVE  BlockSize[k] <= BlockSize[j]
<1> SUFFICES ASSUME BlockSize[j] < BlockSize[k] PROVE FALSE
  BY BlockSizes
<1> DEFINE T == {m \in Nat : m \in Orders /\ k <= m /\ BlockSize[m] < BlockSize[k]}
<1>1. j \in T
  BY BlockSizes
<1>2. PICK m \in T : \A e \in T : m <= e
  BY <1>1, LeastNatural
<1>3. m # k
  BY <1>2, BlockSizes
<1>4. m - 1 \in Orders /\ k <= m - 1 /\ m - 1 \in Nat /\ (m - 1) + 1 = m /\ ~(m <= m - 1)
  BY <1>2, <1>3, BlockSizes DEF Orders
<1>5. ~(BlockSize[m - 1] < BlockSize[k])
  BY <1>2, <1>4
<1>6. BlockSize[m] = 2 * BlockSize[m - 1] /\ BlockSize[m - 1] \in Nat /\ BlockSize[k] \in Nat
  BY <1>4, BlockSizes
<1>7. BlockSize[m] < BlockSize[k]
  BY <1>2
<1> QED
  BY <1>5, <1>6, <1>7

\* Flipping bit k of the index of a block of order k: an involution, and the
\* lower of the two is a block of the order above.
LEMMA BuddyOf ==
  ASSUME NEW i, NEW k \in Orders, Aligned(i, k)
  PROVE  LET b == BuddyIndex(i, k)
         IN  /\ b # i
             /\ Aligned(b, k)
             /\ BuddyIndex(b, k) = i
             /\ Aligned(IF i > b THEN b ELSE i, k + 1)
             /\ Aligned(i, k + 1) => b = i + BlockSize[k]
<1> DEFINE s == BlockSize[k]
           b == BuddyIndex(i, k)
<1>1. s \in Nat \ {0} /\ BlockSize[k + 1] = 2 * s
  BY BlockSizes
<1>2. PICK q \in Nat : i = q * s
  BY DEF Aligned
<1>3. \A p \in Nat : (p * s) \div s = p
  <2> SUFFICES ASSUME NEW p \in Nat PROVE (p * s) \div s = p
    OBVIOUS
  <2> HIDE DEF s
  <2>1. p * s \in Nat /\ (p + 1) * s = p * s + s /\ p * s < p * s + s
    BY <1>1
  <2> QED
    BY <1>1, <2>1, DivUnique
<1>4. \A p \in Nat : BuddyIndex(p * s, k) = IF p % 2 = 0 THEN p * s + s ELSE p * s - s
  BY <1>3 DEF BuddyIndex
<1>5. CASE q % 2 = 0
  <2>1. PICK r \in Nat : q = 2 * r
    BY <1>5
  <2>2. b = q * s + s
    BY <1>2, <1>4, <1>5
  <2> HIDE DEF s, b
  <2>3. q * s + s = (q + 1) * s /\ q + 1 \in Nat /\ (q + 1) % 2 # 0 /\ q * s \in Nat
    BY <1>1, <1>5
  <2>4. BuddyIndex(b, k) = i
    <3>1. BuddyIndex((q + 1) * s, k) = (q + 1) * s - s
      BY <1>4, <2>3
    <3>2. b = (q + 1) * s /\ (q + 1) * s - s = q * s
      BY <1>1, <2>2, <2>3
    <3> QED
      BY <1>2, <3>1, <3>2
  <2>5. ~(i > b) /\ b # i
    BY <1>1, <1>2, <2>2, <2>3
  <2>6. i = r * (2 * s)
    BY <1>1, <1>2, <2>1
  <2>7. Aligned(b, k)
    BY <2>2, <2>3 DEF Aligned, s
  <2>8. Aligned(i, k + 1)
    BY <1>1, <2>6 DEF Aligned
  <2> QED
    BY <1>2, <2>2, <2>4, <2>5, <2>7, <2>8 DEF b, s
<1>6. CASE q % 2 # 0
  <2>1. PICK r \in Nat : q = 2 * r + 1
    BY <1>6
  <2>2. b = q * s - s
    BY <1>2, <1>4, <1>6
  <2> HIDE DEF s, b
  <2>3. q * s - s = (q - 1) * s /\ q - 1 \in Nat /\ (q - 1) % 2 = 0 /\ q * s \in Nat
    BY <1>1, <2>1
  <2>4. BuddyIndex(b, k) = i
    <3>1. BuddyIndex((q - 1) * s, k) = (q - 1) * s + s
      BY <1>4, <2>3
    <3>2. b = (q - 1) * s /\ (q - 1) * s + s = q * s
      BY <1>1, <2>2, <2>3
    <3> QED
      BY <1>2, <3>1, <3>2
  <2>5. i > b /\ b # i
    BY <1>1, <1>2, <2>2, <2>3
  <2>6. b = r * (2 * s)
    BY <1>1, <2>1, <2>2, <2>3
  <2>7. Aligned(b, k)
    BY <2>2, <2>3 DEF Aligned, s
  <2>8. Aligned(b, k + 1)
    BY <1>1, <2>6 DEF Aligned
  <2>9. ~Aligned(i, k + 1)
    <3> SUFFICES ASSUME NEW p \in Nat, i = p * (2 * s) PROVE FALSE
      BY <1>1 DEF Aligned
    <3>1. (2 * p) * s = q * s /\ 2 * p \in Nat
      BY <1>1, <1>2
    <3>2. 2 * p = q
      BY <1>3, <3>1 DEF s
    <3> QED
      BY <2>1, <3>2
  <2> QED
    BY <2>4, <2>5, <2>7, <2>8, <2>9 DEF b
<1> QED
  BY <1>5, <1>6

-----------------------------------------------------------------------------
(* The lists: every block aligned, and no two that could be joined.        *)

ListedAligned == \A b \in ListedBlocks : Aligned(b.base, b.order)

NoBuddies ==
  \A b, c \in ListedBlocks :
    ~ /\ b.order = c.order
      /\ b.order < MAX_ORDER
      /\ c.base = BuddyIndex(b.base, b.order)

\* Listing an aligned block whose buddy is not listed leaves no two blocks
\* that could be joined.
LEMMA AddApart ==
  ASSUME ListInv, ListedAligned, NoBuddies,
         NEW i \in Region, NEW k \in Orders,
         Span(Block(i, k)) \cap FreePages = {},
         Aligned(i, k),
         k < MAX_ORDER => Block(BuddyIndex(i, k), k) \notin ListedBlocks,
         buddy_add_free(i, k)
  PROVE  /\ ListedBlocks' = ListedBlocks \cup {Block(i, k)}
         /\ ListedAligned' /\ NoBuddies'
<1> DEFINE n == Block(i, k)
<1>1. n.base = i /\ n.order = k
  BY BlockDescriptor
<1>2. n \notin ListedBlocks
  BY SpanSize DEF FreePages
<1>3. ListedBlocks' = ListedBlocks \cup {n}
  BY <1>2, AddFree DEF ListInv
<1>4. ASSUME NEW b \in ListedBlocks, b.order = k, k < MAX_ORDER
      PROVE  b.base # BuddyIndex(i, k) /\ i # BuddyIndex(b.base, k)
  <2>1. b = Block(b.base, k)
    BY <1>4, ListedMember, SpanOfDescriptor DEF ListInv
  <2>2. b.base # BuddyIndex(i, k)
    BY <1>4, <2>1
  <2>3. BuddyIndex(BuddyIndex(b.base, k), k) = b.base
    BY <1>4, BuddyOf DEF ListedAligned
  <2> QED
    BY <2>2, <2>3
<1>5. i # BuddyIndex(i, k)
  BY BuddyOf
<1> HIDE DEF n
<1>6. \A b \in ListedBlocks' : Aligned(b.base, b.order)
  BY <1>1, <1>3 DEF ListedAligned
<1>7. ASSUME NEW b \in ListedBlocks', NEW c \in ListedBlocks',
             b.order = c.order, b.order < MAX_ORDER
      PROVE  c.base # BuddyIndex(b.base, b.order)
  <2>1. CASE b \in ListedBlocks /\ c \in ListedBlocks
    BY <1>7, <2>1 DEF NoBuddies
  <2>2. CASE b \in ListedBlocks /\ c = n
    BY <1>1, <1>4, <1>7, <2>2
  <2>3. CASE b = n /\ c \in ListedBlocks
    BY <1>1, <1>4, <1>7, <2>3
  <2>4. CASE b = n /\ c = n
    BY <1>1, <1>5, <2>4
  <2> QED
    BY <1>3, <2>1, <2>2, <2>3, <2>4
<1> QED
  BY <1>3, <1>6, <1>7 DEF ListedAligned, NoBuddies, Aligned, n

\* Unlisting a block leaves none either.
LEMMA FewerApart ==
  ASSUME ListedAligned, NoBuddies, ListedBlocks' \subseteq ListedBlocks
  PROVE  ListedAligned' /\ NoBuddies'
BY DEF ListedAligned, NoBuddies, Aligned

-----------------------------------------------------------------------------
(* The inductive invariant, beside IInv.                                   *)

HeldAligned == \A a \in held : Aligned(a.base, size_to_order(a.n))

HandAligned ==
  /\ pc \in {"split", "merge"} => Aligned(blk, ord)
  /\ pc = "carve" => /\ \A k \in Orders : BlockSize[k] <= arg => Aligned(blk, k)
                     /\ \A b \in ListedBlocks :
                          b.order < MAX_ORDER => arg < BlockSize[b.order]

ApartInv == ListedAligned /\ NoBuddies /\ HeldAligned /\ HandAligned

\* What leaves the callers alone keeps their blocks aligned.
LEMMA SameHeldAligned ==
  ASSUME HeldAligned, held' = held
  PROVE  HeldAligned'
BY DEF HeldAligned, Aligned, size_to_order, IsOrderFor, Orders

\* Carving goes from larger blocks to smaller ones.
LEMMA CarveBlockApart ==
  ASSUME IInv, ApartInv, CarveBlock
  PROVE  ApartInv'
<1>1. ListInv /\ HeldInv /\ CallInv
  BY PartsOfInvariant
<1>2. PICK k \in Orders : /\ BlockSize[k] <= arg
                          /\ k < MAX_ORDER => arg < BlockSize[k + 1]
                          /\ buddy_add_free(blk, k)
                          /\ blk' = blk + BlockSize[k]
                          /\ arg' = arg - BlockSize[k]
  BY DEF CarveBlock
<1>3. /\ pc = "carve" /\ pc' = "carve" /\ held' = held
  BY DEF CarveBlock
<1>4. /\ BlockSize[k] \in Nat \ {0} /\ k \in Nat /\ MAX_ORDER \in Nat
      /\ blk \in Nat /\ arg \in Nat
  BY <1>1, BlockSizes DEF CallInv
<1>5. /\ HandPages = blk .. (blk + arg - 1)
      /\ blk \in HandPages
  BY <1>2, <1>3, <1>4 DEF HandPages
<1>6. blk \in Region
  BY <1>1, <1>5 DEF CallInv
<1>7. Span(Block(blk, k)) \subseteq HandPages
  <2>1. Span(Block(blk, k)) = blk .. (blk + BlockSize[k] - 1)
    BY <1>6, SpanSize
  <2> QED
    BY <1>2, <1>4, <1>5, <2>1
<1>8. Span(Block(blk, k)) \cap FreePages = {}
  BY <1>1, <1>7 DEF CallInv
<1>9. Aligned(blk, k)
  BY <1>2, <1>3 DEF ApartInv, HandAligned
<1>10. ASSUME NEW b \in ListedBlocks, b.order < MAX_ORDER
       PROVE  b.order # k
  BY <1>2, <1>3, <1>4, <1>10 DEF ApartInv, HandAligned
<1>11. k < MAX_ORDER => Block(BuddyIndex(blk, k), k) \notin ListedBlocks
  BY <1>10 DEF Block
<1>12. /\ ListedBlocks' = ListedBlocks \cup {Block(blk, k)}
       /\ ListedAligned' /\ NoBuddies'
  BY <1>1, <1>2, <1>6, <1>8, <1>9, <1>11, AddApart DEF ApartInv
<1>13. ASSUME NEW j \in Orders, BlockSize[j] <= arg'
       PROVE  Aligned(blk', j)
  <2>1. BlockSize[j] \in Nat \ {0} /\ j \in Nat
    BY BlockSizes
  <2>2. j <= k
    <3> SUFFICES ASSUME k + 1 <= j PROVE FALSE
      BY <1>4, <2>1
    <3>1. k < MAX_ORDER /\ k + 1 \in Orders
      BY <1>4 DEF Orders
    <3>2. BlockSize[k + 1] <= BlockSize[j] /\ BlockSize[k + 1] \in Nat
      BY <3>1, SizesGrow, BlockSizes
    <3> QED
      BY <1>2, <1>4, <1>13, <2>1, <3>1, <3>2
  <2>3. k \in 0..(MAX_ORDER + 1) /\ j \in 0..k
    BY <1>4, <2>1, <2>2, OrdersInRange
  <2>4. Aligned(blk + BlockSize[k], k)
    <3>1. PICK q \in Nat : blk = q * BlockSize[k]
      BY <1>9 DEF Aligned
    <3>2. \A s \in Nat : q * s + s = (q + 1) * s /\ q + 1 \in Nat
      OBVIOUS
    <3>3. blk + BlockSize[k] = (q + 1) * BlockSize[k] /\ q + 1 \in Nat
      BY <1>4, <3>1, <3>2
    <3> QED
      BY <3>3 DEF Aligned
  <2> QED
    BY <1>2, <2>3, <2>4, AlignedBelow
<1>14. ASSUME NEW b \in ListedBlocks', b.order < MAX_ORDER
       PROVE  arg' < BlockSize[b.order]
  <2>1. CASE b \in ListedBlocks
    <3>1. arg < BlockSize[b.order]
      BY <1>3, <1>14, <2>1 DEF ApartInv, HandAligned
    <3>2. b.order \in Orders
      BY <1>1, <2>1, ListedMember DEF ListInv, Descriptors
    <3>3. BlockSize[b.order] \in Nat
      BY <3>2, BlockSizes
    <3>4. arg' <= arg /\ arg' \in Int
      BY <1>2, <1>4
    <3> QED
      BY <1>4, <3>1, <3>3, <3>4
  <2>2. CASE b = Block(blk, k)
    <3>1. b.order = k /\ k < MAX_ORDER
      BY <1>14, <2>2 DEF Block
    <3>2. BlockSize[k + 1] = 2 * BlockSize[k]
      BY BlockSizes
    <3> QED
      BY <1>2, <1>4, <3>1, <3>2
  <2> QED
    BY <1>12, <2>1, <2>2
<1>15. HeldAligned'
  BY <1>3, SameHeldAligned DEF ApartInv
<1>16. HandAligned'
  BY <1>3, <1>13, <1>14 DEF HandAligned, Aligned, Orders
<1> QED
  BY <1>12, <1>15, <1>16 DEF ApartInv

\* Splitting: the half that stays in hand is the buddy of the one listed.
LEMMA SplitBlockApart ==
  ASSUME IInv, ApartInv, SplitBlock
  PROVE  ApartInv'
<1> DEFINE k == ord - 1
           half == BlockSize[k]
<1>1. ListInv /\ HeldInv /\ CallInv
  BY PartsOfInvariant
<1>2. /\ pc = "split" /\ pc' = "split"
      /\ ord > size_to_order(arg)
      /\ ord' = k
      /\ buddy_add_free(blk + half, k)
      /\ blk' = blk /\ held' = held
  BY DEF SplitBlock
<1>3. k \in Orders /\ k + 1 = ord /\ ord \in Orders
  <2>1. ord \in Orders /\ size_to_order(arg) \in Orders
    BY <1>1, <1>2, ServedOrder DEF CallInv
  <2> QED
    BY <1>2, <2>1, BlockSizes DEF Orders
<1>4. half \in Nat \ {0} /\ BlockSize[ord] = 2 * half /\ blk \in Nat
  BY <1>1, <1>3, BlockSizes DEF CallInv
<1> HIDE DEF k
<1>5. Aligned(blk, k + 1) /\ Aligned(blk, k)
  BY <1>2, <1>3, AlignedHalf DEF ApartInv, HandAligned
<1>6. BuddyIndex(blk, k) = blk + half
  BY <1>3, <1>5, BuddyOf
<1>7. Aligned(blk + half, k) /\ BuddyIndex(blk + half, k) = blk
  BY <1>3, <1>5, <1>6, BuddyOf
<1> HIDE DEF half
<1>8. HandPages = blk .. (blk + 2 * half - 1)
  BY <1>2, <1>4 DEF HandPages
<1>9. blk \in HandPages /\ blk + half \in HandPages
  BY <1>4, <1>8
<1>10. blk \in Region /\ blk + half \in Region
  BY <1>1, <1>9 DEF CallInv
<1>11. Span(Block(blk + half, k)) = (blk + half) .. (blk + half + half - 1)
  BY <1>3, <1>10, SpanSize DEF half
<1>12. Span(Block(blk + half, k)) \cap FreePages = {}
  <2>1. Span(Block(blk + half, k)) \subseteq HandPages
    BY <1>4, <1>8, <1>11
  <2> QED
    BY <1>1, <2>1 DEF CallInv
<1>13. Block(blk, k) \notin ListedBlocks
  <2>1. blk \in Span(Block(blk, k))
    BY <1>3, <1>10, SpanSize
  <2> QED
    BY <1>1, <1>9, <2>1 DEF FreePages, CallInv
<1>14. ListedAligned' /\ NoBuddies'
  BY <1>1, <1>2, <1>3, <1>7, <1>10, <1>12, <1>13, AddApart DEF ApartInv
<1>15. HeldAligned'
  BY <1>2, SameHeldAligned DEF ApartInv
<1>16. HandAligned'
  BY <1>2, <1>5 DEF HandAligned, Aligned
<1> QED
  BY <1>14, <1>15, <1>16 DEF ApartInv

\* Joining: the block in hand and its buddy make a block of the order above.
LEMMA MergeBuddyApart ==
  ASSUME IInv, ApartInv, MergeBuddy
  PROVE  ApartInv'
<1>1. ListInv /\ HeldInv /\ CallInv
  BY PartsOfInvariant
<1>2. /\ pc = "merge" /\ pc' = "merge" /\ held' = held
      /\ ord <= MAX_ORDER /\ ord' = ord + 1
      /\ blk' = IF blk > BuddyIndex(blk, ord) THEN BuddyIndex(blk, ord) ELSE blk
  BY DEF MergeBuddy
<1>3. ord \in Orders
  BY <1>1, <1>2, OrderAssumption DEF CallInv, Orders
<1>4. PICK p \in 1..Len(free_lists[ord]) : buddy_remove_free(ord, p)
  BY DEF MergeBuddy
<1>5. ListedBlocks' \subseteq ListedBlocks
  BY <1>1, <1>3, <1>4, RemoveFree DEF ListInv
<1>6. Aligned(blk', ord')
  BY <1>2, <1>3, BuddyOf DEF ApartInv, HandAligned
<1>7. HandAligned'
  BY <1>2, <1>6 DEF HandAligned, Aligned
<1> QED
  BY <1>2, <1>5, <1>7, FewerApart, SameHeldAligned DEF ApartInv

\* A block whose buddy the search did not find is listed alone.
LEMMA AddMergedApart ==
  ASSUME IInv, ApartInv, AddMerged
  PROVE  ApartInv'
<1>1. ListInv /\ HeldInv /\ CallInv
  BY PartsOfInvariant
<1>2. /\ pc = "merge" /\ pc' = "idle" /\ held' = held
      /\ ord <= MAX_ORDER
      /\ buddy_add_free(blk, ord)
      /\ \A p \in 1..Len(free_lists[ord]) : ~IsFirstBuddy(blk, ord, p)
  BY DEF AddMerged, ReturnToCaller
<1>3. ord \in Orders
  BY <1>1, <1>2, OrderAssumption DEF CallInv, Orders
<1>4. Aligned(blk, ord)
  BY <1>2 DEF ApartInv, HandAligned
<1>5. HandPages = blk .. (blk + BlockSize[ord] - 1)
  BY <1>2 DEF HandPages
<1>6. blk \in Region
  <2>1. blk \in Nat /\ BlockSize[ord] \in Nat \ {0}
    BY <1>1, <1>3, BlockSizes DEF CallInv
  <2>2. blk \in HandPages
    BY <1>5, <2>1
  <2> QED
    BY <1>1, <2>2 DEF CallInv
<1>7. Span(Block(blk, ord)) \cap FreePages = {}
  BY <1>1, <1>3, <1>5, <1>6, SpanSize DEF CallInv
<1>8. Block(BuddyIndex(blk, ord), ord) \notin ListedBlocks
  <2> DEFINE b == Block(BuddyIndex(blk, ord), ord)
             l == free_lists[ord]
             T == {p \in Nat : p \in 1..Len(l) /\ l[p].base = BuddyIndex(blk, ord)}
  <2> SUFFICES ASSUME b \in ListedBlocks PROVE FALSE
    OBVIOUS
  <2>1. b.order = ord /\ b.base = BuddyIndex(blk, ord)
    BY DEF Block
  <2>2. \E p \in 1..Len(l) : l[p] = b
    BY <1>1, <2>1, ListedMember DEF ListInv
  <2>3. T # {}
    BY <2>1, <2>2
  <2>4. PICK p \in T : \A q \in T : p <= q
    BY <2>3, LeastNatural
  <2>5. ASSUME NEW q \in 1..(p - 1), l[q].base = BuddyIndex(blk, ord)
        PROVE  FALSE
    <3>1. Len(l) \in Nat
      BY <1>1, <1>3, LenProperties DEF ListInv, ListsOK
    <3>2. q \in 1..Len(l) /\ q \in Nat /\ ~(p <= q)
      BY <2>4, <3>1
    <3> QED
      BY <2>4, <2>5, <3>2
  <2>6. IsFirstBuddy(blk, ord, p)
    BY <2>4, <2>5 DEF IsFirstBuddy
  <2> QED
    BY <1>2, <2>4, <2>6
<1>9. ListedAligned' /\ NoBuddies'
  BY <1>1, <1>2, <1>3, <1>4, <1>6, <1>7, <1>8, AddApart DEF ApartInv
<1>10. HandAligned'
  BY <1>2 DEF HandAligned
<1> QED
  BY <1>2, <1>9, <1>10, SameHeldAligned DEF ApartInv

\* The cap: a block of the largest order has no buddy to be joined with.
LEMMA AddCappedApart ==
  ASSUME IInv, ApartInv, AddCapped
  PROVE  ApartInv'
<1>1. ListInv /\ HeldInv /\ CallInv
  BY PartsOfInvariant
<1>2. /\ pc = "merge" /\ pc' = "idle" /\ held' = held
      /\ ord > MAX_ORDER
      /\ buddy_add_free(blk, MAX_ORDER)
  BY DEF AddCapped, ReturnToCaller
<1>3. MAX_ORDER \in Orders /\ ord = MAX_ORDER + 1
  BY <1>1, <1>2, OrderAssumption DEF CallInv, Orders
<1> DEFINE size == BlockSize[MAX_ORDER]
<1>4. size \in Nat \ {0} /\ BlockSize[ord] = 2 * size /\ blk \in Nat
  BY <1>1, <1>3, BlockSizes DEF CallInv
<1>5. Aligned(blk, MAX_ORDER)
  BY <1>2, <1>3, AlignedHalf DEF ApartInv, HandAligned
<1> HIDE DEF size
<1>6. HandPages = blk .. (blk + 2 * size - 1)
  BY <1>2, <1>4 DEF HandPages
<1>7. blk \in Region
  <2>1. blk \in HandPages
    BY <1>4, <1>6
  <2> QED
    BY <1>1, <2>1 DEF CallInv
<1>8. Span(Block(blk, MAX_ORDER)) \cap FreePages = {}
  <2>1. Span(Block(blk, MAX_ORDER)) = blk .. (blk + size - 1)
    BY <1>3, <1>7, SpanSize DEF size
  <2>2. Span(Block(blk, MAX_ORDER)) \subseteq HandPages
    BY <1>4, <1>6, <2>1
  <2> QED
    BY <1>1, <2>2 DEF CallInv
<1>9. ~(MAX_ORDER < MAX_ORDER)
  BY OrderAssumption
<1>10. ListedAligned' /\ NoBuddies'
  BY <1>1, <1>2, <1>3, <1>5, <1>7, <1>8, <1>9, AddApart DEF ApartInv
<1>11. HandAligned'
  BY <1>2 DEF HandAligned
<1> QED
  BY <1>2, <1>10, <1>11, SameHeldAligned DEF ApartInv

\* Every step keeps the blocks aligned and apart.
LEMMA NextApart ==
  ASSUME IInv, ApartInv, [Next]_vars
  PROVE  ApartInv'
<1>1. ListInv /\ HeldInv /\ CallInv
  BY PartsOfInvariant
<1>2. ASSUME UNCHANGED <<free_lists, held>>, pc' \in {"idle", "alloc"}
      PROVE  ApartInv'
  <2>1. ListedBlocks' = ListedBlocks
    BY <1>2 DEF ListedBlocks
  <2>2. HandAligned'
    BY <1>2 DEF HandAligned
  <2> QED
    BY <1>2, <2>1, <2>2, FewerApart, SameHeldAligned DEF ApartInv
<1>3. CASE CarveBlock
  BY <1>3, CarveBlockApart
<1>4. CASE CarveDone
  BY <1>2, <1>4 DEF CarveDone, ReturnToCaller
<1>5. CASE AllocNull
  BY <1>2, <1>5 DEF AllocNull, ReturnToCaller
<1>6. CASE AllocTake
  <2>1. PICK k \in SearchOrders(arg) : /\ free_lists[k] # <<>>
                                       /\ blk' = free_lists[k][1].base
                                       /\ ord' = k
                                       /\ buddy_remove_free(k, 1)
    BY <1>6 DEF AllocTake
  <2>2. k \in Orders
    BY DEF SearchOrders
  <2>3. 1 \in 1..Len(free_lists[k])
    BY <1>1, <2>1, <2>2, EmptySeq, LenProperties DEF ListInv, ListsOK
  <2>4. /\ free_lists[k][1] \in ListedBlocks
        /\ free_lists[k][1].order = k
        /\ ListedBlocks' \subseteq ListedBlocks
    BY <1>1, <2>1, <2>2, <2>3, RemoveFree DEF ListInv
  <2>5. Aligned(blk', ord')
    BY <2>1, <2>4 DEF ApartInv, ListedAligned
  <2>6. pc' = "split" /\ held' = held
    BY <1>6 DEF AllocTake
  <2>7. HandAligned'
    BY <2>5, <2>6 DEF HandAligned, Aligned
  <2> QED
    BY <2>4, <2>6, <2>7, FewerApart, SameHeldAligned DEF ApartInv
<1>7. CASE SplitBlock
  BY <1>7, SplitBlockApart
<1>8. CASE AllocReturn
  <2>1. /\ pc = "split" /\ pc' = "idle"
        /\ ord = size_to_order(arg)
        /\ held' = held \cup {[base |-> blk, n |-> arg]}
        /\ free_lists' = free_lists
    BY <1>8 DEF AllocReturn, ReturnToCaller
  <2>2. ListedBlocks' = ListedBlocks
    BY <2>1 DEF ListedBlocks
  <2>3. \A a \in held' : Aligned(a.base, size_to_order(a.n))
    BY <2>1 DEF ApartInv, HeldAligned, HandAligned
  <2>4. HeldAligned'
    BY <2>3 DEF HeldAligned, Aligned, size_to_order, IsOrderFor, Orders
  <2>5. HandAligned'
    BY <2>1 DEF HandAligned
  <2> QED
    BY <2>2, <2>4, <2>5, FewerApart DEF ApartInv
<1>9. CASE MergeBuddy
  BY <1>9, MergeBuddyApart
<1>10. CASE AddMerged
  BY <1>10, AddMergedApart
<1>11. CASE AddCapped
  BY <1>11, AddCappedApart
<1>12. ASSUME NEW n \in Requests, alloc_pages(n)
       PROVE  ApartInv'
  BY <1>2, <1>12 DEF alloc_pages
<1>13. ASSUME NEW a \in held, free_pages(a)
       PROVE  ApartInv'
  <2>1. /\ pc' = "merge"
        /\ held' \subseteq held
        /\ blk' = a.base
        /\ ord' = size_to_order(a.n)
        /\ free_lists' = free_lists
    BY <1>13 DEF free_pages
  <2>2. ListedBlocks' = ListedBlocks
    BY <2>1 DEF ListedBlocks
  <2>3. Aligned(blk', ord')
    BY <2>1 DEF ApartInv, HeldAligned
  <2>4. HandAligned'
    BY <2>1, <2>3 DEF HandAligned, Aligned
  <2>5. \A c \in held' : Aligned(c.base, size_to_order(c.n))
    BY <2>1 DEF ApartInv, HeldAligned
  <2>6. HeldAligned'
    BY <2>5 DEF HeldAligned, Aligned, size_to_order, IsOrderFor, Orders
  <2> QED
    BY <2>2, <2>4, <2>6, FewerApart DEF ApartInv
<1>14. CASE UNCHANGED vars
  <2>1. ListedBlocks' = ListedBlocks
    BY <1>14 DEF vars, ListedBlocks
  <2>2. HandAligned'
    BY <1>14, <2>1 DEF vars, ApartInv, HandAligned, Aligned, Orders
  <2> QED
    BY <1>14, <2>1, <2>2, FewerApart, SameHeldAligned DEF vars, ApartInv
<1> QED
  BY <1>3, <1>4, <1>5, <1>6, <1>7, <1>8, <1>9, <1>10, <1>11, <1>12, <1>13, <1>14
     DEF Next, RunningCall

\* The blocks are aligned initially: there are none, and the region is.
LEMMA InitApart ==
  ASSUME AlignedRegion, Init
  PROVE  ApartInv
<1>1. ListedBlocks = {}
  BY DEF ListedBlocks, Init
<1>2. ASSUME NEW k \in Orders PROVE Aligned(RegionBase, k)
  <2>1. MAX_ORDER \in 0..(MAX_ORDER + 1) /\ k \in 0..MAX_ORDER
    BY OrderAssumption DEF Orders
  <2> QED
    BY <2>1, AlignedBelow DEF AlignedRegion
<1>3. HandAligned
  BY <1>1, <1>2 DEF HandAligned, Init
<1> QED
  BY <1>1, <1>3 DEF ApartInv, ListedAligned, NoBuddies, HeldAligned, Init

\* In a region that starts at a multiple of the largest block, no two free
\* blocks could still be joined when a call returns, whatever was allocated and
\* in whatever order it is freed: buddy_free_pages never leaves work behind.
THEOREM CoalescedEagerly ==
  ASSUME AlignedRegion
  PROVE  Spec => []EagerCoalescing
<1>1. Init => ApartInv
  BY InitApart
<1>2. IInv /\ ApartInv /\ [Next]_vars => ApartInv'
  BY NextApart
<1>3. ApartInv => EagerCoalescing
  BY DEF ApartInv, NoBuddies, EagerCoalescing
<1> QED
  BY <1>1, <1>2, <1>3, Invariance, PTL DEF Spec

-----------------------------------------------------------------------------
(* Coalescing back.  Blocks are nested or apart; those that could not be   *)
(* part of a larger one in the region are the ones it was carved into.     *)

\* The pages of the block at i of order k, which may be MAX_ORDER + 1.
Pages(i, k) == i .. (i + BlockSize[k] - 1)

\* Two aligned blocks that share a page are nested.
LEMMA Nested ==
  ASSUME NEW k \in 0..(MAX_ORDER + 1), NEW j \in 0..k,
         NEW x, NEW y, Aligned(x, j), Aligned(y, k),
         NEW t \in Pages(x, j) \cap Pages(y, k)
  PROVE  Pages(x, j) \subseteq Pages(y, k)
<1> DEFINE s == BlockSize[j]
           w == BlockSize[k]
<1>1. j \in 0..(MAX_ORDER + 1) /\ k \in Nat /\ j \in Nat /\ j <= k
  BY OrderAssumption
<1>2. s \in Nat \ {0} /\ w \in Nat \ {0}
  BY <1>1, BlockSizes
<1>3. PICK a \in Nat : x = a * s
  BY DEF Aligned
<1>4. PICK b \in Nat : y = b * s
  <2>1. Aligned(y, j)
    BY AlignedBelow
  <2> QED
    BY <2>1 DEF Aligned
<1>5. PICK c \in Nat : y + w = c * s
  <2>1. PICK q \in Nat : y = q * w
    BY DEF Aligned
  <2> HIDE DEF w
  <2>2. y + w = (q + 1) * w /\ q + 1 \in Nat
    BY <1>2, <2>1
  <2>3. Aligned(y + w, k)
    BY <2>2 DEF Aligned, w
  <2>4. Aligned(y + w, j)
    BY <2>3, AlignedBelow
  <2> QED
    BY <2>4 DEF Aligned
<1> HIDE DEF s, w
<1>6. /\ a * s \in Nat /\ b * s \in Nat /\ c * s \in Nat
      /\ (a + 1) * s = a * s + s
      /\ (c - 1 + 1) * s = c * s
  BY <1>2
<1>7. a * s <= t /\ t < (a + 1) * s /\ b * s <= t /\ t < c * s /\ t \in Int
  <2>1. t \in x .. (x + s - 1) /\ t \in y .. (y + w - 1)
    BY DEF Pages, s, w
  <2> QED
    BY <1>2, <1>3, <1>4, <1>5, <1>6, <2>1
<1>8. b <= a
  BY <1>2, <1>6, <1>7, TimesBelow
<1>9. a + 1 <= c
  <2>1. a <= c - 1
    BY <1>2, <1>6, <1>7, TimesBelow, c - 1 \in Int
  <2> QED
    BY <2>1
<1>10. b * s <= a * s /\ (a + 1) * s <= c * s
  BY <1>2, <1>8, <1>9, TimesMonotone
<1>11. x .. (x + s - 1) \subseteq y .. (y + w - 1)
  BY <1>2, <1>3, <1>4, <1>5, <1>6, <1>10
<1> QED
  BY <1>11 DEF Pages, s, w

\* A block begins with its base.
LEMMA FirstPage ==
  ASSUME NEW k \in 0..(MAX_ORDER + 1), NEW i, Aligned(i, k)
  PROVE  i \in Nat /\ i \in Pages(i, k)
<1>1. BlockSize[k] \in Nat \ {0}
  BY BlockSizes
<1>2. i \in Nat
  BY <1>1 DEF Aligned
<1> QED
  BY <1>1, <1>2 DEF Pages

\* Aligned blocks of one order that share a page are the same.
LEMMA SameBlock ==
  ASSUME NEW k \in 0..(MAX_ORDER + 1), NEW x, NEW y, Aligned(x, k), Aligned(y, k),
         Pages(x, k) \cap Pages(y, k) # {}
  PROVE  x = y
<1>1. k \in 0..k
  OBVIOUS
<1>2. Pages(x, k) \subseteq Pages(y, k) /\ Pages(y, k) \subseteq Pages(x, k)
  BY <1>1, Nested
<1>3. x \in Pages(y, k) /\ y \in Pages(x, k) /\ x \in Nat /\ y \in Nat
  BY <1>2, FirstPage
<1>4. y <= x /\ x <= y
  BY <1>3 DEF Pages
<1> QED
  BY <1>3, <1>4

\* The base of the block that block (i, k) is a half of.
Whole(i, k) == IF i > BuddyIndex(i, k) THEN BuddyIndex(i, k) ELSE i

\* Such a block is aligned, and holds both halves.
LEMMA WholeHoldsHalves ==
  ASSUME NEW k \in Orders, NEW i, Aligned(i, k)
  PROVE  /\ Aligned(Whole(i, k), k + 1)
         /\ Pages(i, k) \subseteq Pages(Whole(i, k), k + 1)
         /\ Pages(BuddyIndex(i, k), k) \subseteq Pages(Whole(i, k), k + 1)
<1> DEFINE s == BlockSize[k]
           b == BuddyIndex(i, k)
           w == Whole(i, k)
<1>1. s \in Nat \ {0} /\ BlockSize[k + 1] = 2 * s
  BY BlockSizes
<1>2. k \in 0..(MAX_ORDER + 1)
  BY OrdersInRange
<1>3. /\ Aligned(b, k) /\ Aligned(w, k + 1)
  BY BuddyOf DEF Whole
<1>4. i \in Nat /\ b \in Nat
  BY <1>2, <1>3, FirstPage
<1>5. b = i + s \/ b = i - s
  BY DEF BuddyIndex
<1>6. w = IF i > b THEN b ELSE i
  BY DEF Whole
<1> HIDE DEF s, b, w
<1>7. /\ i .. (i + s - 1) \subseteq w .. (w + 2 * s - 1)
      /\ b .. (b + s - 1) \subseteq w .. (w + 2 * s - 1)
  BY <1>1, <1>4, <1>5, <1>6
<1> QED
  BY <1>1, <1>3, <1>7 DEF Pages, s, b, w

\* Block (i, k) is no half of a larger block of the region.
Maximal(i, k) == k < MAX_ORDER => ~(Pages(Whole(i, k), k + 1) \subseteq Region)

AlignedBlocks ==
  {b \in Descriptors : Aligned(b.base, b.order) /\ Pages(b.base, b.order) \subseteq Region}

MaximalBlocks == {b \in AlignedBlocks : Maximal(b.base, b.order)}

\* A block inside a larger one of the region is not maximal.
LEMMA InsideNotMaximal ==
  ASSUME NEW b \in AlignedBlocks, NEW k \in Orders, b.order < k,
         NEW y, Aligned(y, k), Pages(y, k) \subseteq Region,
         Pages(b.base, b.order) \cap Pages(y, k) # {}
  PROVE  ~Maximal(b.base, b.order)
<1> DEFINE j == b.order
           w == Whole(b.base, j)
<1>1. j \in Orders /\ Aligned(b.base, j)
  BY DEF AlignedBlocks, Descriptors
<1>2. Aligned(w, j + 1) /\ Pages(b.base, j) \subseteq Pages(w, j + 1)
  BY <1>1, WholeHoldsHalves
<1>3. j + 1 \in 0..k /\ k \in 0..(MAX_ORDER + 1) /\ j < MAX_ORDER
  BY <1>1, OrderAssumption DEF Orders
<1> HIDE DEF j, w
<1>4. PICK t : t \in Pages(w, j + 1) \cap Pages(y, k)
  BY <1>2 DEF j
<1>5. Pages(w, j + 1) \subseteq Pages(y, k)
  BY <1>2, <1>3, <1>4, Nested
<1> QED
  BY <1>3, <1>5 DEF Maximal, j, w

\* Maximal blocks that share a page are the same.
LEMMA MaximalSame ==
  ASSUME NEW b \in MaximalBlocks, NEW c \in MaximalBlocks,
         Pages(b.base, b.order) \cap Pages(c.base, c.order) # {}
  PROVE  b = c
<1>1. /\ b \in AlignedBlocks /\ c \in AlignedBlocks
      /\ Maximal(b.base, b.order) /\ Maximal(c.base, c.order)
  BY DEF MaximalBlocks
<1>2. /\ b \in Descriptors /\ Aligned(b.base, b.order) /\ Pages(b.base, b.order) \subseteq Region
      /\ c \in Descriptors /\ Aligned(c.base, c.order) /\ Pages(c.base, c.order) \subseteq Region
  BY <1>1 DEF AlignedBlocks
<1>3. b.order \in Orders /\ c.order \in Orders
  BY <1>2 DEF Descriptors
<1>4. ~(b.order < c.order)
  BY <1>1, <1>2, <1>3, InsideNotMaximal
<1>5. ~(c.order < b.order)
  BY <1>1, <1>2, <1>3, InsideNotMaximal
<1>6. b.order = c.order
  BY <1>3, <1>4, <1>5, BlockSizes
<1>7. b.base = c.base
  BY <1>2, <1>3, <1>6, SameBlock, OrdersInRange
<1> QED
  BY <1>2, <1>6, <1>7 DEF Descriptors

\* When every page is free and no two free blocks could be joined, every free
\* block is maximal: of those that are not, one of the smallest has a
\* buddy whose pages can only be on the lists as that buddy.
LEMMA ListedMaximal ==
  ASSUME ListInv, ListedAligned, NoBuddies, FreePages = Region
  PROVE  ListedBlocks \subseteq MaximalBlocks
<1>1. ASSUME NEW b \in ListedBlocks
      PROVE  /\ b \in AlignedBlocks
             /\ b.order \in Orders
             /\ Aligned(b.base, b.order)
             /\ Span(b) = Pages(b.base, b.order)
  <2>1. b \in Descriptors /\ Aligned(b.base, b.order)
    BY ListedMember DEF ListInv, ListedAligned
  <2>2. Span(b) = Pages(b.base, b.order)
    BY DEF Span, Pages
  <2>3. Span(b) \subseteq Region
    BY DEF FreePages
  <2> QED
    BY <2>1, <2>2, <2>3 DEF AlignedBlocks, Descriptors
<1> DEFINE T == {k \in Nat : \E b \in ListedBlocks : b.order = k /\ ~Maximal(b.base, b.order)}
<1> SUFFICES ASSUME NEW e \in ListedBlocks, ~Maximal(e.base, e.order) PROVE FALSE
  BY <1>1 DEF MaximalBlocks
<1>2. e.order \in T
  BY <1>1, BlockSizes
<1>3. PICK k \in T : \A j \in T : k <= j
  BY <1>2, LeastNatural
<1>4. PICK b \in ListedBlocks : b.order = k /\ ~Maximal(b.base, b.order)
  BY <1>3
<1> DEFINE i == b.base
           h == BuddyIndex(i, k)
           w == Whole(i, k)
<1>5. k \in Orders /\ k < MAX_ORDER /\ Pages(w, k + 1) \subseteq Region
  BY <1>1, <1>4 DEF Maximal
<1>6. Aligned(i, k) /\ Span(b) = Pages(i, k)
  BY <1>1, <1>4
<1>7. /\ Aligned(h, k)
      /\ Aligned(w, k + 1)
      /\ Pages(i, k) \subseteq Pages(w, k + 1)
      /\ Pages(h, k) \subseteq Pages(w, k + 1)
  BY <1>5, <1>6, BuddyOf, WholeHoldsHalves
<1>8. i \in Pages(i, k) /\ h \in Pages(h, k)
  BY <1>5, <1>6, <1>7, FirstPage, OrdersInRange
<1>9. PICK c \in ListedBlocks : h \in Span(c)
  BY <1>5, <1>7, <1>8 DEF FreePages
<1> DEFINE j == c.order
<1>10. /\ j \in Orders /\ Aligned(c.base, j) /\ Span(c) = Pages(c.base, j)
       /\ c \in AlignedBlocks
  BY <1>1
<1> HIDE DEF i, h, w, j
<1>11. CASE k < j
  <2>1. k + 1 \in 0..j /\ j \in 0..(MAX_ORDER + 1)
    BY <1>5, <1>10, <1>11, OrderAssumption DEF Orders
  <2>2. h \in Pages(w, k + 1) \cap Pages(c.base, j)
    BY <1>7, <1>8, <1>9, <1>10
  <2>3. Pages(w, k + 1) \subseteq Pages(c.base, j)
    BY <1>7, <1>10, <2>1, <2>2, Nested
  <2>4. i \in Span(b) \cap Span(c)
    BY <1>6, <1>7, <1>8, <1>10, <2>3
  <2>5. b # c
    BY <1>4, <1>5, <1>11, BlockSizes DEF j
  <2> QED
    BY <2>4, <2>5 DEF ListInv, FreeDisjoint
<1>12. CASE j = k
  <2>1. c.base = h
    BY <1>5, <1>7, <1>8, <1>9, <1>10, <1>12, SameBlock, OrdersInRange
  <2> QED
    BY <1>4, <1>5, <1>12, <2>1 DEF NoBuddies, i, h, j
<1>13. CASE j < k
  <2>1. Pages(h, k) \subseteq Region /\ Pages(c.base, j) \cap Pages(h, k) # {}
    BY <1>5, <1>7, <1>8, <1>9, <1>10
  <2>2. ~Maximal(c.base, j)
    BY <1>5, <1>7, <1>10, <1>13, <2>1, InsideNotMaximal DEF j
  <2>3. j \in Nat /\ k \in Nat
    BY <1>5, <1>10, BlockSizes
  <2>4. j \in T
    BY <2>2, <2>3 DEF j
  <2> QED
    BY <1>3, <1>13, <2>3, <2>4
<1> QED
  BY <1>5, <1>10, <1>11, <1>12, <1>13, BlockSizes

\* In the same circumstances every maximal block is free.
LEMMA MaximalListed ==
  ASSUME ListInv, ListedAligned, NoBuddies, FreePages = Region
  PROVE  ListedBlocks = MaximalBlocks
<1>1. ListedBlocks \subseteq MaximalBlocks
  BY ListedMaximal
<1>2. ASSUME NEW b \in MaximalBlocks
      PROVE  b \in ListedBlocks
  <2>1. /\ b.order \in Orders /\ Aligned(b.base, b.order)
        /\ Pages(b.base, b.order) \subseteq Region
    BY DEF MaximalBlocks, AlignedBlocks, Descriptors
  <2>2. b.base \in Pages(b.base, b.order)
    BY <2>1, FirstPage, OrdersInRange
  <2>3. PICK c \in ListedBlocks : b.base \in Span(c)
    BY <2>1, <2>2 DEF FreePages
  <2>4. c \in MaximalBlocks /\ Span(c) = Pages(c.base, c.order)
    BY <1>1 DEF Span, Pages
  <2>5. b = c
    BY <2>2, <2>3, <2>4, MaximalSame
  <2> QED
    BY <2>5
<1> QED
  BY <1>1, <1>2

\* Half of a quotient is the quotient by twice the divisor.
LEMMA DivHalf ==
  ASSUME NEW a \in Nat, NEW s \in Nat \ {0}
  PROVE  a \div (2 * s) = (a \div s) \div 2
<1> DEFINE m == a \div s
           h == m \div 2
<1>1. m \in Nat /\ m * s <= a /\ a < (m + 1) * s
  BY DivBounds
<1> HIDE DEF m
<1>2. h \in Nat /\ 2 * h <= m /\ m + 1 <= 2 * h + 2
  BY <1>1
<1> HIDE DEF h
<1>3. (2 * h) * s <= m * s /\ (m + 1) * s <= (2 * h + 2) * s
  BY <1>1, <1>2, TimesMonotone
<1>4. /\ (2 * h) * s = h * (2 * s) /\ (2 * h + 2) * s = (h + 1) * (2 * s)
      /\ m * s \in Nat /\ (m + 1) * s \in Nat /\ h * (2 * s) \in Nat /\ (h + 1) * (2 * s) \in Nat
  BY <1>1, <1>2
<1>5. h * (2 * s) <= a /\ a < (h + 1) * (2 * s)
  BY <1>1, <1>3, <1>4
<1>6. 2 * s \in Nat \ {0}
  OBVIOUS
<1>7. a \div (2 * s) = h
  BY <1>2, <1>5, <1>6, DivUnique
<1> QED
  BY <1>7 DEF h, m

\* Which blocks, counted from the start of the region, lie in it.
LEMMA FitsRegion ==
  ASSUME NEW k \in 0..(MAX_ORDER + 1), NEW q \in Nat
  PROVE  Pages(RegionBase + q * BlockSize[k], k) \subseteq Region
           <=> q + 1 <= RegionPages \div BlockSize[k]
<1> DEFINE s == BlockSize[k]
<1>1. s \in Nat \ {0} /\ RegionBase \in Nat /\ RegionPages \in Nat
  BY BlockSizes, RegionAssumption
<1> HIDE DEF s
<1>2. q * s \in Nat /\ (q + 1) * s = q * s + s /\ q + 1 \in Nat
  BY <1>1
<1>3. (q + 1) * s <= RegionPages <=> q + 1 <= RegionPages \div s
  BY <1>1, <1>2, FloorGreatest
<1> DEFINE d == q * s
           first == RegionBase + d
<1>4. first .. (first + s - 1) \subseteq Region <=> d + s <= RegionPages
  <2>1. d \in Nat /\ first \in Nat
    BY <1>1, <1>2
  <2> HIDE DEF d
  <2>2. first + s - 1 \in first .. (first + s - 1)
    BY <1>1, <2>1
  <2>3. ASSUME first .. (first + s - 1) \subseteq Region
        PROVE  d + s <= RegionPages
    <3>1. first + s - 1 <= RegionBase + RegionPages - 1
      BY <2>2, <2>3 DEF Region
    <3> QED
      BY <1>1, <2>1, <3>1
  <2>4. ASSUME d + s <= RegionPages
        PROVE  first .. (first + s - 1) \subseteq Region
    BY <1>1, <2>1, <2>4 DEF Region
  <2> QED
    BY <2>3, <2>4
<1> QED
  BY <1>2, <1>3, <1>4 DEF Pages, s

\* The q-th block of order k of an aligned region: it is aligned, and maximal
\* when the region ends before the block of the order above that holds it.
LEMMA RegionBlock ==
  ASSUME AlignedRegion, NEW k \in Orders, NEW q \in Nat
  PROVE  LET i == RegionBase + q * BlockSize[k]
         IN  /\ Aligned(i, k)
             /\ Maximal(i, k) <=>
                  (k < MAX_ORDER => ~(q \div 2 + 1 <= RegionPages \div BlockSize[k + 1]))
<1> DEFINE s == BlockSize[k]
           i == RegionBase + q * s
           r == q \div 2
           y == RegionBase + r * BlockSize[k + 1]
<1>1. s \in Nat \ {0} /\ BlockSize[k + 1] = 2 * s /\ k + 1 \in 0..(MAX_ORDER + 1)
  BY BlockSizes DEF Orders
<1>2. \A j \in Orders : Aligned(RegionBase, j)
  <2> TAKE j \in Orders
  <2>1. MAX_ORDER \in 0..(MAX_ORDER + 1) /\ j \in 0..MAX_ORDER
    BY OrderAssumption DEF Orders
  <2> QED
    BY <2>1, AlignedBelow DEF AlignedRegion
<1>3. Aligned(i, k)
  <2>1. PICK g \in Nat : RegionBase = g * s
    BY <1>2 DEF Aligned
  <2> HIDE DEF s
  <2>2. g * s + q * s = (g + q) * s /\ g + q \in Nat
    BY <1>1
  <2> QED
    BY <2>1, <2>2 DEF Aligned, s
<1>4. ASSUME k < MAX_ORDER
      PROVE  Whole(i, k) = y
  <2>1. k + 1 \in Orders
    BY <1>1, <1>4, BlockSizes DEF Orders
  <2>2. PICK g \in Nat : RegionBase = g * (2 * s)
    BY <1>1, <1>2, <2>1 DEF Aligned
  <2>3. r \in Nat /\ 2 * r <= q /\ q < 2 * r + 2
    OBVIOUS
  <2> HIDE DEF s, r
  <2>4. g * (2 * s) + r * (2 * s) = (g + r) * (2 * s) /\ g + r \in Nat
    BY <1>1, <2>3
  <2>5. Aligned(y, k + 1)
    BY <1>1, <2>2, <2>4 DEF Aligned, s
  <2>6. i \in Pages(y, k + 1)
    <3>1. (2 * r) * s <= q * s /\ (q + 1) * s <= (2 * r + 2) * s
      BY <1>1, <2>3, TimesMonotone
    <3>2. /\ (2 * r) * s = r * (2 * s) /\ (2 * r + 2) * s = r * (2 * s) + 2 * s
          /\ (q + 1) * s = q * s + s
          /\ r * (2 * s) \in Nat /\ q * s \in Nat
      BY <1>1, <2>3
    <3>3. RegionBase \in Nat
      BY RegionAssumption
    <3>4. /\ RegionBase + q * s \in Nat
          /\ RegionBase + r * (2 * s) <= RegionBase + q * s
          /\ RegionBase + q * s <= RegionBase + r * (2 * s) + 2 * s - 1
          /\ RegionBase + r * (2 * s) \in Nat
      BY <1>1, <3>1, <3>2, <3>3
    <3>5. i \in (RegionBase + r * (2 * s)) .. (RegionBase + r * (2 * s) + 2 * s - 1)
      BY <1>1, <3>4 DEF i
    <3> QED
      BY <1>1, <3>5 DEF Pages, y
  <2>7. /\ Aligned(Whole(i, k), k + 1)
        /\ i \in Pages(Whole(i, k), k + 1)
    BY <1>3, WholeHoldsHalves, FirstPage, OrdersInRange
  <2> HIDE DEF i, y
  <2> QED
    BY <1>1, <2>5, <2>6, <2>7, SameBlock
<1>5. r \in Nat
  OBVIOUS
<1>6. Pages(y, k + 1) \subseteq Region <=> r + 1 <= RegionPages \div BlockSize[k + 1]
  BY <1>1, <1>5, FitsRegion
<1> HIDE DEF i, y, r
<1>7. Maximal(i, k) <=> (k < MAX_ORDER => ~(r + 1 <= RegionPages \div BlockSize[k + 1]))
  BY <1>4, <1>6 DEF Maximal
<1> QED
  BY <1>3, <1>7 DEF i, r, s

\* The maximal blocks are those buddy_init_memmap carves: the largest, then one
\* for each bit set in the number of pages left.
LEMMA MaximalCarved ==
  ASSUME AlignedRegion
  PROVE  MaximalBlocks = CarvedBlocks
<1> DEFINE m(k) == RegionPages \div BlockSize[k]
           at(q, k) == RegionBase + q * BlockSize[k]
<1>1. \A k \in Orders :
        /\ k \in 0..(MAX_ORDER + 1)
        /\ BlockSize[k] \in Nat \ {0}
        /\ BlockSize[k + 1] = 2 * BlockSize[k]
        /\ m(k) \in Nat
        /\ m(k + 1) = m(k) \div 2
        /\ m(k) \div 2 \in Nat
        /\ at(m(k + 1), k + 1) = at(2 * (m(k) \div 2), k)
  <2> TAKE k \in Orders
  <2>1. /\ k \in 0..(MAX_ORDER + 1)
        /\ BlockSize[k] \in Nat \ {0}
        /\ BlockSize[k + 1] = 2 * BlockSize[k]
        /\ RegionPages \in Nat /\ RegionBase \in Nat
    BY BlockSizes, OrdersInRange, RegionAssumption
  <2>2. m(k) \in Nat
    BY <2>1, DivBounds
  <2>3. m(k + 1) = m(k) \div 2
    BY <2>1, DivHalf
  <2>4. m(k) \div 2 \in Nat
    BY <2>2
  <2>5. \A h, s \in Nat : h * (2 * s) = (2 * h) * s
    OBVIOUS
  <2>6. at(m(k + 1), k + 1) = at(2 * (m(k) \div 2), k)
    BY <2>1, <2>3, <2>4, <2>5
  <2> QED
    BY <2>1, <2>2, <2>3, <2>4, <2>6
<1>2. CarvedBlocks =
        {Block(at(q, MAX_ORDER), MAX_ORDER) : q \in 0..(m(MAX_ORDER) - 1)}
        \cup {Block(RegionBase + m(k + 1) * BlockSize[k + 1], k) :
                k \in {j \in 0..(MAX_ORDER - 1) : m(j) % 2 = 1}}
  BY DEF CarvedBlocks
<1>3. \A k \in Orders : \A q \in Nat :
        /\ Aligned(at(q, k), k)
        /\ Pages(at(q, k), k) \subseteq Region <=> q + 1 <= m(k)
        /\ Maximal(at(q, k), k) <=> (k < MAX_ORDER => ~(q \div 2 + 1 <= m(k + 1)))
  BY <1>1, FitsRegion, RegionBlock
<1> HIDE DEF m
<1>4. \A k \in Orders : \A q \in Nat :
        q + 1 <= m(k) => Block(at(q, k), k) \in AlignedBlocks
  <2> SUFFICES ASSUME NEW k \in Orders, NEW q \in Nat, q + 1 <= m(k)
               PROVE  Block(at(q, k), k) \in AlignedBlocks
    OBVIOUS
  <2> DEFINE i == at(q, k)
  <2>1. Aligned(i, k) /\ Pages(i, k) \subseteq Region
    BY <1>3
  <2> HIDE DEF i
  <2>2. i \in Region
    BY <1>1, <2>1, FirstPage
  <2>3. Block(i, k) \in AlignedBlocks
    BY <2>1, <2>2, BlockDescriptor DEF AlignedBlocks
  <2> QED
    BY <2>3 DEF i
<1>5. \A q \in 0..(m(MAX_ORDER) - 1) : Block(at(q, MAX_ORDER), MAX_ORDER) \in MaximalBlocks
  <2> SUFFICES ASSUME NEW q \in 0..(m(MAX_ORDER) - 1)
               PROVE  Block(at(q, MAX_ORDER), MAX_ORDER) \in MaximalBlocks
    OBVIOUS
  <2>1. MAX_ORDER \in Orders /\ ~(MAX_ORDER < MAX_ORDER)
    BY OrderAssumption DEF Orders
  <2>2. q \in Nat /\ q + 1 <= m(MAX_ORDER)
    BY <1>1, <2>1
  <2>3. Block(at(q, MAX_ORDER), MAX_ORDER) \in AlignedBlocks
    BY <1>4, <2>1, <2>2
  <2> QED
    BY <2>1, <2>3 DEF MaximalBlocks, Maximal, Block
<1>6. \A k \in 0..(MAX_ORDER - 1) :
        m(k) % 2 = 1 => Block(RegionBase + m(k + 1) * BlockSize[k + 1], k) \in MaximalBlocks
  <2> SUFFICES ASSUME NEW k \in 0..(MAX_ORDER - 1), m(k) % 2 = 1
               PROVE  Block(RegionBase + m(k + 1) * BlockSize[k + 1], k) \in MaximalBlocks
    OBVIOUS
  <2> DEFINE h == m(k) \div 2
             i == at(2 * h, k)
  <2>1. k \in Orders /\ k < MAX_ORDER
    BY OrderAssumption DEF Orders
  <2>2. RegionBase + m(k + 1) * BlockSize[k + 1] = i /\ m(k + 1) = h /\ m(k) \in Nat
    BY <1>1, <2>1
  <2>3. 2 * h \in Nat /\ 2 * h + 1 = m(k) /\ (2 * h) \div 2 = h /\ ~(h + 1 <= h)
    BY <2>2
  <2> HIDE DEF h
  <2>4. Block(i, k) \in AlignedBlocks
    BY <1>4, <2>1, <2>3
  <2>5. Maximal(i, k)
    BY <1>3, <2>1, <2>2, <2>3
  <2> HIDE DEF i
  <2>6. Block(i, k) \in MaximalBlocks
    BY <2>4, <2>5 DEF MaximalBlocks, Block
  <2> QED
    BY <2>2, <2>6
<1>7. ASSUME NEW b \in MaximalBlocks
      PROVE  b \in CarvedBlocks
  <2> DEFINE k == b.order
  <2>1. /\ b = Block(b.base, k) /\ k \in Orders
        /\ Aligned(b.base, k) /\ Pages(b.base, k) \subseteq Region
        /\ Maximal(b.base, k)
    BY SpanOfDescriptor DEF MaximalBlocks, AlignedBlocks
  <2>2. PICK q \in Nat : b.base = at(q, k)
    <3> DEFINE s == BlockSize[k]
    <3>1. PICK p \in Nat : b.base = p * s
      BY <2>1 DEF Aligned
    <3>2. PICK g \in Nat : RegionBase = g * s
      <4>1. MAX_ORDER \in 0..(MAX_ORDER + 1) /\ k \in 0..MAX_ORDER
        BY <2>1, OrderAssumption DEF Orders
      <4> HIDE DEF k, s
      <4>2. Aligned(RegionBase, k)
        BY <4>1, AlignedBelow DEF AlignedRegion
      <4> QED
        BY <4>2 DEF Aligned, s
    <3>3. s \in Nat \ {0}
      BY <1>1, <2>1
    <3>4. b.base \in Region
      BY <1>1, <2>1, FirstPage
    <3> HIDE DEF s, k
    <3>5. g * s <= p * s
      BY <3>1, <3>2, <3>4, RegionAssumption DEF Region
    <3>6. g <= p
      <4>1. g * s < (p + 1) * s
        <5>1. (p + 1) * s = p * s + s /\ p * s \in Nat /\ g * s \in Nat
          BY <3>3
        <5> QED
          BY <3>3, <3>5, <5>1
      <4> QED
        BY <3>3, <4>1, TimesBelow
    <3>7. p - g \in Nat /\ p * s = g * s + (p - g) * s
      BY <3>3, <3>6
    <3> QED
      BY <3>1, <3>2, <3>7 DEF s
  <2>3. q + 1 <= m(k) /\ (k < MAX_ORDER => ~(q \div 2 + 1 <= m(k + 1)))
    BY <1>3, <2>1, <2>2
  <2>4. /\ m(k) \in Nat /\ m(k + 1) = m(k) \div 2
        /\ at(m(k + 1), k + 1) = at(2 * (m(k) \div 2), k)
    BY <1>1, <2>1
  <2>5. CASE k = MAX_ORDER
    <3>1. q \in 0..(m(MAX_ORDER) - 1)
      BY <2>3, <2>4, <2>5
    <3>2. b = Block(at(q, MAX_ORDER), MAX_ORDER)
      BY <2>1, <2>2, <2>5
    <3> QED
      BY <1>2, <3>1, <3>2
  <2>6. CASE k # MAX_ORDER
    <3> HIDE DEF k, at
    <3>1. k < MAX_ORDER /\ k \in 0..(MAX_ORDER - 1)
      BY <2>1, <2>6, OrderAssumption DEF Orders
    <3>2. q = 2 * (m(k) \div 2) /\ m(k) % 2 = 1
      BY <2>3, <2>4, <3>1
    <3>3. b = Block(at(m(k + 1), k + 1), k)
      BY <2>1, <2>2, <2>4, <3>2
    <3> QED
      BY <1>2, <3>1, <3>2, <3>3 DEF at
  <2> QED
    BY <2>5, <2>6
<1> QED
  BY <1>2, <1>5, <1>6, <1>7

\* No two blocks of the largest order in the region could be joined.
NoPairAtCap ==
  \A i \in Nat : Aligned(i, MAX_ORDER + 1) => ~(Pages(i, MAX_ORDER + 1) \subseteq Region)

\* In such a region joining stops at MAX_ORDER.
LEMMA NeverJoinedAtCap ==
  ASSUME NoPairAtCap, IInv, ApartInv
  PROVE  ~AddCapped
<1> SUFFICES ASSUME AddCapped PROVE FALSE
  OBVIOUS
<1>1. ListInv /\ HeldInv /\ CallInv
  BY PartsOfInvariant
<1>2. pc = "merge" /\ ord = MAX_ORDER + 1 /\ blk \in Nat
  BY <1>1, OrderAssumption DEF AddCapped, CallInv
<1>3. Aligned(blk, MAX_ORDER + 1) /\ HandPages = Pages(blk, MAX_ORDER + 1)
  BY <1>2 DEF ApartInv, HandAligned, HandPages, Pages
<1> QED
  BY <1>1, <1>2, <1>3 DEF NoPairAtCap, CallInv

\* And so no page is ever lost.
LEMMA CompleteWithoutCap ==
  ASSUME NoPairAtCap, IInv, ApartInv, Complete, [Next]_vars
  PROVE  Complete'
<1>1. LossStep /\ ~AddCapped
  BY LossOnlyCapped, NeverJoinedAtCap
<1>2. CASE KnownPages' = KnownPages
  BY <1>2 DEF Complete, Region
<1>3. CASE KnownPages' # KnownPages
  <2>1. pc = "merge" /\ ord = MAX_ORDER + 1 /\ pc' = "idle"
    BY <1>1, <1>3 DEF LossStep
  <2>2. AddMerged \/ AddCapped
    BY <2>1 DEF Next, RunningCall, vars, CarveBlock, CarveDone, AllocNull, AllocTake,
                SplitBlock, AllocReturn, MergeBuddy, alloc_pages, free_pages
  <2>3. ~AddMerged
    BY <2>1, OrderAssumption DEF AddMerged
  <2> QED
    BY <1>1, <2>2, <2>3
<1> QED
  BY <1>2, <1>3

\* In an aligned region without two joinable blocks of the largest order, once
\* every caller has given its pages back the free lists hold the very
\* blocks of buddy_init_memmap, whatever was split and in whatever order
\* it was freed ("Should be able to coalesce back", buddy_pmm.c:233).
THEOREM CoalescesBack ==
  ASSUME AlignedRegion, NoPairAtCap
  PROVE  Spec => []CoalesceBack
<1>1. Init => ApartInv /\ Complete
  BY InitApart, InitInv DEF Complete, KnownPages
<1>2. IInv /\ ApartInv /\ Complete /\ [Next]_vars => ApartInv' /\ Complete'
  BY NextApart, CompleteWithoutCap
<1>3. IInv /\ ApartInv /\ Complete => CoalesceBack
  <2> SUFFICES ASSUME IInv, ApartInv, Complete, pc = "idle", held = {}
               PROVE  ListedBlocks = CarvedBlocks
    BY DEF CoalesceBack
  <2>1. FreePages = Region
    BY DEF HandPages, HeldPages, Complete, KnownPages
  <2> QED
    BY <2>1, PartsOfInvariant, MaximalListed, MaximalCarved DEF ApartInv
<1> QED
  BY <1>1, <1>2, <1>3, Invariance, PTL DEF Spec

\* In such a region the buddy system keeps the contract in full: joining
\* never forfeits a page (buddy_free_pages).
THEOREM StrictRefinementAligned ==
  ASSUME AlignedRegion, NoPairAtCap
  PROVE  Spec => ImplementsAllocator
<1>1. Init => ApartInv /\ PA!Init
  <2> SUFFICES ASSUME Init PROVE ApartInv /\ PA!Init
    OBVIOUS
  <2>1. FreePages = {} /\ HeldPages = {} /\ HandPages = Region
    BY InitInv
  <2> QED
    BY <2>1, InitApart DEF PA!Init, PA!NoCall, Init
<1>2. IInv /\ ApartInv /\ [Next]_vars => ApartInv' /\ [PA!Next]_(PA!vars)
  <2> SUFFICES ASSUME IInv, ApartInv, [Next]_vars
               PROVE  ApartInv' /\ [PA!Next]_(PA!vars)
    OBVIOUS
  <2> QED
    BY NextApart, NeverJoinedAtCap, StepSimulationButCap
<1> QED
  BY <1>1, <1>2, Invariance, PTL DEF Spec, ImplementsAllocator, PA!Spec

-----------------------------------------------------------------------------
(* The boot check.                                                         *)

\* A request that a free block could serve is served, wherever that block is:
\* of the listed blocks that share a page with it, one of the smallest would have
\* its buddy beside it.
LEMMA FreeBlockServes ==
  ASSUME IInv, ApartInv, NEW k \in Orders, arg # 0, IsOrderFor(arg, k),
         NEW i, Aligned(i, k), Pages(i, k) \subseteq FreePages
  PROVE  ~AllocNull
<1>1. ListInv /\ ListedAligned /\ NoBuddies /\ arg \in Nat
  BY PartsOfInvariant DEF ApartInv, CallInv
<1>2. k \in 0..(MAX_ORDER + 1) /\ BlockSize[k] \in Nat \ {0} /\ i \in Nat
  BY BlockSizes, OrdersInRange, FirstPage
<1>3. ASSUME NEW b \in ListedBlocks
      PROVE  /\ b.order \in Orders /\ b.order \in 0..(MAX_ORDER + 1) /\ b.order \in Nat
             /\ Aligned(b.base, b.order)
             /\ Span(b) = Pages(b.base, b.order)
  <2>1. b \in Descriptors /\ Aligned(b.base, b.order)
    BY <1>1, ListedMember DEF ListInv, ListedAligned
  <2>2. Span(b) = Pages(b.base, b.order)
    BY DEF Span, Pages
  <2>3. b.order \in Orders
    BY <2>1 DEF Descriptors
  <2> QED
    BY <2>1, <2>2, <2>3, OrdersInRange DEF Orders
<1>4. arg <= nr_free
  <2>1. Cardinality(Pages(i, k)) = BlockSize[k]
    BY <1>2, IntervalSize DEF Pages
  <2>2. IsFiniteSet(FreePages) /\ nr_free = Cardinality(FreePages)
    BY <1>1, CountBound DEF ListInv, FreeCount
  <2>3. BlockSize[k] <= nr_free /\ nr_free \in Nat
    BY <2>1, <2>2, FS_Subset, FS_CardinalityType
  <2>4. arg <= BlockSize[k]
    BY DEF IsOrderFor
  <2> QED
    BY <1>1, <1>2, <2>3, <2>4
<1>5. \E b \in ListedBlocks : k <= b.order
  <2> SUFFICES ASSUME \A b \in ListedBlocks : ~(k <= b.order) PROVE FALSE
    OBVIOUS
  <2> DEFINE T == {j \in Nat : \E b \in ListedBlocks : b.order = j /\ Span(b) \cap Pages(i, k) # {}}
  <2>1. ASSUME NEW t \in Pages(i, k)
        PROVE  \E b \in ListedBlocks : t \in Span(b)
    BY DEF FreePages
  <2>2. PICK e \in ListedBlocks : i \in Span(e)
    BY <2>1, <1>2, FirstPage
  <2>3. e.order \in T
    BY <2>2, <1>2, <1>3, FirstPage
  <2>4. PICK j \in T : \A l \in T : j <= l
    BY <2>3, LeastNatural
  <2>5. PICK b \in ListedBlocks : b.order = j /\ Span(b) \cap Pages(i, k) # {}
    BY <2>4
  <2>6. /\ j \in Orders /\ j \in Nat /\ Aligned(b.base, j) /\ Span(b) = Pages(b.base, j)
        /\ j < k /\ k \in Nat /\ j < MAX_ORDER
    <3>1. j \in Orders /\ j \in Nat /\ Aligned(b.base, j) /\ Span(b) = Pages(b.base, j)
      BY <1>3, <2>5
    <3>2. ~(k <= j)
      BY <2>5
    <3> QED
      BY <3>1, <3>2, OrderAssumption DEF Orders
  <2> DEFINE h == BuddyIndex(b.base, j)
             w == Whole(b.base, j)
  <2>7. /\ Aligned(h, j) /\ Aligned(w, j + 1)
        /\ Pages(b.base, j) \subseteq Pages(w, j + 1)
        /\ Pages(h, j) \subseteq Pages(w, j + 1)
    BY <2>6, BuddyOf, WholeHoldsHalves
  <2>8. Pages(w, j + 1) \subseteq Pages(i, k)
    <3>1. j + 1 \in 0..k
      BY <2>6
    <3>2. PICK t : t \in Pages(w, j + 1) \cap Pages(i, k)
      BY <2>5, <2>6, <2>7
    <3> HIDE DEF w
    <3> QED
      BY <1>2, <2>7, <3>1, <3>2, Nested
  <2>9. h \in Pages(h, j)
    BY <2>6, <2>7, FirstPage, OrdersInRange
  <2>10. PICK c \in ListedBlocks : h \in Span(c)
    BY <2>1, <2>7, <2>8, <2>9
  <2>11. /\ c.order \in Orders /\ c.order \in 0..(MAX_ORDER + 1) /\ c.order \in Nat
         /\ Aligned(c.base, c.order) /\ Span(c) = Pages(c.base, c.order)
    BY <1>3
  <2>12. j <= c.order
    BY <2>4, <2>7, <2>8, <2>9, <2>10, <2>11
  <2> HIDE DEF h, w, T
  <2>13. CASE c.order = j
    <3>1. c.base = h
      BY <2>6, <2>7, <2>9, <2>10, <2>11, <2>13, SameBlock, OrdersInRange
    <3> QED
      BY <1>1, <2>5, <2>6, <2>13, <3>1 DEF NoBuddies, h
  <2>14. CASE c.order # j
    <3>1. j + 1 \in 0..c.order
      BY <2>6, <2>11, <2>12, <2>14
    <3>2. h \in Pages(w, j + 1) \cap Pages(c.base, c.order)
      BY <2>7, <2>9, <2>10, <2>11
    <3>3. Pages(w, j + 1) \subseteq Pages(c.base, c.order)
      BY <2>7, <2>11, <3>1, <3>2, Nested
    <3>4. Span(b) \cap Span(c) # {}
      BY <2>5, <2>6, <2>7, <2>11, <3>3
    <3> QED
      BY <1>1, <2>5, <2>14, <3>4 DEF ListInv, FreeDisjoint
  <2> QED
    BY <2>13, <2>14
<1>6. PICK b \in ListedBlocks : k <= b.order
  BY <1>5
<1>7. PICK j \in Orders : \E p \in 1..Len(free_lists[j]) : b = free_lists[j][p]
  BY DEF ListedBlocks
<1>8. b.order = j /\ free_lists[j] # <<>>
  <2>1. PICK p \in 1..Len(free_lists[j]) : b = free_lists[j][p]
    BY <1>7
  <2>2. b.order = j
    BY <1>1, <2>1 DEF ListInv, ListsOK, ListsWellFormed
  <2>3. free_lists[j] # <<>>
    BY <2>1
  <2> QED
    BY <2>2, <2>3
<1>9. j \in SearchOrders(arg)
  <2>1. k \in 0..j
    BY <1>6, <1>8 DEF Orders
  <2> QED
    BY <2>1 DEF SearchOrders
<1> QED
  BY <1>1, <1>4, <1>8, <1>9, CountBound DEF AllocNull, ListInv, FreeCount

\* What a caller holds, as an aligned block.
LEMMA HeldAlignedBlock ==
  ASSUME IInv, ApartInv, NEW a \in held
  PROVE  /\ size_to_order(a.n) \in Orders
         /\ Aligned(a.base, size_to_order(a.n))
         /\ Span(HeldBlock(a)) = Pages(a.base, size_to_order(a.n))
         /\ a.base \in Span(HeldBlock(a))
<1>1. HeldInv
  BY PartsOfInvariant
<1>2. /\ size_to_order(a.n) \in Orders
      /\ Span(HeldBlock(a)) = Pages(a.base, size_to_order(a.n))
  BY <1>1, HeldBlockOf DEF Pages
<1>3. Aligned(a.base, size_to_order(a.n))
  BY DEF ApartInv, HeldAligned
<1> QED
  BY <1>2, <1>3, FirstPage, OrdersInRange

\* If fewer blocks are held than blocks of order k fit in the region, none of them
\* larger, one of those is free.
LEMMA SomeBlockFree ==
  ASSUME AlignedRegion, IInv, ApartInv, Complete, pc = "alloc",
         NEW k \in Orders, NEW m \in Nat, m * BlockSize[k] <= RegionPages,
         IsFiniteSet(held), Cardinality(held) < m,
         \A a \in held : size_to_order(a.n) <= k
  PROVE  \E i : Aligned(i, k) /\ Pages(i, k) \subseteq FreePages
<1> DEFINE s == BlockSize[k]
           at(q) == RegionBase + q * s
<1>1. k \in 0..(MAX_ORDER + 1) /\ s \in Nat \ {0} /\ RegionBase \in Nat /\ RegionPages \in Nat
  BY BlockSizes, OrdersInRange, RegionAssumption
<1> DEFINE d == RegionPages \div s
<1>2. m <= d
  BY <1>1, FloorGreatest
<1>3. d \in Nat
  BY <1>1, DivBounds
<1> HIDE DEF d
<1>4. ASSUME NEW q \in 0..(m - 1)
      PROVE  Aligned(at(q), k) /\ Pages(at(q), k) \subseteq Region
  <2>1. q \in Nat /\ q + 1 <= d
    BY <1>2, <1>3
  <2> QED
    BY <1>1, <2>1, RegionBlock, FitsRegion DEF d
<1> SUFFICES ASSUME \A q \in 0..(m - 1) : ~(Pages(at(q), k) \subseteq FreePages)
             PROVE  FALSE
  <2>1. ASSUME NEW q \in 0..(m - 1), Pages(at(q), k) \subseteq FreePages
        PROVE  \E i : Aligned(i, k) /\ Pages(i, k) \subseteq FreePages
    BY <1>4, <2>1
  <2> QED
    BY <2>1
<1> DEFINE Meets(a, q) == Span(HeldBlock(a)) \cap Pages(at(q), k) # {}
<1>5. \A q \in 0..(m - 1) : \E a \in held : Meets(a, q)
  <2> TAKE q \in 0..(m - 1)
  <2>1. PICK t \in Pages(at(q), k) : t \notin FreePages
    OBVIOUS
  <2>2. t \in KnownPages /\ HandPages = {}
    BY <1>4 DEF Complete, HandPages
  <2>3. t \in HeldPages
    BY <2>1, <2>2 DEF KnownPages
  <2> QED
    BY <2>3 DEF HeldPages
<1>6. ASSUME NEW q \in 0..(m - 1), NEW p \in 0..(m - 1), NEW a \in held, Meets(a, q), Meets(a, p)
      PROVE  q = p
  <2>1. /\ size_to_order(a.n) \in 0..k
        /\ Aligned(a.base, size_to_order(a.n))
        /\ Span(HeldBlock(a)) = Pages(a.base, size_to_order(a.n))
    BY HeldAlignedBlock DEF Orders
  <2>2. Aligned(at(q), k) /\ Aligned(at(p), k)
    BY <1>4
  <2> DEFINE x == at(q)
             y == at(p)
  <2>3. x = y
    <3> HIDE DEF x, y
    <3>1. Span(HeldBlock(a)) \subseteq Pages(x, k)
      BY <1>1, <1>6, <2>1, <2>2, Nested DEF x
    <3>2. Pages(x, k) \cap Pages(y, k) # {}
      BY <1>6, <3>1 DEF y
    <3> QED
      BY <1>1, <2>2, <3>2, SameBlock DEF x, y
  <2>4. q * s = p * s /\ q \in Nat /\ p \in Nat
    <3>1. q * s \in Nat /\ p * s \in Nat
      BY <1>1
    <3> QED
      BY <1>1, <2>3, <3>1
  <2> HIDE DEF s
  <2>5. (q + 1) * s = q * s + s /\ (p + 1) * s = p * s + s /\ q * s \in Nat
    BY <1>1, <2>4
  <2>6. q < p + 1
    <3>1. ~(p + 1 <= q)
      <4> SUFFICES ASSUME p + 1 <= q PROVE FALSE
        OBVIOUS
      <4>1. (p + 1) * s <= q * s
        BY <1>1, <2>4, TimesMonotone
      <4> QED
        BY <1>1, <2>4, <2>5, <4>1
    <3> QED
      BY <2>4, <3>1
  <2>7. p < q + 1
    <3>1. ~(q + 1 <= p)
      <4> SUFFICES ASSUME q + 1 <= p PROVE FALSE
        OBVIOUS
      <4>1. (q + 1) * s <= p * s
        BY <1>1, <2>4, TimesMonotone
      <4> QED
        BY <1>1, <2>4, <2>5, <4>1
    <3> QED
      BY <2>4, <3>1
  <2> QED
    BY <2>4, <2>6, <2>7
<1> DEFINE g == [q \in 0..(m - 1) |-> CHOOSE a \in held : Meets(a, q)]
<1>7. \A q \in 0..(m - 1) : g[q] \in held /\ Meets(g[q], q)
  BY <1>5
<1>8. g \in Injection(0..(m - 1), held)
  <2>1. g \in [0..(m - 1) -> held]
    BY <1>7
  <2>2. \A q, p \in 0..(m - 1) : g[q] = g[p] => q = p
    <3> HIDE DEF g, Meets
    <3> QED
      BY <1>6, <1>7
  <2> HIDE DEF g
  <2> QED
    BY <2>1, <2>2 DEF Injection, IsInjective
<1>9. Cardinality(0..(m - 1)) = m /\ IsFiniteSet(0..(m - 1))
  <2>1. 0 \in Int /\ m - 1 \in Int
    OBVIOUS
  <2>2. Cardinality(0..(m - 1)) = IF 0 > m - 1 THEN 0 ELSE (m - 1) - 0 + 1
    BY <2>1, FS_Interval
  <2> QED
    BY <2>1, <2>2, FS_Interval
<1>10. m <= Cardinality(held)
  <2> HIDE DEF g, Meets
  <2> QED
    BY <1>8, <1>9, FS_Injection
<1>11. Cardinality(held) \in Nat
  BY FS_CardinalityType
<1> QED
  BY <1>10, <1>11

-----------------------------------------------------------------------------
(* The deterministic tests: what each of them borrows, and when.           *)

\* A request of n pages made by statement `at`, given back by `until`.
Loan(x, n, i, j) == [to |-> x, n |-> n, at |-> i, until |-> j]

Loans ==
  { Loan("a", 1, 2, 8), Loan("b", 1, 3, 7), Loan("c", 1, 4, 9),
    Loan("a", 2, 11, 15), Loan("b", 4, 12, 16),
    Loan("a", 3, 18, 21),
    Loan("d", Half, 22, 24),
    Loan("a", 2, 25, 33), Loan("b", 2, 26, 31), Loan("c", 2, 27, 32), Loan("d", 2, 28, 30),
    Loan("large", 8, 34, 35) }

Tests == buddy_deterministic_tests
NTests == 35       \* how many statements they are

\* The fields of a loan.
LEMMA LoanFields ==
  ASSUME NEW x, NEW n, NEW i, NEW j
  PROVE  /\ Loan(x, n, i, j).to = x /\ Loan(x, n, i, j).n = n
         /\ Loan(x, n, i, j).at = i /\ Loan(x, n, i, j).until = j
BY DEF Loan

\* A loan is opened by one statement of the tests and closed by a later one.
LEMMA LoanTypes ==
  ASSUME NEW p \in Loans
  PROVE  /\ p.to \in Names
         /\ p.n \in Nat \ {0}
         /\ p.at \in 1..NTests /\ p.until \in 1..NTests /\ p.at < p.until
         /\ Tests[p.at] = Alloc(p.to, p.n)
         /\ Tests[p.until] = Free(p.to, p.n)
<1>1. Half \in Nat \ {0}
  <2>1. MAX_ORDER - 1 \in 0..(MAX_ORDER + 1)
    BY CheckAssumption, OrderAssumption
  <2> QED
    BY <2>1, BlockSizes DEF Half
<1> QED
  BY <1>1 DEF Loans, Loan, Names, NTests, Tests, buddy_deterministic_tests

\* The kinds of statement differ.
LEMMA Kinds ==
  ASSUME NEW x, NEW n
  PROVE  /\ Alloc(x, n).do = "alloc" /\ Alloc(x, n).to = x /\ Alloc(x, n).n = n
         /\ Free(x, n).do = "free" /\ Free(x, n).at = x /\ Free(x, n).n = n
         /\ NotNull(x).do = "not null" /\ NotNull(x).of = x
         /\ Count.do = "count"
         /\ Used(n).do = "used" /\ Used(n).n = n
         /\ UsedAtLeast(x, n).do = "used at least"
         /\ UsedAtLeast(x, n).at = x /\ UsedAtLeast(x, n).n = n
BY DEF Alloc, Free, NotNull, Count, Used, UsedAtLeast

\* Every statement, in one place.
LEMMA TestStatements ==
  ASSUME NEW l \in 1..NTests
  PROVE  \/ \E p \in Loans : p.at = l \/ p.until = l
         \/ l = 1 /\ Tests[l] = Count
         \/ l = 5 /\ Tests[l] = NotNull({"a", "b", "c"})
         \/ l \in {10, 17} /\ Tests[l] = Used(0)
         \/ l = 6 /\ Tests[l] = Used(3)
         \/ l = 13 /\ Tests[l] = NotNull({"a", "b"})
         \/ l = 14 /\ Tests[l] = Used(6)
         \/ l = 19 /\ Tests[l] = NotNull({"a"})
         \/ l = 20 /\ Tests[l] = UsedAtLeast("a", 4)
         \/ l = 23 /\ Tests[l] = UsedAtLeast("d", Half)
         \/ l = 29 /\ Tests[l] = NotNull({"a", "b", "c", "d"})
<1>1. \/ l \in {2, 3, 4, 7, 8, 9, 11, 12, 15, 16, 18, 21, 22, 24, 25, 26, 27, 28,
                30, 31, 32, 33, 34, 35}
      \/ l \in {1, 5, 6, 10, 13, 14, 17, 19, 20, 23, 29}
  BY DEF NTests
<1>2. CASE l \in {2, 3, 4, 7, 8, 9, 11, 12, 15, 16, 18, 21, 22, 24, 25, 26, 27, 28,
                  30, 31, 32, 33, 34, 35}
  BY <1>2 DEF Loans, Loan
<1>3. CASE l \in {1, 5, 6, 10, 13, 14, 17, 19, 20, 23, 29}
  BY <1>3 DEF Tests, buddy_deterministic_tests
<1> QED
  BY <1>1, <1>2, <1>3

\* No two loans begin or end together, nor run at once under one name.
LEMMA LoansApart ==
  ASSUME NEW p \in Loans, NEW q \in Loans, p # q
  PROVE  /\ p.at # q.at /\ p.until # q.until /\ p.at # q.until
         /\ p.to = q.to => p.until < q.at \/ q.until < p.at
BY DEF Loans, Loan

\* The loans of the tests that run when statement l is reached.
Live(l) == {p \in Loans : p.at < l /\ l <= p.until}

\* A statement that asks for pages opens a loan.
LEMMA LoanOpens ==
  ASSUME NEW p \in Loans
  PROVE  /\ Live(p.at + 1) = Live(p.at) \cup {p}
         /\ \A q \in Live(p.at) : q.to # p.to
<1>1. p.at \in Int /\ p.until \in Int /\ p.at < p.until
  BY LoanTypes DEF NTests
<1>2. ASSUME NEW q \in Loans, q # p
      PROVE  /\ q.at \in Int /\ q.until \in Int
             /\ q.at # p.at /\ q.until # p.at
             /\ q.to = p.to => q.until < p.at \/ p.until < q.at
  BY <1>2, LoanTypes, LoansApart DEF NTests
<1>3. ASSUME NEW q \in Loans
      PROVE  q \in Live(p.at + 1) <=> q \in Live(p.at) \/ q = p
  BY <1>1, <1>2, LoanTypes DEF Live
<1>4. ASSUME NEW q \in Live(p.at)
      PROVE  q.to # p.to
  BY <1>1, <1>2 DEF Live
<1> QED
  BY <1>3, <1>4 DEF Live

\* A statement that gives pages back closes one.
LEMMA LoanCloses ==
  ASSUME NEW p \in Loans
  PROVE  /\ p \in Live(p.until)
         /\ Live(p.until + 1) = Live(p.until) \ {p}
<1>1. p.at \in Int /\ p.until \in Int /\ p.at < p.until
  BY LoanTypes DEF NTests
<1>2. ASSUME NEW q \in Loans, q # p
      PROVE  /\ q.at \in Int /\ q.until \in Int
             /\ q.at # p.until /\ q.until # p.until
  BY <1>2, LoanTypes, LoansApart DEF NTests
<1>3. ASSUME NEW q \in Loans
      PROVE  q \in Live(p.until + 1) <=> q \in Live(p.until) /\ q # p
  BY <1>1, <1>2, LoanTypes DEF Live
<1> QED
  BY <1>1, <1>3 DEF Live

\* Other statements change nothing.
LEMMA LoansGoOn ==
  ASSUME NEW l \in Nat, \A p \in Loans : p.at # l /\ p.until # l
  PROVE  Live(l + 1) = Live(l)
<1>1. ASSUME NEW q \in Loans
      PROVE  q.at \in Int /\ q.until \in Int
  BY LoanTypes DEF NTests
<1>2. ASSUME NEW q \in Loans
      PROVE  q \in Live(l + 1) <=> q \in Live(l)
  BY <1>1 DEF Live
<1> QED
  BY <1>2 DEF Live

\* The names in use at one time differ.
LEMMA LiveNames ==
  ASSUME NEW l \in Int, NEW p \in Live(l), NEW q \in Live(l), p.to = q.to
  PROVE  p = q
<1>1. /\ p \in Loans /\ q \in Loans
      /\ p.at < l /\ l <= p.until /\ q.at < l /\ l <= q.until
  BY DEF Live
<1>2. p.at \in Int /\ p.until \in Int /\ q.at \in Int /\ q.until \in Int
  BY <1>1, LoanTypes DEF NTests
<1> QED
  BY <1>1, <1>2, LoansApart

-----------------------------------------------------------------------------
(* The statements of buddy_check, one after the other.                     *)

\* A function on 1..n is a sequence.
LEMMA FunctionIsSeq ==
  ASSUME NEW S, NEW n \in Nat, NEW s \in [1..n -> S]
  PROVE  s \in Seq(S) /\ Len(s) = n
<1>1. s \in Seq(S)
  OBVIOUS
<1>2. Len(s) \in Nat /\ DOMAIN s = 1..Len(s)
  BY <1>1, LenProperties
<1>3. 1..n = 1..Len(s)
  BY <1>2
<1> QED
  BY <1>1, <1>2, <1>3

\* buddy_check is the tests, then rounds of allocations and frees, then the
\* smoke test: nothing is asserted after the tests.
LEMMA CheckStatements ==
  /\ Len(buddy_check) \in Nat /\ NTests < Len(buddy_check)
  /\ \A l \in 1..NTests : buddy_check[l] = Tests[l]
  /\ \A l \in 1..Len(buddy_check) :
       l > NTests => \/ buddy_check[l].do = "fill" /\ buddy_check[l].sizes \subseteq Requests
                   \/ buddy_check[l].do = "drain"
<1> DEFINE rounds == [i \in 1..(2 * Rounds) |-> buddy_random_tests[IF i % 2 = 1 THEN 1 ELSE 2]]
           Tail2 == {Fill(Sizes, N, TRUE), Fill({1}, CAP, FALSE), Drain("last"), Drain("first")}
           All == {Tests[i] : i \in 1..NTests} \cup Tail2
<1>1. Tests \in Seq(All) /\ Len(Tests) = NTests
  <2>1. Tests = [i \in 1..NTests |-> Tests[i]] /\ Len(Tests) = NTests
    BY DEF Tests, NTests, buddy_deterministic_tests
  <2>2. \A i \in 1..NTests : Tests[i] \in All
    OBVIOUS
  <2> QED
    BY <2>1, <2>2 DEF NTests
<1>2. rounds \in Seq(All) /\ Len(rounds) = 2 * Rounds /\ \A i \in 1..(2 * Rounds) : rounds[i] \in Tail2
  <2>1. 2 * Rounds \in Nat
    BY CheckAssumption
  <2>2. buddy_random_tests[1] \in Tail2 /\ buddy_random_tests[2] \in Tail2
    BY DEF buddy_random_tests
  <2>3. \A i \in 1..(2 * Rounds) : rounds[i] \in Tail2
    BY <2>2
  <2>4. rounds \in [1..(2 * Rounds) -> All]
    BY <2>3
  <2> HIDE DEF rounds, All
  <2>5. rounds \in Seq(All) /\ Len(rounds) = 2 * Rounds
    BY <2>1, <2>4, FunctionIsSeq
  <2> QED
    BY <2>3, <2>5
<1>3. smoke_test \in Seq(All) /\ Len(smoke_test) = 2 /\ \A i \in 1..2 : smoke_test[i] \in Tail2
  <2>1. smoke_test = <<Fill({1}, CAP, FALSE), Drain("first")>>
    BY DEF smoke_test
  <2> QED
    BY <2>1
<1>4. buddy_check = (Tests \o rounds) \o smoke_test
  BY DEF buddy_check, Tests
<1>5. \A x \in Tail2 : (x.do = "fill" /\ x.sizes \subseteq Requests) \/ x.do = "drain"
  BY CheckAssumption DEF Fill, Drain
<1> HIDE DEF rounds, All, Tail2
<1> DEFINE front == Tests \o rounds
<1>6. /\ front \in Seq(All) /\ Len(front) = NTests + 2 * Rounds
      /\ \A i \in 1..NTests : front[i] = Tests[i]
      /\ \A i \in 1..Len(front) : i > NTests => front[i] \in Tail2
  <2>1. front \in Seq(All) /\ Len(front) = NTests + 2 * Rounds
    BY <1>1, <1>2, ConcatProperties
  <2>2. \A i \in 1..Len(front) : front[i] = IF i <= NTests THEN Tests[i] ELSE rounds[i - NTests]
    BY <1>1, <1>2, ConcatProperties
  <2>3. 2 * Rounds \in Nat /\ NTests \in Nat
    BY CheckAssumption DEF NTests
  <2>4. \A i \in 1..Len(front) : i > NTests => i - NTests \in 1..(2 * Rounds)
    BY <2>1, <2>3
  <2> QED
    BY <1>2, <2>1, <2>2, <2>3, <2>4
<1> HIDE DEF front
<1>7. /\ Len(buddy_check) = Len(front) + 2
      /\ \A i \in 1..Len(buddy_check) :
           buddy_check[i] = IF i <= Len(front) THEN front[i] ELSE smoke_test[i - Len(front)]
  <2>1. buddy_check = front \o smoke_test
    BY <1>4 DEF front
  <2>2. front \in Seq(All) /\ smoke_test \in Seq(All) /\ Len(smoke_test) = 2
    BY <1>3, <1>6
  <2>3. /\ Len(front \o smoke_test) = Len(front) + Len(smoke_test)
        /\ \A i \in 1..(Len(front) + Len(smoke_test)) :
             (front \o smoke_test)[i] = IF i <= Len(front) THEN front[i] ELSE smoke_test[i - Len(front)]
    BY <2>2, ConcatProperties
  <2> QED
    BY <2>1, <2>2, <2>3
<1>8. 2 * Rounds \in Nat /\ NTests \in Nat
  BY CheckAssumption DEF NTests
<1>9. Len(front) \in Nat /\ NTests <= Len(front)
  BY <1>6, <1>8
<1>10. \A l \in 1..Len(buddy_check) : l > NTests => buddy_check[l] \in Tail2
  <2> SUFFICES ASSUME NEW l \in 1..Len(buddy_check), l > NTests PROVE buddy_check[l] \in Tail2
    OBVIOUS
  <2>1. CASE l <= Len(front)
    BY <1>6, <1>7, <1>9, <2>1
  <2>2. CASE ~(l <= Len(front))
    <3>1. l - Len(front) \in 1..2
      BY <1>7, <1>9, <2>2
    <3> QED
      BY <1>3, <1>7, <2>2, <3>1
  <2> QED
    BY <2>1, <2>2
<1>11. \A l \in 1..NTests : buddy_check[l] = Tests[l]
  BY <1>6, <1>7, <1>8, <1>9
<1> QED
  BY <1>5, <1>7, <1>8, <1>9, <1>10, <1>11

-----------------------------------------------------------------------------
(* The invariant of the check: what callers hold is what the tests have    *)
(* borrowed so far.                                                        *)

\* The blocks that the loans running at statement l were given.
Given(l) == {[base |-> local[p.to], n |-> p.n] : p \in {q \in Live(l) : local[q.to] # NULL}}

\* Requests that must succeed; the two others may return NULL.
MustServe(p) == p.at \notin {22, 34}

\* While the tests run.  A call to alloc_pages is under way for the loan that
\* opens, a call to free_pages for the one that closes.
TestInv ==
  /\ local \in [Names -> Int]
  /\ \A p, q \in Live(line) :
       p # q /\ local[p.to] # NULL /\ local[q.to] # NULL => local[p.to] # local[q.to]
  /\ \A p \in Live(line) : MustServe(p) => local[p.to] # NULL
  /\ pc \in {"carve", "idle"} => held = Given(line)
  /\ pc \in {"alloc", "split"} => \E p \in Loans : p.at = line /\ arg = p.n /\ held = Given(line)
  /\ pc = "merge" => \E p \in Loans : p.until = line /\ held = Given(line + 1)

CheckInv ==
  /\ line \in Nat \ {0}
  /\ ~is_panic
  /\ line > 1 => initial_free = RegionPages
  /\ line <= NTests => TestInv

\* The statement the tests are at.
LEMMA TestStatement ==
  ASSUME line \in Nat \ {0}, line <= NTests
  PROVE  /\ ~Booted /\ line \in 1..NTests
         /\ Statement = Tests[line]
         /\ Statement.do = "alloc" =>
              \E p \in Loans : p.at = line /\ Statement = Alloc(p.to, p.n)
         /\ Statement.do = "free" =>
              \E p \in Loans : p.until = line /\ Statement = Free(p.to, p.n)
         /\ Statement.do \notin {"fill", "drain"}
<1>1. line \in 1..NTests
  BY DEF NTests
<1>2. ~Booted /\ Statement = Tests[line]
  <2>1. Len(buddy_check) \in Nat /\ NTests < Len(buddy_check) /\ buddy_check[line] = Tests[line]
    BY <1>1, CheckStatements
  <2>2. ~(line > Len(buddy_check))
    BY <2>1 DEF NTests
  <2> QED
    BY <2>1, <2>2 DEF Booted, Statement
<1>3. CASE \E p \in Loans : p.at = line \/ p.until = line
  <2>1. PICK p \in Loans : p.at = line \/ p.until = line
    BY <1>3
  <2>2. CASE p.at = line
    <3>1. Statement = Alloc(p.to, p.n)
      BY <1>2, <2>2, LoanTypes
    <3>2. Statement.do = "alloc"
      BY <3>1 DEF Alloc
    <3> QED
      BY <1>1, <1>2, <2>2, <3>1, <3>2
  <2>3. CASE p.until = line
    <3>1. Statement = Free(p.to, p.n)
      BY <1>2, <2>3, LoanTypes
    <3>2. Statement.do = "free"
      BY <3>1 DEF Free
    <3> QED
      BY <1>1, <1>2, <2>3, <3>1, <3>2
  <2> QED
    BY <2>1, <2>2, <2>3
<1>4. CASE ~ \E p \in Loans : p.at = line \/ p.until = line
  <2>1. Statement.do \in {"count", "not null", "used", "used at least"}
    <3>1. \/ Tests[line] = Count
          \/ \E n \in Nat : Tests[line] = Used(n)
          \/ \E x : Tests[line] = NotNull(x)
          \/ \E x, n : Tests[line] = UsedAtLeast(x, n)
      BY <1>1, <1>4, TestStatements
    <3>2. Count.do = "count"
      BY DEF Count
    <3>3. \A n : Used(n).do = "used"
      BY DEF Used
    <3>4. \A x : NotNull(x).do = "not null"
      BY DEF NotNull
    <3>5. \A x, n : UsedAtLeast(x, n).do = "used at least"
      BY DEF UsedAtLeast
    <3> QED
      BY <1>2, <3>1, <3>2, <3>3, <3>4, <3>5
  <2> QED
    BY <1>1, <1>2, <2>1
<1> QED
  BY <1>3, <1>4

\* Storing what alloc_pages returned.
LEMMA ResultStored ==
  ASSUME TestInv, line \in Nat, line' = line + 1, pc' = "idle",
         NEW p \in Loans, p.at = line, held = Given(line),
         NEW res \in Int, local' = [local EXCEPT ![p.to] = res],
         res = NULL => held' = held /\ ~MustServe(p),
         res # NULL => /\ held' = held \cup {[base |-> res, n |-> p.n]}
                       /\ \A q \in Live(line) : local[q.to] # NULL => local[q.to] # res
  PROVE  TestInv'
<1>1. p.to \in Names /\ local \in [Names -> Int]
  BY LoanTypes DEF TestInv
<1>2. Live(line') = Live(line) \cup {p} /\ \A q \in Live(line) : q.to # p.to
  BY LoanOpens
<1>3. /\ local' \in [Names -> Int] /\ local'[p.to] = res
      /\ \A q \in Live(line) : local'[q.to] = local[q.to]
  <2>1. \A q \in Live(line) : q.to \in Names
    BY LoanTypes DEF Live
  <2> QED
    BY <1>1, <1>2, <2>1
<1>4. ASSUME NEW q \in Live(line'), NEW o \in Live(line'), q # o,
             local'[q.to] # NULL, local'[o.to] # NULL
      PROVE  local'[q.to] # local'[o.to]
  BY <1>2, <1>3, <1>4 DEF TestInv
<1>5. ASSUME NEW q \in Live(line'), MustServe(q)
      PROVE  local'[q.to] # NULL
  BY <1>2, <1>3, <1>5 DEF TestInv
<1> DEFINE rec(q) == [base |-> local'[q.to], n |-> q.n]
           After == {rec(q) : q \in {o \in Live(line') : local'[o.to] # NULL}}
<1>6. held' = After
  <2>1. Given(line) = {rec(q) : q \in {o \in Live(line) : local'[o.to] # NULL}}
    BY <1>3 DEF Given
  <2>2. CASE res = NULL
    <3>1. {o \in Live(line') : local'[o.to] # NULL} = {o \in Live(line) : local'[o.to] # NULL}
      BY <1>2, <1>3, <2>2
    <3> QED
      BY <2>1, <2>2, <3>1
  <2>3. CASE res # NULL
    <3>1. {o \in Live(line') : local'[o.to] # NULL} = {o \in Live(line) : local'[o.to] # NULL} \cup {p}
      BY <1>2, <1>3, <2>3
    <3>2. rec(p) = [base |-> res, n |-> p.n]
      BY <1>3
    <3> HIDE DEF rec
    <3> QED
      BY <2>1, <2>3, <3>1, <3>2
  <2> QED
    BY <2>2, <2>3
<1>7. After = Given(line)'
  BY DEF Given, NULL
<1> HIDE DEF After
<1>8. (held = Given(line))'
  BY <1>6, <1>7
<1> QED
  BY <1>3, <1>4, <1>5, <1>8 DEF TestInv, NULL, MustServe, Live, Loans, Names, Loan, Half

\* Giving back what was borrowed: the caller holds what the loans that go on
\* were given.
LEMMA LoanReturned ==
  ASSUME TestInv, line \in Nat, held = Given(line),
         NEW p \in Loans, p.until = line
  PROVE  IF local[p.to] = NULL THEN Given(line + 1) = held
         ELSE Given(line + 1) = held \ {[base |-> local[p.to], n |-> p.n]}
<1>1. p \in Live(line) /\ Live(line + 1) = Live(line) \ {p}
  BY LoanCloses
<1> DEFINE rec(q) == [base |-> local[q.to], n |-> q.n]
           Some(l) == {q \in Live(l) : local[q.to] # NULL}
<1>2. Given(line) = {rec(q) : q \in Some(line)} /\ Given(line + 1) = {rec(q) : q \in Some(line + 1)}
  BY DEF Given
<1>3. Some(line + 1) = Some(line) \ {p}
  BY <1>1
<1>4. CASE local[p.to] = NULL
  BY <1>2, <1>3, <1>4
<1>5. CASE local[p.to] # NULL
  <2>1. p \in Some(line)
    BY <1>1, <1>5
  <2>2. \A q \in Some(line) : q # p => rec(q) # rec(p)
    <3> SUFFICES ASSUME NEW q \in Some(line), q # p PROVE rec(q) # rec(p)
      OBVIOUS
    <3>1. local[q.to] # local[p.to]
      BY <1>1, <1>5 DEF TestInv
    <3>2. rec(q).base = local[q.to] /\ rec(p).base = local[p.to]
      OBVIOUS
    <3> QED
      BY <3>1, <3>2
  <2> HIDE DEF rec, Some
  <2>3. Given(line + 1) = Given(line) \ {rec(p)}
    BY <1>2, <1>3, <2>1, <2>2
  <2> QED
    BY <1>5, <2>3 DEF rec
<1> QED
  BY <1>4, <1>5

\* The order that serves each size the tests ask for.
LEMMA SizesOfTests ==
  ASSUME MAX_ORDER >= 2
  PROVE  /\ {0, 1, 2, MAX_ORDER - 1} \subseteq Orders
         /\ BlockSize[0] = 1 /\ BlockSize[1] = 2 /\ BlockSize[2] = 4
         /\ IsOrderFor(1, 0) /\ IsOrderFor(2, 1) /\ IsOrderFor(3, 2) /\ IsOrderFor(4, 2)
         /\ IsOrderFor(Half, MAX_ORDER - 1)
         /\ Half \in Nat
         /\ size_to_order(1) = 0 /\ size_to_order(2) = 1
         /\ size_to_order(3) = 2 /\ size_to_order(4) = 2
         /\ size_to_order(Half) = MAX_ORDER - 1
<1>1. {0, 1, 2, MAX_ORDER - 1} \subseteq Orders
  BY OrderAssumption DEF Orders
<1>2. BlockSize[0] = 1 /\ BlockSize[1] = 2 /\ BlockSize[2] = 4
  <2>1. BlockSize[0] = 1 /\ BlockSize[0 + 1] = 2 * BlockSize[0] /\ BlockSize[1 + 1] = 2 * BlockSize[1]
    BY <1>1, SizeAssumption
  <2> QED
    BY <2>1
<1>3. IsOrderFor(1, 0) /\ IsOrderFor(2, 1) /\ IsOrderFor(3, 2) /\ IsOrderFor(4, 2)
  <2>1. \A j \in 0..(0 - 1) : FALSE
    OBVIOUS
  <2>2. \A j \in 0..(1 - 1) : j = 0
    OBVIOUS
  <2>3. \A j \in 0..(2 - 1) : j = 0 \/ j = 1
    OBVIOUS
  <2> QED
    BY <1>2, <2>1, <2>2, <2>3 DEF IsOrderFor
<1>4. IsOrderFor(Half, MAX_ORDER - 1) /\ Half \in Nat
  <2> DEFINE k == MAX_ORDER - 1
  <2>1. k \in Orders /\ k - 1 \in Orders /\ k \in Nat /\ (k - 1) + 1 = k /\ k <= MAX_ORDER
    BY OrderAssumption DEF Orders
  <2> HIDE DEF k
  <2>2. BlockSize[k] = 2 * BlockSize[k - 1] /\ BlockSize[k - 1] \in Nat \ {0}
    BY <2>1, BlockSizes
  <2>3. ASSUME NEW j \in 0..(k - 1) PROVE BlockSize[j] < BlockSize[k]
    <3>1. j \in Orders /\ j <= k - 1
      BY <2>1, OrderAssumption DEF Orders
    <3>2. BlockSize[j] <= BlockSize[k - 1] /\ BlockSize[j] \in Nat
      BY <2>1, <3>1, SizesGrow, BlockSizes
    <3> QED
      BY <2>2, <3>2
  <2>4. BlockSize[k] <= BlockSize[k] /\ BlockSize[k] \in Nat
    BY <2>2
  <2>5. IsOrderFor(BlockSize[k], k)
    BY <2>3, <2>4 DEF IsOrderFor
  <2> QED
    BY <2>4, <2>5 DEF Half, k
<1>5. /\ size_to_order(1) = 0 /\ size_to_order(2) = 1
      /\ size_to_order(3) = 2 /\ size_to_order(4) = 2
      /\ size_to_order(Half) = MAX_ORDER - 1
  BY <1>1, <1>3, <1>4, OrderUnique
<1> QED
  BY <1>1, <1>2, <1>3, <1>4, <1>5

\* A set of at most two, three, four.
LEMMA FewElements ==
  ASSUME NEW x, NEW y, NEW z
  PROVE  /\ IsFiniteSet({}) /\ Cardinality({}) <= 0
         /\ IsFiniteSet({x}) /\ Cardinality({x}) <= 1
         /\ IsFiniteSet({x, y}) /\ Cardinality({x, y}) <= 2
         /\ IsFiniteSet({x, y, z}) /\ Cardinality({x, y, z}) <= 3
<1>1. IsFiniteSet({}) /\ Cardinality({}) = 0
  BY FS_EmptySet
<1>2. IsFiniteSet({x}) /\ Cardinality({x}) = 1
  BY FS_Singleton
<1>3. IsFiniteSet({x, y}) /\ Cardinality({x, y}) <= 2
  <2>1. {x, y} = {x} \cup {y}
    OBVIOUS
  <2> QED
    BY <1>2, <2>1, FS_AddElement
<1>4. IsFiniteSet({x, y, z}) /\ Cardinality({x, y, z}) <= 3
  <2>1. {x, y, z} = {x, y} \cup {z}
    OBVIOUS
  <2>2. Cardinality({x, y}) \in Nat
    BY <1>3, FS_CardinalityType
  <2> QED
    BY <1>3, <2>1, <2>2, FS_AddElement
<1> QED
  BY <1>1, <1>2, <1>3, <1>4

\* When a request that must succeed is made, loans are few and none is larger.
LEMMA LiveWhenAsked ==
  ASSUME MAX_ORDER >= 2, NEW p \in Loans, MustServe(p)
  PROVE  \E k \in Orders : \E m \in Nat :
           /\ m * BlockSize[k] <= 8
           /\ IsOrderFor(p.n, k)
           /\ IsFiniteSet(Live(p.at)) /\ Cardinality(Live(p.at)) < m
           /\ \A q \in Live(p.at) : size_to_order(q.n) <= k
<1>1. /\ BlockSize[0] = 1 /\ BlockSize[1] = 2 /\ BlockSize[2] = 4
      /\ IsOrderFor(1, 0) /\ IsOrderFor(2, 1) /\ IsOrderFor(3, 2) /\ IsOrderFor(4, 2)
      /\ size_to_order(1) = 0 /\ size_to_order(2) = 1
      /\ 0 \in Orders /\ 1 \in Orders /\ 2 \in Orders
  BY SizesOfTests
<1>2. ASSUME NEW k \in Orders, NEW m \in Nat, m * BlockSize[k] <= 8, IsOrderFor(p.n, k),
             NEW S, IsFiniteSet(S), Cardinality(S) < m, Live(p.at) \subseteq S,
             \A q \in Live(p.at) : size_to_order(q.n) <= k
      PROVE  \E j \in Orders : \E l \in Nat :
               /\ l * BlockSize[j] <= 8
               /\ IsOrderFor(p.n, j)
               /\ IsFiniteSet(Live(p.at)) /\ Cardinality(Live(p.at)) < l
               /\ \A q \in Live(p.at) : size_to_order(q.n) <= j
  <2>1. IsFiniteSet(Live(p.at)) /\ Cardinality(Live(p.at)) <= Cardinality(S)
    BY <1>2, FS_Subset
  <2>2. Cardinality(Live(p.at)) \in Nat /\ Cardinality(S) \in Nat
    BY <1>2, <2>1, FS_CardinalityType
  <2>3. Cardinality(Live(p.at)) < m
    BY <1>2, <2>1, <2>2
  <2> QED
    BY <1>2, <2>1, <2>3
<1>3. CASE p.n = 1
  <2> DEFINE S == {Loan("a", 1, 2, 8), Loan("b", 1, 3, 7)}
  <2>1. Live(p.at) \subseteq S /\ \A q \in Live(p.at) : q.n = 1
    BY <1>3 DEF Loans, Loan, Live
  <2>2. IsFiniteSet(S) /\ Cardinality(S) < 3
    <3>1. IsFiniteSet(S) /\ Cardinality(S) <= 2
      BY FewElements
    <3>2. Cardinality(S) \in Nat
      BY <3>1, FS_CardinalityType
    <3> QED
      BY <3>1, <3>2
  <2> HIDE DEF S
  <2> QED
    BY <1>1, <1>2, <1>3, <2>1, <2>2
<1>4. CASE p.n = 2
  <2> DEFINE S == {Loan("a", 2, 25, 33), Loan("b", 2, 26, 31), Loan("c", 2, 27, 32)}
  <2>1. Live(p.at) \subseteq S /\ \A q \in Live(p.at) : q.n = 2
    BY <1>4 DEF Loans, Loan, Live, MustServe
  <2>2. IsFiniteSet(S) /\ Cardinality(S) < 4
    <3>1. IsFiniteSet(S) /\ Cardinality(S) <= 3
      BY FewElements
    <3>2. Cardinality(S) \in Nat
      BY <3>1, FS_CardinalityType
    <3> QED
      BY <3>1, <3>2
  <2> HIDE DEF S
  <2> QED
    BY <1>1, <1>2, <1>4, <2>1, <2>2
<1>5. CASE p.n \in {3, 4}
  <2> DEFINE S == {Loan("a", 2, 11, 15)}
  <2>1. Live(p.at) \subseteq S /\ \A q \in Live(p.at) : q.n = 2
    BY <1>5 DEF Loans, Loan, Live, MustServe
  <2>2. IsFiniteSet(S) /\ Cardinality(S) < 2
    <3>1. IsFiniteSet(S) /\ Cardinality(S) <= 1
      BY FewElements
    <3>2. Cardinality(S) \in Nat
      BY <3>1, FS_CardinalityType
    <3> QED
      BY <3>1, <3>2
  <2> HIDE DEF S
  <2> QED
    BY <1>1, <1>2, <1>5, <2>1, <2>2
<1>6. p.n \in {1, 2, 3, 4}
  BY DEF Loans, Loan, MustServe
<1> QED
  BY <1>3, <1>4, <1>5, <1>6

\* No more blocks are held than loans run.
LEMMA GivenCount ==
  ASSUME NEW l, IsFiniteSet(Live(l))
  PROVE  IsFiniteSet(Given(l)) /\ Cardinality(Given(l)) <= Cardinality(Live(l))
<1> DEFINE S == {q \in Live(l) : local[q.to] # NULL}
           f == [q \in S |-> [base |-> local[q.to], n |-> q.n]]
<1>1. f \in Surjection(S, Given(l))
  <2>1. Given(l) = {f[q] : q \in S}
    BY DEF Given
  <2> HIDE DEF S
  <2>2. DOMAIN f = S /\ f = [q \in S |-> f[q]]
    OBVIOUS
  <2> HIDE DEF f
  <2> QED
    BY <2>1, <2>2 DEF Surjection
<1>2. IsFiniteSet(S) /\ Cardinality(S) <= Cardinality(Live(l))
  BY FS_Subset
<1> HIDE DEF f, S
<1>3. IsFiniteSet(Given(l)) /\ Cardinality(Given(l)) <= Cardinality(S)
  BY <1>1, <1>2, FS_Surjection
<1>4. Cardinality(S) \in Nat /\ Cardinality(Given(l)) \in Nat /\ Cardinality(Live(l)) \in Nat
  BY <1>2, <1>3, FS_CardinalityType
<1> QED
  BY <1>2, <1>3, <1>4

\* What the check needs of the memory: that it starts at a multiple of the
\* largest block, has no two such blocks that could be joined, and has eight pages.
CheckableRegion == AlignedRegion /\ NoPairAtCap /\ MAX_ORDER >= 2 /\ RegionPages >= 8

\* The requests whose results the check asserts not to be NULL are served.
LEMMA RequestServed ==
  ASSUME CheckableRegion, IInv, ApartInv, Complete, pc = "alloc",
         NEW p \in Loans, p.at = line, arg = p.n, held = Given(line), MustServe(p)
  PROVE  ~AllocNull
<1>1. PICK k \in Orders, m \in Nat :
         /\ m * BlockSize[k] <= 8
         /\ IsOrderFor(p.n, k)
         /\ IsFiniteSet(Live(p.at)) /\ Cardinality(Live(p.at)) < m
         /\ \A q \in Live(p.at) : size_to_order(q.n) <= k
  BY LiveWhenAsked DEF CheckableRegion
<1>2. \A a \in held : size_to_order(a.n) <= k
  BY <1>1 DEF Given
<1>3. IsFiniteSet(held) /\ Cardinality(held) < m
  <2>1. IsFiniteSet(held) /\ Cardinality(held) <= Cardinality(Live(line))
    BY <1>1, GivenCount
  <2>2. Cardinality(held) \in Nat /\ Cardinality(Live(line)) \in Nat
    BY <1>1, <2>1, FS_CardinalityType
  <2> QED
    BY <1>1, <2>1, <2>2
<1>4. m * BlockSize[k] <= RegionPages
  <2>1. m * BlockSize[k] \in Nat
    BY BlockSizes
  <2> QED
    BY <1>1, <2>1, RegionAssumption DEF CheckableRegion
<1>5. PICK i : Aligned(i, k) /\ Pages(i, k) \subseteq FreePages
  BY <1>2, <1>3, <1>4, SomeBlockFree DEF CheckableRegion
<1>6. arg # 0 /\ IsOrderFor(arg, k)
  BY <1>1, LoanTypes
<1> QED
  BY <1>5, <1>6, FreeBlockServes

\* Between calls nr_free is short of the region by the pages held.
LEMMA HeldCount ==
  ASSUME IInv, Complete, pc = "idle"
  PROVE  IsFiniteSet(HeldPages) /\ nr_free = RegionPages - Cardinality(HeldPages)
<1>1. ListInv /\ HeldInv /\ CallInv
  BY PartsOfInvariant
<1>2. HandPages = {} /\ FreePages \cup HeldPages = Region /\ FreePages \cap HeldPages = {}
  BY <1>1 DEF HandPages, Complete, KnownPages, CallInv
<1>3. IsFiniteSet(FreePages) /\ IsFiniteSet(HeldPages)
  BY <1>2, CountBound
<1>4. Cardinality(Region) = Cardinality(FreePages) + Cardinality(HeldPages) - Cardinality({})
  BY <1>2, <1>3, FS_Union
<1>5. nr_free = Cardinality(FreePages) /\ Cardinality({}) = 0 /\ Cardinality(Region) = RegionPages
  BY <1>1, FS_EmptySet, RegionFinite DEF ListInv, FreeCount
<1>6. Cardinality(FreePages) \in Nat /\ Cardinality(HeldPages) \in Nat
  BY <1>3, FS_CardinalityType
<1> QED
  BY <1>3, <1>4, <1>5, <1>6

\* A block held counts for its size, beside what others hold.
LEMMA HeldAdds ==
  ASSUME IInv, NEW S \in SUBSET held, NEW a \in held, a \notin S,
         IsFiniteSet(UNION {Span(HeldBlock(c)) : c \in S})
  PROVE  LET P(H) == UNION {Span(HeldBlock(c)) : c \in H}
         IN  /\ IsFiniteSet(P(S \cup {a}))
             /\ Cardinality(P(S \cup {a})) = Cardinality(P(S)) + BlockSize[size_to_order(a.n)]
<1> DEFINE P(H) == UNION {Span(HeldBlock(c)) : c \in H}
<1>1. HeldInv
  BY PartsOfInvariant
<1>2. /\ a.base \in Region /\ size_to_order(a.n) \in Orders
      /\ HeldBlock(a) = Block(a.base, size_to_order(a.n))
  BY <1>1, HeldBlockOf
<1>3. IsFiniteSet(Span(HeldBlock(a))) /\ Cardinality(Span(HeldBlock(a))) = BlockSize[size_to_order(a.n)]
  BY <1>2, SpanSize
<1>4. P(S) \cap Span(HeldBlock(a)) = {} /\ P(S \cup {a}) = P(S) \cup Span(HeldBlock(a))
  BY <1>1 DEF HeldInv
<1> HIDE DEF P
<1>5. IsFiniteSet(P(S))
  BY DEF P
<1>6. /\ IsFiniteSet(P(S \cup {a}))
      /\ Cardinality(P(S \cup {a})) = Cardinality(P(S)) + Cardinality(Span(HeldBlock(a))) - Cardinality({})
  BY <1>3, <1>4, <1>5, FS_Union
<1>7. Cardinality({}) = 0 /\ Cardinality(P(S)) \in Nat /\ Cardinality(Span(HeldBlock(a))) \in Nat
  BY <1>3, <1>5, FS_EmptySet, FS_CardinalityType
<1> QED
  BY <1>3, <1>6, <1>7 DEF P

\* The loans that run where the tests count pages.
LEMMA LiveWhenCounted ==
  /\ Live(1) = {} /\ Live(10) = {} /\ Live(17) = {}
  /\ Live(6) = {Loan("a", 1, 2, 8), Loan("b", 1, 3, 7), Loan("c", 1, 4, 9)}
  /\ Live(14) = {Loan("a", 2, 11, 15), Loan("b", 4, 12, 16)}
  /\ Live(20) = {Loan("a", 3, 18, 21)}
  /\ Live(23) = {Loan("d", Half, 22, 24)}
BY DEF Live, Loans, Loan

\* How many pages are held, when one, two or three blocks are.
LEMMA HeldSum ==
  ASSUME IInv, NEW a, NEW b, NEW c
  PROVE  LET size(x) == BlockSize[size_to_order(x.n)]
         IN  /\ held = {} => Cardinality(HeldPages) = 0
             /\ held = {a} => Cardinality(HeldPages) = size(a)
             /\ held = {a, b} /\ a # b => Cardinality(HeldPages) = size(a) + size(b)
             /\ held = {a, b, c} /\ a # b /\ a # c /\ b # c =>
                  Cardinality(HeldPages) = size(a) + size(b) + size(c)
<1> DEFINE P(H) == UNION {Span(HeldBlock(x)) : x \in H}
           size(x) == BlockSize[size_to_order(x.n)]
<1>1. HeldPages = P(held)
  BY DEF HeldPages
<1>2. ASSUME NEW S \in SUBSET held, NEW x \in held, x \notin S, IsFiniteSet(P(S))
      PROVE  IsFiniteSet(P(S \cup {x})) /\ Cardinality(P(S \cup {x})) = Cardinality(P(S)) + size(x)
  BY <1>2, HeldAdds
<1>3. ASSUME NEW x \in held PROVE size(x) \in Nat
  BY PartsOfInvariant, HeldBlockOf, BlockSizes
<1>4. IsFiniteSet(P({})) /\ Cardinality(P({})) = 0
  <2>1. P({}) = {}
    OBVIOUS
  <2> QED
    BY <2>1, FS_EmptySet
<1>5. {a} = {} \cup {a} /\ {a, b} = {a} \cup {b} /\ {a, b, c} = {a, b} \cup {c}
  OBVIOUS
<1> HIDE DEF P, size
<1>6. ASSUME a \in held
      PROVE  IsFiniteSet(P({a})) /\ Cardinality(P({a})) = size(a)
  <2>1. {} \in SUBSET held /\ a \notin {}
    OBVIOUS
  <2>2. IsFiniteSet(P({} \cup {a})) /\ Cardinality(P({} \cup {a})) = 0 + size(a)
    BY <1>2, <1>4, <1>6, <2>1
  <2> QED
    BY <1>3, <1>5, <1>6, <2>2
<1>7. ASSUME a \in held, b \in held, a # b
      PROVE  IsFiniteSet(P({a, b})) /\ Cardinality(P({a, b})) = size(a) + size(b)
  <2>1. {a} \in SUBSET held /\ b \notin {a}
    BY <1>7
  <2>2. IsFiniteSet(P({a} \cup {b})) /\ Cardinality(P({a} \cup {b})) = Cardinality(P({a})) + size(b)
    BY <1>2, <1>6, <1>7, <2>1
  <2> QED
    BY <1>5, <1>6, <1>7, <2>2
<1>8. ASSUME a \in held, b \in held, c \in held, a # b, a # c, b # c
      PROVE  Cardinality(P({a, b, c})) = size(a) + size(b) + size(c)
  <2>1. {a, b} \in SUBSET held /\ c \notin {a, b}
    BY <1>8
  <2>2. Cardinality(P({a, b} \cup {c})) = Cardinality(P({a, b})) + size(c)
    BY <1>2, <1>7, <1>8, <2>1
  <2> QED
    BY <1>5, <1>7, <1>8, <2>2
<1>9. held = {} => Cardinality(HeldPages) = 0
  BY <1>1, <1>4
<1>10. held = {a} => Cardinality(HeldPages) = size(a)
  BY <1>1, <1>6
<1>11. held = {a, b} /\ a # b => Cardinality(HeldPages) = size(a) + size(b)
  BY <1>1, <1>7
<1>12. held = {a, b, c} /\ a # b /\ a # c /\ b # c =>
         Cardinality(HeldPages) = size(a) + size(b) + size(c)
  BY <1>1, <1>8
<1> QED
  BY <1>9, <1>10, <1>11, <1>12 DEF size

\* What the tests assert of nr_free_pages is so.
LEMMA CountsHold ==
  ASSUME CheckableRegion, IInv, Complete, TestInv, pc = "idle", initial_free = RegionPages
  PROVE  /\ line \in {10, 17} => nr_free = initial_free
         /\ line = 6 => nr_free = initial_free - 3
         /\ line = 14 => nr_free = initial_free - 6
         /\ line = 20 => nr_free <= initial_free - 4
         /\ line = 23 /\ local["d"] # NULL => nr_free <= initial_free - Half
<1>1. held = Given(line) /\ nr_free = RegionPages - Cardinality(HeldPages) /\ RegionPages \in Int
  BY HeldCount, RegionAssumption DEF TestInv
<1> DEFINE rec(x, n) == [base |-> local[x], n |-> n]
<1>2. \A x, n : rec(x, n).base = local[x] /\ rec(x, n).n = n
  OBVIOUS
<1>3. /\ BlockSize[0] = 1 /\ BlockSize[1] = 2 /\ BlockSize[2] = 4
      /\ size_to_order(1) = 0 /\ size_to_order(2) = 1
      /\ size_to_order(3) = 2 /\ size_to_order(4) = 2
      /\ size_to_order(Half) = MAX_ORDER - 1 /\ Half \in Nat
  BY SizesOfTests DEF CheckableRegion
<1>4. \A p \in Live(line) : MustServe(p) => local[p.to] # NULL
  BY DEF TestInv
<1>5. \A p, q \in Live(line) :
        p # q /\ local[p.to] # NULL /\ local[q.to] # NULL => local[p.to] # local[q.to]
  BY DEF TestInv
<1>6. CASE line \in {10, 17}
  <2>1. held = {}
    BY <1>1, <1>6, LiveWhenCounted DEF Given
  <2>2. HeldPages = {}
    BY <2>1 DEF HeldPages
  <2>3. Cardinality(HeldPages) = 0
    BY <2>2, FS_EmptySet
  <2> QED
    BY <1>1, <1>6, <2>3
<1>7. CASE line = 6
  <2> DEFINE p == Loan("a", 1, 2, 8)
             q == Loan("b", 1, 3, 7)
             o == Loan("c", 1, 4, 9)
             x == rec("a", 1)
             y == rec("b", 1)
             z == rec("c", 1)
  <2>1. /\ p.to = "a" /\ p.n = 1 /\ p.at = 2
        /\ q.to = "b" /\ q.n = 1 /\ q.at = 3
        /\ o.to = "c" /\ o.n = 1 /\ o.at = 4
    BY DEF Loan
  <2>2. Live(line) = {p, q, o}
    BY <1>7, LiveWhenCounted
  <2> HIDE DEF p, q, o
  <2>3. local["a"] # NULL /\ local["b"] # NULL /\ local["c"] # NULL
    BY <1>4, <2>1, <2>2 DEF MustServe
  <2>4. p # q /\ p # o /\ q # o
    BY <2>1
  <2>5. local["a"] # local["b"] /\ local["a"] # local["c"] /\ local["b"] # local["c"]
    BY <1>5, <2>1, <2>2, <2>3, <2>4
  <2>6. held = {x, y, z}
    BY <1>1, <2>1, <2>2, <2>3 DEF Given
  <2>7. x # y /\ x # z /\ y # z /\ x.n = 1 /\ y.n = 1 /\ z.n = 1
    BY <1>2, <2>5
  <2> HIDE DEF x, y, z
  <2>8. Cardinality(HeldPages) = BlockSize[size_to_order(x.n)] + BlockSize[size_to_order(y.n)]
                                 + BlockSize[size_to_order(z.n)]
    BY <2>6, <2>7, HeldSum
  <2>9. Cardinality(HeldPages) = 3
    BY <1>3, <2>7, <2>8
  <2> QED
    BY <1>1, <1>7, <2>9
<1>8. CASE line = 14
  <2> DEFINE p == Loan("a", 2, 11, 15)
             q == Loan("b", 4, 12, 16)
             x == rec("a", 2)
             y == rec("b", 4)
  <2>1. p.to = "a" /\ p.n = 2 /\ p.at = 11 /\ q.to = "b" /\ q.n = 4 /\ q.at = 12
    BY DEF Loan
  <2>2. Live(line) = {p, q}
    BY <1>8, LiveWhenCounted
  <2> HIDE DEF p, q
  <2>3. local["a"] # NULL /\ local["b"] # NULL
    BY <1>4, <2>1, <2>2 DEF MustServe
  <2>4. held = {x, y}
    BY <1>1, <2>1, <2>2, <2>3 DEF Given
  <2>5. x # y /\ x.n = 2 /\ y.n = 4
    <3>1. x.n = 2 /\ y.n = 4
      OBVIOUS
    <3> QED
      BY <3>1
  <2> HIDE DEF x, y
  <2>7. Cardinality(HeldPages) = BlockSize[size_to_order(x.n)] + BlockSize[size_to_order(y.n)]
    BY <2>4, <2>5, HeldSum
  <2>8. Cardinality(HeldPages) = 6
    BY <1>3, <2>5, <2>7
  <2> QED
    BY <1>1, <1>8, <2>8
<1>9. CASE line = 20
  <2> DEFINE p == Loan("a", 3, 18, 21)
             x == rec("a", 3)
  <2>1. p.to = "a" /\ p.n = 3 /\ p.at = 18
    BY DEF Loan
  <2>2. Live(line) = {p}
    BY <1>9, LiveWhenCounted
  <2> HIDE DEF p
  <2>3. local["a"] # NULL
    BY <1>4, <2>1, <2>2 DEF MustServe
  <2>4. held = {x}
    BY <1>1, <2>1, <2>2, <2>3 DEF Given
  <2>5. x.n = 3
    OBVIOUS
  <2> HIDE DEF x
  <2>6. Cardinality(HeldPages) = BlockSize[size_to_order(x.n)]
    BY <2>4, HeldSum
  <2>7. Cardinality(HeldPages) = 4
    BY <1>3, <2>5, <2>6
  <2> QED
    BY <1>1, <1>9, <2>7
<1>10. CASE line = 23 /\ local["d"] # NULL
  <2> DEFINE p == Loan("d", Half, 22, 24)
             x == rec("d", Half)
  <2>1. p.to = "d" /\ p.n = Half
    BY DEF Loan
  <2>2. Live(line) = {p}
    BY <1>10, LiveWhenCounted
  <2> HIDE DEF p
  <2>3. held = {x}
    BY <1>1, <1>10, <2>1, <2>2 DEF Given
  <2>4. x.n = Half
    OBVIOUS
  <2> HIDE DEF x
  <2>5. Cardinality(HeldPages) = BlockSize[size_to_order(x.n)]
    BY <2>3, HeldSum
  <2>6. Cardinality(HeldPages) = Half
    BY <1>3, <2>4, <2>5 DEF Half
  <2> QED
    BY <1>1, <1>3, <1>10, <2>6
<1> QED
  BY <1>6, <1>7, <1>8, <1>9, <1>10

\* Where the tests assert that results are not NULL.
LEMMA LiveWhenNotNull ==
  /\ \A x \in {"a", "b", "c"} : \E p \in Live(5) : p.to = x /\ MustServe(p)
  /\ \A x \in {"a", "b"} : \E p \in Live(13) : p.to = x /\ MustServe(p)
  /\ \A x \in {"a"} : \E p \in Live(19) : p.to = x /\ MustServe(p)
  /\ \A x \in {"a", "b", "c", "d"} : \E p \in Live(29) : p.to = x /\ MustServe(p)
<1>1. /\ {Loan("a", 1, 2, 8), Loan("b", 1, 3, 7), Loan("c", 1, 4, 9)} \subseteq Live(5)
      /\ {Loan("a", 2, 11, 15), Loan("b", 4, 12, 16)} \subseteq Live(13)
      /\ Loan("a", 3, 18, 21) \in Live(19)
      /\ {Loan("a", 2, 25, 33), Loan("b", 2, 26, 31), Loan("c", 2, 27, 32),
          Loan("d", 2, 28, 30)} \subseteq Live(29)
  BY DEF Live, Loans, Loan
<1>2. \A x, n, i, j : Loan(x, n, i, j).to = x /\ (i \notin {22, 34} => MustServe(Loan(x, n, i, j)))
  BY DEF Loan, MustServe
<1>3. \A x \in {"a", "b", "c"} : \E p \in Live(5) : p.to = x /\ MustServe(p)
  BY <1>1, <1>2
<1>4. \A x \in {"a", "b"} : \E p \in Live(13) : p.to = x /\ MustServe(p)
  BY <1>1, <1>2
<1>5. \A x \in {"a"} : \E p \in Live(19) : p.to = x /\ MustServe(p)
  BY <1>1, <1>2
<1>6. \A x \in {"a", "b", "c", "d"} : \E p \in Live(29) : p.to = x /\ MustServe(p)
  BY <1>1, <1>2
<1> QED
  BY <1>3, <1>4, <1>5, <1>6

\* No assertion of the tests fails.
LEMMA AssertionsHold ==
  ASSUME CheckableRegion, IInv, Complete, CheckInv, Look
  PROVE  line <= NTests /\ ~is_panic'
<1>1. line \in Nat \ {0} /\ ~Booted /\ pc = "idle"
      /\ Statement.do \in {"not null", "used", "used at least"}
  BY DEF Look, Executing, CheckInv
<1>2. line <= NTests
  <2> SUFFICES ASSUME ~(line <= NTests) PROVE FALSE
    OBVIOUS
  <2>1. Len(buddy_check) \in Nat
    BY CheckStatements
  <2>2. line \in 1..Len(buddy_check) /\ line > NTests
    <3>1. ~(line > Len(buddy_check))
      BY <1>1 DEF Booted
    <3>2. line \in Nat \ {0}
      BY <1>1
    <3> QED
      BY <2>1, <3>1, <3>2 DEF NTests
  <2>3. buddy_check[line].do \in {"fill", "drain"}
    BY <2>2, CheckStatements
  <2> QED
    BY <1>1, <2>3 DEF Statement
<1>3. TestInv /\ line \in 1..NTests /\ Statement = Tests[line]
  BY <1>1, <1>2, TestStatement DEF CheckInv
<1>4. line # 1
  <2>1. Tests[1].do = "count"
    BY DEF Tests, buddy_deterministic_tests, Count
  <2> QED
    BY <1>1, <1>3, <2>1
<1>5. initial_free = RegionPages
  BY <1>3, <1>4 DEF CheckInv
<1>6. /\ line \in {10, 17} => nr_free = initial_free
      /\ line = 6 => nr_free = initial_free - 3
      /\ line = 14 => nr_free = initial_free - 6
      /\ line = 20 => nr_free <= initial_free - 4
      /\ line = 23 /\ local["d"] # NULL => nr_free <= initial_free - Half
  BY <1>1, <1>3, <1>5, CountsHold
<1>7. \A p \in Live(line) : MustServe(p) => local[p.to] # NULL
  BY <1>3 DEF TestInv
<1>8. ~ \E p \in Loans : p.at = line \/ p.until = line
  <2> SUFFICES ASSUME NEW p \in Loans, p.at = line \/ p.until = line PROVE FALSE
    OBVIOUS
  <2>1. Tests[line] = Alloc(p.to, p.n) \/ Tests[line] = Free(p.to, p.n)
    BY LoanTypes
  <2>2. Tests[line].do \in {"alloc", "free"}
    BY <2>1 DEF Alloc, Free
  <2> QED
    BY <1>1, <1>3, <2>2
<1> DEFINE Holds ==
      /\ Statement.do = "not null" => \A x \in Statement.of : local[x] # NULL
      /\ Statement.do = "used" => nr_free = initial_free - Statement.n
      /\ Statement.do = "used at least" =>
           (local[Statement.at] # NULL => nr_free <= initial_free - Statement.n)
<1>9. ASSUME NEW S, Tests[line] = NotNull(S), \A x \in S : \E p \in Live(line) : p.to = x /\ MustServe(p)
      PROVE  Holds
  <2>1. Statement.do = "not null" /\ Statement.of = S
    <3>1. NotNull(S).do = "not null" /\ NotNull(S).of = S
      BY DEF NotNull
    <3> QED
      BY <1>3, <1>9, <3>1
  <2> QED
    BY <1>7, <1>9, <2>1
<1>10. ASSUME NEW n, Tests[line] = Used(n), nr_free = initial_free - n
       PROVE  Holds
  <2>1. Statement.do = "used" /\ Statement.n = n
    BY <1>3, <1>10 DEF Used
  <2> QED
    BY <1>10, <2>1
<1>11. ASSUME NEW x, NEW n, Tests[line] = UsedAtLeast(x, n),
              local[x] # NULL => nr_free <= initial_free - n
       PROVE  Holds
  <2>1. Statement.do = "used at least" /\ Statement.at = x /\ Statement.n = n
    <3>1. /\ UsedAtLeast(x, n).do = "used at least"
          /\ UsedAtLeast(x, n).at = x /\ UsedAtLeast(x, n).n = n
      BY DEF UsedAtLeast
    <3> QED
      BY <1>3, <1>11, <3>1
  <2> QED
    BY <1>11, <2>1
<1> HIDE DEF Holds
<1>12. Holds
  <2>1. CASE line \in {10, 17} /\ Tests[line] = Used(0)
    <3>1. nr_free = initial_free - 0
      BY <1>5, <1>6, <2>1, RegionAssumption
    <3> QED
      BY <1>10, <2>1, <3>1
  <2>2. CASE \/ line = 6 /\ Tests[line] = Used(3)
             \/ line = 14 /\ Tests[line] = Used(6)
    BY <1>6, <1>10, <2>2
  <2>3. CASE \/ line = 20 /\ Tests[line] = UsedAtLeast("a", 4)
             \/ line = 23 /\ Tests[line] = UsedAtLeast("d", Half)
    BY <1>6, <1>11, <2>3
  <2>4. CASE \/ line = 5 /\ Tests[line] = NotNull({"a", "b", "c"})
             \/ line = 13 /\ Tests[line] = NotNull({"a", "b"})
             \/ line = 19 /\ Tests[line] = NotNull({"a"})
             \/ line = 29 /\ Tests[line] = NotNull({"a", "b", "c", "d"})
    BY <1>9, <2>4, LiveWhenNotNull
  <2> QED
    BY <1>3, <1>4, <1>8, <2>1, <2>2, <2>3, <2>4, TestStatements
<1> QED
  BY <1>2, <1>12 DEF Look, Executing, Assertion, Holds

-----------------------------------------------------------------------------
(* Each step of the check keeps the invariant.                             *)

\* Only Look can panic, and only CountFree changes what is compared with.
LEMMA CheckFrame ==
  ASSUME [CheckNext]_allVars, line \in Nat \ {0}
  PROVE  /\ line' \in {line, line + 1}
         /\ ~Look => is_panic' = is_panic
         /\ ~CountFree => initial_free' = initial_free
<1>1. CASE Carve
  BY <1>1 DEF Carve, checkVars
<1>2. CASE CallAlloc
  BY <1>2 DEF CallAlloc, checkVars
<1>3. CASE CallFree
  BY <1>3 DEF CallFree, Goto
<1>4. CASE CallFill
  BY <1>4 DEF CallFill, checkVars
<1>5. CASE CallDrain
  BY <1>5 DEF CallDrain, Goto
<1>6. CASE CallStep
  BY <1>6 DEF CallStep, Goto
<1>7. CASE CountFree
  BY <1>7 DEF CountFree, Goto
<1>8. CASE Look
  BY <1>8 DEF Look, Assertion
<1>9. CASE BootedStep
  BY <1>9 DEF BootedStep, checkVars
<1>10. CASE UNCHANGED allVars
  BY <1>10 DEF allVars, checkVars
<1> QED
  BY <1>1, <1>2, <1>3, <1>4, <1>5, <1>6, <1>7, <1>8, <1>9, <1>10 DEF CheckNext, CheckStep

\* A step within a statement.
LEMMA StatementGoesOn ==
  ASSUME TestInv, UNCHANGED <<line, local>>,
         pc' \in {"carve", "idle"} => held' = Given(line),
         pc' \in {"alloc", "split"} =>
           \E p \in Loans : p.at = line /\ arg' = p.n /\ held' = Given(line),
         pc' = "merge" => \E p \in Loans : p.until = line /\ held' = Given(line + 1)
  PROVE  TestInv'
<1>1. Given(line)' = Given(line) /\ Given(line + 1)' = Given(line + 1)
  BY DEF Given, NULL
<1>2. /\ local' \in [Names -> Int]
      /\ \A p, q \in Live(line') :
           p # q /\ local'[p.to] # NULL /\ local'[q.to] # NULL => local'[p.to] # local'[q.to]
      /\ \A p \in Live(line') : MustServe(p) => local'[p.to] # NULL
  BY DEF TestInv
<1>3. (pc \in {"carve", "idle"} => held = Given(line))'
  BY <1>1
<1>4. (pc \in {"alloc", "split"} => \E p \in Loans : p.at = line /\ arg = p.n /\ held = Given(line))'
  BY <1>1 DEF Loans, Loan, Half
<1>5. (pc = "merge" => \E p \in Loans : p.until = line /\ held = Given(line + 1))'
  BY <1>1 DEF Loans, Loan, Half
<1>6. (\A p, q \in Live(line) :
          p # q /\ local[p.to] # NULL /\ local[q.to] # NULL => local[p.to] # local[q.to])'
  BY <1>2 DEF NULL, Live, Loans, Loan, Half
<1>7. (\A p \in Live(line) : MustServe(p) => local[p.to] # NULL)'
  BY <1>2 DEF NULL, Live, Loans, Loan, Half, MustServe
<1>8. (local \in [Names -> Int])'
  BY <1>2 DEF Names
<1> QED
  BY <1>3, <1>4, <1>5, <1>6, <1>7, <1>8 DEF TestInv

\* A step to the next statement that borrows nothing.
LEMMA StatementEnds ==
  ASSUME TestInv, local' = local, line' = line + 1, pc' = "idle",
         held' = Given(line + 1), Live(line + 1) \subseteq Live(line)
  PROVE  TestInv'
<1>1. Given(line)' = Given(line + 1)
  BY DEF Given, NULL
<1>2. /\ local' \in [Names -> Int]
      /\ \A p, q \in Live(line') :
           p # q /\ local'[p.to] # NULL /\ local'[q.to] # NULL => local'[p.to] # local'[q.to]
      /\ \A p \in Live(line') : MustServe(p) => local'[p.to] # NULL
  BY DEF TestInv
<1>3. (held = Given(line))'
  BY <1>1
<1>4. (\A p, q \in Live(line) :
          p # q /\ local[p.to] # NULL /\ local[q.to] # NULL => local[p.to] # local[q.to])'
  BY <1>2 DEF NULL, Live, Loans, Loan, Half
<1>5. (\A p \in Live(line) : MustServe(p) => local[p.to] # NULL)'
  BY <1>2 DEF NULL, Live, Loans, Loan, Half, MustServe
<1>6. (local \in [Names -> Int])'
  BY <1>2 DEF Names
<1>7. (pc \in {"carve", "idle"} => held = Given(line))'
  BY <1>3
<1>8. (pc \in {"alloc", "split"} => \E p \in Loans : p.at = line /\ arg = p.n /\ held = Given(line))'
  OBVIOUS
<1>9. (pc = "merge" => \E p \in Loans : p.until = line /\ held = Given(line + 1))'
  OBVIOUS
<1> QED
  BY <1>4, <1>5, <1>6, <1>7, <1>8, <1>9 DEF TestInv

\* free(x, n): the loan that closes leaves what callers hold.
LEMMA CallFreeTest ==
  ASSUME TestInv, line \in Nat \ {0}, line <= NTests, CallFree
  PROVE  TestInv'
<1>1. pc = "idle" /\ Statement.do = "free" /\ held = Given(line) /\ local' = local
  BY DEF CallFree, Executing, TestInv
<1>2. PICK p \in Loans : p.until = line /\ Statement = Free(p.to, p.n)
  BY <1>1, TestStatement
<1>3. Statement.at = p.to /\ Statement.n = p.n
  BY <1>2 DEF Free
<1>4. IF local[p.to] = NULL THEN Given(line + 1) = held
      ELSE Given(line + 1) = held \ {[base |-> local[p.to], n |-> p.n]}
  BY <1>1, <1>2, LoanReturned
<1>5. CASE local[p.to] = NULL
  <2>1. line' = line + 1 /\ pc' = "idle" /\ held' = held
    BY <1>1, <1>3, <1>5 DEF CallFree, Goto, vars
  <2>2. Live(line + 1) \subseteq Live(line)
    BY <1>2, LoanCloses
  <2> QED
    BY <1>1, <1>4, <1>5, <2>1, <2>2, StatementEnds
<1>6. CASE local[p.to] # NULL
  <2>1. free_pages([base |-> local[p.to], n |-> p.n]) /\ line' = line
    BY <1>3, <1>6 DEF CallFree
  <2>2. pc' = "merge" /\ held' = held \ {[base |-> local[p.to], n |-> p.n]}
    BY <2>1 DEF free_pages
  <2> QED
    BY <1>1, <1>2, <1>4, <1>6, <2>1, <2>2, StatementGoesOn
<1> QED
  BY <1>5, <1>6

\* A call goes on, or its result is stored.
LEMMA CallStepTest ==
  ASSUME CheckableRegion, IInv, ApartInv, Complete,
         TestInv, line \in Nat \ {0}, line <= NTests, CallStep
  PROVE  TestInv'
<1>1. CASE AllocNull \/ AllocReturn
  <2>1. /\ pc \in {"alloc", "split"} /\ pc' = "idle"
        /\ AllocNull => pc = "alloc" /\ held' = held
        /\ AllocReturn => pc = "split" /\ held' = held \cup {[base |-> blk, n |-> arg]}
    BY <1>1 DEF AllocNull, AllocReturn, ReturnToCaller
  <2>2. PICK p \in Loans : p.at = line /\ arg = p.n /\ held = Given(line)
    BY <2>1 DEF TestInv
  <2>3. Statement = Alloc(p.to, p.n)
    BY <2>2, TestStatement, LoanTypes
  <2>4. Statement.do = "alloc" /\ Statement.to = p.to
    BY <2>3 DEF Alloc
  <2>5. local' = [local EXCEPT ![p.to] = Result.base] /\ line' = line + 1
    BY <2>1, <2>4 DEF CallStep, Goto
  <2>6. CASE AllocNull
    <3>1. Result.base = NULL
      BY <2>1, <2>6 DEF Result
    <3>2. ~MustServe(p)
      BY <2>1, <2>2, <2>6, RequestServed
    <3>3. local' = [local EXCEPT ![p.to] = NULL] /\ NULL \in Int
      BY <2>5, <3>1 DEF NULL
    <3>4. line \in Nat /\ line' = line + 1 /\ pc' = "idle" /\ held' = held
      BY <2>1, <2>5, <2>6
    <3> QED
      BY <2>2, <3>2, <3>3, <3>4, ResultStored
  <2>7. CASE AllocReturn
    <3>1. Result.base = blk
      BY <2>1, <2>7 DEF Result
    <3>2. /\ ListInv /\ HeldInv /\ CallInv
      BY PartsOfInvariant
    <3>3. blk \in HandPages /\ blk \in Nat
      <4>1. HandPages = blk .. (blk + BlockSize[ord] - 1) /\ ord \in Orders /\ blk \in Region
        BY <2>7, <3>2, AllocReturnInv
      <4> QED
        BY <4>1, BlockSizes, RegionFinite
    <3>4. ASSUME NEW q \in Live(line), local[q.to] # NULL
          PROVE  local[q.to] # blk
      <4>1. [base |-> local[q.to], n |-> q.n] \in held
        BY <2>2, <3>4 DEF Given
      <4>2. local[q.to] \in HeldPages
        BY <4>1, HeldAlignedBlock DEF HeldPages
      <4> QED
        BY <3>2, <3>3, <4>2 DEF CallInv
    <3>5. blk # NULL
      BY <3>3 DEF NULL
    <3>6. local' = [local EXCEPT ![p.to] = blk] /\ blk \in Int
      BY <2>5, <3>1, <3>3
    <3>7. line \in Nat /\ line' = line + 1 /\ pc' = "idle"
      BY <2>1, <2>5
    <3>8. held' = held \cup {[base |-> blk, n |-> p.n]}
      BY <2>1, <2>2, <2>7
    <3> QED
      BY <2>2, <3>4, <3>5, <3>6, <3>7, <3>8, ResultStored
  <2> QED
    BY <1>1, <2>6, <2>7
<1>2. CASE AllocTake \/ SplitBlock \/ MergeBuddy
  <2>1. /\ held' = held /\ arg' = arg /\ pc' # "idle" /\ pc' # "carve"
        /\ pc' \in {"alloc", "split"} => pc \in {"alloc", "split"}
        /\ pc' = "merge" => pc = "merge"
    BY <1>2 DEF AllocTake, SplitBlock, MergeBuddy
  <2>2. UNCHANGED <<line, local>>
    BY <2>1 DEF CallStep
  <2> QED
    BY <2>1, <2>2, StatementGoesOn DEF TestInv
<1>3. CASE AddMerged \/ AddCapped
  <2>1. pc = "merge" /\ pc' = "idle" /\ held' = held
    BY <1>3 DEF AddMerged, AddCapped, ReturnToCaller
  <2>2. PICK p \in Loans : p.until = line /\ held = Given(line + 1)
    BY <2>1 DEF TestInv
  <2>3. Statement = Free(p.to, p.n)
    BY <2>2, TestStatement, LoanTypes
  <2>4. Statement.do = "free"
    BY <2>3 DEF Free
  <2>5. local' = local /\ line' = line + 1
    BY <2>1, <2>4 DEF CallStep, Goto
  <2>6. Live(line + 1) \subseteq Live(line)
    BY <2>2, LoanCloses
  <2> QED
    BY <2>1, <2>2, <2>5, <2>6, StatementEnds
<1>4. ~CarveBlock /\ ~CarveDone
  BY DEF CallStep, CarveBlock, CarveDone
<1> QED
  BY <1>1, <1>2, <1>3, <1>4 DEF CallStep, RunningCall

-----------------------------------------------------------------------------
(* The check is one of the callers.                                        *)

\* The sizes it asks for are sizes callers ask for.
LEMMA StatementSizes ==
  ASSUME line \in Nat \ {0}
  PROVE  /\ Executing("alloc") => Statement.n \in Requests
         /\ Executing("fill") => Statement.sizes \subseteq Requests
<1>1. ASSUME ~Booted, line > NTests
      PROVE  \/ Statement.do = "fill" /\ Statement.sizes \subseteq Requests
             \/ Statement.do = "drain"
  <2>1. line \in 1..Len(buddy_check)
    BY <1>1, CheckStatements DEF Booted
  <2> QED
    BY <1>1, <2>1, CheckStatements DEF Statement
<1>2. ASSUME line <= NTests, Statement.do = "alloc"
      PROVE  Statement.n \in Requests
  <2>1. PICK p \in Loans : Statement = Alloc(p.to, p.n)
    BY <1>2, TestStatement
  <2>2. p.n \in {1, 2, 3, 4, 8, Half}
    BY DEF Loans, Loan
  <2>3. Statement.n = p.n
    BY <2>1 DEF Alloc
  <2> QED
    BY <2>2, <2>3, CheckAssumption
<1>3. line <= NTests => Statement.do # "fill"
  BY TestStatement
<1>4. line <= NTests \/ line > NTests
  BY DEF NTests
<1> QED
  BY <1>1, <1>2, <1>3, <1>4 DEF Executing

\* A step of the check is a step of a caller, or none of the buddy system's.
LEMMA CheckStepIsCall ==
  ASSUME line \in Nat \ {0}, [CheckNext]_allVars
  PROVE  [Next]_vars
<1>1. CASE Carve
  BY <1>1 DEF Carve, Next, RunningCall
<1>2. CASE CallAlloc
  BY <1>2, StatementSizes DEF CallAlloc, Next
<1>3. CASE CallFree
  <2>1. UNCHANGED vars \/ \E a \in held : free_pages(a)
    BY <1>3 DEF CallFree, free_pages
  <2> QED
    BY <2>1 DEF Next
<1>4. CASE CallFill
  BY <1>4, StatementSizes DEF CallFill, Next
<1>5. CASE CallDrain
  <2>1. UNCHANGED vars \/ \E a \in held : free_pages(a)
    BY <1>5 DEF CallDrain, free_pages
  <2> QED
    BY <2>1 DEF Next
<1>6. CASE CallStep
  BY <1>6 DEF CallStep, Next
<1>7. CASE CountFree
  BY <1>7 DEF CountFree
<1>8. CASE Look
  BY <1>8 DEF Look
<1>9. CASE BootedStep
  BY <1>9 DEF BootedStep
<1>10. CASE UNCHANGED allVars
  BY <1>10 DEF allVars
<1> QED
  BY <1>1, <1>2, <1>3, <1>4, <1>5, <1>6, <1>7, <1>8, <1>9, <1>10 DEF CheckNext, CheckStep

\* Booting with the check is one way to use the buddy system, for every number
\* and size of the randomized requests (pmm_init, buddy_check): what holds
\* whatever callers do holds of the boot.
THEOREM CheckIsCaller == CheckSpec => Spec
<1>1. CheckInit => Init /\ line \in Nat \ {0}
  BY DEF CheckInit
<1>2. line \in Nat \ {0} /\ [CheckNext]_allVars => (line \in Nat \ {0})'
  BY CheckFrame
<1>3. line \in Nat \ {0} /\ [CheckNext]_allVars => [Next]_vars
  BY CheckStepIsCall
<1> QED
  BY <1>1, <1>2, <1>3, PTL DEF CheckSpec, Spec

-----------------------------------------------------------------------------
(* The check passes.                                                       *)

\* A statement of the tests that borrows nothing and gives nothing back.
LEMMA OtherStatement ==
  ASSUME line \in Nat \ {0}, line <= NTests, Statement.do \notin {"alloc", "free"}
  PROVE  Live(line + 1) = Live(line)
<1>1. ASSUME NEW p \in Loans
      PROVE  p.at # line /\ p.until # line
  <2>1. p.at = line => Statement = Alloc(p.to, p.n)
    BY TestStatement, LoanTypes
  <2>2. p.until = line => Statement = Free(p.to, p.n)
    BY TestStatement, LoanTypes
  <2>3. Alloc(p.to, p.n).do = "alloc" /\ Free(p.to, p.n).do = "free"
    BY DEF Alloc, Free
  <2> QED
    BY <2>1, <2>2, <2>3
<1> QED
  BY <1>1, LoansGoOn

\* A step within the tests.
LEMMA TestStep ==
  ASSUME CheckableRegion, IInv, ApartInv, Complete, CheckInv, line <= NTests,
         [CheckNext]_allVars
  PROVE  TestInv' \/ line' > NTests
<1>1. TestInv /\ line \in Nat \ {0}
  BY DEF CheckInv
<1>2. ~Booted /\ Statement.do \notin {"fill", "drain"}
  BY <1>1, TestStatement
<1>3. CASE Carve
  <2>1. UNCHANGED <<line, local>> /\ held' = held /\ pc = "carve" /\ pc' \in {"carve", "idle"}
    BY <1>3 DEF Carve, CarveBlock, CarveDone, ReturnToCaller, checkVars
  <2>2. held = Given(line)
    BY <1>1, <2>1 DEF TestInv
  <2> QED
    BY <1>1, <2>1, <2>2, StatementGoesOn
<1>4. CASE CallAlloc
  <2>1. /\ UNCHANGED <<line, local>> /\ held' = held /\ pc = "idle" /\ pc' = "alloc"
        /\ arg' = Statement.n /\ Statement.do = "alloc"
    BY <1>4 DEF CallAlloc, Executing, alloc_pages, checkVars
  <2>2. held = Given(line)
    BY <1>1, <2>1 DEF TestInv
  <2>3. PICK p \in Loans : p.at = line /\ Statement = Alloc(p.to, p.n)
    BY <1>1, <2>1, TestStatement
  <2>4. Statement.n = p.n
    BY <2>3 DEF Alloc
  <2> QED
    BY <1>1, <2>1, <2>2, <2>3, <2>4, StatementGoesOn
<1>5. CASE CallFree
  BY <1>1, <1>5, CallFreeTest
<1>6. CASE CallStep
  BY <1>1, <1>6, CallStepTest
<1>7. CASE CountFree \/ Look
  <2>1. /\ UNCHANGED <<held, local, pc>> /\ line' = line + 1 /\ pc = "idle"
        /\ Statement.do \notin {"alloc", "free"}
    BY <1>7 DEF CountFree, Look, Executing, Goto, Assertion, vars
  <2>2. Live(line + 1) = Live(line)
    BY <1>1, <2>1, OtherStatement
  <2>3. Given(line + 1) = Given(line) /\ held = Given(line)
    BY <1>1, <2>1, <2>2 DEF Given, TestInv
  <2> QED
    BY <1>1, <2>1, <2>2, <2>3, StatementEnds
<1>8. CASE UNCHANGED allVars
  <2>1. UNCHANGED <<line, local, pc, arg, held>>
    BY <1>8 DEF allVars, vars, checkVars
  <2> QED
    BY <1>1, <2>1, StatementGoesOn DEF TestInv
<1>9. ~CallFill /\ ~CallDrain /\ ~BootedStep
  BY <1>2 DEF CallFill, CallDrain, BootedStep, Executing
<1> QED
  BY <1>3, <1>4, <1>5, <1>6, <1>7, <1>8, <1>9 DEF CheckNext, CheckStep

\* The pages are counted before the tests begin, when all of them are free.
LEMMA CountedOnce ==
  ASSUME IInv, Complete, CheckInv, CountFree
  PROVE  initial_free' = RegionPages
<1>1. line \in Nat \ {0} /\ Statement.do = "count" /\ ~Booted /\ pc = "idle" /\ initial_free' = nr_free
  BY DEF CheckInv, CountFree, Executing
<1>2. line <= NTests
  <2> SUFFICES ASSUME line > NTests PROVE FALSE
    BY <1>1 DEF NTests
  <2>1. line \in 1..Len(buddy_check)
    BY <1>1, CheckStatements DEF Booted
  <2> QED
    BY <1>1, <2>1, CheckStatements DEF Statement
<1>3. line = 1
  <2>1. line \in 1..NTests /\ Statement = Tests[line]
    BY <1>1, <1>2, TestStatement
  <2>2. Tests[line].do = "count"
    BY <1>1, <2>1
  <2>3. \A p \in Loans : p.at # line /\ p.until # line
    <3> TAKE p \in Loans
    <3>1. Alloc(p.to, p.n).do = "alloc" /\ Free(p.to, p.n).do = "free"
      BY DEF Alloc, Free
    <3> QED
      BY <2>2, <3>1, LoanTypes
  <2>4. \A n : Used(n).do = "used"
    BY DEF Used
  <2>5. \A x : NotNull(x).do = "not null"
    BY DEF NotNull
  <2>6. \A x, n : UsedAtLeast(x, n).do = "used at least"
    BY DEF UsedAtLeast
  <2>7. \/ line = 1
        \/ \E n : Tests[line] = Used(n)
        \/ \E x : Tests[line] = NotNull(x)
        \/ \E x, n : Tests[line] = UsedAtLeast(x, n)
    BY <2>1, <2>3, TestStatements
  <2> QED
    BY <2>2, <2>4, <2>5, <2>6, <2>7
<1>4. held = {}
  <2>1. Live(1) = {}
    BY LoanTypes DEF Live, NTests
  <2>2. TestInv
    BY <1>2 DEF CheckInv
  <2> QED
    BY <1>1, <1>3, <2>1, <2>2 DEF TestInv, Given
<1>5. HeldPages = {}
  BY <1>4 DEF HeldPages
<1> QED
  BY <1>1, <1>5, HeldCount, FS_EmptySet, RegionAssumption

\* The first statement is the one that counts the pages.
LEMMA FirstStatement ==
  ASSUME line = 1, line' = 2, CheckInv, [CheckNext]_allVars
  PROVE  CountFree
<1>1. ~Booted /\ Statement = Tests[1]
  BY TestStatement DEF NTests
<1>2. Tests[1].do = "count"
  <2>1. Tests[1] = Count
    BY DEF buddy_deterministic_tests, Tests
  <2> QED
    BY <2>1 DEF Count
<1>3. TestInv /\ ~is_panic
  BY DEF CheckInv, NTests
<1>4. ~Carve /\ ~CallAlloc /\ ~CallFill /\ ~BootedStep /\ ~UNCHANGED allVars
  BY <1>1 DEF Carve, CallAlloc, CallFill, BootedStep, checkVars, allVars
<1>5. ~CallFree /\ ~CallDrain /\ ~Look
  BY <1>1, <1>2 DEF CallFree, CallDrain, Look, Executing
<1>6. ~CallStep
  <2> SUFFICES ASSUME CallStep PROVE FALSE
    OBVIOUS
  <2>1. pc' = "idle" => Statement.do \in {"alloc", "fill", "free"}
    BY <1>1, <1>2 DEF CallStep
  <2>2. pc' # "idle"
    BY <1>1, <1>2, <2>1
  <2> QED
    BY <2>2 DEF CallStep
<1> QED
  BY <1>4, <1>5, <1>6 DEF CheckNext, CheckStep

\* Every step keeps what the check relies on.
LEMMA CheckStepInv ==
  ASSUME CheckableRegion, IInv, ApartInv, Complete, CheckInv, [CheckNext]_allVars
  PROVE  CheckInv'
<1>1. line \in Nat \ {0} /\ ~is_panic
  BY DEF CheckInv
<1>2. line' \in Nat \ {0}
  BY <1>1, CheckFrame
<1>3. ~is_panic'
  <2>1. CASE Look
    BY <2>1, AssertionsHold
  <2>2. CASE ~Look
    BY <1>1, <2>2, CheckFrame
  <2> QED
    BY <2>1, <2>2
<1>4. line' > 1 => initial_free' = RegionPages
  <2>1. CASE CountFree
    BY <2>1, CountedOnce
  <2>2. CASE ~CountFree
    <3>1. initial_free' = initial_free
      BY <1>1, <2>2, CheckFrame
    <3>2. line > 1 => initial_free = RegionPages
      BY DEF CheckInv
    <3>3. line' > 1 => line > 1 \/ (line = 1 /\ line' = 2)
      BY <1>1, CheckFrame
    <3>4. ~(line = 1 /\ line' = 2)
      BY <1>1, <2>2, FirstStatement
    <3> QED
      BY <3>1, <3>2, <3>3, <3>4
  <2> QED
    BY <2>1, <2>2
<1>5. line' <= NTests => TestInv'
  <2>1. line' <= NTests => line <= NTests
    BY <1>1, CheckFrame DEF NTests
  <2>2. ~(line' > NTests /\ line' <= NTests)
    BY <1>2 DEF NTests
  <2> QED
    BY <2>1, <2>2, TestStep
<1> QED
  BY <1>2, <1>3, <1>4, <1>5 DEF CheckInv, NTests

\* When buddy_check begins, nothing was asked for.
LEMMA CheckInitInv ==
  ASSUME CheckInit
  PROVE  CheckInv
<1>1. /\ line = 1 /\ ~is_panic /\ held = {} /\ pc = "carve"
      /\ local = [x \in Names |-> NULL]
  BY DEF CheckInit, Init
<1>2. Live(line) = {}
  BY <1>1, LoanTypes DEF Live, NTests
<1>3. local \in [Names -> Int]
  BY <1>1 DEF NULL
<1>4. Given(line) = {}
  BY <1>2 DEF Given
<1>5. TestInv
  BY <1>1, <1>2, <1>3, <1>4 DEF TestInv
<1> QED
  BY <1>1, <1>5 DEF CheckInv

\* No assertion of buddy_check fails, for every MAX_ORDER from 2 up, every
\* aligned region of eight pages or more that holds no two joinable blocks of
\* the largest order, and every number and size of the randomized requests
\* ("assert(nr_free_pages() == initial_free)", buddy_pmm.c:197 and 206): what
\* the callers hold at each statement is what its loans were given.
THEOREM BuddyCheckPasses ==
  ASSUME CheckableRegion
  PROVE  CheckSpec => []CheckPasses
<1>1. CheckInit => CheckInv /\ ApartInv /\ Complete
  BY CheckInitInv, InitApart, InitInv DEF CheckableRegion, CheckInit, Complete, KnownPages
<1>2. CheckInv => line \in Nat \ {0} /\ CheckPasses
  BY DEF CheckInv, CheckPasses
<1>3. line \in Nat \ {0} /\ [CheckNext]_allVars => [Next]_vars
  BY CheckStepIsCall
<1>4. IInv /\ ApartInv /\ Complete /\ [Next]_vars => ApartInv' /\ Complete'
  BY NextApart, CompleteWithoutCap DEF CheckableRegion
<1>5. IInv /\ ApartInv /\ Complete /\ CheckInv /\ [CheckNext]_allVars => CheckInv'
  BY CheckStepInv
<1> QED
  BY <1>1, <1>2, <1>3, <1>4, <1>5, CheckIsCaller, Invariance, PTL DEF CheckSpec

\* The boot leaves the free lists coalesced, whatever buddy_check did: in an
\* aligned region at every step, and once the pages are back in the very
\* blocks of buddy_init_memmap where no two largest blocks can be joined
\* (buddy_free_pages, buddy_pmm.c:233).
THEOREM CheckLeavesWhole ==
  ASSUME AlignedRegion, NoPairAtCap
  PROVE  CheckSpec => [](EagerCoalescing /\ CoalesceBack) /\ ImplementsAllocator
  BY CheckIsCaller, CoalescedEagerly, CoalescesBack, StrictRefinementAligned, PTL
=============================================================================
