----------------------------- MODULE SlubProofs -----------------------------
(***************************************************************************)
(* Proofs about the object allocator of kern/mm/slub.c, for every size of  *)
(* page and header, number of classes, and set of requests.                *)
(***************************************************************************)
EXTENDS Slub, TLAPS, FiniteSetTheorems, SequenceTheorems, Numbers

-----------------------------------------------------------------------------
(* The classes, and where slab_page_init puts their objects.               *)

LEMMA ConstantTypes ==
  /\ SLUB_NCACHE \in Nat \ {0}
  /\ \A i \in Classes : i \in Nat /\ ObjSize[i] \in Nat \ {0}
  /\ SLUB_NCACHE - 1 \in Classes
  /\ PGSIZE \in Nat \ {0} /\ MaxSize \in Nat \ {0} /\ PGSIZE = MaxSize
  /\ HeaderSize \in Nat \ {0} /\ HeaderSize <= PGSIZE
  /\ \A pg \in Region : pg \in Nat
BY ClassAssumption, PageAssumption DEF Classes, MaxSize

\* The size of each class divides the size of a page.
LEMMA ClassDivides ==
  ASSUME NEW i \in Classes
  PROVE  \E m \in Nat : PGSIZE = m * ObjSize[i]
<1> DEFINE last == SLUB_NCACHE - 1
           Divides(k) == \E m \in Nat : PGSIZE = m * ObjSize[k]
           T == {d \in Nat : d <= last /\ ~Divides(last - d)}
<1>1. SUFFICES ASSUME ~Divides(i) PROVE FALSE
  OBVIOUS
<1>2. last - i \in T
  <2>1. i \in 0..last /\ last \in Nat
    BY ConstantTypes DEF Classes
  <2>2. last - i \in Nat /\ last - i <= last /\ last - (last - i) = i
    BY <2>1
  <2> QED
    BY <1>1, <2>2
<1>3. PICK d \in T : \A e \in T : d <= e
  <2>1. T \in SUBSET Nat /\ T # {}
    BY <1>2
  <2> HIDE DEF T
  <2> QED
    BY <2>1, LeastNatural
<1>4. d # 0
  <2>1. PGSIZE = 1 * ObjSize[last - 0]
    BY ConstantTypes DEF MaxSize
  <2> QED
    BY <1>3, <2>1
<1>5. d - 1 \in Nat /\ d - 1 <= last /\ d - 1 \notin T
  BY <1>3, <1>4, ConstantTypes
<1>6. PICK m \in Nat : PGSIZE = m * ObjSize[last - (d - 1)]
  BY <1>5
<1>7. ObjSize[last - (d - 1)] = 2 * ObjSize[last - d] /\ ObjSize[last - d] \in Nat
  <2>1. last - (d - 1) \in 1..last /\ last - (d - 1) - 1 = last - d /\ last - d \in 0..last
    BY <1>3, <1>4, ConstantTypes
  <2> QED
    BY <2>1, ClassAssumption DEF Classes
<1>8. PGSIZE = (m * 2) * ObjSize[last - d] /\ m * 2 \in Nat
  BY <1>6, <1>7
<1> QED
  BY <1>3, <1>8

\* size_to_index finds a class whose objects are large enough.
LEMMA IndexFound ==
  ASSUME NEW size \in 1..MaxSize
  PROVE  size_to_index(size) \in Classes /\ size <= ObjSize[size_to_index(size)]
<1> DEFINE T == {i \in Classes : size <= ObjSize[i]}
           IsIndex(i) == /\ \A j \in 0..(i - 1) : ObjSize[j] < size
                         /\ i = SLUB_NCACHE - 1 \/ size <= ObjSize[i]
<1>1. SLUB_NCACHE - 1 \in T
  BY ConstantTypes DEF MaxSize
<1>2. PICK i \in T : \A j \in T : i <= j
  <2>1. T \in SUBSET Nat /\ T # {}
    BY <1>1 DEF Classes
  <2> HIDE DEF T
  <2> QED
    BY <2>1, LeastNatural
<1>3. IsIndex(i)
  <2> SUFFICES ASSUME NEW j \in 0..(i - 1) PROVE ObjSize[j] < size
    BY <1>2
  <2>1. j \in Classes /\ j < i /\ ObjSize[j] \in Nat
    BY <1>2, ConstantTypes DEF Classes
  <2> QED
    BY <1>2, <2>1
<1>4. \E k \in Classes : IsIndex(k)
  BY <1>2, <1>3
<1>5. size_to_index(size) \in Classes /\ IsIndex(size_to_index(size))
  <2> HIDE DEF IsIndex
  <2>1. size_to_index(size) = CHOOSE k \in Classes : IsIndex(k)
    BY DEF size_to_index, IsIndex
  <2> QED
    BY <1>4, <2>1
<1> QED
  BY <1>5, ConstantTypes DEF MaxSize

\* The objects begin behind the header, at a multiple of their size, and end
\* inside the page although their number does not count the padding.
LEMMA Layout ==
  ASSUME NEW pg \in Nat, NEW i \in Classes
  PROVE  /\ ObjPerPage(i) \in Nat
         /\ FirstObject(pg, i) \in Nat
         /\ pg * PGSIZE + HeaderSize <= FirstObject(pg, i)
         /\ FirstObject(pg, i) + ObjPerPage(i) * ObjSize[i] <= (pg + 1) * PGSIZE
         /\ \E q \in Nat : FirstObject(pg, i) = q * ObjSize[i]
<1> DEFINE o == ObjSize[i]
           a == pg * PGSIZE + HeaderSize + o - 1
           q == a \div o
           n == ObjPerPage(i)
<1>1. o \in Nat \ {0} /\ pg * PGSIZE \in Nat /\ (pg + 1) * PGSIZE = pg * PGSIZE + PGSIZE
  BY ConstantTypes
<1>2. a \in Nat /\ PGSIZE - HeaderSize \in Nat
  BY <1>1, ConstantTypes
<1>3. n \in Nat /\ n * o <= PGSIZE - HeaderSize
  BY <1>1, <1>2, DivBounds DEF ObjPerPage
<1>4. q \in Nat /\ q * o <= a /\ a < (q + 1) * o
  BY <1>1, <1>2, DivBounds
<1>5. FirstObject(pg, i) = q * o
  BY DEF FirstObject
<1>6. PICK m \in Nat : PGSIZE = m * o
  BY ClassDivides
<1> HIDE DEF q, n, o
<1>7. q * o \in Nat /\ n * o \in Nat /\ (q + 1) * o = q * o + o /\ (q + n) * o = q * o + n * o
  BY <1>1, <1>3, <1>4
<1>8. (q + n) * o < ((pg + 1) * m + 1) * o
  <2>1. ((pg + 1) * m + 1) * o = (pg + 1) * PGSIZE + o
    BY <1>1, <1>6
  <2> QED
    BY <1>1, <1>2, <1>3, <1>4, <1>7, <2>1, ConstantTypes
<1>9. q + n <= (pg + 1) * m
  BY <1>1, <1>3, <1>4, <1>6, <1>8, TimesBelow, q + n \in Int, (pg + 1) * m \in Int
<1>10. (q + n) * o <= ((pg + 1) * m) * o
  BY <1>1, <1>3, <1>4, <1>6, <1>9, TimesMonotone, q + n \in Int, (pg + 1) * m \in Int
<1>11. ((pg + 1) * m) * o = (pg + 1) * PGSIZE
  BY <1>1, <1>6
<1>12. pg * PGSIZE + HeaderSize <= q * o
  BY <1>1, <1>4, <1>7, ConstantTypes
<1> QED
  BY <1>3, <1>4, <1>5, <1>7, <1>10, <1>11, <1>12 DEF n, o

\* What being an object of a slab says of an address.
LEMMA ObjectPlace ==
  ASSUME NEW pg \in Nat, NEW i \in Classes, NEW a, IsObject(pg, i, a)
  PROVE  /\ a \in Nat
         /\ pg * PGSIZE + HeaderSize <= a
         /\ a + ObjSize[i] <= (pg + 1) * PGSIZE
         /\ \E m \in Nat : a = m * ObjSize[i]
<1> DEFINE o == ObjSize[i]
           f == FirstObject(pg, i)
           n == ObjPerPage(i)
<1>1. PICK j \in 0..(n - 1) : a = f + j * o
  BY DEF IsObject
<1>2. PICK q \in Nat : f = q * o
  BY Layout
<1>3. /\ n \in Nat /\ f \in Nat /\ pg * PGSIZE + HeaderSize <= f
      /\ f + n * o <= (pg + 1) * PGSIZE
      /\ o \in Nat \ {0} /\ pg * PGSIZE \in Nat /\ (pg + 1) * PGSIZE \in Nat
  BY Layout, ConstantTypes
<1> HIDE DEF o, f, n
<1>4. j \in Nat /\ j + 1 \in Int /\ n \in Int /\ j + 1 <= n
  BY <1>1, <1>3
<1>5. (j + 1) * o <= n * o
  BY <1>3, <1>4, TimesMonotone
<1>6. (j + 1) * o = j * o + o /\ j * o \in Nat /\ n * o \in Nat
  BY <1>3, <1>4
<1>7. a = (q + j) * o /\ q + j \in Nat
  BY <1>1, <1>2, <1>3, <1>4
<1>8. a \in Nat /\ pg * PGSIZE + HeaderSize <= a /\ a + o <= (pg + 1) * PGSIZE
  BY <1>1, <1>3, <1>5, <1>6, ConstantTypes
<1> QED
  BY <1>7, <1>8 DEF o

LEMMA ObjectPage ==
  ASSUME NEW pg \in Nat, NEW i \in Classes, NEW a, IsObject(pg, i, a),
         NEW b \in Nat, a <= b, b < a + ObjSize[i]
  PROVE  PageOf(b) = pg
<1>1. /\ a \in Nat
      /\ pg * PGSIZE + HeaderSize <= a
      /\ a + ObjSize[i] <= (pg + 1) * PGSIZE
  BY ObjectPlace
<1>2. pg * PGSIZE <= b /\ b < (pg + 1) * PGSIZE
  BY <1>1, ConstantTypes, pg * PGSIZE \in Nat, (pg + 1) * PGSIZE \in Nat
<1> QED
  BY <1>2, DivUnique, ConstantTypes DEF PageOf

\* Two objects of a slab do not overlap.
LEMMA ObjectsSpaced ==
  ASSUME NEW pg \in Nat, NEW i \in Classes, NEW a, IsObject(pg, i, a),
         NEW b, IsObject(pg, i, b), a # b
  PROVE  a + ObjSize[i] <= b \/ b + ObjSize[i] <= a
<1> DEFINE o == ObjSize[i]
<1>1. PICK k \in Nat : a = k * o
  BY ObjectPlace
<1>2. PICK m \in Nat : b = m * o
  BY ObjectPlace
<1>3. o \in Nat \ {0}
  BY ConstantTypes
<1> HIDE DEF o
<1>4. k # m
  BY <1>1, <1>2
<1>5. CASE k < m
  <2>1. (k + 1) * o <= m * o
    BY <1>3, <1>5, TimesMonotone, k + 1 \in Int, k + 1 <= m
  <2>2. (k + 1) * o = k * o + o
    BY <1>3
  <2> QED
    BY <1>1, <1>2, <2>1, <2>2 DEF o
<1>6. CASE m < k
  <2>1. (m + 1) * o <= k * o
    BY <1>3, <1>6, TimesMonotone, m + 1 \in Int, m + 1 <= k
  <2>2. (m + 1) * o = m * o + o
    BY <1>3
  <2> QED
    BY <1>1, <1>2, <2>1, <2>2 DEF o
<1> QED
  BY <1>4, <1>5, <1>6

\* The free list of a new slab: all its objects, each once.
LEMMA NewSlab ==
  ASSUME NEW pg \in Nat, NEW i \in Classes
  PROVE  LET sl == NewSlabPage(pg, i)
             list == sl.free_list
         IN  /\ sl \in [free_list : Seq(Nat), used : Nat, obj_per_page : Nat,
                        cache_idx : Classes]
             /\ sl.obj_per_page = ObjPerPage(i) /\ sl.used = 0 /\ sl.cache_idx = i
             /\ Len(list) = ObjPerPage(i)
             /\ \A k \in 1..Len(list) : IsObject(pg, i, list[k])
             /\ \A k, m \in 1..Len(list) : list[k] = list[m] => k = m
<1> DEFINE o == ObjSize[i]
           f == FirstObject(pg, i)
           n == ObjPerPage(i)
           list == [k \in 1..n |-> f + (n - k) * o]
<1>1. n \in Nat /\ f \in Nat /\ o \in Nat \ {0}
  BY Layout, ConstantTypes
<1>2. NewSlabPage(pg, i) = [free_list |-> list, used |-> 0, obj_per_page |-> n, cache_idx |-> i]
  BY DEF NewSlabPage
<1> HIDE DEF o, f, n
<1>3. \A k \in 1..n : n - k \in 0..(n - 1) /\ f + (n - k) * o \in Nat
  BY <1>1
<1>4. list \in Seq(Nat) /\ Len(list) = n
  <2>1. list \in [1..n -> Nat]
    BY <1>3
  <2> HIDE DEF list
  <2> QED
    BY <1>1, <2>1, SeqDef, LenProperties
<1>5. ASSUME NEW k \in 1..n PROVE IsObject(pg, i, list[k])
  BY <1>3 DEF IsObject, o, f, n
<1>6. ASSUME NEW k \in 1..n, NEW m \in 1..n, list[k] = list[m] PROVE k = m
  <2>1. (n - k) * o = (n - m) * o
    <3>1. (n - k) * o \in Int /\ (n - m) * o \in Int
      BY <1>1
    <3> QED
      BY <1>1, <1>6, <3>1
  <2>2. n - k <= n - m /\ n - m <= n - k
    <3>1. /\ (n - k) * o < ((n - m) + 1) * o
          /\ (n - m) * o < ((n - k) + 1) * o
      <4>1. /\ ((n - m) + 1) * o = (n - m) * o + o
            /\ ((n - k) + 1) * o = (n - k) * o + o
            /\ (n - k) * o \in Int /\ (n - m) * o \in Int
        BY <1>1
      <4> QED
        BY <1>1, <2>1, <4>1
    <3>2. n - k \in Int /\ n - m \in Int
      BY <1>1
    <3> QED
      BY <1>1, <3>1, <3>2, TimesBelow
  <2> QED
    BY <1>1, <2>2
<1> QED
  BY <1>1, <1>2, <1>4, <1>5, <1>6 DEF n

-----------------------------------------------------------------------------
(* Pages and bytes.                                                        *)

\* A page number and the addresses in the page.
LEMMA PageBounds ==
  ASSUME NEW a \in Nat
  PROVE  /\ PageOf(a) \in Nat
         /\ PageOf(a) * PGSIZE \in Nat
         /\ PageOf(a) * PGSIZE <= a
         /\ a < PageOf(a) * PGSIZE + PGSIZE
<1>1. /\ PageOf(a) \in Nat
      /\ PageOf(a) * PGSIZE <= a
      /\ a < (PageOf(a) + 1) * PGSIZE
  BY DivBounds, ConstantTypes DEF PageOf
<1>2. (PageOf(a) + 1) * PGSIZE = PageOf(a) * PGSIZE + PGSIZE /\ PageOf(a) * PGSIZE \in Nat
  BY <1>1, ConstantTypes
<1> QED
  BY <1>1, <1>2

\* An address in a lower page is below the whole higher page.
LEMMA PageOrder ==
  ASSUME NEW a \in Nat, NEW q \in Nat, PageOf(a) < q
  PROVE  a < q * PGSIZE /\ q * PGSIZE \in Nat
<1>1. PageOf(a) \in Nat /\ a < PageOf(a) * PGSIZE + PGSIZE
  BY PageBounds
<1>2. (PageOf(a) + 1) * PGSIZE <= q * PGSIZE
  BY <1>1, TimesMonotone, ConstantTypes
<1>3. (PageOf(a) + 1) * PGSIZE = PageOf(a) * PGSIZE + PGSIZE
  BY <1>1, ConstantTypes
<1>4. PageOf(a) * PGSIZE \in Nat /\ q * PGSIZE \in Nat
  BY <1>1, ConstantTypes
<1> QED
  BY <1>1, <1>2, <1>3, <1>4, ConstantTypes

LEMMA PageMonotone ==
  ASSUME NEW a \in Nat, NEW b \in Nat, a <= b
  PROVE  PageOf(a) <= PageOf(b)
<1>1. SUFFICES ASSUME PageOf(b) < PageOf(a) PROVE FALSE
  BY PageBounds
<1>2. b < PageOf(a) * PGSIZE
  BY <1>1, PageBounds, PageOrder
<1> QED
  BY <1>2, PageBounds

\* Areas whose pages are apart are apart.
LEMMA PagesApart ==
  ASSUME NEW a \in Nat, NEW m \in Nat \ {0}, NEW b \in Nat, NEW n \in Nat \ {0},
         (PageOf(a) .. PageOf(a + m - 1)) \cap (PageOf(b) .. PageOf(b + n - 1)) = {}
  PROVE  Apart(a, m, b, n)
<1>1. a + m - 1 \in Nat /\ b + n - 1 \in Nat
  OBVIOUS
<1>2. /\ PageOf(a) \in Nat /\ PageOf(a + m - 1) \in Nat
      /\ PageOf(b) \in Nat /\ PageOf(b + n - 1) \in Nat
      /\ PageOf(a) <= PageOf(a + m - 1) /\ PageOf(b) <= PageOf(b + n - 1)
  BY <1>1, PageBounds, PageMonotone
<1>3. PageOf(a + m - 1) < PageOf(b) \/ PageOf(b + n - 1) < PageOf(a)
  <2>1. CASE PageOf(a) <= PageOf(b)
    <3>1. PageOf(b) \notin PageOf(a) .. PageOf(a + m - 1)
      BY <1>2
    <3> QED
      BY <1>2, <2>1, <3>1
  <2>2. CASE PageOf(b) <= PageOf(a)
    <3>1. PageOf(a) \notin PageOf(b) .. PageOf(b + n - 1)
      BY <1>2
    <3> QED
      BY <1>2, <2>2, <3>1
  <2> QED
    BY <1>2, <2>1, <2>2
<1>4. CASE PageOf(a + m - 1) < PageOf(b)
  <2>1. a + m - 1 < PageOf(b) * PGSIZE /\ PageOf(b) * PGSIZE <= b /\ PageOf(b) * PGSIZE \in Nat
    BY <1>1, <1>2, <1>4, PageOrder, PageBounds
  <2> QED
    BY <2>1 DEF Apart
<1>5. CASE PageOf(b + n - 1) < PageOf(a)
  <2>1. b + n - 1 < PageOf(a) * PGSIZE /\ PageOf(a) * PGSIZE <= a /\ PageOf(a) * PGSIZE \in Nat
    BY <1>1, <1>2, <1>5, PageOrder, PageBounds
  <2> QED
    BY <2>1 DEF Apart
<1> QED
  BY <1>3, <1>4, <1>5

-----------------------------------------------------------------------------
(* What the invariant says of the objects callers hold.                    *)

\* A caller's object in a slab is one of the slab's, alone in its page.
LEMMA SlabObject ==
  ASSUME IInv, NEW o \in live, PageOf(o.ptr) \in Slabs
  PROVE  LET pg == PageOf(o.ptr)
             i == slab[pg].cache_idx
         IN  /\ pg \in Nat /\ i \in Classes
             /\ IsObject(pg, i, o.ptr)
             /\ o.size \in 1..ObjSize[i]
             /\ size_to_index(o.size) = i
             /\ PagesOf(o) = {pg}
<1> DEFINE pg == PageOf(o.ptr)
           i == slab[pg].cache_idx
<1>1. o.ptr \in Nat /\ o.size \in Nat
  BY SizesAssumption DEF IInv, LiveInv
<1>2. SlabInv(pg) /\ o \in LiveIn(pg)
  BY DEF IInv, SlabsInv, LiveIn
<1>3. /\ i \in Classes
      /\ IsObject(pg, i, o.ptr)
      /\ o.size \in 1..ObjSize[i]
      /\ size_to_index(o.size) = i
  BY <1>2 DEF SlabInv
<1>4. pg \in Nat
  BY <1>1, PageBounds
<1>5. o.ptr + o.size - 1 \in Nat /\ o.ptr <= o.ptr + o.size - 1
      /\ o.ptr + o.size - 1 < o.ptr + ObjSize[i]
  BY <1>1, <1>3, ConstantTypes
<1>6. PageOf(o.ptr + o.size - 1) = pg
  <2> HIDE DEF pg, i
  <2> QED
    BY <1>3, <1>4, <1>5, ObjectPage
<1>7. PagesOf(o) = {pg}
  BY <1>4, <1>6 DEF PagesOf
<1> QED
  BY <1>3, <1>4, <1>7

\* What is true of every object a caller holds.
LEMMA LiveObject ==
  ASSUME IInv, NEW o \in live
  PROVE  /\ o.ptr \in Nat /\ o.size \in Nat \ {0}
         /\ PageOf(o.ptr) \in PagesOf(o)
         /\ PagesOf(o) \subseteq owned
         /\ PageOf(o.ptr) \notin Slabs => PagesOf(o) \cap Slabs = {}
<1>1. o.ptr \in Nat /\ o.size \in Nat \ {0}
  BY SizesAssumption DEF IInv, LiveInv
<1>2. PageOf(o.ptr) \in PagesOf(o)
  <2>1. o.ptr + o.size - 1 \in Nat /\ o.ptr <= o.ptr + o.size - 1
    BY <1>1
  <2>2. /\ PageOf(o.ptr) \in Nat /\ PageOf(o.ptr + o.size - 1) \in Nat
        /\ PageOf(o.ptr) <= PageOf(o.ptr + o.size - 1)
    BY <1>1, <2>1, PageBounds, PageMonotone
  <2> QED
    BY <2>2 DEF PagesOf
<1>3. CASE PageOf(o.ptr) \in Slabs
  BY <1>1, <1>2, <1>3, SlabObject DEF IInv, PagesInv
<1>4. CASE PageOf(o.ptr) \notin Slabs
  BY <1>1, <1>2, <1>4 DEF IInv, LiveInv, Large
<1> QED
  BY <1>3, <1>4

\* A free object of a slab.
LEMMA FreeObject ==
  ASSUME IInv, NEW pg \in Slabs, NEW f \in FreeObjects(pg)
  PROVE  /\ pg \in Nat /\ slab[pg].cache_idx \in Classes
         /\ IsObject(pg, slab[pg].cache_idx, f)
         /\ \A o \in LiveIn(pg) : o.ptr # f
BY ConstantTypes DEF IInv, SlabsInv, SlabInv, FreeObjects, PagesInv

LEMMA ApartFromInv == IInv => ObjectsApart
<1> SUFFICES ASSUME IInv PROVE ObjectsApart
  OBVIOUS
<1>1. ASSUME NEW o \in live, NEW p \in live, p # o
      PROVE  Apart(o.ptr, o.size, p.ptr, p.size)
  <2>0. /\ o.ptr \in Nat /\ o.size \in Nat \ {0} /\ PageOf(o.ptr) \in PagesOf(o)
        /\ p.ptr \in Nat /\ p.size \in Nat \ {0} /\ PageOf(p.ptr) \in PagesOf(p)
    BY LiveObject
  <2>1. CASE PagesOf(o) \cap PagesOf(p) = {}
    BY <2>0, <2>1, PagesApart DEF PagesOf
  <2>2. CASE PagesOf(o) \cap PagesOf(p) # {}
    <3>1. ~(PageOf(o.ptr) \notin Slabs /\ PageOf(p.ptr) \notin Slabs)
      BY <1>1, <2>2 DEF IInv, LiveInv, Large
    <3>2. PageOf(o.ptr) \in Slabs /\ PageOf(p.ptr) = PageOf(o.ptr)
      BY <2>2, <3>1, LiveObject, SlabObject
    <3> DEFINE i == slab[PageOf(o.ptr)].cache_idx
    <3>3. /\ PageOf(o.ptr) \in Nat /\ i \in Classes
          /\ IsObject(PageOf(o.ptr), i, o.ptr) /\ IsObject(PageOf(o.ptr), i, p.ptr)
          /\ o.size <= ObjSize[i] /\ p.size <= ObjSize[i]
      BY <3>2, SlabObject
    <3>4. o.ptr # p.ptr
      BY <1>1 DEF IInv, LiveInv
    <3>5. o.ptr + ObjSize[i] <= p.ptr \/ p.ptr + ObjSize[i] <= o.ptr
      BY <3>3, <3>4, ObjectsSpaced
    <3> QED
      BY <2>0, <3>3, <3>5, ConstantTypes DEF Apart
  <2> QED
    BY <2>1, <2>2
<1>2. ASSUME NEW o \in live, NEW pg \in Slabs
      PROVE  /\ Apart(o.ptr, o.size, pg * PGSIZE, HeaderSize)
             /\ \A f \in FreeObjects(pg) :
                  Apart(o.ptr, o.size, f, ObjSize[slab[pg].cache_idx])
  <2> DEFINE i == slab[pg].cache_idx
  <2>0. /\ o.ptr \in Nat /\ o.size \in Nat \ {0} /\ PageOf(o.ptr) \in PagesOf(o)
        /\ pg \in Nat /\ pg * PGSIZE \in Nat /\ i \in Classes /\ ObjSize[i] \in Nat \ {0}
    BY LiveObject, ConstantTypes DEF IInv, PagesInv, SlabsInv, SlabInv
  <2>1. CASE pg \notin PagesOf(o)
    <3>1. ASSUME NEW b \in Nat, NEW n \in Nat \ {0}, PageOf(b) = pg, PageOf(b + n - 1) = pg
          PROVE  Apart(o.ptr, o.size, b, n)
      <4>1. PageOf(b) .. PageOf(b + n - 1) = {pg}
        BY <2>0, <3>1
      <4>2. (PageOf(o.ptr) .. PageOf(o.ptr + o.size - 1)) \cap (PageOf(b) .. PageOf(b + n - 1)) = {}
        BY <2>1, <4>1 DEF PagesOf
      <4> QED
        BY <2>0, <3>1, <4>2, PagesApart
    <3>2. Apart(o.ptr, o.size, pg * PGSIZE, HeaderSize)
      <4>1. (pg + 1) * PGSIZE = pg * PGSIZE + PGSIZE
        BY <2>0, ConstantTypes
      <4>2. PageOf(pg * PGSIZE) = pg
        BY <2>0, <4>1, DivUnique, ConstantTypes DEF PageOf
      <4>3. PageOf(pg * PGSIZE + HeaderSize - 1) = pg
        <5>1. /\ pg * PGSIZE + HeaderSize - 1 \in Nat
              /\ pg * PGSIZE <= pg * PGSIZE + HeaderSize - 1
              /\ pg * PGSIZE + HeaderSize - 1 < (pg + 1) * PGSIZE
          BY <2>0, <4>1, ConstantTypes
        <5> QED
          BY <2>0, <5>1, DivUnique, ConstantTypes DEF PageOf
      <4> QED
        BY <2>0, <3>1, <4>2, <4>3, ConstantTypes
    <3>3. ASSUME NEW f \in FreeObjects(pg) PROVE Apart(o.ptr, o.size, f, ObjSize[i])
      <4>1. IsObject(pg, i, f)
        BY FreeObject
      <4>2. f \in Nat
        BY <2>0, <4>1, ObjectPlace
      <4>3. f + ObjSize[i] - 1 \in Nat /\ f <= f + ObjSize[i] - 1
            /\ f + ObjSize[i] - 1 < f + ObjSize[i] /\ f < f + ObjSize[i]
        BY <2>0, <4>2
      <4>4. PageOf(f) = pg /\ PageOf(f + ObjSize[i] - 1) = pg
        <5> HIDE DEF i
        <5> QED
          BY <2>0, <4>1, <4>2, <4>3, ObjectPage
      <4> QED
        BY <2>0, <3>1, <4>2, <4>4
    <3> QED
      BY <3>2, <3>3
  <2>2. CASE pg \in PagesOf(o)
    <3>1. PageOf(o.ptr) = pg
      BY <2>2, LiveObject, SlabObject
    <3>2. IsObject(pg, i, o.ptr) /\ o.size <= ObjSize[i] /\ o \in LiveIn(pg)
      BY <3>1, SlabObject DEF LiveIn
    <3>3. pg * PGSIZE + HeaderSize <= o.ptr
      BY <2>0, <3>2, ObjectPlace
    <3>4. ASSUME NEW f \in FreeObjects(pg) PROVE Apart(o.ptr, o.size, f, ObjSize[i])
      <4>1. IsObject(pg, i, f) /\ o.ptr # f
        BY <3>2, FreeObject
      <4>2. o.ptr + ObjSize[i] <= f \/ f + ObjSize[i] <= o.ptr
        BY <2>0, <3>2, <4>1, ObjectsSpaced
      <4>3. f \in Nat
        BY <2>0, <4>1, ObjectPlace
      <4> QED
        BY <2>0, <3>2, <4>2, <4>3 DEF Apart
    <3> QED
      BY <2>0, <3>3, <3>4, ConstantTypes DEF Apart
  <2> QED
    BY <2>1, <2>2
<1>3. ASSUME NEW o \in live
      PROVE  /\ PageOf(o.ptr) .. PageOf(o.ptr + o.size - 1) \subseteq owned
             /\ PageOf(o.ptr) \in Slabs => o.ptr % ObjSize[size_to_index(o.size)] = 0
  <2>1. PagesOf(o) \subseteq owned
    BY LiveObject
  <2>2. ASSUME PageOf(o.ptr) \in Slabs
        PROVE  o.ptr % ObjSize[size_to_index(o.size)] = 0
    <3> DEFINE i == slab[PageOf(o.ptr)].cache_idx
    <3>1. /\ size_to_index(o.size) = i
          /\ i \in Classes /\ PageOf(o.ptr) \in Nat
          /\ IsObject(PageOf(o.ptr), i, o.ptr)
      BY <2>2, SlabObject
    <3>2. PICK m \in Nat : o.ptr = m * ObjSize[i]
      BY <3>1, ObjectPlace
    <3>3. ObjSize[i] \in Nat \ {0}
      BY <3>1, ConstantTypes
    <3>4. (m * ObjSize[i]) % ObjSize[i] = 0
      BY <3>3
    <3> QED
      BY <3>1, <3>2, <3>4
  <2> QED
    BY <2>1, <2>2 DEF PagesOf
<1>4. ASSUME NEW pg \in Slabs, NEW f \in FreeObjects(pg)
      PROVE  /\ f >= pg * PGSIZE + HeaderSize
             /\ f + ObjSize[slab[pg].cache_idx] <= (pg + 1) * PGSIZE
  <2>1. /\ pg * PGSIZE + HeaderSize <= f
        /\ f + ObjSize[slab[pg].cache_idx] <= (pg + 1) * PGSIZE
        /\ f \in Nat /\ pg \in Nat
    BY FreeObject, ObjectPlace
  <2> QED
    BY <2>1, ConstantTypes, pg * PGSIZE \in Nat
<1> QED
  BY <1>1, <1>2, <1>3, <1>4 DEF ObjectsApart
\* The lists, counters and callers of the slabs.
LEMMA ConservedFromInv == IInv => ObjectsConserved
<1> SUFFICES ASSUME IInv, NEW pg \in Slabs
             PROVE  /\ slab[pg].used = Cardinality(LiveIn(pg))
                    /\ slab[pg].used + Len(slab[pg].free_list) = slab[pg].obj_per_page
                    /\ Cardinality(FreeObjects(pg)) = Len(slab[pg].free_list)
  BY DEF ObjectsConserved
<1> DEFINE list == slab[pg].free_list
           n == Len(list)
<1>1. SlabInv(pg)
  BY DEF IInv, SlabsInv
<1>2. list \in Seq(Nat) /\ \A k, m \in 1..n : list[k] = list[m] => k = m
  BY <1>1 DEF SlabInv
<1>3. n \in Nat /\ DOMAIN list = 1..n
  BY <1>2, LenProperties
<1>4. FreeObjects(pg) = {list[k] : k \in 1..n}
  BY DEF FreeObjects
<1> HIDE DEF list, n
<1>5. list \in Bijection(1..n, {list[k] : k \in 1..n})
  <2>1. list \in [1..n -> {list[k] : k \in 1..n}]
    BY <1>2, <1>3, LenProperties
  <2> QED
    BY <1>2, <2>1 DEF Bijection, Injection, Surjection, IsInjective
<1>6. IsFiniteSet(1..n) /\ Cardinality(1..n) = n
  BY <1>3, FS_Interval
<1>7. Cardinality({list[k] : k \in 1..n}) = n
  BY <1>5, <1>6, FS_Bijection DEF ExistsBijection
<1> QED
  BY <1>1, <1>4, <1>7 DEF SlabInv, list, n

LEMMA LinkedOnceFromInv == IInv => SlabsLinkedOnce
<1> SUFFICES ASSUME IInv, NEW pg \in Slabs, NEW i \in Classes
             PROVE  Cardinality({p \in 1..Len(pages[i]) : pages[i][p] = pg})
                      = IF i = slab[pg].cache_idx THEN 1 ELSE 0
  BY DEF SlabsLinkedOnce
<1> DEFINE places == {p \in 1..Len(pages[i]) : pages[i][p] = pg}
<1>1. CASE i = slab[pg].cache_idx
  <2>1. PICK k \in 1..Len(pages[i]) : pages[i][k] = pg
    BY <1>1 DEF IInv, LinksInv
  <2>2. places = {k}
    BY <2>1 DEF IInv, LinksInv
  <2> QED
    BY <1>1, <2>2, FS_Singleton
<1>2. CASE i # slab[pg].cache_idx
  <2>1. places = {}
    BY <1>2 DEF IInv, LinksInv
  <2> QED
    BY <1>2, <2>1, FS_EmptySet
<1> QED
  BY <1>1, <1>2

LEMMA FullFromInv == IInv => GrowsOnlyWhenFull
<1> SUFFICES ASSUME IInv, pc = "slab", NEW pg \in Slabs,
                    slab[pg].cache_idx = size_to_index(req)
             PROVE  Cardinality(LiveIn(pg)) = slab[pg].obj_per_page
  BY DEF GrowsOnlyWhenFull
<1>1. slab[pg].free_list = <<>>
  BY DEF IInv, CallInv
<1>2. SlabInv(pg)
  BY DEF IInv, SlabsInv
<1>3. /\ slab[pg].used = Cardinality(LiveIn(pg)) /\ slab[pg].used \in Nat
      /\ slab[pg].used + Len(slab[pg].free_list) = slab[pg].obj_per_page
  BY <1>2 DEF SlabInv
<1> QED
  BY <1>1, <1>3

LEMMA TypesFromInv == IInv => TypeOK
<1> SUFFICES ASSUME IInv PROVE TypeOK
  OBVIOUS
<1>1. ASSUME NEW pg \in Slabs
      PROVE  slab[pg].used \in 0..slab[pg].obj_per_page /\ slab[pg].cache_idx \in Classes
  <2>1. SlabInv(pg)
    BY DEF IInv, SlabsInv
  <2>2. /\ slab[pg].used \in Nat /\ slab[pg].obj_per_page \in Nat
        /\ slab[pg].free_list \in Seq(Nat) /\ slab[pg].cache_idx \in Classes
        /\ slab[pg].used + Len(slab[pg].free_list) = slab[pg].obj_per_page
    BY <2>1 DEF SlabInv
  <2>3. Len(slab[pg].free_list) \in Nat
    BY <2>2, LenProperties
  <2> QED
    BY <2>2, <2>3
<1>2. live \subseteq [ptr : Nat, size : Sizes]
  BY DEF IInv, LiveInv
<1> QED
  BY <1>1, <1>2 DEF IInv, LinksInv, PagesInv, CallInv, TypeOK

-----------------------------------------------------------------------------
(* The invariant is inductive.                                             *)

LEMMA Initially == Init => IInv
<1> SUFFICES ASSUME Init PROVE IInv
  OBVIOUS
<1> USE DEF Init
<1>1. Slabs = {} /\ live = {} /\ free = Region /\ owned = {} /\ asked = -1
  BY DEF Slabs, PA!Init, PA!NoCall
<1>2. SlabsInv
  BY <1>1 DEF SlabsInv
<1>3. LiveInv
  BY <1>1, FS_EmptySet DEF LiveInv, Large
<1>4. LinksInv
  <2>1. \A i \in Classes : pages[i] = <<>> /\ Len(pages[i]) = 0
    OBVIOUS
  <2>2. pages \in [Classes -> Seq(Region)]
    OBVIOUS
  <2> QED
    BY <1>1, <2>1, <2>2 DEF LinksInv
<1>5. PagesInv
  BY <1>1 DEF PagesInv
<1>6. CallInv
  BY <1>1 DEF CallInv, PCs
<1> QED
  BY <1>2, <1>3, <1>4, <1>5, <1>6 DEF IInv
\* A slab whose header and callers do not change.
LEMMA SlabKept ==
  ASSUME NEW q, SlabInv(q), slab'[q] = slab[q], LiveIn(q)' = LiveIn(q)
  PROVE  SlabInv(q)'
BY DEF SlabInv

\* A step that changes only where the call is.
LEMMA CallStep ==
  ASSUME IInv, UNCHANGED <<free, owned, pages, slab, live>>
  PROVE  SlabsInv' /\ LiveInv' /\ LinksInv' /\ PagesInv'
<1> USE DEF IInv, Slabs
<1>1. SlabsInv'
  <2> SUFFICES ASSUME NEW q \in Slabs PROVE SlabInv(q)'
    BY DEF SlabsInv
  <2>1. LiveIn(q)' = LiveIn(q)
    BY DEF LiveIn
  <2>2. SlabInv(q)
    BY DEF SlabsInv
  <2> QED
    BY <2>1, <2>2, SlabKept
<1>2. LiveInv'
  <2>1. Large' = Large
    BY DEF Large
  <2> QED
    BY <2>1 DEF LiveInv
<1>3. LinksInv' /\ PagesInv'
  BY DEF LinksInv, PagesInv
<1> QED
  BY <1>1, <1>2, <1>3

LEMMA kmallocStep ==
  ASSUME IInv, NEW size \in Sizes, kmalloc(size)
  PROVE  IInv'
<1>1. SlabsInv' /\ LiveInv' /\ LinksInv' /\ PagesInv'
  BY CallStep DEF kmalloc, pageVars
<1>2. CallInv'
  BY DEF kmalloc, pageVars, IInv, CallInv, PCs
<1> QED
  BY <1>1, <1>2 DEF IInv

LEMMA ReturnStep ==
  ASSUME IInv, KmallocZero \/ KmallocNull
  PROVE  IInv'
<1>1. UNCHANGED <<free, owned, pages, slab, live>> /\ Return /\ asked' = -1
  BY DEF KmallocZero, KmallocNull, pageVars, PA!Refuse, PA!NoCall, IInv, CallInv
<1>2. SlabsInv' /\ LiveInv' /\ LinksInv' /\ PagesInv'
  BY <1>1, CallStep
<1>3. CallInv'
  BY <1>1 DEF Return, CallInv, PCs
<1> QED
  BY <1>2, <1>3 DEF IInv

LEMMA FindSlabStep ==
  ASSUME IInv, FindSlab
  PROVE  IInv'
<1> DEFINE i == size_to_index(req)
<1>1. /\ pc = "find" /\ req \in 1..MaxSize /\ req' = req
      /\ UNCHANGED <<free, owned, pages, slab, live>>
  BY DEF FindSlab, pageVars, PA!Ask
<1>2. SlabsInv' /\ LiveInv' /\ LinksInv' /\ PagesInv'
  BY <1>1, CallStep
<1>3. i \in Classes
  BY <1>1, IndexFound
<1>4. CallInv'
  <2>1. CASE \E p \in 1..Len(pages[i]) :
               /\ IsFirstWithFree(i, p)
               /\ sp' = pages[i][p]
               /\ pc' = "take"
               /\ UNCHANGED pageVars
    <3>1. PICK p \in 1..Len(pages[i]) :
            sp' = pages[i][p] /\ pc' = "take" /\ UNCHANGED pageVars
      BY <2>1
    <3>2. pages[i][p] \in Slabs /\ slab[pages[i][p]].cache_idx = i
      BY <1>3, <3>1 DEF IInv, LinksInv
    <3>3. sp' \in Region
      BY <3>1, <3>2 DEF IInv, PagesInv
    <3> QED
      BY <1>1, <3>1, <3>2, <3>3 DEF IInv, CallInv, PCs, Slabs, pageVars
  <2>2. CASE /\ \A p \in 1..Len(pages[i]) : ~IsFirstWithFree(i, p)
             /\ PA!Ask(1)
             /\ pc' = "slab"
             /\ UNCHANGED sp
    <3> DEFINE T == {p \in 1..Len(pages[i]) : slab[pages[i][p]].free_list # <<>>}
    <3>1. T = {}
      <4>1. SUFFICES ASSUME T # {} PROVE FALSE
        OBVIOUS
      <4>2. PICK p \in T : \A q \in T : p <= q
        <5>1. T \in SUBSET Nat
          OBVIOUS
        <5> HIDE DEF T
        <5> QED
          BY <4>1, <5>1, LeastNatural
      <4>3. \A q \in 1..(p - 1) : q \in 1..Len(pages[i]) /\ ~(p <= q)
        BY <1>3, LenProperties DEF IInv, LinksInv
      <4>4. IsFirstWithFree(i, p)
        BY <4>2, <4>3 DEF IsFirstWithFree
      <4> QED
        BY <2>2, <4>4
    <3>2. ASSUME NEW pg \in Slabs, slab[pg].cache_idx = i
          PROVE  slab[pg].free_list = <<>>
      <4>1. PICK k \in 1..Len(pages[i]) : pages[i][k] = pg
        BY <3>2 DEF IInv, LinksInv
      <4> QED
        BY <3>1, <4>1
    <3>3. asked' = 1
      BY <2>2 DEF PA!Ask
    <3> QED
      BY <1>1, <2>2, <3>2, <3>3 DEF IInv, CallInv, PCs, Slabs
  <2> QED
    BY <2>1, <2>2 DEF FindSlab
<1> QED
  BY <1>2, <1>4 DEF IInv

LEMMA AddSlabStep ==
  ASSUME IInv, AddSlab
  PROVE  IInv'
<1> DEFINE i == size_to_index(req)
<1>1. /\ pc = "slab" /\ pc' = "take" /\ live' = live /\ req' = req
      /\ req \in 1..MaxSize /\ req \in Sizes \cup {0}
  BY DEF AddSlab, IInv, CallInv
<1>2. PICK pg \in Region :
        /\ PA!Grant(pg, pg)
        /\ slab' = [p \in Slabs \cup {pg} |->
                      IF p = pg THEN NewSlabPage(pg, i) ELSE slab[p]]
        /\ LinkSlab(i, pg)
        /\ sp' = pg
  BY DEF AddSlab
<1>3. i \in Classes /\ pg \in Nat
  BY <1>1, IndexFound, ConstantTypes
<1>4. /\ pg \in free /\ pg \notin owned /\ pg \notin Slabs
      /\ free' = free \ {pg} /\ owned' = owned \cup {pg} /\ asked' = -1
  <2>1. pg..pg = {pg}
    BY <1>3
  <2> QED
    BY <1>2, <2>1 DEF PA!Grant, PA!NoCall, IInv, PagesInv
<1>5. Slabs' = Slabs \cup {pg}
  BY <1>2 DEF Slabs
<1>6. slab'[pg] = NewSlabPage(pg, i) /\ \A q \in Slabs : slab'[q] = slab[q]
  BY <1>2, <1>4
<1>7. \A o \in live : PageOf(o.ptr) # pg
  BY <1>4, LiveObject
<1>8. SlabsInv'
  <2>1. ASSUME NEW q \in Slabs PROVE SlabInv(q)'
    <3>1. LiveIn(q)' = LiveIn(q)
      BY <1>1 DEF LiveIn
    <3>2. SlabInv(q)
      BY DEF IInv, SlabsInv
    <3> QED
      BY <1>6, <3>1, <3>2, SlabKept
  <2>2. SlabInv(pg)'
    <3>1. LiveIn(pg)' = {}
      BY <1>1, <1>7 DEF LiveIn
    <3>2. Cardinality({}) = 0
      BY FS_EmptySet
    <3> DEFINE sl == NewSlabPage(pg, i)
    <3>3. /\ sl \in [free_list : Seq(Nat), used : Nat, obj_per_page : Nat, cache_idx : Classes]
          /\ sl.obj_per_page = ObjPerPage(i) /\ sl.used = 0 /\ sl.cache_idx = i
          /\ Len(sl.free_list) = ObjPerPage(i) /\ ObjPerPage(i) \in Nat
          /\ \A k \in 1..Len(sl.free_list) : IsObject(pg, i, sl.free_list[k])
          /\ \A k, m \in 1..Len(sl.free_list) : sl.free_list[k] = sl.free_list[m] => k = m
      BY <1>3, NewSlab, Layout
    <3> HIDE DEF sl, i
    <3>4. slab'[pg] = sl
      BY <1>6 DEF sl
    <3> QED
      BY <3>1, <3>2, <3>3, <3>4 DEF SlabInv
  <2> QED
    BY <1>5, <2>1, <2>2 DEF SlabsInv
<1>9. LiveInv'
  <2>1. Large' = Large
    BY <1>1, <1>5, <1>7 DEF Large
  <2>2. ASSUME NEW o \in Large PROVE PagesOf(o) \subseteq owned' \ Slabs'
    BY <1>4, <1>5 DEF IInv, LiveInv
  <2> QED
    BY <1>1, <2>1, <2>2 DEF IInv, LiveInv
<1>10. LinksInv'
  <2> DEFINE s == pages[i]
             t == <<pg>> \o s
  <2>1. s \in Seq(Region) /\ pages' = [pages EXCEPT ![i] = t] /\ pages \in [Classes -> Seq(Region)]
    BY <1>2, <1>3 DEF LinkSlab, IInv, LinksInv
  <2>2. /\ Len(s) \in Nat /\ Len(t) = Len(s) + 1 /\ t \in Seq(Region)
        /\ t[1] = pg /\ \A k \in 2..Len(t) : k - 1 \in 1..Len(s) /\ t[k] = s[k - 1]
    <3> HIDE DEF s
    <3>1. <<pg>> \in Seq(Region) /\ Len(<<pg>>) = 1 /\ <<pg>>[1] = pg
      OBVIOUS
    <3>2. Len(s) \in Nat /\ Len(t) = Len(s) + 1 /\ t \in Seq(Region)
      BY <2>1, <3>1, ConcatProperties, LenProperties
    <3>3. \A k \in 1..(1 + Len(s)) : t[k] = IF k <= 1 THEN <<pg>>[k] ELSE s[k - 1]
      BY <2>1, <3>1, ConcatProperties, LenProperties
    <3> QED
      BY <3>1, <3>2, <3>3
  <2>3. pages'[i] = t /\ \A j \in Classes : j # i => pages'[j] = pages[j]
    BY <1>3, <2>1
  <2>4. pages' \in [Classes -> Seq(Region)]
    <3> HIDE DEF t
    <3> QED
      BY <1>3, <2>1, <2>2
  <2>5. \A k \in 1..Len(s) : s[k] \in Slabs /\ slab[s[k]].cache_idx = i
    BY <1>3 DEF IInv, LinksInv
  <2>6. \A k, m \in 1..Len(s) : s[k] = s[m] => k = m
    BY <1>3 DEF IInv, LinksInv
  <2>7. slab'[pg].cache_idx = i
    BY <1>3, <1>6, NewSlab
  <2> HIDE DEF s, t
  <2>8. \A k \in 1..Len(t) : k = 1 \/ k \in 2..Len(t)
    BY <2>2
  <2>9. \A k \in 1..Len(t) : t[k] \in Slabs' /\ slab'[t[k]].cache_idx = i
    BY <1>5, <1>6, <2>2, <2>5, <2>7, <2>8
  <2>10. \A k, m \in 1..Len(t) : t[k] = t[m] => k = m
    <3> SUFFICES ASSUME NEW k \in 1..Len(t), NEW m \in 1..Len(t), t[k] = t[m] PROVE k = m
      OBVIOUS
    <3>1. CASE k = 1 /\ m = 1
      BY <3>1
    <3>2. CASE k \in 2..Len(t) /\ m \in 2..Len(t)
      <4>1. k - 1 = m - 1
        BY <2>2, <2>6, <3>2
      <4> QED
        BY <2>2, <3>2, <4>1
    <3>3. CASE k = 1 /\ m \in 2..Len(t)
      BY <1>4, <2>2, <2>5, <3>3
    <3>4. CASE k \in 2..Len(t) /\ m = 1
      BY <1>4, <2>2, <2>5, <3>4
    <3> QED
      BY <2>8, <3>1, <3>2, <3>3, <3>4
  <2>11. \A q \in Slabs' : \E k \in 1..Len(pages'[slab'[q].cache_idx]) :
           pages'[slab'[q].cache_idx][k] = q
    <3> SUFFICES ASSUME NEW q \in Slabs'
                 PROVE  \E k \in 1..Len(pages'[slab'[q].cache_idx]) :
                          pages'[slab'[q].cache_idx][k] = q
      OBVIOUS
    <3>1. CASE q = pg
      BY <2>2, <2>3, <2>7, <3>1
    <3>2. CASE q \in Slabs
      <4> DEFINE j == slab[q].cache_idx
      <4>1. PICK k \in 1..Len(pages[j]) : pages[j][k] = q
        BY <3>2 DEF IInv, LinksInv
      <4>2. j \in Classes /\ slab'[q].cache_idx = j
        BY <1>6, <3>2 DEF IInv, SlabsInv, SlabInv
      <4>3. CASE j # i
        BY <2>3, <4>1, <4>2, <4>3
      <4>4. CASE j = i
        <5>1. k \in 1..Len(s) /\ s[k] = q
          BY <4>1, <4>4 DEF s
        <5>2. k + 1 \in 2..Len(t) /\ (k + 1) - 1 = k
          BY <2>2, <5>1
        <5>3. t[k + 1] = q /\ k + 1 \in 1..Len(t)
          BY <2>2, <5>1, <5>2
        <5> QED
          BY <2>3, <4>2, <4>4, <5>3
      <4> QED
        BY <4>3, <4>4
    <3> QED
      BY <1>5, <3>1, <3>2
  <2>12. ASSUME NEW j \in Classes
         PROVE  /\ \A k \in 1..Len(pages'[j]) :
                     pages'[j][k] \in Slabs' /\ slab'[pages'[j][k]].cache_idx = j
                /\ \A k, m \in 1..Len(pages'[j]) : pages'[j][k] = pages'[j][m] => k = m
    <3>1. CASE j = i
      BY <2>3, <2>9, <2>10, <3>1
    <3>2. CASE j # i
      BY <1>5, <1>6, <2>3, <3>2 DEF IInv, LinksInv
    <3> QED
      BY <3>1, <3>2
  <2> QED
    BY <2>4, <2>11, <2>12 DEF LinksInv
<1>11. PagesInv'
  BY <1>2, <1>4, <1>5 DEF IInv, PagesInv
<1>12. CallInv'
  <2>1. slab'[pg].cache_idx = i
    BY <1>3, <1>6, NewSlab
  <2> QED
    BY <1>1, <1>2, <1>4, <1>5, <2>1 DEF CallInv, PCs
<1> QED
  BY <1>8, <1>9, <1>10, <1>11, <1>12 DEF IInv
\* A slab's header with another list and counter.
LEMMA HeaderChanged ==
  ASSUME NEW h \in [free_list : Seq(Nat), used : Nat, obj_per_page : Nat, cache_idx : Classes],
         NEW l \in Seq(Nat), NEW u \in Nat
  PROVE  LET g == [h EXCEPT !.free_list = l, !.used = u]
         IN  /\ g \in [free_list : Seq(Nat), used : Nat, obj_per_page : Nat,
                       cache_idx : Classes]
             /\ g.free_list = l /\ g.used = u
             /\ g.obj_per_page = h.obj_per_page /\ g.cache_idx = h.cache_idx
OBVIOUS

\* The caches link slabs by their page and class alone.
LEMMA LinksKept ==
  ASSUME LinksInv, pages' = pages, Slabs' = Slabs,
         \A q \in Slabs : slab'[q].cache_idx = slab[q].cache_idx
  PROVE  LinksInv'
<1>1. ASSUME NEW i \in Classes
      PROVE  /\ \A k \in 1..Len(pages[i]) :
                  pages[i][k] \in Slabs' /\ slab'[pages[i][k]].cache_idx = i
             /\ \A k, m \in 1..Len(pages[i]) : pages[i][k] = pages[i][m] => k = m
  BY DEF LinksInv
<1>2. ASSUME NEW q \in Slabs
      PROVE  \E k \in 1..Len(pages[slab'[q].cache_idx]) : pages[slab'[q].cache_idx][k] = q
  BY DEF LinksInv
<1> QED
  BY <1>1, <1>2 DEF LinksInv

LEMMA TakeObjectStep ==
  ASSUME IInv, TakeObject
  PROVE  IInv'
<1>0. PICK s : s = sp
  OBVIOUS
<1> DEFINE list == slab[s].free_list
           o == [ptr |-> list[1], size |-> req]
           i == size_to_index(req)
<1>1. /\ pc = "take" /\ Return
      /\ list # <<>> /\ live' = live \cup {o}
      /\ slab' = [slab EXCEPT ![s].free_list = Tail(list), ![s].used = @ + 1]
      /\ UNCHANGED <<free, owned, asked, pages>>
  BY <1>0 DEF TakeObject, pageVars
<1>2. /\ req \in 1..MaxSize /\ req \in Sizes \cup {0} /\ asked = -1
      /\ s \in Slabs /\ slab[s].cache_idx = i
  BY <1>0, <1>1 DEF IInv, CallInv
<1>3. i \in Classes /\ req <= ObjSize[i] /\ ObjSize[i] \in Nat \ {0} /\ s \in Nat
  BY <1>2, IndexFound, ConstantTypes DEF IInv, PagesInv
<1>4. SlabInv(s)
  BY <1>2 DEF IInv, SlabsInv
<1>5. /\ slab[s] \in [free_list : Seq(Nat), used : Nat, obj_per_page : Nat, cache_idx : Classes]
      /\ slab[s].obj_per_page = ObjPerPage(i)
      /\ slab[s].used = Cardinality(LiveIn(s))
      /\ slab[s].used + Len(list) = slab[s].obj_per_page
      /\ \A k \in 1..Len(list) : IsObject(s, i, list[k])
      /\ \A k, m \in 1..Len(list) : list[k] = list[m] => k = m
      /\ \A p \in LiveIn(s) :
           /\ IsObject(s, i, p.ptr)
           /\ p.size \in 1..ObjSize[i]
           /\ size_to_index(p.size) = i
           /\ \A k \in 1..Len(list) : list[k] # p.ptr
  BY <1>2, <1>4 DEF SlabInv
<1> HIDE DEF i
<1>6. /\ list \in Seq(Nat) /\ Len(list) \in Nat \ {0} /\ 1 \in 1..Len(list)
      /\ Tail(list) \in Seq(Nat) /\ Len(Tail(list)) = Len(list) - 1
      /\ \A k \in 1..Len(Tail(list)) : k + 1 \in 2..Len(list) /\ Tail(list)[k] = list[k + 1]
  <2>1. list \in Seq(Nat)
    BY <1>5
  <2> HIDE DEF list
  <2>2. list # <<>>
    BY <1>1
  <2> QED
    BY <2>1, <2>2, EmptySeq, LenProperties, HeadTailProperties
<1>7. IsObject(s, i, list[1]) /\ list[1] \in Nat
  BY <1>5, <1>6
<1>8. PageOf(o.ptr) = s
  <2>1. list[1] <= list[1] /\ list[1] < list[1] + ObjSize[i]
    BY <1>3, <1>7
  <2> QED
    BY <1>3, <1>7, <2>1, ObjectPage
<1>9. ASSUME NEW p \in live PROVE p.ptr # o.ptr
  BY <1>5, <1>6, <1>8 DEF LiveIn
<1>10. o \notin live
  BY <1>9
<1>11. Slabs' = Slabs /\ \A q \in Slabs : q # s => slab'[q] = slab[q]
  BY <1>1 DEF Slabs
<1>12. slab'[s] = [slab[s] EXCEPT !.free_list = Tail(list), !.used = @ + 1]
  BY <1>1, <1>2 DEF Slabs
<1> DEFINE sl == slab'[s]
<1>13. /\ sl \in [free_list : Seq(Nat), used : Nat, obj_per_page : Nat, cache_idx : Classes]
       /\ sl.free_list = Tail(list) /\ sl.used = slab[s].used + 1
       /\ sl.obj_per_page = slab[s].obj_per_page /\ sl.cache_idx = i
  <2> DEFINE h == slab[s]
  <2>1. /\ h \in [free_list : Seq(Nat), used : Nat, obj_per_page : Nat, cache_idx : Classes]
        /\ h.used + 1 \in Nat /\ h.cache_idx = i
    BY <1>2, <1>5 DEF i
  <2>2. sl = [h EXCEPT !.free_list = Tail(list), !.used = h.used + 1]
    BY <1>12
  <2> HIDE DEF h, sl, list
  <2>3. /\ sl \in [free_list : Seq(Nat), used : Nat, obj_per_page : Nat, cache_idx : Classes]
        /\ sl.free_list = Tail(list) /\ sl.used = h.used + 1
        /\ sl.obj_per_page = h.obj_per_page /\ sl.cache_idx = h.cache_idx
    BY <1>6, <2>1, <2>2, HeaderChanged
  <2> QED
    BY <2>1, <2>3 DEF h
<1>14. LiveIn(s)' = LiveIn(s) \cup {o} /\ \A q \in Slabs : q # s => LiveIn(q)' = LiveIn(q)
  <2> HIDE DEF o
  <2> QED
    BY <1>1, <1>8 DEF LiveIn
<1>15. SlabInv(s)'
  <2>1. Cardinality(LiveIn(s) \cup {o}) = Cardinality(LiveIn(s)) + 1
    <3>1. LiveIn(s) \subseteq live /\ IsFiniteSet(live)
      BY DEF LiveIn, IInv, LiveInv
    <3>2. IsFiniteSet(LiveIn(s)) /\ o \notin LiveIn(s)
      BY <1>10, <3>1, FS_Subset
    <3> QED
      BY <3>2, FS_AddElement
  <2>2. sl.used = Cardinality(LiveIn(s)') /\ sl.used + Len(sl.free_list) = sl.obj_per_page
    BY <1>5, <1>6, <1>13, <1>14, <2>1
  <2>3. \A k \in 1..Len(sl.free_list) : IsObject(s, i, sl.free_list[k])
    <3> HIDE DEF sl, list
    <3> QED
      BY <1>5, <1>6, <1>13
  <2>4. \A k, m \in 1..Len(sl.free_list) : sl.free_list[k] = sl.free_list[m] => k = m
    <3> SUFFICES ASSUME NEW k \in 1..Len(Tail(list)), NEW m \in 1..Len(Tail(list)),
                        Tail(list)[k] = Tail(list)[m]
                 PROVE  k = m
      BY <1>13
    <3>1. k + 1 \in 1..Len(list) /\ m + 1 \in 1..Len(list) /\ list[k + 1] = list[m + 1]
      BY <1>6
    <3>2. k + 1 = m + 1
      BY <1>5, <3>1
    <3> QED
      BY <3>2
  <2>5. ASSUME NEW p \in LiveIn(s)'
        PROVE  /\ IsObject(s, i, p.ptr)
               /\ p.size \in 1..ObjSize[i]
               /\ size_to_index(p.size) = i
               /\ \A k \in 1..Len(sl.free_list) : sl.free_list[k] # p.ptr
    <3>1. CASE p = o
      <4>1. \A k \in 1..Len(Tail(list)) : Tail(list)[k] # list[1]
        <5> SUFFICES ASSUME NEW k \in 1..Len(Tail(list)), Tail(list)[k] = list[1] PROVE FALSE
          OBVIOUS
        <5>1. k + 1 \in 2..Len(list) /\ k + 1 \in 1..Len(list) /\ list[k + 1] = list[1]
          BY <1>6
        <5>2. k + 1 = 1
          BY <1>5, <1>6, <5>1
        <5> QED
          BY <5>1, <5>2
      <4> QED
        BY <1>2, <1>3, <1>7, <1>13, <3>1, <4>1 DEF i
    <3>2. CASE p \in LiveIn(s)
      <4>1. \A k \in 1..Len(Tail(list)) : Tail(list)[k] # p.ptr
        BY <1>5, <1>6, <3>2
      <4> QED
        BY <1>5, <1>13, <3>2, <4>1
    <3> QED
      BY <1>14, <3>1, <3>2
  <2>6. sl.obj_per_page = ObjPerPage(i)
    BY <1>5, <1>13
  <2>7. slab'[s] = sl
    OBVIOUS
  <2> HIDE DEF sl, list, o
  <2> QED
    BY <1>13, <2>2, <2>3, <2>4, <2>5, <2>6, <2>7 DEF SlabInv
<1>16. SlabsInv'
  <2>1. ASSUME NEW q \in Slabs, q # s PROVE SlabInv(q)'
    BY <1>11, <1>14, <2>1, SlabKept DEF IInv, SlabsInv
  <2> QED
    BY <1>11, <1>15, <2>1 DEF SlabsInv
<1>17. LiveInv'
  <2>1. Large' = Large
    BY <1>1, <1>2, <1>8, <1>11 DEF Large
  <2>2. o \in [ptr : Nat, size : Sizes \ {0}]
    BY <1>2, <1>7
  <2>3. IsFiniteSet(live')
    BY <1>1, FS_AddElement DEF IInv, LiveInv
  <2>4. \A p, q \in live' : p.ptr = q.ptr => p = q
    BY <1>1, <1>9 DEF IInv, LiveInv
  <2>5. live' \subseteq [ptr : Nat, size : Sizes \ {0}]
    BY <1>1, <2>2 DEF IInv, LiveInv
  <2> QED
    BY <1>1, <1>11, <2>1, <2>3, <2>4, <2>5 DEF IInv, LiveInv
<1>18. LinksInv'
  <2>1. \A q \in Slabs : slab'[q].cache_idx = slab[q].cache_idx
    BY <1>2, <1>11, <1>13
  <2> QED
    BY <1>1, <1>11, <2>1, LinksKept DEF IInv
<1>19. PagesInv' /\ CallInv'
  BY <1>1, <1>2, <1>11 DEF IInv, PagesInv, CallInv, Return, PCs
<1> QED
  BY <1>16, <1>17, <1>18, <1>19 DEF IInv

LEMMA AskPagesStep ==
  ASSUME IInv, AskPages
  PROVE  IInv'
<1>1. /\ pc = "find" /\ req > MaxSize /\ pc' = "pages" /\ asked' = PagesFor(req)
      /\ UNCHANGED <<free, owned, pages, slab, live, req, sp>>
  BY DEF AskPages, PA!Ask
<1>2. SlabsInv' /\ LiveInv' /\ LinksInv' /\ PagesInv'
  BY <1>1, CallStep
<1>3. CallInv'
  BY <1>1 DEF IInv, CallInv, PCs, PagesFor
<1> QED
  BY <1>2, <1>3 DEF IInv

\* The pages asked for hold the size asked for.
LEMMA PagesSuffice ==
  ASSUME NEW lo \in Nat, NEW size \in Nat \ {0}
  PROVE  /\ PageOf(lo * PGSIZE) = lo
         /\ lo * PGSIZE \in Nat
         /\ PagesFor(size) \in Nat
         /\ PageOf(lo * PGSIZE + size - 1) < lo + PagesFor(size)
<1> DEFINE n == PagesFor(size)
           last == lo * PGSIZE + size - 1
<1>1. lo * PGSIZE \in Nat /\ (lo + 1) * PGSIZE = lo * PGSIZE + PGSIZE /\ last \in Nat
  BY ConstantTypes
<1>2. PageOf(lo * PGSIZE) = lo
  BY <1>1, DivUnique, ConstantTypes DEF PageOf
<1>3. n \in Nat /\ size + PGSIZE - 1 < (n + 1) * PGSIZE
  BY DivBounds, ConstantTypes, size + PGSIZE - 1 \in Nat DEF PagesFor
<1> HIDE DEF n
<1>4. (n + 1) * PGSIZE = n * PGSIZE + PGSIZE /\ n * PGSIZE \in Nat
      /\ (lo + n) * PGSIZE = lo * PGSIZE + n * PGSIZE
  BY <1>1, <1>3, ConstantTypes
<1>5. last < (lo + n) * PGSIZE
  BY <1>1, <1>3, <1>4, ConstantTypes
<1> HIDE DEF last
<1>6. PageOf(last) \in Nat /\ PageOf(last) * PGSIZE <= last /\ PageOf(last) * PGSIZE \in Nat
  BY <1>1, PageBounds
<1>7. PageOf(last) * PGSIZE < ((lo + n - 1) + 1) * PGSIZE
  BY <1>1, <1>3, <1>4, <1>5, <1>6, (lo + n - 1) + 1 = lo + n
<1>8. PageOf(last) <= lo + n - 1
  BY <1>3, <1>6, <1>7, TimesBelow, ConstantTypes, lo + n - 1 \in Int
<1> QED
  BY <1>1, <1>2, <1>3, <1>6, <1>8 DEF n, last

LEMMA GrantPagesStep ==
  ASSUME IInv, GrantPages
  PROVE  IInv'
<1>1. PICK lo \in Region, hi \in Region :
        PA!Grant(lo, hi) /\ live' = live \cup {[ptr |-> lo * PGSIZE, size |-> req]}
  BY DEF GrantPages
<1> DEFINE o == [ptr |-> lo * PGSIZE, size |-> req]
<1>2. pc = "pages" /\ Return /\ UNCHANGED <<pages, slab>>
  BY DEF GrantPages
<1>3. req > MaxSize /\ req \in Sizes \cup {0} /\ asked = PagesFor(req)
  BY <1>2 DEF IInv, CallInv
<1>4. /\ hi - lo + 1 >= PagesFor(req) /\ lo..hi \subseteq free
      /\ free' = free \ (lo..hi) /\ owned' = owned \cup (lo..hi) /\ asked' = -1
  BY <1>1, <1>3 DEF PA!Grant, PA!NoCall
<1>5. lo \in Nat /\ hi \in Nat /\ req \in Nat \ {0} /\ req \in Sizes \ {0}
  BY <1>3, ConstantTypes, SizesAssumption
<1>6. /\ PageOf(o.ptr) = lo /\ o.ptr \in Nat
      /\ PagesFor(req) \in Nat /\ PageOf(o.ptr + o.size - 1) < lo + PagesFor(req)
  BY <1>5, PagesSuffice
<1>7. lo <= PageOf(o.ptr + o.size - 1) /\ PageOf(o.ptr + o.size - 1) \in Nat
  <2>1. o.ptr + o.size - 1 \in Nat /\ o.ptr <= o.ptr + o.size - 1
    BY <1>5, <1>6
  <2> QED
    BY <1>6, <2>1, PageMonotone, PageBounds
<1>8. PagesOf(o) \subseteq lo..hi /\ lo \in lo..hi
  <2>1. PageOf(o.ptr + o.size - 1) <= hi
    BY <1>4, <1>5, <1>6, <1>7
  <2> QED
    BY <1>5, <1>6, <1>7, <2>1 DEF PagesOf
<1>9. (lo..hi) \cap owned = {} /\ (lo..hi) \cap Slabs = {}
  BY <1>4 DEF IInv, PagesInv
<1>10. ASSUME NEW p \in live PROVE PageOf(p.ptr) \in owned
  BY LiveObject
<1> HIDE DEF o
<1>11. ASSUME NEW p \in live PROVE p.ptr # o.ptr
  BY <1>6, <1>8, <1>9, <1>10
<1>12. Slabs' = Slabs /\ slab' = slab
  BY <1>2 DEF Slabs
<1>13. SlabsInv'
  <2> SUFFICES ASSUME NEW q \in Slabs PROVE SlabInv(q)'
    BY <1>12 DEF SlabsInv
  <2>1. LiveIn(q)' = LiveIn(q)
    BY <1>1, <1>6, <1>8, <1>9 DEF LiveIn, o
  <2> QED
    BY <1>12, <2>1, SlabKept DEF IInv, SlabsInv
<1>14. LiveInv'
  <2>1. Large' = Large \cup {o}
    BY <1>1, <1>6, <1>8, <1>9, <1>12 DEF Large, o
  <2>2. o \in [ptr : Nat, size : Sizes \ {0}]
    BY <1>5, <1>6 DEF o
  <2>3. live' = live \cup {o}
    BY <1>1 DEF o
  <2>4. live' \subseteq [ptr : Nat, size : Sizes \ {0}] /\ IsFiniteSet(live')
    BY <2>2, <2>3, FS_AddElement DEF IInv, LiveInv
  <2>5. \A p, q \in live' : p.ptr = q.ptr => p = q
    BY <1>11, <2>3 DEF IInv, LiveInv
  <2>6. \A p \in Large : PagesOf(p) \subseteq owned \ Slabs
    BY DEF IInv, LiveInv
  <2>7. \A p \in Large' : PagesOf(p) \subseteq owned' \ Slabs'
    BY <1>4, <1>8, <1>9, <1>12, <2>1, <2>6
  <2>8. \A p, q \in Large' : q # p => PagesOf(p) \cap PagesOf(q) = {}
    <3>1. \A p, q \in Large : q # p => PagesOf(p) \cap PagesOf(q) = {}
      BY DEF IInv, LiveInv
    <3>2. \A p \in Large : PagesOf(p) \cap PagesOf(o) = {}
      BY <1>8, <1>9, <2>6
    <3> QED
      BY <2>1, <3>1, <3>2
  <2> QED
    BY <2>4, <2>5, <2>7, <2>8 DEF LiveInv
<1>15. LinksInv' /\ CallInv'
  BY <1>2, <1>4, <1>12 DEF IInv, LinksInv, CallInv, Return, PCs
<1>16. PagesInv'
  <2>1. free \subseteq Region
    BY DEF IInv, PagesInv
  <2> QED
    BY <1>4, <1>12, <2>1 DEF IInv, PagesInv
<1> QED
  BY <1>13, <1>14, <1>15, <1>16 DEF IInv
LEMMA kfreeStep ==
  ASSUME IInv, NEW o \in live, kfree(o)
  PROVE  IInv'
<1> DEFINE s == PageOf(o.ptr)
<1>1. /\ pc = "idle" /\ live' = live \ {o}
      /\ slab' = IF s \in Slabs THEN [slab EXCEPT ![s] = PutBack(@, o.ptr)] ELSE slab
      /\ UNCHANGED <<free, owned, asked, pages, pc, req, sp>>
  BY DEF kfree, pageVars
<1>2. o.ptr \in Nat
  BY LiveObject
<1>3. Slabs' = Slabs /\ \A q \in Slabs : q # s => slab'[q] = slab[q]
  BY <1>1 DEF Slabs
<1>4. \A q \in Slabs : q # s => LiveIn(q)' = LiveIn(q)
  BY <1>1 DEF LiveIn
<1>5. ASSUME s \in Slabs
      PROVE  SlabInv(s)' /\ slab'[s].cache_idx = slab[s].cache_idx
  <2> DEFINE h == slab[s]
             list == h.free_list
             i == h.cache_idx
             new == <<o.ptr>> \o list
             sl == slab'[s]
  <2>1. SlabInv(s) /\ o \in LiveIn(s)
    BY <1>5 DEF IInv, SlabsInv, LiveIn
  <2>2. /\ h \in [free_list : Seq(Nat), used : Nat, obj_per_page : Nat, cache_idx : Classes]
        /\ h.obj_per_page = ObjPerPage(i)
        /\ h.used = Cardinality(LiveIn(s))
        /\ h.used + Len(list) = h.obj_per_page
        /\ \A k \in 1..Len(list) : IsObject(s, i, list[k])
        /\ \A k, m \in 1..Len(list) : list[k] = list[m] => k = m
        /\ \A p \in LiveIn(s) :
             /\ IsObject(s, i, p.ptr)
             /\ p.size \in 1..ObjSize[i]
             /\ size_to_index(p.size) = i
             /\ \A k \in 1..Len(list) : list[k] # p.ptr
    BY <2>1 DEF SlabInv
  <2>3. sl = [h EXCEPT !.free_list = new, !.used = h.used - 1]
    BY <1>1, <1>5 DEF PutBack, Slabs
  <2> HIDE DEF h, i, s
  <2>4. list \in Seq(Nat) /\ h.used \in Nat
    BY <2>2
  <2> HIDE DEF list
  <2>5. /\ Len(list) \in Nat /\ new \in Seq(Nat) /\ Len(new) = Len(list) + 1
        /\ new[1] = o.ptr
        /\ \A k \in 1..Len(new) : k = 1 \/ (k - 1 \in 1..Len(list) /\ new[k] = list[k - 1])
    <3>1. <<o.ptr>> \in Seq(Nat) /\ Len(<<o.ptr>>) = 1 /\ <<o.ptr>>[1] = o.ptr
      BY <1>2
    <3>2. Len(list) \in Nat /\ Len(new) = 1 + Len(list) /\ new \in Seq(Nat)
      BY <2>4, <3>1, ConcatProperties, LenProperties
    <3>3. \A k \in 1..(1 + Len(list)) : new[k] = IF k <= 1 THEN <<o.ptr>>[k] ELSE list[k - 1]
      BY <2>4, <3>1, ConcatProperties, LenProperties
    <3> QED
      BY <3>1, <3>2, <3>3
  <2> HIDE DEF new
  <2>6. LiveIn(s)' = LiveIn(s) \ {o}
    BY <1>1 DEF LiveIn
  <2>7. IsFiniteSet(LiveIn(s)) /\ Cardinality(LiveIn(s) \ {o}) = Cardinality(LiveIn(s)) - 1
    <3>1. LiveIn(s) \subseteq live /\ IsFiniteSet(live)
      BY DEF LiveIn, IInv, LiveInv
    <3>2. IsFiniteSet(LiveIn(s))
      BY <3>1, FS_Subset
    <3> QED
      BY <2>1, <3>2, FS_RemoveElement
  <2>8. h.used - 1 \in Nat
    <3>1. Cardinality(LiveIn(s) \ {o}) \in Nat
      BY <2>7, FS_RemoveElement, FS_CardinalityType
    <3> QED
      BY <2>2, <2>4, <2>7, <3>1
  <2>9. /\ sl \in [free_list : Seq(Nat), used : Nat, obj_per_page : Nat, cache_idx : Classes]
        /\ sl.free_list = new /\ sl.used = h.used - 1
        /\ sl.obj_per_page = h.obj_per_page /\ sl.cache_idx = i
    <3> HIDE DEF sl
    <3>1. h \in [free_list : Seq(Nat), used : Nat, obj_per_page : Nat, cache_idx : Classes]
      BY <2>2
    <3> QED
      BY <2>3, <2>5, <2>8, <3>1, HeaderChanged DEF i
  <2>10. sl.used = Cardinality(LiveIn(s)') /\ sl.used + Len(sl.free_list) = sl.obj_per_page
    <3>1. sl.used + Len(sl.free_list) = (h.used - 1) + (Len(list) + 1)
      BY <2>5, <2>9
    <3>2. (h.used - 1) + (Len(list) + 1) = h.used + Len(list)
      BY <2>4, <2>5
    <3>3. h.used + Len(list) = sl.obj_per_page
      BY <2>2, <2>9 DEF list
    <3>4. sl.used = Cardinality(LiveIn(s)')
      BY <2>2, <2>6, <2>7, <2>9
    <3> QED
      BY <3>1, <3>2, <3>3, <3>4
  <2>11. \A k \in 1..Len(new) : IsObject(s, i, new[k])
    BY <2>1, <2>2, <2>5 DEF list
  <2>12. \A k, m \in 1..Len(new) : new[k] = new[m] => k = m
    <3> SUFFICES ASSUME NEW k \in 1..Len(new), NEW m \in 1..Len(new), new[k] = new[m]
                 PROVE  k = m
      OBVIOUS
    <3>1. \A j \in 1..Len(list) : list[j] # o.ptr
      BY <2>1, <2>2 DEF list
    <3>2. CASE k = 1 \/ m = 1
      BY <2>5, <3>1, <3>2
    <3>3. CASE k # 1 /\ m # 1
      <4>1. /\ k - 1 \in 1..Len(list) /\ m - 1 \in 1..Len(list)
            /\ list[k - 1] = list[m - 1]
        BY <2>5, <3>3
      <4>2. k - 1 = m - 1
        BY <2>2, <4>1 DEF list
      <4> QED
        BY <2>5, <4>2
    <3> QED
      BY <3>2, <3>3
  <2>13. ASSUME NEW p \in LiveIn(s)'
         PROVE  /\ IsObject(s, i, p.ptr)
                /\ p.size \in 1..ObjSize[i]
                /\ size_to_index(p.size) = i
                /\ \A k \in 1..Len(new) : new[k] # p.ptr
    <3>1. p \in LiveIn(s) /\ p # o /\ p \in live
      BY <2>6 DEF LiveIn
    <3>2. p.ptr # o.ptr
      BY <3>1 DEF IInv, LiveInv
    <3>3. \A j \in 1..Len(list) : list[j] # p.ptr
      BY <2>2, <3>1 DEF list
    <3>4. \A k \in 1..Len(new) : new[k] # p.ptr
      BY <2>5, <3>2, <3>3
    <3> QED
      BY <2>2, <3>1, <3>4
  <2>14. slab'[s] = sl /\ sl.obj_per_page = ObjPerPage(i) /\ slab[s].cache_idx = i
    BY <2>2, <2>9 DEF h, i
  <2> HIDE DEF sl
  <2> QED
    BY <2>9, <2>10, <2>11, <2>12, <2>13, <2>14 DEF SlabInv
<1> HIDE DEF s
<1>6. SlabsInv'
  <2>1. ASSUME NEW q \in Slabs, q # s PROVE SlabInv(q)'
    BY <1>3, <1>4, <2>1, SlabKept DEF IInv, SlabsInv
  <2> QED
    BY <1>3, <1>5, <2>1 DEF SlabsInv
<1>7. LiveInv'
  <2>1. Large' = Large \ {o}
    BY <1>1, <1>3 DEF Large
  <2>2. IsFiniteSet(live')
    BY <1>1, FS_RemoveElement DEF IInv, LiveInv
  <2>3. live' \subseteq live
    BY <1>1
  <2> QED
    BY <1>1, <1>3, <2>1, <2>2, <2>3 DEF IInv, LiveInv
<1>8. LinksInv'
  <2>1. \A q \in Slabs : slab'[q].cache_idx = slab[q].cache_idx
    BY <1>3, <1>5
  <2> QED
    BY <1>1, <1>3, <2>1, LinksKept DEF IInv
<1>9. PagesInv' /\ CallInv'
  BY <1>1, <1>3 DEF IInv, PagesInv, CallInv
<1> QED
  BY <1>6, <1>7, <1>8, <1>9 DEF IInv

\* The invariant is inductive: every page of a slab is cut into objects each
\* of which is on the list once or with one caller, every slab is linked once,
\* in the cache of its class, and larger areas have pages of their own.
THEOREM Inductive == Spec => []IInv
<1>1. IInv /\ [Next]_vars => IInv'
  <2> SUFFICES ASSUME IInv, [Next]_vars PROVE IInv'
    OBVIOUS
  <2>1. CASE RunningCall
    BY <2>1, ReturnStep, FindSlabStep, AddSlabStep, TakeObjectStep, AskPagesStep,
       GrantPagesStep DEF RunningCall
  <2>2. CASE \E size \in Sizes : kmalloc(size)
    BY <2>2, kmallocStep
  <2>3. CASE \E o \in live : kfree(o)
    BY <2>3, kfreeStep
  <2>4. CASE UNCHANGED vars
    <3>1. SlabsInv' /\ LiveInv' /\ LinksInv' /\ PagesInv'
      BY <2>4, CallStep DEF vars
    <3>2. CallInv'
      BY <2>4 DEF vars, IInv, CallInv, Slabs
    <3> QED
      BY <3>1, <3>2 DEF IInv
  <2> QED
    BY <2>1, <2>2, <2>3, <2>4 DEF Next
<1> QED
  BY Initially, <1>1, PTL DEF Spec

\* TypeOK always holds: slabs are in pages the page allocator granted, and
\* used never wraps below 0 or passes the number of objects (slub.c:115, 139).
THEOREM TypeCorrect == Spec => []TypeOK
BY Inductive, TypesFromInv, PTL

\* Whatever callers allocate and free, no object overlaps another, a header or
\* a free object, none leaves the pages owned, and each is aligned to its class
\* (slab_page_init, kmalloc, kfree).
THEOREM NoOverlaps == Spec => []ObjectsApart
BY Inductive, ApartFromInv, PTL

\* Every object of a slab is on its free list once or with one caller, and
\* used counts the callers (kmalloc, kfree).
THEOREM Conserved == Spec => []ObjectsConserved
BY Inductive, ConservedFromInv, PTL

\* Each slab is on the list of its class once and on no other (slub.c:87).
THEOREM LinkedOnce == Spec => []SlabsLinkedOnce
BY Inductive, LinkedOnceFromInv, PTL

\* A page is asked for only when no slab of the class has a free object
\* (slub.c:104).
THEOREM ReusesFirst == Spec => []GrowsOnlyWhenFull
BY Inductive, FullFromInv, PTL

-----------------------------------------------------------------------------
(* Callers see a heap.                                                     *)

\* The objects callers hold are areas of the memory, apart from one another.
HeapView ==
  /\ \A o \in live : Heap!Extent(o) \subseteq Bytes
  /\ \A o, p \in live : o # p => Heap!Extent(o) \cap Heap!Extent(p) = {}

\* Between calls nothing is asked for.
IdleInv == pc = "idle" => req = 0

LEMMA ViewFromInv == IInv => HeapView
<1> SUFFICES ASSUME IInv PROVE HeapView
  OBVIOUS
<1>1. ASSUME NEW o \in live PROVE Heap!Extent(o) \subseteq Bytes
  <2>1. /\ o.ptr \in Nat /\ o.size \in Nat \ {0}
        /\ PagesOf(o) \subseteq Region
    BY LiveObject DEF IInv, PagesInv
  <2>2. SUFFICES ASSUME NEW a \in o.ptr .. (o.ptr + o.size - 1) PROVE a \in Bytes
    BY DEF Heap!Extent
  <2>3. /\ a \in Nat /\ o.ptr <= a /\ a <= o.ptr + o.size - 1
        /\ o.ptr + o.size - 1 \in Nat
    BY <2>1
  <2>4. /\ PageOf(o.ptr) <= PageOf(a) /\ PageOf(a) <= PageOf(o.ptr + o.size - 1)
        /\ PageOf(a) \in Nat /\ PageOf(o.ptr) \in Nat /\ PageOf(o.ptr + o.size - 1) \in Nat
    BY <2>1, <2>3, PageMonotone, PageBounds
  <2>5. PageOf(a) \in Region
    BY <2>1, <2>4 DEF PagesOf
  <2>6. /\ PageOf(a) * PGSIZE \in Nat /\ PageOf(a) * PGSIZE <= a
        /\ a < PageOf(a) * PGSIZE + PGSIZE
    BY <2>3, PageBounds
  <2>7. (PageOf(a) + 1) * PGSIZE = PageOf(a) * PGSIZE + PGSIZE
    BY <2>4, ConstantTypes
  <2>8. a \in (PageOf(a) * PGSIZE)..((PageOf(a) + 1) * PGSIZE - 1)
    BY <2>3, <2>6, <2>7, ConstantTypes
  <2> QED
    BY <2>5, <2>8 DEF Bytes
<1>2. ASSUME NEW o \in live, NEW p \in live, o # p
      PROVE  Heap!Extent(o) \cap Heap!Extent(p) = {}
  <2>1. o.ptr \in Nat /\ o.size \in Nat \ {0} /\ p.ptr \in Nat /\ p.size \in Nat \ {0}
    BY LiveObject
  <2>2. o.ptr + o.size <= p.ptr \/ p.ptr + p.size <= o.ptr
    BY <1>2, ApartFromInv DEF ObjectsApart, Apart
  <2> QED
    BY <2>1, <2>2 DEF Heap!Extent
<1> QED
  BY <1>1, <1>2 DEF HeapView

\* A call that adds an object is a grant of the heap.
LEMMA HeapGrant ==
  ASSUME HeapView', NEW ptr \in Nat, req \in Nat \ {0}, req' = 0,
         \A p \in live : p.ptr # ptr,
         live' = live \cup {[ptr |-> ptr, size |-> req]}
  PROVE  Heap!Next
<1> DEFINE new == [ptr |-> ptr, size |-> req]
<1>1. new \in live' /\ new \notin live /\ live \subseteq live'
  OBVIOUS
<1>2. /\ Heap!Extent(new) \subseteq Bytes
      /\ \A o \in live : Heap!Extent(new) \cap Heap!Extent(o) = {}
  <2>1. \A o \in live' : Heap!Extent(o) \subseteq Bytes
    BY DEF HeapView, Heap!Extent, Bytes
  <2>2. \A o, p \in live' : o # p => Heap!Extent(o) \cap Heap!Extent(p) = {}
    BY DEF HeapView, Heap!Extent
  <2> HIDE DEF new
  <2> QED
    BY <1>1, <2>1, <2>2
<1>3. ptr \in Bytes
  <2>1. ptr \in Heap!Extent(new)
    BY DEF Heap!Extent
  <2> QED
    BY <1>2, <2>1
<1>4. Heap!Grant(ptr)
  BY <1>2 DEF Heap!Grant
<1> QED
  BY <1>3, <1>4 DEF Heap!Next

LEMMA HeapStep ==
  ASSUME IInv, IdleInv, HeapView', [Next]_vars
  PROVE  [Heap!Next]_(Heap!vars)
<1>1. CASE KmallocZero
  BY <1>1 DEF KmallocZero, Return, Heap!vars
<1>2. CASE FindSlab
  BY <1>2 DEF FindSlab, Heap!vars
<1>3. CASE AddSlab
  BY <1>3 DEF AddSlab, Heap!vars
<1>4. CASE TakeObject
  <2> DEFINE list == slab[sp].free_list
  <2>1. /\ pc = "take" /\ list # <<>> /\ req' = 0
        /\ live' = live \cup {[ptr |-> list[1], size |-> req]}
    BY <1>4 DEF TakeObject, Return
  <2>2. /\ req \in 1..MaxSize /\ sp \in Slabs /\ SlabInv(sp)
    BY <2>1 DEF IInv, CallInv, SlabsInv
  <2>3. list \in Seq(Nat) /\ slab[sp].cache_idx \in Classes
    BY <2>2 DEF SlabInv
  <2>4. 1 \in 1..Len(list)
    <3> HIDE DEF list
    <3> QED
      BY <2>1, <2>3, EmptySeq, LenProperties
  <2>5. IsObject(sp, slab[sp].cache_idx, list[1]) /\ \A o \in LiveIn(sp) : list[1] # o.ptr
    BY <2>2, <2>4 DEF SlabInv
  <2>6. sp \in Nat
    BY <2>2, ConstantTypes DEF IInv, PagesInv
  <2>7. list[1] \in Nat
    BY <2>3, <2>5, <2>6, ObjectPlace
  <2>8. PageOf(list[1]) = sp
    <3> DEFINE a == list[1]
               i == slab[sp].cache_idx
    <3>1. a <= a /\ a < a + ObjSize[i]
      BY <2>3, <2>7, ConstantTypes
    <3> HIDE DEF a, i
    <3>2. IsObject(sp, i, a) /\ a \in Nat /\ i \in Classes
      BY <2>3, <2>5, <2>7 DEF a, i
    <3> QED
      BY <2>6, <3>1, <3>2, ObjectPage DEF a
  <2>9. \A p \in live : p.ptr # list[1]
    BY <2>5, <2>8 DEF LiveIn
  <2>10. req \in Nat \ {0}
    BY <2>2, ConstantTypes
  <2> HIDE DEF list
  <2> QED
    BY <2>1, <2>7, <2>9, <2>10, HeapGrant
<1>5. CASE AskPages
  BY <1>5 DEF AskPages, Heap!vars
<1>6. CASE GrantPages
  <2>1. PICK lo \in Region, hi \in Region :
          PA!Grant(lo, hi) /\ live' = live \cup {[ptr |-> lo * PGSIZE, size |-> req]}
    BY <1>6 DEF GrantPages
  <2>2. pc = "pages" /\ req' = 0
    BY <1>6 DEF GrantPages, Return
  <2>3. req > MaxSize /\ req \in Sizes \cup {0} /\ asked = PagesFor(req)
    BY <2>2 DEF IInv, CallInv
  <2>4. hi - lo + 1 >= PagesFor(req) /\ lo..hi \subseteq free
    BY <2>1, <2>3 DEF PA!Grant
  <2>5. lo \in Nat /\ hi \in Nat /\ req \in Nat \ {0}
    BY <2>3, ConstantTypes, SizesAssumption
  <2>6. /\ PageOf(lo * PGSIZE) = lo /\ lo * PGSIZE \in Nat /\ PagesFor(req) \in Nat
        /\ PageOf(lo * PGSIZE + req - 1) < lo + PagesFor(req)
    BY <2>5, PagesSuffice
  <2>7. lo \in lo..hi
    <3>1. lo <= PageOf(lo * PGSIZE + req - 1) /\ PageOf(lo * PGSIZE + req - 1) \in Nat
      <4>1. lo * PGSIZE + req - 1 \in Nat /\ lo * PGSIZE <= lo * PGSIZE + req - 1
        BY <2>5, <2>6
      <4> QED
        BY <2>6, <4>1, PageMonotone, PageBounds
    <3> QED
      BY <2>4, <2>5, <2>6, <3>1
  <2>8. \A p \in live : p.ptr # lo * PGSIZE
    <3>1. \A p \in live : PageOf(p.ptr) \in owned
      BY LiveObject
    <3>2. lo \notin owned
      BY <2>4, <2>7 DEF IInv, PagesInv
    <3> QED
      BY <2>6, <3>1, <3>2
  <2> QED
    BY <2>1, <2>2, <2>5, <2>6, <2>8, HeapGrant
<1>7. CASE KmallocNull
  <2>1. pc \in {"slab", "pages"} /\ req' = 0 /\ live' = live
    BY <1>7 DEF KmallocNull, Return
  <2>2. req # 0
    BY <2>1, ConstantTypes DEF IInv, CallInv
  <2>3. Heap!Refuse
    BY <2>1, <2>2 DEF Heap!Refuse
  <2> QED
    BY <2>3 DEF Heap!Next
<1>8. CASE \E size \in Sizes : kmalloc(size)
  BY <1>8 DEF kmalloc, IdleInv, Heap!Next, Heap!Ask
<1>9. CASE \E o \in live : kfree(o)
  BY <1>9 DEF kfree, IdleInv, Heap!Next, Heap!kfree
<1>10. CASE UNCHANGED vars
  BY <1>10 DEF vars, Heap!vars
<1> QED
  BY <1>1, <1>2, <1>3, <1>4, <1>5, <1>6, <1>7, <1>8, <1>9, <1>10 DEF Next, RunningCall

LEMMA Idle == Spec => []IdleInv
<1>1. Init => IdleInv
  BY DEF Init, IdleInv
<1>2. IdleInv /\ [Next]_vars => IdleInv'
  <2> SUFFICES ASSUME IdleInv, [Next]_vars PROVE IdleInv'
    OBVIOUS
  <2>1. CASE RunningCall
    BY <2>1 DEF RunningCall, KmallocZero, FindSlab, AddSlab, TakeObject, AskPages, GrantPages,
       KmallocNull, Return, IdleInv
  <2>2. CASE (\E size \in Sizes : kmalloc(size)) \/ (\E o \in live : kfree(o))
    BY <2>2 DEF kmalloc, kfree, IdleInv
  <2>3. CASE UNCHANGED vars
    BY <2>3 DEF vars, IdleInv
  <2> QED
    BY <2>1, <2>2, <2>3 DEF Next
<1> QED
  BY <1>1, <1>2, PTL DEF Spec

\* kmalloc and kfree keep the promise of a heap: bytes given out belong to
\* nobody else until they are freed (kmalloc, kfree).
THEOREM ImplementsObjects == Spec => ImplementsHeap
<1>1. Init => Heap!Init
  BY DEF Init, Heap!Init
<1>2. IInv' => HeapView'
  BY ViewFromInv, PTL
<1>3. IInv /\ IdleInv /\ IInv' /\ [Next]_vars => [Heap!Next]_(Heap!vars)
  BY <1>2, HeapStep
<1> QED
  BY <1>1, <1>3, Inductive, Idle, PTL DEF Spec, ImplementsHeap, Heap!Spec
=============================================================================
