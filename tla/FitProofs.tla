----------------------------- MODULE FitProofs -----------------------------
(***************************************************************************)
(* Proofs about the first-fit and best-fit managers, for every region and  *)
(* set of requests, and callers that free no block above all free ones.    *)
(***************************************************************************)
EXTENDS FitPmm, TLAPS, FiniteSetTheorems, Numbers

\* __list_del and __list_add, under names the provers accept.
Bypass(l, a, b) == __list_del(l, a, b)
Between(l, x, a, b) == __list_add(l, x, a, b)

ListMemory == [next : [Entries -> Entries], prev : [Entries -> Entries]]

-----------------------------------------------------------------------------
(* Deleting from a sorted list and inserting into one.                     *)

LEMMA EntryTypes ==
  /\ \A p \in Region : p \in Nat /\ p > free_list /\ p # free_list
  /\ \A e \in Entries : e \in Int /\ e >= free_list
  /\ free_list \in Int /\ free_list \in Entries /\ NULL = free_list
  /\ RegionBase \in Nat /\ RegionPages \in Nat \ {0} /\ RegionBase \in Region
  /\ \A p : p \in Region <=> p \in Int /\ RegionBase <= p /\ p < RegionBase + RegionPages
BY RegionAssumption DEF Region, Entries, free_list, NULL

\* The fields of a list memory after the assignments of __list_del.
LEMMA DelFields ==
  ASSUME NEW l \in ListMemory, NEW a \in Entries, NEW b \in Entries
  PROVE  /\ Bypass(l, a, b) \in ListMemory
         /\ \A e \in Entries :
              /\ Bypass(l, a, b).next[e] = IF e = a THEN b ELSE l.next[e]
              /\ Bypass(l, a, b).prev[e] = IF e = b THEN a ELSE l.prev[e]
<1>1. /\ Bypass(l, a, b).next = [l.next EXCEPT ![a] = b]
      /\ Bypass(l, a, b).prev = [l.prev EXCEPT ![b] = a]
  BY DEF ListMemory, Bypass, __list_del
<1>2. Bypass(l, a, b) \in ListMemory
  BY DEF ListMemory, Bypass, __list_del
<1>3. l.next \in [Entries -> Entries] /\ l.prev \in [Entries -> Entries]
  BY DEF ListMemory
<1> QED
  BY <1>1, <1>2, <1>3

\* The same of __list_add.
LEMMA AddFields ==
  ASSUME NEW l \in ListMemory, NEW a \in Entries, NEW b \in Entries, NEW x \in Entries
  PROVE  /\ Between(l, x, a, b) \in ListMemory
         /\ \A e \in Entries :
              /\ Between(l, x, a, b).next[e] =
                   IF e = x THEN b ELSE IF e = a THEN x ELSE l.next[e]
              /\ Between(l, x, a, b).prev[e] =
                   IF e = x THEN a ELSE IF e = b THEN x ELSE l.prev[e]
<1>1. /\ Between(l, x, a, b).next = [[l.next EXCEPT ![a] = x] EXCEPT ![x] = b]
      /\ Between(l, x, a, b).prev = [[l.prev EXCEPT ![b] = x] EXCEPT ![x] = a]
  BY DEF ListMemory, Between, __list_add
<1>2. Between(l, x, a, b) \in ListMemory
  BY DEF ListMemory, Between, __list_add
<1>3. l.next \in [Entries -> Entries] /\ l.prev \in [Entries -> Entries]
  BY DEF ListMemory
<1> QED
  BY <1>1, <1>2, <1>3

LEMMA DeleteLinked ==
  ASSUME NEW l \in ListMemory, NEW L \in SUBSET Region, Linked(l, L), NEW x \in L
  PROVE  /\ list_del(l, x) \in ListMemory
         /\ Linked(list_del(l, x), L \ {x})
<1> DEFINE a == l.prev[x]
           b == l.next[x]
           m == list_del(l, x)
           E == L \cup {free_list}
<1>1. \A e \in E :
        /\ l.next[e] \in E
        /\ l.prev[e] \in E
        /\ l.prev[l.next[e]] = e
        /\ l.next[l.prev[e]] = e
        /\ l.next[e] # free_list => l.next[e] > e
        /\ \A p \in L : p > e => l.next[e] # free_list /\ l.next[e] <= p
  BY DEF Linked, list_next, list_prev
<1>2. E \subseteq Entries /\ x \in E /\ x \in Region
  BY DEF Entries
<1>3. /\ a \in E /\ b \in E /\ l.next[a] = x /\ l.prev[b] = x /\ x # free_list
      /\ a # x /\ b # x /\ a < x
  <2>1. a \in E /\ b \in E /\ l.next[a] = x /\ l.prev[b] = x /\ x # free_list
    BY <1>1, <1>2, EntryTypes
  <2>2. a < x
    BY <1>1, <2>1
  <2>3. b # free_list => b > x
    BY <1>1, <1>2
  <2>4. a \in Int /\ b \in Int /\ x \in Int
    BY <1>2, <2>1, EntryTypes
  <2> QED
    BY <2>1, <2>2, <2>3, <2>4
<1> HIDE DEF a, b
<1>4. m = Bypass(l, a, b) /\ a \in Entries /\ b \in Entries
  BY <1>2, <1>3 DEF list_del, Bypass, __list_del, a, b
<1> HIDE DEF m
<1>5. /\ m \in ListMemory
      /\ m.next[a] = b /\ \A e \in Entries : e # a => m.next[e] = l.next[e]
      /\ m.prev[b] = a /\ \A e \in Entries : e # b => m.prev[e] = l.prev[e]
  <2>1. Bypass(l, a, b) \in ListMemory
    BY <1>4, DelFields
  <2>2. \A e \in Entries :
          /\ Bypass(l, a, b).next[e] = IF e = a THEN b ELSE l.next[e]
          /\ Bypass(l, a, b).prev[e] = IF e = b THEN a ELSE l.prev[e]
    BY <1>4, DelFields
  <2> QED
    BY <1>4, <2>1, <2>2
<1>8. ASSUME NEW e \in E, e # x
      PROVE  /\ m.next[e] \in E \ {x}
             /\ m.prev[m.next[e]] = e
             /\ m.next[e] # free_list => m.next[e] > e
             /\ \A p \in L \ {x} : p > e => m.next[e] # free_list /\ m.next[e] <= p
  <2>1. CASE e = a
    <3>1. m.next[e] = b /\ m.prev[b] = a
      BY <1>5, <2>1
    <3>2. b # free_list => b > x
      BY <1>1, <1>2 DEF b
    <3>3. ASSUME NEW p \in L \ {x}, p > a PROVE b # free_list /\ b <= p
      <4>1. x <= p
        BY <1>1, <1>3, <3>3
      <4>2. p > x
        BY <1>2, <4>1, EntryTypes
      <4> QED
        BY <1>1, <1>2, <4>2 DEF b
    <3>4. b # free_list => b > a
      BY <1>2, <1>3, <1>4, <3>2, EntryTypes
    <3> QED
      BY <1>3, <2>1, <3>1, <3>3, <3>4
  <2>2. CASE e # a
    <3>1. m.next[e] = l.next[e] /\ l.next[e] \in E
      BY <1>1, <1>2, <1>5, <2>2
    <3>2. l.next[e] # x
      BY <1>1, <2>2 DEF a
    <3>3. l.next[e] # b
      BY <1>1, <1>3, <1>8
    <3>4. m.prev[l.next[e]] = e
      BY <1>1, <1>2, <1>5, <3>1, <3>3
    <3> QED
      BY <1>1, <3>1, <3>2, <3>4
  <2> QED
    BY <2>1, <2>2
<1>9. ASSUME NEW e \in E, e # x
      PROVE  m.prev[e] \in E \ {x} /\ m.next[m.prev[e]] = e
  <2>1. CASE e = b
    BY <1>3, <1>5, <2>1
  <2>2. CASE e # b
    <3>1. m.prev[e] = l.prev[e] /\ l.prev[e] \in E /\ l.next[l.prev[e]] = e
      BY <1>1, <1>2, <1>5, <2>2
    <3>2. l.prev[e] # x
      BY <2>2, <3>1 DEF b
    <3>3. l.prev[e] # a
      BY <1>3, <1>9, <3>1
    <3> QED
      BY <1>2, <1>5, <3>1, <3>2, <3>3
  <2> QED
    BY <2>1, <2>2
<1>10. (L \ {x}) \cup {free_list} = E \ {x}
  BY <1>3
<1>11. Linked(m, L \ {x})
  BY <1>8, <1>9, <1>10 DEF Linked, list_next, list_prev
<1> QED
  BY <1>5, <1>11 DEF m

\* A block goes between an entry below it and the next one, above it.
LEMMA InsertLinked ==
  ASSUME NEW l \in ListMemory, NEW L \in SUBSET Region, Linked(l, L),
         NEW e \in L \cup {free_list}, NEW x \in Region, x \notin L, e < x,
         \A p \in L : p > e => p > x
  PROVE  /\ Between(l, x, e, l.next[e]) \in ListMemory
         /\ Linked(Between(l, x, e, l.next[e]), L \cup {x})
<1> DEFINE b == l.next[e]
           m == Between(l, x, e, b)
           E == L \cup {free_list}
<1>1. \A f \in E :
        /\ l.next[f] \in E
        /\ l.prev[f] \in E
        /\ l.prev[l.next[f]] = f
        /\ l.next[l.prev[f]] = f
        /\ l.next[f] # free_list => l.next[f] > f
        /\ \A p \in L : p > f => l.next[f] # free_list /\ l.next[f] <= p
  BY DEF Linked, list_next, list_prev
<1>2. /\ E \subseteq Entries /\ x \in Entries /\ b \in E /\ l.prev[b] = e
      /\ x # free_list /\ x \notin E /\ e # x /\ b # x
  BY <1>1, EntryTypes DEF Entries
<1> HIDE DEF b
<1>3. e \in Entries /\ b \in Entries
  BY <1>2
<1> HIDE DEF m
<1>6. /\ m \in ListMemory
      /\ m.next[x] = b /\ m.next[e] = x
      /\ \A f \in Entries : f # e /\ f # x => m.next[f] = l.next[f]
      /\ m.prev[x] = e /\ m.prev[b] = x
      /\ \A f \in Entries : f # b /\ f # x => m.prev[f] = l.prev[f]
  <2>1. m \in ListMemory
    BY <1>2, <1>3, AddFields DEF m
  <2>2. \A f \in Entries :
          /\ m.next[f] = IF f = x THEN b ELSE IF f = e THEN x ELSE l.next[f]
          /\ m.prev[f] = IF f = x THEN e ELSE IF f = b THEN x ELSE l.prev[f]
    BY <1>2, <1>3, AddFields DEF m
  <2> QED
    BY <1>2, <1>3, <2>1, <2>2
<1>7. ASSUME NEW f \in E \cup {x}
      PROVE  /\ m.next[f] \in E \cup {x}
             /\ m.prev[m.next[f]] = f
             /\ m.next[f] # free_list => m.next[f] > f
             /\ \A p \in L \cup {x} : p > f => m.next[f] # free_list /\ m.next[f] <= p
  <2>1. CASE f = x
    <3>1. b # free_list => b > x
      BY <1>1, <1>2 DEF b
    <3>2. ASSUME NEW p \in L \cup {x}, p > x PROVE b # free_list /\ b <= p
      <4>1. p \in L /\ p > e
        BY <1>2, <3>2, EntryTypes
      <4> QED
        BY <1>1, <4>1 DEF b
    <3> QED
      BY <1>2, <1>6, <2>1, <3>1, <3>2
  <2>2. CASE f = e
    <3>1. \A p \in L \cup {x} : p > e => x <= p
      BY EntryTypes
    <3> QED
      BY <1>2, <1>6, <2>2, <3>1
  <2>3. CASE f # x /\ f # e
    <3>1. f \in E /\ m.next[f] = l.next[f] /\ l.next[f] \in E
      BY <1>1, <1>2, <1>6, <2>3
    <3>2. l.next[f] # b
      BY <1>1, <1>2, <2>3, <3>1
    <3>3. m.prev[l.next[f]] = f
      BY <1>1, <1>2, <1>6, <3>1, <3>2
    <3>4. ASSUME x > f PROVE l.next[f] # free_list /\ l.next[f] <= x
      <4>1. e > f
        <5>1. CASE f \in L
          BY <1>2, <2>3, <3>4, <5>1, EntryTypes
        <5>2. CASE f = free_list
          BY <1>2, <2>3, <5>2, EntryTypes
        <5> QED
          BY <3>1, <5>1, <5>2
      <4>2. e \in L
        BY <1>2, <3>1, <4>1, EntryTypes
      <4>3. l.next[f] # free_list /\ l.next[f] <= e
        BY <1>1, <3>1, <4>1, <4>2
      <4>4. l.next[f] \in Int /\ e \in Int /\ x \in Int
        BY <1>2, <3>1, EntryTypes
      <4> QED
        BY <4>3, <4>4
    <3> QED
      BY <1>1, <3>1, <3>3, <3>4
  <2> QED
    BY <2>1, <2>2, <2>3
<1>8. ASSUME NEW f \in E \cup {x}
      PROVE  m.prev[f] \in E \cup {x} /\ m.next[m.prev[f]] = f
  <2>1. CASE f = x
    BY <1>6, <2>1
  <2>2. CASE f = b
    BY <1>6, <2>2
  <2>3. CASE f # x /\ f # b
    <3>1. f \in E /\ m.prev[f] = l.prev[f] /\ l.prev[f] \in E /\ l.next[l.prev[f]] = f
      BY <1>1, <1>2, <1>6, <2>3
    <3>2. l.prev[f] # e
      BY <2>3, <3>1 DEF b
    <3> QED
      BY <1>2, <1>6, <3>1, <3>2
  <2> QED
    BY <2>1, <2>2, <2>3
<1>9. (L \cup {x}) \cup {free_list} = E \cup {x}
  OBVIOUS
<1>10. Linked(m, L \cup {x})
  BY <1>7, <1>8, <1>9 DEF Linked, list_next, list_prev
<1> QED
  BY <1>6, <1>10 DEF m, b
-----------------------------------------------------------------------------
(* The walk over the list meets every block.                               *)

\* The recursive function exists.
LEMMA WalkUnfolds ==
  /\ Walk[0] = free_list
  /\ \A i \in 1..(RegionPages + 1) : Walk[i] = list_next(links, Walk[i - 1])
<1> DEFINE IsWalk(n, f) ==
             f = [i \in 0..n |-> IF i = 0 THEN free_list ELSE list_next(links, f[i - 1])]
           T == {n \in Nat : ~ \E f : IsWalk(n, f)}
<1>1. T = {}
  <2>1. SUFFICES ASSUME T # {} PROVE FALSE
    OBVIOUS
  <2>2. PICK n \in T : \A m \in T : n <= m
    <3>1. T \in SUBSET Nat
      OBVIOUS
    <3> HIDE DEF T
    <3> QED
      BY <2>1, <3>1, LeastNatural
  <2>3. CASE n = 0
    <3> DEFINE f == [i \in 0..0 |-> free_list]
    <3>1. IsWalk(0, f)
      OBVIOUS
    <3> QED
      BY <2>2, <2>3, <3>1
  <2>4. CASE n # 0
    <3>1. n - 1 \in Nat /\ n - 1 \notin T /\ n \in Nat
      <4>1. n \in Nat
        BY <2>2
      <4> HIDE DEF T
      <4> QED
        BY <2>2, <2>4, <4>1
    <3>2. PICK f : IsWalk(n - 1, f)
      BY <3>1
    <3> DEFINE g == [i \in 0..n |-> IF i = n THEN list_next(links, f[n - 1]) ELSE f[i]]
    <3>3. ASSUME NEW i \in 0..n
          PROVE  g[i] = IF i = 0 THEN free_list ELSE list_next(links, g[i - 1])
      <4>1. CASE i = 0
        BY <2>4, <3>1, <3>2, <4>1
      <4>2. CASE i # 0 /\ i # n
        <5>1. i \in 0..(n - 1) /\ i - 1 \in 0..n /\ i - 1 # n
          BY <3>1, <4>2
        <5> QED
          BY <3>2, <4>2, <5>1
      <4>3. CASE i = n
        <5>1. n - 1 \in 0..n /\ n - 1 # n
          BY <3>1
        <5> QED
          BY <2>4, <4>3, <5>1
      <4> QED
        BY <4>1, <4>2, <4>3
    <3>4. IsWalk(n, g)
      BY <3>3
    <3> QED
      BY <2>2, <3>4
  <2> QED
    BY <2>3, <2>4
<1>2. \E f : IsWalk(RegionPages + 1, f)
  BY <1>1, EntryTypes, RegionPages + 1 \in Nat
<1>3. IsWalk(RegionPages + 1, Walk)
  <2>1. Walk = CHOOSE f : IsWalk(RegionPages + 1, f)
    BY DEF Walk
  <2> QED
    BY <1>2, <2>1
<1> QED
  BY <1>3, EntryTypes

LEMMA ListedIsOnList ==
  ASSUME LinksInv, PageProperty \subseteq Region
  PROVE  Listed = OnList
<1> DEFINE L == OnList
           N == RegionPages + 1
<1>1. L \subseteq Region /\ N \in Nat
  <2>1. L \subseteq Region
    BY DEF OnList
  <2> QED
    BY <2>1, EntryTypes
<1>2. Linked(links, L)
  BY DEF LinksInv
<1> HIDE DEF L
<1>3. Listed \subseteq L
  <2> DEFINE T == {i \in 0..N : Walk[i] \notin L \cup {free_list}}
  <2>1. T = {}
    <3>1. SUFFICES ASSUME T # {} PROVE FALSE
      OBVIOUS
    <3>2. PICK i \in T : \A j \in T : i <= j
      <4>1. T \in SUBSET Nat
        OBVIOUS
      <4> HIDE DEF T
      <4> QED
        BY <3>1, <4>1, LeastNatural
    <3>3. i # 0
      BY <3>2, WalkUnfolds
    <3>4. i \in 1..N /\ i - 1 \in 0..N /\ i - 1 \notin T
      BY <1>1, <3>2, <3>3
    <3>5. Walk[i - 1] \in L \cup {free_list} /\ Walk[i] = list_next(links, Walk[i - 1])
      BY <3>4, WalkUnfolds
    <3>6. Walk[i] \in L \cup {free_list}
      BY <1>2, <3>5 DEF Linked
    <3> QED
      BY <3>2, <3>6
  <2>2. \A i \in 1..N : i \in 0..N
    BY <1>1
  <2> QED
    BY <2>1, <2>2 DEF Listed
<1>4. L \subseteq Listed
  <2> DEFINE Met(p) == \E i \in 1..(p - RegionBase + 1) : i \in 1..N /\ Walk[i] = p
             T == {p \in L : ~Met(p)}
  <2>1. T = {}
    <3>1. SUFFICES ASSUME T # {} PROVE FALSE
      OBVIOUS
    <3>2. PICK p \in T : \A q \in T : p <= q
      <4>1. T \in SUBSET Nat
        BY <1>1, EntryTypes
      <4> HIDE DEF T
      <4> QED
        BY <3>1, <4>1, LeastNatural
    <3> DEFINE e == list_prev(links, p)
    <3>3. /\ e \in L \cup {free_list} /\ list_next(links, e) = p
          /\ p # free_list /\ p \in L /\ p \in Region
      BY <1>1, <1>2, <3>2, EntryTypes DEF Linked
    <3>4. e < p
      BY <1>2, <3>3 DEF Linked
    <3>5. p \in Int /\ RegionBase <= p /\ p < RegionBase + RegionPages
      BY <3>3, EntryTypes
    <3> HIDE DEF e
    <3>6. CASE e = free_list
      <4>1. Walk[1] = p
        BY <1>1, <3>3, <3>6, WalkUnfolds, EntryTypes
      <4>2. 1 \in 1..(p - RegionBase + 1) /\ 1 \in 1..N
        BY <3>5, EntryTypes
      <4> QED
        BY <3>2, <4>1, <4>2
    <3>7. CASE e \in L
      <4>1. e \notin T
        <5>1. e \in Int
          BY <1>1, <3>7, EntryTypes
        <5> QED
          BY <3>2, <3>4, <3>5, <5>1
      <4>2. PICK i \in 1..(e - RegionBase + 1) : i \in 1..N /\ Walk[i] = e
        BY <3>7, <4>1
      <4>3. e \in Int /\ RegionBase \in Int /\ i \in Int
        BY <1>1, <3>7, EntryTypes
      <4>4. /\ i + 1 \in 1..(p - RegionBase + 1) /\ i + 1 \in 1..N
            /\ (i + 1) - 1 = i
        BY <3>4, <3>5, <4>2, <4>3, EntryTypes
      <4>5. Walk[i + 1] = p
        BY <3>3, <4>2, <4>4, WalkUnfolds
      <4> QED
        BY <3>2, <4>4, <4>5
    <3> QED
      BY <3>3, <3>6, <3>7
  <2>2. ASSUME NEW p \in L PROVE p \in Listed
    <3>1. PICK i \in 1..N : Walk[i] = p
      BY <2>1
    <3>2. p # free_list
      BY <1>1, EntryTypes
    <3> QED
      BY <3>1, <3>2 DEF Listed
  <2> QED
    BY <2>2
<1> QED
  BY <1>3, <1>4 DEF L
-----------------------------------------------------------------------------
(* What the invariant says of the blocks.                                  *)

LEMMA RegionFinite ==
  ASSUME NEW O
  PROVE  IsFiniteSet(Region \ O) /\ Cardinality(Region \ O) \in Nat
<1>1. IsFiniteSet(Region)
  BY FS_Interval, EntryTypes DEF Region
<1>2. IsFiniteSet(Region \ O)
  BY <1>1, FS_Difference
<1> QED
  BY <1>2, FS_CardinalityType

LEMMA Block ==
  ASSUME BlocksInv, NEW p \in PageProperty
  PROVE  /\ p \in Region /\ p \in Nat
         /\ property[p] \in Nat \ {0} /\ p + property[p] <= RegionBase + RegionPages
         /\ Pages(p) \subseteq Region \ owned
         /\ p \in Pages(p)
         /\ property[p] <= nr_free
<1>1. /\ p \in Region /\ p \in Nat /\ RegionBase <= p
      /\ property[p] \in Nat \ {0} /\ p + property[p] <= RegionBase + RegionPages
  BY EntryTypes DEF BlocksInv
<1>2. Pages(p) \subseteq Region \ owned
  BY DEF BlocksInv
<1>3. p \in Pages(p)
  BY <1>1 DEF Pages
<1>4. property[p] <= nr_free
  <2>1. IsFiniteSet(Region \ owned)
    BY RegionFinite
  <2>2. Cardinality(Pages(p)) = property[p]
    <3>1. PICK hi \in Int : hi = p + property[p] - 1 /\ p <= hi /\ hi - p + 1 = property[p]
      BY <1>1
    <3>2. Cardinality(p .. hi) = hi - p + 1
      BY <1>1, <3>1, FS_Interval
    <3> QED
      BY <3>1, <3>2 DEF Pages
  <2> QED
    BY <1>2, <2>1, <2>2, FS_Subset DEF BlocksInv
<1> QED
  BY <1>1, <1>2, <1>3, <1>4

LEMMA BlocksApart ==
  ASSUME BlocksInv, NEW p \in PageProperty, NEW q \in PageProperty, p # q
  PROVE  Pages(p) \cap Pages(q) = {}
<1>1. /\ p \in Nat /\ property[p] \in Nat /\ q \in Nat /\ property[q] \in Nat
  BY Block
<1>2. p + property[p] <= q \/ q + property[q] <= p
  BY <1>1 DEF BlocksInv
<1> QED
  BY <1>1, <1>2 DEF Pages

LEMMA Lists ==
  ASSUME IInv
  PROVE  /\ Listed = OnList
         /\ FreePages \cup HandPages = Region \ owned
         /\ FreePages \cap HandPages = {}
<1>1. Listed = OnList
  BY ListedIsOnList DEF IInv, BlocksInv
<1>2. UNION {Pages(p) : p \in PageProperty} = Region \ owned
  BY DEF IInv, BlocksInv
<1>3. CASE pc = "insert"
  <2>1. page \in PageProperty /\ Listed = PageProperty \ {page} /\ HandPages = Pages(page)
    BY <1>1, <1>3 DEF OnList, IInv, CallInv, HandPages
  <2>2. FreePages \cup HandPages = UNION {Pages(p) : p \in PageProperty}
    BY <2>1 DEF FreePages
  <2>3. \A p \in PageProperty \ {page} : Pages(p) \cap Pages(page) = {}
    BY <2>1, BlocksApart DEF IInv
  <2> QED
    BY <1>1, <1>2, <2>1, <2>2, <2>3 DEF FreePages
<1>4. CASE pc # "insert"
  BY <1>1, <1>2, <1>4 DEF OnList, HandPages, FreePages
<1> QED
  BY <1>3, <1>4

LEMMA WellLinkedFromInv == IInv => WellLinked
BY Lists DEF IInv, LinksInv, Linked, WellLinked

LEMMA AccountedFromInv == IInv => Accounted
<1> SUFFICES ASSUME IInv PROVE Accounted
  OBVIOUS
<1>1. Listed \subseteq PageProperty
  BY Lists DEF OnList
<1>2. \A p, q \in Listed : p # q => Pages(p) \cap Pages(q) = {}
  BY <1>1, BlocksApart DEF IInv
<1> QED
  BY <1>2, Lists DEF Accounted, IInv, BlocksInv

LEMMA TypesFromInv == IInv => TypeOK
<1> SUFFICES ASSUME IInv PROVE TypeOK
  OBVIOUS
<1>1. nr_free \in 0..RegionPages
  <2>1. Cardinality(Region) = RegionPages /\ IsFiniteSet(Region)
    BY FS_Interval, EntryTypes DEF Region
  <2>2. Cardinality(Region \ owned) <= Cardinality(Region)
    BY <2>1, FS_Subset
  <2>3. Cardinality(Region \ owned) \in Nat /\ nr_free = Cardinality(Region \ owned)
    BY RegionFinite DEF IInv, BlocksInv
  <2> QED
    BY <2>1, <2>2, <2>3, EntryTypes
<1> QED
  BY <1>1 DEF TypeOK, IInv, LinksInv, BlocksInv, CallInv

LEMMA CoalescedFromInv == IInv => Coalesced
BY Lists DEF IInv, JoinInv, OnList, Coalesced

LEMMA UnlinkedFromInv == IInv => GrantedUnlinked
<1> SUFFICES ASSUME IInv, pc = "idle"
             PROVE  Listed \cap owned = {} /\ PageProperty = Listed
  BY DEF GrantedUnlinked
<1>1. PageProperty = Listed
  BY Lists DEF OnList
<1>2. \A p \in PageProperty : p \notin owned
  BY Block DEF IInv
<1> QED
  BY <1>1, <1>2

\* While a search goes on, a run of free pages lies in one block.
LEMMA RunInBlock ==
  ASSUME IInv, pc \in {"scan", "take", "null"},
         NEW p \in Int, NEW q \in Int, p <= q, p..q \subseteq FreePages
  PROVE  \E b \in PageProperty : b <= p /\ q < b + property[b]
<1>1. Listed = PageProperty
  BY Lists DEF OnList
<1>2. PICK b \in PageProperty : p \in Pages(b)
  BY <1>1 DEF FreePages
<1>3. b \in Nat /\ property[b] \in Nat \ {0} /\ b <= p /\ p < b + property[b]
  BY <1>2, Block DEF IInv, Pages
<1>4. q < b + property[b]
  <2> DEFINE c == b + property[b]
  <2>1. SUFFICES ASSUME c <= q PROVE FALSE
    BY <1>3
  <2>2. c \in p..q
    BY <1>3, <2>1
  <2>3. PICK d \in PageProperty : c \in Pages(d)
    BY <1>1, <2>2 DEF FreePages
  <2>4. d \in Nat /\ property[d] \in Nat \ {0} /\ d <= c /\ c < d + property[d]
    BY <1>3, <2>3, Block DEF IInv, Pages
  <2>5. d # b
    BY <1>3, <2>4
  <2>6. ~(d < b)
    BY <1>3, <2>4 DEF IInv, BlocksInv
  <2>7. b < d /\ c <= d
    BY <1>3, <2>4, <2>5, <2>6 DEF IInv, BlocksInv
  <2>8. c = d
    BY <1>3, <2>4, <2>7
  <2> QED
    BY <2>8 DEF IInv, JoinInv
<1> QED
  BY <1>3, <1>4

LEMMA SearchFromInv == IInv => SearchExact
<1> SUFFICES ASSUME IInv PROVE SearchExact
  OBVIOUS
<1>1. pc \in {"scan", "take", "null"} => arg \in Nat \ {0}
  BY RequestsAssumption DEF IInv, CallInv
<1>2. ASSUME NEW p \in Region, pc \in {"take", "null"},
             p .. (p + arg - 1) \subseteq FreePages
      PROVE  \E b \in PageProperty : b <= p /\ property[b] >= arg
  <2>1. p \in Int /\ p + arg - 1 \in Int /\ p <= p + arg - 1
    BY <1>1, <1>2, EntryTypes
  <2>2. PICK b \in PageProperty : b <= p /\ p + arg - 1 < b + property[b]
    BY <1>2, <2>1, RunInBlock
  <2>3. b \in Nat /\ property[b] \in Nat
    BY Block DEF IInv
  <2> QED
    BY <1>1, <1>2, <2>1, <2>2, <2>3
<1>3. NullJustified
  <2> SUFFICES ASSUME pc = "null", NEW p \in Region, p .. (p + arg - 1) \subseteq FreePages
               PROVE  FALSE
    BY DEF NullJustified
  <2>1. PICK b \in PageProperty : property[b] >= arg
    BY <1>2
  <2>2. property[b] < arg /\ property[b] \in Nat
    BY Block DEF IInv, CallInv
  <2> QED
    BY <1>1, <2>1, <2>2
<1>4. LowestFit
  <2> SUFFICES ASSUME pc = "take", ~BestFit, NEW p \in Region,
                      p .. (p + arg - 1) \subseteq FreePages
               PROVE  page <= p
    BY DEF LowestFit
  <2>1. PICK b \in PageProperty : b <= p /\ property[b] >= arg
    BY <1>2
  <2>2. page <= b /\ page \in PageProperty
    BY <2>1 DEF IInv, CallInv
  <2> QED
    BY <2>1, <2>2, Block, EntryTypes DEF IInv
<1>5. TightestFit
  <2> SUFFICES ASSUME pc = "take", BestFit, NEW p \in Region, NEW q \in Region,
                      p .. q \subseteq FreePages,
                      p - 1 \notin FreePages, q + 1 \notin FreePages,
                      q - p + 1 >= arg
               PROVE  property[page] <= q - p + 1
    BY DEF TightestFit
  <2>1. p \in Nat /\ q \in Nat /\ p <= q
    BY <1>1, EntryTypes
  <2>2. PICK b \in PageProperty : b <= p /\ q < b + property[b]
    BY <2>1, RunInBlock
  <2>3. b \in Nat /\ property[b] \in Nat
    BY Block DEF IInv
  <2>4. \A r \in b .. (b + property[b] - 1) : r \in FreePages
    BY Lists DEF FreePages, Pages, OnList
  <2>5. ~(p - 1 >= b) /\ ~(q + 1 <= b + property[b] - 1)
    BY <2>1, <2>2, <2>3, <2>4
  <2>6. property[b] = q - p + 1
    BY <2>1, <2>2, <2>3, <2>5
  <2>7. property[page] <= property[b]
    BY <2>2, <2>6 DEF IInv, CallInv
  <2> QED
    BY <2>6, <2>7
<1> QED
  BY <1>3, <1>4, <1>5 DEF SearchExact
-----------------------------------------------------------------------------
(* Each step keeps the invariant.                                          *)

\* A step that changes neither the list nor the blocks.
LEMMA CallKeeps ==
  ASSUME IInv, UNCHANGED <<links, property, PageProperty, nr_free, owned>>,
         pc = "insert" <=> pc' = "insert", pc = "insert" => page' = page
  PROVE  LinksInv' /\ BlocksInv'
<1>1. OnList' = OnList
  BY DEF OnList
<1>2. LinksInv'
  BY <1>1 DEF IInv, LinksInv
<1>3. BlocksInv'
  BY DEF IInv, BlocksInv, Pages
<1> QED
  BY <1>2, <1>3

LEMMA AllocStep ==
  ASSUME IInv, NEW n \in Nat \ {0}, alloc_pages(n), UNCHANGED pmm_manager
  PROVE  IInv'
<1>1. /\ pc = "idle" /\ pc' = (IF n > nr_free THEN "null" ELSE "scan") /\ arg' = n
      /\ UNCHANGED <<links, property, PageProperty, nr_free, le, page, owned>>
  BY DEF alloc_pages
<1>2. LinksInv' /\ BlocksInv'
  BY <1>1, CallKeeps
<1>3. JoinInv'
  BY <1>1 DEF IInv, JoinInv
<1>4. n \in Nat \ {0} /\ nr_free \in Int
  <2>2. nr_free \in Nat
    BY RegionFinite DEF IInv, BlocksInv
  <2> QED
    BY <2>2, RequestsAssumption
<1>5. CallInv'
  <2>1. le = free_list /\ page = NULL
    BY <1>1 DEF IInv, CallInv
  <2>2. \A p \in PageProperty : p \in Nat /\ property[p] \in Nat /\ property[p] <= nr_free
    BY Block DEF IInv
  <2>3. \A p \in PageProperty : ~(p <= free_list)
    BY <2>2 DEF free_list
  <2>4. n > nr_free => \A p \in PageProperty : property[p] < n
    BY <1>4, <2>2
  <2>5. CASE n > nr_free
    BY <1>1, <1>4, <2>1, <2>4, <2>5 DEF IInv, CallInv, PCs
  <2>6. CASE ~(n > nr_free)
    BY <1>1, <1>4, <2>1, <2>3, <2>6 DEF IInv, CallInv, PCs, OnList
  <2> QED
    BY <2>5, <2>6
<1> QED
  BY <1>2, <1>3, <1>5 DEF IInv

\* The next entry a search looks at, and the blocks up to it.
LEMMA NextBlock ==
  ASSUME IInv, pc = "scan", list_next(links, le) # free_list
  PROVE  LET n == list_next(links, le)
         IN  /\ n \in PageProperty /\ le < n
             /\ \A p \in PageProperty : p <= n => p <= le \/ p = n
<1> DEFINE n == list_next(links, le)
<1>1. OnList = PageProperty /\ le \in PageProperty \cup {free_list}
  BY DEF OnList, IInv, CallInv
<1>2. n \in PageProperty /\ n > le
  BY <1>1 DEF IInv, LinksInv, Linked
<1>3. \A p \in PageProperty : p > le => n <= p
  BY <1>1 DEF IInv, LinksInv, Linked
<1>4. le \in Int /\ n \in Int /\ \A p \in PageProperty : p \in Int
  BY <1>1, <1>2, EntryTypes DEF IInv, BlocksInv
<1> HIDE DEF n
<1>5. \A p \in PageProperty : p <= n => p <= le \/ p = n
  BY <1>3, <1>4
<1> QED
  BY <1>2, <1>4, <1>5 DEF n

LEMMA ScanFirstStep ==
  ASSUME IInv, ScanFirst, UNCHANGED pmm_manager
  PROVE  IInv'
<1> DEFINE n == list_next(links, le)
<1>1. /\ pc = "scan" /\ ~BestFit /\ n # free_list /\ le' = n
      /\ IF property[n] >= arg
         THEN page' = n /\ pc' = "take"
         ELSE UNCHANGED <<page, pc>>
      /\ UNCHANGED <<links, property, PageProperty, nr_free, arg, owned>>
  BY DEF ScanFirst, Fits
<1>2. /\ n \in PageProperty /\ le < n
      /\ \A p \in PageProperty : p <= n => p <= le \/ p = n
  BY <1>1, NextBlock
<1>3. LinksInv' /\ BlocksInv'
  BY <1>1, CallKeeps
<1>4. JoinInv'
  BY <1>1 DEF IInv, JoinInv
<1> HIDE DEF n
<1>5. /\ page = NULL /\ arg \in Nat
      /\ \A p \in PageProperty : p <= le => ~(property[p] >= arg)
  BY <1>1 DEF IInv, CallInv
<1>6. n \in Entries /\ n \in Int /\ \A p \in PageProperty : p \in Int
  BY <1>2, EntryTypes DEF IInv, BlocksInv, Entries
<1>7. CASE property[n] >= arg
  <2>1. \A p \in PageProperty : property[p] >= arg => n <= p
    BY <1>2, <1>5, <1>6
  <2> QED
    BY <1>1, <1>2, <1>3, <1>4, <1>5, <1>6, <1>7, <2>1
       DEF IInv, CallInv, PCs, BestFit
<1>8. CASE ~(property[n] >= arg)
  <2>1. \A p \in PageProperty : p <= n => ~(property[p] >= arg)
    BY <1>2, <1>5, <1>8
  <2>2. page' = NULL /\ pc' = "scan" /\ n \in OnList'
    BY <1>1, <1>2, <1>5, <1>8 DEF OnList
  <2> QED
    BY <1>1, <1>2, <1>3, <1>4, <1>5, <1>6, <2>1, <2>2
       DEF IInv, CallInv, PCs, BestFit
<1> QED
  BY <1>7, <1>8

LEMMA ScanBestStep ==
  ASSUME IInv, ScanBest, UNCHANGED pmm_manager
  PROVE  IInv'
<1> DEFINE n == list_next(links, le)
<1>1. /\ pc = "scan" /\ BestFit /\ n # free_list /\ le' = n
      /\ page' = IF property[n] >= arg /\ property[n] < min_size THEN n ELSE page
      /\ UNCHANGED <<links, property, PageProperty, nr_free, pc, arg, owned>>
  BY DEF ScanBest, Fits
<1>2. /\ n \in PageProperty /\ le < n
      /\ \A p \in PageProperty : p <= n => p <= le \/ p = n
  BY <1>1, NextBlock
<1>3. LinksInv' /\ BlocksInv'
  BY <1>1, CallKeeps
<1>4. JoinInv'
  BY <1>1 DEF IInv, JoinInv
<1> HIDE DEF n
<1>5. /\ arg # 0 /\ arg \in Nat
      /\ page # NULL => page \in PageProperty /\ property[page] >= arg
      /\ \A p \in PageProperty :
           p <= le /\ property[p] >= arg => page # NULL /\ property[page] <= property[p]
  BY <1>1, RequestsAssumption DEF IInv, CallInv
<1>6. /\ n \in Entries /\ n # NULL
      /\ \A p \in PageProperty :
           p \in Nat /\ property[p] \in Nat /\ property[p] <= nr_free
      /\ nr_free \in Int
  <2>2. nr_free \in Nat
    BY RegionFinite DEF IInv, BlocksInv
  <2>3. n \in Entries /\ n # NULL
    BY <1>2, EntryTypes DEF IInv, BlocksInv, Entries
  <2> QED
    BY <2>2, <2>3, Block DEF IInv
<1>7. /\ page' # NULL => page' \in PageProperty /\ property[page'] >= arg
      /\ \A p \in PageProperty :
           p <= n /\ property[p] >= arg => page' # NULL /\ property[page'] <= property[p]
  <2>1. CASE page = NULL
    <3>1. min_size = nr_free + 1
      BY <2>1 DEF min_size
    <3>2. property[n] < min_size
      BY <1>2, <1>6, <3>1
    <3>3. \A p \in PageProperty : p <= n /\ property[p] >= arg => p = n
      BY <1>2, <1>5, <2>1
    <3>4. page' = IF property[n] >= arg THEN n ELSE NULL
      BY <1>1, <2>1, <3>2
    <3> QED
      BY <1>2, <1>6, <3>3, <3>4
  <2>2. CASE page # NULL
    <3>1. min_size = property[page]
      BY <2>2 DEF min_size
    <3>2. page \in PageProperty /\ property[page] \in Nat /\ property[n] \in Nat
      BY <1>2, <1>5, <1>6, <2>2
    <3>3. CASE property[n] >= arg /\ property[n] < property[page]
      <4>1. page' = n
        BY <1>1, <3>1, <3>3
      <4> QED
        BY <1>2, <1>5, <1>6, <3>2, <3>3, <4>1
    <3>4. CASE ~(property[n] >= arg /\ property[n] < property[page])
      <4>1. page' = page
        BY <1>1, <3>1, <3>4
      <4>2. property[n] >= arg => property[page] <= property[n]
        BY <3>2, <3>4
      <4> QED
        BY <1>2, <1>5, <2>2, <4>1, <4>2
    <3> QED
      BY <3>3, <3>4
  <2> QED
    BY <2>1, <2>2
<1>8. CallInv'
  <2>1. pc' = "scan" /\ le' = n /\ n \in OnList' /\ arg' = arg /\ page' \in Entries
    BY <1>1, <1>2, <1>6 DEF OnList, IInv, CallInv
  <2> QED
    BY <1>1, <1>5, <1>6, <1>7, <2>1 DEF IInv, CallInv, PCs, BestFit
<1> QED
  BY <1>3, <1>4, <1>8 DEF IInv

LEMMA ScanEndStep ==
  ASSUME IInv, ScanEnd, UNCHANGED pmm_manager
  PROVE  IInv'
<1>1. /\ pc = "scan" /\ list_next(links, le) = free_list
      /\ pc' = (IF page = NULL THEN "null" ELSE "take")
      /\ UNCHANGED <<links, property, PageProperty, nr_free, le, page, arg, owned>>
  BY DEF ScanEnd
<1>2. LinksInv' /\ BlocksInv'
  BY <1>1, CallKeeps
<1>3. JoinInv'
  BY <1>1 DEF IInv, JoinInv
<1>4. OnList = PageProperty /\ le \in PageProperty \cup {free_list}
  BY <1>1 DEF OnList, IInv, CallInv
<1>5. \A p \in PageProperty : ~(p > le)
  BY <1>1, <1>4 DEF IInv, LinksInv, Linked
<1>6. /\ le \in Int /\ \A p \in PageProperty : p \in Int /\ property[p] \in Nat
      /\ arg \in Nat
  BY <1>4, Block, EntryTypes, RequestsAssumption DEF IInv, BlocksInv, CallInv
<1>7. \A p \in PageProperty : p <= le
  BY <1>5, <1>6
<1>8. CallInv'
  <2>1. CASE page = NULL
    <3>1. \A p \in PageProperty : property[p] < arg
      BY <1>1, <1>6, <1>7, <2>1 DEF IInv, CallInv
    <3> QED
      BY <1>1, <2>1, <3>1 DEF IInv, CallInv, PCs
  <2>2. CASE page # NULL
    <3>1. /\ BestFit /\ page \in PageProperty /\ property[page] >= arg
          /\ \A p \in PageProperty : property[p] >= arg => property[page] <= property[p]
      BY <1>1, <1>7, <2>2 DEF IInv, CallInv
    <3> QED
      BY <1>1, <2>2, <3>1 DEF IInv, CallInv, PCs, BestFit
  <2> QED
    BY <2>1, <2>2
<1> QED
  BY <1>2, <1>3, <1>8 DEF IInv

LEMMA AllocNullStep ==
  ASSUME IInv, AllocNull, UNCHANGED pmm_manager
  PROVE  IInv'
<1>1. /\ pc = "null" /\ pc' = "idle" /\ le' = free_list /\ page' = NULL /\ arg' = 0
      /\ UNCHANGED <<links, property, PageProperty, nr_free, owned>>
  BY DEF AllocNull, ReturnToCaller
<1>2. LinksInv' /\ BlocksInv'
  BY <1>1, CallKeeps
<1>3. JoinInv' /\ CallInv'
  BY <1>1, EntryTypes DEF IInv, JoinInv, CallInv, PCs
<1> QED
  BY <1>2, <1>3 DEF IInv
\* Pages leave or return: what is left of the region.
LEMMA CountWithout ==
  ASSUME NEW O \in SUBSET Region, NEW lo \in Nat, NEW n \in Nat,
         lo .. (lo + n - 1) \subseteq Region \ O
  PROVE  Cardinality(Region \ (O \cup lo .. (lo + n - 1))) = Cardinality(Region \ O) - n
<1> DEFINE S == Region \ O
           R == lo .. (lo + n - 1)
<1>1. Region \ (O \cup R) = S \ R /\ S \cap R = R
  OBVIOUS
<1>2. IsFiniteSet(S)
  BY RegionFinite
<1>3. Cardinality(R) = n
  BY FS_Interval
<1> HIDE DEF S, R
<1>4. Cardinality(S \ R) = Cardinality(S) - Cardinality(S \cap R)
  BY <1>2, FS_Difference
<1> QED
  BY <1>1, <1>3, <1>4 DEF S, R

\* The entry before a block, and the blocks around both.
LEMMA PreviousBlock ==
  ASSUME IInv, pc # "insert", NEW s \in PageProperty
  PROVE  LET e == list_prev(links, s)
         IN  /\ e \in PageProperty \cup {free_list} /\ e < s
             /\ list_next(links, e) = s
             /\ \A p \in PageProperty : p > e => p >= s
<1> DEFINE e == list_prev(links, s)
<1>1. Linked(links, PageProperty)
  BY DEF IInv, LinksInv, OnList
<1>2. /\ e \in PageProperty \cup {free_list} /\ list_next(links, e) = s /\ s # free_list
  BY <1>1, EntryTypes DEF Linked, IInv, BlocksInv
<1> HIDE DEF e
<1>3. s > e /\ \A p \in PageProperty : p > e => s <= p
  BY <1>1, <1>2 DEF Linked
<1>4. e \in Int /\ s \in Int /\ \A p \in PageProperty : p \in Int
  BY <1>2, EntryTypes DEF IInv, BlocksInv
<1> QED
  BY <1>2, <1>3, <1>4 DEF e

LEMMA TakeStep ==
  ASSUME IInv, Take, UNCHANGED pmm_manager
  PROVE  IInv'
<1>0. PICK s : s = page
  OBVIOUS
<1>00. PICK n : n = arg
  OBVIOUS
<1> DEFINE k == property[s]
           rest == s + n
           F == PageProperty
           without == list_del(links, s)
           e == list_prev(links, s)
<1>1. /\ pc = "take"
      /\ IF k > n
         THEN /\ links' = list_add(without, e, rest)
              /\ property' = [property EXCEPT ![rest] = k - n]
              /\ PageProperty' = (F \cup {rest}) \ {s}
         ELSE /\ links' = without
              /\ PageProperty' = F \ {s}
              /\ UNCHANGED property
      /\ nr_free' = nr_free - n
      /\ owned' = owned \cup s .. (s + n - 1)
      /\ pc' = "idle" /\ le' = free_list /\ page' = NULL /\ arg' = 0
  BY <1>0, <1>00 DEF Take, ClearFlag, Rest, LowerFree, ReturnToCaller
<1>2. s \in F /\ k >= n /\ n \in Nat \ {0}
  BY <1>0, <1>00, <1>1, RequestsAssumption DEF IInv, CallInv
<1>3. /\ s \in Region /\ s \in Nat /\ k \in Nat \ {0} /\ s + k <= RegionBase + RegionPages
      /\ s .. (s + k - 1) \subseteq Region \ owned /\ k <= RegionPages
  BY <1>2, Block DEF IInv, Pages, BlocksInv
<1>4. ASSUME NEW q \in F, q # s
      PROVE  /\ q \in Region /\ q \in Nat /\ property[q] \in Nat \ {0}
             /\ property[q] \in 0..RegionPages
             /\ q + property[q] <= s \/ s + k <= q
             /\ q + property[q] <= RegionBase + RegionPages
  BY <1>2, <1>3, <1>4, Block DEF IInv, BlocksInv
<1>5. /\ links \in ListMemory /\ Linked(links, F) /\ F \in SUBSET Region
  BY <1>1 DEF IInv, LinksInv, OnList, ListMemory, BlocksInv
<1>6. without \in ListMemory /\ Linked(without, F \ {s})
  BY <1>2, <1>5, DeleteLinked
<1>7. e \in (F \ {s}) \cup {free_list} /\ e < s /\ \A p \in F : p > e => p >= s
  BY <1>1, <1>2, <1>3, PreviousBlock, EntryTypes
<1>8. nr_free' = Cardinality(Region \ owned') /\ owned' \subseteq Region
  <2>1. s .. (s + n - 1) \subseteq Region \ owned
    BY <1>2, <1>3
  <2>2. Cardinality(Region \ (owned \cup s .. (s + n - 1))) = Cardinality(Region \ owned) - n
    BY <1>2, <1>3, <2>1, CountWithout DEF IInv, BlocksInv
  <2> QED
    BY <1>1, <2>1, <2>2 DEF IInv, BlocksInv
<1>9. ASSUME NEW x \in Region, x \notin owned
      PROVE  \E b \in F : x \in b .. (b + property[b] - 1)
  BY <1>9 DEF IInv, BlocksInv, Pages
<1>10. \A b \in F : b .. (b + property[b] - 1) \subseteq Region \ owned
  BY Block DEF IInv, Pages
<1>11. OnList' = PageProperty'
  BY <1>1 DEF OnList
<1>12. CallInv'
  BY <1>1, EntryTypes DEF IInv, CallInv, PCs
<1>13. \A p \in F : p + property[p] \notin F
  BY <1>1 DEF IInv, JoinInv
<1> HIDE DEF k, without, e, F
<1>14. CASE k > n
  <2>1. /\ rest \in Region /\ rest \in Nat /\ rest \notin F /\ k - n \in 0..RegionPages
        /\ k - n \in Nat \ {0} /\ rest # s
    <3>1. rest \in Nat /\ rest > s /\ rest < s + k /\ rest # s
      BY <1>2, <1>3, <1>14
    <3>2. rest \in Region
      BY <1>3, <3>1, EntryTypes
    <3>3. rest \notin F
      BY <1>3, <1>4, <3>1
    <3>4. k - n \in Nat \ {0} /\ k - n <= RegionPages
      BY <1>2, <1>3, <1>14, EntryTypes
    <3>5. k - n \in 0..RegionPages
      BY <3>4, EntryTypes
    <3> QED
      BY <3>1, <3>2, <3>3, <3>4, <3>5
  <2> DEFINE G == (F \cup {rest}) \ {s}
             new == property'
  <2>2. /\ PageProperty' = G /\ links' = list_add(without, e, rest)
        /\ new = [property EXCEPT ![rest] = k - n]
    BY <1>1, <1>14 DEF F
  <2>3. /\ new \in [Region -> 0..RegionPages] /\ new[rest] = k - n
        /\ \A q \in F : q # s => new[q] = property[q]
    <3>1. property \in [Region -> 0..RegionPages]
      BY DEF IInv, BlocksInv
    <3>2. \A q \in F : q \in Region
      BY <1>5
    <3> QED
      BY <2>1, <2>2, <3>1, <3>2
  <2> HIDE DEF rest
  <2>4. G = (F \ {s}) \cup {rest}
    BY <2>1
  <2>5. LinksInv'
    <3>1. links' = Between(without, rest, e, without.next[e])
      BY <2>2 DEF list_add, list_add_after, Between, __list_add
    <3>2. e < rest
      BY <1>2, <1>3, <1>7, <2>1, EntryTypes DEF rest
    <3>3. \A p \in F \ {s} : p > e => p > rest
      <4> SUFFICES ASSUME NEW p \in F \ {s}, p > e PROVE p > rest
        OBVIOUS
      <4>1. p >= s /\ p # s
        BY <1>7
      <4>2. s + k <= p
        BY <1>3, <1>4, <4>1
      <4> QED
        BY <1>2, <1>3, <1>4, <1>14, <4>2 DEF rest
    <3>4. F \ {s} \in SUBSET Region
      BY <1>5
    <3> HIDE DEF G
    <3>5. links' \in ListMemory /\ Linked(links', (F \ {s}) \cup {rest})
      BY <1>6, <1>7, <2>1, <3>1, <3>2, <3>3, <3>4, InsertLinked
    <3> QED
      BY <1>11, <2>2, <2>4, <3>5 DEF LinksInv, ListMemory
  <2>6. \A p \in G : new[p] > 0 /\ p + new[p] <= RegionBase + RegionPages
    <3> SUFFICES ASSUME NEW p \in G PROVE new[p] > 0 /\ p + new[p] <= RegionBase + RegionPages
      OBVIOUS
    <3>1. CASE p = rest
      BY <1>2, <1>3, <2>1, <2>3, <3>1 DEF rest
    <3>2. CASE p \in F /\ p # s
      BY <1>4, <2>3, <3>2
    <3> QED
      BY <3>1, <3>2
  <2>7. \A p, q \in G : p < q => p + new[p] <= q
    <3> SUFFICES ASSUME NEW p \in G, NEW q \in G, p < q PROVE p + new[p] <= q
      OBVIOUS
    <3>1. CASE p = rest /\ q \in F /\ q # s
      BY <1>2, <1>3, <1>4, <2>3, <3>1 DEF rest
    <3>2. CASE q = rest /\ p \in F /\ p # s
      BY <1>2, <1>3, <1>4, <1>14, <2>3, <3>2 DEF rest
    <3>3. CASE p \in F /\ p # s /\ q \in F /\ q # s
      BY <2>3, <3>3 DEF IInv, BlocksInv, F
    <3>4. CASE p = rest /\ q = rest
      BY <2>1, <3>4
    <3> QED
      BY <3>1, <3>2, <3>3, <3>4
  <2>8. UNION {p .. (p + new[p] - 1) : p \in G} = Region \ owned'
    <3>1. ASSUME NEW b \in G PROVE b .. (b + new[b] - 1) \subseteq Region \ owned'
      <4>1. CASE b = rest
        <5>1. b + new[b] - 1 = s + k - 1
          BY <1>2, <1>3, <2>3, <4>1 DEF rest
        <5>2. \A x \in b .. (b + new[b] - 1) : x \in s .. (s + k - 1) /\ x \notin s .. (s + n - 1)
          BY <1>2, <1>3, <4>1, <5>1 DEF rest
        <5> QED
          BY <1>1, <1>3, <5>2
      <4>2. CASE b \in F /\ b # s
        <5>1. \A x \in b .. (b + property[b] - 1) : x \notin s .. (s + n - 1)
          BY <1>2, <1>3, <1>4, <4>2
        <5> QED
          BY <1>1, <1>10, <2>3, <4>2, <5>1
      <4> QED
        BY <4>1, <4>2
    <3>2. ASSUME NEW x \in Region, x \notin owned'
          PROVE  \E b \in G : x \in b .. (b + new[b] - 1)
      <4>1. x \notin owned /\ x \notin s .. (s + n - 1) /\ x \in Nat
        BY <1>1, <3>2, EntryTypes
      <4>2. PICK b \in F : x \in b .. (b + property[b] - 1)
        BY <1>9, <4>1
      <4>3. CASE b = s
        <5>1. x \in rest .. (rest + (k - n) - 1)
          BY <1>2, <1>3, <1>14, <4>1, <4>2, <4>3 DEF rest, k
        <5>2. rest \in G
          BY <2>1
        <5> QED
          BY <2>3, <5>1, <5>2
      <4>4. CASE b # s
        BY <2>3, <4>2, <4>4
      <4> QED
        BY <4>3, <4>4
    <3> QED
      BY <3>1, <3>2
  <2>9. G \subseteq Region
    BY <1>5, <2>1
  <2>10. BlocksInv'
    <3> HIDE DEF G, new
    <3> QED
      BY <1>8, <2>2, <2>3, <2>6, <2>7, <2>8, <2>9 DEF BlocksInv, Pages, new
  <2>11. \A p \in G : p + new[p] \notin G
    <3> SUFFICES ASSUME NEW p \in G, p + new[p] \in G PROVE FALSE
      OBVIOUS
    <3>1. CASE p = rest
      <4>1. p + new[p] = s + k
        BY <1>2, <1>3, <2>3, <3>1 DEF rest
      <4>2. s + k \in F
        BY <1>2, <1>3, <1>14, <4>1 DEF rest
      <4> QED
        BY <1>2, <1>13, <4>2 DEF k
    <3>2. CASE p \in F /\ p # s
      <4>1. p + property[p] \in G /\ p + property[p] \notin F
        BY <1>13, <2>3, <3>2
      <4>2. p + property[p] = rest
        BY <4>1
      <4> QED
        BY <1>2, <1>3, <1>4, <1>14, <3>2, <4>2 DEF rest
    <3> QED
      BY <3>1, <3>2
  <2>12. JoinInv'
    BY <2>2, <2>11 DEF JoinInv
  <2> QED
    BY <1>12, <2>5, <2>10, <2>12 DEF IInv
<1>15. CASE ~(k > n)
  <2>1. k = n
    BY <1>2, <1>3, <1>15
  <2>2. PageProperty' = F \ {s} /\ links' = without /\ property' = property
    BY <1>1, <1>15 DEF F
  <2>3. LinksInv'
    BY <1>6, <1>11, <2>2 DEF LinksInv, ListMemory
  <2>4. UNION {p .. (p + property[p] - 1) : p \in F \ {s}} = Region \ owned'
    <3>1. ASSUME NEW b \in F \ {s} PROVE b .. (b + property[b] - 1) \subseteq Region \ owned'
      <4>1. \A x \in b .. (b + property[b] - 1) : x \notin s .. (s + n - 1)
        BY <1>2, <1>3, <1>4, <2>1
      <4> QED
        BY <1>1, <1>10, <4>1
    <3>2. ASSUME NEW x \in Region, x \notin owned'
          PROVE  \E b \in F \ {s} : x \in b .. (b + property[b] - 1)
      <4>1. x \notin owned /\ x \notin s .. (s + n - 1)
        BY <1>1, <3>2
      <4>2. PICK b \in F : x \in b .. (b + property[b] - 1)
        BY <1>9, <4>1
      <4>3. b # s
        BY <2>1, <4>1, <4>2 DEF k
      <4> QED
        BY <4>2, <4>3
    <3> QED
      BY <3>1, <3>2
  <2>5. BlocksInv'
    BY <1>8, <2>2, <2>4 DEF IInv, BlocksInv, Pages, F
  <2>6. JoinInv'
    BY <1>13, <2>2 DEF JoinInv
  <2> QED
    BY <1>12, <2>3, <2>5, <2>6 DEF IInv
<1> QED
  BY <1>14, <1>15
LEMMA FreeStep ==
  ASSUME IInv, NEW base \in Region, NEW n \in Nat \ {0},
         free_pages(base, n), base .. (base + n - 1) \subseteq owned,
         list_empty(links, free_list) \/ \E p \in Listed : p > base,
         UNCHANGED pmm_manager
  PROVE  IInv'
<1> DEFINE F == PageProperty
           run == base .. (base + n - 1)
           new == property'
<1>1. /\ pc = "idle" /\ run \subseteq owned
      /\ owned' = owned \ run
      /\ property' = [property EXCEPT ![base] = n]
      /\ PageProperty' = F \cup {base}
      /\ nr_free' = nr_free + n
      /\ page' = base
      /\ IF list_empty(links, free_list)
         THEN links' = list_add(links, free_list, base) /\ pc' = "merge_low"
         ELSE pc' = "insert" /\ UNCHANGED links
      /\ UNCHANGED <<le, arg>>
  BY DEF free_pages
<1>2. list_empty(links, free_list) \/ \E p \in Listed : p > base
  OBVIOUS
<1>3. n \in Nat \ {0} /\ base \in Nat /\ owned \subseteq Region /\ base \in run
  <2>1. n \in Nat \ {0} /\ base \in Nat /\ owned \subseteq Region
    BY RequestsAssumption, EntryTypes DEF IInv, BlocksInv
  <2> QED
    BY <2>1
<1>4. base + n <= RegionBase + RegionPages /\ n \in 0..RegionPages
  <2>1. base + n - 1 \in Region
    BY <1>1, <1>3
  <2>2. base + n - 1 < RegionBase + RegionPages /\ RegionBase <= base
    BY <2>1, EntryTypes
  <2>3. RegionBase \in Nat /\ RegionPages \in Nat
    BY EntryTypes
  <2> QED
    BY <1>3, <2>2, <2>3
<1>5. /\ le = free_list /\ page = NULL /\ arg = 0 /\ OnList = F /\ Listed = F
      /\ links \in ListMemory /\ Linked(links, F) /\ F \in SUBSET Region
  BY <1>1, Lists DEF IInv, LinksInv, OnList, ListMemory, BlocksInv, CallInv
<1>6. \A b \in F : b .. (b + property[b] - 1) \subseteq Region \ owned
  BY Block DEF IInv, Pages
<1>7. ASSUME NEW q \in F
      PROVE  /\ q \in Region /\ q \in Nat /\ property[q] \in Nat \ {0}
             /\ q + property[q] <= RegionBase + RegionPages
             /\ q \notin owned
             /\ q + property[q] <= base \/ base + n <= q
  <2>1. /\ q \in Region /\ q \in Nat /\ property[q] \in Nat \ {0}
        /\ q + property[q] <= RegionBase + RegionPages
    BY Block DEF IInv
  <2>2. base \notin q .. (q + property[q] - 1) /\ q \in q .. (q + property[q] - 1)
    BY <1>1, <1>3, <1>6, <2>1
  <2>3. q \notin owned /\ q \notin run
    BY <1>1, <1>6, <2>2
  <2>4. q < base => q + property[q] <= base
    BY <1>3, <2>1, <2>2
  <2>5. ~(q < base) => base + n <= q
    BY <1>3, <2>1, <2>3
  <2> QED
    BY <2>1, <2>3, <2>4, <2>5
<1>8. base \notin F
  BY <1>1, <1>3, <1>7
<1>9. /\ new \in [Region -> 0..RegionPages] /\ new[base] = n
      /\ \A q \in F : new[q] = property[q]
  <2>1. property \in [Region -> 0..RegionPages]
    BY DEF IInv, BlocksInv
  <2> QED
    BY <1>1, <1>4, <1>5, <1>8, <2>1
<1>10. nr_free' = Cardinality(Region \ owned')
  <2>1. run \subseteq Region \ owned'
    BY <1>1, <1>3
  <2>2. Cardinality(Region \ (owned' \cup run)) = Cardinality(Region \ owned') - n
    BY <1>1, <1>3, <2>1, CountWithout
  <2>3. owned' \cup run = owned
    BY <1>1
  <2>4. nr_free = Cardinality(Region \ owned) /\ Cardinality(Region \ owned') \in Nat
    BY RegionFinite DEF IInv, BlocksInv
  <2>5. Cardinality(Region \ owned) = Cardinality(Region \ owned') - n
    BY <2>2, <2>3
  <2> DEFINE c == Cardinality(Region \ owned')
  <2>6. nr_free = c - n /\ c \in Nat /\ nr_free' = nr_free + n
    BY <1>1, <2>4, <2>5
  <2> HIDE DEF c
  <2>7. nr_free' = c
    BY <1>3, <2>6
  <2> QED
    BY <2>7 DEF c
<1>11. UNION {p .. (p + new[p] - 1) : p \in F \cup {base}} = Region \ owned'
  <2>1. ASSUME NEW b \in F \cup {base} PROVE b .. (b + new[b] - 1) \subseteq Region \ owned'
    <3>1. CASE b = base
      BY <1>1, <1>3, <1>9, <3>1
    <3>2. CASE b \in F
      BY <1>1, <1>6, <1>9, <3>2
    <3> QED
      BY <3>1, <3>2
  <2>2. ASSUME NEW x \in Region, x \notin owned'
        PROVE  \E b \in F \cup {base} : x \in b .. (b + new[b] - 1)
    <3>1. CASE x \in run
      BY <1>9, <3>1
    <3>2. CASE x \notin run
      <4>1. x \in Region \ owned
        BY <1>1, <2>2, <3>2
      <4>2. PICK b \in F : x \in b .. (b + property[b] - 1)
        BY <4>1 DEF IInv, BlocksInv, Pages
      <4> QED
        BY <1>9, <4>2
    <3> QED
      BY <3>1, <3>2
  <2> QED
    BY <2>1, <2>2
<1>12. BlocksInv'
  <2> HIDE DEF run
  <2>1. \A p \in F \cup {base} : new[p] > 0 /\ p + new[p] <= RegionBase + RegionPages
    BY <1>3, <1>4, <1>7, <1>9
  <2>2. \A p, q \in F \cup {base} : p < q => p + new[p] <= q
    <3> SUFFICES ASSUME NEW p \in F \cup {base}, NEW q \in F \cup {base}, p < q
                 PROVE  p + new[p] <= q
      OBVIOUS
    <3>1. CASE p = base /\ q \in F
      BY <1>3, <1>7, <1>9, <3>1
    <3>2. CASE p \in F /\ q = base
      BY <1>3, <1>7, <1>9, <3>2
    <3>3. CASE p \in F /\ q \in F
      BY <1>9, <3>3 DEF IInv, BlocksInv
    <3>4. CASE p = base /\ q = base
      BY <1>3, <3>4
    <3> QED
      BY <3>1, <3>2, <3>3, <3>4
  <2>3. F \cup {base} \subseteq Region /\ owned' \subseteq Region
    BY <1>1, <1>3, <1>5
  <2>4. PageProperty' = F \cup {base}
    BY <1>1
  <2> HIDE DEF new, F
  <2> QED
    BY <1>9, <1>10, <1>11, <2>1, <2>2, <2>3, <2>4 DEF BlocksInv, Pages, new
<1>13. ASSUME NEW p \in F \cup {base}, p + new[p] \in F \cup {base}
       PROVE  p = base \/ p + new[p] = base
  BY <1>1, <1>9, <1>13 DEF IInv, JoinInv
<1>14. JoinInv'
  <2>1. pc' \in {"insert", "merge_low"} /\ page' = base /\ PageProperty' = F \cup {base}
    BY <1>1
  <2> HIDE DEF F
  <2> QED
    BY <1>13, <2>1 DEF JoinInv
<1>15. CASE list_empty(links, free_list)
  <2>1. list_next(links, free_list) = free_list
    BY <1>15 DEF list_empty, list_next
  <2>2. F = {}
    <3>1. \A p \in F : ~(p > free_list)
      BY <1>5, <2>1 DEF Linked
    <3> QED
      BY <1>5, <3>1, EntryTypes
  <2>3. pc' = "merge_low" /\ links' = Between(links, base, free_list, links.next[free_list])
    BY <1>1, <1>15 DEF list_add, list_add_after, Between, __list_add
  <2>4. links' \in ListMemory /\ Linked(links', {base})
    <3>1. free_list < base /\ base \notin F /\ free_list \in F \cup {free_list}
      BY <1>8, EntryTypes
    <3>2. \A p \in F : p > free_list => p > base
      BY <2>2
    <3> HIDE DEF F
    <3>3. links' \in ListMemory /\ Linked(links', F \cup {base})
      BY <1>5, <2>3, <3>1, <3>2, InsertLinked
    <3>4. F \cup {base} = {base}
      BY <2>2
    <3> QED
      BY <3>3, <3>4
  <2>5. OnList' = {base}
    BY <1>1, <2>2, <2>3 DEF OnList
  <2>6. LinksInv'
    BY <2>4, <2>5 DEF LinksInv, ListMemory
  <2>7. CallInv'
    BY <1>1, <1>5, <2>3, EntryTypes DEF IInv, CallInv, PCs, Entries
  <2> QED
    BY <1>12, <1>14, <2>6, <2>7 DEF IInv
<1>16. CASE ~list_empty(links, free_list)
  <2>1. pc' = "insert" /\ links' = links
    BY <1>1, <1>16
  <2>2. OnList' = F
    BY <1>1, <1>8, <2>1 DEF OnList
  <2>3. LinksInv'
    BY <1>5, <2>1, <2>2 DEF LinksInv, ListMemory
  <2>4. \E q \in PageProperty' : q > base
    BY <1>1, <1>2, <1>5, <1>16
  <2>5. le' \in OnList' \cup {free_list} /\ le' < base
    BY <1>1, <1>5, EntryTypes
  <2>6. base \in Entries /\ base \in PageProperty'
    BY <1>1 DEF Entries
  <2>7. CallInv'
    BY <1>1, <1>5, <2>1, <2>4, <2>5, <2>6 DEF IInv, CallInv, PCs
  <2> QED
    BY <1>12, <1>14, <2>3, <2>7 DEF IInv
<1> QED
  BY <1>15, <1>16

LEMMA InsertStep ==
  ASSUME IInv, Insert, UNCHANGED pmm_manager
  PROVE  IInv'
<1>0. PICK s : s = page
  OBVIOUS
<1> DEFINE n == list_next(links, le)
           L == PageProperty \ {s}
<1>1. /\ pc = "insert"
      /\ IF n = free_list
         THEN pc' = "merge_low" /\ UNCHANGED <<links, le>>
         ELSE /\ le' = n
              /\ IF s < n
                 THEN links' = list_add_before(links, n, s) /\ pc' = "merge_low"
                 ELSE /\ links' = IF list_next(links, n) = free_list
                                  THEN list_add(links, n, s) ELSE links
                      /\ UNCHANGED pc
      /\ UNCHANGED <<property, PageProperty, nr_free, page, arg, owned>>
  BY <1>0 DEF Insert
<1>2. /\ OnList = L /\ s \in PageProperty /\ le \in L \cup {free_list} /\ le < s
      /\ \E q \in PageProperty : q > s
  BY <1>0, <1>1 DEF IInv, CallInv, OnList
<1>3. /\ links \in ListMemory /\ Linked(links, L) /\ L \in SUBSET Region
      /\ s \in Region /\ s \notin L
  BY <1>2 DEF IInv, LinksInv, BlocksInv, ListMemory
<1>4. PICK q \in L : q > s
  <2>1. PICK q \in PageProperty : q > s
    BY <1>2
  <2>2. q # s
    BY <1>3, <2>1, EntryTypes
  <2> QED
    BY <2>1, <2>2
<1>5. s \in Int /\ q \in Int /\ le \in Int /\ \A p \in L : p \in Int
  BY <1>2, <1>3, <1>4, EntryTypes
<1>6. /\ n # free_list /\ n \in L /\ list_prev(links, n) = le /\ n # s
      /\ \A p \in L : p > le => n <= p
  BY <1>2, <1>3, <1>4, <1>5 DEF Linked
<1>7. BlocksInv'
  BY <1>1 DEF IInv, BlocksInv, Pages
<1>8. JoinInv'
  BY <1>1, <1>6 DEF IInv, JoinInv
<1> HIDE DEF n, L
<1>9. CASE s < n
  <2>1. le' = n /\ links' = list_add_before(links, n, s) /\ pc' = "merge_low"
    BY <1>1, <1>6, <1>9
  <2>2. links' = Between(links, s, le, links.next[le])
    <3>1. links.prev[n] = le /\ links.next[le] = n
      BY <1>6 DEF list_prev, list_next, n
    <3>2. links' = Between(links, s, links.prev[n], n)
      BY <2>1 DEF list_add_before, Between, __list_add
    <3> QED
      BY <3>1, <3>2
  <2>3. \A p \in L : p > le => p > s
    BY <1>5, <1>6, <1>9
  <2>4. links' \in ListMemory /\ Linked(links', L \cup {s})
    BY <1>2, <1>3, <2>2, <2>3, InsertLinked
  <2>5. OnList' = L \cup {s}
    BY <1>1, <1>2, <2>1 DEF OnList, L
  <2>6. LinksInv'
    BY <2>4, <2>5 DEF LinksInv, ListMemory
  <2>7. n \in Entries
    BY <1>3, <1>6 DEF Entries
  <2>8. CallInv'
    BY <1>0, <1>1, <1>2, <2>1, <2>7 DEF IInv, CallInv, PCs
  <2> QED
    BY <1>7, <1>8, <2>6, <2>8 DEF IInv
<1>10. CASE ~(s < n)
  <2>1. n < s
    BY <1>5, <1>6, <1>10
  <2>2. list_next(links, n) # free_list
    BY <1>3, <1>4, <1>5, <1>6, <2>1 DEF Linked
  <2>3. le' = n /\ links' = links /\ pc' = "insert"
    BY <1>1, <1>6, <1>10, <2>2
  <2>4. OnList' = L
    BY <1>0, <1>1, <2>3 DEF OnList, L
  <2>5. LinksInv'
    BY <1>3, <2>3, <2>4 DEF LinksInv, ListMemory
  <2>6. n \in Entries
    BY <1>3, <1>6 DEF Entries
  <2>7. CallInv'
    BY <1>0, <1>1, <1>2, <1>6, <2>1, <2>3, <2>4, <2>6 DEF IInv, CallInv, PCs
  <2> QED
    BY <1>7, <1>8, <2>5, <2>7 DEF IInv
<1> QED
  BY <1>9, <1>10
\* A block and the one that begins at its end become one.
LEMMA Joined ==
  ASSUME BlocksInv, NEW p \in PageProperty, NEW q \in PageProperty, p + property[p] = q,
         property' = [property EXCEPT ![p] = property[p] + property[q]],
         PageProperty' = PageProperty \ {q}, UNCHANGED <<nr_free, owned>>
  PROVE  /\ BlocksInv'
         /\ p # q
         /\ p + property'[p] = q + property[q]
         /\ \A r \in PageProperty : r # p => property'[r] = property[r]
<1> DEFINE F == PageProperty
           new == property'
<1>1. ASSUME NEW r \in F
      PROVE  /\ r \in Region /\ r \in Nat /\ property[r] \in Nat \ {0}
             /\ r + property[r] <= RegionBase + RegionPages /\ RegionBase <= r
             /\ r .. (r + property[r] - 1) \subseteq Region \ owned
  BY Block, EntryTypes DEF Pages
<1>2. p < q /\ p # q /\ property[p] + property[q] \in Nat \ {0}
  BY <1>1
<1>3. property[p] + property[q] \in 0..RegionPages
  <2>1. RegionBase \in Nat /\ RegionPages \in Nat
    BY EntryTypes
  <2> QED
    BY <1>1, <2>1
<1>4. /\ new \in [Region -> 0..RegionPages] /\ new[p] = property[p] + property[q]
      /\ \A r \in F : r # p => new[r] = property[r]
  BY <1>1, <1>3 DEF BlocksInv
<1>5. p + new[p] = q + property[q]
  BY <1>1, <1>4
<1>6. \A r, t \in F : r < t => r + property[r] <= t
  BY DEF BlocksInv
<1>7. \A r \in F \ {q} : new[r] > 0 /\ r + new[r] <= RegionBase + RegionPages
  BY <1>1, <1>2, <1>4, <1>5
<1>8. \A r, t \in F \ {q} : r < t => r + new[r] <= t
  <2> SUFFICES ASSUME NEW r \in F \ {q}, NEW t \in F \ {q}, r < t PROVE r + new[r] <= t
    OBVIOUS
  <2>1. CASE r = p
    <3>1. q <= t /\ q # t
      BY <1>6, <2>1
    <3>2. q < t
      BY <1>1, <3>1
    <3> QED
      BY <1>5, <1>6, <2>1, <3>2
  <2>2. CASE r # p
    BY <1>4, <1>6, <2>2
  <2> QED
    BY <2>1, <2>2
<1>9. UNION {r .. (r + new[r] - 1) : r \in F \ {q}} = Region \ owned
  <2>1. ASSUME NEW r \in F \ {q} PROVE r .. (r + new[r] - 1) \subseteq Region \ owned
    <3>1. CASE r = p
      <4>1. \A x \in p .. (p + new[p] - 1) :
              x \in p .. (p + property[p] - 1) \/ x \in q .. (q + property[q] - 1)
        BY <1>1, <1>5
      <4> QED
        BY <1>1, <3>1, <4>1
    <3>2. CASE r # p
      BY <1>1, <1>4, <3>2
    <3> QED
      BY <3>1, <3>2
  <2>2. ASSUME NEW x \in Region, x \notin owned
        PROVE  \E r \in F \ {q} : x \in r .. (r + new[r] - 1)
    <3>1. PICK r \in F : x \in r .. (r + property[r] - 1)
      BY <2>2 DEF BlocksInv, Pages
    <3>2. CASE r = p \/ r = q
      <4>1. x \in p .. (p + new[p] - 1)
        BY <1>1, <1>2, <1>5, <3>1, <3>2
      <4> QED
        BY <1>2, <4>1
    <3>3. CASE r # p /\ r # q
      BY <1>4, <3>1, <3>3
    <3> QED
      BY <3>2, <3>3
  <2> QED
    BY <2>1, <2>2
<1>10. BlocksInv'
  <2>1. PageProperty' = F \ {q} /\ F \ {q} \subseteq Region
    BY <1>1
  <2> HIDE DEF F, new
  <2> QED
    BY <1>4, <1>7, <1>8, <1>9, <2>1 DEF BlocksInv, Pages, new
<1> QED
  BY <1>2, <1>4, <1>5, <1>10

LEMMA MergeLowStep ==
  ASSUME IInv, MergeLow, UNCHANGED pmm_manager
  PROVE  IInv'
<1>0. PICK s : s = page
  OBVIOUS
<1> DEFINE F == PageProperty
           p == list_prev(links, s)
<1>1. /\ pc = "merge_low" /\ pc' = "merge_high"
      /\ IF p # free_list /\ p + property[p] = s
         THEN /\ property' = [property EXCEPT ![p] = property[p] + property[s]]
              /\ PageProperty' = F \ {s}
              /\ links' = list_del(links, s)
              /\ page' = p
         ELSE UNCHANGED <<property, PageProperty, links, page>>
      /\ UNCHANGED <<nr_free, le, arg, owned>>
  BY <1>0 DEF MergeLow
<1>2. s \in F
  BY <1>0, <1>1 DEF IInv, CallInv
<1>3. p \in F \cup {free_list} /\ p < s /\ \A r \in F : r > p => r >= s
  BY <1>1, <1>2, PreviousBlock
<1>4. /\ links \in ListMemory /\ Linked(links, F) /\ F \in SUBSET Region
      /\ \A r \in F : r \in Nat /\ property[r] \in Nat \ {0}
  BY <1>1, Block DEF IInv, LinksInv, OnList, BlocksInv, ListMemory
<1>5. \A r \in F : r + property[r] \in F => s = r \/ s = r + property[r]
  BY <1>0, <1>1 DEF IInv, JoinInv
<1>6. \A r, t \in F : r < t => r + property[r] <= t
  BY DEF IInv, BlocksInv
<1>7. OnList' = PageProperty'
  BY <1>1 DEF OnList
<1> HIDE DEF p
<1>8. CASE p # free_list /\ p + property[p] = s
  <2>1. /\ property' = [property EXCEPT ![p] = property[p] + property[s]]
        /\ PageProperty' = F \ {s} /\ links' = list_del(links, s) /\ page' = p /\ p \in F
    BY <1>1, <1>3, <1>8
  <2>2. /\ BlocksInv' /\ p # s
        /\ \A r \in F : r # p => property'[r] = property[r]
    BY <1>1, <1>2, <1>8, <2>1, Joined DEF IInv
  <2>3. LinksInv'
    BY <1>2, <1>4, <1>7, <2>1, DeleteLinked DEF LinksInv, ListMemory
  <2>4. JoinInv'
    <3>1. \A r \in F \ {s} : r + property'[r] \in F \ {s} => r = p
      BY <1>5, <2>2
    <3> QED
      BY <1>1, <2>1, <3>1 DEF JoinInv
  <2>5. CallInv'
    <3>1. p \in Entries
      BY <1>4, <2>1 DEF Entries
    <3> QED
      BY <1>1, <2>1, <2>2, <3>1 DEF IInv, CallInv, PCs
  <2> QED
    BY <2>2, <2>3, <2>4, <2>5 DEF IInv
<1>9. CASE ~(p # free_list /\ p + property[p] = s)
  <2>1. UNCHANGED <<property, PageProperty, links, page>>
    BY <1>1, <1>9
  <2>2. LinksInv' /\ BlocksInv'
    BY <1>1, <2>1, CallKeeps
  <2>3. ASSUME NEW r \in F, r + property[r] \in F PROVE r = s
    <3>1. SUFFICES ASSUME r + property[r] = s PROVE FALSE
      BY <1>5, <2>3
    <3>2. r < s /\ ~(r > p)
      BY <1>2, <1>3, <1>4, <3>1
    <3>3. p \in F /\ p # free_list
      BY <1>3, <1>4, <3>2, EntryTypes
    <3>4. r # p
      BY <1>9, <3>1, <3>3
    <3>5. r < p
      BY <1>4, <3>2, <3>3, <3>4
    <3>6. r + property[r] <= p
      BY <1>6, <3>3, <3>5
    <3> QED
      BY <1>3, <1>4, <3>1, <3>3, <3>6
  <2>4. JoinInv'
    BY <1>0, <1>1, <2>1, <2>3 DEF JoinInv
  <2>5. CallInv'
    BY <1>1, <2>1 DEF IInv, CallInv, PCs
  <2> QED
    BY <2>2, <2>4, <2>5 DEF IInv
<1> QED
  BY <1>8, <1>9

LEMMA MergeHighStep ==
  ASSUME IInv, MergeHigh, UNCHANGED pmm_manager
  PROVE  IInv'
<1>0. PICK s : s = page
  OBVIOUS
<1> DEFINE F == PageProperty
           q == list_next(links, s)
<1>1. /\ pc = "merge_high"
      /\ IF q # free_list /\ s + property[s] = q
         THEN /\ property' = [property EXCEPT ![s] = property[s] + property[q]]
              /\ PageProperty' = F \ {q}
              /\ links' = list_del(links, q)
         ELSE UNCHANGED <<property, PageProperty, links>>
      /\ pc' = "idle" /\ le' = free_list /\ page' = NULL /\ arg' = 0
      /\ UNCHANGED <<nr_free, owned>>
  BY <1>0 DEF MergeHigh, ReturnToCaller
<1>2. s \in F
  BY <1>0, <1>1 DEF IInv, CallInv
<1>3. /\ links \in ListMemory /\ Linked(links, F) /\ F \in SUBSET Region
      /\ \A r \in F : r \in Nat /\ property[r] \in Nat \ {0}
  BY <1>1, Block DEF IInv, LinksInv, OnList, BlocksInv, ListMemory
<1>4. q \in F \cup {free_list} /\ \A r \in F : r > s => q # free_list /\ q <= r
  BY <1>2, <1>3 DEF Linked
<1>5. q # free_list => q > s
  BY <1>2, <1>3 DEF Linked
<1>6. \A r \in F : r + property[r] \in F => r = s
  BY <1>0, <1>1 DEF IInv, JoinInv
<1>7. \A r, t \in F : r < t => r + property[r] <= t
  BY DEF IInv, BlocksInv
<1>8. OnList' = PageProperty'
  BY <1>1 DEF OnList
<1>9. CallInv'
  BY <1>1, EntryTypes DEF IInv, CallInv, PCs
<1> HIDE DEF q
<1>10. CASE q # free_list /\ s + property[s] = q
  <2>1. /\ property' = [property EXCEPT ![s] = property[s] + property[q]]
        /\ PageProperty' = F \ {q} /\ links' = list_del(links, q) /\ q \in F
    BY <1>1, <1>4, <1>10
  <2>2. /\ BlocksInv' /\ s # q /\ s + property'[s] = q + property[q]
        /\ \A r \in F : r # s => property'[r] = property[r]
    BY <1>1, <1>2, <1>10, <2>1, Joined DEF IInv
  <2>3. LinksInv'
    BY <1>3, <1>8, <2>1, DeleteLinked DEF LinksInv, ListMemory
  <2>4. ASSUME NEW r \in F \ {q}, r + property'[r] \in F \ {q} PROVE FALSE
    <3>1. CASE r = s
      BY <1>6, <2>1, <2>2, <2>4, <3>1
    <3>2. CASE r # s
      BY <1>6, <2>2, <2>4, <3>2
    <3> QED
      BY <3>1, <3>2
  <2>5. JoinInv'
    BY <2>1, <2>4 DEF JoinInv
  <2> QED
    BY <1>9, <2>2, <2>3, <2>5 DEF IInv
<1>11. CASE ~(q # free_list /\ s + property[s] = q)
  <2>1. UNCHANGED <<property, PageProperty, links>>
    BY <1>1, <1>11
  <2>2. LinksInv' /\ BlocksInv'
    BY <1>1, <2>1, CallKeeps
  <2>3. ASSUME NEW r \in F, r + property[r] \in F PROVE FALSE
    <3>1. r = s /\ s + property[s] \in F
      BY <1>6, <2>3
    <3>2. s + property[s] > s
      BY <1>2, <1>3
    <3>3. q # free_list /\ q <= s + property[s] /\ q \in F /\ s < q
      BY <1>2, <1>3, <1>4, <1>5, <3>1, <3>2
    <3>4. s + property[s] <= q
      BY <1>2, <1>7, <3>3
    <3> QED
      BY <1>2, <1>3, <1>11, <3>3, <3>4
  <2>4. JoinInv'
    BY <2>1, <2>3 DEF JoinInv
  <2> QED
    BY <1>9, <2>2, <2>4 DEF IInv
<1> QED
  BY <1>10, <1>11
LEMMA Initially == Init => IInv
<1> SUFFICES ASSUME Init PROVE IInv
  OBVIOUS
<1>1. /\ pmm_manager \in Managers
      /\ property = [p \in Region |-> IF p = RegionBase THEN RegionPages ELSE 0]
      /\ PageProperty = {RegionBase} /\ nr_free = RegionPages /\ pc = "idle"
      /\ le = free_list /\ page = NULL /\ arg = 0 /\ owned = {}
  BY DEF Init
<1>2. LinksInv
  <2> DEFINE unlinked == [next |-> [e \in Entries |-> free_list],
                          prev |-> [e \in Entries |-> free_list]]
             m == list_init(unlinked, free_list)
  <2>1. links = Between(m, RegionBase, free_list, m.next[free_list])
    BY DEF Init, list_add, list_add_after, Between, __list_add
  <2>2. unlinked \in ListMemory
    BY EntryTypes DEF ListMemory
  <2>3. m \in ListMemory /\ m.next[free_list] = free_list /\ m.prev[free_list] = free_list
    BY EntryTypes DEF list_init, ListMemory
  <2> HIDE DEF m
  <2>4. Linked(m, {})
    BY <2>3 DEF Linked, list_next, list_prev
  <2>5. links \in ListMemory /\ Linked(links, {} \cup {RegionBase})
    <3>1. RegionBase \in Region /\ free_list < RegionBase
      BY EntryTypes
    <3> QED
      BY <2>1, <2>3, <2>4, <3>1, InsertLinked
  <2>6. OnList = {} \cup {RegionBase}
    BY <1>1 DEF OnList
  <2> QED
    BY <2>5, <2>6 DEF LinksInv, ListMemory
<1>3. BlocksInv
  <2>1. /\ property[RegionBase] = RegionPages
        /\ property \in [Region -> 0..RegionPages]
    <3>1. RegionPages \in 0..RegionPages /\ 0 \in 0..RegionPages /\ RegionBase \in Region
      BY EntryTypes
    <3> QED
      BY <1>1, <3>1
  <2>2. Pages(RegionBase) = Region
    BY <2>1 DEF Pages, Region
  <2>3. Cardinality(Region \ {}) = RegionPages
    <3>1. Cardinality(Region) = RegionPages
      BY FS_Interval, EntryTypes DEF Region
    <3> QED
      BY <3>1
  <2> QED
    BY <1>1, <2>1, <2>2, <2>3, EntryTypes DEF BlocksInv
<1>4. JoinInv
  BY <1>1, EntryTypes DEF JoinInv
<1>5. CallInv
  BY <1>1, EntryTypes DEF CallInv, PCs
<1> QED
  BY <1>2, <1>3, <1>4, <1>5 DEF IInv

LEMMA NextStep ==
  ASSUME TailFrees = FALSE, IInv, [Next]_vars
  PROVE  IInv'
<1>1. CASE RunningCall /\ UNCHANGED pmm_manager
  BY <1>1, ScanFirstStep, ScanBestStep, ScanEndStep, AllocNullStep, TakeStep, InsertStep,
     MergeLowStep, MergeHighStep DEF RunningCall
<1>2. CASE CallerStep /\ UNCHANGED pmm_manager
  <2>1. Requests \subseteq Nat \ {0}
    BY RequestsAssumption
  <2>2. CASE \E n \in Requests : alloc_pages(n)
    BY <1>2, <2>1, <2>2, AllocStep
  <2>3. CASE \E base \in Region, n \in Requests : CallerFrees(base, n)
    BY <1>2, <2>1, <2>3, FreeStep DEF CallerFrees
  <2> QED
    BY <1>2, <2>2, <2>3 DEF CallerStep
<1>3. CASE UNCHANGED vars
  <2>1. LinksInv' /\ BlocksInv'
    BY <1>3, CallKeeps DEF vars
  <2>2. JoinInv' /\ CallInv'
    BY <1>3 DEF vars, IInv, JoinInv, CallInv, OnList, BestFit
  <2> QED
    BY <2>1, <2>2 DEF IInv
<1> QED
  BY <1>1, <1>2, <1>3 DEF Next

\* The invariant is inductive as long as callers free no block above all free
\* ones: the list links the flagged blocks in address order both ways, they
\* are disjoint and hold what callers do not, and touch only where a block is
\* being freed.
THEOREM Inductive ==
  ASSUME TailFrees = FALSE
  PROVE  Spec => []IInv
<1>1. IInv /\ [Next]_vars => IInv'
  BY NextStep
<1> QED
  BY Initially, <1>1, PTL DEF Spec

\* Every variable keeps to its values; nr_free never wraps (default_pmm.c:118).
THEOREM TypeCorrect ==
  ASSUME TailFrees = FALSE
  PROVE  Spec => []TypeOK
BY Inductive, TypesFromInv, PTL

\* The list is circular, readable both ways, and in address order
\* (default_pmm.c:53).
THEOREM Sorted ==
  ASSUME TailFrees = FALSE
  PROVE  Spec => []WellLinked
BY Inductive, WellLinkedFromInv, PTL

\* Every page is free, held by a caller or being freed, never two of these,
\* and nr_free counts the free ones (default_alloc_pages, default_free_pages).
THEOREM PagesAccounted ==
  ASSUME TailFrees = FALSE
  PROVE  Spec => []Accounted
BY Inductive, AccountedFromInv, PTL

\* Between calls no two free blocks touch (default_pmm.c:55).
THEOREM FullyCoalesced ==
  ASSUME TailFrees = FALSE
  PROVE  Spec => []Coalesced
BY Inductive, CoalescedFromInv, PTL

\* What callers hold is off the list, and PG_property marks the listed blocks
\* and no page else (default_pmm.c:45).
THEOREM Unlinked ==
  ASSUME TailFrees = FALSE
  PROVE  Spec => []GrantedUnlinked
BY Inductive, UnlinkedFromInv, PTL

\* First fit takes the lowest run of pages that is large enough, best fit one
\* of the smallest, and NULL is returned only when there is none.
THEOREM SearchesExactly ==
  ASSUME TailFrees = FALSE
  PROVE  Spec => []SearchExact
BY Inductive, SearchFromInv, PTL

-----------------------------------------------------------------------------
(* The refinement.                                                         *)

LEMMA FreeOfInv == IInv => FreePages \cup HandPages = Region \ owned
BY Lists

LEMMA RefinementStep ==
  ASSUME TailFrees = FALSE, IInv, [Next]_vars,
         (FreePages \cup HandPages)' = Region \ owned'
  PROVE  [PA!Next]_(PA!vars)
<1> DEFINE Avail == FreePages \cup HandPages
           asked == IF pc \in {"scan", "take", "null"} THEN arg ELSE -1
<1>1. Avail = Region \ owned /\ Avail' = Region \ owned' /\ owned \subseteq Region
  BY FreeOfInv DEF IInv, BlocksInv
<1>2. pc \in {"scan", "take", "null"} => arg \in Nat \ {0}
  BY RequestsAssumption DEF IInv, CallInv
<1> HIDE DEF Avail
<1>3. CASE owned' = owned /\ asked' = asked
  <2>1. Avail' = Avail
    BY <1>1, <1>3
  <2> QED
    BY <1>3, <2>1 DEF PA!vars, Avail
<1>4. CASE Take /\ UNCHANGED pmm_manager
  <2>1. /\ asked = arg /\ asked # -1 /\ asked' = -1 /\ page \in PageProperty
        /\ owned' = owned \cup page .. (page + arg - 1) /\ property[page] >= arg
    BY <1>2, <1>4 DEF Take, ReturnToCaller, IInv, CallInv
  <2>2. /\ page \in Nat /\ property[page] \in Nat
        /\ page .. (page + property[page] - 1) \subseteq Region \ owned
    BY <2>1, Block DEF IInv, Pages
  <2>3. arg \in Nat \ {0}
    BY <1>2, <1>4 DEF Take
  <2> DEFINE hi == page + arg - 1
  <2>4. /\ page .. hi \subseteq Avail /\ hi - page + 1 >= asked
        /\ Avail' = Avail \ (page .. hi)
    BY <1>1, <2>1, <2>2, <2>3
  <2>5. page \in Region /\ hi \in Region
    BY <1>1, <2>2, <2>3, <2>4
  <2> HIDE DEF hi
  <2>6. PA!Grant(page, hi)
    BY <2>1, <2>4 DEF PA!Grant, PA!NoCall, Avail, hi
  <2> QED
    BY <2>5, <2>6 DEF PA!Next
<1>5. CASE AllocNull /\ UNCHANGED pmm_manager
  <2>1. /\ asked = arg /\ asked # -1 /\ asked' = -1 /\ owned' = owned
        /\ \A p \in PageProperty : property[p] < arg
    BY <1>2, <1>5 DEF AllocNull, ReturnToCaller, IInv, CallInv
  <2>2. asked = 1 => Avail = {}
    <3> SUFFICES ASSUME arg = 1 PROVE Avail = {}
      BY <2>1
    <3>1. PageProperty = {}
      BY <2>1, Block DEF IInv
    <3> QED
      BY <1>1, <3>1 DEF IInv, BlocksInv
  <2>3. Avail' = Avail
    BY <1>1, <2>1
  <2>4. PA!Refuse
    BY <2>1, <2>2, <2>3 DEF PA!Refuse, PA!NoCall, Avail
  <2> QED
    BY <2>4 DEF PA!Next
<1>6. CASE \E n \in Requests : alloc_pages(n)
  <2>1. PICK n \in Requests : alloc_pages(n)
    BY <1>6
  <2>2. asked = -1 /\ asked' = n /\ owned' = owned
    BY <2>1 DEF alloc_pages
  <2>3. Avail' = Avail
    BY <1>1, <2>2
  <2>4. PA!Ask(n)
    BY <2>2, <2>3 DEF PA!Ask, PA!NoCall, Avail
  <2> QED
    BY <2>1, <2>4 DEF PA!Next
<1>7. CASE \E base \in Region, n \in Requests : CallerFrees(base, n)
  <2>1. PICK base \in Region, n \in Requests : CallerFrees(base, n)
    BY <1>7
  <2> DEFINE hi == base + n - 1
  <2>2. /\ asked = -1 /\ asked' = -1 /\ base .. hi \subseteq owned
        /\ owned' = owned \ (base .. hi)
    BY <2>1 DEF CallerFrees, free_pages
  <2>3. base \in Nat /\ n \in Nat \ {0}
    BY EntryTypes, RequestsAssumption
  <2>4. hi \in Region
    BY <1>1, <2>2, <2>3
  <2> HIDE DEF hi
  <2>5. Avail' = Avail \cup base .. hi
    BY <1>1, <2>2
  <2>6. PA!Release(base, hi)
    BY <2>2, <2>5 DEF PA!Release, PA!NoCall, Avail
  <2> QED
    BY <2>4, <2>6 DEF PA!Next
<1>8. CASE (\/ ScanFirst \/ ScanBest \/ ScanEnd \/ Insert \/ MergeLow \/ MergeHigh)
  <2>1. owned' = owned /\ asked' = asked
    BY <1>8 DEF ScanFirst, ScanBest, ScanEnd, Insert, MergeLow, MergeHigh, ReturnToCaller
  <2> QED
    BY <1>3, <2>1
<1>9. CASE UNCHANGED vars
  BY <1>3, <1>9 DEF vars
<1> QED
  BY <1>4, <1>5, <1>6, <1>7, <1>8, <1>9 DEF Next, RunningCall, CallerStep

\* Both managers keep the contract of a page allocator: a grant is a run of
\* free pages of the size asked for, frees return what was granted, and a
\* single page is refused only when none is free (struct pmm_manager).
THEOREM Implements ==
  ASSUME TailFrees = FALSE
  PROVE  Spec => ImplementsAllocator
<1>1. Init => PA!Init
  <2> SUFFICES ASSUME Init PROVE PA!Init
    OBVIOUS
  <2>1. FreePages \cup HandPages = Region \ owned
    BY Initially, FreeOfInv
  <2>2. owned = {} /\ pc = "idle"
    BY DEF Init
  <2> QED
    BY <2>1, <2>2 DEF PA!Init, PA!NoCall
<1>2. IInv' => (FreePages \cup HandPages = Region \ owned)'
  BY FreeOfInv, PTL
<1>3. IInv /\ IInv' /\ [Next]_vars => [PA!Next]_(PA!vars)
  BY <1>2, RefinementStep
<1> QED
  BY <1>1, <1>3, Inductive, PTL DEF Spec, ImplementsAllocator, PA!Spec
=============================================================================
