--------------------------- MODULE FitCheckProofs ---------------------------
(***************************************************************************)
(* Proofs about the boot of a kernel that uses the first-fit or the        *)
(* best-fit manager: no assertion of default_check or best_fit_check       *)
(* fails, and callers then meet an allocator with the whole region free.   *)
(*                                                                         *)
(* The check gives the manager an empty list and frees pages into it above *)
(* all that are there, which leaves entries whose prev is the entry itself *)
(* (see Insert of FitPmm); the manager's own invariant does not hold then. *)
(* The invariant of this module says for every statement what the list,    *)
(* the blocks and the variables of the check are.                          *)
(***************************************************************************)
EXTENDS FitProofs, FitCheck

-----------------------------------------------------------------------------
(* The list of the check.  It frees pages above all that are on its list,  *)
(* so that some entries point back at themselves.                          *)

\* The list memory l links the pages of L in address order; those of S point
\* back to themselves, the others to the entry before them.  The block at h is
\* off the list; its links are as they were when it was alone on it.
Chained(l, L, S, h) ==
  /\ l \in ListMemory
  /\ L \subseteq Region /\ S \subseteq L /\ h \in Region \ L
  /\ \A e \in L \cup {free_list} :
       /\ l.next[e] \in L \cup {free_list}
       /\ l.next[e] # free_list => l.next[e] > e
       /\ \A p \in L : p > e => l.next[e] # free_list /\ l.next[e] <= p
  /\ \A p \in L \ S : l.prev[p] \in L \cup {free_list} /\ l.next[l.prev[p]] = p
  /\ \A p \in S : l.prev[p] = p
  /\ l.next[h] = free_list /\ l.prev[h] = free_list

\* What such a chain is made of.
LEMMA ChainedTypes ==
  ASSUME NEW l, NEW L, NEW S, NEW h, Chained(l, L, S, h)
  PROVE  /\ \A e \in L \cup {free_list} : e \in Entries /\ e \in Int /\ e >= free_list
         /\ \A e \in L : e \in Region /\ e # free_list /\ e # h
         /\ h \in Entries /\ h # free_list /\ h \in Int
         /\ \A e \in Entries : l.next[e] \in Entries /\ l.prev[e] \in Entries
         /\ l \in ListMemory
BY EntryTypes DEF Chained, Entries, ListMemory

\* An entry that does not point back at itself comes after its predecessor, and
\* nothing comes between them.
LEMMA Predecessor ==
  ASSUME NEW l, NEW L, NEW S, NEW h, Chained(l, L, S, h), NEW x \in L \ S
  PROVE  /\ l.prev[x] \in L \cup {free_list} /\ l.next[l.prev[x]] = x
         /\ l.prev[x] < x
         /\ \A p \in L : p > l.prev[x] => x <= p
         /\ \A e \in L \cup {free_list} : l.next[e] = x => e = l.prev[x]
<1> DEFINE a == l.prev[x]
<1>0. x \in L /\ x # free_list
  BY ChainedTypes
<1>1. a \in L \cup {free_list} /\ l.next[a] = x /\ x # free_list /\ x \in L
  BY <1>0 DEF Chained
<1>2. a < x /\ \A p \in L : p > a => x <= p
  <2>1. l.next[a] > a /\ \A p \in L : p > a => l.next[a] <= p
    BY <1>1 DEF Chained
  <2> QED
    BY <1>1, <2>1, ChainedTypes
<1>3. ASSUME NEW e \in L \cup {free_list}, l.next[e] = x PROVE e = a
  <2>1. e < x
    <3>1. l.next[e] > e
      BY <1>1, <1>3 DEF Chained
    <3> QED
      BY <1>1, <1>3, <3>1, ChainedTypes
  <2>2. ~(a < e)
    <3>1. CASE e \in L
      BY <1>1, <1>2, <2>1, <3>1, ChainedTypes
    <3>2. CASE e = free_list
      BY <1>1, <3>2, ChainedTypes, EntryTypes
    <3> QED
      BY <3>1, <3>2
  <2>3. ~(e < a)
    <3>1. CASE a \in L
      <4>1. \A p \in L : p > e => l.next[e] <= p
        BY DEF Chained
      <4> QED
        BY <1>1, <1>2, <1>3, <3>1, <4>1, ChainedTypes
    <3>2. CASE a = free_list
      BY <3>2, ChainedTypes, EntryTypes
    <3> QED
      BY <1>1, <3>1, <3>2
  <2> QED
    BY <1>1, <2>2, <2>3, ChainedTypes
<1> QED
  BY <1>1, <1>2, <1>3

\* Deleting an entry whose backward pointer is right mends that of the next.
LEMMA DeleteChained ==
  ASSUME NEW l, NEW L, NEW S, NEW h, Chained(l, L, S, h), NEW x \in L \ S
  PROVE  Chained(list_del(l, x), L \ {x}, S \ {l.next[x]}, h)
<1> DEFINE a == l.prev[x]
           b == l.next[x]
           m == Bypass(l, a, b)
<1>1. list_del(l, x) = m
  BY DEF list_del, Bypass, __list_del
<1>2. /\ a \in L \cup {free_list} /\ l.next[a] = x /\ a < x
      /\ \A p \in L : p > a => x <= p
      /\ \A e \in L \cup {free_list} : l.next[e] = x => e = a
  BY Predecessor
<1>3. /\ b \in L \cup {free_list}
      /\ b # free_list => b > x
      /\ \A p \in L : p > x => b # free_list /\ b <= p
  BY DEF Chained
<1>4. a \in Entries /\ b \in Entries /\ l \in ListMemory
  BY <1>2, <1>3, ChainedTypes
<1>6. b = l.next[x] /\ a = l.prev[x] /\ m = Bypass(l, a, b)
  OBVIOUS
<1> HIDE DEF a, b, m
<1>5. /\ m \in ListMemory
      /\ \A e \in Entries : /\ m.next[e] = IF e = a THEN b ELSE l.next[e]
                            /\ m.prev[e] = IF e = b THEN a ELSE l.prev[e]
  <2>1. /\ Bypass(l, a, b) \in ListMemory
        /\ \A e \in Entries :
              /\ Bypass(l, a, b).next[e] = IF e = a THEN b ELSE l.next[e]
              /\ Bypass(l, a, b).prev[e] = IF e = b THEN a ELSE l.prev[e]
    BY <1>4, DelFields
  <2> QED
    BY <1>6, <2>1
<1>7. ASSUME NEW e \in (L \ {x}) \cup {free_list}
      PROVE  /\ m.next[e] \in (L \ {x}) \cup {free_list}
             /\ m.next[e] # free_list => m.next[e] > e
             /\ \A p \in L \ {x} : p > e => m.next[e] # free_list /\ m.next[e] <= p
  <2>1. CASE e = a
    <3>1. m.next[e] = b
      BY <1>4, <1>5, <2>1
    <3>2. b # x
      BY <1>3, ChainedTypes
    <3>3. b # free_list => b > a
      <4>1. a \in Int /\ b \in Int /\ x \in Int
        BY <1>2, <1>3, ChainedTypes
      <4> QED
        BY <1>2, <1>3, <4>1
    <3>4. \A p \in L \ {x} : p > a => p > x
      BY <1>2, ChainedTypes
    <3> QED
      BY <1>3, <2>1, <3>1, <3>2, <3>3, <3>4
  <2>2. CASE e # a
    <3>1. e \in L \cup {free_list} /\ m.next[e] = l.next[e]
      BY <1>5, <2>2, ChainedTypes
    <3>2. l.next[e] # x
      BY <1>2, <2>2, <3>1
    <3>3. /\ l.next[e] \in L \cup {free_list}
          /\ l.next[e] # free_list => l.next[e] > e
          /\ \A p \in L : p > e => l.next[e] # free_list /\ l.next[e] <= p
      BY <3>1 DEF Chained
    <3> QED
      BY <3>1, <3>2, <3>3
  <2> QED
    BY <2>1, <2>2
<1>8. ASSUME NEW p \in (L \ {x}) \ (S \ {b})
      PROVE  m.prev[p] \in (L \ {x}) \cup {free_list} /\ m.next[m.prev[p]] = p
  <2>1. CASE p = b
    <3>1. m.prev[p] = a /\ m.next[a] = b
      BY <1>4, <1>5, <2>1
    <3>2. a # x
      BY <1>2, ChainedTypes
    <3> QED
      BY <1>2, <2>1, <3>1, <3>2
  <2>2. CASE p # b
    <3>1. p \in L \ S /\ m.prev[p] = l.prev[p]
      BY <1>5, <1>8, <2>2, ChainedTypes
    <3>2. l.prev[p] \in L \cup {free_list} /\ l.next[l.prev[p]] = p
      BY <3>1 DEF Chained
    <3>3. l.prev[p] # x
      BY <1>6, <2>2, <3>2
    <3>4. l.prev[p] # a
      BY <1>2, <1>8, <3>2
    <3>5. m.next[l.prev[p]] = l.next[l.prev[p]]
      BY <1>5, <3>1, <3>4, ChainedTypes
    <3> QED
      BY <3>1, <3>2, <3>3, <3>5
  <2> QED
    BY <2>1, <2>2
<1>9. ASSUME NEW p \in S \ {b}
      PROVE  m.prev[p] = p
  <2>0. p \in L
    BY DEF Chained
  <2>1. l.prev[p] = p /\ p \in Entries
    <3>1. l.prev[p] = p
      BY DEF Chained
    <3> QED
      BY <2>0, <3>1, ChainedTypes
  <2> QED
    BY <1>5, <2>1
<1>10. m.next[h] = free_list /\ m.prev[h] = free_list
  <2>1. h # a /\ h # b /\ h \in Entries
    BY <1>2, <1>3, ChainedTypes
  <2>2. l.next[h] = free_list /\ l.prev[h] = free_list
    BY DEF Chained
  <2> QED
    BY <1>5, <2>1, <2>2
<1>11. L \ {x} \subseteq Region /\ S \ {b} \subseteq L \ {x} /\ h \in Region \ (L \ {x})
  BY DEF Chained
<1>12. Chained(m, L \ {x}, S \ {b}, h)
  BY <1>5, <1>7, <1>8, <1>9, <1>10, <1>11 DEF Chained
<1> QED
  BY <1>1, <1>6, <1>12

\* Deleting the last entry when it points back at itself leaves it on the list.
LEMMA DeleteSelf ==
  ASSUME NEW l, NEW L, NEW S, NEW h, Chained(l, L, S, h), NEW x \in S, l.next[x] = free_list
  PROVE  Chained(list_del(l, x), L, S, h)
<1> DEFINE m == Bypass(l, x, free_list)
<1>1. x \in L /\ l.prev[x] = x
  BY DEF Chained
<1>2. list_del(l, x) = m
  BY <1>1 DEF list_del, Bypass, __list_del
<1>3. x \in Entries /\ free_list \in Entries /\ l \in ListMemory
  BY <1>1, ChainedTypes, EntryTypes
<1>4. /\ m \in ListMemory
      /\ \A e \in Entries : /\ m.next[e] = IF e = x THEN free_list ELSE l.next[e]
                            /\ m.prev[e] = IF e = free_list THEN x ELSE l.prev[e]
  BY <1>3, DelFields
<1> HIDE DEF m
<1>5. /\ \A e \in L \cup {free_list} : m.next[e] = l.next[e]
      /\ \A p \in L : m.prev[p] = l.prev[p]
      /\ m.next[h] = l.next[h] /\ m.prev[h] = l.prev[h]
  BY <1>1, <1>4, ChainedTypes
<1>6. Chained(m, L, S, h)
  BY <1>4, <1>5 DEF Chained
<1> QED
  BY <1>2, <1>6

\* Linking a page between two neighbours of the list.
LEMMA AddBetween ==
  ASSUME NEW l, NEW L, NEW S, NEW h, Chained(l, L, S, h),
         NEW e \in L \cup {free_list}, NEW x \in Region, x \notin L, x # h, e < x,
         l.next[e] # free_list => x < l.next[e]
  PROVE  Chained(Between(l, x, e, l.next[e]), L \cup {x}, S \ {l.next[e]}, h)
<1> DEFINE b == l.next[e]
           m == Between(l, x, e, b)
<1>1. /\ b \in L \cup {free_list}
      /\ \A p \in L : p > e => b # free_list /\ b <= p
  BY DEF Chained
<1>2. e \in Entries /\ b \in Entries /\ x \in Entries /\ l \in ListMemory
  BY <1>1, ChainedTypes DEF Entries
<1>3. /\ m \in ListMemory
      /\ \A f \in Entries :
           /\ m.next[f] = IF f = x THEN b ELSE IF f = e THEN x ELSE l.next[f]
           /\ m.prev[f] = IF f = x THEN e ELSE IF f = b THEN x ELSE l.prev[f]
  <2>1. b \in Entries
    BY <1>2
  <2> HIDE DEF b
  <2> QED
    BY <1>2, <2>1, AddFields
<1>4. x \in Int /\ x # free_list /\ x > free_list /\ x # e /\ x # b
  BY <1>1, EntryTypes
<1>5. b # free_list => x < b
  OBVIOUS
<1>6. b = l.next[e]
  OBVIOUS
<1>7. \A p \in L : p < x => p <= e
  <2> SUFFICES ASSUME NEW p \in L, p < x, ~(p <= e) PROVE FALSE
    OBVIOUS
  <2>1. p \in Int /\ e \in Int /\ b \in Int
    BY <1>1, ChainedTypes
  <2>2. b # free_list /\ b <= p
    BY <1>1, <2>1
  <2> QED
    BY <1>4, <1>5, <2>1, <2>2
<1> HIDE DEF b, m
<1>8. ASSUME NEW f \in (L \cup {x}) \cup {free_list}
      PROVE  /\ m.next[f] \in (L \cup {x}) \cup {free_list}
             /\ m.next[f] # free_list => m.next[f] > f
             /\ \A p \in L \cup {x} : p > f => m.next[f] # free_list /\ m.next[f] <= p
  <2>0. \A g \in L \cup {free_list} : g \in Int /\ g \in Entries
    BY ChainedTypes
  <2>1. CASE f = x
    <3>1. m.next[f] = b
      BY <1>2, <1>3, <2>1
    <3>2. \A p \in L : p > x => p > e
      BY <1>4, <2>0
    <3> QED
      BY <1>1, <1>4, <1>5, <2>0, <2>1, <3>1, <3>2
  <2>2. CASE f = e
    <3>1. m.next[f] = x
      BY <1>2, <1>3, <1>4, <2>2
    <3>2. \A p \in L : p > e => x <= p
      BY <1>1, <1>4, <1>5, <2>0
    <3> QED
      BY <1>4, <2>2, <3>1, <3>2
  <2>3. CASE f # x /\ f # e
    <3>1. f \in L \cup {free_list} /\ f \in Entries
      BY <2>0, <2>3
    <3>2. m.next[f] = l.next[f]
      BY <1>3, <2>3, <3>1
    <3>3. /\ l.next[f] \in L \cup {free_list}
          /\ l.next[f] # free_list => l.next[f] > f
          /\ \A p \in L : p > f => l.next[f] # free_list /\ l.next[f] <= p
      BY <3>1 DEF Chained
    <3>4. x > f => l.next[f] # free_list /\ l.next[f] <= x
      <4> SUFFICES ASSUME x > f PROVE l.next[f] # free_list /\ l.next[f] <= x
        OBVIOUS
      <4>1. f < e
        <5>1. f \in Int /\ e \in Int /\ e >= free_list /\ f # e
          BY <2>0, <2>3, <3>1, ChainedTypes
        <5>2. f <= e
          <6>1. CASE f = free_list
            BY <5>1, <6>1
          <6>2. CASE f \in L
            BY <1>7, <6>2
          <6> QED
            BY <3>1, <6>1, <6>2
        <5> QED
          BY <5>1, <5>2
      <4>2. e \in L
        BY <2>0, <3>1, <4>1, ChainedTypes, EntryTypes
      <4> QED
        BY <1>4, <2>0, <3>3, <4>1, <4>2
    <3> QED
      BY <3>2, <3>3, <3>4
  <2> QED
    BY <2>1, <2>2, <2>3
<1>9. ASSUME NEW p \in (L \cup {x}) \ (S \ {b})
      PROVE  m.prev[p] \in (L \cup {x}) \cup {free_list} /\ m.next[m.prev[p]] = p
  <2>1. CASE p = x
    <3>1. m.prev[p] = e /\ m.next[e] = x
      BY <1>2, <1>3, <1>4, <2>1
    <3> QED
      BY <2>1, <3>1
  <2>2. CASE p = b /\ p # x
    <3>1. b \in Entries /\ m.prev[p] = x /\ m.next[x] = b
      BY <1>2, <1>3, <1>4, <2>2
    <3> QED
      BY <2>2, <3>1
  <2>3. CASE p # b /\ p # x
    <3>1. p \in L \ S /\ p \in Entries
      BY <1>9, <2>3, ChainedTypes
    <3>2. m.prev[p] = l.prev[p]
      BY <1>3, <2>3, <3>1
    <3>3. l.prev[p] \in L \cup {free_list} /\ l.next[l.prev[p]] = p
      BY <3>1 DEF Chained
    <3>4. l.prev[p] # x /\ l.prev[p] # e /\ l.prev[p] \in Entries
      <4>1. l.prev[p] \in Entries
        BY <3>3, ChainedTypes
      <4> QED
        BY <1>4, <1>6, <2>3, <3>3, <4>1
    <3> QED
      BY <1>3, <3>2, <3>3, <3>4
  <2> QED
    BY <2>1, <2>2, <2>3
<1>10. ASSUME NEW p \in S \ {b}
       PROVE  m.prev[p] = p
  <2>1. p \in L /\ l.prev[p] = p
    BY DEF Chained
  <2>2. p \in Entries /\ p # x
    BY <2>1, ChainedTypes
  <2> QED
    BY <1>3, <2>1, <2>2
<1>11. m.next[h] = free_list /\ m.prev[h] = free_list
  <2>1. h # e /\ h # b /\ h # x /\ h \in Entries
    BY <1>1, ChainedTypes
  <2>2. l.next[h] = free_list /\ l.prev[h] = free_list
    BY DEF Chained
  <2> QED
    BY <1>3, <2>1, <2>2
<1>12. L \cup {x} \subseteq Region /\ S \ {b} \subseteq L \cup {x} /\ h \in Region \ (L \cup {x})
  BY DEF Chained
<1>13. Chained(m, L \cup {x}, S \ {b}, h)
  BY <1>3, <1>8, <1>9, <1>10, <1>11, <1>12 DEF Chained
<1> QED
  BY <1>13 DEF b, m

\* Adding the last entry behind itself makes it point back at itself.
LEMMA AddSelf ==
  ASSUME NEW l, NEW L, NEW S, NEW h, Chained(l, L, S, h), NEW x \in L, l.next[x] = free_list
  PROVE  Chained(list_add(l, x, x), L, S \cup {x}, h)
<1> DEFINE m == Between(l, x, x, free_list)
<1>1. list_add(l, x, x) = m
  BY DEF list_add, list_add_after, Between, __list_add
<1>2. x \in Entries /\ free_list \in Entries /\ x # free_list /\ l \in ListMemory
  BY ChainedTypes, EntryTypes
<1>3. /\ m \in ListMemory
      /\ \A f \in Entries :
           /\ m.next[f] = IF f = x THEN free_list ELSE IF f = x THEN x ELSE l.next[f]
           /\ m.prev[f] = IF f = x THEN x ELSE IF f = free_list THEN x ELSE l.prev[f]
  BY <1>2, AddFields
<1> HIDE DEF m
<1>4. /\ \A e \in L \cup {free_list} : m.next[e] = l.next[e]
      /\ \A p \in L \ {x} : m.prev[p] = l.prev[p]
      /\ m.prev[x] = x
      /\ m.next[h] = l.next[h] /\ m.prev[h] = l.prev[h]
  BY <1>2, <1>3, ChainedTypes
<1>5. ASSUME NEW p \in L \ (S \cup {x})
      PROVE  m.prev[p] \in L \cup {free_list} /\ m.next[m.prev[p]] = p
  <2>1. l.prev[p] \in L \cup {free_list} /\ l.next[l.prev[p]] = p
    BY DEF Chained
  <2> QED
    BY <1>4, <2>1
<1>6. \A p \in S \cup {x} : m.prev[p] = p
  BY <1>4 DEF Chained
<1>7. Chained(m, L, S \cup {x}, h)
  BY <1>3, <1>4, <1>5, <1>6 DEF Chained
<1> QED
  BY <1>1, <1>7

-----------------------------------------------------------------------------
(* The calls of the check while the rest of the region is off the list.    *)

\* The manager's state: of the listed pages those of T are not flagged, the
\* block at h is, though it is off the list.
Memory(L, S, T, nr, o, h) ==
  /\ Chained(links, L, S, h)
  /\ property \in [Region -> 0..RegionPages]
  /\ PageProperty = (L \ T) \cup {h}
  /\ nr_free = nr
  /\ owned = o

Quiet == pc = "idle" /\ le = free_list /\ page = NULL /\ arg = 0

\* Block q serves a request at least as well as block p.
Preferred(q, p) ==
  IF BestFit THEN property[q] < property[p] \/ (property[q] = property[p] /\ q <= p)
             ELSE q <= p

\* What a search of the blocks of L has found out.
Searching(L) ==
  /\ pc \in {"scan", "take", "null"}
  /\ pc # "null" => arg <= nr_free
  /\ pc = "scan" =>
       /\ le \in L \cup {free_list}
       /\ page # NULL => BestFit /\ page \in L /\ property[page] >= arg
       /\ \A p \in L : p <= le /\ property[p] >= arg => page # NULL /\ Preferred(page, p)
       /\ page = NULL \/ page <= le
  /\ pc = "take" =>
       /\ page \in L /\ property[page] >= arg
       /\ \A p \in L : property[p] >= arg => Preferred(page, p)
  /\ pc = "null" => arg > nr_free \/ \A p \in L : property[p] < arg

Serving(L, S, T, nr, o, h) ==
  /\ Memory(L, S, T, nr, o, h)
  /\ Quiet \/ (Statement.do = "alloc" /\ arg = Statement.n /\ Searching(L))

Topmost(L, x) == L # {} /\ \A q \in L : q < x

\* The pages that point back at themselves once x is linked.
Backed(L, S, x) == IF Topmost(L, x) THEN S \cup {x} ELSE S

\* The loop that links x, which goes on when it has put x at the end.
Placing(L, S, h, x) ==
  \/ /\ Chained(links, L, S, h)
     /\ le \in L \cup {free_list} /\ le < x /\ links.next[le] # free_list
  \/ /\ Topmost(L, x) /\ Chained(links, L \cup {x}, S, h)
     /\ le \in L /\ links.next[le] = x /\ links.next[x] = free_list
  \/ /\ Topmost(L, x) /\ Chained(links, L \cup {x}, S \cup {x}, h)
     /\ le = x /\ links.next[x] = free_list

\* A block of m pages at x is being freed.
Freeing(L, S, T, nr, o, h, x, m) ==
  /\ property \in [Region -> 0..RegionPages] /\ property[x] = m
  /\ PageProperty = ((L \cup {x}) \ T) \cup {h}
  /\ nr_free = nr + m
  /\ owned = o \ x .. (x + m - 1)
  /\ page = x
  /\ pc \in {"insert", "merge_low", "merge_high"}
  /\ pc = "insert" => Placing(L, S, h, x)
  /\ pc # "insert" => Chained(links, L \cup {x}, Backed(L, S, x), h)

\* The check is at a statement that meets this state of the manager.
Row(L, S, T, nr, o, h) ==
  \/ Serving(L, S, T, nr, o, h)
  \/ Statement.do = "free" /\ Freeing(L, S, T, nr, o, h, Location, Statement.n)

\* The statement ends with this result of alloc_pages.
Ends(got) ==
  /\ Assertion(CASE Statement.want = "page" -> got # NULL
                 [] Statement.want = "NULL" -> got = NULL
                 [] OTHER -> got = Location)
  /\ local' = [local EXCEPT ![Statement.to] = got]
  /\ UNCHANGED <<stored, counted>>

\* A free of m pages at x that touch no block: the check is at it, or inside.
Alone(L, S, T, nr, o, h, x, m) ==
  /\ Row(L, S, T, nr, o, h) /\ Statement.do = "free" /\ Location = x /\ Statement.n = m
  /\ x \notin L /\ x # h /\ h \notin x .. (x + m - 1)
  /\ \A q \in L \ T : q \notin x .. (x + m - 1)
  /\ \A q \in L : q > x => q \notin S
  /\ pc = "merge_low" => Topmost(L, x) \/ \A p \in L : p + property[p] # x
  /\ pc = "merge_high" => \A p \in L : x + m # p

\* An alloc_pages that no block of L can serve, and that should return NULL.
Refused(L, S, T, nr, o, h) ==
  /\ Row(L, S, T, nr, o, h)
  /\ \E n \in Nat : /\ Statement = AllocNone(n)
                    /\ \/ n > nr
                       \/ \A p \in L : property[p] \in Nat /\ property[p] <= nr /\ property[p] < n

\* An alloc_pages of n pages that x, which comes before b, serves best.
Served(L, S, T, nr, o, h, x, n, b) ==
  /\ Row(L, S, T, nr, o, h)
  /\ Statement.do = "alloc" /\ Statement.n = n /\ Statement.to \in Names
  /\ Statement.want = "page" \/ (Statement.want = "this_page" /\ Location = x)
  /\ x \in L /\ property[x] = n /\ n <= nr
  /\ \A p \in L : property[p] \in Nat /\ property[p] <= nr
  /\ \A p \in L : property[p] >= n /\ Preferred(p, x) => p = x
  /\ b \in L \cup {free_list} /\ (b # free_list => b > x)
  /\ \A p \in L : p > x => b # free_list /\ b <= p

\* A statement that asserts what is so.
Seen(L, S, T, nr, o, h) ==
  /\ Row(L, S, T, nr, o, h)
  /\ \/ \E n : Statement = NrFreeIs(n) /\ nr = n
     \/ Statement = Do("not_empty") /\ L # {}
     \/ \E y, i, n : /\ Statement = HeadsBlock(y, i, n)
                     /\ local[y] + i \in L \ T /\ property[local[y] + i] = n

\* What linking a block of m pages at x makes of the list, and taking it off.
Grows(L, S, nr, o, x, m, L2, S2, nr2, o2) ==
  L2 = L \cup {x} /\ S2 = Backed(L, S, x) /\ nr2 = nr + m /\ o2 = o \ x .. (x + m - 1)
Shrinks(L, S, nr, o, x, m, b, L2, S2, nr2, o2) ==
  L2 = L \ {x} /\ S2 = S \ {b} /\ nr2 = nr - m /\ o2 = o \cup x .. (x + m - 1)

\* A block of m pages at x has been linked, and the call is over.
Returned(L, S, T, nr, o, h, x, m) ==
  /\ Memory(L \cup {x}, Backed(L, S, x), T, nr + m, o \ x .. (x + m - 1), h)
  /\ Quiet /\ property[x] = m

\* A step of the search leaves the list alone and has seen what it says.
LEMMA SearchStep ==
  ASSUME NEW L, NEW S, NEW h, Chained(links, L, S, h), Searching(L),
         arg \in Nat, nr_free \in Nat,
         \A p \in L : property[p] \in Nat /\ property[p] <= nr_free,
         ScanFirst \/ ScanBest \/ ScanEnd, UNCHANGED pmm_manager
  PROVE  /\ Searching(L)'
         /\ UNCHANGED <<links, property, PageProperty, nr_free, owned, arg>>
<1> DEFINE n == links.next[le]
<1>1. /\ pc = "scan" /\ pc' \in {"scan", "take", "null"}
      /\ UNCHANGED <<links, property, PageProperty, nr_free, owned, arg>>
  BY DEF ScanFirst, ScanBest, ScanEnd
<1>2. /\ le \in L \cup {free_list}
      /\ page # NULL => BestFit /\ page \in L /\ property[page] >= arg
      /\ \A p \in L : p <= le /\ property[p] >= arg => page # NULL /\ Preferred(page, p)
      /\ page = NULL \/ page <= le
  BY <1>1 DEF Searching
<1>3. /\ n \in L \cup {free_list}
      /\ n # free_list => n > le
      /\ \A p \in L : p > le => n # free_list /\ n <= p
  BY <1>2 DEF Chained
<1>4. /\ \A p \in L : p \in Int /\ p # free_list
      /\ le \in Int /\ n \in Int
  BY <1>2, <1>3, ChainedTypes
<1>5. \A p, q \in L : Preferred(p, q)' = Preferred(p, q)
  BY <1>1 DEF Preferred, BestFit
<1>6. \A p \in L : p <= n /\ n # free_list => p <= le \/ p = n
  BY <1>3, <1>4
<1> HIDE DEF n
<1>7. n = list_next(links, le)
  BY DEF n, list_next
<1>8. CASE ScanFirst
  <2>1. n # free_list /\ le' = n /\ n \in L /\ ~BestFit /\ page = NULL
    BY <1>2, <1>3, <1>7, <1>8 DEF ScanFirst
  <2>2. CASE property[n] >= arg
    <3>1. page' = n /\ pc' = "take"
      BY <1>7, <1>8, <2>1, <2>2 DEF ScanFirst, Fits
    <3>2. \A p \in L : property[p] >= arg => n <= p
      BY <1>2, <1>3, <1>4, <1>6, <2>1
    <3>3. \A p \in L : property[p] >= arg => Preferred(n, p)
      BY <2>1, <3>2 DEF Preferred
    <3> QED
      BY <1>1, <1>5, <2>1, <2>2, <3>1, <3>3 DEF Searching
  <2>3. CASE ~(property[n] >= arg)
    <3>1. page' = NULL /\ pc' = "scan"
      BY <1>1, <1>7, <1>8, <2>1, <2>3 DEF ScanFirst, Fits
    <3>2. \A p \in L : p <= n => ~(property[p] >= arg)
      BY <1>2, <1>6, <2>1, <2>3
    <3> QED
      BY <1>1, <2>1, <3>1, <3>2 DEF Searching
  <2> QED
    BY <2>2, <2>3
<1>9. CASE ScanBest
  <2>1. n # free_list /\ le' = n /\ n \in L /\ BestFit /\ pc' = "scan" /\ BestFit'
    BY <1>1, <1>3, <1>7, <1>9 DEF ScanBest, BestFit
  <2>2. page' = IF property[n] >= arg /\ property[n] < min_size THEN n ELSE page
    BY <1>7, <1>9, <2>1 DEF ScanBest, Fits
  <2>3. \A p \in L : property[p] \in Nat /\ property[p] < nr_free + 1
    OBVIOUS
  <2>4. /\ page' # NULL => page' \in L /\ property[page'] >= arg
        /\ page' = NULL \/ page' <= n
    BY <1>2, <1>3, <1>4, <2>1, <2>2, EntryTypes
  <2>5. ASSUME NEW p \in L, p <= n, property[p] >= arg
        PROVE  page' # NULL /\ Preferred(page', p)
    <3>1. min_size \in Nat
      BY <1>2, <2>3 DEF min_size
    <3>2. CASE p = n
      <4>1. CASE property[n] < min_size
        BY <1>4, <2>1, <2>2, <2>5, <3>2, <4>1, EntryTypes DEF Preferred
      <4>2. CASE ~(property[n] < min_size)
        <5>1. page # NULL /\ page' = page /\ property[page] <= property[n] /\ page <= le /\ page \in L
          BY <1>2, <2>1, <2>2, <2>3, <4>2 DEF min_size
        <5>2. page <= n
          BY <1>3, <1>4, <2>1, <5>1
        <5> QED
          BY <2>1, <2>3, <3>2, <5>1, <5>2 DEF Preferred
      <4> QED
        BY <4>1, <4>2
    <3>3. CASE p # n
      <4>1. p <= le /\ page # NULL /\ Preferred(page, p) /\ page \in L
        BY <1>2, <1>6, <2>1, <2>5, <3>3
      <4>2. CASE page' = page
        BY <4>1, <4>2
      <4>3. CASE page' # page
        <5>1. page' = n /\ property[n] < property[page]
          BY <2>2, <4>1, <4>3 DEF min_size
        <5>2. property[n] < property[p]
          BY <2>1, <2>3, <4>1, <5>1 DEF Preferred
        <5> QED
          BY <1>4, <2>1, <5>1, <5>2, EntryTypes DEF Preferred
      <4> QED
        BY <4>2, <4>3
    <3> QED
      BY <3>2, <3>3
  <2>6. \A p \in L : p <= le' /\ property'[p] >= arg' => page' # NULL /\ Preferred(page', p)
    BY <1>1, <2>1, <2>5
  <2> QED
    BY <1>1, <1>5, <2>1, <2>4, <2>6 DEF Searching
<1>10. CASE ScanEnd
  <2>1. n = free_list /\ le' = le /\ page' = page /\ pc' = IF page = NULL THEN "null" ELSE "take"
    BY <1>7, <1>10 DEF ScanEnd
  <2>2. \A p \in L : p <= le
    BY <1>3, <1>4, <2>1
  <2>3. \A p \in L : property[p] >= arg => page # NULL /\ Preferred(page, p)
    BY <1>2, <2>2
  <2>4. CASE page = NULL
    <3>1. \A p \in L : property'[p] < arg'
      BY <1>1, <2>3, <2>4
    <3> QED
      BY <1>1, <2>1, <2>4, <3>1 DEF Searching
  <2>5. CASE page # NULL
    BY <1>1, <1>2, <1>5, <2>1, <2>3, <2>5 DEF Searching
  <2> QED
    BY <2>4, <2>5
<1> QED
  BY <1>1, <1>8, <1>9, <1>10

\* alloc_pages as the check calls it: it goes on, it returns NULL because no
\* block serves, or it takes the block that serves best.
LEMMA AllocServed ==
  ASSUME NEW L, NEW S, NEW T, NEW nr \in Nat, NEW o, NEW h,
         Serving(L, S, T, nr, o, h), Statement.do = "alloc", Statement.n \in Nat,
         Statement.n > nr \/ \A p \in L : property[p] \in Nat /\ property[p] <= nr,
         CallAlloc \/ CallStep, UNCHANGED pmm_manager
  PROVE  \/ /\ Serving(L, S, T, nr, o, h)'
            /\ UNCHANGED <<checkVars, property>>
         \/ /\ Statement.n > nr \/ \A p \in L : property[p] < Statement.n
            /\ Memory(L, S, T, nr, o, h)' /\ Quiet'
            /\ UNCHANGED property
            /\ Ends(NULL)
         \/ /\ page \in L /\ property[page] >= Statement.n
            /\ \A p \in L : property[p] >= Statement.n => Preferred(page, p)
            /\ arg = Statement.n /\ arg <= nr /\ Take
            /\ Memory(L, S, T, nr, o, h)
            /\ Ends(page)
<1>0. Memory(L, S, T, nr, o, h)
  BY DEF Serving
<1>1. CASE CallAlloc
  <2>1. /\ alloc_pages(Statement.n) /\ UNCHANGED checkVars /\ pc = "idle"
    BY <1>1 DEF CallAlloc, alloc_pages
  <2>2. /\ pc' = IF Statement.n > nr_free THEN "null" ELSE "scan"
        /\ arg' = Statement.n
        /\ UNCHANGED <<links, property, PageProperty, nr_free, le, page, owned>>
    BY <2>1 DEF alloc_pages
  <2>3. Statement' = Statement
    BY <2>1 DEF Statement, checkVars, Check, BestFit
  <2>4. Quiet
    BY <2>1 DEF Serving, Searching
  <2>5. Memory(L, S, T, nr, o, h)'
    BY <1>0, <2>2 DEF Memory
  <2>6. Searching(L)'
    <3>1. le' = free_list /\ page' = NULL
      BY <2>2, <2>4 DEF Quiet
    <3>2. \A p \in L : ~(p <= le')
      BY <1>0, <3>1, EntryTypes DEF Memory, Chained
    <3>3. nr_free = nr /\ nr_free' = nr /\ arg' = Statement.n
      BY <1>0, <2>2 DEF Memory
    <3> QED
      BY <2>2, <3>1, <3>2, <3>3 DEF Searching
  <2>7. Serving(L, S, T, nr, o, h)'
    BY <2>2, <2>3, <2>5, <2>6 DEF Serving
  <2> QED
    BY <2>1, <2>2, <2>7
<1>2. CASE CallStep
  <2>1. RunningCall /\ UNCHANGED <<stored, counted>>
    BY <1>2 DEF CallStep
  <2>2. pc # "idle"
    BY <2>1 DEF RunningCall, ScanFirst, ScanBest, ScanEnd, AllocNull, Take, Insert,
                MergeLow, MergeHigh
  <2>3. arg = Statement.n /\ Searching(L) /\ pc \in {"scan", "take", "null"}
    BY <2>2 DEF Serving, Quiet, Searching
  <2>4. CASE pc = "scan"
    <3>1. ScanFirst \/ ScanBest \/ ScanEnd
      BY <2>1, <2>4 DEF RunningCall, AllocNull, Take, Insert, MergeLow, MergeHigh
    <3>2. pc' # "idle"
      BY <2>4, <3>1 DEF ScanFirst, ScanBest, ScanEnd
    <3>3. UNCHANGED checkVars
      BY <1>2, <3>2 DEF CallStep, checkVars
    <3>4. /\ Searching(L)'
          /\ UNCHANGED <<links, property, PageProperty, nr_free, owned, arg>>
      <4>1. Chained(links, L, S, h) /\ nr_free \in Nat /\ arg \in Nat /\ nr_free = nr
        BY <1>0, <2>3 DEF Memory
      <4>3. ~(Statement.n > nr)
        BY <2>3, <2>4, <4>1 DEF Searching
      <4>2. \A p \in L : property[p] \in Nat /\ property[p] <= nr_free
        BY <4>1, <4>3
      <4> QED
        BY <2>3, <3>1, <4>1, <4>2, SearchStep
    <3>5. Statement' = Statement
      BY <3>3 DEF Statement, checkVars, Check, BestFit
    <3>6. Memory(L, S, T, nr, o, h)'
      BY <1>0, <3>4 DEF Memory
    <3>7. Serving(L, S, T, nr, o, h)'
      BY <2>3, <3>4, <3>5, <3>6 DEF Serving
    <3> QED
      BY <3>3, <3>4, <3>7
  <2>5. CASE pc = "null"
    <3>1. AllocNull
      BY <2>1, <2>5 DEF RunningCall, ScanFirst, ScanBest, ScanEnd, Take, Insert, MergeLow, MergeHigh
    <3>2. /\ pc' = "idle" /\ le' = free_list /\ page' = NULL /\ arg' = 0
          /\ UNCHANGED <<links, property, PageProperty, nr_free, owned>>
      BY <3>1 DEF AllocNull, ReturnToCaller
    <3>3. Ends(NULL)
      BY <1>2, <2>1, <2>5, <3>2 DEF CallStep, Ends
    <3>4. Memory(L, S, T, nr, o, h)' /\ Quiet'
      BY <1>0, <3>2 DEF Memory, Quiet
    <3>5. Statement.n > nr \/ \A p \in L : property[p] < Statement.n
      BY <1>0, <2>3, <2>5 DEF Searching, Memory
    <3> QED
      BY <3>2, <3>3, <3>4, <3>5
  <2>6. CASE pc = "take"
    <3>1. Take
      BY <2>1, <2>6 DEF RunningCall, ScanFirst, ScanBest, ScanEnd, AllocNull, Insert, MergeLow, MergeHigh
    <3>2. pc' = "idle"
      BY <3>1 DEF Take, ReturnToCaller
    <3>3. Ends(page)
      BY <1>2, <2>1, <2>6, <3>2 DEF CallStep, Ends
    <3>4. /\ page \in L /\ property[page] >= Statement.n
          /\ \A p \in L : property[p] >= Statement.n => Preferred(page, p)
      BY <2>3, <2>6 DEF Searching
    <3>5. arg <= nr
      BY <1>0, <2>3, <2>6 DEF Searching, Memory
    <3> QED
      BY <1>0, <2>3, <3>1, <3>3, <3>4, <3>5
  <2> QED
    BY <2>3, <2>4, <2>5, <2>6
<1> QED
  BY <1>1, <1>2

\* A block that is taken whole leaves the list.
LEMMA TakeWhole ==
  ASSUME NEW L, NEW S, NEW T, NEW nr, NEW o, NEW h, Memory(L, S, T, nr, o, h),
         Take, NEW x \in L \ S, page = x, NEW k, arg = k, property[x] = k,
         NEW b, b = links.next[x]
  PROVE  /\ Memory(L \ {x}, S \ {b}, T, nr - k, o \cup x .. (x + k - 1), h)'
         /\ Quiet' /\ UNCHANGED property
<1>1. /\ links' = list_del(links, x) /\ PageProperty' = PageProperty \ {x} /\ UNCHANGED property
      /\ nr_free' = nr_free - k /\ owned' = owned \cup x .. (x + k - 1)
      /\ pc' = "idle" /\ le' = free_list /\ page' = NULL /\ arg' = 0
  <2>1. ~(property[page] > arg)
    <3>1. property[x] \in Nat
      BY DEF Memory, Chained
    <3> QED
      BY <3>1
  <2> QED
    BY <2>1 DEF Take, ClearFlag, LowerFree, ReturnToCaller
<1>2. Chained(links', L \ {x}, S \ {b}, h)
  <2>1. Chained(links, L, S, h)
    BY DEF Memory
  <2> QED
    BY <1>1, <2>1, DeleteChained
<1>3. PageProperty' = ((L \ {x}) \ T) \cup {h}
  <2>1. h # x
    BY DEF Memory, Chained
  <2> QED
    BY <1>1, <2>1 DEF Memory
<1> QED
  BY <1>1, <1>2, <1>3 DEF Memory, Quiet

\* free_pages is entered: the list is empty, or the loop looks for the place.
LEMMA FreeEnters ==
  ASSUME NEW L, NEW S, NEW T, NEW nr, NEW o, NEW h, Memory(L, S, T, nr, o, h), Quiet,
         NEW x \in Region, x \notin L, x # h, x \notin T, NEW m \in 1..RegionPages,
         free_pages(x, m)
  PROVE  /\ Freeing(L, S, T, nr, o, h, x, m)'
         /\ \A p \in Region \ {x} : property'[p] = property[p]
<1>1. /\ owned' = owned \ x .. (x + m - 1)
      /\ property' = [property EXCEPT ![x] = m]
      /\ PageProperty' = PageProperty \cup {x}
      /\ nr_free' = nr_free + m
      /\ page' = x
      /\ IF list_empty(links, free_list)
         THEN /\ links' = list_add(links, free_list, x)
              /\ pc' = "merge_low"
         ELSE /\ pc' = "insert"
              /\ UNCHANGED links
      /\ UNCHANGED <<le, arg>>
  BY DEF free_pages
<1>2. Chained(links, L, S, h) /\ property \in [Region -> 0..RegionPages]
  BY DEF Memory
<1>3. property' \in [Region -> 0..RegionPages] /\ property'[x] = m
  BY <1>1, <1>2
<1>4. PageProperty' = ((L \cup {x}) \ T) \cup {h}
  BY <1>1 DEF Memory
<1>5. CASE list_empty(links, free_list)
  <2>1. links.next[free_list] = free_list /\ L = {}
    BY <1>2, <1>5, EntryTypes DEF list_empty, Chained
  <2>2. links' = Between(links, x, free_list, links.next[free_list])
    BY <1>1, <1>5 DEF list_add, list_add_after, Between
  <2>3. Chained(links', L \cup {x}, S \ {links.next[free_list]}, h)
    <3>1. free_list < x
      BY EntryTypes
    <3> QED
      BY <1>2, <2>1, <2>2, <3>1, AddBetween
  <2>4. S \ {links.next[free_list]} = Backed(L, S, x)
    BY <1>2, <2>1 DEF Backed, Topmost, Chained
  <2> QED
    BY <1>1, <1>3, <1>4, <1>5, <2>3, <2>4 DEF Freeing, Memory
<1>6. CASE ~list_empty(links, free_list)
  <2>1. Placing(L, S, h, x)'
    <3>1. le' = free_list /\ links' = links /\ free_list < x /\ links.next[free_list] # free_list
      BY <1>1, <1>6, EntryTypes DEF Quiet, list_empty
    <3> QED
      BY <1>2, <3>1 DEF Placing
  <2> QED
    BY <1>1, <1>3, <1>4, <1>6, <2>1 DEF Freeing, Memory
<1> QED
  BY <1>1, <1>2, <1>5, <1>6

\* One iteration of the loop that links the page freed.
LEMMA FreeInserts ==
  ASSUME NEW L, NEW S, NEW T, NEW nr, NEW o, NEW h, NEW x \in Region, NEW m,
         x \notin L, x # h, \A q \in L : q > x => q \notin S,
         Freeing(L, S, T, nr, o, h, x, m), pc = "insert", Insert
  PROVE  Freeing(L, S, T, nr, o, h, x, m)' /\ UNCHANGED property
<1> DEFINE n == links.next[le]
<1>1. /\ IF n = free_list
         THEN pc' = "merge_low" /\ UNCHANGED <<links, le>>
         ELSE /\ le' = n
              /\ IF x < n
                 THEN links' = list_add_before(links, n, x) /\ pc' = "merge_low"
                 ELSE /\ links' = IF links.next[n] = free_list
                                  THEN list_add(links, n, x) ELSE links
                      /\ pc' = "insert"
      /\ UNCHANGED <<property, PageProperty, nr_free, page, arg, owned>>
  <2>1. page = x
    BY DEF Freeing
  <2> QED
    BY <2>1 DEF Insert, list_next
<1>2. x \in Int /\ x # free_list /\ x > free_list
  BY EntryTypes
<1> SUFFICES /\ pc' \in {"insert", "merge_low"}
             /\ pc' = "insert" => Placing(L, S, h, x)'
             /\ pc' = "merge_low" => Chained(links', L \cup {x}, Backed(L, S, x), h)
  BY <1>1 DEF Freeing
<1>3. Placing(L, S, h, x)
  BY DEF Freeing
<1>4. n = links.next[le]
  OBVIOUS
<1> HIDE DEF n
<1>5. CASE /\ Chained(links, L, S, h)
           /\ le \in L \cup {free_list} /\ le < x /\ n # free_list
  <2>1. n \in L /\ n > le /\ \A p \in L : p > le => n <= p
    BY <1>4, <1>5 DEF Chained
  <2>2. /\ \A p \in L : p \in Int /\ p # free_list /\ p \in Entries
        /\ le \in Int /\ n \in Int /\ n # x
    BY <1>5, <2>1, ChainedTypes
  <2>3. CASE x < n
    <3>1. n \in L \ S /\ links.prev[n] = le
      BY <1>4, <1>5, <2>1, <2>3, Predecessor
    <3>2. links' = Between(links, x, le, links.next[le]) /\ pc' = "merge_low"
      BY <1>1, <1>4, <1>5, <2>3, <3>1 DEF list_add_before, Between
    <3>3. Chained(links', L \cup {x}, S \ {links.next[le]}, h)
      BY <1>4, <1>5, <2>3, <3>2, AddBetween
    <3>4. S \ {links.next[le]} = Backed(L, S, x)
      BY <1>2, <1>4, <2>2, <2>3, <3>1 DEF Backed, Topmost
    <3> QED
      BY <3>2, <3>3, <3>4
  <2>4. CASE ~(x < n) /\ links.next[n] = free_list
    <3>1. pc' = "insert" /\ le' = n /\ links' = Between(links, x, n, links.next[n])
      BY <1>1, <1>5, <2>4 DEF list_add, list_add_after, Between
    <3>2. n < x
      BY <1>2, <2>2, <2>4
    <3>3. Chained(links', L \cup {x}, S \ {links.next[n]}, h)
      BY <1>5, <2>1, <2>4, <3>1, <3>2, AddBetween
    <3>4. S \ {links.next[n]} = S
      BY <1>5, <2>2, <2>4 DEF Chained
    <3>5. Topmost(L, x)
      <4>1. \A p \in L : ~(p > n)
        BY <1>5, <2>1, <2>4 DEF Chained
      <4> QED
        BY <1>2, <2>1, <2>2, <3>2, <4>1 DEF Topmost
    <3>6. links'.next[n] = x /\ links'.next[x] = free_list
      <4>1. links \in ListMemory /\ x \in Entries /\ n \in Entries /\ free_list \in Entries
        BY <1>5, <2>1, <2>2, ChainedTypes, EntryTypes DEF Entries
      <4>2. \A f \in Entries :
              links'.next[f] = IF f = x THEN free_list ELSE IF f = n THEN x ELSE links.next[f]
        <5>1. links' = Between(links, x, n, free_list)
          BY <2>4, <3>1
        <5>2. \A f \in Entries :
                Between(links, x, n, free_list).next[f] =
                  IF f = x THEN free_list ELSE IF f = n THEN x ELSE links.next[f]
          BY <4>1, AddFields
        <5> QED
          BY <5>1, <5>2
      <4> QED
        BY <2>2, <4>1, <4>2
    <3> QED
      BY <2>1, <3>1, <3>3, <3>4, <3>5, <3>6 DEF Placing
  <2>5. CASE ~(x < n) /\ links.next[n] # free_list
    <3>1. pc' = "insert" /\ le' = n /\ links' = links /\ n < x
      BY <1>1, <1>2, <1>5, <2>2, <2>5
    <3> QED
      BY <1>5, <2>1, <2>5, <3>1 DEF Placing
  <2> QED
    BY <2>3, <2>4, <2>5
<1>6. CASE /\ Topmost(L, x) /\ Chained(links, L \cup {x}, S, h)
           /\ le \in L /\ n = x /\ links.next[x] = free_list
  <2>1. le' = x /\ pc' = "insert" /\ links' = list_add(links, x, x)
    BY <1>1, <1>2, <1>6
  <2>2. Chained(links', L \cup {x}, S \cup {x}, h)
    BY <1>6, <2>1, AddSelf
  <2>3. links'.next[x] = free_list
    <3>1. links' = Between(links, x, x, free_list)
      BY <1>6, <2>1 DEF list_add, list_add_after, Between
    <3>2. links \in ListMemory /\ x \in Entries /\ free_list \in Entries
      BY <1>6, EntryTypes DEF Chained, Entries
    <3> QED
      BY <3>1, <3>2, AddFields
  <2> QED
    BY <1>6, <2>1, <2>2, <2>3 DEF Placing
<1>7. CASE /\ Topmost(L, x) /\ Chained(links, L \cup {x}, S \cup {x}, h)
           /\ le = x /\ n = free_list
  <2>1. pc' = "merge_low" /\ links' = links
    BY <1>1, <1>7
  <2> QED
    BY <1>7, <2>1 DEF Backed
<1> QED
  BY <1>3, <1>4, <1>5, <1>6, <1>7 DEF Placing

\* No block ends where the one freed begins, or it is not the predecessor.
LEMMA FreeBegins ==
  ASSUME NEW L, NEW S, NEW T, NEW nr, NEW o, NEW h, NEW x \in Region, NEW m \in Nat \ {0},
         x \notin L, Freeing(L, S, T, nr, o, h, x, m), pc = "merge_low", MergeLow,
         Topmost(L, x) \/ \A p \in L : p + property[p] # x
  PROVE  Freeing(L, S, T, nr, o, h, x, m)' /\ UNCHANGED property /\ pc' = "merge_high"
<1>1. Chained(links, L \cup {x}, Backed(L, S, x), h) /\ page = x /\ property[x] = m
  BY DEF Freeing
<1>2. /\ links.prev[x] \in L \cup {x, free_list}
      /\ Topmost(L, x) => links.prev[x] = x
  BY <1>1 DEF Chained, Backed
<1>3. ~(links.prev[x] # free_list /\ links.prev[x] + property[links.prev[x]] = x)
  <2>1. x + m # x
    BY EntryTypes
  <2> QED
    BY <1>1, <1>2, <2>1
<1>4. /\ UNCHANGED <<property, PageProperty, links, page, nr_free, le, arg, owned>>
      /\ pc' = "merge_high"
  BY <1>1, <1>3 DEF MergeLow, list_prev
<1> QED
  BY <1>1, <1>4 DEF Freeing

\* No block begins where the one freed ends: the call returns.
LEMMA FreeReturns ==
  ASSUME NEW L, NEW S, NEW T, NEW nr, NEW o, NEW h, NEW x \in Region, NEW m,
         Freeing(L, S, T, nr, o, h, x, m), pc = "merge_high", MergeHigh,
         \A p \in L : x + m # p, x + m # x
  PROVE  /\ Memory(L \cup {x}, Backed(L, S, x), T, nr + m, o \ x .. (x + m - 1), h)'
         /\ Quiet' /\ UNCHANGED property
<1>1. Chained(links, L \cup {x}, Backed(L, S, x), h) /\ page = x /\ property[x] = m
  BY DEF Freeing
<1>2. links.next[x] \in L \cup {x, free_list}
  BY <1>1 DEF Chained
<1>3. ~(links.next[x] # free_list /\ x + property[x] = links.next[x])
  BY <1>1, <1>2
<1>4. /\ UNCHANGED <<property, PageProperty, links, nr_free, owned>>
      /\ pc' = "idle" /\ le' = free_list /\ page' = NULL /\ arg' = 0
  BY <1>1, <1>3 DEF MergeHigh, list_next, ReturnToCaller
<1> QED
  BY <1>1, <1>4 DEF Freeing, Memory, Quiet

\* free_pages as the check calls it, where no block touches the one freed.
LEMMA FreeServed ==
  ASSUME NEW L, NEW S, NEW T \in SUBSET L, NEW nr, NEW o, NEW h,
         NEW x \in Region, NEW m \in 1..RegionPages,
         Alone(L, S, T, nr, o, h, x, m), CallFree \/ CallStep, UNCHANGED pmm_manager
  PROVE  /\ \A p \in Region \ {x} : property'[p] = property[p]
         /\ \/ Row(L, S, T, nr, o, h)' /\ UNCHANGED checkVars
            \/ /\ Returned(L, S, T, nr, o, h, x, m)'
               /\ Assertion(TRUE) /\ UNCHANGED <<local, stored, counted>>
<1>b. m \in Nat \ {0} /\ x + m # x
  BY EntryTypes
<1>a. /\ Row(L, S, T, nr, o, h) /\ Statement.do = "free" /\ Location = x /\ Statement.n = m
      /\ x \notin L /\ x # h /\ h \notin x .. (x + m - 1)
      /\ \A q \in L \ T : q \notin x .. (x + m - 1)
      /\ \A q \in L : q > x => q \notin S
      /\ pc = "merge_low" => Topmost(L, x) \/ \A p \in L : p + property[p] # x
      /\ pc = "merge_high" => \A p \in L : x + m # p
  BY DEF Alone
<1>0. ASSUME UNCHANGED checkVars, Freeing(L, S, T, nr, o, h, x, m)'
      PROVE  Row(L, S, T, nr, o, h)'
  <2>1. Statement' = Statement
    BY <1>0 DEF Statement, checkVars, Check, BestFit
  <2>2. Location' = Location
    BY <1>0, <2>1 DEF Location, checkVars
  <2> QED
    BY <1>0, <1>a, <2>1, <2>2 DEF Row
<1>1. CASE CallFree
  <2>1. pc = "idle"
    BY <1>1 DEF CallFree, Executing
  <2>2. Memory(L, S, T, nr, o, h) /\ Quiet
    BY <1>a, <2>1 DEF Row, Serving, Freeing, Searching
  <2>3. Freeable(Location, Statement.n)
    BY <1>a, <2>2 DEF Memory, Freeable
  <2>4. free_pages(x, m) /\ UNCHANGED checkVars
    BY <1>1, <1>a, <2>3 DEF CallFree
  <2>5. x \notin T /\ x \notin L /\ x # h
    BY <1>a
  <2>6. /\ Freeing(L, S, T, nr, o, h, x, m)'
        /\ \A p \in Region \ {x} : property'[p] = property[p]
    BY <2>2, <2>4, <2>5, FreeEnters
  <2> QED
    BY <1>0, <2>4, <2>6
<1>2. CASE CallStep
  <2>1. RunningCall /\ UNCHANGED <<stored, counted>>
    BY <1>2 DEF CallStep
  <2>2. pc # "idle"
    BY <2>1 DEF RunningCall, ScanFirst, ScanBest, ScanEnd, AllocNull, Take, Insert,
                MergeLow, MergeHigh
  <2>3. Freeing(L, S, T, nr, o, h, x, m)
    BY <1>a, <2>2 DEF Row, Serving, Quiet
  <2>4. pc \in {"insert", "merge_low", "merge_high"} /\ property[x] = m
    BY <2>3 DEF Freeing
  <2>5. CASE pc = "insert"
    <3>1. Insert
      BY <2>1, <2>5 DEF RunningCall, ScanFirst, ScanBest, ScanEnd, AllocNull, Take,
                        MergeLow, MergeHigh
    <3>2. Freeing(L, S, T, nr, o, h, x, m)' /\ UNCHANGED property
      BY <1>a, <2>3, <2>5, <3>1, FreeInserts
    <3>3. UNCHANGED checkVars
      <4>1. pc' # "idle"
        BY <3>2 DEF Freeing
      <4> QED
        BY <1>2, <4>1 DEF CallStep, checkVars
    <3> QED
      BY <1>0, <3>2, <3>3
  <2>6. CASE pc = "merge_low"
    <3>1. MergeLow
      BY <2>1, <2>6 DEF RunningCall, ScanFirst, ScanBest, ScanEnd, AllocNull, Take,
                        Insert, MergeHigh
    <3>2. Freeing(L, S, T, nr, o, h, x, m)' /\ UNCHANGED property /\ pc' = "merge_high"
      BY <1>b, <1>a, <2>3, <2>6, <3>1, FreeBegins
    <3>3. UNCHANGED checkVars
      BY <1>2, <3>2 DEF CallStep, checkVars
    <3> QED
      BY <1>0, <3>2, <3>3
  <2>7. CASE pc = "merge_high"
    <3>1. MergeHigh
      BY <2>1, <2>7 DEF RunningCall, ScanFirst, ScanBest, ScanEnd, AllocNull, Take,
                        Insert, MergeLow
    <3>2. /\ Memory(L \cup {x}, Backed(L, S, x), T, nr + m, o \ x .. (x + m - 1), h)'
          /\ Quiet' /\ UNCHANGED property
      <4>1. (\A p \in L : x + m # p) /\ x + m # x
        BY <1>b, <1>a, <2>7
      <4> QED
        BY <2>3, <2>7, <3>1, <4>1, FreeReturns, ZenonT(30)
    <3>4. Returned(L, S, T, nr, o, h, x, m)'
      BY <2>4, <3>2 DEF Returned
    <3>3. Assertion(TRUE) /\ UNCHANGED <<local, stored, counted>>
      BY <1>2, <1>a, <3>2 DEF CallStep, Quiet
    <3> QED
      BY <3>2, <3>3, <3>4
  <2> QED
    BY <2>4, <2>5, <2>6, <2>7
<1> QED
  BY <1>1, <1>2

-----------------------------------------------------------------------------
(* The calls of the check while the whole list is in place.                *)

\* The check holds the pages of o and is at a statement, or inside its call.
Open(o) ==
  /\ IInv
  /\ \/ pc = "idle" /\ owned = o
     \/ /\ pc \in {"scan", "take", "null"} /\ owned = o
        /\ Statement.do = "alloc" /\ arg = Statement.n
     \/ /\ pc \in {"insert", "merge_low", "merge_high"}
        /\ Statement.do = "free"
        /\ owned = o \ Location .. (Location + Statement.n - 1)

PageAt(i) == RegionBase + i

\* As long as the check's variables stay, so does its statement.
LEMMA SameStatement ==
  ASSUME UNCHANGED checkVars, UNCHANGED pmm_manager
  PROVE  Statement' = Statement /\ Location' = Location
BY DEF Statement, checkVars, Check, BestFit, Location

\* A call under way takes the step its pc names.
LEMMA InCall ==
  ASSUME RunningCall
  PROVE  /\ pc # "idle"
         /\ pc = "scan" => ScanFirst \/ ScanBest \/ ScanEnd
         /\ pc = "null" => AllocNull
         /\ pc = "take" => Take
         /\ pc = "insert" => Insert
         /\ pc = "merge_low" => MergeLow
         /\ pc = "merge_high" => MergeHigh
BY DEF RunningCall, ScanFirst, ScanBest, ScanEnd, AllocNull, Take, Insert, MergeLow, MergeHigh

\* A caller that holds the first k pages leaves one free block.
LEMMA OneBlock ==
  ASSUME IInv, pc \in {"idle", "scan", "take", "null"}, NEW k \in Nat, k < RegionPages,
         owned = RegionBase .. (RegionBase + k - 1)
  PROVE  /\ PageProperty = {PageAt(k)} /\ property[PageAt(k)] = RegionPages - k
         /\ nr_free = RegionPages - k
         /\ PageAt(k) \in Region
<1> DEFINE b == RegionBase + k
           F == PageProperty
<1>1. /\ UNION {Pages(p) : p \in F} = Region \ owned
      /\ \A p, q \in F : p < q => p + property[p] <= q
      /\ \A p \in F : p + property[p] \notin F
      /\ nr_free = Cardinality(Region \ owned)
  BY DEF IInv, BlocksInv, JoinInv
<1>2. \A p \in F : /\ p \in Nat /\ property[p] \in Nat \ {0}
                   /\ p + property[p] <= RegionBase + RegionPages
                   /\ RegionBase <= p
                   /\ Pages(p) \subseteq Region \ owned /\ p \in Pages(p)
  BY Block, EntryTypes DEF IInv
<1>3. /\ b \in Nat /\ b \in Region
      /\ \A q : q \in Region \ owned <=> q \in b .. (RegionBase + RegionPages - 1)
  BY EntryTypes DEF Region
<1>4. \A p \in F : p >= b
  BY <1>2, <1>3
<1>5. PICK c \in F : b \in Pages(c)
  <2>1. b \in Region \ owned
    <3>1. b \in Region /\ b \notin RegionBase .. (RegionBase + k - 1)
      BY <1>3, EntryTypes
    <3> QED
      BY <3>1
  <2>2. b \in UNION {Pages(p) : p \in F}
    BY <1>1, <2>1
  <2> QED
    BY <2>2
<1>6. c = b
  BY <1>2, <1>3, <1>4, <1>5 DEF Pages
<1>7. ASSUME b + property[b] # RegionBase + RegionPages PROVE FALSE
  <2>1. b + property[b] \in Region \ owned
    BY SMTT(20), <1>2, <1>3, <1>5, <1>6, <1>7, EntryTypes
  <2>2. PICK q \in F : b + property[b] \in Pages(q)
    BY <1>1, <2>1
  <2>3. q <= b + property[b] /\ b + property[b] < q + property[q]
    BY <1>2, <2>2 DEF Pages
  <2>4. q # b
    BY <1>2, <2>3
  <2>5. b < q
    BY <1>2, <1>3, <1>4, <2>4
  <2>6. q = b + property[b]
    <3>1. b + property[b] <= q
      BY <1>1, <1>5, <1>6, <2>5
    <3> QED
      BY <1>2, <1>3, <1>5, <1>6, <2>3, <3>1
  <2> QED
    BY <1>1, <1>5, <1>6, <2>6
<1>8. property[b] = RegionPages - k
  BY <1>2, <1>5, <1>6, <1>7, EntryTypes
<1>9. F = {b}
  <2> SUFFICES ASSUME NEW q \in F, q # b PROVE FALSE
    BY <1>5, <1>6
  <2>1. b + property[b] <= q
    BY <1>1, <1>2, <1>3, <1>4, <1>5, <1>6
  <2> QED
    BY <1>2, <1>3, <1>8, <2>1, EntryTypes
<1>10. nr_free = RegionPages - k
  <2>1. Region \ owned = b .. (RegionBase + RegionPages - 1)
    BY <1>3, EntryTypes
  <2>2. Cardinality(b .. (RegionBase + RegionPages - 1)) = RegionPages - k
    BY <1>3, EntryTypes, FS_Interval
  <2> QED
    BY <1>1, <2>1, <2>2
<1> QED
  BY <1>3, <1>8, <1>9, <1>10 DEF PageAt

\* alloc_pages returns a block of the manager's, or NULL when none is large
\* enough.
LEMMA OpenAlloc ==
  ASSUME NEW o, Open(o), Statement.do = "alloc", Statement.n \in Nat \ {0},
         CallAlloc \/ CallStep, UNCHANGED pmm_manager
  PROVE  \/ Open(o)' /\ UNCHANGED checkVars
         \/ pc = "null" /\ \A p \in PageProperty : property[p] < Statement.n
         \/ /\ pc = "take" /\ page \in PageProperty
            /\ IInv' /\ pc' = "idle"
            /\ owned' = o \cup page .. (page + Statement.n - 1)
            /\ Ends(page)
<1>1. CASE CallAlloc
  <2>1. /\ alloc_pages(Statement.n) /\ UNCHANGED checkVars /\ pc = "idle"
    BY <1>1 DEF CallAlloc, alloc_pages
  <2>2. IInv'
    BY <2>1, AllocStep DEF Open
  <2>3. Statement' = Statement
    BY <2>1, SameStatement
  <2>4. pc' \in {"scan", "null"} /\ owned' = o /\ arg' = Statement.n
    BY <2>1 DEF alloc_pages, Open
  <2> QED
    BY <2>1, <2>2, <2>3, <2>4 DEF Open
<1>2. CASE CallStep
  <2>1. RunningCall /\ UNCHANGED <<stored, counted>> /\ pc # "idle"
    BY <1>2, InCall DEF CallStep
  <2>2. /\ pc \in {"scan", "take", "null"} /\ owned = o /\ arg = Statement.n /\ IInv
    BY <2>1 DEF Open
  <2>3. CASE pc = "scan"
    <3>1. ScanFirst \/ ScanBest \/ ScanEnd
      BY <2>1, <2>3, InCall
    <3>2. IInv' /\ UNCHANGED <<owned, arg>> /\ pc' \in {"scan", "take", "null"}
      <4>1. IInv'
        BY <2>2, <3>1, ScanFirstStep, ScanBestStep, ScanEndStep
      <4> QED
        BY <2>3, <3>1, <4>1 DEF ScanFirst, ScanBest, ScanEnd
    <3>3. UNCHANGED checkVars
      BY <1>2, <3>2 DEF CallStep, checkVars
    <3>4. Statement' = Statement
      BY <3>3, SameStatement
    <3> QED
      BY <2>2, <3>2, <3>3, <3>4 DEF Open
  <2>4. CASE pc = "null"
    BY <2>2, <2>4 DEF IInv, CallInv
  <2>5. CASE pc = "take"
    <3>1. Take
      BY <2>1, <2>5, InCall
    <3>2. page \in PageProperty
      BY <2>2, <2>5 DEF IInv, CallInv
    <3>3. IInv'
      BY <2>2, <3>1, TakeStep
    <3>4. pc' = "idle" /\ owned' = o \cup page .. (page + Statement.n - 1)
      BY <2>2, <3>1 DEF Take, ReturnToCaller
    <3>5. Ends(page)
      BY <1>2, <2>1, <2>5, <3>4 DEF CallStep, Ends
    <3> QED
      BY <2>5, <3>2, <3>3, <3>4, <3>5
  <2> QED
    BY <2>2, <2>3, <2>4, <2>5
<1> QED
  BY <1>1, <1>2

\* Above a page that is held, one that is free lies in a block that begins
\* above it, too.
LEMMA BlockAbove ==
  ASSUME IInv, NEW x \in owned, NEW y \in Region \ owned, x < y
  PROVE  \E p \in PageProperty : p > x
<1>1. PICK p \in PageProperty : y \in Pages(p)
  BY DEF IInv, BlocksInv
<1>2. p \in Nat /\ property[p] \in Nat /\ Pages(p) \subseteq Region \ owned
  BY Block DEF IInv
<1>3. x \in Region /\ x \in Nat /\ y \in Nat
  BY EntryTypes DEF IInv, BlocksInv
<1>4. ~(p <= x)
  BY <1>1, <1>2, <1>3 DEF Pages
<1> QED
  BY <1>2, <1>3, <1>4

\* free_pages takes a run of pages back.
LEMMA OpenFree ==
  ASSUME NEW o, Open(o), Statement.do = "free",
         NEW x \in Region, Location = x, NEW m \in Nat \ {0}, Statement.n = m,
         x .. (x + m - 1) \subseteq o, NEW y \in Region \ o, x < y,
         CallFree \/ CallStep, UNCHANGED pmm_manager
  PROVE  \/ Open(o)' /\ UNCHANGED checkVars
         \/ /\ IInv' /\ pc' = "idle" /\ owned' = o \ x .. (x + m - 1)
            /\ Assertion(TRUE) /\ UNCHANGED <<local, stored, counted>>
<1>0. m \in Nat \ {0} /\ x \in Nat
  BY RequestsAssumption, EntryTypes
<1>1. CASE CallFree
  <2>1. pc = "idle" /\ owned = o /\ IInv
    BY <1>1 DEF CallFree, Executing, Open
  <2>2. PageProperty \cap owned = {}
    BY <2>1, Block DEF IInv
  <2>3. Freeable(x, m)
    BY <2>1, <2>2 DEF Freeable
  <2>4. free_pages(x, m) /\ UNCHANGED checkVars
    BY <1>1, <2>3 DEF CallFree
  <2>5. \E p \in Listed : p > x
    <3>1. x \in owned /\ y \in Region \ owned
      BY <1>0, <2>1
    <3>2. \E p \in PageProperty : p > x
      BY <2>1, <3>1, BlockAbove
    <3>3. Listed = PageProperty
      BY <2>1, Lists DEF OnList
    <3> QED
      BY <3>2, <3>3
  <2>6. IInv'
    BY <1>0, <2>1, <2>4, <2>5, FreeStep
  <2>7. pc' \in {"insert", "merge_low"} /\ owned' = o \ x .. (x + m - 1)
    BY <2>1, <2>4 DEF free_pages
  <2>8. Statement' = Statement /\ Location' = Location
    BY <2>4, SameStatement
  <2> QED
    BY <2>4, <2>6, <2>7, <2>8 DEF Open
<1>2. CASE CallStep
  <2>1. RunningCall /\ UNCHANGED <<stored, counted>> /\ pc # "idle"
    BY <1>2, InCall DEF CallStep
  <2>2. /\ pc \in {"insert", "merge_low", "merge_high"} /\ owned = o \ x .. (x + m - 1) /\ IInv
    BY <2>1 DEF Open
  <2>3. IInv'
    BY <2>1, <2>2, InCall, InsertStep, MergeLowStep, MergeHighStep
  <2>4. owned' = owned
    BY <2>1, <2>2, InCall DEF Insert, MergeLow, MergeHigh
  <2>5. CASE pc \in {"insert", "merge_low"}
    <3>1. pc' \in {"insert", "merge_low", "merge_high"}
      BY <2>1, <2>5, InCall DEF Insert, MergeLow
    <3>2. UNCHANGED checkVars
      BY <1>2, <3>1 DEF CallStep, checkVars
    <3>3. Statement' = Statement /\ Location' = Location
      BY <3>2, SameStatement
    <3> QED
      BY <2>2, <2>3, <2>4, <3>1, <3>2, <3>3 DEF Open
  <2>6. CASE pc = "merge_high"
    <3>1. pc' = "idle"
      BY <2>1, <2>6, InCall DEF MergeHigh, ReturnToCaller
    <3>2. Assertion(TRUE) /\ UNCHANGED <<local, stored, counted>>
      BY <1>2, <3>1 DEF CallStep
    <3> QED
      BY <2>2, <2>3, <2>4, <3>1, <3>2
  <2> QED
    BY <2>2, <2>5, <2>6
<1> QED
  BY <1>1, <1>2

-----------------------------------------------------------------------------
(* The statements of the check, and where it is at each of them.           *)

\* The sum over a single block is its size.
LEMMA SumOfOne ==
  ASSUME NEW x \in Region, property[x] \in Nat
  PROVE  MapThenSumSet(LAMBDA p : property[p], {x}) = property[x]
<1> DEFINE Body(f) ==
             [s \in SUBSET {x} |->
                IF s = {} THEN 0
                ELSE LET y == CHOOSE z \in s : TRUE
                     IN  property[y] + f[s \ {y}]]
           iter == CHOOSE f : f = Body(f)
           w == [s \in SUBSET {x} |-> IF s = {} THEN 0 ELSE property[x]]
<1>1. MapThenSumSet(LAMBDA p : property[p], {x}) = iter[{x}]
  BY DEF MapThenSumSet, MapThenFoldSet
<1>2. \A s \in SUBSET {x} : s # {} => (CHOOSE z \in s : TRUE) = x
  OBVIOUS
<1>3. w = Body(w)
  <2>1. ASSUME NEW s \in SUBSET {x} PROVE w[s] = Body(w)[s]
    <3>1. CASE s = {}
      BY <3>1
    <3>2. CASE s # {}
      <4>1. (CHOOSE z \in s : TRUE) = x /\ w[s] = property[x] /\ w[s \ {x}] = 0
        BY <1>2, <3>2
      <4>2. Body(w)[s] = property[x] + w[s \ {x}]
        BY <3>2, <4>1
      <4> QED
        BY <4>1, <4>2
    <3> QED
      BY <3>1, <3>2
  <2> QED
    BY <2>1
<1>4. iter = Body(iter)
  BY <1>3
<1> HIDE DEF iter
<1>5. iter[{}] = 0
  BY <1>4
<1>6. (CHOOSE z \in {x} : TRUE) = x /\ {x} \ {x} = {}
  OBVIOUS
<1>7. iter[{x}] = property[x] + iter[{}]
  BY <1>4, <1>6
<1> QED
  BY <1>1, <1>5, <1>7

\* The lengths of the two checks.
LEMMA Lengths ==
  /\ Len(Check) \in Nat /\ Len(Check) >= 46
  /\ BestFit => Len(Check) = 46
  /\ ~BestFit => Len(Check) = 53
BY DEF Check, default_check, best_fit_check, basic_check, Isolate, Restore

\* Within the check the kernel has not booted.
LEMMA NotBooted ==
  ASSUME line \in Nat, IF BestFit THEN line <= 46 ELSE line <= 53
  PROVE  ~Booted
<1> PICK n \in Nat : n = Len(Check)
  BY Lengths
<1>1. line <= n
  BY Lengths
<1> QED
  BY <1>1 DEF Booted

\* Both checks begin with the same statements.
LEMMA FirstStatements ==
  /\ line = 1 => Statement = Do("count")
  /\ line = 2 => Statement = Alloc("p0", 1)
  /\ line = 3 => Statement = Alloc("p1", 1)
  /\ line = 4 => Statement = Alloc("p2", 1)
  /\ line = 5 => Statement = Do("distinct")
  /\ line = 6 => Statement = Do("store_list")
  /\ line = 7 => Statement = Do("store_nr_free")
  /\ line = 8 => Statement = AllocNone(1)
  /\ line = 9 => Statement = Free("p0", 0, 1)
  /\ line = 10 => Statement = Free("p1", 0, 1)
  /\ line = 11 => Statement = Free("p2", 0, 1)
  /\ line = 12 => Statement = NrFreeIs(3)
  /\ line = 13 => Statement = Alloc("p0", 1)
  /\ line = 14 => Statement = Alloc("p1", 1)
  /\ line = 15 => Statement = Alloc("p2", 1)
  /\ line = 16 => Statement = AllocNone(1)
  /\ line = 17 => Statement = Free("p0", 0, 1)
  /\ line = 18 => Statement = Do("not_empty")
  /\ line = 19 => Statement = AllocAt("p", 1, "p0", 0)
  /\ line = 20 => Statement = AllocNone(1)
  /\ line = 21 => Statement = NrFreeIs(0)
  /\ line = 22 => Statement = Do("restore_list")
  /\ line = 23 => Statement = Do("restore_nr_free")
  /\ line = 24 => Statement = Free("p", 0, 1)
  /\ line = 25 => Statement = Free("p1", 0, 1)
  /\ line = 26 => Statement = Free("p2", 0, 1)
  /\ line = 27 => Statement = Alloc("p0", 5)
  /\ line = 28 => Statement = NotHead("p0")
  /\ line = 29 => Statement = Do("store_list")
  /\ line = 30 => Statement = AllocNone(1)
  /\ line = 31 => Statement = Do("store_nr_free")
BY DEF Statement, Check, default_check, best_fit_check, basic_check, Isolate, Restore

\* The statements of default_check after those both checks share.
LEMMA FirstFitStatements ==
  ASSUME ~BestFit
  PROVE  /\ line = 32 => Statement = Free("p0", 2, 3)
         /\ line = 33 => Statement = AllocNone(4)
         /\ line = 34 => Statement = HeadsBlock("p0", 2, 3)
         /\ line = 35 => Statement = AllocAt("p1", 3, "p0", 2)
         /\ line = 36 => Statement = AllocNone(1)
         /\ line = 37 => Statement = Let("p2", "p0", 1)
         /\ line = 38 => Statement = Free("p0", 0, 1)
         /\ line = 39 => Statement = Free("p1", 0, 3)
         /\ line = 40 => Statement = HeadsBlock("p0", 0, 1)
         /\ line = 41 => Statement = HeadsBlock("p1", 0, 3)
         /\ line = 42 => Statement = AllocAt("p0", 1, "p2", -1)
         /\ line = 43 => Statement = Free("p0", 0, 1)
         /\ line = 44 => Statement = AllocAt("p0", 2, "p2", 1)
         /\ line = 45 => Statement = Free("p0", 0, 2)
         /\ line = 46 => Statement = Free("p2", 0, 1)
         /\ line = 47 => Statement = Alloc("p0", 5)
         /\ line = 48 => Statement = AllocNone(1)
         /\ line = 49 => Statement = NrFreeIs(0)
         /\ line = 50 => Statement = Do("restore_nr_free")
         /\ line = 51 => Statement = Do("restore_list")
         /\ line = 52 => Statement = Free("p0", 0, 5)
         /\ line = 53 => Statement = Do("recount")
BY DEF Statement, Check, default_check, basic_check, Isolate, Restore

\* The statements of best_fit_check after those both checks share.
LEMMA BestFitStatements ==
  ASSUME BestFit
  PROVE  /\ line = 32 => Statement = Free("p0", 1, 2)
         /\ line = 33 => Statement = Free("p0", 4, 1)
         /\ line = 34 => Statement = AllocNone(4)
         /\ line = 35 => Statement = HeadsBlock("p0", 1, 2)
         /\ line = 36 => Statement = AllocAt("p1", 1, "p0", 4)
         /\ line = 37 => Statement = Alloc("none", 2)
         /\ line = 38 => Statement = Let("p2", "p0", 1)
         /\ line = 39 => Statement = Free("p0", 0, 5)
         /\ line = 40 => Statement = Alloc("p0", 5)
         /\ line = 41 => Statement = AllocNone(1)
         /\ line = 42 => Statement = NrFreeIs(0)
         /\ line = 43 => Statement = Do("restore_nr_free")
         /\ line = 44 => Statement = Do("restore_list")
         /\ line = 45 => Statement = Free("p0", 0, 5)
         /\ line = 46 => Statement = Do("recount")
BY DEF Statement, Check, best_fit_check, basic_check, Isolate, Restore

\* The pages from the i-th to the j-th of the region.
PagesAt(i, j) == PageAt(i) .. PageAt(j)

\* The region has a page beyond the five that the checks hold.
Checkable == RegionPages >= 6

\* The list is back in place, nr_free is not yet.
Relinked ==
  /\ Quiet
  /\ links \in ListMemory /\ Linked(links, {PageAt(3)})
  /\ property \in [Region -> 0..RegionPages] /\ PageProperty = {PageAt(3)}
  /\ owned = PagesAt(0, 2)

\* The page variables, what was stored, and what was counted.
CheckState ==
  /\ pmm_manager \in Managers
  /\ ~is_panic
  /\ line \in 1 .. (Len(Check) + 1)
  /\ local \in [Names -> Int]
  /\ stored \in [next : Int, prev : Int, nr_free : Int]
  /\ line > 1 => counted = [count |-> 1, total |-> RegionPages]

\* The statements both checks begin with.
AtFirst ==
  /\ line \in {1, 2, 27} => Open({})
  /\ line = 3 => Open(PagesAt(0, 0))
  /\ line = 4 => Open(PagesAt(0, 1))
  /\ line \in {5, 6, 24} => Open(PagesAt(0, 2))
  /\ line = 7 => Row({}, {}, {}, RegionPages - 3, PagesAt(0, 2), PageAt(3))
  /\ line \in {8, 9} => Row({}, {}, {}, 0, PagesAt(0, 2), PageAt(3))
  /\ line = 10 => Row({PageAt(0)}, {}, {}, 1, PagesAt(1, 2), PageAt(3))
  /\ line = 11 => Row({PageAt(0), PageAt(1)}, {PageAt(1)}, {}, 2, PagesAt(2, 2), PageAt(3))
  /\ line \in {12, 13} =>
       Row({PageAt(0), PageAt(1), PageAt(2)}, {PageAt(1), PageAt(2)}, {}, 3, {}, PageAt(3))
  /\ line = 14 => Row({PageAt(1), PageAt(2)}, {PageAt(2)}, {}, 2, PagesAt(0, 0), PageAt(3))
  /\ line = 15 => Row({PageAt(2)}, {}, {}, 1, PagesAt(0, 1), PageAt(3))
  /\ line \in {16, 17} => Row({}, {}, {}, 0, PagesAt(0, 2), PageAt(3))
  /\ line \in {18, 19} => Row({PageAt(0)}, {}, {}, 1, PagesAt(1, 2), PageAt(3))
  /\ line \in {20, 21, 22} => Row({}, {}, {}, 0, PagesAt(0, 2), PageAt(3))
  /\ line = 23 => Relinked
  /\ line = 25 => Open(PagesAt(1, 2))
  /\ line = 26 => Open(PagesAt(2, 2))
  /\ line \in {28, 29} => Open(PagesAt(0, 4))
  /\ line \in {30, 31} => Row({}, {}, {}, RegionPages - 5, PagesAt(0, 4), PageAt(5))
  /\ line \in 7..23 => property[PageAt(3)] = RegionPages - 3
  /\ line \in 10..13 \/ line \in 18..19 => property[PageAt(0)] = 1
  /\ line \in 11..14 => property[PageAt(1)] = 1
  /\ line \in 12..15 => property[PageAt(2)] = 1
  /\ line \in 30..31 => property[PageAt(5)] = RegionPages - 5
  /\ line \in 7..22 => stored.next = PageAt(3) /\ stored.prev = PageAt(3)
  /\ line \in 8..23 => stored.nr_free = RegionPages - 3
  /\ line \in 30..31 => stored.next = PageAt(5) /\ stored.prev = PageAt(5)
  /\ line \in 3..31 => local["p0"] = PageAt(0)
  /\ line \in 4..31 => local["p1"] = PageAt(1)
  /\ line \in 5..31 => local["p2"] = PageAt(2)
  /\ line \in 20..31 => local["p"] = PageAt(0)

\* The statements of default_check that follow.
AtFirstFit ==
  /\ line = 32 => Row({}, {}, {}, 0, PagesAt(0, 4), PageAt(5))
  /\ line \in {33, 34, 35} => Row({PageAt(2)}, {}, {}, 3, PagesAt(0, 1), PageAt(5))
  /\ line \in {36, 37, 38} => Row({}, {}, {}, 0, PagesAt(0, 4), PageAt(5))
  /\ line = 39 => Row({PageAt(0)}, {}, {}, 1, PagesAt(1, 4), PageAt(5))
  /\ line \in {40, 41, 42} =>
       Row({PageAt(0), PageAt(2)}, {PageAt(2)}, {}, 4, PagesAt(1, 1), PageAt(5))
  /\ line = 43 => Row({PageAt(2)}, {}, {}, 3, PagesAt(0, 1), PageAt(5))
  /\ line = 44 => Row({PageAt(0), PageAt(2)}, {}, {}, 4, PagesAt(1, 1), PageAt(5))
  /\ line = 45 => Row({PageAt(0), PageAt(4)}, {}, {}, 2, PagesAt(1, 3), PageAt(5))
  /\ line = 46 => \/ /\ Row({PageAt(0), PageAt(2)}, {}, {}, 4, PagesAt(1, 1), PageAt(5))
                     /\ property[PageAt(0)] = 1 /\ pc # "merge_high"
                  \/ /\ Memory({PageAt(0), PageAt(2)}, {}, {}, 5, {}, PageAt(5))
                     /\ property[PageAt(0)] = 2 /\ pc = "merge_high" /\ page = PageAt(0)
  /\ line = 47 => Row({PageAt(0)}, {}, {}, 5, {}, PageAt(5)) /\ property[PageAt(0)] = 5
  /\ line \in {48, 49, 50} => Row({}, {}, {}, 0, PagesAt(0, 4), PageAt(5))
  /\ line = 51 => Row({}, {}, {}, RegionPages - 5, PagesAt(0, 4), PageAt(5))
  /\ line = 52 => Open(PagesAt(0, 4))
  /\ line = 53 => Open({})
  /\ line \in 32..51 => property[PageAt(5)] = RegionPages - 5
  /\ line \in 33..35 \/ line \in 40..44 \/ line = 46 => property[PageAt(2)] = 3
  /\ line \in 39..42 \/ line \in 44..45 => property[PageAt(0)] = 1
  /\ line = 45 => property[PageAt(4)] = 1
  /\ line \in 32..51 => stored.next = PageAt(5) /\ stored.prev = PageAt(5)
  /\ line \in 32..50 => stored.nr_free = RegionPages - 5
  /\ line \in 32..44 \/ line \in 48..52 => local["p0"] = PageAt(0)
  /\ line \in 45..47 => local["p0"] = PageAt(2)
  /\ line \in 36..52 => local["p1"] = PageAt(2)
  /\ line \in 38..52 => local["p2"] = PageAt(1)

\* Those of best_fit_check.  The page freed last is deleted in vain and stays
\* on the list, without its flag.
AtBestFit ==
  /\ line = 32 => Row({}, {}, {}, 0, PagesAt(0, 4), PageAt(5))
  /\ line = 33 => Row({PageAt(1)}, {}, {}, 2, PagesAt(0, 0) \cup PagesAt(3, 4), PageAt(5))
  /\ line \in {34, 35, 36} =>
       Row({PageAt(1), PageAt(4)}, {PageAt(4)}, {}, 3, PagesAt(0, 0) \cup PagesAt(3, 3), PageAt(5))
  /\ line = 37 =>
       Row({PageAt(1), PageAt(4)}, {PageAt(4)}, {PageAt(4)}, 2,
           PagesAt(0, 0) \cup PagesAt(3, 4), PageAt(5))
  /\ line \in {38, 39} => Row({PageAt(4)}, {}, {PageAt(4)}, 0, PagesAt(0, 4), PageAt(5))
  /\ line = 40 => /\ Row({PageAt(0), PageAt(4)}, {}, {PageAt(4)}, 5, {}, PageAt(5))
                  /\ property[PageAt(0)] = 5
  /\ line \in {41, 42, 43} => Row({PageAt(4)}, {}, {PageAt(4)}, 0, PagesAt(0, 4), PageAt(5))
  /\ line = 44 => Row({PageAt(4)}, {}, {PageAt(4)}, RegionPages - 5, PagesAt(0, 4), PageAt(5))
  /\ line = 45 => Open(PagesAt(0, 4))
  /\ line = 46 => Open({})
  /\ line \in 32..44 => property[PageAt(5)] = RegionPages - 5
  /\ line \in 33..37 => property[PageAt(1)] = 2
  /\ line \in 34..44 => property[PageAt(4)] = 1
  /\ line \in 32..44 => stored.next = PageAt(5) /\ stored.prev = PageAt(5)
  /\ line \in 32..43 => stored.nr_free = RegionPages - 5
  /\ line \in 32..45 => local["p0"] = PageAt(0)

CheckInv ==
  /\ CheckState
  /\ AtFirst
  /\ IF BestFit THEN AtBestFit ELSE AtFirstFit
  /\ Booted => IInv

-----------------------------------------------------------------------------
(* What a statement of the check makes of a state.                         *)

\* Which actions belong to a statement.
LEMMA StepsOfStatement ==
  ASSUME ~Booted, CheckNext
  PROVE  /\ UNCHANGED pmm_manager
         /\ Statement.do = "alloc" => CallAlloc \/ CallStep
         /\ Statement.do = "free" => CallFree \/ CallStep
         /\ Statement.do \notin {"alloc", "free"} =>
              \/ CallStep \/ Look \/ Count
              \/ /\ StoreList \/ StoreNrFree \/ RestoreList \/ RestoreNrFree
                 /\ UNCHANGED <<local, counted, property, PageProperty, pc, le, page, arg, owned>>
<1>1. CheckStep
  BY DEF CheckNext, BootedStep
<1> QED
  BY <1>1 DEF CheckStep, CallAlloc, CallFree, Look, Count, StoreList, StoreNrFree, RestoreList,
              RestoreNrFree, Executing, vars

\* Between calls the check meets the state of its next statement.
LEMMA QuietRow ==
  ASSUME NEW L, NEW S, NEW T, NEW nr, NEW o, NEW h, Memory(L, S, T, nr, o, h)', Quiet'
  PROVE  Row(L, S, T, nr, o, h)'
BY DEF Row, Serving

\* The check's variables keep their values in the middle of a statement.
LEMMA CheckStateStays ==
  ASSUME CheckState, UNCHANGED checkVars, UNCHANGED pmm_manager
  PROVE  CheckState'
BY DEF CheckState, checkVars, Check, BestFit

\* They are in range after a statement whose assertion holds.
LEMMA CheckStateGoesOn ==
  ASSUME CheckState, ~Booted, line > 1, Assertion(TRUE), UNCHANGED <<stored, counted>>,
         UNCHANGED pmm_manager, local' \in [Names -> Int]
  PROVE  CheckState'
<1>1. Check' = Check /\ Len(Check) \in Nat
  BY Lengths DEF Check, BestFit
<1>2. line \in Nat /\ line' = line + 1 /\ line' \in 1 .. (Len(Check) + 1) /\ ~is_panic'
  <2>1. PICK n \in Nat : n = Len(Check)
    BY <1>1
  <2>2. line \in 1 .. (n + 1) /\ ~(line > n)
    BY <2>1 DEF CheckState, Booted
  <2>3. line' = line + 1 /\ ~is_panic'
    BY DEF Assertion
  <2> QED
    BY <2>1, <2>2, <2>3
<1> QED
  BY <1>1, <1>2 DEF CheckState

\* For the statements both checks share only AtFirst matters.
LEMMA Early ==
  ASSUME CheckState', AtFirst', line' <= 31
  PROVE  CheckInv'
<1>1. line' \in Nat /\ Len(Check)' \in Nat /\ Len(Check)' >= 46
  <2>1. (Len(Check) \in Nat /\ Len(Check) >= 46)'
    BY Lengths, PTL
  <2> QED
    BY <2>1 DEF CheckState
<1>2. AtBestFit' /\ AtFirstFit'
  BY <1>1 DEF AtBestFit, AtFirstFit
<1>3. ~Booted'
  BY <1>1 DEF Booted
<1>4. (IF BestFit THEN AtBestFit ELSE AtFirstFit)'
  BY <1>2
<1> QED
  BY <1>3, <1>4 DEF CheckInv

\* free_pages where no block touches the one freed: the page is linked.
LEMMA FreeLine ==
  ASSUME CheckState, ~Booted, line > 1, CheckNext,
         NEW L, NEW S, NEW T \in SUBSET L, NEW nr, NEW o, NEW h,
         NEW x \in Region, NEW m \in 1..RegionPages, Alone(L, S, T, nr, o, h, x, m)
  PROVE  /\ CheckState' /\ UNCHANGED <<local, stored, pmm_manager>>
         /\ \A p \in Region \ {x} : property'[p] = property[p]
         /\ \/ line' = line /\ Row(L, S, T, nr, o, h)' /\ pc' # "idle"
            \/ line' = line + 1 /\ Returned(L, S, T, nr, o, h, x, m)'
<1>1. /\ Statement.do = "free" /\ Location = x /\ Statement.n = m
      /\ Row(L, S, T, nr, o, h)
  BY DEF Alone
<1>2. (CallFree \/ CallStep) /\ UNCHANGED pmm_manager
  BY <1>1, StepsOfStatement
<1>3. /\ \A p \in Region \ {x} : property'[p] = property[p]
      /\ \/ Row(L, S, T, nr, o, h)' /\ UNCHANGED checkVars
         \/ /\ Returned(L, S, T, nr, o, h, x, m)'
            /\ Assertion(TRUE) /\ UNCHANGED <<local, stored, counted>>
  BY <1>2, FreeServed
<1>4. CASE Row(L, S, T, nr, o, h)' /\ UNCHANGED checkVars
  <2>1. CheckState'
    BY <1>2, <1>4, CheckStateStays
  <2>2. pc' # "idle"
    <3>1. CASE CallFree
      <4>1. ~Assertion(FALSE)
        BY <1>4 DEF checkVars, Assertion, CheckState
      <4>2. free_pages(Location, Statement.n)
        BY <3>1, <4>1 DEF CallFree
      <4> QED
        BY <4>2 DEF free_pages
    <3>2. CASE CallStep
      <4>1. line' # line + 1
        BY <1>4 DEF checkVars, CheckState
      <4> QED
        BY <1>1, <3>2, <4>1 DEF CallStep, Assertion
    <3> QED
      BY <1>2, <3>1, <3>2
  <2> QED
    BY <1>2, <1>3, <1>4, <2>1, <2>2 DEF checkVars
<1>5. CASE /\ Returned(L, S, T, nr, o, h, x, m)'
           /\ Assertion(TRUE) /\ UNCHANGED <<local, stored, counted>>
  <2>1. CheckState'
    <3>1. local' \in [Names -> Int]
      BY <1>5 DEF CheckState
    <3> QED
      BY <1>2, <1>5, <3>1, CheckStateGoesOn
  <2> QED
    BY <1>2, <1>3, <1>5, <2>1 DEF Assertion
<1> QED
  BY <1>3, <1>4, <1>5

\* free_pages of a page that no block touches, as a statement of the check.
LEMMA FreeRow ==
  ASSUME CheckState, ~Booted, line > 1, CheckNext,
         NEW L, NEW S, NEW T \in SUBSET L, NEW nr \in Int, NEW o, NEW h \in Int,
         NEW x \in Region, NEW m \in 1..RegionPages, Alone(L, S, T, nr, o, h, x, m),
         NEW L2, NEW S2, NEW nr2, NEW o2, Grows(L, S, nr, o, x, m, L2, S2, nr2, o2)
  PROVE  /\ CheckState' /\ UNCHANGED <<local, stored, pmm_manager>>
         /\ \A p \in Region \ {x} : property'[p] = property[p]
         /\ \/ line' = line /\ Row(L, S, T, nr, o, h)' /\ pc' # "idle"
            \/ line' = line + 1 /\ Row(L2, S2, T, nr2, o2, h)' /\ pc' = "idle" /\ property'[x] = m
<1>1. /\ CheckState' /\ UNCHANGED <<local, stored, pmm_manager>>
      /\ \A p \in Region \ {x} : property'[p] = property[p]
      /\ \/ line' = line /\ Row(L, S, T, nr, o, h)' /\ pc' # "idle"
         \/ line' = line + 1 /\ Returned(L, S, T, nr, o, h, x, m)'
  BY FreeLine
<1>2. ASSUME Returned(L, S, T, nr, o, h, x, m)'
      PROVE  Row(L2, S2, T, nr2, o2, h)' /\ pc' = "idle" /\ property'[x] = m
  <2>1. Memory(L2, S2, T, nr2, o2, h)' /\ Quiet' /\ property'[x] = m
    BY <1>2 DEF Returned, Grows
  <2> QED
    BY <2>1, QuietRow DEF Quiet
<1> QED
  BY <1>1, <1>2

\* alloc_pages where no block serves: NULL is expected, and returned.
LEMMA NullLine ==
  ASSUME CheckState, ~Booted, line > 1, CheckNext,
         NEW L, NEW S, NEW T, NEW nr \in Nat, NEW o, NEW h, Refused(L, S, T, nr, o, h)
  PROVE  /\ CheckState' /\ UNCHANGED <<stored, pmm_manager>>
         /\ \A z \in Names \ {"none"} : local'[z] = local[z]
         /\ UNCHANGED property
         /\ Row(L, S, T, nr, o, h)'
         /\ line' \in {line, line + 1}
<1>0. Row(L, S, T, nr, o, h)
  BY DEF Refused
<1> PICK n \in Nat : /\ Statement = AllocNone(n)
                     /\ \/ n > nr
                        \/ \A p \in L : /\ property[p] \in Nat /\ property[p] <= nr
                                        /\ property[p] < n
  BY DEF Refused
<1>1. /\ Statement.do = "alloc" /\ Statement.n = n /\ Statement.to = "none"
      /\ Statement.want = "NULL"
  BY DEF AllocNone
<1>2. (CallAlloc \/ CallStep) /\ UNCHANGED pmm_manager
  BY <1>1, StepsOfStatement
<1>3. Serving(L, S, T, nr, o, h)
  BY <1>0, <1>1 DEF Row
<1>4. \/ /\ Serving(L, S, T, nr, o, h)'
         /\ UNCHANGED <<checkVars, property>>
      \/ /\ Memory(L, S, T, nr, o, h)' /\ Quiet'
         /\ UNCHANGED property
         /\ Ends(NULL)
      \/ page \in L /\ property[page] >= n /\ n <= nr
  BY <1>1, <1>2, <1>3, AllocServed
<1>5. CASE Serving(L, S, T, nr, o, h)' /\ UNCHANGED <<checkVars, property>>
  <2>1. CheckState'
    BY <1>2, <1>5, CheckStateStays
  <2> QED
    BY <1>2, <1>5, <2>1 DEF checkVars, Row
<1>6. CASE Memory(L, S, T, nr, o, h)' /\ Quiet' /\ UNCHANGED property /\ Ends(NULL)
  <2>1. Row(L, S, T, nr, o, h)'
    BY <1>6, QuietRow
  <2>2. /\ Assertion(TRUE) /\ local' = [local EXCEPT !["none"] = NULL]
        /\ UNCHANGED <<stored, counted>>
    BY <1>1, <1>6 DEF Ends
  <2>3. /\ local' \in [Names -> Int]
        /\ \A z \in Names \ {"none"} : local'[z] = local[z]
    BY <2>2, EntryTypes DEF CheckState, Names
  <2>4. CheckState'
    BY <1>2, <2>2, <2>3, CheckStateGoesOn
  <2> QED
    BY <1>2, <1>6, <2>1, <2>2, <2>3, <2>4 DEF Assertion
<1>7. ~(page \in L /\ property[page] >= n /\ n <= nr)
  BY <1>1
<1> QED
  BY <1>4, <1>5, <1>6, <1>7

\* The entry after x on the list.
LEMMA NextIs ==
  ASSUME NEW l, NEW L, NEW S, NEW h, Chained(l, L, S, h), NEW x \in L,
         NEW b \in L \cup {free_list}, b # free_list => b > x,
         \A p \in L : p > x => b # free_list /\ b <= p
  PROVE  l.next[x] = b
<1>1. /\ l.next[x] \in L \cup {free_list}
      /\ l.next[x] # free_list => l.next[x] > x
      /\ \A p \in L : p > x => l.next[x] # free_list /\ l.next[x] <= p
  BY DEF Chained
<1>2. \A e \in L \cup {free_list} : e \in Int
  BY ChainedTypes
<1> QED
  BY <1>1, <1>2

\* alloc_pages where block x of exactly that size serves best.
LEMMA TakeLine ==
  ASSUME CheckState, ~Booted, line > 1, CheckNext,
         NEW L, NEW S, NEW T, NEW nr \in Nat, NEW o, NEW h, NEW x \in L \ S, NEW n \in Nat,
         NEW b, Served(L, S, T, nr, o, h, x, n, b),
         NEW L2, NEW S2, NEW nr2, NEW o2, Shrinks(L, S, nr, o, x, n, b, L2, S2, nr2, o2)
  PROVE  /\ CheckState' /\ UNCHANGED <<stored, pmm_manager, property>>
         /\ \/ line' = line /\ local' = local /\ Row(L, S, T, nr, o, h)'
            \/ /\ line' = line + 1 /\ local'[Statement.to] = x
               /\ \A z \in Names \ {Statement.to} : local'[z] = local[z]
               /\ Row(L2, S2, T, nr2, o2, h)'
<1>0. /\ Row(L, S, T, nr, o, h)
      /\ Statement.do = "alloc" /\ Statement.n = n /\ Statement.to \in Names
      /\ Statement.want = "page" \/ (Statement.want = "this_page" /\ Location = x)
      /\ property[x] = n /\ n <= nr
      /\ \A p \in L : property[p] \in Nat /\ property[p] <= nr
      /\ \A p \in L : property[p] >= n /\ Preferred(p, x) => p = x
      /\ b \in L \cup {free_list} /\ (b # free_list => b > x)
      /\ \A p \in L : p > x => b # free_list /\ b <= p
  BY DEF Served
<1>2. (CallAlloc \/ CallStep) /\ UNCHANGED pmm_manager
  BY <1>0, StepsOfStatement
<1>3. Serving(L, S, T, nr, o, h)
  BY <1>0 DEF Row
<1>4. \/ /\ Serving(L, S, T, nr, o, h)'
         /\ UNCHANGED <<checkVars, property>>
      \/ Statement.n > nr \/ \A p \in L : property[p] < Statement.n
      \/ /\ page \in L /\ property[page] >= Statement.n
         /\ \A p \in L : property[p] >= Statement.n => Preferred(page, p)
         /\ arg = Statement.n /\ Take
         /\ Memory(L, S, T, nr, o, h)
         /\ Ends(page)
  BY <1>0, <1>2, <1>3, AllocServed
<1>5. CASE Serving(L, S, T, nr, o, h)' /\ UNCHANGED <<checkVars, property>>
  <2>1. CheckState'
    BY <1>2, <1>5, CheckStateStays
  <2> QED
    BY <1>2, <1>5, <2>1 DEF checkVars, Row
<1>6. CASE /\ page \in L /\ property[page] >= Statement.n
           /\ \A p \in L : property[p] >= Statement.n => Preferred(page, p)
           /\ arg = Statement.n /\ Take
           /\ Memory(L, S, T, nr, o, h)
           /\ Ends(page)
  <2>1. page = x
    BY <1>0, <1>6
  <2>2. links.next[x] = b /\ x # NULL /\ x \in Int
    <3>1. Chained(links, L, S, h)
      BY <1>6 DEF Memory
    <3>2. x \in L
      OBVIOUS
    <3> QED
      BY <1>0, <3>1, <3>2, NextIs, ChainedTypes, EntryTypes
  <2>3. Memory(L2, S2, T, nr2, o2, h)' /\ Quiet' /\ UNCHANGED property
    <3>1. L2 = L \ {x} /\ S2 = S \ {b} /\ nr2 = nr - n /\ o2 = o \cup x .. (x + n - 1)
      BY DEF Shrinks
    <3> QED
      BY <1>0, <1>6, <2>1, <2>2, <3>1, TakeWhole
  <2>4. Row(L2, S2, T, nr2, o2, h)'
    BY <2>3, QuietRow
  <2>5. /\ Assertion(TRUE) /\ local' = [local EXCEPT ![Statement.to] = x]
        /\ UNCHANGED <<stored, counted>>
    BY <1>0, <1>6, <2>1, <2>2 DEF Ends, Assertion
  <2>6. /\ local' \in [Names -> Int]
        /\ local'[Statement.to] = x
        /\ \A z \in Names \ {Statement.to} : local'[z] = local[z]
    BY <1>0, <2>2, <2>5 DEF CheckState
  <2>7. CheckState'
    BY <1>2, <2>5, <2>6, CheckStateGoesOn
  <2> QED
    BY <1>2, <2>3, <2>4, <2>5, <2>6, <2>7 DEF Assertion
<1>7. ~(Statement.n > nr \/ \A p \in L : property[p] < Statement.n)
  <2>1. property[x] \in Nat /\ x \in L
    BY <1>0
  <2> QED
    BY <1>0, <2>1
<1> QED
  BY <1>4, <1>5, <1>6, <1>7

\* Between calls, statements that look at the manager leave it alone.
LEMMA NotInCall ==
  ASSUME NEW L, NEW S, NEW T, NEW nr, NEW o, NEW h, Row(L, S, T, nr, o, h),
         CheckNext, ~Booted, Statement.do \notin {"alloc", "free"}
  PROVE  /\ Memory(L, S, T, nr, o, h) /\ Quiet
         /\ UNCHANGED pmm_manager
         /\ \/ Look \/ Count
            \/ /\ StoreList \/ StoreNrFree \/ RestoreList \/ RestoreNrFree
               /\ UNCHANGED <<local, counted, property, PageProperty, pc, le, page, arg, owned>>
<1>1. Memory(L, S, T, nr, o, h) /\ Quiet
  BY DEF Row, Serving
<1>2. ~CallStep
  BY <1>1, InCall DEF CallStep, Quiet
<1> QED
  BY <1>1, <1>2, StepsOfStatement

\* A statement that asserts what is so, or copies a page variable.
LEMMA LookLine ==
  ASSUME CheckState, ~Booted, line > 1, CheckNext,
         NEW L, NEW S, NEW T, NEW nr, NEW o, NEW h, Seen(L, S, T, nr, o, h)
  PROVE  /\ CheckState' /\ UNCHANGED <<local, stored, pmm_manager, property>>
         /\ line' = line + 1
         /\ Row(L, S, T, nr, o, h)'
<1>0. /\ Row(L, S, T, nr, o, h)
      /\ \/ \E n : Statement = NrFreeIs(n) /\ nr = n
         \/ Statement = Do("not_empty") /\ L # {}
         \/ \E y, i, n : /\ Statement = HeadsBlock(y, i, n)
                         /\ local[y] + i \in L \ T /\ property[local[y] + i] = n
  BY DEF Seen
<1>1. Statement.do \in {"nr_free", "not_empty", "heads"}
  BY <1>0 DEF NrFreeIs, Do, HeadsBlock
<1>2. Memory(L, S, T, nr, o, h) /\ Quiet /\ UNCHANGED pmm_manager /\ Look
  BY <1>0, <1>1, NotInCall DEF Count, StoreList, StoreNrFree, RestoreList, RestoreNrFree, Executing
<1>3. UNCHANGED <<vars, local, stored, counted>>
  BY <1>1, <1>2 DEF Look
<1>4. Assertion(TRUE)
  <2>1. CASE \E n : Statement = NrFreeIs(n) /\ nr = n
    BY <1>2, <2>1 DEF Look, Executing, NrFreeIs, Memory, Assertion
  <2>2. CASE Statement = Do("not_empty") /\ L # {}
    <3>1. ~list_empty(links, free_list)
      BY <1>2, <2>2, EntryTypes DEF list_empty, Memory, Chained
    <3>2. Statement.do = "not_empty"
      BY <2>2 DEF Do
    <3> QED
      BY <1>2, <3>1, <3>2 DEF Look, Executing, Assertion
  <2>3. CASE \E y, i, n : /\ Statement = HeadsBlock(y, i, n)
                          /\ local[y] + i \in L \ T /\ property[local[y] + i] = n
    <3>1. PICK y, i, n : /\ Statement = HeadsBlock(y, i, n)
                         /\ local[y] + i \in L \ T /\ property[local[y] + i] = n
      BY <2>3
    <3>2. Statement.do = "heads" /\ Statement.n = n /\ Location = local[y] + i
      BY <3>1 DEF HeadsBlock, Location
    <3>3. Location \in PageProperty /\ property[Location] = Statement.n
      BY <1>2, <3>1, <3>2 DEF Memory
    <3> QED
      BY <1>2, <3>2, <3>3 DEF Look, Executing, Assertion
  <2> QED
    BY <1>0, <2>1, <2>2, <2>3
<1>5. CheckState'
  <2>1. local' \in [Names -> Int]
    BY <1>3 DEF CheckState
  <2> QED
    BY <1>2, <1>3, <1>4, <2>1, CheckStateGoesOn
<1>6. Memory(L, S, T, nr, o, h)' /\ Quiet'
  BY <1>2, <1>3 DEF Memory, Quiet, vars
<1>7. Row(L, S, T, nr, o, h)'
  BY <1>6, QuietRow
<1> QED
  BY <1>2, <1>3, <1>4, <1>5, <1>7 DEF Assertion, vars

\* A region that can be checked has the pages the check speaks of.
LEMMA PagesOfRegion ==
  ASSUME Checkable
  PROVE  /\ RegionBase \in Nat /\ RegionPages \in Nat /\ RegionPages >= 6
         /\ \A i \in 0..5 : PageAt(i) \in Region /\ PageAt(i) \in Nat
BY EntryTypes DEF Checkable, PageAt

\* basic_check: assert(alloc_page() == NULL).
LEMMA Line8 ==
  ASSUME Checkable, CheckInv, CheckNext, line = 8
  PROVE  CheckInv'
<1> DEFINE p0 == PageAt(0)
           p1 == PageAt(1)
           p2 == PageAt(2)
           p3 == PageAt(3)
           L == {}
           S == {}
           T == {}
           o == PagesAt(0, 2)
<1>1. /\ CheckState /\ ~Booted /\ line > 1 /\ Statement = AllocNone(1)
      /\ Row(L, S, T, 0, o, p3) /\ property[p3] = RegionPages - 3 /\ stored.next = p3
      /\ stored.prev = p3 /\ stored.nr_free = RegionPages - 3 /\ local["p0"] = p0
      /\ local["p1"] = p1 /\ local["p2"] = p2
  BY FirstStatements, NotBooted DEF CheckInv, AtFirst
<1>2. /\ p0 \in Region /\ p1 \in Region /\ p2 \in Region /\ p3 \in Region /\ p0 \in Int
      /\ p1 \in Int /\ p2 \in Int /\ p3 \in Int /\ p0 # p1 /\ p0 # p2 /\ p0 # p3 /\ p1 # p2
      /\ p1 # p3 /\ p2 # p3 /\ 0 \in Nat
  BY PagesOfRegion DEF PageAt
<1>3. Refused(L, S, T, 0, o, p3)
  BY <1>1, <1>2, PagesOfRegion DEF Refused
<1>5. /\ CheckState' /\ UNCHANGED <<stored, pmm_manager, property>>
      /\ \A z \in Names \ {"none"} : local'[z] = local[z]
      /\ Row(L, S, T, 0, o, p3)' /\ line' \in {line, line + 1}
  <2> HIDE DEF p0, p1, p2, p3, L, S, T, o
  <2> QED
    BY <1>1, <1>2, <1>3, NullLine
<1>6. AtFirst'
  BY <1>1, <1>2, <1>5 DEF AtFirst, Names
<1> QED
  BY <1>1, <1>5, <1>6, Early

\* basic_check: free_page(p0).
LEMMA Line9 ==
  ASSUME Checkable, CheckInv, CheckNext, line = 9
  PROVE  CheckInv'
<1> DEFINE p0 == PageAt(0)
           p1 == PageAt(1)
           p2 == PageAt(2)
           p3 == PageAt(3)
           L == {}
           S == {}
           T == {}
           o == PagesAt(0, 2)
           L2 == {p0}
           S2 == {}
           o2 == PagesAt(1, 2)
<1>1. /\ CheckState /\ ~Booted /\ line > 1 /\ Statement = Free("p0", 0, 1)
      /\ Row(L, S, T, 0, o, p3) /\ property[p3] = RegionPages - 3 /\ stored.next = p3
      /\ stored.prev = p3 /\ stored.nr_free = RegionPages - 3 /\ local["p0"] = p0
      /\ local["p1"] = p1 /\ local["p2"] = p2
  BY FirstStatements, NotBooted DEF CheckInv, AtFirst
<1>2. /\ p0 \in Region /\ p1 \in Region /\ p2 \in Region /\ p3 \in Region /\ p0 \in Int
      /\ p1 \in Int /\ p2 \in Int /\ p3 \in Int /\ p0 # p1 /\ p0 # p2 /\ p0 # p3 /\ p1 # p2
      /\ p1 # p3 /\ p2 # p3 /\ 1 \in 1..RegionPages /\ T \in SUBSET L
  BY PagesOfRegion DEF PageAt
<1>3. Alone(L, S, T, 0, o, p3, p0, 1)
  BY <1>1, <1>2, PagesOfRegion DEF Alone, Free, Location, Topmost, PageAt
<1>4. Grows(L, S, 0, o, p0, 1, L2, S2, 1, o2)
  BY <1>2, PagesOfRegion DEF Grows, Backed, Topmost, PagesAt, PageAt
<1>5. /\ CheckState' /\ UNCHANGED <<local, stored, pmm_manager>>
      /\ \A p \in Region \ {p0} : property'[p] = property[p]
      /\ \/ line' = line /\ Row(L, S, T, 0, o, p3)' /\ pc' # "idle"
         \/ /\ line' = line + 1 /\ Row(L2, S2, T, 1, o2, p3)'
            /\ pc' = "idle" /\ property'[p0] = 1
  <2> HIDE DEF p0, p1, p2, p3, L, S, T, o, L2, S2, o2
  <2> QED
    BY <1>1, <1>2, <1>3, <1>4, FreeRow
<1>6. AtFirst'
  BY <1>1, <1>2, <1>5 DEF AtFirst
<1> QED
  BY <1>1, <1>5, <1>6, Early

\* basic_check: free_page(p1).
LEMMA Line10 ==
  ASSUME Checkable, CheckInv, CheckNext, line = 10
  PROVE  CheckInv'
<1> DEFINE p0 == PageAt(0)
           p1 == PageAt(1)
           p2 == PageAt(2)
           p3 == PageAt(3)
           L == {p0}
           S == {}
           T == {}
           o == PagesAt(1, 2)
           L2 == {p0, p1}
           S2 == {p1}
           o2 == PagesAt(2, 2)
<1>1. /\ CheckState /\ ~Booted /\ line > 1 /\ Statement = Free("p1", 0, 1)
      /\ Row(L, S, T, 1, o, p3) /\ property[p3] = RegionPages - 3 /\ property[p0] = 1
      /\ stored.next = p3 /\ stored.prev = p3 /\ stored.nr_free = RegionPages - 3
      /\ local["p0"] = p0 /\ local["p1"] = p1 /\ local["p2"] = p2
  BY FirstStatements, NotBooted DEF CheckInv, AtFirst
<1>2. /\ p0 \in Region /\ p1 \in Region /\ p2 \in Region /\ p3 \in Region /\ p0 \in Int
      /\ p1 \in Int /\ p2 \in Int /\ p3 \in Int /\ p0 # p1 /\ p0 # p2 /\ p0 # p3 /\ p1 # p2
      /\ p1 # p3 /\ p2 # p3 /\ 1 \in 1..RegionPages /\ T \in SUBSET L
  BY PagesOfRegion DEF PageAt
<1>3. Alone(L, S, T, 1, o, p3, p1, 1)
  BY <1>1, <1>2, PagesOfRegion DEF Alone, Free, Location, Topmost, PageAt
<1>4. Grows(L, S, 1, o, p1, 1, L2, S2, 2, o2)
  BY <1>2, PagesOfRegion DEF Grows, Backed, Topmost, PagesAt, PageAt
<1>5. /\ CheckState' /\ UNCHANGED <<local, stored, pmm_manager>>
      /\ \A p \in Region \ {p1} : property'[p] = property[p]
      /\ \/ line' = line /\ Row(L, S, T, 1, o, p3)' /\ pc' # "idle"
         \/ /\ line' = line + 1 /\ Row(L2, S2, T, 2, o2, p3)'
            /\ pc' = "idle" /\ property'[p1] = 1
  <2> HIDE DEF p0, p1, p2, p3, L, S, T, o, L2, S2, o2
  <2> QED
    BY <1>1, <1>2, <1>3, <1>4, FreeRow
<1>6. AtFirst'
  BY <1>1, <1>2, <1>5 DEF AtFirst
<1> QED
  BY <1>1, <1>5, <1>6, Early

\* basic_check: free_page(p2).
LEMMA Line11 ==
  ASSUME Checkable, CheckInv, CheckNext, line = 11
  PROVE  CheckInv'
<1> DEFINE p0 == PageAt(0)
           p1 == PageAt(1)
           p2 == PageAt(2)
           p3 == PageAt(3)
           L == {p0, p1}
           S == {p1}
           T == {}
           o == PagesAt(2, 2)
           L2 == {p0, p1, p2}
           S2 == {p1, p2}
           o2 == {}
<1>1. /\ CheckState /\ ~Booted /\ line > 1 /\ Statement = Free("p2", 0, 1)
      /\ Row(L, S, T, 2, o, p3) /\ property[p3] = RegionPages - 3 /\ property[p0] = 1
      /\ property[p1] = 1 /\ stored.next = p3 /\ stored.prev = p3
      /\ stored.nr_free = RegionPages - 3 /\ local["p0"] = p0 /\ local["p1"] = p1
      /\ local["p2"] = p2
  BY FirstStatements, NotBooted DEF CheckInv, AtFirst
<1>2. /\ p0 \in Region /\ p1 \in Region /\ p2 \in Region /\ p3 \in Region /\ p0 \in Int
      /\ p1 \in Int /\ p2 \in Int /\ p3 \in Int /\ p0 # p1 /\ p0 # p2 /\ p0 # p3 /\ p1 # p2
      /\ p1 # p3 /\ p2 # p3 /\ 1 \in 1..RegionPages /\ T \in SUBSET L
  BY PagesOfRegion DEF PageAt
<1>3. Alone(L, S, T, 2, o, p3, p2, 1)
  BY <1>1, <1>2, PagesOfRegion DEF Alone, Free, Location, Topmost, PageAt
<1>4. Grows(L, S, 2, o, p2, 1, L2, S2, 3, o2)
  BY <1>2, PagesOfRegion DEF Grows, Backed, Topmost, PagesAt, PageAt
<1>5. /\ CheckState' /\ UNCHANGED <<local, stored, pmm_manager>>
      /\ \A p \in Region \ {p2} : property'[p] = property[p]
      /\ \/ line' = line /\ Row(L, S, T, 2, o, p3)' /\ pc' # "idle"
         \/ /\ line' = line + 1 /\ Row(L2, S2, T, 3, o2, p3)'
            /\ pc' = "idle" /\ property'[p2] = 1
  <2> HIDE DEF p0, p1, p2, p3, L, S, T, o, L2, S2, o2
  <2> QED
    BY <1>1, <1>2, <1>3, <1>4, FreeRow
<1>6. AtFirst'
  BY <1>1, <1>2, <1>5 DEF AtFirst
<1> QED
  BY <1>1, <1>5, <1>6, Early

\* basic_check: assert(nr_free == 3).
LEMMA Line12 ==
  ASSUME Checkable, CheckInv, CheckNext, line = 12
  PROVE  CheckInv'
<1> DEFINE p0 == PageAt(0)
           p1 == PageAt(1)
           p2 == PageAt(2)
           p3 == PageAt(3)
           L == {p0, p1, p2}
           S == {p1, p2}
           T == {}
           o == {}
<1>1. /\ CheckState /\ ~Booted /\ line > 1 /\ Statement = NrFreeIs(3)
      /\ Row(L, S, T, 3, o, p3) /\ property[p3] = RegionPages - 3 /\ property[p0] = 1
      /\ property[p1] = 1 /\ property[p2] = 1 /\ stored.next = p3 /\ stored.prev = p3
      /\ stored.nr_free = RegionPages - 3 /\ local["p0"] = p0 /\ local["p1"] = p1
      /\ local["p2"] = p2
  BY FirstStatements, NotBooted DEF CheckInv, AtFirst
<1>2. /\ p0 \in Region /\ p1 \in Region /\ p2 \in Region /\ p3 \in Region /\ p0 \in Int
      /\ p1 \in Int /\ p2 \in Int /\ p3 \in Int /\ p0 # p1 /\ p0 # p2 /\ p0 # p3 /\ p1 # p2
      /\ p1 # p3 /\ p2 # p3
  BY PagesOfRegion DEF PageAt
<1>3. Seen(L, S, T, 3, o, p3)
  BY <1>1 DEF Seen
<1>5. /\ CheckState' /\ UNCHANGED <<local, stored, pmm_manager, property>>
      /\ Row(L, S, T, 3, o, p3)' /\ line' = line + 1
  <2> HIDE DEF p0, p1, p2, p3, L, S, T, o
  <2> QED
    BY <1>1, <1>3, LookLine
<1>6. AtFirst'
  BY <1>1, <1>2, <1>5 DEF AtFirst
<1> QED
  BY <1>1, <1>5, <1>6, Early

\* basic_check: p0 = alloc_page().
LEMMA Line13 ==
  ASSUME Checkable, CheckInv, CheckNext, line = 13
  PROVE  CheckInv'
<1> DEFINE p0 == PageAt(0)
           p1 == PageAt(1)
           p2 == PageAt(2)
           p3 == PageAt(3)
           L == {p0, p1, p2}
           S == {p1, p2}
           T == {}
           o == {}
           L2 == {p1, p2}
           S2 == {p2}
           o2 == PagesAt(0, 0)
<1>1. /\ CheckState /\ ~Booted /\ line > 1 /\ Statement = Alloc("p0", 1)
      /\ Row(L, S, T, 3, o, p3) /\ property[p3] = RegionPages - 3 /\ property[p0] = 1
      /\ property[p1] = 1 /\ property[p2] = 1 /\ stored.next = p3 /\ stored.prev = p3
      /\ stored.nr_free = RegionPages - 3 /\ local["p0"] = p0 /\ local["p1"] = p1
      /\ local["p2"] = p2
  BY FirstStatements, NotBooted DEF CheckInv, AtFirst
<1>2. /\ p0 \in Region /\ p1 \in Region /\ p2 \in Region /\ p3 \in Region /\ p0 \in Int
      /\ p1 \in Int /\ p2 \in Int /\ p3 \in Int /\ p0 # p1 /\ p0 # p2 /\ p0 # p3 /\ p1 # p2
      /\ p1 # p3 /\ p2 # p3 /\ 3 \in Nat
  BY PagesOfRegion DEF PageAt
<1>3. Served(L, S, T, 3, o, p3, p0, 1, p1) /\ p0 \in L \ S
  BY <1>1, <1>2, PagesOfRegion, EntryTypes DEF Served, Alloc, AllocAt, Location, Preferred, Names, PageAt
<1>7. Statement.to = "p0"
  BY <1>1 DEF Alloc, AllocAt
<1>4. Shrinks(L, S, 3, o, p0, 1, p1, L2, S2, 2, o2)
  BY <1>2, PagesOfRegion, EntryTypes DEF Shrinks, PagesAt, PageAt
<1>5. /\ CheckState' /\ UNCHANGED <<stored, pmm_manager, property>>
      /\ \/ line' = line /\ local' = local /\ Row(L, S, T, 3, o, p3)'
         \/ /\ line' = line + 1 /\ local'[Statement.to] = p0
            /\ \A z \in Names \ {Statement.to} : local'[z] = local[z]
            /\ Row(L2, S2, T, 2, o2, p3)'
  <2> HIDE DEF p0, p1, p2, p3, L, S, T, o, L2, S2, o2
  <2> QED
    BY <1>1, <1>2, <1>3, <1>4, TakeLine
<1>6. AtFirst'
  BY <1>1, <1>2, <1>5, <1>7 DEF AtFirst, Names
<1> QED
  BY <1>1, <1>5, <1>6, Early

\* basic_check: p1 = alloc_page().
LEMMA Line14 ==
  ASSUME Checkable, CheckInv, CheckNext, line = 14
  PROVE  CheckInv'
<1> DEFINE p0 == PageAt(0)
           p1 == PageAt(1)
           p2 == PageAt(2)
           p3 == PageAt(3)
           L == {p1, p2}
           S == {p2}
           T == {}
           o == PagesAt(0, 0)
           L2 == {p2}
           S2 == {}
           o2 == PagesAt(0, 1)
<1>1. /\ CheckState /\ ~Booted /\ line > 1 /\ Statement = Alloc("p1", 1)
      /\ Row(L, S, T, 2, o, p3) /\ property[p3] = RegionPages - 3 /\ property[p1] = 1
      /\ property[p2] = 1 /\ stored.next = p3 /\ stored.prev = p3
      /\ stored.nr_free = RegionPages - 3 /\ local["p0"] = p0 /\ local["p1"] = p1
      /\ local["p2"] = p2
  BY FirstStatements, NotBooted DEF CheckInv, AtFirst
<1>2. /\ p0 \in Region /\ p1 \in Region /\ p2 \in Region /\ p3 \in Region /\ p0 \in Int
      /\ p1 \in Int /\ p2 \in Int /\ p3 \in Int /\ p0 # p1 /\ p0 # p2 /\ p0 # p3 /\ p1 # p2
      /\ p1 # p3 /\ p2 # p3 /\ 2 \in Nat
  BY PagesOfRegion DEF PageAt
<1>3. Served(L, S, T, 2, o, p3, p1, 1, p2) /\ p1 \in L \ S
  BY <1>1, <1>2, PagesOfRegion, EntryTypes DEF Served, Alloc, AllocAt, Location, Preferred, Names, PageAt
<1>7. Statement.to = "p1"
  BY <1>1 DEF Alloc, AllocAt
<1>4. Shrinks(L, S, 2, o, p1, 1, p2, L2, S2, 1, o2)
  BY <1>2, PagesOfRegion, EntryTypes DEF Shrinks, PagesAt, PageAt
<1>5. /\ CheckState' /\ UNCHANGED <<stored, pmm_manager, property>>
      /\ \/ line' = line /\ local' = local /\ Row(L, S, T, 2, o, p3)'
         \/ /\ line' = line + 1 /\ local'[Statement.to] = p1
            /\ \A z \in Names \ {Statement.to} : local'[z] = local[z]
            /\ Row(L2, S2, T, 1, o2, p3)'
  <2> HIDE DEF p0, p1, p2, p3, L, S, T, o, L2, S2, o2
  <2> QED
    BY <1>1, <1>2, <1>3, <1>4, TakeLine
<1>6. AtFirst'
  BY <1>1, <1>2, <1>5, <1>7 DEF AtFirst, Names
<1> QED
  BY <1>1, <1>5, <1>6, Early

\* basic_check: p2 = alloc_page().
LEMMA Line15 ==
  ASSUME Checkable, CheckInv, CheckNext, line = 15
  PROVE  CheckInv'
<1> DEFINE p0 == PageAt(0)
           p1 == PageAt(1)
           p2 == PageAt(2)
           p3 == PageAt(3)
           L == {p2}
           S == {}
           T == {}
           o == PagesAt(0, 1)
           L2 == {}
           S2 == {}
           o2 == PagesAt(0, 2)
<1>1. /\ CheckState /\ ~Booted /\ line > 1 /\ Statement = Alloc("p2", 1)
      /\ Row(L, S, T, 1, o, p3) /\ property[p3] = RegionPages - 3 /\ property[p2] = 1
      /\ stored.next = p3 /\ stored.prev = p3 /\ stored.nr_free = RegionPages - 3
      /\ local["p0"] = p0 /\ local["p1"] = p1 /\ local["p2"] = p2
  BY FirstStatements, NotBooted DEF CheckInv, AtFirst
<1>2. /\ p0 \in Region /\ p1 \in Region /\ p2 \in Region /\ p3 \in Region /\ p0 \in Int
      /\ p1 \in Int /\ p2 \in Int /\ p3 \in Int /\ p0 # p1 /\ p0 # p2 /\ p0 # p3 /\ p1 # p2
      /\ p1 # p3 /\ p2 # p3 /\ 1 \in Nat
  BY PagesOfRegion DEF PageAt
<1>3. Served(L, S, T, 1, o, p3, p2, 1, free_list) /\ p2 \in L \ S
  BY <1>1, <1>2, PagesOfRegion, EntryTypes DEF Served, Alloc, AllocAt, Location, Preferred, Names, PageAt
<1>7. Statement.to = "p2"
  BY <1>1 DEF Alloc, AllocAt
<1>4. Shrinks(L, S, 1, o, p2, 1, free_list, L2, S2, 0, o2)
  BY <1>2, PagesOfRegion, EntryTypes DEF Shrinks, PagesAt, PageAt
<1>5. /\ CheckState' /\ UNCHANGED <<stored, pmm_manager, property>>
      /\ \/ line' = line /\ local' = local /\ Row(L, S, T, 1, o, p3)'
         \/ /\ line' = line + 1 /\ local'[Statement.to] = p2
            /\ \A z \in Names \ {Statement.to} : local'[z] = local[z]
            /\ Row(L2, S2, T, 0, o2, p3)'
  <2> HIDE DEF p0, p1, p2, p3, L, S, T, o, L2, S2, o2
  <2> QED
    BY <1>1, <1>2, <1>3, <1>4, TakeLine
<1>6. AtFirst'
  BY <1>1, <1>2, <1>5, <1>7 DEF AtFirst, Names
<1> QED
  BY <1>1, <1>5, <1>6, Early

\* basic_check: assert(alloc_page() == NULL).
LEMMA Line16 ==
  ASSUME Checkable, CheckInv, CheckNext, line = 16
  PROVE  CheckInv'
<1> DEFINE p0 == PageAt(0)
           p1 == PageAt(1)
           p2 == PageAt(2)
           p3 == PageAt(3)
           L == {}
           S == {}
           T == {}
           o == PagesAt(0, 2)
<1>1. /\ CheckState /\ ~Booted /\ line > 1 /\ Statement = AllocNone(1)
      /\ Row(L, S, T, 0, o, p3) /\ property[p3] = RegionPages - 3 /\ stored.next = p3
      /\ stored.prev = p3 /\ stored.nr_free = RegionPages - 3 /\ local["p0"] = p0
      /\ local["p1"] = p1 /\ local["p2"] = p2
  BY FirstStatements, NotBooted DEF CheckInv, AtFirst
<1>2. /\ p0 \in Region /\ p1 \in Region /\ p2 \in Region /\ p3 \in Region /\ p0 \in Int
      /\ p1 \in Int /\ p2 \in Int /\ p3 \in Int /\ p0 # p1 /\ p0 # p2 /\ p0 # p3 /\ p1 # p2
      /\ p1 # p3 /\ p2 # p3 /\ 0 \in Nat
  BY PagesOfRegion DEF PageAt
<1>3. Refused(L, S, T, 0, o, p3)
  BY <1>1, <1>2, PagesOfRegion DEF Refused
<1>5. /\ CheckState' /\ UNCHANGED <<stored, pmm_manager, property>>
      /\ \A z \in Names \ {"none"} : local'[z] = local[z]
      /\ Row(L, S, T, 0, o, p3)' /\ line' \in {line, line + 1}
  <2> HIDE DEF p0, p1, p2, p3, L, S, T, o
  <2> QED
    BY <1>1, <1>2, <1>3, NullLine
<1>6. AtFirst'
  BY <1>1, <1>2, <1>5 DEF AtFirst, Names
<1> QED
  BY <1>1, <1>5, <1>6, Early

\* basic_check: free_page(p0).
LEMMA Line17 ==
  ASSUME Checkable, CheckInv, CheckNext, line = 17
  PROVE  CheckInv'
<1> DEFINE p0 == PageAt(0)
           p1 == PageAt(1)
           p2 == PageAt(2)
           p3 == PageAt(3)
           L == {}
           S == {}
           T == {}
           o == PagesAt(0, 2)
           L2 == {p0}
           S2 == {}
           o2 == PagesAt(1, 2)
<1>1. /\ CheckState /\ ~Booted /\ line > 1 /\ Statement = Free("p0", 0, 1)
      /\ Row(L, S, T, 0, o, p3) /\ property[p3] = RegionPages - 3 /\ stored.next = p3
      /\ stored.prev = p3 /\ stored.nr_free = RegionPages - 3 /\ local["p0"] = p0
      /\ local["p1"] = p1 /\ local["p2"] = p2
  BY FirstStatements, NotBooted DEF CheckInv, AtFirst
<1>2. /\ p0 \in Region /\ p1 \in Region /\ p2 \in Region /\ p3 \in Region /\ p0 \in Int
      /\ p1 \in Int /\ p2 \in Int /\ p3 \in Int /\ p0 # p1 /\ p0 # p2 /\ p0 # p3 /\ p1 # p2
      /\ p1 # p3 /\ p2 # p3 /\ 1 \in 1..RegionPages /\ T \in SUBSET L
  BY PagesOfRegion DEF PageAt
<1>3. Alone(L, S, T, 0, o, p3, p0, 1)
  BY <1>1, <1>2, PagesOfRegion DEF Alone, Free, Location, Topmost, PageAt
<1>4. Grows(L, S, 0, o, p0, 1, L2, S2, 1, o2)
  BY <1>2, PagesOfRegion DEF Grows, Backed, Topmost, PagesAt, PageAt
<1>5. /\ CheckState' /\ UNCHANGED <<local, stored, pmm_manager>>
      /\ \A p \in Region \ {p0} : property'[p] = property[p]
      /\ \/ line' = line /\ Row(L, S, T, 0, o, p3)' /\ pc' # "idle"
         \/ /\ line' = line + 1 /\ Row(L2, S2, T, 1, o2, p3)'
            /\ pc' = "idle" /\ property'[p0] = 1
  <2> HIDE DEF p0, p1, p2, p3, L, S, T, o, L2, S2, o2
  <2> QED
    BY <1>1, <1>2, <1>3, <1>4, FreeRow
<1>6. AtFirst'
  BY <1>1, <1>2, <1>5 DEF AtFirst
<1> QED
  BY <1>1, <1>5, <1>6, Early

\* basic_check: assert(!list_empty(&free_list)).
LEMMA Line18 ==
  ASSUME Checkable, CheckInv, CheckNext, line = 18
  PROVE  CheckInv'
<1> DEFINE p0 == PageAt(0)
           p1 == PageAt(1)
           p2 == PageAt(2)
           p3 == PageAt(3)
           L == {p0}
           S == {}
           T == {}
           o == PagesAt(1, 2)
<1>1. /\ CheckState /\ ~Booted /\ line > 1 /\ Statement = Do("not_empty")
      /\ Row(L, S, T, 1, o, p3) /\ property[p3] = RegionPages - 3 /\ property[p0] = 1
      /\ stored.next = p3 /\ stored.prev = p3 /\ stored.nr_free = RegionPages - 3
      /\ local["p0"] = p0 /\ local["p1"] = p1 /\ local["p2"] = p2
  BY FirstStatements, NotBooted DEF CheckInv, AtFirst
<1>2. /\ p0 \in Region /\ p1 \in Region /\ p2 \in Region /\ p3 \in Region /\ p0 \in Int
      /\ p1 \in Int /\ p2 \in Int /\ p3 \in Int /\ p0 # p1 /\ p0 # p2 /\ p0 # p3 /\ p1 # p2
      /\ p1 # p3 /\ p2 # p3
  BY PagesOfRegion DEF PageAt
<1>3. Seen(L, S, T, 1, o, p3)
  BY <1>1 DEF Seen
<1>5. /\ CheckState' /\ UNCHANGED <<local, stored, pmm_manager, property>>
      /\ Row(L, S, T, 1, o, p3)' /\ line' = line + 1
  <2> HIDE DEF p0, p1, p2, p3, L, S, T, o
  <2> QED
    BY <1>1, <1>3, LookLine
<1>6. AtFirst'
  BY <1>1, <1>2, <1>5 DEF AtFirst
<1> QED
  BY <1>1, <1>5, <1>6, Early

\* basic_check: assert((p = alloc_page()) == p0).
LEMMA Line19 ==
  ASSUME Checkable, CheckInv, CheckNext, line = 19
  PROVE  CheckInv'
<1> DEFINE p0 == PageAt(0)
           p1 == PageAt(1)
           p2 == PageAt(2)
           p3 == PageAt(3)
           L == {p0}
           S == {}
           T == {}
           o == PagesAt(1, 2)
           L2 == {}
           S2 == {}
           o2 == PagesAt(0, 2)
<1>1. /\ CheckState /\ ~Booted /\ line > 1 /\ Statement = AllocAt("p", 1, "p0", 0)
      /\ Row(L, S, T, 1, o, p3) /\ property[p3] = RegionPages - 3 /\ property[p0] = 1
      /\ stored.next = p3 /\ stored.prev = p3 /\ stored.nr_free = RegionPages - 3
      /\ local["p0"] = p0 /\ local["p1"] = p1 /\ local["p2"] = p2
  BY FirstStatements, NotBooted DEF CheckInv, AtFirst
<1>2. /\ p0 \in Region /\ p1 \in Region /\ p2 \in Region /\ p3 \in Region /\ p0 \in Int
      /\ p1 \in Int /\ p2 \in Int /\ p3 \in Int /\ p0 # p1 /\ p0 # p2 /\ p0 # p3 /\ p1 # p2
      /\ p1 # p3 /\ p2 # p3 /\ 1 \in Nat
  BY PagesOfRegion DEF PageAt
<1>3. Served(L, S, T, 1, o, p3, p0, 1, free_list) /\ p0 \in L \ S
  BY <1>1, <1>2, PagesOfRegion, EntryTypes DEF Served, Alloc, AllocAt, Location, Preferred, Names, PageAt
<1>7. Statement.to = "p"
  BY <1>1 DEF Alloc, AllocAt
<1>4. Shrinks(L, S, 1, o, p0, 1, free_list, L2, S2, 0, o2)
  BY <1>2, PagesOfRegion, EntryTypes DEF Shrinks, PagesAt, PageAt
<1>5. /\ CheckState' /\ UNCHANGED <<stored, pmm_manager, property>>
      /\ \/ line' = line /\ local' = local /\ Row(L, S, T, 1, o, p3)'
         \/ /\ line' = line + 1 /\ local'[Statement.to] = p0
            /\ \A z \in Names \ {Statement.to} : local'[z] = local[z]
            /\ Row(L2, S2, T, 0, o2, p3)'
  <2> HIDE DEF p0, p1, p2, p3, L, S, T, o, L2, S2, o2
  <2> QED
    BY <1>1, <1>2, <1>3, <1>4, TakeLine
<1>6. AtFirst'
  BY <1>1, <1>2, <1>5, <1>7 DEF AtFirst, Names
<1> QED
  BY <1>1, <1>5, <1>6, Early

\* basic_check: assert(alloc_page() == NULL).
LEMMA Line20 ==
  ASSUME Checkable, CheckInv, CheckNext, line = 20
  PROVE  CheckInv'
<1> DEFINE p0 == PageAt(0)
           p1 == PageAt(1)
           p2 == PageAt(2)
           p3 == PageAt(3)
           L == {}
           S == {}
           T == {}
           o == PagesAt(0, 2)
<1>1. /\ CheckState /\ ~Booted /\ line > 1 /\ Statement = AllocNone(1)
      /\ Row(L, S, T, 0, o, p3) /\ property[p3] = RegionPages - 3 /\ stored.next = p3
      /\ stored.prev = p3 /\ stored.nr_free = RegionPages - 3 /\ local["p0"] = p0
      /\ local["p1"] = p1 /\ local["p2"] = p2 /\ local["p"] = p0
  BY FirstStatements, NotBooted DEF CheckInv, AtFirst
<1>2. /\ p0 \in Region /\ p1 \in Region /\ p2 \in Region /\ p3 \in Region /\ p0 \in Int
      /\ p1 \in Int /\ p2 \in Int /\ p3 \in Int /\ p0 # p1 /\ p0 # p2 /\ p0 # p3 /\ p1 # p2
      /\ p1 # p3 /\ p2 # p3 /\ 0 \in Nat
  BY PagesOfRegion DEF PageAt
<1>3. Refused(L, S, T, 0, o, p3)
  BY <1>1, <1>2, PagesOfRegion DEF Refused
<1>5. /\ CheckState' /\ UNCHANGED <<stored, pmm_manager, property>>
      /\ \A z \in Names \ {"none"} : local'[z] = local[z]
      /\ Row(L, S, T, 0, o, p3)' /\ line' \in {line, line + 1}
  <2> HIDE DEF p0, p1, p2, p3, L, S, T, o
  <2> QED
    BY <1>1, <1>2, <1>3, NullLine
<1>6. AtFirst'
  BY <1>1, <1>2, <1>5 DEF AtFirst, Names
<1> QED
  BY <1>1, <1>5, <1>6, Early

\* basic_check: assert(nr_free == 0).
LEMMA Line21 ==
  ASSUME Checkable, CheckInv, CheckNext, line = 21
  PROVE  CheckInv'
<1> DEFINE p0 == PageAt(0)
           p1 == PageAt(1)
           p2 == PageAt(2)
           p3 == PageAt(3)
           L == {}
           S == {}
           T == {}
           o == PagesAt(0, 2)
<1>1. /\ CheckState /\ ~Booted /\ line > 1 /\ Statement = NrFreeIs(0)
      /\ Row(L, S, T, 0, o, p3) /\ property[p3] = RegionPages - 3 /\ stored.next = p3
      /\ stored.prev = p3 /\ stored.nr_free = RegionPages - 3 /\ local["p0"] = p0
      /\ local["p1"] = p1 /\ local["p2"] = p2 /\ local["p"] = p0
  BY FirstStatements, NotBooted DEF CheckInv, AtFirst
<1>2. /\ p0 \in Region /\ p1 \in Region /\ p2 \in Region /\ p3 \in Region /\ p0 \in Int
      /\ p1 \in Int /\ p2 \in Int /\ p3 \in Int /\ p0 # p1 /\ p0 # p2 /\ p0 # p3 /\ p1 # p2
      /\ p1 # p3 /\ p2 # p3
  BY PagesOfRegion DEF PageAt
<1>3. Seen(L, S, T, 0, o, p3)
  BY <1>1 DEF Seen
<1>5. /\ CheckState' /\ UNCHANGED <<local, stored, pmm_manager, property>>
      /\ Row(L, S, T, 0, o, p3)' /\ line' = line + 1
  <2> HIDE DEF p0, p1, p2, p3, L, S, T, o
  <2> QED
    BY <1>1, <1>3, LookLine
<1>6. AtFirst'
  BY <1>1, <1>2, <1>5 DEF AtFirst
<1> QED
  BY <1>1, <1>5, <1>6, Early

\* both checks: assert(alloc_page() == NULL).
LEMMA Line30 ==
  ASSUME Checkable, CheckInv, CheckNext, line = 30
  PROVE  CheckInv'
<1> DEFINE p0 == PageAt(0)
           p1 == PageAt(1)
           p2 == PageAt(2)
           p5 == PageAt(5)
           L == {}
           S == {}
           T == {}
           o == PagesAt(0, 4)
<1>1. /\ CheckState /\ ~Booted /\ line > 1 /\ Statement = AllocNone(1)
      /\ Row(L, S, T, RegionPages - 5, o, p5) /\ property[p5] = RegionPages - 5
      /\ stored.next = p5 /\ stored.prev = p5 /\ local["p0"] = p0 /\ local["p1"] = p1
      /\ local["p2"] = p2 /\ local["p"] = p0
  BY FirstStatements, NotBooted DEF CheckInv, AtFirst
<1>2. /\ p0 \in Region /\ p1 \in Region /\ p2 \in Region /\ p5 \in Region /\ p0 \in Int
      /\ p1 \in Int /\ p2 \in Int /\ p5 \in Int /\ p0 # p1 /\ p0 # p2 /\ p0 # p5 /\ p1 # p2
      /\ p1 # p5 /\ p2 # p5 /\ RegionPages - 5 \in Nat
  BY PagesOfRegion DEF PageAt
<1>3. Refused(L, S, T, RegionPages - 5, o, p5)
  BY <1>1, <1>2, PagesOfRegion DEF Refused
<1>5. /\ CheckState' /\ UNCHANGED <<stored, pmm_manager, property>>
      /\ \A z \in Names \ {"none"} : local'[z] = local[z]
      /\ Row(L, S, T, RegionPages - 5, o, p5)' /\ line' \in {line, line + 1}
  <2> HIDE DEF p0, p1, p2, p5, L, S, T, o
  <2> QED
    BY <1>1, <1>2, <1>3, NullLine
<1>6. AtFirst'
  BY <1>1, <1>2, <1>5 DEF AtFirst, Names
<1> QED
  BY <1>1, <1>5, <1>6, Early

\* For the later statements of default_check only AtFirstFit matters.
LEMMA LateFirstFit ==
  ASSUME CheckState', ~BestFit, UNCHANGED pmm_manager, line' \in 32..53, AtFirstFit'
  PROVE  CheckInv'
<1>1. ~BestFit' /\ ~Booted'
  <2>1. Check' = Check /\ Len(Check) = 53 /\ ~BestFit'
    BY Lengths DEF Check, BestFit
  <2>2. Len(Check') = 53
    BY <2>1
  <2> QED
    BY <2>1, <2>2 DEF Booted
<1>2. AtFirst'
  BY DEF AtFirst
<1> QED
  BY <1>1, <1>2 DEF CheckInv

\* For the later statements of best_fit_check only AtBestFit matters.
LEMMA LateBestFit ==
  ASSUME CheckState', BestFit, UNCHANGED pmm_manager, line' \in 32..46, AtBestFit'
  PROVE  CheckInv'
<1>1. BestFit' /\ ~Booted'
  <2>1. Check' = Check /\ Len(Check) = 46 /\ BestFit'
    BY Lengths DEF Check, BestFit
  <2>2. Len(Check') = 46
    BY <2>1
  <2> QED
    BY <2>1, <2>2 DEF Booted
<1>2. AtFirst'
  BY DEF AtFirst
<1> QED
  BY <1>1, <1>2 DEF CheckInv

\* default_check: free_pages(p0 + 2, 3).
LEMMA FirstFit32 ==
  ASSUME Checkable, CheckInv, CheckNext, ~BestFit, line = 32
  PROVE  CheckInv'
<1> DEFINE p0 == PageAt(0)
           p2 == PageAt(2)
           p5 == PageAt(5)
           L == {}
           S == {}
           T == {}
           o == PagesAt(0, 4)
           L2 == {p2}
           S2 == {}
           o2 == PagesAt(0, 1)
<1>1. /\ CheckState /\ ~Booted /\ line > 1 /\ Statement = Free("p0", 2, 3)
      /\ Row(L, S, T, 0, o, p5) /\ property[p5] = RegionPages - 5 /\ stored.next = p5
      /\ stored.prev = p5 /\ stored.nr_free = RegionPages - 5 /\ local["p0"] = p0
  BY FirstFitStatements, NotBooted DEF CheckInv, AtFirstFit
<1>2. /\ p0 \in Region /\ p2 \in Region /\ p5 \in Region /\ p0 \in Int /\ p2 \in Int
      /\ p5 \in Int /\ p0 # p2 /\ p0 # p5 /\ p2 # p5 /\ 3 \in 1..RegionPages
      /\ T \in SUBSET L
  BY PagesOfRegion DEF PageAt
<1>3. Alone(L, S, T, 0, o, p5, p2, 3)
  BY <1>1, <1>2, PagesOfRegion DEF Alone, Free, Location, Topmost, PageAt
<1>4. Grows(L, S, 0, o, p2, 3, L2, S2, 3, o2)
  BY <1>2, PagesOfRegion DEF Grows, Backed, Topmost, PagesAt, PageAt
<1>5. /\ CheckState' /\ UNCHANGED <<local, stored, pmm_manager>>
      /\ \A p \in Region \ {p2} : property'[p] = property[p]
      /\ \/ line' = line /\ Row(L, S, T, 0, o, p5)' /\ pc' # "idle"
         \/ /\ line' = line + 1 /\ Row(L2, S2, T, 3, o2, p5)'
            /\ pc' = "idle" /\ property'[p2] = 3
  <2> HIDE DEF p0, p2, p5, L, S, T, o, L2, S2, o2
  <2> QED
    BY <1>1, <1>2, <1>3, <1>4, FreeRow
<1>6. AtFirstFit'
  BY <1>1, <1>2, <1>5 DEF AtFirstFit
<1> QED
  BY <1>1, <1>5, <1>6, LateFirstFit

\* default_check: assert(alloc_pages(4) == NULL).
LEMMA FirstFit33 ==
  ASSUME Checkable, CheckInv, CheckNext, ~BestFit, line = 33
  PROVE  CheckInv'
<1> DEFINE p0 == PageAt(0)
           p2 == PageAt(2)
           p5 == PageAt(5)
           L == {p2}
           S == {}
           T == {}
           o == PagesAt(0, 1)
<1>1. /\ CheckState /\ ~Booted /\ line > 1 /\ Statement = AllocNone(4)
      /\ Row(L, S, T, 3, o, p5) /\ property[p5] = RegionPages - 5 /\ property[p2] = 3
      /\ stored.next = p5 /\ stored.prev = p5 /\ stored.nr_free = RegionPages - 5
      /\ local["p0"] = p0
  BY FirstFitStatements, NotBooted DEF CheckInv, AtFirstFit
<1>2. /\ p0 \in Region /\ p2 \in Region /\ p5 \in Region /\ p0 \in Int /\ p2 \in Int
      /\ p5 \in Int /\ p0 # p2 /\ p0 # p5 /\ p2 # p5 /\ 3 \in Nat
  BY PagesOfRegion DEF PageAt
<1>3. Refused(L, S, T, 3, o, p5)
  BY <1>1, <1>2, PagesOfRegion DEF Refused
<1>5. /\ CheckState' /\ UNCHANGED <<stored, pmm_manager, property>>
      /\ \A z \in Names \ {"none"} : local'[z] = local[z]
      /\ Row(L, S, T, 3, o, p5)' /\ line' \in {line, line + 1}
  <2> HIDE DEF p0, p2, p5, L, S, T, o
  <2> QED
    BY <1>1, <1>2, <1>3, NullLine
<1>6. AtFirstFit'
  BY <1>1, <1>2, <1>5 DEF AtFirstFit, Names
<1> QED
  BY <1>1, <1>5, <1>6, LateFirstFit

\* default_check: assert that p0 + 2 heads a block of 3.
LEMMA FirstFit34 ==
  ASSUME Checkable, CheckInv, CheckNext, ~BestFit, line = 34
  PROVE  CheckInv'
<1> DEFINE p0 == PageAt(0)
           p2 == PageAt(2)
           p5 == PageAt(5)
           L == {p2}
           S == {}
           T == {}
           o == PagesAt(0, 1)
<1>1. /\ CheckState /\ ~Booted /\ line > 1 /\ Statement = HeadsBlock("p0", 2, 3)
      /\ Row(L, S, T, 3, o, p5) /\ property[p5] = RegionPages - 5 /\ property[p2] = 3
      /\ stored.next = p5 /\ stored.prev = p5 /\ stored.nr_free = RegionPages - 5
      /\ local["p0"] = p0
  BY FirstFitStatements, NotBooted DEF CheckInv, AtFirstFit
<1>2. /\ p0 \in Region /\ p2 \in Region /\ p5 \in Region /\ p0 \in Int /\ p2 \in Int
      /\ p5 \in Int /\ p0 # p2 /\ p0 # p5 /\ p2 # p5
  BY PagesOfRegion DEF PageAt
<1>3. Seen(L, S, T, 3, o, p5)
  <2>1. local["p0"] + 2 = p2
    BY <1>1, PagesOfRegion DEF PageAt
  <2>2. p2 \in L \ T /\ property[p2] = 3
    BY <1>1, <1>2
  <2> QED
    BY <1>1, <2>1, <2>2 DEF Seen
<1>5. /\ CheckState' /\ UNCHANGED <<local, stored, pmm_manager, property>>
      /\ Row(L, S, T, 3, o, p5)' /\ line' = line + 1
  <2> HIDE DEF p0, p2, p5, L, S, T, o
  <2> QED
    BY <1>1, <1>3, LookLine
<1>6. AtFirstFit'
  BY <1>1, <1>2, <1>5 DEF AtFirstFit
<1> QED
  BY <1>1, <1>5, <1>6, LateFirstFit

\* default_check: p1 = alloc_pages(3), which is p0 + 2.
LEMMA FirstFit35 ==
  ASSUME Checkable, CheckInv, CheckNext, ~BestFit, line = 35
  PROVE  CheckInv'
<1> DEFINE p0 == PageAt(0)
           p2 == PageAt(2)
           p5 == PageAt(5)
           L == {p2}
           S == {}
           T == {}
           o == PagesAt(0, 1)
           L2 == {}
           S2 == {}
           o2 == PagesAt(0, 4)
<1>1. /\ CheckState /\ ~Booted /\ line > 1 /\ Statement = AllocAt("p1", 3, "p0", 2)
      /\ Row(L, S, T, 3, o, p5) /\ property[p5] = RegionPages - 5 /\ property[p2] = 3
      /\ stored.next = p5 /\ stored.prev = p5 /\ stored.nr_free = RegionPages - 5
      /\ local["p0"] = p0
  BY FirstFitStatements, NotBooted DEF CheckInv, AtFirstFit
<1>2. /\ p0 \in Region /\ p2 \in Region /\ p5 \in Region /\ p0 \in Int /\ p2 \in Int
      /\ p5 \in Int /\ p0 # p2 /\ p0 # p5 /\ p2 # p5 /\ 3 \in Nat
  BY PagesOfRegion DEF PageAt
<1>3. Served(L, S, T, 3, o, p5, p2, 3, free_list) /\ p2 \in L \ S
  BY <1>1, <1>2, PagesOfRegion, EntryTypes DEF Served, Alloc, AllocAt, Location, Preferred, Names, PageAt
<1>7. Statement.to = "p1"
  BY <1>1 DEF Alloc, AllocAt
<1>4. Shrinks(L, S, 3, o, p2, 3, free_list, L2, S2, 0, o2)
  BY <1>2, PagesOfRegion, EntryTypes DEF Shrinks, PagesAt, PageAt
<1>5. /\ CheckState' /\ UNCHANGED <<stored, pmm_manager, property>>
      /\ \/ line' = line /\ local' = local /\ Row(L, S, T, 3, o, p5)'
         \/ /\ line' = line + 1 /\ local'[Statement.to] = p2
            /\ \A z \in Names \ {Statement.to} : local'[z] = local[z]
            /\ Row(L2, S2, T, 0, o2, p5)'
  <2> HIDE DEF p0, p2, p5, L, S, T, o, L2, S2, o2
  <2> QED
    BY <1>1, <1>2, <1>3, <1>4, TakeLine
<1>6. AtFirstFit'
  BY <1>1, <1>2, <1>5, <1>7 DEF AtFirstFit, Names
<1> QED
  BY <1>1, <1>5, <1>6, LateFirstFit

\* default_check: assert(alloc_page() == NULL).
LEMMA FirstFit36 ==
  ASSUME Checkable, CheckInv, CheckNext, ~BestFit, line = 36
  PROVE  CheckInv'
<1> DEFINE p0 == PageAt(0)
           p2 == PageAt(2)
           p5 == PageAt(5)
           L == {}
           S == {}
           T == {}
           o == PagesAt(0, 4)
<1>1. /\ CheckState /\ ~Booted /\ line > 1 /\ Statement = AllocNone(1)
      /\ Row(L, S, T, 0, o, p5) /\ property[p5] = RegionPages - 5 /\ stored.next = p5
      /\ stored.prev = p5 /\ stored.nr_free = RegionPages - 5 /\ local["p0"] = p0
      /\ local["p1"] = p2
  BY FirstFitStatements, NotBooted DEF CheckInv, AtFirstFit
<1>2. /\ p0 \in Region /\ p2 \in Region /\ p5 \in Region /\ p0 \in Int /\ p2 \in Int
      /\ p5 \in Int /\ p0 # p2 /\ p0 # p5 /\ p2 # p5 /\ 0 \in Nat
  BY PagesOfRegion DEF PageAt
<1>3. Refused(L, S, T, 0, o, p5)
  BY <1>1, <1>2, PagesOfRegion DEF Refused
<1>5. /\ CheckState' /\ UNCHANGED <<stored, pmm_manager, property>>
      /\ \A z \in Names \ {"none"} : local'[z] = local[z]
      /\ Row(L, S, T, 0, o, p5)' /\ line' \in {line, line + 1}
  <2> HIDE DEF p0, p2, p5, L, S, T, o
  <2> QED
    BY <1>1, <1>2, <1>3, NullLine
<1>6. AtFirstFit'
  BY <1>1, <1>2, <1>5 DEF AtFirstFit, Names
<1> QED
  BY <1>1, <1>5, <1>6, LateFirstFit

\* default_check: free_page(p0).
LEMMA FirstFit38 ==
  ASSUME Checkable, CheckInv, CheckNext, ~BestFit, line = 38
  PROVE  CheckInv'
<1> DEFINE p0 == PageAt(0)
           p1 == PageAt(1)
           p2 == PageAt(2)
           p5 == PageAt(5)
           L == {}
           S == {}
           T == {}
           o == PagesAt(0, 4)
           L2 == {p0}
           S2 == {}
           o2 == PagesAt(1, 4)
<1>1. /\ CheckState /\ ~Booted /\ line > 1 /\ Statement = Free("p0", 0, 1)
      /\ Row(L, S, T, 0, o, p5) /\ property[p5] = RegionPages - 5 /\ stored.next = p5
      /\ stored.prev = p5 /\ stored.nr_free = RegionPages - 5 /\ local["p0"] = p0
      /\ local["p1"] = p2 /\ local["p2"] = p1
  BY FirstFitStatements, NotBooted DEF CheckInv, AtFirstFit
<1>2. /\ p0 \in Region /\ p1 \in Region /\ p2 \in Region /\ p5 \in Region /\ p0 \in Int
      /\ p1 \in Int /\ p2 \in Int /\ p5 \in Int /\ p0 # p1 /\ p0 # p2 /\ p0 # p5 /\ p1 # p2
      /\ p1 # p5 /\ p2 # p5 /\ 1 \in 1..RegionPages /\ T \in SUBSET L
  BY PagesOfRegion DEF PageAt
<1>3. Alone(L, S, T, 0, o, p5, p0, 1)
  BY <1>1, <1>2, PagesOfRegion DEF Alone, Free, Location, Topmost, PageAt
<1>4. Grows(L, S, 0, o, p0, 1, L2, S2, 1, o2)
  BY <1>2, PagesOfRegion DEF Grows, Backed, Topmost, PagesAt, PageAt
<1>5. /\ CheckState' /\ UNCHANGED <<local, stored, pmm_manager>>
      /\ \A p \in Region \ {p0} : property'[p] = property[p]
      /\ \/ line' = line /\ Row(L, S, T, 0, o, p5)' /\ pc' # "idle"
         \/ /\ line' = line + 1 /\ Row(L2, S2, T, 1, o2, p5)'
            /\ pc' = "idle" /\ property'[p0] = 1
  <2> HIDE DEF p0, p1, p2, p5, L, S, T, o, L2, S2, o2
  <2> QED
    BY <1>1, <1>2, <1>3, <1>4, FreeRow
<1>6. AtFirstFit'
  BY <1>1, <1>2, <1>5 DEF AtFirstFit
<1> QED
  BY <1>1, <1>5, <1>6, LateFirstFit

\* default_check: free_pages(p1, 3).
LEMMA FirstFit39 ==
  ASSUME Checkable, CheckInv, CheckNext, ~BestFit, line = 39
  PROVE  CheckInv'
<1> DEFINE p0 == PageAt(0)
           p1 == PageAt(1)
           p2 == PageAt(2)
           p5 == PageAt(5)
           L == {p0}
           S == {}
           T == {}
           o == PagesAt(1, 4)
           L2 == {p0, p2}
           S2 == {p2}
           o2 == PagesAt(1, 1)
<1>1. /\ CheckState /\ ~Booted /\ line > 1 /\ Statement = Free("p1", 0, 3)
      /\ Row(L, S, T, 1, o, p5) /\ property[p5] = RegionPages - 5 /\ property[p0] = 1
      /\ stored.next = p5 /\ stored.prev = p5 /\ stored.nr_free = RegionPages - 5
      /\ local["p0"] = p0 /\ local["p1"] = p2 /\ local["p2"] = p1
  BY FirstFitStatements, NotBooted DEF CheckInv, AtFirstFit
<1>2. /\ p0 \in Region /\ p1 \in Region /\ p2 \in Region /\ p5 \in Region /\ p0 \in Int
      /\ p1 \in Int /\ p2 \in Int /\ p5 \in Int /\ p0 # p1 /\ p0 # p2 /\ p0 # p5 /\ p1 # p2
      /\ p1 # p5 /\ p2 # p5 /\ 3 \in 1..RegionPages /\ T \in SUBSET L
  BY PagesOfRegion DEF PageAt
<1>3. Alone(L, S, T, 1, o, p5, p2, 3)
  BY <1>1, <1>2, PagesOfRegion DEF Alone, Free, Location, Topmost, PageAt
<1>4. Grows(L, S, 1, o, p2, 3, L2, S2, 4, o2)
  BY <1>2, PagesOfRegion DEF Grows, Backed, Topmost, PagesAt, PageAt
<1>5. /\ CheckState' /\ UNCHANGED <<local, stored, pmm_manager>>
      /\ \A p \in Region \ {p2} : property'[p] = property[p]
      /\ \/ line' = line /\ Row(L, S, T, 1, o, p5)' /\ pc' # "idle"
         \/ /\ line' = line + 1 /\ Row(L2, S2, T, 4, o2, p5)'
            /\ pc' = "idle" /\ property'[p2] = 3
  <2> HIDE DEF p0, p1, p2, p5, L, S, T, o, L2, S2, o2
  <2> QED
    BY <1>1, <1>2, <1>3, <1>4, FreeRow
<1>6. AtFirstFit'
  BY <1>1, <1>2, <1>5 DEF AtFirstFit
<1> QED
  BY <1>1, <1>5, <1>6, LateFirstFit

\* default_check: assert that p0 heads a block of 1.
LEMMA FirstFit40 ==
  ASSUME Checkable, CheckInv, CheckNext, ~BestFit, line = 40
  PROVE  CheckInv'
<1> DEFINE p0 == PageAt(0)
           p1 == PageAt(1)
           p2 == PageAt(2)
           p5 == PageAt(5)
           L == {p0, p2}
           S == {p2}
           T == {}
           o == PagesAt(1, 1)
<1>1. /\ CheckState /\ ~Booted /\ line > 1 /\ Statement = HeadsBlock("p0", 0, 1)
      /\ Row(L, S, T, 4, o, p5) /\ property[p5] = RegionPages - 5 /\ property[p2] = 3
      /\ property[p0] = 1 /\ stored.next = p5 /\ stored.prev = p5
      /\ stored.nr_free = RegionPages - 5 /\ local["p0"] = p0 /\ local["p1"] = p2
      /\ local["p2"] = p1
  BY FirstFitStatements, NotBooted DEF CheckInv, AtFirstFit
<1>2. /\ p0 \in Region /\ p1 \in Region /\ p2 \in Region /\ p5 \in Region /\ p0 \in Int
      /\ p1 \in Int /\ p2 \in Int /\ p5 \in Int /\ p0 # p1 /\ p0 # p2 /\ p0 # p5 /\ p1 # p2
      /\ p1 # p5 /\ p2 # p5
  BY PagesOfRegion DEF PageAt
<1>3. Seen(L, S, T, 4, o, p5)
  <2>1. local["p0"] + 0 = p0
    BY <1>1, PagesOfRegion DEF PageAt
  <2>2. p0 \in L \ T /\ property[p0] = 1
    BY <1>1, <1>2
  <2> QED
    BY <1>1, <2>1, <2>2 DEF Seen
<1>5. /\ CheckState' /\ UNCHANGED <<local, stored, pmm_manager, property>>
      /\ Row(L, S, T, 4, o, p5)' /\ line' = line + 1
  <2> HIDE DEF p0, p1, p2, p5, L, S, T, o
  <2> QED
    BY <1>1, <1>3, LookLine
<1>6. AtFirstFit'
  BY <1>1, <1>2, <1>5 DEF AtFirstFit
<1> QED
  BY <1>1, <1>5, <1>6, LateFirstFit

\* default_check: assert that p1 heads a block of 3.
LEMMA FirstFit41 ==
  ASSUME Checkable, CheckInv, CheckNext, ~BestFit, line = 41
  PROVE  CheckInv'
<1> DEFINE p0 == PageAt(0)
           p1 == PageAt(1)
           p2 == PageAt(2)
           p5 == PageAt(5)
           L == {p0, p2}
           S == {p2}
           T == {}
           o == PagesAt(1, 1)
<1>1. /\ CheckState /\ ~Booted /\ line > 1 /\ Statement = HeadsBlock("p1", 0, 3)
      /\ Row(L, S, T, 4, o, p5) /\ property[p5] = RegionPages - 5 /\ property[p2] = 3
      /\ property[p0] = 1 /\ stored.next = p5 /\ stored.prev = p5
      /\ stored.nr_free = RegionPages - 5 /\ local["p0"] = p0 /\ local["p1"] = p2
      /\ local["p2"] = p1
  BY FirstFitStatements, NotBooted DEF CheckInv, AtFirstFit
<1>2. /\ p0 \in Region /\ p1 \in Region /\ p2 \in Region /\ p5 \in Region /\ p0 \in Int
      /\ p1 \in Int /\ p2 \in Int /\ p5 \in Int /\ p0 # p1 /\ p0 # p2 /\ p0 # p5 /\ p1 # p2
      /\ p1 # p5 /\ p2 # p5
  BY PagesOfRegion DEF PageAt
<1>3. Seen(L, S, T, 4, o, p5)
  <2>1. local["p1"] + 0 = p2
    BY <1>1, PagesOfRegion DEF PageAt
  <2>2. p2 \in L \ T /\ property[p2] = 3
    BY <1>1, <1>2
  <2> QED
    BY <1>1, <2>1, <2>2 DEF Seen
<1>5. /\ CheckState' /\ UNCHANGED <<local, stored, pmm_manager, property>>
      /\ Row(L, S, T, 4, o, p5)' /\ line' = line + 1
  <2> HIDE DEF p0, p1, p2, p5, L, S, T, o
  <2> QED
    BY <1>1, <1>3, LookLine
<1>6. AtFirstFit'
  BY <1>1, <1>2, <1>5 DEF AtFirstFit
<1> QED
  BY <1>1, <1>5, <1>6, LateFirstFit

\* default_check: assert((p0 = alloc_page()) == p2 - 1).
LEMMA FirstFit42 ==
  ASSUME Checkable, CheckInv, CheckNext, ~BestFit, line = 42
  PROVE  CheckInv'
<1> DEFINE p0 == PageAt(0)
           p1 == PageAt(1)
           p2 == PageAt(2)
           p5 == PageAt(5)
           L == {p0, p2}
           S == {p2}
           T == {}
           o == PagesAt(1, 1)
           L2 == {p2}
           S2 == {}
           o2 == PagesAt(0, 1)
<1>1. /\ CheckState /\ ~Booted /\ line > 1 /\ Statement = AllocAt("p0", 1, "p2", -1)
      /\ Row(L, S, T, 4, o, p5) /\ property[p5] = RegionPages - 5 /\ property[p2] = 3
      /\ property[p0] = 1 /\ stored.next = p5 /\ stored.prev = p5
      /\ stored.nr_free = RegionPages - 5 /\ local["p0"] = p0 /\ local["p1"] = p2
      /\ local["p2"] = p1
  BY FirstFitStatements, NotBooted DEF CheckInv, AtFirstFit
<1>2. /\ p0 \in Region /\ p1 \in Region /\ p2 \in Region /\ p5 \in Region /\ p0 \in Int
      /\ p1 \in Int /\ p2 \in Int /\ p5 \in Int /\ p0 # p1 /\ p0 # p2 /\ p0 # p5 /\ p1 # p2
      /\ p1 # p5 /\ p2 # p5 /\ 4 \in Nat
  BY PagesOfRegion DEF PageAt
<1>3. Served(L, S, T, 4, o, p5, p0, 1, p2) /\ p0 \in L \ S
  BY <1>1, <1>2, PagesOfRegion, EntryTypes DEF Served, Alloc, AllocAt, Location, Preferred, Names, PageAt
<1>7. Statement.to = "p0"
  BY <1>1 DEF Alloc, AllocAt
<1>4. Shrinks(L, S, 4, o, p0, 1, p2, L2, S2, 3, o2)
  BY <1>2, PagesOfRegion, EntryTypes DEF Shrinks, PagesAt, PageAt
<1>5. /\ CheckState' /\ UNCHANGED <<stored, pmm_manager, property>>
      /\ \/ line' = line /\ local' = local /\ Row(L, S, T, 4, o, p5)'
         \/ /\ line' = line + 1 /\ local'[Statement.to] = p0
            /\ \A z \in Names \ {Statement.to} : local'[z] = local[z]
            /\ Row(L2, S2, T, 3, o2, p5)'
  <2> HIDE DEF p0, p1, p2, p5, L, S, T, o, L2, S2, o2
  <2> QED
    BY <1>1, <1>2, <1>3, <1>4, TakeLine
<1>6. AtFirstFit'
  BY <1>1, <1>2, <1>5, <1>7 DEF AtFirstFit, Names
<1> QED
  BY <1>1, <1>5, <1>6, LateFirstFit

\* default_check: free_page(p0).
LEMMA FirstFit43 ==
  ASSUME Checkable, CheckInv, CheckNext, ~BestFit, line = 43
  PROVE  CheckInv'
<1> DEFINE p0 == PageAt(0)
           p1 == PageAt(1)
           p2 == PageAt(2)
           p5 == PageAt(5)
           L == {p2}
           S == {}
           T == {}
           o == PagesAt(0, 1)
           L2 == {p0, p2}
           S2 == {}
           o2 == PagesAt(1, 1)
<1>1. /\ CheckState /\ ~Booted /\ line > 1 /\ Statement = Free("p0", 0, 1)
      /\ Row(L, S, T, 3, o, p5) /\ property[p5] = RegionPages - 5 /\ property[p2] = 3
      /\ stored.next = p5 /\ stored.prev = p5 /\ stored.nr_free = RegionPages - 5
      /\ local["p0"] = p0 /\ local["p1"] = p2 /\ local["p2"] = p1
  BY FirstFitStatements, NotBooted DEF CheckInv, AtFirstFit
<1>2. /\ p0 \in Region /\ p1 \in Region /\ p2 \in Region /\ p5 \in Region /\ p0 \in Int
      /\ p1 \in Int /\ p2 \in Int /\ p5 \in Int /\ p0 # p1 /\ p0 # p2 /\ p0 # p5 /\ p1 # p2
      /\ p1 # p5 /\ p2 # p5 /\ 1 \in 1..RegionPages /\ T \in SUBSET L
  BY PagesOfRegion DEF PageAt
<1>3. Alone(L, S, T, 3, o, p5, p0, 1)
  BY <1>1, <1>2, PagesOfRegion DEF Alone, Free, Location, Topmost, PageAt
<1>4. Grows(L, S, 3, o, p0, 1, L2, S2, 4, o2)
  BY <1>2, PagesOfRegion DEF Grows, Backed, Topmost, PagesAt, PageAt
<1>5. /\ CheckState' /\ UNCHANGED <<local, stored, pmm_manager>>
      /\ \A p \in Region \ {p0} : property'[p] = property[p]
      /\ \/ line' = line /\ Row(L, S, T, 3, o, p5)' /\ pc' # "idle"
         \/ /\ line' = line + 1 /\ Row(L2, S2, T, 4, o2, p5)'
            /\ pc' = "idle" /\ property'[p0] = 1
  <2> HIDE DEF p0, p1, p2, p5, L, S, T, o, L2, S2, o2
  <2> QED
    BY <1>1, <1>2, <1>3, <1>4, FreeRow
<1>6. AtFirstFit'
  BY <1>1, <1>2, <1>5 DEF AtFirstFit
<1> QED
  BY <1>1, <1>5, <1>6, LateFirstFit

\* default_check: p0 = alloc_pages(5).
LEMMA FirstFit47 ==
  ASSUME Checkable, CheckInv, CheckNext, ~BestFit, line = 47
  PROVE  CheckInv'
<1> DEFINE p0 == PageAt(0)
           p1 == PageAt(1)
           p2 == PageAt(2)
           p5 == PageAt(5)
           L == {p0}
           S == {}
           T == {}
           o == {}
           L2 == {}
           S2 == {}
           o2 == PagesAt(0, 4)
<1>1. /\ CheckState /\ ~Booted /\ line > 1 /\ Statement = Alloc("p0", 5)
      /\ Row(L, S, T, 5, o, p5) /\ property[p0] = 5 /\ property[p5] = RegionPages - 5
      /\ stored.next = p5 /\ stored.prev = p5 /\ stored.nr_free = RegionPages - 5
      /\ local["p0"] = p2 /\ local["p1"] = p2 /\ local["p2"] = p1
  BY FirstFitStatements, NotBooted DEF CheckInv, AtFirstFit
<1>2. /\ p0 \in Region /\ p1 \in Region /\ p2 \in Region /\ p5 \in Region /\ p0 \in Int
      /\ p1 \in Int /\ p2 \in Int /\ p5 \in Int /\ p0 # p1 /\ p0 # p2 /\ p0 # p5 /\ p1 # p2
      /\ p1 # p5 /\ p2 # p5 /\ 5 \in Nat
  BY PagesOfRegion DEF PageAt
<1>3. Served(L, S, T, 5, o, p5, p0, 5, free_list) /\ p0 \in L \ S
  BY <1>1, <1>2, PagesOfRegion, EntryTypes DEF Served, Alloc, AllocAt, Location, Preferred, Names, PageAt
<1>7. Statement.to = "p0"
  BY <1>1 DEF Alloc, AllocAt
<1>4. Shrinks(L, S, 5, o, p0, 5, free_list, L2, S2, 0, o2)
  BY <1>2, PagesOfRegion, EntryTypes DEF Shrinks, PagesAt, PageAt
<1>5. /\ CheckState' /\ UNCHANGED <<stored, pmm_manager, property>>
      /\ \/ line' = line /\ local' = local /\ Row(L, S, T, 5, o, p5)'
         \/ /\ line' = line + 1 /\ local'[Statement.to] = p0
            /\ \A z \in Names \ {Statement.to} : local'[z] = local[z]
            /\ Row(L2, S2, T, 0, o2, p5)'
  <2> HIDE DEF p0, p1, p2, p5, L, S, T, o, L2, S2, o2
  <2> QED
    BY <1>1, <1>2, <1>3, <1>4, TakeLine
<1>6. AtFirstFit'
  BY <1>1, <1>2, <1>5, <1>7 DEF AtFirstFit, Names
<1> QED
  BY <1>1, <1>5, <1>6, LateFirstFit

\* default_check: assert(alloc_page() == NULL).
LEMMA FirstFit48 ==
  ASSUME Checkable, CheckInv, CheckNext, ~BestFit, line = 48
  PROVE  CheckInv'
<1> DEFINE p0 == PageAt(0)
           p1 == PageAt(1)
           p2 == PageAt(2)
           p5 == PageAt(5)
           L == {}
           S == {}
           T == {}
           o == PagesAt(0, 4)
<1>1. /\ CheckState /\ ~Booted /\ line > 1 /\ Statement = AllocNone(1)
      /\ Row(L, S, T, 0, o, p5) /\ property[p5] = RegionPages - 5 /\ stored.next = p5
      /\ stored.prev = p5 /\ stored.nr_free = RegionPages - 5 /\ local["p0"] = p0
      /\ local["p1"] = p2 /\ local["p2"] = p1
  BY FirstFitStatements, NotBooted DEF CheckInv, AtFirstFit
<1>2. /\ p0 \in Region /\ p1 \in Region /\ p2 \in Region /\ p5 \in Region /\ p0 \in Int
      /\ p1 \in Int /\ p2 \in Int /\ p5 \in Int /\ p0 # p1 /\ p0 # p2 /\ p0 # p5 /\ p1 # p2
      /\ p1 # p5 /\ p2 # p5 /\ 0 \in Nat
  BY PagesOfRegion DEF PageAt
<1>3. Refused(L, S, T, 0, o, p5)
  BY <1>1, <1>2, PagesOfRegion DEF Refused
<1>5. /\ CheckState' /\ UNCHANGED <<stored, pmm_manager, property>>
      /\ \A z \in Names \ {"none"} : local'[z] = local[z]
      /\ Row(L, S, T, 0, o, p5)' /\ line' \in {line, line + 1}
  <2> HIDE DEF p0, p1, p2, p5, L, S, T, o
  <2> QED
    BY <1>1, <1>2, <1>3, NullLine
<1>6. AtFirstFit'
  BY <1>1, <1>2, <1>5 DEF AtFirstFit, Names
<1> QED
  BY <1>1, <1>5, <1>6, LateFirstFit

\* default_check: assert(nr_free == 0).
LEMMA FirstFit49 ==
  ASSUME Checkable, CheckInv, CheckNext, ~BestFit, line = 49
  PROVE  CheckInv'
<1> DEFINE p0 == PageAt(0)
           p1 == PageAt(1)
           p2 == PageAt(2)
           p5 == PageAt(5)
           L == {}
           S == {}
           T == {}
           o == PagesAt(0, 4)
<1>1. /\ CheckState /\ ~Booted /\ line > 1 /\ Statement = NrFreeIs(0)
      /\ Row(L, S, T, 0, o, p5) /\ property[p5] = RegionPages - 5 /\ stored.next = p5
      /\ stored.prev = p5 /\ stored.nr_free = RegionPages - 5 /\ local["p0"] = p0
      /\ local["p1"] = p2 /\ local["p2"] = p1
  BY FirstFitStatements, NotBooted DEF CheckInv, AtFirstFit
<1>2. /\ p0 \in Region /\ p1 \in Region /\ p2 \in Region /\ p5 \in Region /\ p0 \in Int
      /\ p1 \in Int /\ p2 \in Int /\ p5 \in Int /\ p0 # p1 /\ p0 # p2 /\ p0 # p5 /\ p1 # p2
      /\ p1 # p5 /\ p2 # p5
  BY PagesOfRegion DEF PageAt
<1>3. Seen(L, S, T, 0, o, p5)
  BY <1>1 DEF Seen
<1>5. /\ CheckState' /\ UNCHANGED <<local, stored, pmm_manager, property>>
      /\ Row(L, S, T, 0, o, p5)' /\ line' = line + 1
  <2> HIDE DEF p0, p1, p2, p5, L, S, T, o
  <2> QED
    BY <1>1, <1>3, LookLine
<1>6. AtFirstFit'
  BY <1>1, <1>2, <1>5 DEF AtFirstFit
<1> QED
  BY <1>1, <1>5, <1>6, LateFirstFit

\* best_fit_check: free_pages(p0 + 1, 2).
LEMMA BestFit32 ==
  ASSUME Checkable, CheckInv, CheckNext, BestFit, line = 32
  PROVE  CheckInv'
<1> DEFINE p0 == PageAt(0)
           p1 == PageAt(1)
           p5 == PageAt(5)
           L == {}
           S == {}
           T == {}
           o == PagesAt(0, 4)
           L2 == {p1}
           S2 == {}
           o2 == PagesAt(0, 0) \cup PagesAt(3, 4)
<1>1. /\ CheckState /\ ~Booted /\ line > 1 /\ Statement = Free("p0", 1, 2)
      /\ Row(L, S, T, 0, o, p5) /\ property[p5] = RegionPages - 5 /\ stored.next = p5
      /\ stored.prev = p5 /\ stored.nr_free = RegionPages - 5 /\ local["p0"] = p0
  BY BestFitStatements, NotBooted DEF CheckInv, AtBestFit
<1>2. /\ p0 \in Region /\ p1 \in Region /\ p5 \in Region /\ p0 \in Int /\ p1 \in Int
      /\ p5 \in Int /\ p0 # p1 /\ p0 # p5 /\ p1 # p5 /\ 2 \in 1..RegionPages
      /\ T \in SUBSET L
  BY PagesOfRegion DEF PageAt
<1>3. Alone(L, S, T, 0, o, p5, p1, 2)
  BY <1>1, <1>2, PagesOfRegion DEF Alone, Free, Location, Topmost, PageAt
<1>4. Grows(L, S, 0, o, p1, 2, L2, S2, 2, o2)
  BY <1>2, PagesOfRegion DEF Grows, Backed, Topmost, PagesAt, PageAt
<1>5. /\ CheckState' /\ UNCHANGED <<local, stored, pmm_manager>>
      /\ \A p \in Region \ {p1} : property'[p] = property[p]
      /\ \/ line' = line /\ Row(L, S, T, 0, o, p5)' /\ pc' # "idle"
         \/ /\ line' = line + 1 /\ Row(L2, S2, T, 2, o2, p5)'
            /\ pc' = "idle" /\ property'[p1] = 2
  <2> HIDE DEF p0, p1, p5, L, S, T, o, L2, S2, o2
  <2> QED
    BY <1>1, <1>2, <1>3, <1>4, FreeRow
<1>6. AtBestFit'
  BY <1>1, <1>2, <1>5 DEF AtBestFit
<1> QED
  BY <1>1, <1>5, <1>6, LateBestFit

\* best_fit_check: free_pages(p0 + 4, 1).
LEMMA BestFit33 ==
  ASSUME Checkable, CheckInv, CheckNext, BestFit, line = 33
  PROVE  CheckInv'
<1> DEFINE p0 == PageAt(0)
           p1 == PageAt(1)
           p4 == PageAt(4)
           p5 == PageAt(5)
           L == {p1}
           S == {}
           T == {}
           o == PagesAt(0, 0) \cup PagesAt(3, 4)
           L2 == {p1, p4}
           S2 == {p4}
           o2 == PagesAt(0, 0) \cup PagesAt(3, 3)
<1>1. /\ CheckState /\ ~Booted /\ line > 1 /\ Statement = Free("p0", 4, 1)
      /\ Row(L, S, T, 2, o, p5) /\ property[p5] = RegionPages - 5 /\ property[p1] = 2
      /\ stored.next = p5 /\ stored.prev = p5 /\ stored.nr_free = RegionPages - 5
      /\ local["p0"] = p0
  BY BestFitStatements, NotBooted DEF CheckInv, AtBestFit
<1>2. /\ p0 \in Region /\ p1 \in Region /\ p4 \in Region /\ p5 \in Region /\ p0 \in Int
      /\ p1 \in Int /\ p4 \in Int /\ p5 \in Int /\ p0 # p1 /\ p0 # p4 /\ p0 # p5 /\ p1 # p4
      /\ p1 # p5 /\ p4 # p5 /\ 1 \in 1..RegionPages /\ T \in SUBSET L
  BY PagesOfRegion DEF PageAt
<1>3. Alone(L, S, T, 2, o, p5, p4, 1)
  BY <1>1, <1>2, PagesOfRegion DEF Alone, Free, Location, Topmost, PageAt
<1>4. Grows(L, S, 2, o, p4, 1, L2, S2, 3, o2)
  BY <1>2, PagesOfRegion DEF Grows, Backed, Topmost, PagesAt, PageAt
<1>5. /\ CheckState' /\ UNCHANGED <<local, stored, pmm_manager>>
      /\ \A p \in Region \ {p4} : property'[p] = property[p]
      /\ \/ line' = line /\ Row(L, S, T, 2, o, p5)' /\ pc' # "idle"
         \/ /\ line' = line + 1 /\ Row(L2, S2, T, 3, o2, p5)'
            /\ pc' = "idle" /\ property'[p4] = 1
  <2> HIDE DEF p0, p1, p4, p5, L, S, T, o, L2, S2, o2
  <2> QED
    BY <1>1, <1>2, <1>3, <1>4, FreeRow
<1>6. AtBestFit'
  BY <1>1, <1>2, <1>5 DEF AtBestFit
<1> QED
  BY <1>1, <1>5, <1>6, LateBestFit

\* best_fit_check: assert(alloc_pages(4) == NULL).
LEMMA BestFit34 ==
  ASSUME Checkable, CheckInv, CheckNext, BestFit, line = 34
  PROVE  CheckInv'
<1> DEFINE p0 == PageAt(0)
           p1 == PageAt(1)
           p4 == PageAt(4)
           p5 == PageAt(5)
           L == {p1, p4}
           S == {p4}
           T == {}
           o == PagesAt(0, 0) \cup PagesAt(3, 3)
<1>1. /\ CheckState /\ ~Booted /\ line > 1 /\ Statement = AllocNone(4)
      /\ Row(L, S, T, 3, o, p5) /\ property[p5] = RegionPages - 5 /\ property[p1] = 2
      /\ property[p4] = 1 /\ stored.next = p5 /\ stored.prev = p5
      /\ stored.nr_free = RegionPages - 5 /\ local["p0"] = p0
  BY BestFitStatements, NotBooted DEF CheckInv, AtBestFit
<1>2. /\ p0 \in Region /\ p1 \in Region /\ p4 \in Region /\ p5 \in Region /\ p0 \in Int
      /\ p1 \in Int /\ p4 \in Int /\ p5 \in Int /\ p0 # p1 /\ p0 # p4 /\ p0 # p5 /\ p1 # p4
      /\ p1 # p5 /\ p4 # p5 /\ 3 \in Nat
  BY PagesOfRegion DEF PageAt
<1>3. Refused(L, S, T, 3, o, p5)
  BY <1>1, <1>2, PagesOfRegion DEF Refused
<1>5. /\ CheckState' /\ UNCHANGED <<stored, pmm_manager, property>>
      /\ \A z \in Names \ {"none"} : local'[z] = local[z]
      /\ Row(L, S, T, 3, o, p5)' /\ line' \in {line, line + 1}
  <2> HIDE DEF p0, p1, p4, p5, L, S, T, o
  <2> QED
    BY <1>1, <1>2, <1>3, NullLine
<1>6. AtBestFit'
  BY <1>1, <1>2, <1>5 DEF AtBestFit, Names
<1> QED
  BY <1>1, <1>5, <1>6, LateBestFit

\* best_fit_check: assert that p0 + 1 heads a block of 2.
LEMMA BestFit35 ==
  ASSUME Checkable, CheckInv, CheckNext, BestFit, line = 35
  PROVE  CheckInv'
<1> DEFINE p0 == PageAt(0)
           p1 == PageAt(1)
           p4 == PageAt(4)
           p5 == PageAt(5)
           L == {p1, p4}
           S == {p4}
           T == {}
           o == PagesAt(0, 0) \cup PagesAt(3, 3)
<1>1. /\ CheckState /\ ~Booted /\ line > 1 /\ Statement = HeadsBlock("p0", 1, 2)
      /\ Row(L, S, T, 3, o, p5) /\ property[p5] = RegionPages - 5 /\ property[p1] = 2
      /\ property[p4] = 1 /\ stored.next = p5 /\ stored.prev = p5
      /\ stored.nr_free = RegionPages - 5 /\ local["p0"] = p0
  BY BestFitStatements, NotBooted DEF CheckInv, AtBestFit
<1>2. /\ p0 \in Region /\ p1 \in Region /\ p4 \in Region /\ p5 \in Region /\ p0 \in Int
      /\ p1 \in Int /\ p4 \in Int /\ p5 \in Int /\ p0 # p1 /\ p0 # p4 /\ p0 # p5 /\ p1 # p4
      /\ p1 # p5 /\ p4 # p5
  BY PagesOfRegion DEF PageAt
<1>3. Seen(L, S, T, 3, o, p5)
  <2>1. local["p0"] + 1 = p1
    BY <1>1, PagesOfRegion DEF PageAt
  <2>2. p1 \in L \ T /\ property[p1] = 2
    BY <1>1, <1>2
  <2> QED
    BY <1>1, <2>1, <2>2 DEF Seen
<1>5. /\ CheckState' /\ UNCHANGED <<local, stored, pmm_manager, property>>
      /\ Row(L, S, T, 3, o, p5)' /\ line' = line + 1
  <2> HIDE DEF p0, p1, p4, p5, L, S, T, o
  <2> QED
    BY <1>1, <1>3, LookLine
<1>6. AtBestFit'
  BY <1>1, <1>2, <1>5 DEF AtBestFit
<1> QED
  BY <1>1, <1>5, <1>6, LateBestFit

\* best_fit_check: assert(alloc_pages(2) != NULL).
LEMMA BestFit37 ==
  ASSUME Checkable, CheckInv, CheckNext, BestFit, line = 37
  PROVE  CheckInv'
<1> DEFINE p0 == PageAt(0)
           p1 == PageAt(1)
           p4 == PageAt(4)
           p5 == PageAt(5)
           L == {p1, p4}
           S == {p4}
           T == {p4}
           o == PagesAt(0, 0) \cup PagesAt(3, 4)
           L2 == {p4}
           S2 == {}
           o2 == PagesAt(0, 4)
<1>1. /\ CheckState /\ ~Booted /\ line > 1 /\ Statement = Alloc("none", 2)
      /\ Row(L, S, T, 2, o, p5) /\ property[p5] = RegionPages - 5 /\ property[p1] = 2
      /\ property[p4] = 1 /\ stored.next = p5 /\ stored.prev = p5
      /\ stored.nr_free = RegionPages - 5 /\ local["p0"] = p0
  BY BestFitStatements, NotBooted DEF CheckInv, AtBestFit
<1>2. /\ p0 \in Region /\ p1 \in Region /\ p4 \in Region /\ p5 \in Region /\ p0 \in Int
      /\ p1 \in Int /\ p4 \in Int /\ p5 \in Int /\ p0 # p1 /\ p0 # p4 /\ p0 # p5 /\ p1 # p4
      /\ p1 # p5 /\ p4 # p5 /\ 2 \in Nat
  BY PagesOfRegion DEF PageAt
<1>3. Served(L, S, T, 2, o, p5, p1, 2, p4) /\ p1 \in L \ S
  BY <1>1, <1>2, PagesOfRegion, EntryTypes DEF Served, Alloc, AllocAt, Location, Preferred, Names, PageAt
<1>7. Statement.to = "none"
  BY <1>1 DEF Alloc, AllocAt
<1>4. Shrinks(L, S, 2, o, p1, 2, p4, L2, S2, 0, o2)
  BY <1>2, PagesOfRegion, EntryTypes DEF Shrinks, PagesAt, PageAt
<1>5. /\ CheckState' /\ UNCHANGED <<stored, pmm_manager, property>>
      /\ \/ line' = line /\ local' = local /\ Row(L, S, T, 2, o, p5)'
         \/ /\ line' = line + 1 /\ local'[Statement.to] = p1
            /\ \A z \in Names \ {Statement.to} : local'[z] = local[z]
            /\ Row(L2, S2, T, 0, o2, p5)'
  <2> HIDE DEF p0, p1, p4, p5, L, S, T, o, L2, S2, o2
  <2> QED
    BY <1>1, <1>2, <1>3, <1>4, TakeLine
<1>6. AtBestFit'
  BY <1>1, <1>2, <1>5, <1>7 DEF AtBestFit, Names
<1> QED
  BY <1>1, <1>5, <1>6, LateBestFit

\* best_fit_check: free_pages(p0, 5).
LEMMA BestFit39 ==
  ASSUME Checkable, CheckInv, CheckNext, BestFit, line = 39
  PROVE  CheckInv'
<1> DEFINE p0 == PageAt(0)
           p4 == PageAt(4)
           p5 == PageAt(5)
           L == {p4}
           S == {}
           T == {p4}
           o == PagesAt(0, 4)
           L2 == {p0, p4}
           S2 == {}
           o2 == {}
<1>1. /\ CheckState /\ ~Booted /\ line > 1 /\ Statement = Free("p0", 0, 5)
      /\ Row(L, S, T, 0, o, p5) /\ property[p5] = RegionPages - 5 /\ property[p4] = 1
      /\ stored.next = p5 /\ stored.prev = p5 /\ stored.nr_free = RegionPages - 5
      /\ local["p0"] = p0
  BY BestFitStatements, NotBooted DEF CheckInv, AtBestFit
<1>2. /\ p0 \in Region /\ p4 \in Region /\ p5 \in Region /\ p0 \in Int /\ p4 \in Int
      /\ p5 \in Int /\ p0 # p4 /\ p0 # p5 /\ p4 # p5 /\ 5 \in 1..RegionPages
      /\ T \in SUBSET L
  BY PagesOfRegion DEF PageAt
<1>3. Alone(L, S, T, 0, o, p5, p0, 5)
  BY <1>1, <1>2, PagesOfRegion DEF Alone, Free, Location, Topmost, PageAt
<1>4. Grows(L, S, 0, o, p0, 5, L2, S2, 5, o2)
  BY <1>2, PagesOfRegion DEF Grows, Backed, Topmost, PagesAt, PageAt
<1>5. /\ CheckState' /\ UNCHANGED <<local, stored, pmm_manager>>
      /\ \A p \in Region \ {p0} : property'[p] = property[p]
      /\ \/ line' = line /\ Row(L, S, T, 0, o, p5)' /\ pc' # "idle"
         \/ /\ line' = line + 1 /\ Row(L2, S2, T, 5, o2, p5)'
            /\ pc' = "idle" /\ property'[p0] = 5
  <2> HIDE DEF p0, p4, p5, L, S, T, o, L2, S2, o2
  <2> QED
    BY <1>1, <1>2, <1>3, <1>4, FreeRow
<1>6. AtBestFit'
  BY <1>1, <1>2, <1>5 DEF AtBestFit
<1> QED
  BY <1>1, <1>5, <1>6, LateBestFit

\* best_fit_check: p0 = alloc_pages(5).
LEMMA BestFit40 ==
  ASSUME Checkable, CheckInv, CheckNext, BestFit, line = 40
  PROVE  CheckInv'
<1> DEFINE p0 == PageAt(0)
           p4 == PageAt(4)
           p5 == PageAt(5)
           L == {p0, p4}
           S == {}
           T == {p4}
           o == {}
           L2 == {p4}
           S2 == {}
           o2 == PagesAt(0, 4)
<1>1. /\ CheckState /\ ~Booted /\ line > 1 /\ Statement = Alloc("p0", 5)
      /\ Row(L, S, T, 5, o, p5) /\ property[p0] = 5 /\ property[p5] = RegionPages - 5
      /\ property[p4] = 1 /\ stored.next = p5 /\ stored.prev = p5
      /\ stored.nr_free = RegionPages - 5 /\ local["p0"] = p0
  BY BestFitStatements, NotBooted DEF CheckInv, AtBestFit
<1>2. /\ p0 \in Region /\ p4 \in Region /\ p5 \in Region /\ p0 \in Int /\ p4 \in Int
      /\ p5 \in Int /\ p0 # p4 /\ p0 # p5 /\ p4 # p5 /\ 5 \in Nat
  BY PagesOfRegion DEF PageAt
<1>3. Served(L, S, T, 5, o, p5, p0, 5, p4) /\ p0 \in L \ S
  BY <1>1, <1>2, PagesOfRegion, EntryTypes DEF Served, Alloc, AllocAt, Location, Preferred, Names, PageAt
<1>7. Statement.to = "p0"
  BY <1>1 DEF Alloc, AllocAt
<1>4. Shrinks(L, S, 5, o, p0, 5, p4, L2, S2, 0, o2)
  BY <1>2, PagesOfRegion, EntryTypes DEF Shrinks, PagesAt, PageAt
<1>5. /\ CheckState' /\ UNCHANGED <<stored, pmm_manager, property>>
      /\ \/ line' = line /\ local' = local /\ Row(L, S, T, 5, o, p5)'
         \/ /\ line' = line + 1 /\ local'[Statement.to] = p0
            /\ \A z \in Names \ {Statement.to} : local'[z] = local[z]
            /\ Row(L2, S2, T, 0, o2, p5)'
  <2> HIDE DEF p0, p4, p5, L, S, T, o, L2, S2, o2
  <2> QED
    BY <1>1, <1>2, <1>3, <1>4, TakeLine
<1>6. AtBestFit'
  BY <1>1, <1>2, <1>5, <1>7 DEF AtBestFit, Names
<1> QED
  BY <1>1, <1>5, <1>6, LateBestFit

\* best_fit_check: assert(alloc_page() == NULL).
LEMMA BestFit41 ==
  ASSUME Checkable, CheckInv, CheckNext, BestFit, line = 41
  PROVE  CheckInv'
<1> DEFINE p0 == PageAt(0)
           p4 == PageAt(4)
           p5 == PageAt(5)
           L == {p4}
           S == {}
           T == {p4}
           o == PagesAt(0, 4)
<1>1. /\ CheckState /\ ~Booted /\ line > 1 /\ Statement = AllocNone(1)
      /\ Row(L, S, T, 0, o, p5) /\ property[p5] = RegionPages - 5 /\ property[p4] = 1
      /\ stored.next = p5 /\ stored.prev = p5 /\ stored.nr_free = RegionPages - 5
      /\ local["p0"] = p0
  BY BestFitStatements, NotBooted DEF CheckInv, AtBestFit
<1>2. /\ p0 \in Region /\ p4 \in Region /\ p5 \in Region /\ p0 \in Int /\ p4 \in Int
      /\ p5 \in Int /\ p0 # p4 /\ p0 # p5 /\ p4 # p5 /\ 0 \in Nat
  BY PagesOfRegion DEF PageAt
<1>3. Refused(L, S, T, 0, o, p5)
  BY <1>1, <1>2, PagesOfRegion DEF Refused
<1>5. /\ CheckState' /\ UNCHANGED <<stored, pmm_manager, property>>
      /\ \A z \in Names \ {"none"} : local'[z] = local[z]
      /\ Row(L, S, T, 0, o, p5)' /\ line' \in {line, line + 1}
  <2> HIDE DEF p0, p4, p5, L, S, T, o
  <2> QED
    BY <1>1, <1>2, <1>3, NullLine
<1>6. AtBestFit'
  BY <1>1, <1>2, <1>5 DEF AtBestFit, Names
<1> QED
  BY <1>1, <1>5, <1>6, LateBestFit

\* best_fit_check: assert(nr_free == 0).
LEMMA BestFit42 ==
  ASSUME Checkable, CheckInv, CheckNext, BestFit, line = 42
  PROVE  CheckInv'
<1> DEFINE p0 == PageAt(0)
           p4 == PageAt(4)
           p5 == PageAt(5)
           L == {p4}
           S == {}
           T == {p4}
           o == PagesAt(0, 4)
<1>1. /\ CheckState /\ ~Booted /\ line > 1 /\ Statement = NrFreeIs(0)
      /\ Row(L, S, T, 0, o, p5) /\ property[p5] = RegionPages - 5 /\ property[p4] = 1
      /\ stored.next = p5 /\ stored.prev = p5 /\ stored.nr_free = RegionPages - 5
      /\ local["p0"] = p0
  BY BestFitStatements, NotBooted DEF CheckInv, AtBestFit
<1>2. /\ p0 \in Region /\ p4 \in Region /\ p5 \in Region /\ p0 \in Int /\ p4 \in Int
      /\ p5 \in Int /\ p0 # p4 /\ p0 # p5 /\ p4 # p5
  BY PagesOfRegion DEF PageAt
<1>3. Seen(L, S, T, 0, o, p5)
  BY <1>1 DEF Seen
<1>5. /\ CheckState' /\ UNCHANGED <<local, stored, pmm_manager, property>>
      /\ Row(L, S, T, 0, o, p5)' /\ line' = line + 1
  <2> HIDE DEF p0, p4, p5, L, S, T, o
  <2> QED
    BY <1>1, <1>3, LookLine
<1>6. AtBestFit'
  BY <1>1, <1>2, <1>5 DEF AtBestFit
<1> QED
  BY <1>1, <1>5, <1>6, LateBestFit

-----------------------------------------------------------------------------
(* The statements that work on the whole list.                             *)

\* An alloc_pages of n pages, when the check holds the first k pages.
Granted(o, k, n, o2) ==
  /\ Open(o) /\ o = RegionBase .. (RegionBase + k - 1)
  /\ Statement.do = "alloc" /\ Statement.n = n /\ Statement.want = "page"
  /\ Statement.to \in Names
  /\ k \in Nat /\ n \in Nat \ {0} /\ k + n <= RegionPages
  /\ o2 = RegionBase .. (RegionBase + k + n - 1)

\* It gets the next n pages, since all that is free is one block.
LEMMA OpenTakeLine ==
  ASSUME CheckState, ~Booted, line > 1, CheckNext,
         NEW o, NEW k, NEW n, NEW o2, Granted(o, k, n, o2)
  PROVE  /\ CheckState' /\ UNCHANGED <<stored, pmm_manager>>
         /\ \/ line' = line /\ local' = local /\ Open(o)'
            \/ /\ line' = line + 1 /\ local'[Statement.to] = PageAt(k)
               /\ \A z \in Names \ {Statement.to} : local'[z] = local[z]
               /\ Open(o2)'
<1>1. /\ Open(o) /\ o = RegionBase .. (RegionBase + k - 1)
      /\ Statement.do = "alloc" /\ Statement.n = n /\ Statement.want = "page"
      /\ Statement.to \in Names
      /\ k \in Nat /\ n \in Nat \ {0} /\ k + n <= RegionPages
      /\ o2 = RegionBase .. (RegionBase + k + n - 1)
  BY DEF Granted
<1>2. (CallAlloc \/ CallStep) /\ UNCHANGED pmm_manager
  BY <1>1, StepsOfStatement
<1>3. n \in Nat \ {0} /\ k < RegionPages
  BY <1>1, RequestsAssumption, EntryTypes
<1>4. IInv /\ pc \in {"idle", "scan", "take", "null"} /\ owned = o
  BY <1>1 DEF Open
<1>5. PageProperty = {PageAt(k)} /\ property[PageAt(k)] = RegionPages - k /\ PageAt(k) \in Region
  BY <1>1, <1>3, <1>4, OneBlock
<1>6. ~\A p \in PageProperty : property[p] < Statement.n
  BY <1>1, <1>3, <1>5, EntryTypes
<1>7. \/ Open(o)' /\ UNCHANGED checkVars
      \/ /\ pc = "take" /\ page \in PageProperty
         /\ IInv' /\ pc' = "idle"
         /\ owned' = o \cup page .. (page + Statement.n - 1)
         /\ Ends(page)
  <2>1. Statement.do = "alloc" /\ Statement.n \in Nat \ {0} /\ Open(o)
    BY <1>1
  <2> QED
    BY <1>2, <1>6, <2>1, OpenAlloc
<1>8. CASE Open(o)' /\ UNCHANGED checkVars
  <2>1. CheckState'
    BY <1>2, <1>8, CheckStateStays
  <2> QED
    BY <1>2, <1>8, <2>1 DEF checkVars
<1>9. CASE /\ pc = "take" /\ page \in PageProperty
           /\ IInv' /\ pc' = "idle"
           /\ owned' = o \cup page .. (page + Statement.n - 1)
           /\ Ends(page)
  <2>1. page = PageAt(k) /\ page # NULL /\ page \in Int
    BY <1>5, <1>9, EntryTypes
  <2>2. owned' = o2
    BY <1>1, <1>3, <1>9, <2>1, EntryTypes DEF PageAt
  <2>3. /\ Assertion(TRUE) /\ local' = [local EXCEPT ![Statement.to] = page]
        /\ UNCHANGED <<stored, counted>>
    BY <1>1, <1>9, <2>1 DEF Ends
  <2>4. /\ local' \in [Names -> Int]
        /\ local'[Statement.to] = PageAt(k)
        /\ \A z \in Names \ {Statement.to} : local'[z] = local[z]
    BY <1>1, <2>1, <2>3 DEF CheckState
  <2>5. CheckState'
    BY <1>2, <2>3, <2>4, CheckStateGoesOn
  <2>6. Open(o2)'
    BY <1>9, <2>2 DEF Open
  <2> QED
    BY <1>2, <2>3, <2>4, <2>5, <2>6 DEF Assertion
<1> QED
  BY <1>7, <1>8, <1>9

\* A free_pages of m pages at x, when the check holds the pages of o.
Restored(o, x, m, o2) ==
  /\ Open(o) /\ Statement.do = "free" /\ Location = x /\ Statement.n = m
  /\ x \in Region /\ m \in Nat \ {0} /\ x .. (x + m - 1) \subseteq o
  /\ \E y \in Region \ o : x < y
  /\ o2 = o \ x .. (x + m - 1)

\* It gives them back, since there is a free page above them.
LEMMA OpenFreeLine ==
  ASSUME Checkable, CheckState, ~Booted, line > 1, CheckNext,
         NEW o, NEW x, NEW m, NEW o2, Restored(o, x, m, o2)
  PROVE  /\ CheckState' /\ UNCHANGED <<local, stored, pmm_manager>>
         /\ \/ line' = line /\ Open(o)'
            \/ line' = line + 1 /\ Open(o2)'
<1>1. /\ Open(o) /\ Statement.do = "free" /\ Location = x /\ Statement.n = m
      /\ x \in Region /\ m \in Nat \ {0} /\ x .. (x + m - 1) \subseteq o
      /\ o2 = o \ x .. (x + m - 1)
  BY DEF Restored
<1> PICK y \in Region \ o : x < y
  BY DEF Restored
<1>2. (CallFree \/ CallStep) /\ UNCHANGED pmm_manager
  BY <1>1, StepsOfStatement
<1>3. \/ Open(o)' /\ UNCHANGED checkVars
      \/ /\ IInv' /\ pc' = "idle" /\ owned' = o \ x .. (x + m - 1)
         /\ Assertion(TRUE) /\ UNCHANGED <<local, stored, counted>>
  BY <1>1, <1>2, OpenFree
<1>4. CASE Open(o)' /\ UNCHANGED checkVars
  <2>1. CheckState'
    BY <1>2, <1>4, CheckStateStays
  <2> QED
    BY <1>2, <1>4, <2>1 DEF checkVars
<1>5. CASE /\ IInv' /\ pc' = "idle" /\ owned' = o \ x .. (x + m - 1)
           /\ Assertion(TRUE) /\ UNCHANGED <<local, stored, counted>>
  <2>1. local' \in [Names -> Int]
    BY <1>5 DEF CheckState
  <2>2. CheckState'
    BY <1>2, <1>5, <2>1, CheckStateGoesOn
  <2>3. Open(o2)'
    BY <1>1, <1>5 DEF Open
  <2> QED
    BY <1>2, <1>5, <2>2, <2>3 DEF Assertion
<1> QED
  BY <1>3, <1>4, <1>5

\* basic_check: p0 = alloc_page().
LEMMA Line2 ==
  ASSUME Checkable, CheckInv, CheckNext, line = 2
  PROVE  CheckInv'
<1> DEFINE p0 == PageAt(0)
           o == {}
           o2 == PagesAt(0, 0)
<1>1. /\ CheckState /\ ~Booted /\ line > 1 /\ Statement = Alloc("p0", 1) /\ Open(o)
  BY FirstStatements, NotBooted DEF CheckInv, AtFirst
<1>2. Granted(o, 0, 1, o2)
  <2>1. /\ o = RegionBase .. (RegionBase + 0 - 1)
        /\ o2 = RegionBase .. (RegionBase + 0 + 1 - 1)
    BY PagesOfRegion DEF PagesAt, PageAt
  <2>2. 1 \in Nat \ {0} /\ 0 + 1 <= RegionPages /\ 0 \in Nat
    BY PagesOfRegion
  <2>3. /\ Statement.do = "alloc" /\ Statement.n = 1 /\ Statement.want = "page"
        /\ Statement.to \in Names
    BY <1>1 DEF Alloc, Names
  <2> QED
    BY <1>1, <2>1, <2>2, <2>3 DEF Granted
<1>3. /\ CheckState' /\ UNCHANGED <<stored, pmm_manager>>
      /\ \/ line' = line /\ local' = local /\ Open(o)'
         \/ /\ line' = line + 1 /\ local'[Statement.to] = PageAt(0)
            /\ \A z \in Names \ {Statement.to} : local'[z] = local[z]
            /\ Open(o2)'
  <2> HIDE DEF p0, o, o2
  <2> QED
    BY <1>1, <1>2, OpenTakeLine
<1>4. Statement.to = "p0"
  BY <1>1 DEF Alloc
<1>5. AtFirst'
  BY <1>1, <1>3, <1>4 DEF AtFirst, Names
<1> QED
  BY <1>1, <1>3, <1>5, Early

\* basic_check: p1 = alloc_page().
LEMMA Line3 ==
  ASSUME Checkable, CheckInv, CheckNext, line = 3
  PROVE  CheckInv'
<1> DEFINE p0 == PageAt(0)
           p1 == PageAt(1)
           o == PagesAt(0, 0)
           o2 == PagesAt(0, 1)
<1>1. /\ CheckState /\ ~Booted /\ line > 1 /\ Statement = Alloc("p1", 1) /\ Open(o)
      /\ local["p0"] = p0
  BY FirstStatements, NotBooted DEF CheckInv, AtFirst
<1>2. Granted(o, 1, 1, o2)
  <2>1. /\ o = RegionBase .. (RegionBase + 1 - 1)
        /\ o2 = RegionBase .. (RegionBase + 1 + 1 - 1)
    BY PagesOfRegion DEF PagesAt, PageAt
  <2>2. 1 \in Nat \ {0} /\ 1 + 1 <= RegionPages /\ 1 \in Nat
    BY PagesOfRegion
  <2>3. /\ Statement.do = "alloc" /\ Statement.n = 1 /\ Statement.want = "page"
        /\ Statement.to \in Names
    BY <1>1 DEF Alloc, Names
  <2> QED
    BY <1>1, <2>1, <2>2, <2>3 DEF Granted
<1>3. /\ CheckState' /\ UNCHANGED <<stored, pmm_manager>>
      /\ \/ line' = line /\ local' = local /\ Open(o)'
         \/ /\ line' = line + 1 /\ local'[Statement.to] = PageAt(1)
            /\ \A z \in Names \ {Statement.to} : local'[z] = local[z]
            /\ Open(o2)'
  <2> HIDE DEF p0, p1, o, o2
  <2> QED
    BY <1>1, <1>2, OpenTakeLine
<1>4. Statement.to = "p1"
  BY <1>1 DEF Alloc
<1>5. AtFirst'
  BY <1>1, <1>3, <1>4 DEF AtFirst, Names
<1> QED
  BY <1>1, <1>3, <1>5, Early

\* basic_check: p2 = alloc_page().
LEMMA Line4 ==
  ASSUME Checkable, CheckInv, CheckNext, line = 4
  PROVE  CheckInv'
<1> DEFINE p0 == PageAt(0)
           p1 == PageAt(1)
           p2 == PageAt(2)
           o == PagesAt(0, 1)
           o2 == PagesAt(0, 2)
<1>1. /\ CheckState /\ ~Booted /\ line > 1 /\ Statement = Alloc("p2", 1) /\ Open(o)
      /\ local["p0"] = p0 /\ local["p1"] = p1
  BY FirstStatements, NotBooted DEF CheckInv, AtFirst
<1>2. Granted(o, 2, 1, o2)
  <2>1. /\ o = RegionBase .. (RegionBase + 2 - 1)
        /\ o2 = RegionBase .. (RegionBase + 2 + 1 - 1)
    BY PagesOfRegion DEF PagesAt, PageAt
  <2>2. 1 \in Nat \ {0} /\ 2 + 1 <= RegionPages /\ 2 \in Nat
    BY PagesOfRegion
  <2>3. /\ Statement.do = "alloc" /\ Statement.n = 1 /\ Statement.want = "page"
        /\ Statement.to \in Names
    BY <1>1 DEF Alloc, Names
  <2> QED
    BY <1>1, <2>1, <2>2, <2>3 DEF Granted
<1>3. /\ CheckState' /\ UNCHANGED <<stored, pmm_manager>>
      /\ \/ line' = line /\ local' = local /\ Open(o)'
         \/ /\ line' = line + 1 /\ local'[Statement.to] = PageAt(2)
            /\ \A z \in Names \ {Statement.to} : local'[z] = local[z]
            /\ Open(o2)'
  <2> HIDE DEF p0, p1, p2, o, o2
  <2> QED
    BY <1>1, <1>2, OpenTakeLine
<1>4. Statement.to = "p2"
  BY <1>1 DEF Alloc
<1>5. AtFirst'
  BY <1>1, <1>3, <1>4 DEF AtFirst, Names
<1> QED
  BY <1>1, <1>3, <1>5, Early

\* basic_check: free_page(p).
LEMMA Line24 ==
  ASSUME Checkable, CheckInv, CheckNext, line = 24
  PROVE  CheckInv'
<1> DEFINE p0 == PageAt(0)
           p1 == PageAt(1)
           p2 == PageAt(2)
           o == PagesAt(0, 2)
           o2 == PagesAt(1, 2)
<1>1. /\ CheckState /\ ~Booted /\ line > 1 /\ Statement = Free("p", 0, 1) /\ Open(o)
      /\ local["p0"] = p0 /\ local["p1"] = p1 /\ local["p2"] = p2 /\ local["p"] = p0
  BY FirstStatements, NotBooted DEF CheckInv, AtFirst
<1>2. Restored(o, p0, 1, o2)
  <2>1. PageAt(5) \in Region \ o /\ p0 < PageAt(5)
    BY PagesOfRegion DEF PagesAt, PageAt
  <2>2. p0 .. (p0 + 1 - 1) \subseteq o /\ o2 = o \ p0 .. (p0 + 1 - 1)
    BY PagesOfRegion DEF PagesAt, PageAt
  <2>3. Statement.do = "free" /\ Location = p0 /\ Statement.n = 1
    BY <1>1, PagesOfRegion DEF Free, Location, PageAt
  <2>4. p0 \in Region /\ 1 \in Nat \ {0}
    BY PagesOfRegion
  <2> QED
    BY <1>1, <2>1, <2>2, <2>3, <2>4 DEF Restored
<1>3. /\ CheckState' /\ UNCHANGED <<local, stored, pmm_manager>>
      /\ \/ line' = line /\ Open(o)'
         \/ line' = line + 1 /\ Open(o2)'
  <2> HIDE DEF p0, p1, p2, o, o2
  <2> QED
    BY <1>1, <1>2, OpenFreeLine
<1>5. AtFirst'
  BY <1>1, <1>3 DEF AtFirst
<1> QED
  BY <1>1, <1>3, <1>5, Early

\* basic_check: free_page(p1).
LEMMA Line25 ==
  ASSUME Checkable, CheckInv, CheckNext, line = 25
  PROVE  CheckInv'
<1> DEFINE p0 == PageAt(0)
           p1 == PageAt(1)
           p2 == PageAt(2)
           o == PagesAt(1, 2)
           o2 == PagesAt(2, 2)
<1>1. /\ CheckState /\ ~Booted /\ line > 1 /\ Statement = Free("p1", 0, 1) /\ Open(o)
      /\ local["p0"] = p0 /\ local["p1"] = p1 /\ local["p2"] = p2 /\ local["p"] = p0
  BY FirstStatements, NotBooted DEF CheckInv, AtFirst
<1>2. Restored(o, p1, 1, o2)
  <2>1. PageAt(5) \in Region \ o /\ p1 < PageAt(5)
    BY PagesOfRegion DEF PagesAt, PageAt
  <2>2. p1 .. (p1 + 1 - 1) \subseteq o /\ o2 = o \ p1 .. (p1 + 1 - 1)
    BY PagesOfRegion DEF PagesAt, PageAt
  <2>3. Statement.do = "free" /\ Location = p1 /\ Statement.n = 1
    BY <1>1, PagesOfRegion DEF Free, Location, PageAt
  <2>4. p1 \in Region /\ 1 \in Nat \ {0}
    BY PagesOfRegion
  <2> QED
    BY <1>1, <2>1, <2>2, <2>3, <2>4 DEF Restored
<1>3. /\ CheckState' /\ UNCHANGED <<local, stored, pmm_manager>>
      /\ \/ line' = line /\ Open(o)'
         \/ line' = line + 1 /\ Open(o2)'
  <2> HIDE DEF p0, p1, p2, o, o2
  <2> QED
    BY <1>1, <1>2, OpenFreeLine
<1>5. AtFirst'
  BY <1>1, <1>3 DEF AtFirst
<1> QED
  BY <1>1, <1>3, <1>5, Early

\* basic_check: free_page(p2).
LEMMA Line26 ==
  ASSUME Checkable, CheckInv, CheckNext, line = 26
  PROVE  CheckInv'
<1> DEFINE p0 == PageAt(0)
           p1 == PageAt(1)
           p2 == PageAt(2)
           o == PagesAt(2, 2)
           o2 == {}
<1>1. /\ CheckState /\ ~Booted /\ line > 1 /\ Statement = Free("p2", 0, 1) /\ Open(o)
      /\ local["p0"] = p0 /\ local["p1"] = p1 /\ local["p2"] = p2 /\ local["p"] = p0
  BY FirstStatements, NotBooted DEF CheckInv, AtFirst
<1>2. Restored(o, p2, 1, o2)
  <2>1. PageAt(5) \in Region \ o /\ p2 < PageAt(5)
    BY PagesOfRegion DEF PagesAt, PageAt
  <2>2. p2 .. (p2 + 1 - 1) \subseteq o /\ o2 = o \ p2 .. (p2 + 1 - 1)
    BY PagesOfRegion DEF PagesAt, PageAt
  <2>3. Statement.do = "free" /\ Location = p2 /\ Statement.n = 1
    BY <1>1, PagesOfRegion DEF Free, Location, PageAt
  <2>4. p2 \in Region /\ 1 \in Nat \ {0}
    BY PagesOfRegion
  <2> QED
    BY <1>1, <2>1, <2>2, <2>3, <2>4 DEF Restored
<1>3. /\ CheckState' /\ UNCHANGED <<local, stored, pmm_manager>>
      /\ \/ line' = line /\ Open(o)'
         \/ line' = line + 1 /\ Open(o2)'
  <2> HIDE DEF p0, p1, p2, o, o2
  <2> QED
    BY <1>1, <1>2, OpenFreeLine
<1>5. AtFirst'
  BY <1>1, <1>3 DEF AtFirst
<1> QED
  BY <1>1, <1>3, <1>5, Early

\* both checks: p0 = alloc_pages(5).
LEMMA Line27 ==
  ASSUME Checkable, CheckInv, CheckNext, line = 27
  PROVE  CheckInv'
<1> DEFINE p0 == PageAt(0)
           p1 == PageAt(1)
           p2 == PageAt(2)
           o == {}
           o2 == PagesAt(0, 4)
<1>1. /\ CheckState /\ ~Booted /\ line > 1 /\ Statement = Alloc("p0", 5) /\ Open(o)
      /\ local["p0"] = p0 /\ local["p1"] = p1 /\ local["p2"] = p2 /\ local["p"] = p0
  BY FirstStatements, NotBooted DEF CheckInv, AtFirst
<1>2. Granted(o, 0, 5, o2)
  <2>1. /\ o = RegionBase .. (RegionBase + 0 - 1)
        /\ o2 = RegionBase .. (RegionBase + 0 + 5 - 1)
    BY PagesOfRegion DEF PagesAt, PageAt
  <2>2. 5 \in Nat \ {0} /\ 0 + 5 <= RegionPages /\ 0 \in Nat
    BY PagesOfRegion
  <2>3. /\ Statement.do = "alloc" /\ Statement.n = 5 /\ Statement.want = "page"
        /\ Statement.to \in Names
    BY <1>1 DEF Alloc, Names
  <2> QED
    BY <1>1, <2>1, <2>2, <2>3 DEF Granted
<1>3. /\ CheckState' /\ UNCHANGED <<stored, pmm_manager>>
      /\ \/ line' = line /\ local' = local /\ Open(o)'
         \/ /\ line' = line + 1 /\ local'[Statement.to] = PageAt(0)
            /\ \A z \in Names \ {Statement.to} : local'[z] = local[z]
            /\ Open(o2)'
  <2> HIDE DEF p0, p1, p2, o, o2
  <2> QED
    BY <1>1, <1>2, OpenTakeLine
<1>4. Statement.to = "p0"
  BY <1>1 DEF Alloc
<1>5. AtFirst'
  BY <1>1, <1>3, <1>4 DEF AtFirst, Names
<1> QED
  BY <1>1, <1>3, <1>5, Early

\* default_check: free_pages(p0, 5).
LEMMA FirstFit52 ==
  ASSUME Checkable, CheckInv, CheckNext, ~BestFit, line = 52
  PROVE  CheckInv'
<1> DEFINE p0 == PageAt(0)
           p1 == PageAt(1)
           p2 == PageAt(2)
           o == PagesAt(0, 4)
           o2 == {}
<1>1. /\ CheckState /\ ~Booted /\ line > 1 /\ Statement = Free("p0", 0, 5) /\ Open(o)
      /\ local["p0"] = p0 /\ local["p1"] = p2 /\ local["p2"] = p1
  BY FirstFitStatements, NotBooted DEF CheckInv, AtFirstFit
<1>2. Restored(o, p0, 5, o2)
  <2>1. PageAt(5) \in Region \ o /\ p0 < PageAt(5)
    BY PagesOfRegion DEF PagesAt, PageAt
  <2>2. p0 .. (p0 + 5 - 1) \subseteq o /\ o2 = o \ p0 .. (p0 + 5 - 1)
    BY PagesOfRegion DEF PagesAt, PageAt
  <2>3. Statement.do = "free" /\ Location = p0 /\ Statement.n = 5
    BY <1>1, PagesOfRegion DEF Free, Location, PageAt
  <2>4. p0 \in Region /\ 5 \in Nat \ {0}
    BY PagesOfRegion
  <2> QED
    BY <1>1, <2>1, <2>2, <2>3, <2>4 DEF Restored
<1>3. /\ CheckState' /\ UNCHANGED <<local, stored, pmm_manager>>
      /\ \/ line' = line /\ Open(o)'
         \/ line' = line + 1 /\ Open(o2)'
  <2> HIDE DEF p0, p1, p2, o, o2
  <2> QED
    BY <1>1, <1>2, OpenFreeLine
<1>5. AtFirstFit'
  BY <1>1, <1>3 DEF AtFirstFit
<1> QED
  BY <1>1, <1>3, <1>5, LateFirstFit

\* best_fit_check: free_pages(p0, 5).
LEMMA BestFit45 ==
  ASSUME Checkable, CheckInv, CheckNext, BestFit, line = 45
  PROVE  CheckInv'
<1> DEFINE p0 == PageAt(0)
           o == PagesAt(0, 4)
           o2 == {}
<1>1. /\ CheckState /\ ~Booted /\ line > 1 /\ Statement = Free("p0", 0, 5) /\ Open(o)
      /\ local["p0"] = p0
  BY BestFitStatements, NotBooted DEF CheckInv, AtBestFit
<1>2. Restored(o, p0, 5, o2)
  <2>1. PageAt(5) \in Region \ o /\ p0 < PageAt(5)
    BY PagesOfRegion DEF PagesAt, PageAt
  <2>2. p0 .. (p0 + 5 - 1) \subseteq o /\ o2 = o \ p0 .. (p0 + 5 - 1)
    BY PagesOfRegion DEF PagesAt, PageAt
  <2>3. Statement.do = "free" /\ Location = p0 /\ Statement.n = 5
    BY <1>1, PagesOfRegion DEF Free, Location, PageAt
  <2>4. p0 \in Region /\ 5 \in Nat \ {0}
    BY PagesOfRegion
  <2> QED
    BY <1>1, <2>1, <2>2, <2>3, <2>4 DEF Restored
<1>3. /\ CheckState' /\ UNCHANGED <<local, stored, pmm_manager>>
      /\ \/ line' = line /\ Open(o)'
         \/ line' = line + 1 /\ Open(o2)'
  <2> HIDE DEF p0, o, o2
  <2> QED
    BY <1>1, <1>2, OpenFreeLine
<1>5. AtBestFit'
  BY <1>1, <1>3 DEF AtBestFit
<1> QED
  BY <1>1, <1>3, <1>5, LateBestFit

\* The check's variables are in range when it has put something away.
LEMMA CheckStateStores ==
  ASSUME CheckState, ~Booted, line > 1, Assertion(TRUE), UNCHANGED <<local, counted>>,
         UNCHANGED pmm_manager, stored' \in [next : Int, prev : Int, nr_free : Int]
  PROVE  CheckState'
<1>1. Check' = Check /\ Len(Check) \in Nat
  BY Lengths DEF Check, BestFit
<1>2. line \in Nat /\ line' = line + 1 /\ line' \in 1 .. (Len(Check) + 1) /\ ~is_panic'
  <2>1. PICK n \in Nat : n = Len(Check)
    BY <1>1
  <2>2. line \in 1 .. (n + 1) /\ ~(line > n)
    BY <2>1 DEF CheckState, Booted
  <2>3. line' = line + 1 /\ ~is_panic'
    BY DEF Assertion
  <2> QED
    BY <2>1, <2>2, <2>3
<1> QED
  BY <1>1, <1>2 DEF CheckState

\* Between calls, with the whole list in place.
LEMMA OpenQuiet ==
  ASSUME NEW o, Open(o), CheckNext, ~Booted, Statement.do \notin {"alloc", "free"}
  PROVE  /\ IInv /\ Quiet /\ owned = o
         /\ UNCHANGED pmm_manager
         /\ \/ Look \/ Count
            \/ /\ StoreList \/ StoreNrFree \/ RestoreList \/ RestoreNrFree
               /\ UNCHANGED <<local, counted, property, PageProperty, pc, le, page, arg, owned>>
<1>1. IInv /\ pc = "idle" /\ owned = o
  BY DEF Open
<1>2. Quiet
  BY <1>1 DEF IInv, CallInv, Quiet
<1>3. ~CallStep
  BY <1>1, InCall DEF CallStep
<1> QED
  BY <1>1, <1>2, <1>3, StepsOfStatement

\* The list is set aside: the block behind the pages that are held goes with it.
Aside(o, k) ==
  Open(o) /\ Statement = Do("store_list") /\ k \in Nat /\ k < RegionPages
  /\ o = RegionBase .. (RegionBase + k - 1)

\* The list put away is the one block above the pages held.
LEMMA StoreListLine ==
  ASSUME CheckState, ~Booted, line > 1, CheckNext,
         NEW o, NEW k, Aside(o, k), NEW h, h = PageAt(k), NEW nr, nr = RegionPages - k
  PROVE  /\ CheckState' /\ UNCHANGED <<local, pmm_manager>>
         /\ line' = line + 1
         /\ stored'.next = h /\ stored'.prev = h
         /\ property'[h] = nr
         /\ Row({}, {}, {}, nr, o, h)'
<1>1. /\ Open(o) /\ Statement.do = "store_list" /\ k \in Nat /\ k < RegionPages
      /\ o = RegionBase .. (RegionBase + k - 1)
  BY DEF Aside, Do
<1>2. /\ IInv /\ Quiet /\ owned = o /\ UNCHANGED pmm_manager /\ StoreList
      /\ UNCHANGED <<local, counted, property, PageProperty, pc, le, page, arg, owned>>
  BY <1>1, OpenQuiet DEF Look, Count, StoreNrFree, RestoreList, RestoreNrFree, Executing
<1>3. PageProperty = {h} /\ property[h] = nr /\ nr_free = nr /\ h \in Region
  BY <1>1, <1>2, OneBlock DEF Quiet
<1>4. links \in ListMemory /\ Linked(links, {h})
  BY <1>2, <1>3 DEF IInv, LinksInv, OnList, Quiet, ListMemory
<1>5. /\ links.next[free_list] = h /\ links.prev[free_list] = h
      /\ links.next[h] = free_list /\ links.prev[h] = free_list
  <2>1. h > free_list /\ h # free_list /\ h \in Int /\ free_list \in Int
    BY <1>3, EntryTypes
  <2>2. /\ links.next[h] \in {h, free_list} /\ links.prev[links.next[h]] = h
        /\ links.next[h] # free_list => links.next[h] > h
        /\ links.next[free_list] \in {h, free_list} /\ links.prev[links.next[free_list]] = free_list
        /\ links.next[free_list] # free_list
    BY <1>4, <2>1 DEF Linked, list_next, list_prev
  <2> QED
    BY <2>1, <2>2
<1>6. /\ stored' = [stored EXCEPT !.next = h, !.prev = h]
      /\ links' = list_init(links, free_list)
      /\ Assertion(list_empty(links', free_list))
      /\ nr_free' = nr_free
  BY <1>2, <1>5 DEF StoreList
<1>7. /\ links' \in ListMemory
      /\ links'.next = [links.next EXCEPT ![free_list] = free_list]
      /\ links'.prev = [links.prev EXCEPT ![free_list] = free_list]
  BY <1>4, <1>6, EntryTypes DEF ListMemory, list_init
<1>8. /\ links'.next[free_list] = free_list
      /\ links'.next[h] = free_list /\ links'.prev[h] = free_list
  <2>1. h \in Entries /\ free_list \in Entries /\ h # free_list
    BY <1>3, EntryTypes DEF Entries
  <2> QED
    BY <1>4, <1>5, <1>7, <2>1 DEF ListMemory
<1>9. Chained(links', {}, {}, h)
  BY <1>3, <1>7, <1>8 DEF Chained
<1>10. Assertion(TRUE)
  BY <1>6, <1>8 DEF Assertion, list_empty
<1>11. stored' \in [next : Int, prev : Int, nr_free : Int] /\ stored'.next = h /\ stored'.prev = h
  <2>1. h \in Int
    BY <1>3, EntryTypes
  <2> QED
    BY <1>6, <2>1 DEF CheckState
<1>12. CheckState'
  BY <1>2, <1>10, <1>11, CheckStateStores
<1>13. Memory({}, {}, {}, nr, o, h)' /\ Quiet'
  <2>1. property \in [Region -> 0..RegionPages]
    BY <1>2 DEF IInv, BlocksInv
  <2> QED
    BY <1>2, <1>3, <1>6, <1>9, <2>1 DEF Memory, Quiet
<1>14. Row({}, {}, {}, nr, o, h)'
  BY <1>13, QuietRow
<1> QED
  BY <1>2, <1>3, <1>10, <1>11, <1>12, <1>14 DEF Assertion

\* nr_free is set aside, with no block on the list.
LEMMA StoreNrFreeLine ==
  ASSUME CheckState, ~Booted, line > 1, CheckNext, Statement = Do("store_nr_free"),
         NEW nr \in Nat, NEW o, NEW h, Row({}, {}, {}, nr, o, h)
  PROVE  /\ CheckState' /\ UNCHANGED <<local, pmm_manager, property>>
         /\ line' = line + 1
         /\ stored' = [stored EXCEPT !.nr_free = nr]
         /\ Row({}, {}, {}, 0, o, h)'
<1>1. Statement.do = "store_nr_free"
  BY DEF Do
<1>2. /\ Memory({}, {}, {}, nr, o, h) /\ Quiet /\ UNCHANGED pmm_manager /\ StoreNrFree
      /\ UNCHANGED <<local, counted, property, PageProperty, pc, le, page, arg, owned>>
  BY <1>1, NotInCall DEF Look, Count, StoreList, RestoreList, RestoreNrFree, Executing
<1>3. /\ stored' = [stored EXCEPT !.nr_free = nr] /\ nr_free' = 0 /\ links' = links
      /\ Assertion(TRUE)
  BY <1>2 DEF StoreNrFree, Memory
<1>4. stored' \in [next : Int, prev : Int, nr_free : Int]
  BY <1>3 DEF CheckState
<1>5. CheckState'
  BY <1>2, <1>3, <1>4, CheckStateStores
<1>6. Memory({}, {}, {}, 0, o, h)' /\ Quiet'
  BY <1>2, <1>3 DEF Memory, Quiet
<1>7. Row({}, {}, {}, 0, o, h)'
  BY <1>6, QuietRow
<1> QED
  BY <1>2, <1>3, <1>5, <1>7 DEF Assertion

\* nr_free is put back before the list.
LEMMA RestoreNrFreeLine ==
  ASSUME CheckState, ~Booted, line > 1, CheckNext, Statement = Do("restore_nr_free"),
         NEW L, NEW S, NEW T, NEW nr, NEW o, NEW h, Row(L, S, T, nr, o, h),
         NEW nr2, nr2 = stored.nr_free
  PROVE  /\ CheckState' /\ UNCHANGED <<local, stored, pmm_manager, property>>
         /\ line' = line + 1
         /\ Row(L, S, T, nr2, o, h)'
<1>1. Statement.do = "restore_nr_free"
  BY DEF Do
<1>2. /\ Memory(L, S, T, nr, o, h) /\ Quiet /\ UNCHANGED pmm_manager /\ RestoreNrFree
      /\ UNCHANGED <<local, counted, property, PageProperty, pc, le, page, arg, owned>>
  BY <1>1, NotInCall DEF Look, Count, StoreList, RestoreList, StoreNrFree, Executing
<1>3. /\ nr_free' = nr2 /\ UNCHANGED <<links, stored>> /\ Assertion(TRUE)
  BY <1>2 DEF RestoreNrFree
<1>4. CheckState'
  <2>1. local' \in [Names -> Int]
    BY <1>2 DEF CheckState
  <2> QED
    BY <1>2, <1>3, <2>1, CheckStateGoesOn
<1>5. Memory(L, S, T, nr2, o, h)' /\ Quiet'
  BY <1>2, <1>3 DEF Memory, Quiet
<1>6. Row(L, S, T, nr2, o, h)'
  BY <1>5, QuietRow
<1> QED
  BY <1>2, <1>3, <1>4, <1>6 DEF Assertion

\* The head is put back: the list is the one that was set aside.
LEMMA RestoreListLine ==
  ASSUME CheckState, ~Booted, line > 1, CheckNext, Statement = Do("restore_list"),
         NEW L, NEW S, NEW nr, NEW o, NEW h,
         Row(L, S, L, nr, o, h), stored.next = h, stored.prev = h
  PROVE  /\ CheckState' /\ UNCHANGED <<local, stored, pmm_manager, property>>
         /\ line' = line + 1
         /\ Quiet' /\ links' \in ListMemory /\ Linked(links', {h}) /\ h \in Region
         /\ property' \in [Region -> 0..RegionPages] /\ PageProperty' = {h}
         /\ nr_free' = nr /\ owned' = o
<1>1. Statement.do = "restore_list"
  BY DEF Do
<1>2. /\ Memory(L, S, L, nr, o, h) /\ Quiet /\ UNCHANGED pmm_manager /\ RestoreList
      /\ UNCHANGED <<local, counted, property, PageProperty, pc, le, page, arg, owned>>
  BY <1>1, NotInCall DEF Look, Count, StoreList, StoreNrFree, RestoreNrFree, Executing
<1>3. /\ links' = [links EXCEPT !.next[free_list] = h, !.prev[free_list] = h]
      /\ UNCHANGED <<nr_free, stored>> /\ Assertion(TRUE)
  BY <1>2 DEF RestoreList
<1>4. /\ links \in ListMemory /\ links.next[h] = free_list /\ links.prev[h] = free_list
      /\ h \in Region
  BY <1>2 DEF Memory, Chained
<1>5. h \in Entries /\ free_list \in Entries /\ h # free_list /\ h > free_list
      /\ h \in Int /\ free_list \in Int
  BY <1>4, EntryTypes DEF Entries
<1>6. /\ links' \in ListMemory
      /\ links'.next = [links.next EXCEPT ![free_list] = h]
      /\ links'.prev = [links.prev EXCEPT ![free_list] = h]
  BY <1>3, <1>4, <1>5 DEF ListMemory
<1>7. /\ links'.next[free_list] = h /\ links'.prev[free_list] = h
      /\ links'.next[h] = free_list /\ links'.prev[h] = free_list
  BY <1>4, <1>5, <1>6 DEF ListMemory
<1>8. Linked(links', {h})
  BY <1>5, <1>7 DEF Linked, list_next, list_prev
<1>9. CheckState'
  <2>1. local' \in [Names -> Int]
    BY <1>2 DEF CheckState
  <2> QED
    BY <1>2, <1>3, <2>1, CheckStateGoesOn
<1>10. Quiet'
  BY <1>2 DEF Quiet
<1> QED
  BY <1>2, <1>3, <1>4, <1>6, <1>8, <1>9, <1>10 DEF Assertion, Memory

\* With the list and nr_free back in place, the invariant of the manager holds
\* again.
LEMMA Reopen ==
  ASSUME NEW k \in Nat, k < RegionPages, NEW h, h = PageAt(k),
         Quiet', links' \in ListMemory, Linked(links', {h}),
         property' \in [Region -> 0..RegionPages], PageProperty' = {h},
         property'[h] = RegionPages - k, nr_free' = RegionPages - k,
         NEW o, o = RegionBase .. (RegionBase + k - 1), owned' = o,
         pmm_manager' \in Managers
  PROVE  Open(o)'
<1>1. /\ h \in Region /\ h \in Nat /\ RegionBase \in Nat /\ RegionPages \in Nat
      /\ h = RegionBase + k /\ RegionBase <= h
  BY EntryTypes DEF PageAt
<1>2. /\ Quiet' /\ pc' = "idle" /\ OnList' = {h}
  BY DEF Quiet, OnList
<1>3. LinksInv'
  BY <1>2 DEF LinksInv, ListMemory
<1> PICK e \in Int : e = RegionBase + RegionPages - 1
  BY <1>1
<1>4. o \subseteq Region /\ Region \ o = h .. e
  BY <1>1, EntryTypes
<1>5. Cardinality(Region \ o) = RegionPages - k
  <2>1. h \in Int /\ e \in Int /\ h <= e /\ e - h + 1 = RegionPages - k
    BY <1>1
  <2>2. Cardinality(h .. e) = e - h + 1
    <3> QED
      BY <2>1, FS_Interval
  <2>3. Cardinality(Region \ o) = Cardinality(h .. e)
    BY <1>4, Zenon
  <2> QED
    BY <2>1, <2>2, <2>3
<1>6. UNION {Pages(p)' : p \in {h}} = Region \ o
  <2>1. Pages(h)' = h .. (h + (RegionPages - k) - 1)
    BY DEF Pages
  <2> QED
    BY <1>1, <1>4, <2>1
<1>7. BlocksInv'
  <2>1. (PageProperty \subseteq Region /\ owned \subseteq Region)'
    BY <1>1, <1>4
  <2>2. (\A p \in PageProperty :
           property[p] > 0 /\ p + property[p] <= RegionBase + RegionPages)'
    BY <1>1
  <2>3. (\A p, q \in PageProperty : p < q => p + property[p] <= q)'
    BY <1>1
  <2>4. (UNION {Pages(p) : p \in PageProperty} = Region \ owned)'
    BY <1>6
  <2>5. (nr_free = Cardinality(Region \ owned))'
    BY <1>5
  <2> QED
    BY <2>1, <2>2, <2>3, <2>4, <2>5 DEF BlocksInv
<1>8. JoinInv'
  BY <1>1 DEF JoinInv
<1>9. CallInv'
  BY <1>2, EntryTypes DEF CallInv, Quiet, PCs
<1> QED
  BY <1>2, <1>3, <1>7, <1>8, <1>9 DEF Open, IInv

\* Statements that look at the manager while the whole list is in place.
LEMMA OpenStays ==
  ASSUME NEW o, Open(o), UNCHANGED vars, line' = line + 1, pc = "idle"
  PROVE  Open(o)'
BY DEF Open, vars, IInv, LinksInv, BlocksInv, JoinInv, CallInv, OnList, Linked, Pages, BestFit, Region

\* The list holds one block: the one behind the pages that are held.
LEMMA OneListed ==
  ASSUME NEW o, Open(o), pc = "idle", NEW k \in Nat, k < RegionPages,
         o = RegionBase .. (RegionBase + k - 1)
  PROVE  /\ PageAt(k) \in Region /\ Listed = {PageAt(k)} /\ PageProperty = {PageAt(k)}
         /\ Blocks = [count |-> 1, total |-> RegionPages - k] /\ nr_free = RegionPages - k
<1> DEFINE h == PageAt(k)
<1>1. IInv /\ owned = o
  BY DEF Open
<1>2. PageProperty = {h} /\ property[h] = RegionPages - k /\ nr_free = RegionPages - k /\ h \in Region
  BY <1>1, OneBlock
<1>3. Listed = {h}
  BY <1>1, <1>2, Lists DEF OnList
<1>4. Cardinality({h}) = 1
  BY FS_Singleton
<1>5. property[h] \in Nat
  BY <1>2, EntryTypes
<1> HIDE DEF h
<1>6. MapThenSumSet(LAMBDA p : property[p], {h}) = property[h]
  BY <1>2, <1>5, SumOfOne
<1>7. Blocks = [count |-> 1, total |-> RegionPages - k]
  BY <1>2, <1>3, <1>4, <1>6 DEF Blocks
<1> QED
  BY <1>2, <1>3, <1>7 DEF h

\* both checks: count the listed pages.
LEMMA Line1 ==
  ASSUME Checkable, CheckInv, CheckNext, line = 1
  PROVE  CheckInv'
<1>1. /\ CheckState /\ ~Booted /\ Statement = Do("count") /\ Open({})
  BY FirstStatements, NotBooted DEF CheckInv, AtFirst
<1>2. /\ IInv /\ Quiet /\ UNCHANGED pmm_manager /\ Count
  BY <1>1, OpenQuiet DEF Do, Look, StoreList, StoreNrFree, RestoreList, RestoreNrFree, Executing
<1>3. /\ UNCHANGED vars /\ UNCHANGED <<local, stored>> /\ counted' = Blocks
      /\ Assertion(Listed \subseteq PageProperty /\ Blocks.total = nr_free)
  BY <1>1, <1>2 DEF Count, Do, Executing
<1>4. /\ Listed = PageProperty /\ nr_free = RegionPages
      /\ Blocks = [count |-> 1, total |-> RegionPages]
  <2>1. {} = RegionBase .. (RegionBase + 0 - 1) /\ 0 < RegionPages /\ RegionPages - 0 = RegionPages
    BY PagesOfRegion
  <2> QED
    BY <1>1, <1>2, <2>1, OneListed DEF Quiet
<1>5. line' = 2 /\ ~is_panic'
  <2>1. Listed \subseteq PageProperty /\ Blocks.total = nr_free
    BY <1>4
  <2>2. is_panic' = FALSE /\ line' = line + 1
    BY <1>3, <2>1, Zenon DEF Assertion
  <2> QED
    BY <2>2
<1>6. CheckState'
  <2>1. (Len(Check) \in Nat /\ Len(Check) >= 46)'
    BY Lengths, PTL
  <2>2. 2 \in 1 .. (Len(Check) + 1)'
    BY <2>1
  <2> QED
    BY <1>1, <1>2, <1>3, <1>4, <1>5, <2>2 DEF CheckState
<1>7. Open({})'
  BY <1>1, <1>2, <1>3, <1>5, OpenStays DEF Quiet
<1>8. AtFirst'
  BY <1>5, <1>7 DEF AtFirst
<1> QED
  BY <1>5, <1>6, <1>8, Early

\* basic_check: assert that p0, p1, p2 differ.
LEMMA Line5 ==
  ASSUME Checkable, CheckInv, CheckNext, line = 5
  PROVE  CheckInv'
<1> DEFINE o == PagesAt(0, 2)
<1>1. /\ CheckState /\ ~Booted /\ line > 1 /\ Statement = Do("distinct") /\ Open(o)
      /\ local["p0"] = PageAt(0) /\ local["p1"] = PageAt(1) /\ local["p2"] = PageAt(2)
  BY FirstStatements, NotBooted DEF CheckInv, AtFirst
<1>2. /\ Quiet /\ UNCHANGED pmm_manager /\ Look
  BY <1>1, OpenQuiet DEF Do, Count, StoreList, StoreNrFree, RestoreList, RestoreNrFree, Executing
<1>3. /\ UNCHANGED <<vars, local, stored, counted>>
      /\ Assertion(Cardinality({local[x] : x \in {"p0", "p1", "p2"}}) = 3)
  BY <1>1, <1>2 DEF Look, Do, Executing
<1>4. Assertion(TRUE)
  <2>1. {local[x] : x \in {"p0", "p1", "p2"}} = PageAt(0) .. PageAt(2)
    <3>1. {local[x] : x \in {"p0", "p1", "p2"}} = {PageAt(0), PageAt(1), PageAt(2)}
      BY <1>1
    <3>2. {PageAt(0), PageAt(1), PageAt(2)} = PageAt(0) .. PageAt(2)
      BY PagesOfRegion DEF PageAt
    <3> QED
      BY <3>1, <3>2
  <2>2. Cardinality(PageAt(0) .. PageAt(2)) = 3
    <3>1. PageAt(0) \in Int /\ PageAt(2) \in Int /\ PageAt(0) <= PageAt(2) /\ PageAt(2) - PageAt(0) + 1 = 3
      BY PagesOfRegion DEF PageAt
    <3> QED
      BY <3>1, FS_Interval
  <2> QED
    BY <1>3, <2>1, <2>2 DEF Assertion
<1>5. CheckState' /\ line' = line + 1
  <2>1. local' \in [Names -> Int]
    BY <1>1, <1>3 DEF CheckState
  <2> QED
    BY <1>1, <1>2, <1>3, <1>4, <2>1, CheckStateGoesOn DEF Assertion
<1>6. Open(o)'
  BY <1>1, <1>2, <1>3, <1>5, OpenStays DEF Quiet
<1>7. AtFirst'
  BY <1>1, <1>3, <1>5, <1>6 DEF AtFirst
<1> QED
  BY <1>1, <1>5, <1>7, Early

\* basic_check: store free_list, list_init.
LEMMA Line6 ==
  ASSUME Checkable, CheckInv, CheckNext, line = 6
  PROVE  CheckInv'
<1> DEFINE o == PagesAt(0, 2)
           h == PageAt(3)
<1>1. /\ CheckState /\ ~Booted /\ line > 1 /\ Statement = Do("store_list") /\ Open(o)
      /\ local["p0"] = PageAt(0) /\ local["p1"] = PageAt(1) /\ local["p2"] = PageAt(2)
  BY FirstStatements, NotBooted DEF CheckInv, AtFirst
<1>2. Aside(o, 3)
  <2>1. o = RegionBase .. (RegionBase + 3 - 1) /\ 3 < RegionPages
    BY PagesOfRegion DEF PagesAt, PageAt
  <2> QED
    BY <1>1, <2>1 DEF Aside
<1>3. /\ CheckState' /\ UNCHANGED <<local, pmm_manager>>
      /\ line' = line + 1
      /\ stored'.next = h /\ stored'.prev = h
      /\ property'[h] = RegionPages - 3
      /\ Row({}, {}, {}, RegionPages - 3, o, h)'
  <2> HIDE DEF o, h
  <2>1. h = PageAt(3)
    BY DEF h
  <2> QED
    BY <1>1, <1>2, <2>1, StoreListLine
<1>4. AtFirst'
  BY <1>1, <1>3 DEF AtFirst
<1> QED
  BY <1>1, <1>3, <1>4, Early

\* basic_check: store nr_free, nr_free = 0.
LEMMA Line7 ==
  ASSUME Checkable, CheckInv, CheckNext, line = 7
  PROVE  CheckInv'
<1> DEFINE o == PagesAt(0, 2)
           h == PageAt(3)
<1>1. /\ CheckState /\ ~Booted /\ line > 1 /\ Statement = Do("store_nr_free")
      /\ Row({}, {}, {}, RegionPages - 3, o, h)
      /\ local["p0"] = PageAt(0) /\ local["p1"] = PageAt(1) /\ local["p2"] = PageAt(2)
      /\ property[h] = RegionPages - 3 /\ stored.next = h /\ stored.prev = h
  BY FirstStatements, NotBooted DEF CheckInv, AtFirst
<1>2. PICK nr \in Nat : nr = RegionPages - 3
  BY PagesOfRegion
<1>3. /\ CheckState' /\ UNCHANGED <<local, pmm_manager, property>>
      /\ line' = line + 1
      /\ stored' = [stored EXCEPT !.nr_free = nr]
      /\ Row({}, {}, {}, 0, o, h)'
  <2> HIDE DEF o, h
  <2> QED
    BY <1>1, <1>2, StoreNrFreeLine
<1>4. stored'.next = h /\ stored'.prev = h /\ stored'.nr_free = nr
  BY <1>1, <1>3 DEF CheckState
<1>5. AtFirst'
  BY <1>1, <1>2, <1>3, <1>4 DEF AtFirst
<1> QED
  BY <1>1, <1>3, <1>5, Early

\* basic_check: free_list = free_list_store.
LEMMA Line22 ==
  ASSUME Checkable, CheckInv, CheckNext, line = 22
  PROVE  CheckInv'
<1> DEFINE o == PagesAt(0, 2)
           h == PageAt(3)
<1>1. /\ CheckState /\ ~Booted /\ line > 1 /\ Statement = Do("restore_list")
      /\ Row({}, {}, {}, 0, o, h)
      /\ local["p0"] = PageAt(0) /\ local["p1"] = PageAt(1) /\ local["p2"] = PageAt(2)
      /\ local["p"] = PageAt(0)
      /\ property[h] = RegionPages - 3 /\ stored.next = h /\ stored.prev = h
      /\ stored.nr_free = RegionPages - 3
  BY FirstStatements, NotBooted DEF CheckInv, AtFirst
<1>2. /\ CheckState' /\ UNCHANGED <<local, stored, pmm_manager, property>>
      /\ line' = line + 1
      /\ Quiet' /\ links' \in ListMemory /\ Linked(links', {h})
      /\ property' \in [Region -> 0..RegionPages] /\ PageProperty' = {h}
      /\ nr_free' = 0 /\ owned' = o
  <2> HIDE DEF o, h
  <2> QED
    BY <1>1, RestoreListLine
<1>3. Relinked'
  BY <1>2 DEF Relinked
<1>4. AtFirst'
  BY <1>1, <1>2, <1>3 DEF AtFirst
<1> QED
  BY <1>1, <1>2, <1>4, Early

\* basic_check: nr_free = nr_free_store.
LEMMA Line23 ==
  ASSUME Checkable, CheckInv, CheckNext, line = 23
  PROVE  CheckInv'
<1> DEFINE o == PagesAt(0, 2)
           h == PageAt(3)
<1>1. /\ CheckState /\ ~Booted /\ line > 1 /\ Statement = Do("restore_nr_free")
      /\ Relinked
      /\ local["p0"] = PageAt(0) /\ local["p1"] = PageAt(1) /\ local["p2"] = PageAt(2)
      /\ local["p"] = PageAt(0)
      /\ property[h] = RegionPages - 3 /\ stored.nr_free = RegionPages - 3
  BY FirstStatements, NotBooted DEF CheckInv, AtFirst
<1>2. /\ RestoreNrFree /\ UNCHANGED pmm_manager
      /\ UNCHANGED <<local, counted, property, PageProperty, pc, le, page, arg, owned>>
  <2>1. ~CallStep
    BY <1>1, InCall DEF CallStep, Relinked, Quiet
  <2> QED
    BY <1>1, <2>1, StepsOfStatement DEF Do, Look, Count, StoreList, StoreNrFree, RestoreList, Executing
<1>3. nr_free' = RegionPages - 3 /\ UNCHANGED <<links, stored>> /\ Assertion(TRUE)
  BY <1>1, <1>2 DEF RestoreNrFree
<1>4. CheckState' /\ line' = line + 1
  <2>1. local' \in [Names -> Int]
    BY <1>1, <1>2 DEF CheckState
  <2> QED
    BY <1>1, <1>2, <1>3, <2>1, CheckStateGoesOn DEF Assertion
<1>5. Open(o)'
  <2>1. /\ Quiet' /\ links' \in ListMemory /\ Linked(links', {h})
        /\ property' \in [Region -> 0..RegionPages] /\ PageProperty' = {h}
        /\ property'[h] = RegionPages - 3 /\ nr_free' = RegionPages - 3 /\ owned' = o
    BY <1>1, <1>2, <1>3 DEF Relinked, Quiet
  <2>2. o = RegionBase .. (RegionBase + 3 - 1) /\ 3 \in Nat /\ 3 < RegionPages
    BY PagesOfRegion DEF PagesAt, PageAt
  <2>3. pmm_manager' \in Managers /\ h = PageAt(3)
    BY <1>1, <1>2 DEF CheckState
  <2> HIDE DEF o, h
  <2> QED
    BY <2>1, <2>2, <2>3, Reopen
<1>6. AtFirst'
  BY <1>1, <1>2, <1>3, <1>4, <1>5 DEF AtFirst
<1> QED
  BY <1>1, <1>4, <1>6, Early

\* both checks: assert(!PageProperty(p0)).
LEMMA Line28 ==
  ASSUME Checkable, CheckInv, CheckNext, line = 28
  PROVE  CheckInv'
<1> DEFINE o == PagesAt(0, 4)
<1>1. /\ CheckState /\ ~Booted /\ line > 1 /\ Statement = NotHead("p0") /\ Open(o)
      /\ local["p0"] = PageAt(0) /\ local["p1"] = PageAt(1) /\ local["p2"] = PageAt(2)
      /\ local["p"] = PageAt(0)
  BY FirstStatements, NotBooted DEF CheckInv, AtFirst
<1>2. /\ Quiet /\ UNCHANGED pmm_manager /\ Look
  BY <1>1, OpenQuiet DEF NotHead, Count, StoreList, StoreNrFree, RestoreList, RestoreNrFree, Executing
<1>3. /\ UNCHANGED <<vars, local, stored, counted>>
      /\ Assertion(local["p0"] \notin PageProperty)
  BY <1>1, <1>2 DEF Look, NotHead, Executing
<1>4. Assertion(TRUE)
  <2>1. o = RegionBase .. (RegionBase + 5 - 1) /\ 5 \in Nat /\ 5 < RegionPages
    BY PagesOfRegion DEF PagesAt, PageAt
  <2>2. PageProperty = {PageAt(5)}
    <3> HIDE DEF o
    <3> QED
      BY <1>1, <1>2, <2>1, OneListed DEF Quiet
  <2>3. local["p0"] \notin PageProperty
    BY <1>1, <2>2, PagesOfRegion DEF PageAt
  <2>4. is_panic' = FALSE /\ line' = line + 1
    BY <1>3, <2>3, Zenon DEF Assertion
  <2> QED
    BY <2>4 DEF Assertion
<1>5. CheckState' /\ line' = line + 1
  <2>1. local' \in [Names -> Int]
    BY <1>1, <1>3 DEF CheckState
  <2> QED
    BY <1>1, <1>2, <1>3, <1>4, <2>1, CheckStateGoesOn DEF Assertion
<1>6. Open(o)'
  BY <1>1, <1>2, <1>3, <1>5, OpenStays DEF Quiet
<1>7. AtFirst'
  BY <1>1, <1>3, <1>5, <1>6 DEF AtFirst
<1> QED
  BY <1>1, <1>5, <1>7, Early

\* both checks: store free_list, list_init.
LEMMA Line29 ==
  ASSUME Checkable, CheckInv, CheckNext, line = 29
  PROVE  CheckInv'
<1> DEFINE o == PagesAt(0, 4)
           h == PageAt(5)
<1>1. /\ CheckState /\ ~Booted /\ line > 1 /\ Statement = Do("store_list") /\ Open(o)
      /\ local["p0"] = PageAt(0) /\ local["p1"] = PageAt(1) /\ local["p2"] = PageAt(2)
      /\ local["p"] = PageAt(0)
  BY FirstStatements, NotBooted DEF CheckInv, AtFirst
<1>2. Aside(o, 5)
  <2>1. o = RegionBase .. (RegionBase + 5 - 1) /\ 5 < RegionPages
    BY PagesOfRegion DEF PagesAt, PageAt
  <2> QED
    BY <1>1, <2>1 DEF Aside
<1>3. /\ CheckState' /\ UNCHANGED <<local, pmm_manager>>
      /\ line' = line + 1
      /\ stored'.next = h /\ stored'.prev = h
      /\ property'[h] = RegionPages - 5
      /\ Row({}, {}, {}, RegionPages - 5, o, h)'
  <2> HIDE DEF o, h
  <2>1. h = PageAt(5)
    BY DEF h
  <2> QED
    BY <1>1, <1>2, <2>1, StoreListLine
<1>4. AtFirst'
  BY <1>1, <1>3 DEF AtFirst
<1> QED
  BY <1>1, <1>3, <1>4, Early

\* both checks: store nr_free, nr_free = 0.
LEMMA Line31 ==
  ASSUME Checkable, CheckInv, CheckNext, line = 31
  PROVE  CheckInv'
<1> DEFINE o == PagesAt(0, 4)
           h == PageAt(5)
<1>1. /\ CheckState /\ ~Booted /\ line > 1 /\ Statement = Do("store_nr_free")
      /\ Row({}, {}, {}, RegionPages - 5, o, h)
      /\ local["p0"] = PageAt(0)
      /\ property[h] = RegionPages - 5 /\ stored.next = h /\ stored.prev = h
  BY FirstStatements, NotBooted DEF CheckInv, AtFirst
<1>2. PICK nr \in Nat : nr = RegionPages - 5
  BY PagesOfRegion
<1>3. /\ CheckState' /\ UNCHANGED <<local, pmm_manager, property>>
      /\ line' = line + 1
      /\ stored' = [stored EXCEPT !.nr_free = nr]
      /\ Row({}, {}, {}, 0, o, h)'
  <2> HIDE DEF o, h
  <2> QED
    BY <1>1, <1>2, StoreNrFreeLine
<1>4. stored'.next = h /\ stored'.prev = h /\ stored'.nr_free = nr
  BY <1>1, <1>3 DEF CheckState
<1>5. AtFirstFit' /\ AtBestFit'
  BY <1>1, <1>2, <1>3, <1>4 DEF AtFirstFit, AtBestFit
<1> QED
  BY <1>1, <1>3, <1>5, LateFirstFit, LateBestFit

\* A page variable is set to the page after the one in another.
LEMMA LetLine ==
  ASSUME CheckState, ~Booted, line > 1, CheckNext, Statement = Let("p2", "p0", 1),
         NEW L, NEW S, NEW T, NEW nr, NEW o, NEW h, Row(L, S, T, nr, o, h)
  PROVE  /\ CheckState' /\ UNCHANGED <<stored, pmm_manager, property>>
         /\ local'["p2"] = local["p0"] + 1
         /\ local'["p0"] = local["p0"] /\ local'["p1"] = local["p1"]
         /\ line' = line + 1
         /\ Row(L, S, T, nr, o, h)'
<1>1. Statement.do = "let" /\ Statement.to = "p2" /\ Location = local["p0"] + 1
  BY DEF Let, Location
<1>2. Memory(L, S, T, nr, o, h) /\ Quiet /\ UNCHANGED pmm_manager /\ Look
  BY <1>1, NotInCall DEF Count, StoreList, StoreNrFree, RestoreList, RestoreNrFree, Executing
<1>3. /\ UNCHANGED <<vars, stored, counted>> /\ Assertion(TRUE)
      /\ local' = [local EXCEPT !["p2"] = local["p0"] + 1]
  BY <1>1, <1>2 DEF Look, Executing
<1>4. /\ local' \in [Names -> Int] /\ local'["p2"] = local["p0"] + 1
      /\ local'["p0"] = local["p0"] /\ local'["p1"] = local["p1"]
  BY <1>3 DEF CheckState, Names
<1>5. CheckState'
  BY <1>2, <1>3, <1>4, CheckStateGoesOn
<1>6. Memory(L, S, T, nr, o, h)' /\ Quiet'
  BY <1>2, <1>3 DEF Memory, Quiet, vars
<1>7. Row(L, S, T, nr, o, h)'
  BY <1>6, QuietRow
<1> QED
  BY <1>2, <1>3, <1>4, <1>5, <1>7 DEF Assertion, vars

\* default_check: p2 = p0 + 1.
LEMMA FirstFit37 ==
  ASSUME Checkable, CheckInv, CheckNext, ~BestFit, line = 37
  PROVE  CheckInv'
<1> DEFINE L == {}
           S == {}
           T == {}
           o == PagesAt(0, 4)
           h == PageAt(5)
<1>1. /\ CheckState /\ ~Booted /\ line > 1 /\ Statement = Let("p2", "p0", 1)
      /\ Row(L, S, T, 0, o, h) /\ property[h] = RegionPages - 5
      /\ stored.next = h /\ stored.prev = h /\ stored.nr_free = RegionPages - 5
      /\ local["p0"] = PageAt(0) /\ local["p1"] = PageAt(2)
  BY FirstFitStatements, NotBooted DEF CheckInv, AtFirstFit
<1>2. /\ CheckState' /\ UNCHANGED <<stored, pmm_manager, property>>
      /\ local'["p2"] = local["p0"] + 1
      /\ local'["p0"] = local["p0"] /\ local'["p1"] = local["p1"]
      /\ line' = line + 1
      /\ Row(L, S, T, 0, o, h)'
  <2> HIDE DEF L, S, T, o, h
  <2> QED
    BY <1>1, LetLine
<1>3. local["p0"] + 1 = PageAt(1)
  BY <1>1, PagesOfRegion DEF PageAt
<1>4. AtFirstFit'
  BY <1>1, <1>2, <1>3 DEF AtFirstFit
<1> QED
  BY <1>1, <1>2, <1>4, LateFirstFit

\* best_fit_check: p2 = p0 + 1.
LEMMA BestFit38 ==
  ASSUME Checkable, CheckInv, CheckNext, BestFit, line = 38
  PROVE  CheckInv'
<1> DEFINE L == {PageAt(4)}
           S == {}
           T == {PageAt(4)}
           o == PagesAt(0, 4)
           h == PageAt(5)
<1>1. /\ CheckState /\ ~Booted /\ line > 1 /\ Statement = Let("p2", "p0", 1)
      /\ Row(L, S, T, 0, o, h) /\ property[h] = RegionPages - 5
      /\ stored.next = h /\ stored.prev = h /\ stored.nr_free = RegionPages - 5
      /\ local["p0"] = PageAt(0) /\ property[PageAt(4)] = 1
  BY BestFitStatements, NotBooted DEF CheckInv, AtBestFit
<1>2. /\ CheckState' /\ UNCHANGED <<stored, pmm_manager, property>>
      /\ local'["p2"] = local["p0"] + 1
      /\ local'["p0"] = local["p0"] /\ local'["p1"] = local["p1"]
      /\ line' = line + 1
      /\ Row(L, S, T, 0, o, h)'
  <2> HIDE DEF L, S, T, o, h
  <2> QED
    BY <1>1, LetLine
<1>3. local["p0"] + 1 = PageAt(1)
  BY <1>1, PagesOfRegion DEF PageAt
<1>4. AtBestFit'
  BY <1>1, <1>2, <1>3 DEF AtBestFit
<1> QED
  BY <1>1, <1>2, <1>4, LateBestFit

\* default_check: nr_free = nr_free_store.
LEMMA FirstFit50 ==
  ASSUME Checkable, CheckInv, CheckNext, ~BestFit, line = 50
  PROVE  CheckInv'
<1> DEFINE L == {}
           S == {}
           T == {}
           o == PagesAt(0, 4)
           h == PageAt(5)
<1>1. /\ CheckState /\ ~Booted /\ line > 1 /\ Statement = Do("restore_nr_free")
      /\ Row(L, S, T, 0, o, h) /\ property[h] = RegionPages - 5
      /\ stored.next = h /\ stored.prev = h /\ stored.nr_free = RegionPages - 5
      /\ local["p0"] = PageAt(0) /\ local["p1"] = PageAt(2) /\ local["p2"] = PageAt(1)
  BY FirstFitStatements, NotBooted DEF CheckInv, AtFirstFit
<1>2. PICK nr \in Int : nr = stored.nr_free /\ nr = RegionPages - 5
  BY <1>1, PagesOfRegion
<1>3. /\ CheckState' /\ UNCHANGED <<local, stored, pmm_manager, property>>
      /\ line' = line + 1
      /\ Row(L, S, T, nr, o, h)'
  <2> HIDE DEF L, S, T, o, h
  <2> QED
    BY <1>1, <1>2, RestoreNrFreeLine
<1>4. AtFirstFit'
  BY <1>1, <1>2, <1>3 DEF AtFirstFit
<1> QED
  BY <1>1, <1>3, <1>4, LateFirstFit

\* default_check: free_list = free_list_store.
LEMMA FirstFit51 ==
  ASSUME Checkable, CheckInv, CheckNext, ~BestFit, line = 51
  PROVE  CheckInv'
<1> DEFINE L == {}
           S == {}
           T == {}
           o == PagesAt(0, 4)
           h == PageAt(5)
<1>1. /\ CheckState /\ ~Booted /\ line > 1 /\ Statement = Do("restore_list")
      /\ Row(L, S, T, RegionPages - 5, o, h) /\ property[h] = RegionPages - 5
      /\ stored.next = h /\ stored.prev = h
      /\ local["p0"] = PageAt(0) /\ local["p1"] = PageAt(2) /\ local["p2"] = PageAt(1)
  BY FirstFitStatements, NotBooted DEF CheckInv, AtFirstFit
<1>2. PICK nr \in Int : nr = RegionPages - 5
  BY PagesOfRegion
<1>3. Row(L, S, L, nr, o, h)
  BY <1>1, <1>2
<1>4. /\ CheckState' /\ UNCHANGED <<local, stored, pmm_manager, property>>
      /\ line' = line + 1
      /\ Quiet' /\ links' \in ListMemory /\ Linked(links', {h})
      /\ property' \in [Region -> 0..RegionPages] /\ PageProperty' = {h}
      /\ nr_free' = nr /\ owned' = o
  <2> HIDE DEF L, S, T, o, h
  <2> QED
    BY <1>1, <1>3, RestoreListLine
<1>5. Open(o)'
  <2>1. /\ property'[h] = RegionPages - 5 /\ nr_free' = RegionPages - 5
        /\ pmm_manager' \in Managers /\ h = PageAt(5)
    BY <1>1, <1>2, <1>4 DEF CheckState
  <2>2. o = RegionBase .. (RegionBase + 5 - 1) /\ 5 \in Nat /\ 5 < RegionPages
    BY PagesOfRegion DEF PagesAt, PageAt
  <2> HIDE DEF o, h
  <2> QED
    BY <1>4, <2>1, <2>2, Reopen
<1>6. AtFirstFit'
  BY <1>1, <1>4, <1>5 DEF AtFirstFit
<1> QED
  BY <1>1, <1>4, <1>6, LateFirstFit

\* best_fit_check: nr_free = nr_free_store.
LEMMA BestFit43 ==
  ASSUME Checkable, CheckInv, CheckNext, BestFit, line = 43
  PROVE  CheckInv'
<1> DEFINE L == {PageAt(4)}
           S == {}
           T == {PageAt(4)}
           o == PagesAt(0, 4)
           h == PageAt(5)
<1>1. /\ CheckState /\ ~Booted /\ line > 1 /\ Statement = Do("restore_nr_free")
      /\ Row(L, S, T, 0, o, h) /\ property[h] = RegionPages - 5 /\ property[PageAt(4)] = 1
      /\ stored.next = h /\ stored.prev = h /\ stored.nr_free = RegionPages - 5
      /\ local["p0"] = PageAt(0)
  BY BestFitStatements, NotBooted DEF CheckInv, AtBestFit
<1>2. PICK nr \in Int : nr = stored.nr_free /\ nr = RegionPages - 5
  BY <1>1, PagesOfRegion
<1>3. /\ CheckState' /\ UNCHANGED <<local, stored, pmm_manager, property>>
      /\ line' = line + 1
      /\ Row(L, S, T, nr, o, h)'
  <2> HIDE DEF L, S, T, o, h
  <2> QED
    BY <1>1, <1>2, RestoreNrFreeLine
<1>4. AtBestFit'
  BY <1>1, <1>2, <1>3 DEF AtBestFit
<1> QED
  BY <1>1, <1>3, <1>4, LateBestFit

\* best_fit_check: free_list = free_list_store.
LEMMA BestFit44 ==
  ASSUME Checkable, CheckInv, CheckNext, BestFit, line = 44
  PROVE  CheckInv'
<1> DEFINE L == {PageAt(4)}
           S == {}
           T == {PageAt(4)}
           o == PagesAt(0, 4)
           h == PageAt(5)
<1>1. /\ CheckState /\ ~Booted /\ line > 1 /\ Statement = Do("restore_list")
      /\ Row(L, S, T, RegionPages - 5, o, h) /\ property[h] = RegionPages - 5
      /\ stored.next = h /\ stored.prev = h
      /\ local["p0"] = PageAt(0)
  BY BestFitStatements, NotBooted DEF CheckInv, AtBestFit
<1>2. PICK nr \in Int : nr = RegionPages - 5
  BY PagesOfRegion
<1>3. Row(L, S, L, nr, o, h)
  BY <1>1, <1>2
<1>4. /\ CheckState' /\ UNCHANGED <<local, stored, pmm_manager, property>>
      /\ line' = line + 1
      /\ Quiet' /\ links' \in ListMemory /\ Linked(links', {h})
      /\ property' \in [Region -> 0..RegionPages] /\ PageProperty' = {h}
      /\ nr_free' = nr /\ owned' = o
  <2> HIDE DEF L, S, T, o, h
  <2> QED
    BY <1>1, <1>3, RestoreListLine
<1>5. Open(o)'
  <2>1. /\ property'[h] = RegionPages - 5 /\ nr_free' = RegionPages - 5
        /\ pmm_manager' \in Managers /\ h = PageAt(5)
    BY <1>1, <1>2, <1>4 DEF CheckState
  <2>2. o = RegionBase .. (RegionBase + 5 - 1) /\ 5 \in Nat /\ 5 < RegionPages
    BY PagesOfRegion DEF PagesAt, PageAt
  <2> HIDE DEF o, h
  <2> QED
    BY <1>4, <2>1, <2>2, Reopen
<1>6. AtBestFit'
  BY <1>1, <1>4, <1>5 DEF AtBestFit
<1> QED
  BY <1>1, <1>4, <1>6, LateBestFit

\* The list is counted again: the same one block is found.
Recounted ==
  CheckState /\ ~Booted /\ line > 1 /\ Statement = Do("recount") /\ Open({})
  /\ counted = [count |-> 1, total |-> RegionPages]

\* Counting again finds the one block there was at first.
LEMMA RecountLine ==
  ASSUME Checkable, CheckNext, Recounted
  PROVE  CheckState' /\ line' = line + 1 /\ Open({})' /\ pc' = "idle" /\ UNCHANGED pmm_manager
<1>1. /\ CheckState /\ ~Booted /\ line > 1 /\ Statement = Do("recount") /\ Open({})
      /\ counted = [count |-> 1, total |-> RegionPages]
  BY DEF Recounted
<1>2. /\ IInv /\ Quiet /\ UNCHANGED pmm_manager /\ Count
  BY <1>1, OpenQuiet DEF Do, Look, StoreList, StoreNrFree, RestoreList, RestoreNrFree, Executing
<1>3. /\ UNCHANGED vars /\ UNCHANGED <<local, stored>> /\ counted' = Blocks
      /\ Assertion(Blocks = counted)
  BY <1>1, <1>2 DEF Count, Do, Executing
<1>4. Blocks = counted
  <2>1. {} = RegionBase .. (RegionBase + 0 - 1) /\ 0 < RegionPages /\ RegionPages - 0 = RegionPages
    BY PagesOfRegion
  <2> QED
    BY <1>1, <1>2, <2>1, OneListed DEF Quiet
<1>5. is_panic' = FALSE /\ line' = line + 1
  BY <1>3, <1>4, Zenon DEF Assertion
<1>6. CheckState'
  <2>1. Assertion(TRUE)
    BY <1>5 DEF Assertion
  <2>2. local' \in [Names -> Int] /\ UNCHANGED <<stored, counted>>
    BY <1>1, <1>3, <1>4 DEF CheckState
  <2> QED
    BY <1>1, <1>2, <2>1, <2>2, CheckStateGoesOn
<1>7. Open({})'
  BY <1>1, <1>2, <1>3, <1>5, OpenStays DEF Quiet
<1> QED
  BY <1>2, <1>3, <1>5, <1>6, <1>7 DEF Quiet, vars

\* default_check: count the listed pages again.
LEMMA FirstFit53 ==
  ASSUME Checkable, CheckInv, CheckNext, ~BestFit, line = 53
  PROVE  CheckInv'
<1>1. /\ CheckState /\ ~Booted /\ line > 1 /\ Statement = Do("recount") /\ Open({})
      /\ counted = [count |-> 1, total |-> RegionPages]
  BY FirstFitStatements, NotBooted DEF CheckInv, AtFirstFit, CheckState
<1>2. Recounted
  BY <1>1 DEF Recounted
<1>3. CheckState' /\ line' = line + 1 /\ IInv' /\ UNCHANGED pmm_manager
  BY <1>2, RecountLine DEF Open
<1>4. AtFirst' /\ AtFirstFit' /\ AtBestFit'
  BY <1>3 DEF AtFirst, AtFirstFit, AtBestFit
<1> QED
  BY <1>3, <1>4 DEF CheckInv

\* best_fit_check: count the listed pages again.
LEMMA BestFit46 ==
  ASSUME Checkable, CheckInv, CheckNext, BestFit, line = 46
  PROVE  CheckInv'
<1>1. /\ CheckState /\ ~Booted /\ line > 1 /\ Statement = Do("recount") /\ Open({})
      /\ counted = [count |-> 1, total |-> RegionPages]
  BY BestFitStatements, NotBooted DEF CheckInv, AtBestFit, CheckState
<1>2. Recounted
  BY <1>1 DEF Recounted
<1>3. CheckState' /\ line' = line + 1 /\ IInv' /\ UNCHANGED pmm_manager
  BY <1>2, RecountLine DEF Open
<1>4. AtFirst' /\ AtBestFit' /\ BestFit'
  BY <1>3 DEF AtFirst, AtBestFit, BestFit
<1> QED
  BY <1>3, <1>4 DEF CheckInv

\* An alloc_pages of n pages for which the search finds x.
Picked(L, S, T, nr, o, h, x, n) ==
  /\ Row(L, S, T, nr, o, h)
  /\ Statement.do = "alloc" /\ Statement.n = n /\ Statement.to \in Names
  /\ Statement.want = "this_page" /\ Location = x
  /\ x \in L /\ property[x] >= n /\ n <= nr
  /\ \A p \in L : property[p] \in Nat /\ property[p] <= nr
  /\ \A p \in L : property[p] >= n /\ Preferred(p, x) => p = x

\* alloc_pages that finds the block the check expects.
LEMMA PickedLine ==
  ASSUME CheckState, ~Booted, line > 1, CheckNext,
         NEW L, NEW S, NEW T, NEW nr \in Nat, NEW o, NEW h, NEW x, NEW n \in Nat,
         Picked(L, S, T, nr, o, h, x, n)
  PROVE  /\ CheckState' /\ UNCHANGED <<stored, pmm_manager>>
         /\ \/ /\ line' = line /\ local' = local /\ UNCHANGED property
               /\ Row(L, S, T, nr, o, h)'
            \/ /\ line' = line + 1 /\ local'[Statement.to] = x
               /\ \A z \in Names \ {Statement.to} : local'[z] = local[z]
               /\ Memory(L, S, T, nr, o, h) /\ Take /\ page = x /\ arg = n
<1>0. /\ Row(L, S, T, nr, o, h)
      /\ Statement.do = "alloc" /\ Statement.n = n /\ Statement.to \in Names
      /\ Statement.want = "this_page" /\ Location = x
      /\ x \in L /\ property[x] >= n /\ n <= nr
      /\ \A p \in L : property[p] \in Nat /\ property[p] <= nr
      /\ \A p \in L : property[p] >= n /\ Preferred(p, x) => p = x
  BY DEF Picked
<1>2. (CallAlloc \/ CallStep) /\ UNCHANGED pmm_manager
  BY <1>0, StepsOfStatement
<1>3. Serving(L, S, T, nr, o, h)
  BY <1>0 DEF Row
<1>4. \/ /\ Serving(L, S, T, nr, o, h)'
         /\ UNCHANGED <<checkVars, property>>
      \/ Statement.n > nr \/ \A p \in L : property[p] < Statement.n
      \/ /\ page \in L /\ property[page] >= Statement.n
         /\ \A p \in L : property[p] >= Statement.n => Preferred(page, p)
         /\ arg = Statement.n /\ Take
         /\ Memory(L, S, T, nr, o, h)
         /\ Ends(page)
  BY <1>0, <1>2, <1>3, AllocServed
<1>5. CASE Serving(L, S, T, nr, o, h)' /\ UNCHANGED <<checkVars, property>>
  <2>1. CheckState'
    BY <1>2, <1>5, CheckStateStays
  <2> QED
    BY <1>2, <1>5, <2>1 DEF checkVars, Row
<1>6. CASE /\ page \in L /\ property[page] >= Statement.n
           /\ \A p \in L : property[p] >= Statement.n => Preferred(page, p)
           /\ arg = Statement.n /\ Take
           /\ Memory(L, S, T, nr, o, h)
           /\ Ends(page)
  <2>1. page = x
    BY <1>0, <1>6
  <2>2. x \in Int
    BY <1>0, <1>6, ChainedTypes DEF Memory
  <2>3. /\ Assertion(TRUE) /\ local' = [local EXCEPT ![Statement.to] = x]
        /\ UNCHANGED <<stored, counted>>
    BY <1>0, <1>6, <2>1 DEF Ends, Assertion
  <2>4. /\ local' \in [Names -> Int]
        /\ local'[Statement.to] = x
        /\ \A z \in Names \ {Statement.to} : local'[z] = local[z]
    BY <1>0, <2>2, <2>3 DEF CheckState
  <2>5. CheckState'
    BY <1>2, <2>3, <2>4, CheckStateGoesOn
  <2> QED
    BY <1>0, <1>2, <1>6, <2>1, <2>3, <2>4, <2>5 DEF Assertion
<1>7. ~(Statement.n > nr \/ \A p \in L : property[p] < Statement.n)
  <2>1. property[x] \in Nat /\ x \in L
    BY <1>0
  <2> QED
    BY <1>0, <2>1
<1> QED
  BY <1>4, <1>5, <1>6, <1>7

\* A block that is larger than what is asked for: the rest takes its place.
\* Only the block at y changes its size.
Resized(y, r) == property'[y] = r /\ \A p \in Region \ {y} : property'[p] = property[p]

Leaves(L, L2, x, k, y, r, h) ==
  /\ x \in L /\ k \in Nat /\ k > 0 /\ property[x] > k /\ r = property[x] - k
  /\ y \in Region /\ y = x + k /\ y \notin L /\ y # h
  /\ links.next[x] # free_list => y < links.next[x]
  /\ L2 = (L \ {x}) \cup {y}

\* A block taken in part leaves its upper pages where it was on the list.
LEMMA TakeRest ==
  ASSUME NEW L, NEW nr \in Nat, NEW o, NEW h, Memory(L, {}, {}, nr, o, h), Take,
         NEW L2, NEW x, NEW k \in Nat, NEW y, NEW r \in Nat,
         Leaves(L, L2, x, k, y, r, h), page = x, arg = k
  PROVE  /\ Memory(L2, {}, {}, nr - k, o \cup x .. (x + k - 1), h)' /\ Quiet'
         /\ Resized(y, r)
<1> DEFINE l == list_del(links, x)
           a == links.prev[x]
           b == links.next[x]
<1>0. /\ x \in L /\ k \in Nat /\ k > 0 /\ property[x] > k /\ r = property[x] - k
      /\ y \in Region /\ y = x + k /\ y \notin L /\ y # h
      /\ links.next[x] # free_list => y < links.next[x]
      /\ L2 = (L \ {x}) \cup {y}
  BY DEF Leaves
<1>1. /\ links' = list_add(l, a, y)
      /\ property' = [property EXCEPT ![y] = property[x] - k]
      /\ PageProperty' = (PageProperty \cup {y}) \ {x}
      /\ nr_free' = nr_free - k /\ owned' = owned \cup x .. (x + k - 1)
      /\ pc' = "idle" /\ le' = free_list /\ page' = NULL /\ arg' = 0
  BY <1>0 DEF Take, Rest, ClearFlag, LowerFree, ReturnToCaller, list_prev
<1>2. Chained(links, L, {}, h) /\ property \in [Region -> 0..RegionPages]
  BY <1>0 DEF Memory
<1>3. /\ a \in L \cup {free_list} /\ links.next[a] = x /\ a < x
  BY <1>0, <1>2, Predecessor
<1>4. Chained(l, L \ {x}, {}, h)
  <2>1. Chained(l, L \ {x}, {} \ {b}, h)
    BY <1>0, <1>2, DeleteChained
  <2> QED
    BY <1>0, <2>1
<1>5. /\ a \in Entries /\ b \in Entries /\ a \in Int /\ x \in Int /\ x # free_list /\ x \in Entries
      /\ links \in ListMemory
  BY <1>0, <1>2, <1>3, ChainedTypes
<1>6. l.next[a] = b
  <2>1. l = Bypass(links, a, b)
    BY <1>0 DEF list_del, Bypass, __list_del
  <2> HIDE DEF a, b, l
  <2>2. \A e \in Entries : Bypass(links, a, b).next[e] = IF e = a THEN b ELSE links.next[e]
    BY <1>0, <1>5, DelFields
  <2> QED
    BY <1>0, <1>5, <2>1, <2>2
<1>7. links' = Between(l, y, a, l.next[a])
  BY <1>0, <1>1 DEF list_add, list_add_after, Between
<1>8. a \in (L \ {x}) \cup {free_list} /\ a < y /\ (l.next[a] # free_list => y < l.next[a])
  BY <1>0, <1>3, <1>5, <1>6
<1>9. Chained(links', L2, {}, h)
  <2>1. y \notin L \ {x}
    BY <1>0
  <2> HIDE DEF a, l
  <2>2. Chained(links', (L \ {x}) \cup {y}, {} \ {l.next[a]}, h)
    BY <1>0, <1>4, <1>7, <1>8, <2>1, AddBetween
  <2> QED
    BY <1>0, <2>2
<1>10. PageProperty' = (L2 \ {}) \cup {h}
  <2>1. h # x /\ x # y
    BY <1>0, <1>2 DEF Chained
  <2> QED
    BY <1>0, <1>1, <2>1 DEF Memory
<1>11. property' \in [Region -> 0..RegionPages]
  <2>1. property[x] - k \in 0..RegionPages
    BY <1>0, <1>2, EntryTypes DEF Chained
  <2> QED
    BY <1>0, <1>1, <1>2, <2>1
<1>12. Resized(y, r)
  BY <1>0, <1>1, <1>2 DEF Resized
<1> QED
  BY <1>0, <1>1, <1>9, <1>10, <1>11, <1>12 DEF Memory, Quiet

\* The page that points back at itself stays on the list, without its flag.
LEMMA TakeInVain ==
  ASSUME NEW L, NEW S, NEW T, NEW nr, NEW o, NEW h, Memory(L, S, T, nr, o, h),
         Take, NEW x \in S, page = x, NEW k, arg = k, property[x] = k,
         links.next[x] = free_list
  PROVE  /\ Memory(L, S, T \cup {x}, nr - k, o \cup x .. (x + k - 1), h)'
         /\ Quiet' /\ UNCHANGED property
<1>0. x \in L /\ x # h /\ Chained(links, L, S, h)
  BY DEF Memory, Chained
<1>1. /\ links' = list_del(links, x) /\ PageProperty' = PageProperty \ {x} /\ UNCHANGED property
      /\ nr_free' = nr_free - k /\ owned' = owned \cup x .. (x + k - 1)
      /\ pc' = "idle" /\ le' = free_list /\ page' = NULL /\ arg' = 0
  <2>1. ~(property[page] > arg)
    <3>1. property[x] \in Nat
      BY <1>0 DEF Memory, Chained
    <3> QED
      BY <3>1
  <2> QED
    BY <2>1 DEF Take, ClearFlag, LowerFree, ReturnToCaller
<1>2. Chained(links', L, S, h)
  BY <1>0, <1>1, DeleteSelf
<1>3. PageProperty' = (L \ (T \cup {x})) \cup {h}
  BY <1>0, <1>1 DEF Memory
<1> QED
  BY <1>1, <1>2, <1>3 DEF Memory, Quiet

\* free_pages until the page freed is linked and joined to the block before it,
\* if any.
LEMMA FreeUnderWay ==
  ASSUME CheckState, ~Booted, line > 1, CheckNext,
         NEW L, NEW S, NEW T \in SUBSET L, NEW nr, NEW o, NEW h,
         NEW x \in Region, NEW m \in 1..RegionPages, Alone(L, S, T, nr, o, h, x, m),
         pc # "merge_high"
  PROVE  /\ CheckState' /\ UNCHANGED <<local, stored, pmm_manager, line>>
         /\ \A p \in Region \ {x} : property'[p] = property[p]
         /\ Row(L, S, T, nr, o, h)'
         /\ pc' # "idle" /\ (pc # "merge_low" => pc' # "merge_high")
<1>1. /\ CheckState' /\ UNCHANGED <<local, stored, pmm_manager>>
      /\ \A p \in Region \ {x} : property'[p] = property[p]
      /\ \/ line' = line /\ Row(L, S, T, nr, o, h)' /\ pc' # "idle"
         \/ line' = line + 1 /\ Returned(L, S, T, nr, o, h, x, m)'
  BY FreeLine
<1>2. /\ Statement.do = "free" /\ Row(L, S, T, nr, o, h)
  BY DEF Alone
<1>3. pc \in {"idle", "insert", "merge_low"}
  BY <1>2 DEF Row, Serving, Quiet, Freeing
<1>4. pc' # "idle" /\ (pc # "merge_low" => pc' # "merge_high")
  <2>1. CallFree \/ CallStep
    BY <1>2, StepsOfStatement
  <2>2. CASE CallFree
    <3>1. ~Assertion(FALSE)
      BY <1>1 DEF Assertion, CheckState
    <3>2. free_pages(Location, Statement.n)
      BY <2>2, <3>1 DEF CallFree
    <3> QED
      BY <3>2 DEF free_pages
  <2>3. CASE CallStep
    <3>1. RunningCall
      BY <2>3 DEF CallStep
    <3>2. (pc = "insert" /\ Insert) \/ (pc = "merge_low" /\ MergeLow)
      BY <1>3, <3>1, InCall
    <3> QED
      BY <3>2 DEF Insert, MergeLow
  <2> QED
    BY <2>1, <2>2, <2>3
<1>5. ~Returned(L, S, T, nr, o, h, x, m)'
  BY <1>4 DEF Returned, Quiet
<1> QED
  BY <1>1, <1>4, <1>5

\* The block freed begins where the block before it ends.
LEMMA JoinPrevious ==
  ASSUME NEW L, NEW nr, NEW o, NEW h, Memory(L, {}, {}, nr, o, h),
         pc = "merge_low", MergeLow, NEW x \in L, page = x,
         NEW a \in L, links.next[a] = x, a + property[a] = x,
         property[a] + property[x] <= RegionPages
  PROVE  /\ Memory(L \ {x}, {}, {}, nr, o, h)' /\ pc' = "merge_high" /\ page' = a
         /\ property' = [property EXCEPT ![a] = property[a] + property[x]]
<1>1. Chained(links, L, {}, h) /\ property \in [Region -> 0..RegionPages]
  BY DEF Memory
<1>2. links.prev[x] = a /\ a # free_list
  BY <1>1, Predecessor, ChainedTypes
<1>3. /\ property' = [property EXCEPT ![a] = property[a] + property[x]]
      /\ PageProperty' = PageProperty \ {x} /\ links' = list_del(links, x)
      /\ page' = a /\ pc' = "merge_high" /\ UNCHANGED <<nr_free, owned>>
  BY <1>2 DEF MergeLow, list_prev
<1>4. Chained(links', L \ {x}, {}, h)
  <2>1. Chained(links', L \ {x}, {} \ {links.next[x]}, h)
    BY <1>1, <1>3, DeleteChained
  <2> QED
    BY <2>1
<1>5. property' \in [Region -> 0..RegionPages]
  BY <1>1, <1>3 DEF Chained
<1>6. PageProperty' = ((L \ {x}) \ {}) \cup {h}
  <2>1. h # x
    BY <1>1 DEF Chained
  <2> QED
    BY <1>3, <2>1 DEF Memory
<1> QED
  BY <1>3, <1>4, <1>5, <1>6 DEF Memory

\* The block freed ends where the block after it begins.
LEMMA JoinNext ==
  ASSUME NEW L, NEW nr, NEW o, NEW h, Memory(L, {}, {}, nr, o, h),
         pc = "merge_high", MergeHigh, NEW x \in L, page = x,
         NEW b \in L, links.next[x] = b, x + property[x] = b,
         property[x] + property[b] <= RegionPages
  PROVE  /\ Memory(L \ {b}, {}, {}, nr, o, h)' /\ Quiet'
         /\ property' = [property EXCEPT ![x] = property[x] + property[b]]
<1>1. Chained(links, L, {}, h) /\ property \in [Region -> 0..RegionPages]
  BY DEF Memory
<1>2. b # free_list
  BY <1>1, ChainedTypes
<1>3. /\ property' = [property EXCEPT ![x] = property[x] + property[b]]
      /\ PageProperty' = PageProperty \ {b} /\ links' = list_del(links, b)
      /\ pc' = "idle" /\ le' = free_list /\ page' = NULL /\ arg' = 0
      /\ UNCHANGED <<nr_free, owned>>
  BY <1>2 DEF MergeHigh, list_next, ReturnToCaller
<1>4. Chained(links', L \ {b}, {}, h)
  <2>1. Chained(links', L \ {b}, {} \ {links.next[b]}, h)
    BY <1>1, <1>3, DeleteChained
  <2> QED
    BY <2>1
<1>5. property' \in [Region -> 0..RegionPages]
  BY <1>1, <1>3 DEF Chained
<1>6. PageProperty' = ((L \ {b}) \ {}) \cup {h}
  <2>1. h # b
    BY <1>1 DEF Chained
  <2> QED
    BY <1>3, <2>1 DEF Memory
<1> QED
  BY <1>3, <1>4, <1>5, <1>6 DEF Memory, Quiet

\* best_fit_check: p1 = alloc_pages(1), which is p0 + 4.
LEMMA BestFit36 ==
  ASSUME Checkable, CheckInv, CheckNext, BestFit, line = 36
  PROVE  CheckInv'
<1> DEFINE p0 == PageAt(0)
           p1 == PageAt(1)
           p4 == PageAt(4)
           p5 == PageAt(5)
           L == {p1, p4}
           S == {p4}
           T == {}
           o == PagesAt(0, 0) \cup PagesAt(3, 3)
           T2 == {p4}
           o2 == PagesAt(0, 0) \cup PagesAt(3, 4)
<1>1. /\ CheckState /\ ~Booted /\ line > 1 /\ Statement = AllocAt("p1", 1, "p0", 4)
      /\ Row(L, S, T, 3, o, p5) /\ property[p5] = RegionPages - 5 /\ property[p1] = 2
      /\ property[p4] = 1 /\ stored.next = p5 /\ stored.prev = p5
      /\ stored.nr_free = RegionPages - 5 /\ local["p0"] = p0
  BY BestFitStatements, NotBooted DEF CheckInv, AtBestFit
<1>2. /\ p0 \in Region /\ p1 \in Region /\ p4 \in Region /\ p5 \in Region /\ p0 \in Int
      /\ p1 \in Int /\ p4 \in Int /\ p5 \in Int /\ p0 # p1 /\ p0 # p4 /\ p0 # p5 /\ p1 # p4
      /\ p1 # p5 /\ p4 # p5 /\ p1 < p4 /\ 3 \in Nat /\ 1 \in Nat
  BY PagesOfRegion DEF PageAt
<1>3. Picked(L, S, T, 3, o, p5, p4, 1)
  BY <1>1, <1>2, PagesOfRegion, EntryTypes DEF Picked, AllocAt, Location, Preferred, Names, PageAt
<1>4. Statement.to = "p1"
  BY <1>1 DEF AllocAt
<1>5. /\ CheckState' /\ UNCHANGED <<stored, pmm_manager>>
      /\ \/ /\ line' = line /\ local' = local /\ UNCHANGED property
            /\ Row(L, S, T, 3, o, p5)'
         \/ /\ line' = line + 1 /\ local'[Statement.to] = p4
            /\ \A z \in Names \ {Statement.to} : local'[z] = local[z]
            /\ Memory(L, S, T, 3, o, p5) /\ Take /\ page = p4 /\ arg = 1
  <2> HIDE DEF p0, p1, p4, p5, L, S, T, o
  <2> QED
    BY <1>1, <1>2, <1>3, PickedLine
<1>6. ASSUME line' = line, local' = local, UNCHANGED property, Row(L, S, T, 3, o, p5)'
      PROVE  AtBestFit'
  BY <1>1, <1>5, <1>6 DEF AtBestFit
<1>7. ASSUME line' = line + 1, local'[Statement.to] = p4,
             \A z \in Names \ {Statement.to} : local'[z] = local[z],
             Memory(L, S, T, 3, o, p5), Take, page = p4, arg = 1
      PROVE  AtBestFit'
  <2>1. links.next[p4] = free_list
    <3>1. Chained(links, L, S, p5)
      BY <1>7 DEF Memory
    <3>2. p4 \in L /\ \A p \in L : ~(p > p4)
      BY <1>2
    <3> HIDE DEF p4, p5, L, S
    <3> QED
      BY <3>1, <3>2 DEF Chained
  <2>2. PICK k \in Nat : k = 1
    OBVIOUS
  <2>3. /\ Memory(L, S, T \cup {p4}, 3 - k, o \cup p4 .. (p4 + k - 1), p5)'
        /\ Quiet' /\ UNCHANGED property
    <3>1. p4 \in S /\ property[p4] = k /\ arg = k
      BY <1>1, <1>7, <2>2
    <3> HIDE DEF p0, p1, p4, p5, L, S, T, o
    <3> QED
      BY <1>7, <2>1, <3>1, TakeInVain
  <2>4. T \cup {p4} = T2 /\ 3 - k = 2 /\ o \cup p4 .. (p4 + k - 1) = o2
    BY <2>2, PagesOfRegion DEF PagesAt, PageAt
  <2>5. Row(L, S, T2, 2, o2, p5)'
    <3>1. Memory(L, S, T2, 2, o2, p5)'
      BY <2>3, <2>4
    <3> QED
      BY <2>3, <3>1, QuietRow
  <2> QED
    BY <1>1, <1>4, <1>5, <1>7, <2>3, <2>5 DEF AtBestFit, Names
<1>8. AtBestFit'
  BY <1>5, <1>6, <1>7
<1> QED
  BY <1>1, <1>5, <1>8, LateBestFit

\* default_check: assert((p0 = alloc_pages(2)) == p2 + 1).
LEMMA FirstFit44 ==
  ASSUME Checkable, CheckInv, CheckNext, ~BestFit, line = 44
  PROVE  CheckInv'
<1> DEFINE p0 == PageAt(0)
           p1 == PageAt(1)
           p2 == PageAt(2)
           p4 == PageAt(4)
           p5 == PageAt(5)
           L == {p0, p2}
           S == {}
           T == {}
           o == PagesAt(1, 1)
           L2 == {p0, p4}
           o2 == PagesAt(1, 3)
<1>1. /\ CheckState /\ ~Booted /\ line > 1 /\ Statement = AllocAt("p0", 2, "p2", 1)
      /\ Row(L, S, T, 4, o, p5) /\ property[p5] = RegionPages - 5 /\ property[p2] = 3
      /\ property[p0] = 1 /\ stored.next = p5 /\ stored.prev = p5
      /\ stored.nr_free = RegionPages - 5 /\ local["p0"] = p0 /\ local["p1"] = p2
      /\ local["p2"] = p1
  BY FirstFitStatements, NotBooted DEF CheckInv, AtFirstFit
<1>2. /\ p0 \in Region /\ p1 \in Region /\ p2 \in Region /\ p4 \in Region /\ p5 \in Region
      /\ p0 \in Int /\ p2 \in Int /\ p4 \in Int /\ p5 \in Int /\ p0 # p2 /\ p0 # p4 /\ p0 # p5
      /\ p2 # p4 /\ p2 # p5 /\ p4 # p5 /\ p0 < p2 /\ p4 = p2 + 2 /\ 4 \in Nat /\ 2 \in Nat
  BY PagesOfRegion DEF PageAt
<1>3. Picked(L, S, T, 4, o, p5, p2, 2)
  BY <1>1, <1>2, PagesOfRegion, EntryTypes DEF Picked, AllocAt, Location, Preferred, Names, PageAt
<1>4. Statement.to = "p0"
  BY <1>1 DEF AllocAt
<1>5. /\ CheckState' /\ UNCHANGED <<stored, pmm_manager>>
      /\ \/ /\ line' = line /\ local' = local /\ UNCHANGED property
            /\ Row(L, S, T, 4, o, p5)'
         \/ /\ line' = line + 1 /\ local'[Statement.to] = p2
            /\ \A z \in Names \ {Statement.to} : local'[z] = local[z]
            /\ Memory(L, S, T, 4, o, p5) /\ Take /\ page = p2 /\ arg = 2
  <2>1. 4 \in Nat /\ 2 \in Nat
    OBVIOUS
  <2> HIDE DEF p0, p1, p2, p4, p5, L, S, T, o
  <2> QED
    BY <1>1, <1>3, <2>1, PickedLine
<1>6. ASSUME line' = line, local' = local, UNCHANGED property, Row(L, S, T, 4, o, p5)'
      PROVE  AtFirstFit'
  BY <1>1, <1>5, <1>6 DEF AtFirstFit
<1>7. ASSUME line' = line + 1, local'[Statement.to] = p2,
             \A z \in Names \ {Statement.to} : local'[z] = local[z],
             Memory(L, S, T, 4, o, p5), Take, page = p2, arg = 2
      PROVE  AtFirstFit'
  <2>1. links.next[p2] = free_list
    <3>1. Chained(links, L, S, p5)
      BY <1>7 DEF Memory
    <3>2. p2 \in L /\ \A p \in L : ~(p > p2)
      BY <1>2
    <3> HIDE DEF p2, p5, L, S
    <3> QED
      BY <3>1, <3>2 DEF Chained
  <2>2. PICK k \in Nat : k = 2
    OBVIOUS
  <2>9. PICK nr \in Nat : nr = 4
    OBVIOUS
  <2>10. PICK r \in Nat : r = 1
    OBVIOUS
  <2>3. /\ Memory(L2, {}, {}, nr - k, o \cup p2 .. (p2 + k - 1), p5)' /\ Quiet'
        /\ Resized(p4, r)
    <3>1. Memory(L, {}, {}, nr, o, p5)
      BY <1>7, <2>9
    <3>2. Leaves(L, L2, p2, k, p4, r, p5)
      BY <1>1, <1>2, <2>10, <2>1, <2>2 DEF Leaves
    <3>3. page = p2 /\ arg = k
      BY <1>7, <2>2
    <3> HIDE DEF p0, p1, p2, p4, p5, L, S, T, o, L2
    <3> QED
      BY <1>7, <3>1, <3>2, <3>3, TakeRest
  <2>4. nr - k = 2 /\ o \cup p2 .. (p2 + k - 1) = o2
    BY <2>2, <2>9, PagesOfRegion DEF PagesAt, PageAt
  <2>5. Row(L2, {}, {}, 2, o2, p5)'
    <3>1. Memory(L2, {}, {}, 2, o2, p5)'
      BY <2>3, <2>4
    <3> QED
      BY <2>3, <3>1, QuietRow
  <2>6. /\ property'[p4] = 1 /\ property'[p0] = property[p0] /\ property'[p5] = property[p5]
    <3> HIDE DEF p0, p2, p4, p5
    <3> QED
      BY <1>1, <1>2, <2>2, <2>3, <2>10 DEF Resized
  <2> QED
    BY <1>1, <1>4, <1>5, <1>7, <2>5, <2>6 DEF AtFirstFit, Names
<1>8. AtFirstFit'
  BY <1>5, <1>6, <1>7
<1> QED
  BY <1>1, <1>5, <1>8, LateFirstFit

\* default_check: free_pages(p0, 2).
LEMMA FirstFit45 ==
  ASSUME Checkable, CheckInv, CheckNext, ~BestFit, line = 45
  PROVE  CheckInv'
<1> DEFINE p0 == PageAt(0)
           p1 == PageAt(1)
           p2 == PageAt(2)
           p4 == PageAt(4)
           p5 == PageAt(5)
           L == {p0, p4}
           S == {}
           T == {}
           o == PagesAt(1, 3)
           L2 == {p0, p2}
           M == {p0, p4, p2}
           o2 == PagesAt(1, 1)
<1>1. /\ CheckState /\ ~Booted /\ line > 1 /\ Statement = Free("p0", 0, 2)
      /\ Row(L, S, T, 2, o, p5) /\ property[p5] = RegionPages - 5 /\ property[p4] = 1
      /\ property[p0] = 1 /\ stored.next = p5 /\ stored.prev = p5
      /\ stored.nr_free = RegionPages - 5 /\ local["p0"] = p2 /\ local["p1"] = p2
      /\ local["p2"] = p1
  BY FirstFitStatements, NotBooted DEF CheckInv, AtFirstFit
<1>2. /\ p0 \in Region /\ p1 \in Region /\ p2 \in Region /\ p4 \in Region /\ p5 \in Region
      /\ p0 \in Int /\ p2 \in Int /\ p4 \in Int /\ p5 \in Int /\ p0 # p2 /\ p0 # p4 /\ p0 # p5
      /\ p2 # p4 /\ p2 # p5 /\ p4 # p5 /\ p0 < p2 /\ p2 < p4 /\ p4 = p2 + 2 /\ 2 \in 1..RegionPages
      /\ T \in SUBSET L
  BY PagesOfRegion DEF PageAt
<1>3. Statement.do = "free" /\ Location = p2 /\ Statement.n = 2
  BY <1>1, <1>2 DEF Free, Location
<1>4. CASE pc # "merge_high"
  <2>1. Alone(L, S, T, 2, o, p5, p2, 2)
    BY <1>1, <1>2, <1>3, <1>4, PagesOfRegion DEF Alone, PageAt
  <2>2. /\ CheckState' /\ UNCHANGED <<local, stored, pmm_manager, line>>
        /\ \A p \in Region \ {p2} : property'[p] = property[p]
        /\ Row(L, S, T, 2, o, p5)'
    <3> HIDE DEF p0, p1, p2, p4, p5, L, S, T, o
    <3> QED
      BY <1>1, <1>2, <1>4, <2>1, FreeUnderWay
  <2>3. AtFirstFit'
    BY <1>1, <1>2, <2>2 DEF AtFirstFit
  <2> QED
    BY <1>1, <2>2, <2>3, LateFirstFit
<1>5. CASE pc = "merge_high"
  <2>1. Freeing(L, S, T, 2, o, p5, p2, 2)
    BY <1>1, <1>3, <1>5 DEF Row, Serving, Quiet, Searching
  <2>2. Memory(M, {}, {}, 4, o2, p5) /\ page = p2 /\ property[p2] = 2
    <3>1. Backed(L, S, p2) = {} /\ L \cup {p2} = M
      BY <1>2 DEF Backed, Topmost
    <3>2. o \ p2 .. (p2 + 2 - 1) = o2
      BY PagesOfRegion DEF PagesAt, PageAt
    <3>3. /\ property \in [Region -> 0..RegionPages] /\ property[p2] = 2 /\ page = p2
          /\ PageProperty = ((L \cup {p2}) \ T) \cup {p5} /\ nr_free = 2 + 2
          /\ owned = o \ p2 .. (p2 + 2 - 1) /\ Chained(links, L \cup {p2}, Backed(L, S, p2), p5)
      <4> HIDE DEF p0, p1, p2, p4, p5, L, S, T, M, o, o2
      <4> QED
        BY <1>5, <2>1 DEF Freeing
    <3>4. PageProperty = (M \ {}) \cup {p5} /\ nr_free = 4 /\ owned = o2
      BY <3>1, <3>2, <3>3
    <3> HIDE DEF p0, p1, p2, p4, p5, L, S, M, o, o2
    <3> QED
      BY <3>1, <3>3, <3>4 DEF Memory
  <2>3. MergeHigh /\ UNCHANGED pmm_manager
    <3>1. CallStep /\ UNCHANGED pmm_manager
      BY <1>1, <1>3, <1>5, StepsOfStatement DEF CallFree, Executing
    <3> QED
      BY <1>5, <3>1, InCall DEF CallStep
  <2>4. links.next[p2] = p4
    <3>1. Chained(links, M, {}, p5)
      BY <2>2 DEF Memory
    <3>2. p2 \in M /\ p4 \in M /\ p4 > p2 /\ \A p \in M : p > p2 => p4 <= p
      BY <1>2
    <3>3. p4 # free_list
      BY <1>2, EntryTypes
    <3> HIDE DEF p0, p1, p2, p4, p5, M
    <3> QED
      BY <3>1, <3>2, <3>3, NextIs
  <2>5. /\ Memory(M \ {p4}, {}, {}, 4, o2, p5)' /\ Quiet'
        /\ property' = [property EXCEPT ![p2] = property[p2] + property[p4]]
    <3>1. /\ p2 \in M /\ p4 \in M /\ p2 + property[p2] = p4
          /\ property[p2] + property[p4] <= RegionPages
      BY <1>1, <1>2, <2>2, PagesOfRegion
    <3> HIDE DEF p0, p1, p2, p4, p5, M, o2
    <3> QED
      BY <1>5, <2>2, <2>3, <2>4, <3>1, JoinNext
  <2>6. Row(L2, {}, {}, 4, o2, p5)'
    <3>1. M \ {p4} = L2
      BY <1>2
    <3>2. Memory(L2, {}, {}, 4, o2, p5)'
      BY <2>5, <3>1
    <3> QED
      BY <2>5, <3>2, QuietRow
  <2>7. property'[p2] = 3 /\ property'[p0] = 1 /\ property'[p5] = property[p5]
    <3>1. property \in [Region -> 0..RegionPages]
      BY <2>2 DEF Memory
    <3> HIDE DEF p0, p2, p4, p5
    <3> QED
      BY <1>1, <1>2, <2>2, <2>5, <3>1
  <2>8. /\ Assertion(TRUE) /\ UNCHANGED <<local, stored, counted>>
    <3>1. CallStep /\ pc' = "idle"
      BY <1>1, <1>3, <1>5, <2>5, StepsOfStatement DEF CallFree, Executing, Quiet
    <3> QED
      BY <1>3, <3>1 DEF CallStep
  <2>9. CheckState' /\ line' = line + 1
    <3>1. local' \in [Names -> Int]
      BY <1>1, <2>8 DEF CheckState
    <3> QED
      BY <1>1, <2>3, <2>8, <3>1, CheckStateGoesOn DEF Assertion
  <2>10. AtFirstFit'
    BY <1>1, <2>5, <2>6, <2>7, <2>8, <2>9 DEF AtFirstFit, Quiet
  <2> QED
    BY <1>1, <2>3, <2>9, <2>10, LateFirstFit
<1> QED
  BY <1>4, <1>5

\* default_check: free_page(p2).
LEMMA FirstFit46 ==
  ASSUME Checkable, CheckInv, CheckNext, ~BestFit, line = 46
  PROVE  CheckInv'
<1> DEFINE p0 == PageAt(0)
           p1 == PageAt(1)
           p2 == PageAt(2)
           p5 == PageAt(5)
           L == {p0, p2}
           S == {}
           T == {}
           o == PagesAt(1, 1)
           M == {p0, p1, p2}
           Alright == /\ Row(L, S, T, 4, o, p5)
                      /\ property[p0] = 1 /\ pc # "merge_high"
           Merging == /\ Memory(L, {}, {}, 5, {}, p5)
                      /\ property[p0] = 2 /\ pc = "merge_high" /\ page = p0
<1>1. /\ CheckState /\ ~Booted /\ line > 1 /\ Statement = Free("p2", 0, 1)
      /\ property[p5] = RegionPages - 5 /\ property[p2] = 3
      /\ stored.next = p5 /\ stored.prev = p5
      /\ stored.nr_free = RegionPages - 5 /\ local["p0"] = p2 /\ local["p1"] = p2
      /\ local["p2"] = p1
      /\ Alright \/ Merging
  BY FirstFitStatements, NotBooted DEF CheckInv, AtFirstFit
<1>2. /\ p0 \in Region /\ p1 \in Region /\ p2 \in Region /\ p5 \in Region
      /\ p0 \in Int /\ p1 \in Int /\ p2 \in Int /\ p5 \in Int
      /\ p0 # p1 /\ p0 # p2 /\ p0 # p5 /\ p1 # p2 /\ p1 # p5 /\ p2 # p5
      /\ p0 < p1 /\ p1 < p2 /\ p1 = p0 + 1 /\ p2 = p0 + 2 /\ 1 \in 1..RegionPages
      /\ T \in SUBSET L
  BY PagesOfRegion DEF PageAt
<1>3. Statement.do = "free" /\ Location = p1 /\ Statement.n = 1
  BY <1>1, <1>2 DEF Free, Location
<1>4. CASE Alright /\ pc # "merge_low"
  <2>1. Alone(L, S, T, 4, o, p5, p1, 1)
    BY <1>1, <1>2, <1>3, <1>4, PagesOfRegion DEF Alone, PageAt
  <2>2. /\ CheckState' /\ UNCHANGED <<local, stored, pmm_manager, line>>
        /\ \A p \in Region \ {p1} : property'[p] = property[p]
        /\ Row(L, S, T, 4, o, p5)' /\ pc' # "merge_high"
    <3>1. pc # "merge_low" /\ pc # "merge_high"
      BY <1>4
    <3> HIDE DEF p0, p1, p2, p5, L, S, T, o, Alright, Merging
    <3> QED
      BY <1>1, <1>2, <2>1, <3>1, FreeUnderWay
  <2>3. AtFirstFit'
    BY <1>1, <1>2, <1>4, <2>2 DEF AtFirstFit
  <2> QED
    BY <1>1, <2>2, <2>3, LateFirstFit
<1>5. CASE Alright /\ pc = "merge_low"
  <2>1. Freeing(L, S, T, 4, o, p5, p1, 1)
    BY <1>1, <1>3, <1>5 DEF Row, Serving, Quiet, Searching
  <2>2. Memory(M, {}, {}, 5, {}, p5) /\ page = p1 /\ property[p1] = 1
    <3>1. Backed(L, S, p1) = {} /\ L \cup {p1} = M
      BY <1>2 DEF Backed, Topmost
    <3>2. o \ p1 .. (p1 + 1 - 1) = {}
      BY PagesOfRegion DEF PagesAt, PageAt
    <3>3. /\ property \in [Region -> 0..RegionPages] /\ property[p1] = 1 /\ page = p1
          /\ PageProperty = ((L \cup {p1}) \ T) \cup {p5} /\ nr_free = 4 + 1
          /\ owned = o \ p1 .. (p1 + 1 - 1) /\ Chained(links, L \cup {p1}, Backed(L, S, p1), p5)
      <4>1. pc = "merge_low"
        BY <1>5
      <4> HIDE DEF p0, p1, p2, p5, L, S, T, M, o, Alright, Merging
      <4> QED
        BY <2>1, <4>1 DEF Freeing
    <3>4. PageProperty = (M \ {}) \cup {p5} /\ nr_free = 5 /\ owned = {}
      BY <3>1, <3>2, <3>3
    <3> HIDE DEF p0, p1, p2, p5, L, S, M, o
    <3> QED
      BY <3>1, <3>3, <3>4 DEF Memory
  <2>3. CallStep /\ MergeLow /\ UNCHANGED pmm_manager
    <3>1. CallStep /\ UNCHANGED pmm_manager
      BY <1>1, <1>3, <1>5, StepsOfStatement DEF CallFree, Executing
    <3> QED
      BY <1>5, <3>1, InCall DEF CallStep
  <2>4. links.next[p0] = p1
    <3>1. Chained(links, M, {}, p5)
      BY <2>2 DEF Memory
    <3>2. p0 \in M /\ p1 \in M /\ p1 > p0 /\ \A p \in M : p > p0 => p1 <= p
      BY <1>2
    <3>3. p1 # free_list
      BY <1>2, EntryTypes
    <3> HIDE DEF p0, p1, p2, p5, M
    <3> QED
      BY <3>1, <3>2, <3>3, NextIs
  <2>5. /\ Memory(M \ {p1}, {}, {}, 5, {}, p5)' /\ pc' = "merge_high" /\ page' = p0
        /\ property' = [property EXCEPT ![p0] = property[p0] + property[p1]]
    <3>1. /\ p0 \in M /\ p1 \in M /\ p0 + property[p0] = p1 /\ pc = "merge_low"
          /\ property[p0] + property[p1] <= RegionPages
      BY <1>1, <1>2, <1>5, <2>2, PagesOfRegion
    <3> HIDE DEF p0, p1, p2, p5, M, o, L, Alright, Merging
    <3> QED
      BY <2>2, <2>3, <2>4, <3>1, JoinPrevious
  <2>6. /\ property'[p0] = 2 /\ property'[p2] = 3 /\ property'[p5] = property[p5]
    <3>1. property \in [Region -> 0..RegionPages] /\ property[p0] = 1
      BY <1>5, <2>2 DEF Memory
    <3> HIDE DEF p0, p1, p2, p5
    <3> QED
      BY <1>1, <1>2, <2>2, <2>5, <3>1
  <2>7. Memory(L, {}, {}, 5, {}, p5)'
    <3>1. M \ {p1} = L
      BY <1>2
    <3> QED
      BY <2>5, <3>1
  <2>8. UNCHANGED checkVars
    BY <2>3, <2>5 DEF CallStep, checkVars
  <2>9. CheckState'
    BY <1>1, <2>3, <2>8, CheckStateStays
  <2>10. AtFirstFit'
    BY <1>1, <2>5, <2>6, <2>7, <2>8 DEF AtFirstFit, checkVars
  <2>11. line' = 46
    BY <2>8 DEF checkVars
  <2> QED
    BY <2>3, <2>9, <2>10, <2>11, LateFirstFit
<1>6. CASE Merging
  <2>1. CallStep /\ MergeHigh /\ UNCHANGED pmm_manager
    <3>1. CallStep /\ UNCHANGED pmm_manager
      BY <1>1, <1>3, <1>6, StepsOfStatement DEF CallFree, Executing
    <3> QED
      BY <1>6, <3>1, InCall DEF CallStep
  <2>2. links.next[p0] = p2
    <3>1. Chained(links, L, {}, p5)
      BY <1>6 DEF Memory
    <3>2. p0 \in L /\ p2 \in L /\ p2 > p0 /\ \A p \in L : p > p0 => p2 <= p
      BY <1>2
    <3>3. p2 # free_list
      BY <1>2, EntryTypes
    <3> HIDE DEF p0, p1, p2, p5, L
    <3> QED
      BY <3>1, <3>2, <3>3, NextIs
  <2>3. /\ Memory(L \ {p2}, {}, {}, 5, {}, p5)' /\ Quiet'
        /\ property' = [property EXCEPT ![p0] = property[p0] + property[p2]]
    <3>1. /\ p0 \in L /\ p2 \in L /\ p0 + property[p0] = p2
          /\ property[p0] + property[p2] <= RegionPages
          /\ pc = "merge_high" /\ page = p0 /\ Memory(L, {}, {}, 5, {}, p5)
      BY <1>1, <1>2, <1>6, PagesOfRegion
    <3> HIDE DEF p0, p1, p2, p5, M, o, L, Alright, Merging
    <3> QED
      BY <2>1, <2>2, <3>1, JoinNext
  <2>4. property'[p0] = 5 /\ property'[p5] = property[p5]
    <3>1. property \in [Region -> 0..RegionPages] /\ property[p0] = 2
      BY <1>6 DEF Memory
    <3> HIDE DEF p0, p1, p2, p5
    <3> QED
      BY <1>1, <1>2, <2>3, <3>1
  <2>5. Row({p0}, {}, {}, 5, {}, p5)'
    <3>1. L \ {p2} = {p0}
      BY <1>2
    <3>2. Memory({p0}, {}, {}, 5, {}, p5)'
      BY <2>3, <3>1
    <3> QED
      BY <2>3, <3>2, QuietRow
  <2>6. /\ Assertion(TRUE) /\ UNCHANGED <<local, stored, counted>>
    BY <1>3, <2>1, <2>3 DEF CallStep, Quiet
  <2>7. CheckState' /\ line' = line + 1
    <3>1. local' \in [Names -> Int]
      BY <1>1, <2>6 DEF CheckState
    <3> QED
      BY <1>1, <2>1, <2>6, <3>1, CheckStateGoesOn DEF Assertion
  <2>8. AtFirstFit'
    BY <1>1, <2>4, <2>5, <2>6, <2>7 DEF AtFirstFit
  <2> QED
    BY <1>1, <2>1, <2>7, <2>8, LateFirstFit
<1> QED
  BY <1>1, <1>4, <1>5, <1>6

-----------------------------------------------------------------------------
(* The theorems.                                                           *)

\* A step that changes nothing leaves each state of the check as it is.
LEMMA RowStutters ==
  ASSUME NEW L, NEW S, NEW T, NEW nr, NEW o, NEW h, Row(L, S, T, nr, o, h), UNCHANGED allVars
  PROVE  Row(L, S, T, nr, o, h)'
<1>1. UNCHANGED <<vars, checkVars, pmm_manager>> /\ Statement' = Statement /\ Location' = Location
  BY SameStatement DEF allVars, vars
<1>2. ASSUME Memory(L, S, T, nr, o, h) PROVE Memory(L, S, T, nr, o, h)'
  BY <1>1, <1>2 DEF Memory, vars
<1>3. ASSUME Quiet PROVE Quiet'
  BY <1>1, <1>3 DEF Quiet, vars
<1>4. ASSUME Searching(L) PROVE Searching(L)'
  BY <1>1, <1>4 DEF Searching, Preferred, BestFit, vars
<1>5. arg' = arg
  BY <1>1 DEF vars
<1>6. ASSUME Freeing(L, S, T, nr, o, h, Location, Statement.n)
      PROVE  Freeing(L, S, T, nr, o, h, Location, Statement.n)'
  BY <1>1, <1>6 DEF Freeing, Placing, vars
<1> QED
  BY <1>1, <1>2, <1>3, <1>4, <1>5, <1>6 DEF Row, Serving

\* The same between the manager's list being put away and taken back.
LEMMA OpenStutters ==
  ASSUME NEW o, Open(o), UNCHANGED allVars
  PROVE  Open(o)'
<1>1. UNCHANGED <<vars, checkVars, pmm_manager>> /\ Statement' = Statement /\ Location' = Location
  BY SameStatement DEF allVars, vars
<1>2. IInv /\ UNCHANGED <<pc, owned, arg>>
  BY <1>1 DEF Open, vars
<1>3. IInv'
  BY <1>1, <1>2 DEF vars, IInv, LinksInv, BlocksInv, JoinInv, CallInv, OnList, Linked, Pages,
                    BestFit, Region
<1> QED
  BY <1>1, <1>2, <1>3 DEF Open

\* A step that changes nothing keeps the invariant.
LEMMA CheckStutters ==
  ASSUME CheckInv, UNCHANGED allVars
  PROVE  CheckInv'
<1>1. UNCHANGED <<pmm_manager, links, property, PageProperty, nr_free, pc, le, page, arg, owned,
                  line, local, stored, counted, is_panic>>
  BY DEF allVars, vars, checkVars
<1>2. UNCHANGED checkVars /\ UNCHANGED pmm_manager
  BY <1>1 DEF checkVars
<1>3. CheckState'
  BY <1>2, CheckStateStays DEF CheckInv
<1>4. AtFirst'
  <2>1. Relinked => Relinked'
    BY <1>1 DEF Relinked, Quiet
  <2>2. AtFirst
    BY DEF CheckInv
  <2> QED
    BY <1>1, <2>1, <2>2, RowStutters, OpenStutters DEF AtFirst
<1>5. AtFirstFit => AtFirstFit'
  <2> SUFFICES ASSUME AtFirstFit PROVE AtFirstFit'
    OBVIOUS
  <2>1. ASSUME Memory({PageAt(0), PageAt(2)}, {}, {}, 5, {}, PageAt(5))
        PROVE  Memory({PageAt(0), PageAt(2)}, {}, {}, 5, {}, PageAt(5))'
    BY <1>1, <2>1 DEF Memory
  <2> QED
    BY <1>1, <2>1, RowStutters, OpenStutters DEF AtFirstFit
<1>6. AtBestFit => AtBestFit'
  BY <1>1, RowStutters, OpenStutters DEF AtBestFit
<1>7. Booted => IInv'
  <2> SUFFICES ASSUME Booted PROVE IInv'
    OBVIOUS
  <2>1. IInv
    BY DEF CheckInv
  <2>2. LinksInv' /\ BlocksInv'
    BY <1>1, <2>1, CallKeeps
  <2>3. JoinInv' /\ CallInv'
    BY <1>1, <2>1 DEF IInv, JoinInv, CallInv, OnList, BestFit
  <2> QED
    BY <2>2, <2>3 DEF IInv
<1>8. Booted' = Booted /\ BestFit' = BestFit
  BY <1>1 DEF Booted, Check, BestFit
<1> QED
  BY <1>3, <1>4, <1>5, <1>6, <1>7, <1>8 DEF CheckInv

\* The invariant holds before the check begins.
LEMMA CheckInitially ==
  ASSUME CheckInit
  PROVE  CheckInv
<1>1. Init /\ line = 1 /\ ~is_panic
  BY DEF CheckInit
<1>2. IInv /\ pc = "idle" /\ owned = {} /\ pmm_manager \in Managers
  BY <1>1, Initially DEF Init
<1>3. PICK n \in Nat : n = Len(Check) /\ n >= 46
  BY Lengths
<1>4. ~Booted
  BY <1>1, <1>3 DEF Booted
<1>5. CheckState
  <2>1. local \in [Names -> Int] /\ stored \in [next : Int, prev : Int, nr_free : Int]
    BY EntryTypes DEF CheckInit
  <2>2. line \in 1 .. (Len(Check) + 1)
    BY <1>1, <1>3
  <2> QED
    BY <1>1, <1>2, <2>1, <2>2 DEF CheckState
<1>6. Open({})
  BY <1>2 DEF Open
<1>7. AtFirst
  BY <1>1, <1>6 DEF AtFirst
<1>8. AtFirstFit /\ AtBestFit
  BY <1>1 DEF AtFirstFit, AtBestFit
<1>9. IF BestFit THEN AtBestFit ELSE AtFirstFit
  BY <1>8
<1> QED
  BY <1>4, <1>5, <1>7, <1>9 DEF CheckInv

\* After the boot callers keep the invariant, and only they act.
LEMMA BootedKeeps ==
  ASSUME Checkable, TailFrees = FALSE, CheckInv, CheckNext, Booted
  PROVE  /\ CheckInv' /\ Booted'
         /\ Next /\ IInv /\ IInv'
<1>1. Next /\ UNCHANGED checkVars /\ UNCHANGED pmm_manager /\ CheckState /\ IInv
  BY DEF CheckNext, CheckStep, BootedStep, CallAlloc, CallFree, CallStep, Look, Count, StoreList,
         StoreNrFree, RestoreList, RestoreNrFree, Executing, CheckInv, Next
<1>2. IInv'
  BY <1>1, NextStep
<1>3. PICK n \in Nat : /\ n = Len(Check) /\ n >= 46
                       /\ BestFit => n = 46
                       /\ ~BestFit => n = 53
  BY Lengths
<1>4. line' = line /\ line > n /\ Check' = Check /\ BestFit' = BestFit
  BY <1>1, <1>3 DEF Booted, checkVars, Check, BestFit
<1>5. Booted'
  BY <1>3, <1>4 DEF Booted
<1>6. CheckState'
  BY <1>1, CheckStateStays
<1>7. line' \in Nat
  BY <1>3, <1>4, <1>1 DEF CheckState
<1>8. AtFirst'
  <2>1. line' \in Int /\ line' > 46
    BY <1>3, <1>4, <1>7
  <2> QED
    BY <2>1 DEF AtFirst
<1>9. (IF BestFit THEN AtBestFit ELSE AtFirstFit)'
  <2>1. CASE BestFit
    <3>1. AtBestFit'
      BY <1>3, <1>4, <1>7, <2>1 DEF AtBestFit
    <3> QED
      BY <1>4, <2>1, <3>1
  <2>2. CASE ~BestFit
    <3>1. AtFirstFit'
      <4>2. n = 53 /\ line' = line
        BY <1>3, <1>4, <2>2, Zenon
      <4>3. line > n
        BY <1>4
      <4>4. line' \in Int /\ line' > 53
        BY <1>7, <4>2, <4>3
      <4> QED
        BY <4>4 DEF AtFirstFit
    <3> QED
      BY <1>4, <2>2, <3>1
  <2> QED
    BY <2>1, <2>2
<1> QED
  BY <1>1, <1>2, <1>5, <1>6, <1>8, <1>9 DEF CheckInv

\* Every step of the check keeps the invariant: one lemma for each statement.
LEMMA UnbootedKeeps ==
  ASSUME Checkable, CheckInv, CheckNext, ~Booted
  PROVE  CheckInv'
<1>1. PICK n \in Nat : /\ n = Len(Check)
                       /\ (BestFit /\ n = 46) \/ (~BestFit /\ n = 53)
  BY Lengths
<1>2. line \in 1 .. (n + 1)
  BY <1>1 DEF CheckInv, CheckState
<1>3. CASE line > n
  BY <1>1, <1>3 DEF Booted
<1>4. CASE line <= 31
  <2>1. line \in 1..31
    BY <1>2, <1>4
  <2>2. line <= 16 => CheckInv'
    BY <2>1, Line1, Line2, Line3, Line4, Line5, Line6, Line7, Line8, Line9, Line10, Line11,
       Line12, Line13, Line14, Line15, Line16
  <2>3. line > 16 => CheckInv'
    BY <2>1, Line17, Line18, Line19, Line20, Line21, Line22, Line23, Line24, Line25, Line26,
       Line27, Line28, Line29, Line30, Line31
  <2> QED
    BY <2>1, <2>2, <2>3
<1>5. CASE ~BestFit /\ line \in 32..53
  BY <1>5, FirstFit32, FirstFit33, FirstFit34, FirstFit35, FirstFit36, FirstFit37, FirstFit38,
     FirstFit39, FirstFit40, FirstFit41, FirstFit42, FirstFit43, FirstFit44, FirstFit45,
     FirstFit46, FirstFit47, FirstFit48, FirstFit49, FirstFit50, FirstFit51, FirstFit52,
     FirstFit53
<1>6. CASE BestFit /\ line \in 32..46
  BY <1>6, BestFit32, BestFit33, BestFit34, BestFit35, BestFit36, BestFit37, BestFit38,
     BestFit39, BestFit40, BestFit41, BestFit42, BestFit43, BestFit44, BestFit45, BestFit46
<1>7. BestFit /\ n = 46 => line > n \/ line <= 31 \/ line \in 32..46
  BY <1>2
<1>8. ~BestFit /\ n = 53 => line > n \/ line <= 31 \/ line \in 32..53
  BY <1>2
<1> QED
  BY <1>1, <1>3, <1>4, <1>5, <1>6, <1>7, <1>8

\* Pointers, blocks and what the check holds agree at every statement of
\* default_check and best_fit_check, and after the boot as long as callers free
\* no block above all free ones.
THEOREM CheckInductive ==
  ASSUME Checkable, TailFrees = FALSE
  PROVE  CheckSpec => []CheckInv
<1>1. CheckInit => CheckInv
  BY CheckInitially
<1>2. CheckInv /\ [CheckNext]_allVars => CheckInv'
  BY UnbootedKeeps, BootedKeeps, CheckStutters
<1> QED
  BY <1>1, <1>2, PTL DEF CheckSpec

\* No assertion of the boot check fails, whichever manager is compiled in,
\* however large the region is and whatever callers do once it has passed:
\* default_check and best_fit_check find what they expect, though the list they
\* make on the way points back at itself.
THEOREM CheckSucceeds ==
  ASSUME Checkable
  PROVE  CheckSpec => []CheckPasses
<1> DEFINE J == CheckPasses /\ (Booted \/ CheckInv)
<1>1. CheckInv => CheckPasses
  BY DEF CheckInv, CheckState, CheckPasses
<1>2. CheckInit => J
  BY <1>1, CheckInitially
<1>3. J /\ [CheckNext]_allVars => J'
  <2> SUFFICES ASSUME J, [CheckNext]_allVars PROVE J'
    OBVIOUS
  <2>1. CheckInv' => CheckPasses'
    BY DEF CheckInv, CheckState, CheckPasses
  <2>2. CASE ~Booted
    BY <2>1, <2>2, UnbootedKeeps, CheckStutters
  <2>3. CASE Booted
    <3>1. UNCHANGED <<checkVars, pmm_manager>>
      BY <2>3 DEF allVars, vars, CheckNext, CheckStep, BootedStep, CallAlloc, CallFree, CallStep,
                  Look, Count, StoreList, StoreNrFree, RestoreList, RestoreNrFree, Executing, Next
    <3> QED
      BY <2>3, <3>1 DEF checkVars, Booted, Check, BestFit, CheckPasses
  <2> QED
    BY <2>2, <2>3
<1> QED
  BY <1>2, <1>3, PTL DEF CheckSpec

\* A step ends at most one statement.
LEMMA OneStatement ==
  ASSUME CheckNext
  PROVE  line' \in {line, line + 1}
BY DEF CheckNext, CheckStep, BootedStep, CallAlloc, CallFree, CallStep, Look, Count, StoreList,
       StoreNrFree, RestoreList, RestoreNrFree, Assertion, checkVars

\* When the kernel has booted the whole region is free.
LEMMA Boot ==
  ASSUME Checkable, CheckInv, CheckNext, ~Booted, Booted'
  PROVE  (FreePages \cup HandPages = Region /\ owned = {} /\ pc = "idle")'
<1>1. PICK n \in Nat : /\ n = Len(Check)
                       /\ BestFit => n = 46
                       /\ ~BestFit => n = 53
  BY Lengths
<1>2. CheckState /\ line \in Nat /\ line <= n
  BY <1>1 DEF CheckInv, CheckState, Booted
<1>3. UNCHANGED pmm_manager
  BY StepsOfStatement
<1>4. line' > n
  <2>1. Check' = Check
    BY <1>3 DEF Check, BestFit
  <2> QED
    BY <1>1, <2>1 DEF Booted
<1>5. line = n
  BY <1>2, <1>4, OneStatement
<1>6. Recounted
  <2>1. CASE BestFit
    <3>1. line = 46 /\ AtBestFit
      BY <1>1, <1>5, <2>1 DEF CheckInv
    <3> QED
      BY <1>2, <2>1, <3>1, BestFitStatements DEF Recounted, AtBestFit, CheckState
  <2>2. CASE ~BestFit
    <3>1. line = 53 /\ AtFirstFit
      BY <1>1, <1>5, <2>2 DEF CheckInv
    <3> QED
      BY <1>2, <2>2, <3>1, FirstFitStatements DEF Recounted, AtFirstFit, CheckState
  <2> QED
    BY <2>1, <2>2
<1>7. (IInv /\ owned = {} /\ pc = "idle")'
  BY <1>6, RecountLine DEF Open
<1>8. (IInv => FreePages \cup HandPages = Region \ owned)'
  BY FreeOfInv, PTL
<1> QED
  BY <1>7, <1>8

\* Once booted, a step of the caller's allocator is one of the kernel's.
LEMMA BootedRefines ==
  ASSUME Booted, Booted', [PA!Next]_(PA!vars)
  PROVE  [PC!Next]_(PC!vars)
<1>1. CASE UNCHANGED PA!vars
  BY <1>1 DEF PA!vars, PC!vars
<1>2. CASE \E n \in Requests : PA!Ask(n)
  <2>1. PICK n \in Requests : PA!Ask(n)
    BY <1>2
  <2>2. PC!Ask(n)
    BY <2>1 DEF PA!Ask, PC!Ask, PA!NoCall, PC!NoCall
  <2> QED
    BY <2>2 DEF PC!Next
<1>3. CASE \E lo, hi \in Region : PA!Grant(lo, hi)
  <2>1. PICK lo \in Region, hi \in Region : PA!Grant(lo, hi)
    BY <1>3
  <2>2. PC!Grant(lo, hi)
    BY <2>1 DEF PA!Grant, PC!Grant, PA!NoCall, PC!NoCall
  <2> QED
    BY <2>2 DEF PC!Next
<1>4. CASE \E lo, hi \in Region : PA!Release(lo, hi)
  <2>1. PICK lo \in Region, hi \in Region : PA!Release(lo, hi)
    BY <1>4
  <2>2. PC!Release(lo, hi)
    BY <2>1 DEF PA!Release, PC!Release, PA!NoCall, PC!NoCall
  <2> QED
    BY <2>2 DEF PC!Next
<1>5. CASE PA!Refuse
  <2>1. PC!Refuse
    BY <1>5 DEF PA!Refuse, PC!Refuse, PA!NoCall, PC!NoCall
  <2> QED
    BY <2>1 DEF PC!Next
<1> QED
  BY <1>1, <1>2, <1>3, <1>4, <1>5 DEF PA!Next

\* Each step of the kernel is one of the allocator that callers meet.
LEMMA CheckRefines ==
  ASSUME Checkable, TailFrees = FALSE, CheckInv, CheckInv', [CheckNext]_allVars
  PROVE  [PC!Next]_(PC!vars)
<1>1. CASE UNCHANGED allVars
  <2>1. UNCHANGED <<vars, Booted>>
    BY <1>1 DEF allVars, checkVars, vars, Booted, Check, BestFit
  <2>2. Booted => (FreePages \cup HandPages)' = FreePages \cup HandPages
    <3> SUFFICES ASSUME Booted PROVE (FreePages \cup HandPages)' = FreePages \cup HandPages
      OBVIOUS
    <3>1. IInv /\ IInv'
      BY <2>1 DEF CheckInv
    <3>2. (IInv => FreePages \cup HandPages = Region \ owned)'
      BY FreeOfInv, PTL
    <3> QED
      BY <2>1, <3>1, <3>2, FreeOfInv DEF vars
  <2>3. pc' = pc /\ arg' = arg /\ owned' = owned
    BY <2>1 DEF vars
  <2> QED
    BY <2>1, <2>2, <2>3 DEF PC!vars
<1>2. CASE CheckNext /\ ~Booted /\ ~Booted'
  BY <1>2 DEF PC!vars
<1>3. CASE CheckNext /\ ~Booted /\ Booted'
  <2>1. (FreePages \cup HandPages)' = Region /\ owned' = {} /\ pc' = "idle"
    BY <1>3, Boot
  <2> QED
    BY <1>3, <2>1 DEF PC!vars
<1>4. CASE CheckNext /\ Booted
  <2>1. Booted' /\ Next /\ IInv /\ IInv'
    BY <1>4, BootedKeeps
  <2>2. (IInv => FreePages \cup HandPages = Region \ owned)'
    BY FreeOfInv, PTL
  <2>3. [PA!Next]_(PA!vars)
    BY <2>1, <2>2, RefinementStep
  <2> QED
    BY <1>4, <2>1, <2>3, BootedRefines
<1> QED
  BY <1>1, <1>2, <1>3, <1>4

\* Callers never notice the check: they meet an allocator with the whole region
\* free, which serves them as PageAllocator says.
THEOREM CheckInvisible ==
  ASSUME Checkable, TailFrees = FALSE
  PROVE  CheckSpec => CheckThenAllocate
<1>1. CheckInit => PC!Init
  <2> SUFFICES ASSUME CheckInit PROVE PC!Init
    OBVIOUS
  <2>1. ~Booted
    <3>1. PICK n \in Nat : n = Len(Check) /\ n >= 46
      BY Lengths
    <3> QED
      BY <3>1 DEF Booted, CheckInit
  <2> QED
    BY <2>1 DEF PC!Init, PC!NoCall
<1>2. CheckInv /\ CheckInv' /\ [CheckNext]_allVars => [PC!Next]_(PC!vars)
  BY CheckRefines
<1>3. CheckSpec => []CheckInv
  BY CheckInductive
<1> QED
  BY <1>1, <1>2, <1>3, PTL DEF CheckSpec, CheckThenAllocate, PC!Spec
=============================================================================
