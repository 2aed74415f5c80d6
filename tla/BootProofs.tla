----------------------------- MODULE BootProofs -----------------------------
(***************************************************************************)
(* Proofs about the walk over the device tree and about page_init, for     *)
(* every tree of the form the format prescribes and every size of memory   *)
(* that the machine can address.                                           *)
(***************************************************************************)
EXTENDS Boot, TLAPS, FiniteSetTheorems, Numbers

-----------------------------------------------------------------------------
(* Where the entries are.                                                  *)

\* The recursive function exists.
LEMMA StartUnfolds ==
  ASSUME Len(tree) \in Nat, NEW i \in 1..Len(tree)
  PROVE  Start[i] = IF i = 1 THEN 0 ELSE Start[i - 1] + EntryBytes(tree[i - 1])
<1> DEFINE At1(f, k) == IF k = 1 THEN 0 ELSE f[k - 1] + EntryBytes(tree[k - 1])
           IsStart(n, f) == f = [k \in 1..n |-> At1(f, k)]
           T == {n \in Nat : ~ \E f : IsStart(n, f)}
<1>1. T = {}
  <2>1. SUFFICES ASSUME T # {} PROVE FALSE
    OBVIOUS
  <2>2. PICK n \in T : \A m \in T : n <= m
    <3>1. T \in SUBSET Nat
      OBVIOUS
    <3> HIDE DEF T
    <3> QED
      BY <2>1, <3>1, LeastNatural
  <2>3. n \in Nat /\ ~ \E f : IsStart(n, f)
    OBVIOUS
  <2>4. CASE n = 0
    <3> DEFINE f == [k \in 1..0 |-> 0]
    <3>1. IsStart(0, f)
      OBVIOUS
    <3> QED
      BY <2>3, <2>4, <3>1
  <2>5. CASE n # 0
    <3>1. n - 1 \in Nat /\ n - 1 \notin T
      <4> HIDE DEF T
      <4> QED
        BY <2>2, <2>3, <2>5
    <3>2. PICK f : IsStart(n - 1, f)
      BY <3>1
    <3> DEFINE g == [k \in 1..n |-> IF k = n THEN At1(f, n) ELSE f[k]]
    <3>3. ASSUME NEW k \in 1..n PROVE g[k] = At1(g, k)
      <4>1. CASE k = 1 /\ k # n
        <5>1. k \in 1..(n - 1)
          BY <2>3, <4>1
        <5> QED
          BY <3>2, <4>1, <5>1
      <4>2. CASE k # 1 /\ k # n
        <5>1. k \in 1..(n - 1) /\ k - 1 \in 1..n /\ k - 1 # n
          BY <2>3, <4>2
        <5> QED
          BY <3>2, <4>2, <5>1
      <4>3. CASE k = n
        <5>1. n # 1 => n - 1 \in 1..n /\ n - 1 # n
          BY <2>3, <2>5
        <5> QED
          BY <4>3, <5>1
      <4> QED
        BY <4>1, <4>2, <4>3
    <3>4. IsStart(n, g)
      BY <3>3
    <3> QED
      BY <2>3, <3>4
  <2> QED
    BY <2>4, <2>5
<1>2. IsStart(Len(tree), Start)
  <2>1. \E f : IsStart(Len(tree), f)
    BY <1>1
  <2>2. Start = CHOOSE f : IsStart(Len(tree), f)
    BY DEF Start
  <2> QED
    BY <2>1, <2>2
<1> QED
  BY <1>2

\* An entry has a positive number of words.
LEMMA EntryWords ==
  ASSUME tree \in Trees, NEW i \in 1..Len(tree)
  PROVE  \E w \in Nat \ {0} : EntryBytes(tree[i]) = 4 * w
<1>1. ASSUME NEW n \in Nat
      PROVE  \E w \in Nat : Padded(n) = 4 * w
  BY n + 3 \in Nat, (n + 3) \div 4 \in Nat DEF Padded
<1>2. CASE tree[i].token = "BEGIN_NODE"
  <2>1. NameLength[tree[i].name] + 1 \in Nat
    BY <1>2, TreesAssumption
  <2>2. PICK w \in Nat : Padded(NameLength[tree[i].name] + 1) = 4 * w
    BY <1>1, <2>1
  <2>3. EntryBytes(tree[i]) = 4 * (w + 1)
    BY <1>2, <2>2 DEF EntryBytes
  <2> QED
    BY <2>3, w + 1 \in Nat \ {0}
<1>3. CASE tree[i].token = "PROP"
  <2>1. tree[i].len \in Nat
    BY <1>3, TreesAssumption
  <2>2. PICK w \in Nat : Padded(tree[i].len) = 4 * w
    BY <1>1, <2>1
  <2>3. EntryBytes(tree[i]) = 4 * (w + 3)
    BY <1>3, <2>2 DEF EntryBytes
  <2> QED
    BY <2>3, w + 3 \in Nat \ {0}
<1>4. CASE tree[i].token \notin {"BEGIN_NODE", "PROP"}
  <2>1. EntryBytes(tree[i]) = 4 * 1
    BY <1>4 DEF EntryBytes
  <2> QED
    BY <2>1, 1 \in Nat \ {0}
<1> QED
  BY <1>2, <1>3, <1>4

\* Entries start at multiples of 4.
LEMMA StartWords ==
  ASSUME tree \in Trees
  PROVE  \A i \in 1..Len(tree) : \E w \in Nat : Start[i] = 4 * w
<1> DEFINE T == {i \in 1..Len(tree) : ~ \E w \in Nat : Start[i] = 4 * w}
<1>1. SUFFICES ASSUME T # {} PROVE FALSE
  OBVIOUS
<1>2. Len(tree) \in Nat
  BY TreesAssumption
<1>3. PICK i \in T : \A k \in T : i <= k
  <2>1. T \in SUBSET Nat
    BY <1>2
  <2> HIDE DEF T
  <2> QED
    BY <1>1, <2>1, LeastNatural
<1>4. i \in 1..Len(tree) /\ i \in Nat
  BY <1>2
<1>5. CASE i = 1
  BY <1>2, <1>4, <1>5, StartUnfolds, Start[i] = 4 * 0
<1>6. CASE i # 1
  <2>1. i - 1 \in 1..Len(tree) /\ i - 1 \notin T
    <3>1. i - 1 \in 1..Len(tree) /\ ~(i <= i - 1)
      BY <1>2, <1>4, <1>6
    <3> HIDE DEF T
    <3> QED
      BY <1>3, <3>1
  <2>2. PICK w \in Nat : Start[i - 1] = 4 * w
    BY <2>1
  <2>3. PICK v \in Nat \ {0} : EntryBytes(tree[i - 1]) = 4 * v
    BY <2>1, EntryWords
  <2>4. Start[i] = 4 * (w + v)
    BY <1>2, <1>4, <1>6, <2>2, <2>3, StartUnfolds
  <2> QED
    BY <2>4, w + v \in Nat
<1> QED
  BY <1>5, <1>6

\* No two entries start at the same byte.
LEMMA StartsApart ==
  ASSUME tree \in Trees, NEW j \in 1..Len(tree)
  PROVE  \A i \in 1..Len(tree) : j < i => Start[j] < Start[i]
<1> DEFINE T == {i \in 1..Len(tree) : j < i /\ ~(Start[j] < Start[i])}
<1>1. SUFFICES ASSUME T # {} PROVE FALSE
  OBVIOUS
<1>2. Len(tree) \in Nat
  BY TreesAssumption
<1>3. PICK i \in T : \A k \in T : i <= k
  <2>1. T \in SUBSET Nat
    BY <1>2
  <2> HIDE DEF T
  <2> QED
    BY <1>1, <2>1, LeastNatural
<1>4. i \in 1..Len(tree) /\ i \in Nat /\ j < i /\ ~(Start[j] < Start[i])
  BY <1>2
<1>5. i - 1 \in 1..Len(tree) /\ i - 1 \notin T
  <2>1. i - 1 \in 1..Len(tree) /\ ~(i <= i - 1)
    BY <1>2, <1>4
  <2> HIDE DEF T
  <2> QED
    BY <1>3, <2>1
<1>6. PICK v \in Nat \ {0} : EntryBytes(tree[i - 1]) = 4 * v
  BY <1>5, EntryWords
<1>7. PICK w \in Nat : Start[i - 1] = 4 * w
  BY <1>5, StartWords
<1>8. PICK u \in Nat : Start[j] = 4 * u
  BY StartWords
<1>9. Start[i] = Start[i - 1] + EntryBytes(tree[i - 1])
  BY <1>2, <1>4, StartUnfolds
<1>10. Start[j] <= Start[i - 1]
  <2>1. CASE j = i - 1
    BY <2>1, <1>8
  <2>2. CASE j # i - 1
    BY <2>2, <1>2, <1>4, <1>5, <1>7, <1>8
  <2> QED
    BY <2>1, <2>2
<1> QED
  BY <1>4, <1>6, <1>7, <1>8, <1>9, <1>10

LEMMA NextEntry ==
  ASSUME tree \in Trees, NEW i \in 1..Len(tree), tree[i].token # "END"
  PROVE  /\ i + 1 \in 1..Len(tree)
         /\ Start[i + 1] = Start[i] + EntryBytes(tree[i])
<1>1. Len(tree) \in Nat /\ i # Len(tree)
  BY TreesAssumption
<1>2. i + 1 \in 1..Len(tree) /\ i + 1 # 1 /\ (i + 1) - 1 = i
  BY <1>1
<1> QED
  BY <1>1, <1>2, StartUnfolds

\* Rounding up to a word, as the code does it, ends where the format says.
LEMMA RoundsToNext ==
  ASSUME NEW w \in Nat, NEW n \in Nat, NEW m \in Nat
  PROVE  ((4 * w + 4 * m + n + 3) \div 4) * 4 = 4 * w + 4 * m + Padded(n)
<1>1. (4 * w + 4 * m + n + 3) \div 4 = w + m + (n + 3) \div 4
  OBVIOUS
<1> QED
  BY <1>1 DEF Padded

\* However an entry is skipped, the walk is at the next one.
LEMMA Skips ==
  ASSUME tree \in Trees, NEW i \in 1..Len(tree), Start[i] = struct_ptr
  PROVE  /\ tree[i].token = "BEGIN_NODE" =>
              ((struct_ptr + 4 + NameLength[tree[i].name] + 4) \div 4) * 4 = Start[i + 1]
         /\ tree[i].token = "PROP" =>
              ((struct_ptr + 12 + tree[i].len + 3) \div 4) * 4 = Start[i + 1]
         /\ tree[i].token \in {"END_NODE", "NOP"} => struct_ptr + 4 = Start[i + 1]
<1>1. PICK w \in Nat : struct_ptr = 4 * w
  BY StartWords
<1>2. ASSUME tree[i].token = "BEGIN_NODE"
      PROVE  ((struct_ptr + 4 + NameLength[tree[i].name] + 4) \div 4) * 4 = Start[i + 1]
  <2> DEFINE n == NameLength[tree[i].name] + 1
  <2>1. NameLength[tree[i].name] \in Nat /\ n \in Nat
    BY <1>2, TreesAssumption
  <2>2. struct_ptr + 4 + NameLength[tree[i].name] + 4 = 4 * w + 4 * 1 + n + 3
    BY <1>1, <2>1
  <2>3. Start[i + 1] = 4 * w + 4 * 1 + Padded(n)
    <3>1. EntryBytes(tree[i]) = 4 + Padded(n)
      BY <1>2 DEF EntryBytes
    <3>2. Padded(n) \in Int
      BY <2>1 DEF Padded
    <3> HIDE DEF n
    <3> QED
      BY <1>1, <1>2, <3>1, <3>2, NextEntry
  <2> HIDE DEF n
  <2> QED
    BY <2>1, <2>2, <2>3, RoundsToNext
<1>3. ASSUME tree[i].token = "PROP"
      PROVE  ((struct_ptr + 12 + tree[i].len + 3) \div 4) * 4 = Start[i + 1]
  <2>1. tree[i].len \in Nat
    BY <1>3, TreesAssumption
  <2>2. struct_ptr + 12 + tree[i].len + 3 = 4 * w + 4 * 3 + tree[i].len + 3
    BY <1>1, <2>1
  <2>3. Start[i + 1] = 4 * w + 4 * 3 + Padded(tree[i].len)
    <3>1. EntryBytes(tree[i]) = 12 + Padded(tree[i].len)
      BY <1>3 DEF EntryBytes
    <3>2. Padded(tree[i].len) \in Int
      BY <2>1 DEF Padded
    <3> QED
      BY <1>1, <1>3, <3>1, <3>2, NextEntry
  <2> QED
    BY <2>1, <2>2, <2>3, RoundsToNext
<1>4. ASSUME tree[i].token \in {"END_NODE", "NOP"}
      PROVE  struct_ptr + 4 = Start[i + 1]
  <2>1. EntryBytes(tree[i]) = 4
    BY <1>4 DEF EntryBytes
  <2> QED
    BY <1>4, <2>1, NextEntry
<1> QED
  BY <1>2, <1>3, <1>4

-----------------------------------------------------------------------------
(* The walk keeps in step.                                                 *)

\* Where the boot is, and in the walk, at which entry.
CursorInv ==
  /\ tree \in Trees \cup {<<>>}
  /\ in_memory_node \in BOOLEAN
  /\ pc = "dtb_init" => struct_ptr = 0
  /\ pc = "token" => tree \in Trees /\ \E i \in 1..Len(tree) : Start[i] = struct_ptr

LEMMA StartKept == tree' = tree => Start' = Start
BY DEF Start, EntryBytes, Padded

\* One step of the walk.
WalkStep(i) ==
  \/ OnBeginNode(i) \/ OnEndNode(i) \/ OnReg(i) \/ OnOtherProp(i) \/ OnNop(i) \/ OnEnd(i)

\* A step of the walk ends it, or goes on to the next entry.
LEMMA Advances ==
  ASSUME CursorInv, NEW i \in 1..Len(tree), WalkStep(i)
  PROVE  /\ tree' = tree /\ tree \in Trees
         /\ pc = "token" /\ Start[i] = struct_ptr
         /\ in_memory_node' \in BOOLEAN
         /\ \/ pc' = "page_init"
            \/ /\ pc' = "token"
               /\ i + 1 \in 1..Len(tree)
               /\ struct_ptr' = Start[i + 1]
               /\ UNCHANGED <<memory_base, memory_size>>
<1>1. /\ tree' = tree
      /\ pc = "token" /\ Start[i] = struct_ptr
      /\ in_memory_node' \in BOOLEAN
  BY DEF WalkStep, OnBeginNode, OnEndNode, OnReg, OnOtherProp, OnNop, OnEnd, At, CursorInv
<1>2. tree \in Trees
  BY <1>1 DEF CursorInv
<1>3. CASE OnBeginNode(i) \/ OnEndNode(i) \/ OnOtherProp(i) \/ OnNop(i)
  <2>1. /\ tree[i].token # "END"
        /\ pc' = "token" /\ UNCHANGED <<memory_base, memory_size>>
    BY <1>1, <1>3 DEF OnBeginNode, OnEndNode, OnOtherProp, OnNop, At
  <2>2. struct_ptr' = Start[i + 1]
    BY <1>1, <1>2, <1>3, Skips DEF OnBeginNode, OnEndNode, OnOtherProp, OnNop, At
  <2> QED
    BY <1>1, <1>2, <2>1, <2>2, NextEntry
<1>4. CASE OnReg(i) \/ OnEnd(i)
  BY <1>1, <1>2, <1>4 DEF OnReg, OnEnd
<1> QED
  BY <1>1, <1>2, <1>3, <1>4 DEF WalkStep

LEMMA FirstStart == tree \in Trees => 1 \in 1..Len(tree) /\ Start[1] = 0
<1> SUFFICES ASSUME tree \in Trees PROVE 1 \in 1..Len(tree) /\ Start[1] = 0
  OBVIOUS
<1>1. Len(tree) \in Nat /\ 1 \in 1..Len(tree)
  BY TreesAssumption
<1> QED
  BY <1>1, StartUnfolds

LEMMA CursorInitially == Init => CursorInv
BY DEF Init, DtbInit, CursorInv

LEMMA CursorStep == CursorInv /\ [Next]_vars => CursorInv'
<1> SUFFICES ASSUME CursorInv, [Next]_vars PROVE CursorInv'
  OBVIOUS
<1>1. CASE dtb_init
  <2>1. tree' = tree /\ in_memory_node' = in_memory_node /\ pc' # "dtb_init" /\ Start' = Start
    BY <1>1, StartKept DEF dtb_init
  <2>2. pc' = "token" => tree \in Trees /\ struct_ptr' = 0
    BY <1>1 DEF dtb_init, CursorInv
  <2> QED
    BY <2>1, <2>2, FirstStart DEF CursorInv
<1>2. ASSUME NEW i \in 1..Len(tree), WalkStep(i) PROVE CursorInv'
  <2>1. Start' = Start
    BY <1>2, Advances, StartKept
  <2> QED
    BY <1>2, <2>1, Advances DEF CursorInv
<1>3. CASE NoMemoryPanic \/ page_init
  BY <1>3 DEF NoMemoryPanic, page_init, CursorInv
<1>4. CASE UNCHANGED vars
  <2>1. Start' = Start
    BY <1>4, StartKept DEF vars, dtbVars
  <2> QED
    BY <1>4, <2>1 DEF vars, dtbVars, CursorInv
<1> QED
  BY <1>1, <1>2, <1>3, <1>4 DEF Next, DtbStep, Spin, WalkStep

\* The walk reads tokens only where entries start, in every tree of the form
\* the format prescribes, whatever the lengths of names and properties
\* (extract_memory_info).
THEOREM InStep == Spec => []CursorInStep
<1>1. CursorInv => CursorInStep
  BY DEF CursorInv, CursorInStep
<1> QED
  BY CursorInitially, CursorStep, <1>1, PTL DEF Spec

-----------------------------------------------------------------------------
(* The walk finds the memory.                                              *)

\* Entry i is in the body of a memory node of t.
InMemoryBody(t, i) ==
  \E j \in 1..Len(t) : t[j].name \in MemoryNodes /\ InBody(t, j, i)

LEMMA OneMember ==
  ASSUME NEW x
  PROVE  Cardinality({x}) = 1
BY FS_Singleton

\* In a plain tree a property is in a memory node when it is in its body.
LEMMA BodyIsNode ==
  ASSUME tree \in Trees, PlainMemory(tree), NEW i \in 1..Len(tree), tree[i].token = "PROP"
  PROVE  InMemoryNode(i) <=> InMemoryBody(tree, i)
<1>1. Len(tree) \in Nat /\ i \in Nat
  BY TreesAssumption
<1>2. ASSUME InMemoryBody(tree, i) PROVE InMemoryNode(i)
  <2>1. PICK j \in 1..Len(tree) : tree[j].name \in MemoryNodes /\ InBody(tree, j, i)
    BY <1>2 DEF InMemoryBody
  <2>2. j \in 1..(i - 1) /\ tree[j].token = "BEGIN_NODE"
    BY <1>1, <2>1 DEF InBody
  <2>3. ASSUME NEW k \in j..i
        PROVE  Count("BEGIN_NODE", j, k) > Count("END_NODE", j, k)
    <3>1. {m \in j..k : tree[m].token = "BEGIN_NODE"} = {j}
      BY <1>1, <2>1, <2>2 DEF InBody
    <3>2. {m \in j..k : tree[m].token = "END_NODE"} = {}
      BY <1>1, <2>1, <2>2 DEF InBody
    <3>3. Cardinality({}) = 0
      BY FS_EmptySet
    <3>4. Count("BEGIN_NODE", j, k) = 1 /\ Count("END_NODE", j, k) = 0
      BY <3>1, <3>2, <3>3, OneMember DEF Count
    <3> QED
      BY <3>4
  <2>4. OpenAt(j, i)
    BY <2>2, <2>3 DEF OpenAt
  <2>5. \A k \in (j + 1)..(i - 1) : ~OpenAt(k, i)
    BY <2>1 DEF InBody, OpenAt
  <2> QED
    BY <2>1, <2>2, <2>4, <2>5 DEF InMemoryNode
<1>3. ASSUME InMemoryNode(i) PROVE InMemoryBody(tree, i)
  <2>1. PICK j \in 1..(i - 1) : OpenAt(j, i) /\ tree[j].name \in MemoryNodes
    BY <1>3 DEF InMemoryNode
  <2>2. j \in 1..Len(tree) /\ tree[j].token = "BEGIN_NODE"
    BY <1>1, <2>1 DEF OpenAt
  <2>3. PICK e \in 1..Len(tree) : InBody(tree, j, e) /\ tree[e].token = "END_NODE"
    BY <2>1, <2>2 DEF PlainMemory
  <2>4. j < e /\ e # i
    BY <2>3 DEF InBody
  <2>5. ~(e < i)
    <3> SUFFICES ASSUME e < i PROVE FALSE
      OBVIOUS
    <3>1. {m \in j..e : tree[m].token = "BEGIN_NODE"} = {j}
      BY <1>1, <2>2, <2>3, <2>4 DEF InBody
    <3>2. {m \in j..e : tree[m].token = "END_NODE"} = {e}
      BY <1>1, <2>2, <2>3, <2>4 DEF InBody
    <3>3. Count("BEGIN_NODE", j, e) = 1 /\ Count("END_NODE", j, e) = 1
      BY <3>1, <3>2, OneMember DEF Count
    <3>4. e \in j..i
      BY <1>1, <2>4
    <3> QED
      BY <2>1, <3>3, <3>4 DEF OpenAt
  <2>6. InBody(tree, j, i)
    BY <1>1, <2>1, <2>2, <2>3, <2>4, <2>5 DEF InBody
  <2> QED
    BY <2>1, <2>2, <2>6 DEF InMemoryBody
<1> QED
  BY <1>2, <1>3

\* The flag tells whether the walk is in the body of a memory node, and no reg
\* of a memory node has been passed.
FlagInv ==
  /\ pc \in {"dtb_init", "token"} => memory_base = 0 /\ memory_size = 0
  /\ pc = "dtb_init" => ~in_memory_node
  /\ pc = "token" => \A i \in 1..Len(tree) :
       Start[i] = struct_ptr =>
         /\ in_memory_node <=> InMemoryBody(tree, i)
         /\ \A k \in MemoryRegs : i <= k

WalkInv == CursorInv /\ FlagInv /\ MemoryFound

LEMMA RegsKept == tree' = tree => MemoryRegs' = MemoryRegs
BY DEF MemoryRegs, InMemoryNode, OpenAt, Count

\* The walk is at one entry.
LEMMA OnePlace ==
  ASSUME tree \in Trees, NEW i \in 1..Len(tree), NEW k \in 1..Len(tree), Start[i] = Start[k]
  PROVE  i = k
<1>1. Len(tree) \in Nat /\ Start[i] \in Int /\ Start[k] \in Int
  BY StartWords, TreesAssumption
<1>2. ~(i < k) /\ ~(k < i)
  BY <1>1, StartsApart
<1> QED
  BY <1>1, <1>2

\* How being in a body goes on from an entry to the next.
LEMMA NextBody ==
  ASSUME tree \in Trees, PlainMemory(tree), NEW i \in 1..Len(tree)
  PROVE  /\ tree[i].token = "BEGIN_NODE" =>
              /\ ~InMemoryBody(tree, i)
              /\ InMemoryBody(tree, i + 1) <=> tree[i].name \in MemoryPrefix
         /\ tree[i].token = "END_NODE" => ~InMemoryBody(tree, i + 1)
         /\ tree[i].token \in {"PROP", "NOP"} =>
              (InMemoryBody(tree, i + 1) <=> InMemoryBody(tree, i))
<1>1. Len(tree) \in Nat
  BY TreesAssumption
<1>2. ASSUME NEW j \in 1..Len(tree)
      PROVE  InBody(tree, j, i + 1) <=>
               \/ j = i /\ tree[i].token = "BEGIN_NODE"
               \/ InBody(tree, j, i) /\ tree[i].token \notin {"BEGIN_NODE", "END_NODE"}
  BY <1>1 DEF InBody
<1>3. ASSUME tree[i].token = "BEGIN_NODE" PROVE ~InMemoryBody(tree, i)
  <2>1. SUFFICES ASSUME NEW j \in 1..Len(tree), tree[j].name \in MemoryNodes, InBody(tree, j, i)
                 PROVE  FALSE
    BY DEF InMemoryBody
  <2>2. PICK e \in 1..Len(tree) : InBody(tree, j, e) /\ tree[e].token = "END_NODE"
    BY <2>1 DEF PlainMemory, InBody
  <2>3. e # i /\ j < i /\ j < e
    BY <1>3, <2>1, <2>2 DEF InBody
  <2>4. CASE e < i
    BY <1>1, <2>1, <2>2, <2>3, <2>4 DEF InBody
  <2>5. CASE i < e
    BY <1>1, <1>3, <2>2, <2>3, <2>5 DEF InBody
  <2> QED
    BY <1>1, <2>3, <2>4, <2>5
<1>4. ASSUME tree[i].token = "BEGIN_NODE"
      PROVE  InMemoryBody(tree, i + 1) <=> tree[i].name \in MemoryPrefix
  BY <1>2, <1>4 DEF InMemoryBody, PlainMemory
<1>5. ASSUME tree[i].token = "END_NODE" PROVE ~InMemoryBody(tree, i + 1)
  BY <1>2, <1>5 DEF InMemoryBody
<1>6. ASSUME tree[i].token \in {"PROP", "NOP"}
      PROVE  InMemoryBody(tree, i + 1) <=> InMemoryBody(tree, i)
  BY <1>2, <1>6 DEF InMemoryBody
<1> QED
  BY <1>3, <1>4, <1>5, <1>6

\* The walk starts outside every node, before every reg.
LEMMA FlagAtStart ==
  ASSUME WalkInv, dtb_init
  PROVE  FlagInv' /\ MemoryFound'
<1>1. /\ tree' = tree /\ MemoryRegs' = MemoryRegs /\ Start' = Start
      /\ pc' # "dtb_init" /\ struct_ptr' = 0
      /\ ~in_memory_node' /\ memory_base' = 0 /\ memory_size' = 0
  BY StartKept, RegsKept DEF dtb_init, WalkInv, CursorInv, FlagInv
<1>2. MemoryRegs \subseteq 1..Len(tree)
  BY DEF MemoryRegs
<1>3. CASE tree = <<>>
  <2>1. MemoryRegs = {} /\ pc' = "page_init"
    BY <1>2, <1>3 DEF dtb_init
  <2> QED
    BY <1>1, <2>1 DEF FlagInv, MemoryFound
<1>4. CASE tree # <<>>
  <2>1. tree \in Trees /\ pc' = "token"
    BY <1>4 DEF dtb_init, WalkInv, CursorInv
  <2>2. ASSUME NEW i \in 1..Len(tree), Start[i] = 0
        PROVE  ~InMemoryBody(tree, i) /\ \A k \in MemoryRegs : i <= k
    <3>1. i = 1
      BY <2>1, <2>2, FirstStart, OnePlace
    <3> QED
      BY <1>2, <3>1 DEF InMemoryBody, InBody
  <2> QED
    BY <1>1, <2>1, <2>2 DEF FlagInv, MemoryFound
<1> QED
  BY <1>3, <1>4

\* What a step of the walk makes of the flag.
LEMMA FlagFollows ==
  ASSUME WalkInv, PlainMemory(tree), NEW i \in 1..Len(tree), WalkStep(i), pc' = "token"
  PROVE  /\ in_memory_node' <=> InMemoryBody(tree, i + 1)
         /\ i \notin MemoryRegs
<1>1. tree \in Trees /\ pc = "token" /\ Start[i] = struct_ptr
  BY Advances DEF WalkInv
<1>2. in_memory_node <=> InMemoryBody(tree, i)
  BY <1>1 DEF WalkInv, FlagInv
<1>3. ASSUME OnBeginNode(i)
      PROVE  (in_memory_node' <=> InMemoryBody(tree, i + 1)) /\ i \notin MemoryRegs
  <2>1. tree[i].token = "BEGIN_NODE"
    BY <1>3 DEF OnBeginNode, At
  <2>2. in_memory_node' <=> in_memory_node \/ tree[i].name \in MemoryPrefix
    BY <1>3 DEF OnBeginNode
  <2>3. i \notin MemoryRegs
    BY <2>1 DEF MemoryRegs
  <2> QED
    BY <1>1, <1>2, <2>1, <2>2, <2>3, NextBody
<1>4. ASSUME OnEndNode(i)
      PROVE  (in_memory_node' <=> InMemoryBody(tree, i + 1)) /\ i \notin MemoryRegs
  <2>1. tree[i].token = "END_NODE" /\ ~in_memory_node'
    BY <1>4 DEF OnEndNode, At
  <2>2. i \notin MemoryRegs
    BY <2>1 DEF MemoryRegs
  <2> QED
    BY <1>1, <2>1, <2>2, NextBody
<1>5. ASSUME OnOtherProp(i)
      PROVE  (in_memory_node' <=> InMemoryBody(tree, i + 1)) /\ i \notin MemoryRegs
  <2>1. /\ tree[i].token = "PROP"
        /\ in_memory_node' = in_memory_node
        /\ ~(in_memory_node /\ tree[i].name = "reg" /\ tree[i].len >= 16)
    BY <1>5 DEF OnOtherProp, At
  <2>2. i \notin MemoryRegs
    BY <1>1, <1>2, <2>1, BodyIsNode DEF MemoryRegs
  <2> QED
    BY <1>1, <1>2, <2>1, <2>2, NextBody
<1>6. ASSUME OnNop(i)
      PROVE  (in_memory_node' <=> InMemoryBody(tree, i + 1)) /\ i \notin MemoryRegs
  <2>1. tree[i].token = "NOP" /\ in_memory_node' = in_memory_node
    BY <1>6 DEF OnNop, At
  <2>2. i \notin MemoryRegs
    BY <2>1 DEF MemoryRegs
  <2> QED
    BY <1>1, <1>2, <2>1, <2>2, NextBody
<1>7. ~OnReg(i) /\ ~OnEnd(i)
  BY DEF OnReg, OnEnd
<1> QED
  BY <1>3, <1>4, <1>5, <1>6, <1>7 DEF WalkStep

\* The reg that ends the walk is that of the first memory node, and where the
\* tree ends there is none.
LEMMA FoundAtEnd ==
  ASSUME WalkInv, PlainMemory(tree), NEW i \in 1..Len(tree), WalkStep(i), pc' # "token"
  PROVE  MemoryFound'
<1>1. tree' = tree /\ tree \in Trees /\ pc = "token" /\ Start[i] = struct_ptr
  BY Advances DEF WalkInv
<1>2. MemoryRegs' = MemoryRegs
  BY <1>1, RegsKept
<1>3. (in_memory_node <=> InMemoryBody(tree, i)) /\ \A k \in MemoryRegs : i <= k
  BY <1>1 DEF WalkInv, FlagInv
<1>4. Len(tree) \in Nat /\ MemoryRegs \subseteq 1..Len(tree)
  BY <1>1, TreesAssumption DEF MemoryRegs
<1>5. CASE OnReg(i)
  <2>1. i \in MemoryRegs
    BY <1>1, <1>3, <1>5, BodyIsNode DEF MemoryRegs, OnReg, At
  <2>2. ASSUME NEW k \in MemoryRegs, \A m \in MemoryRegs : k <= m
        PROVE  k = i
    BY <1>3, <1>4, <2>1, <2>2
  <2>3. i = CHOOSE k \in MemoryRegs : \A m \in MemoryRegs : k <= m
    BY <1>3, <2>1, <2>2
  <2>4. memory_base' = tree[i].base /\ memory_size' = tree[i].size
    BY <1>5 DEF OnReg
  <2> HIDE DEF MemoryRegs
  <2> QED
    BY <1>1, <1>2, <2>1, <2>3, <2>4 DEF MemoryFound
<1>6. CASE OnEnd(i)
  <2>1. i = Len(tree) /\ tree[i].token = "END"
    BY <1>1, <1>6, TreesAssumption DEF OnEnd, At
  <2>2. MemoryRegs = {}
    <3>1. \A k \in MemoryRegs : k = i
      BY <1>3, <1>4, <2>1
    <3>2. i \notin MemoryRegs
      BY <2>1 DEF MemoryRegs
    <3> QED
      BY <3>1, <3>2
  <2>3. memory_base' = 0 /\ memory_size' = 0
    BY <1>1, <1>6 DEF OnEnd, WalkInv, FlagInv
  <2> QED
    BY <1>2, <2>2, <2>3 DEF MemoryFound
<1>7. ~OnBeginNode(i) /\ ~OnEndNode(i) /\ ~OnOtherProp(i) /\ ~OnNop(i)
  BY <1>1 DEF OnBeginNode, OnEndNode, OnOtherProp, OnNop
<1> QED
  BY <1>5, <1>6, <1>7 DEF WalkStep

LEMMA WalkInitially == Init => WalkInv
BY CursorInitially DEF Init, DtbInit, WalkInv, FlagInv, MemoryFound

LEMMA WalkInvStep ==
  ASSUME \A t \in Trees : PlainMemory(t)
  PROVE  WalkInv /\ [Next]_vars => WalkInv'
<1> SUFFICES ASSUME WalkInv, [Next]_vars PROVE WalkInv'
  OBVIOUS
<1>1. CursorInv'
  BY CursorStep DEF WalkInv
<1>2. CASE dtb_init
  BY <1>1, <1>2, FlagAtStart DEF WalkInv
<1>3. ASSUME NEW i \in 1..Len(tree), WalkStep(i) PROVE FlagInv' /\ MemoryFound'
  <2>1. /\ tree' = tree /\ tree \in Trees /\ PlainMemory(tree)
        /\ Start' = Start /\ MemoryRegs' = MemoryRegs /\ pc = "token"
    BY <1>3, Advances, StartKept, RegsKept DEF WalkInv
  <2>2. CASE pc' = "token"
    <3>1. /\ i + 1 \in 1..Len(tree) /\ struct_ptr' = Start[i + 1]
          /\ memory_base' = 0 /\ memory_size' = 0
      BY <1>3, <2>1, <2>2, Advances DEF WalkInv, FlagInv
    <3>2. (in_memory_node' <=> InMemoryBody(tree, i + 1)) /\ i \notin MemoryRegs
      BY <1>3, <2>1, <2>2, FlagFollows
    <3>3. ASSUME NEW k \in 1..Len(tree), Start[k] = struct_ptr'
          PROVE  k = i + 1
      BY <2>1, <3>1, <3>3, OnePlace
    <3>4. \A k \in MemoryRegs : i + 1 <= k
      <4>1. Len(tree) \in Nat /\ MemoryRegs \subseteq 1..Len(tree)
        BY <2>1, TreesAssumption DEF MemoryRegs
      <4>2. \A k \in MemoryRegs : i <= k /\ k # i
        BY <1>3, <2>1, <3>2, Advances DEF WalkInv, FlagInv
      <4> QED
        BY <4>1, <4>2
    <3> HIDE DEF MemoryRegs
    <3> QED
      BY <2>1, <2>2, <3>1, <3>2, <3>3, <3>4 DEF FlagInv, MemoryFound
  <2>3. CASE pc' # "token"
    <3>1. pc' = "page_init"
      BY <1>3, <2>3, Advances DEF WalkInv
    <3> QED
      BY <1>3, <2>1, <2>3, <3>1, FoundAtEnd DEF FlagInv
  <2> QED
    BY <2>2, <2>3
<1>4. CASE NoMemoryPanic \/ page_init
  <2>1. /\ UNCHANGED <<tree, memory_base, memory_size>>
        /\ pc = "page_init" /\ pc' \in {"ready", "panic"}
    BY <1>4 DEF NoMemoryPanic, page_init
  <2> QED
    BY <1>1, <2>1, RegsKept DEF WalkInv, FlagInv, MemoryFound
<1>5. CASE UNCHANGED vars
  <2>1. Start' = Start /\ MemoryRegs' = MemoryRegs
    BY <1>5, StartKept, RegsKept DEF vars, dtbVars
  <2> QED
    BY <1>1, <1>5, <2>1 DEF vars, dtbVars, WalkInv, FlagInv, MemoryFound
<1> QED
  BY <1>1, <1>2, <1>3, <1>4, <1>5 DEF Next, DtbStep, Spin, WalkStep, WalkInv

\* What the memory manager is told is what the first memory node says of
\* itself, in every tree whose memory nodes hold no others and alone have names
\* that begin with "memory" (dtb.c:59, 69).
THEOREM Found ==
  ASSUME \A t \in Trees : PlainMemory(t)
  PROVE  Spec => []MemoryFound
<1>1. WalkInv => MemoryFound
  BY DEF WalkInv
<1>2. WalkInv /\ [Next]_vars => WalkInv'
  BY WalkInvStep
<1> QED
  BY WalkInitially, <1>1, <1>2, PTL DEF Spec

-----------------------------------------------------------------------------
(* page_init.                                                              *)

LEMMA MachineTypes ==
  /\ Word \in Nat \ {0} /\ PGSIZE \in Nat \ {0} /\ PageBytes \in Nat \ {0}
  /\ DRAM_BASE \in Nat \ {0} /\ PHYSICAL_MEMORY_OFFSET \in Nat \ {0}
  /\ KERNBASE \in Nat \ {0} /\ KMEMSIZE \in Nat \ {0} /\ KernelEnd \in Nat \ {0}
  /\ KERNTOP \in Nat /\ KERNTOP < Word
  /\ nbase \in Nat
<1>1. /\ Word \in Nat \ {0} /\ PGSIZE \in Nat \ {0} /\ PageBytes \in Nat \ {0}
      /\ DRAM_BASE \in Nat \ {0} /\ PHYSICAL_MEMORY_OFFSET \in Nat \ {0}
      /\ KERNBASE \in Nat \ {0} /\ KMEMSIZE \in Nat \ {0} /\ KernelEnd \in Nat \ {0}
  BY WordAssumption
<1>2. KERNTOP \in Nat /\ KERNTOP < Word
  BY <1>1 DEF KERNTOP
<1>3. nbase \in Nat
  BY <1>1, DivBounds DEF nbase
<1> QED
  BY <1>1, <1>2, <1>3

\* Addresses round up to a page as numbers do, as long as they do not wrap.
LEMMA RoundsUp ==
  ASSUME NEW a \in Nat, a + PGSIZE <= Word
  PROVE  /\ ROUNDUP(a) = ((a + PGSIZE - 1) \div PGSIZE) * PGSIZE
         /\ ROUNDUP(a) \in Nat /\ a <= ROUNDUP(a)
         /\ ROUNDUP(a) \div PGSIZE = (a + PGSIZE - 1) \div PGSIZE
<1> DEFINE q == (a + PGSIZE - 1) \div PGSIZE
<1>1. a + PGSIZE - 1 \in Nat /\ a + PGSIZE - 1 < Word
  BY MachineTypes
<1>2. (a + PGSIZE - 1) % Word = a + PGSIZE - 1
  BY <1>1, MachineTypes, NoWrap
<1>3. q \in Nat /\ q * PGSIZE <= a + PGSIZE - 1 /\ a + PGSIZE - 1 < (q + 1) * PGSIZE
  BY <1>1, MachineTypes, DivBounds
<1>4. ROUNDUP(a) = q * PGSIZE
  BY <1>2 DEF ROUNDUP
<1> HIDE DEF q
<1>5. q * PGSIZE \in Nat /\ (q + 1) * PGSIZE = q * PGSIZE + PGSIZE
  BY <1>3, MachineTypes
<1>6. a <= q * PGSIZE
  BY <1>3, <1>5, MachineTypes
<1>7. (q * PGSIZE) \div PGSIZE = q
  BY <1>3, <1>5, MachineTypes, DivUnique
<1> QED
  BY <1>4, <1>5, <1>6, <1>7 DEF q

\* Without wrapping: the frames, the end of the descriptors and the first frame
\* behind them, for memory that fits the machine.
LEMMA Arithmetic ==
  ASSUME Fits(memory_base, memory_size)
  PROVE  LET E == memory_base + memory_size
             A == ROUNDUP(KernelEnd) + PageBytes * (E \div PGSIZE - nbase)
             F == A - PHYSICAL_MEMORY_OFFSET
         IN  /\ E \in Nat /\ E < Word /\ mem_end = E
             /\ FrameCount = E \div PGSIZE /\ FrameCount \in Nat /\ nbase <= FrameCount
             /\ ROUNDUP(KernelEnd) \in Nat /\ KernelEnd <= ROUNDUP(KernelEnd)
             /\ ArrayEnd = A /\ A \in Nat /\ KERNBASE <= A
             /\ freemem = F /\ F \in Nat /\ DRAM_BASE <= F
             /\ freemem = (ROUNDUP(KernelEnd) + PageBytes * (FrameCount - nbase))
                           - PHYSICAL_MEMORY_OFFSET
             /\ PADDR(ROUNDUP(KernelEnd)) = ROUNDUP(KernelEnd) - PHYSICAL_MEMORY_OFFSET
             /\ FirstFrame = (F + PGSIZE - 1) \div PGSIZE
             /\ ROUNDDOWN(E) \div PGSIZE = FrameCount
<1> DEFINE E == memory_base + memory_size
           R == ROUNDUP(KernelEnd)
           A == R + PageBytes * (E \div PGSIZE - nbase)
           F == A - PHYSICAL_MEMORY_OFFSET
<1>1. E \in Nat /\ DRAM_BASE <= E /\ E <= KERNTOP /\ E < Word
  BY MachineTypes DEF Fits
<1>2. mem_end = E
  BY <1>1, MachineTypes, NoWrap DEF mem_end
<1>3. maxpa = E
  BY <1>1, <1>2, MachineTypes DEF maxpa
<1>4. FrameCount = E \div PGSIZE /\ FrameCount \in Nat
  BY <1>1, <1>3, MachineTypes, DivBounds DEF FrameCount
<1>5. nbase <= FrameCount
  BY <1>1, <1>4, MachineTypes, DivMonotone DEF nbase
<1>6. R \in Nat /\ KernelEnd <= R
  BY MachineTypes, KernelAssumption, RoundsUp
<1>7. PageBytes * (FrameCount - nbase) \in Nat
  BY <1>4, <1>5, MachineTypes, FrameCount - nbase \in Nat
<1>8. A = R + PageBytes * (FrameCount - nbase)
  BY <1>4
<1>9. A \in Nat /\ R <= A /\ A + PGSIZE <= Word
  <2>1. A + PGSIZE <= Word
    BY DEF Fits
  <2> HIDE DEF A, R, E
  <2> QED
    BY <2>1, <1>6, <1>7, <1>8
<1>10. ArrayEnd = A
  <2>1. FrameCount - nbase \in Nat /\ FrameCount - nbase < Word
    <3>1. FrameCount * PGSIZE <= E
      BY <1>1, <1>4, MachineTypes, DivBounds
    <3>2. FrameCount <= FrameCount * PGSIZE
      <4>1. 1 <= PGSIZE
        BY MachineTypes
      <4>2. 1 * FrameCount <= PGSIZE * FrameCount
        BY <4>1, <1>4, MachineTypes, TimesMonotone
      <4> QED
        BY <4>2, <1>4, MachineTypes
    <3>3. FrameCount * PGSIZE \in Nat
      BY <1>4, MachineTypes
    <3> HIDE DEF E
    <3> QED
      BY <1>1, <1>4, <1>5, <3>1, <3>2, <3>3, MachineTypes
  <2>2. (FrameCount - nbase) % Word = FrameCount - nbase
    BY <2>1, MachineTypes, NoWrap
  <2>3. A % Word = A
    <3>1. A < Word
      <4> HIDE DEF A
      <4> QED
        BY <1>9, MachineTypes
    <3> HIDE DEF A
    <3> QED
      BY <1>9, <3>1, MachineTypes, NoWrap
  <2> HIDE DEF A
  <2> QED
    BY <1>8, <2>2, <2>3 DEF ArrayEnd
<1> HIDE DEF A, R, E
<1>11. KERNBASE <= A /\ PHYSICAL_MEMORY_OFFSET + DRAM_BASE <= A /\ A < Word
  BY <1>6, <1>9, MachineTypes, KernelAssumption
<1>12. freemem = F /\ F \in Nat /\ DRAM_BASE <= F /\ F + PGSIZE <= Word
  <2>1. F \in Nat /\ F < Word /\ DRAM_BASE <= F /\ F + PGSIZE <= Word
    BY <1>9, <1>11, MachineTypes
  <2>2. F % Word = F
    BY <2>1, MachineTypes, NoWrap
  <2> QED
    BY <1>10, <2>1, <2>2 DEF freemem, PADDR
<1>13. PADDR(R) = R - PHYSICAL_MEMORY_OFFSET
  <2>1. R - PHYSICAL_MEMORY_OFFSET \in Nat /\ R - PHYSICAL_MEMORY_OFFSET < Word
    BY <1>6, <1>9, MachineTypes, KernelAssumption
  <2> QED
    BY <2>1, MachineTypes, NoWrap DEF PADDR
<1>14. FirstFrame = (F + PGSIZE - 1) \div PGSIZE
  BY <1>12, RoundsUp DEF FirstFrame
<1>15. ROUNDDOWN(E) \div PGSIZE = FrameCount
  <2>1. ROUNDDOWN(E) = FrameCount * PGSIZE
    BY <1>4 DEF ROUNDDOWN, E
  <2>2. FrameCount * PGSIZE \in Nat /\ FrameCount * PGSIZE < (FrameCount + 1) * PGSIZE
    BY <1>4, MachineTypes
  <2> QED
    BY <1>4, <2>1, <2>2, MachineTypes, DivUnique
<1>16. freemem = (ROUNDUP(KernelEnd) + PageBytes * (FrameCount - nbase))
               - PHYSICAL_MEMORY_OFFSET
  BY <1>8, <1>12 DEF R
<1> QED
  BY <1>1, <1>2, <1>4, <1>5, <1>6, <1>9, <1>10, <1>11, <1>12, <1>13, <1>14, <1>15, <1>16
  DEF A, R, E

\* The frames that are left are those from FirstFrame on, and page_init hands
\* out the same.
LEMMA page_initStep ==
  ASSUME page_init, Fits(memory_base, memory_size)
  PROVE  RegionExact' /\ Described' /\ PanicJustified'
<1> DEFINE E == memory_base + memory_size
           F == freemem
           top == FrameCount
<1>1. /\ E \in Nat /\ E < Word /\ mem_end = E
      /\ top = E \div PGSIZE /\ top \in Nat /\ nbase <= top
      /\ F \in Nat /\ DRAM_BASE <= F /\ KERNBASE <= ArrayEnd /\ ArrayEnd \in Nat
      /\ FirstFrame = (F + PGSIZE - 1) \div PGSIZE
      /\ ROUNDDOWN(E) \div PGSIZE = top
  BY Arithmetic
<1>2. FirstFrame \in Nat
  BY <1>1, MachineTypes, DivBounds, F + PGSIZE - 1 \in Nat
<1>3. UsedEnd' = F
  <2>1. pages' = ROUNDUP(KernelEnd) /\ npage' = top
    BY DEF page_init
  <2>2. UsedEnd' = PADDR(ROUNDUP(KernelEnd)) + PageBytes * (top - nbase)
    BY <2>1 DEF UsedEnd, PADDR
  <2>3. /\ PADDR(ROUNDUP(KernelEnd)) = ROUNDUP(KernelEnd) - PHYSICAL_MEMORY_OFFSET
        /\ F = (ROUNDUP(KernelEnd) + PageBytes * (top - nbase)) - PHYSICAL_MEMORY_OFFSET
    BY Arithmetic
  <2>4. ROUNDUP(KernelEnd) \in Nat /\ PageBytes * (top - nbase) \in Int
    <3>1. ROUNDUP(KernelEnd) \in Nat
      BY Arithmetic
    <3> QED
      BY <1>1, <3>1, MachineTypes
  <2> HIDE DEF F, top
  <2> QED
    BY <2>2, <2>3, <2>4, MachineTypes
<1>4. UsableFrames' = {f \in 0..(Word \div PGSIZE) : f * PGSIZE >= F /\ (f + 1) * PGSIZE <= E}
  <2>1. memory_base' = memory_base /\ memory_size' = memory_size
    BY DEF page_init
  <2> QED
    BY <1>3, <2>1 DEF UsableFrames
<1> HIDE DEF E, F, top
<1>5. \A f \in Nat : /\ f * PGSIZE >= F <=> FirstFrame <= f
                     /\ (f + 1) * PGSIZE <= E <=> f + 1 <= top
  <2> TAKE f \in Nat
  <2>1. F <= f * PGSIZE <=> FirstFrame <= f
    BY <1>1, MachineTypes, CeilingLeast
  <2>2. (f + 1) * PGSIZE <= E <=> f + 1 <= top
    BY <1>1, MachineTypes, FloorGreatest, f + 1 \in Nat
  <2>3. f * PGSIZE \in Nat
    BY MachineTypes
  <2> QED
    BY <1>1, <2>1, <2>2, <2>3
<1>6. UsableFrames' = FirstFrame .. (top - 1)
  <2>1. Word \div PGSIZE \in Nat /\ top <= Word \div PGSIZE
    BY <1>1, MachineTypes, DivBounds, DivMonotone
  <2>2. \A f : f \in 0..(Word \div PGSIZE) /\ FirstFrame <= f /\ f + 1 <= top
               <=> f \in FirstFrame .. (top - 1)
    BY <1>1, <1>2, <2>1
  <2> QED
    BY <1>4, <1>5, <2>1, <2>2
<1>7. freemem < ROUNDDOWN(mem_end) \/ top <= FirstFrame
  <2>1. ROUNDDOWN(mem_end) = top * PGSIZE
    BY <1>1 DEF ROUNDDOWN
  <2>2. ~(F < top * PGSIZE) => top <= FirstFrame
    <3>1. SUFFICES ASSUME FirstFrame < top PROVE F < top * PGSIZE
      BY <1>1, <1>2
    <3>2. top - 1 \in Nat /\ FirstFrame <= top - 1
      BY <1>1, <1>2, <3>1
    <3>3. F <= (top - 1) * PGSIZE
      BY <1>1, <3>2, MachineTypes, CeilingLeast
    <3>4. top * PGSIZE = (top - 1) * PGSIZE + PGSIZE /\ (top - 1) * PGSIZE \in Nat
      BY <1>1, <3>2, MachineTypes
    <3> QED
      BY <1>1, <3>3, <3>4, MachineTypes
  <2> QED
    BY <2>1, <2>2 DEF F
<1>8. nbase <= FirstFrame
  <2>1. nbase <= (DRAM_BASE + PGSIZE - 1) \div PGSIZE
    BY MachineTypes, DivMonotone, DRAM_BASE + PGSIZE - 1 \in Nat DEF nbase
  <2>2. (DRAM_BASE + PGSIZE - 1) \div PGSIZE <= FirstFrame
    BY <1>1, MachineTypes, DivMonotone, DRAM_BASE + PGSIZE - 1 \in Nat, F + PGSIZE - 1 \in Nat
  <2>3. (DRAM_BASE + PGSIZE - 1) \div PGSIZE \in Nat
    BY MachineTypes, DivBounds, DRAM_BASE + PGSIZE - 1 \in Nat
  <2> QED
    BY <1>2, <2>1, <2>2, <2>3, MachineTypes
<1>9. npage' = top /\ (pc' = "panic" \/ pc' = "ready")
  BY DEF page_init, top
<1>10. CASE pc' = "panic"
  <2>1. top <= FirstFrame
    BY <1>1, <1>10, MachineTypes DEF page_init, top
  <2>2. UsableFrames' = {}
    BY <1>1, <1>2, <1>6, <2>1
  <2> QED
    BY <1>10, <2>2 DEF RegionExact, Described, PanicJustified
<1>11. CASE pc' = "ready"
  <2>1. region' = IF freemem < ROUNDDOWN(mem_end)
                  THEN FirstFrame .. (FirstFrame + (ROUNDDOWN(mem_end) \div PGSIZE - FirstFrame) - 1)
                  ELSE {}
    BY <1>11 DEF page_init
  <2>2. FirstFrame + (ROUNDDOWN(mem_end) \div PGSIZE - FirstFrame) - 1 = top - 1
    BY <1>1, <1>2
  <2>3. region' = FirstFrame .. (top - 1)
    BY <1>1, <1>2, <1>7, <2>1, <2>2
  <2>4. region' \subseteq nbase .. (top - 1)
    BY <1>1, <1>2, <1>8, <2>3, MachineTypes
  <2>5. nbase' = nbase
    BY DEF nbase
  <2> QED
    BY <1>6, <1>9, <1>11, <2>3, <2>4, <2>5 DEF RegionExact, Described, PanicJustified
<1> QED
  BY <1>9, <1>10, <1>11

\* The memory found is that of a memory node.
LEMMA FoundMemory ==
  ASSUME WalkInv, \A t \in Trees : PlainMemory(t),
         pc = "page_init", memory_size # 0
  PROVE  /\ tree \in Trees
         /\ \E reg \in MemoryOf(tree) : memory_base = reg.base /\ memory_size = reg.size
<1>1. MemoryRegs # {}
  BY DEF WalkInv, MemoryFound
<1>2. tree \in Trees
  <2>1. tree # <<>>
    BY <1>1 DEF MemoryRegs
  <2> QED
    BY <2>1 DEF WalkInv, CursorInv
<1>3. MemoryRegs \subseteq Nat
  BY <1>2, TreesAssumption DEF MemoryRegs
<1>4. PICK i \in MemoryRegs : \A k \in MemoryRegs : i <= k
  BY <1>1, <1>3, LeastNatural
<1>5. \A k \in MemoryRegs : (\A m \in MemoryRegs : k <= m) => k = i
  BY <1>3, <1>4
<1>6. i = CHOOSE k \in MemoryRegs : \A m \in MemoryRegs : k <= m
  BY <1>4, <1>5
<1>7. memory_base = tree[i].base /\ memory_size = tree[i].size
  BY <1>1, <1>6 DEF WalkInv, MemoryFound
<1>8. /\ i \in 1..Len(tree) /\ tree[i].token = "PROP" /\ tree[i].name = "reg"
      /\ tree[i].len >= 16 /\ InMemoryBody(tree, i)
  BY <1>2, <1>4, BodyIsNode DEF MemoryRegs
<1>9. tree[i] \in MemoryOf(tree)
  BY <1>8 DEF InMemoryBody, MemoryOf
<1> QED
  BY <1>2, <1>7, <1>9

PagesInv == RegionExact /\ Described /\ PanicJustified

\* When the boot is ready the manager has exactly the frames above pages[], all
\* with descriptors, and it panics only when there are none.
LEMMA PagesStep ==
  ASSUME \A t \in Trees : PlainMemory(t) /\ MemoryFits(t)
  PROVE  WalkInv /\ PagesInv /\ [Next]_vars => PagesInv'
<1> SUFFICES ASSUME WalkInv, PagesInv, [Next]_vars PROVE PagesInv'
  OBVIOUS
<1>1. CASE DtbStep
  <2>1. pc' \in {"token", "page_init"}
    BY <1>1 DEF DtbStep, dtb_init, OnBeginNode, OnEndNode, OnReg, OnOtherProp, OnNop, OnEnd, At
  <2> QED
    BY <2>1 DEF PagesInv, RegionExact, Described, PanicJustified
<1>2. CASE NoMemoryPanic
  BY <1>2 DEF NoMemoryPanic, PagesInv, RegionExact, Described, PanicJustified
<1>3. CASE page_init
  <2>1. Fits(memory_base, memory_size)
    BY <1>3, FoundMemory DEF page_init, MemoryFits
  <2> QED
    BY <1>3, <2>1, page_initStep DEF PagesInv
<1>4. CASE UNCHANGED vars
  BY <1>4 DEF vars, dtbVars, PagesInv, RegionExact, Described, PanicJustified, UsableFrames,
     UsedEnd, PADDR, nbase
<1> QED
  BY <1>1, <1>2, <1>3, <1>4 DEF Next, Spin

LEMMA PagesInvariant ==
  ASSUME \A t \in Trees : PlainMemory(t) /\ MemoryFits(t)
  PROVE  Spec => []PagesInv
<1>1. Init => WalkInv /\ PagesInv
  BY WalkInitially DEF Init, DtbInit, PagesInv, RegionExact, Described, PanicJustified
<1>2. WalkInv /\ PagesInv /\ [Next]_vars => (WalkInv /\ PagesInv)'
  BY WalkInvStep, PagesStep
<1> QED
  BY <1>1, <1>2, PTL DEF Spec

\* The region given to the manager is exactly the memory left above the kernel
\* and pages[], for every size of memory and descriptor (page_init).
THEOREM RegionCorrect ==
  ASSUME \A t \in Trees : PlainMemory(t) /\ MemoryFits(t)
  PROVE  Spec => []RegionExact
<1>1. PagesInv => RegionExact
  BY DEF PagesInv
<1> QED
  BY PagesInvariant, <1>1, PTL

\* pa2page is never asked for a page without a descriptor (pmm.c:104).
THEOREM AllDescribed ==
  ASSUME \A t \in Trees : PlainMemory(t) /\ MemoryFits(t)
  PROVE  Spec => []Described
<1>1. PagesInv => Described
  BY DEF PagesInv
<1> QED
  BY PagesInvariant, <1>1, PTL

\* The boot panics only when no page is left for the manager (pmm.c:75, 104).
THEOREM PanicsOnlyWithout ==
  ASSUME \A t \in Trees : PlainMemory(t) /\ MemoryFits(t)
  PROVE  Spec => []PanicJustified
<1>1. PagesInv => PanicJustified
  BY DEF PagesInv
<1> QED
  BY PagesInvariant, <1>1, PTL

\* In memory of which the kernel leaves enough, the descriptors end with it.
LEMMA DescriptorsEnd ==
  ASSUME page_init, Fits(memory_base, memory_size), LeavesRoom(memory_size)
  PROVE  /\ UsedEnd' <= (memory_base + memory_size)'
         /\ PADDR(KernelEnd) <= PADDR(pages)'
<1> DEFINE n == FrameCount - nbase
           R == ROUNDUP(KernelEnd)
           size == memory_size
<1>1. /\ FrameCount = (memory_base + size) \div PGSIZE
      /\ FrameCount \in Nat /\ nbase <= FrameCount /\ nbase \in Nat
      /\ R \in Nat /\ KernelEnd <= R
      /\ PADDR(R) = R - PHYSICAL_MEMORY_OFFSET
      /\ memory_base + size \in Nat /\ memory_base = DRAM_BASE /\ size \in Nat
  BY Arithmetic, MachineTypes DEF Fits
<1>2. n \in Nat
  BY <1>1
<1>3. n * PGSIZE <= size
  <2>1. FrameCount * PGSIZE <= DRAM_BASE + size
    BY <1>1, MachineTypes, DivBounds
  <2>2. nbase * PGSIZE = DRAM_BASE
    BY WordAssumption, MachineTypes DEF nbase
  <2>3. n * PGSIZE = FrameCount * PGSIZE - nbase * PGSIZE
    BY <1>1, MachineTypes
  <2>4. FrameCount * PGSIZE \in Nat
    BY <1>1, MachineTypes
  <2> HIDE DEF n
  <2> QED
    BY <1>1, <2>1, <2>2, <2>3, <2>4, MachineTypes
<1>4. KernelSpace \in Nat /\ KernelSpace = (R - PHYSICAL_MEMORY_OFFSET) - DRAM_BASE
  <2>1. KernelSpace = (R - PHYSICAL_MEMORY_OFFSET) - DRAM_BASE
    BY <1>1 DEF KernelSpace
  <2> HIDE DEF R
  <2> QED
    BY <1>1, <2>1, MachineTypes, KernelAssumption
<1>5. KernelSpace + PageBytes * n <= size
  <2> DEFINE k == KernelSpace
             a == PageBytes * n
  <2>1. k * PGSIZE <= size * (PGSIZE - PageBytes)
    BY DEF LeavesRoom
  <2>2. size * (PGSIZE - PageBytes) = size * PGSIZE - size * PageBytes
    BY <1>1, MachineTypes
  <2>3. PageBytes * (n * PGSIZE) <= PageBytes * size
    BY <1>1, <1>2, <1>3, MachineTypes, TimesMonotone, n * PGSIZE \in Nat
  <2>4. a * PGSIZE = PageBytes * (n * PGSIZE)
    BY <1>2, MachineTypes
  <2>5. /\ k * PGSIZE \in Nat /\ a * PGSIZE \in Nat /\ size * PGSIZE \in Nat
        /\ size * PageBytes \in Nat /\ PageBytes * size = size * PageBytes
        /\ a \in Nat
    BY <1>1, <1>2, <1>4, MachineTypes
  <2>6. k * PGSIZE + a * PGSIZE <= size * PGSIZE
    <3> HIDE DEF k, a, n, size
    <3> QED
      BY <2>1, <2>2, <2>3, <2>4, <2>5
  <2>7. (k + a) * PGSIZE = k * PGSIZE + a * PGSIZE
    BY <1>4, <2>5, MachineTypes
  <2> SUFFICES ASSUME size < k + a PROVE FALSE
    BY <1>1, <1>4, <2>5
  <2>8. (size + 1) * PGSIZE <= (k + a) * PGSIZE
    <3> HIDE DEF k, a, size
    <3>1. size + 1 <= k + a /\ size + 1 \in Nat /\ k + a \in Nat
      BY <1>1, <1>4, <2>5 DEF k, size
    <3> QED
      BY <3>1, MachineTypes, TimesMonotone
  <2>9. (size + 1) * PGSIZE = size * PGSIZE + PGSIZE
    BY <1>1, MachineTypes
  <2> HIDE DEF k, a, size
  <2> QED
    BY <2>5, <2>6, <2>7, <2>8, <2>9, MachineTypes
<1>6. /\ pages' = R /\ npage' = FrameCount
      /\ memory_base' = memory_base /\ memory_size' = memory_size
  BY DEF page_init
<1>7. UsedEnd' = (R - PHYSICAL_MEMORY_OFFSET) + PageBytes * n
  BY <1>1, <1>6 DEF UsedEnd, PADDR, nbase
<1>8. UsedEnd' <= memory_base + memory_size
  <2> HIDE DEF R, n
  <2>1. PICK x \in Nat : x = PageBytes * n
    BY <1>2, MachineTypes
  <2>2. UsedEnd' = (R - PHYSICAL_MEMORY_OFFSET) + x /\ KernelSpace + x <= size
    BY <1>5, <1>7, <2>1
  <2>3. /\ R \in Nat /\ PHYSICAL_MEMORY_OFFSET \in Nat /\ DRAM_BASE \in Nat
        /\ memory_base = DRAM_BASE /\ size \in Nat
        /\ KernelSpace = (R - PHYSICAL_MEMORY_OFFSET) - DRAM_BASE
    BY <1>1, <1>4, MachineTypes
  <2> QED
    BY <2>1, <2>2, <2>3
<1>9. PADDR(KernelEnd) <= PADDR(R)
  <2>1. KernelEnd - PHYSICAL_MEMORY_OFFSET \in Nat /\ KernelEnd - PHYSICAL_MEMORY_OFFSET < Word
    BY MachineTypes, KernelAssumption
  <2>2. PADDR(KernelEnd) = KernelEnd - PHYSICAL_MEMORY_OFFSET
    BY <2>1, MachineTypes, NoWrap DEF PADDR
  <2> HIDE DEF R
  <2> QED
    BY <1>1, <2>1, <2>2, MachineTypes
<1>10. PADDR(pages)' = PADDR(R)
  BY <1>6 DEF PADDR
<1> QED
  BY <1>6, <1>8, <1>9, <1>10

\* pages[] lies in the memory found, above the kernel, and holds a descriptor
\* for each page of the region, wherever the kernel leaves room for it
\* (page_init, pmm.c:88).
THEOREM DescriptorsInMemory ==
  ASSUME \A t \in Trees : PlainMemory(t) /\ MemoryFits(t) /\ MemoryLeavesRoom(t)
  PROVE  Spec => []DescriptorsExist
<1> DEFINE Room == pc = "ready" => /\ PADDR(KernelEnd) <= PADDR(pages)
                                   /\ UsedEnd <= memory_base + memory_size
<1>1. Init => WalkInv /\ Room
  BY WalkInitially DEF Init, DtbInit
<1>2. WalkInv /\ Room /\ [Next]_vars => (WalkInv /\ Room)'
  <2> SUFFICES ASSUME WalkInv, Room, [Next]_vars PROVE Room'
    BY WalkInvStep
  <2>1. CASE DtbStep \/ NoMemoryPanic
    <3>1. pc' # "ready"
      BY <2>1 DEF DtbStep, dtb_init, OnBeginNode, OnEndNode, OnReg, OnOtherProp, OnNop, OnEnd, At,
                  NoMemoryPanic
    <3> QED
      BY <3>1
  <2>2. CASE page_init
    <3>1. Fits(memory_base, memory_size) /\ LeavesRoom(memory_size)
      BY <2>2, FoundMemory DEF page_init, MemoryFits, MemoryLeavesRoom
    <3> QED
      BY <2>2, <3>1, DescriptorsEnd DEF PADDR
  <2>3. CASE UNCHANGED vars
    BY <2>3 DEF vars, dtbVars, UsedEnd, PADDR, nbase
  <2> QED
    BY <2>1, <2>2, <2>3 DEF Next, Spin
<1>3. Room /\ Described => DescriptorsExist
  BY DEF DescriptorsExist
<1>4. Spec => []Described
  BY AllDescribed
<1> HIDE DEF Room
<1> QED
  BY <1>1, <1>2, <1>3, <1>4, PTL DEF Spec
=============================================================================
