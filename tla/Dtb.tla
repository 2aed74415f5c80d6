-------------------------------- MODULE Dtb --------------------------------
(***************************************************************************)
(* dtb_init of kern/driver/dtb.c: the walk over the structure block of the *)
(* flattened device tree that the firmware leaves in memory, in search of  *)
(* the physical memory.  A structure block is a sequence of entries, each  *)
(* a token with what follows it; the walk is at a byte offset, which the   *)
(* code must keep in step with the entries.                                *)
(***************************************************************************)
EXTENDS Integers, Sequences, FiniteSets

CONSTANTS
  Trees,            \* the structure blocks the firmware may leave
  NameLength,       \* node name -> strlen(name)
  MemoryPrefix,     \* the names that strncmp(name, "memory", 6) accepts
  MemoryNodes       \* the names of memory nodes: "memory" and "memory@..."

VARIABLES
  tree,             \* <<>> when boot_dtb is null or its magic is wrong
  struct_ptr,
  in_memory_node,
  memory_base,
  memory_size,
  pc

dtbVars == <<tree, struct_ptr, in_memory_node, memory_base, memory_size, pc>>

-----------------------------------------------------------------------------
(* The entries of a structure block, as the format lays them out.          *)

BeginNode(name) == [token |-> "BEGIN_NODE", name |-> name]
EndNode == [token |-> "END_NODE"]
Nop == [token |-> "NOP"]
End == [token |-> "END"]
Prop(name, len, base, size) ==
  [token |-> "PROP", name |-> name, len |-> len, base |-> base, size |-> size]

\* Names end with a NUL; names and data are padded to 4 bytes.
Padded(n) == ((n + 3) \div 4) * 4

EntryBytes(e) ==
  CASE e.token = "BEGIN_NODE" -> 4 + Padded(NameLength[e.name] + 1)
    [] e.token = "PROP"       -> 12 + Padded(e.len)
    [] OTHER                  -> 4

\* The byte at which each entry starts.
Start[i \in 1..Len(tree)] ==
  IF i = 1 THEN 0 ELSE Start[i - 1] + EntryBytes(tree[i - 1])

\* A block ends with END, and has no other; all of its words where a token is
\* expected are tokens, so that the walk never takes its default branch.
ASSUME TreesAssumption ==
  \A t \in Trees :
    /\ Len(t) \in Nat \ {0}
    /\ \A i \in 1..Len(t) :
         /\ t[i].token \in {"BEGIN_NODE", "END_NODE", "PROP", "NOP", "END"}
         /\ t[i].token = "BEGIN_NODE" => NameLength[t[i].name] \in Nat
         /\ t[i].token = "PROP" => t[i].len \in Nat
         /\ t[i].token = "END" <=> i = Len(t)

\* The walk is at the i-th entry, and its token is t.
At(i, t) ==
  /\ pc = "token"
  /\ Start[i] = struct_ptr
  /\ tree[i].token = t

-----------------------------------------------------------------------------
DtbInit ==
  /\ tree \in Trees \cup {<<>>}
  /\ struct_ptr = 0
  /\ in_memory_node = FALSE
  /\ memory_base = 0
  /\ memory_size = 0
  /\ pc = "dtb_init"

\* A null address or a wrong magic number ends dtb_init.
dtb_init ==
  /\ pc = "dtb_init"
  /\ pc' = IF tree = <<>> THEN "page_init" ELSE "token"
  /\ UNCHANGED <<tree, struct_ptr, in_memory_node, memory_base, memory_size>>

\* Faulty variant: the NUL that ends the name is not skipped.
OnBeginNodeShort(i) ==
  /\ At(i, "BEGIN_NODE")
  /\ in_memory_node' = (in_memory_node \/ tree[i].name \in MemoryPrefix)
  /\ struct_ptr' = ((struct_ptr + 4 + NameLength[tree[i].name] + 3) \div 4) * 4
  /\ UNCHANGED <<tree, memory_base, memory_size, pc>>

\* (struct_ptr + name_len + 4) & ~3
OnBeginNode(i) ==
  /\ At(i, "BEGIN_NODE")
  /\ in_memory_node' = (in_memory_node \/ tree[i].name \in MemoryPrefix)
  /\ struct_ptr' = ((struct_ptr + 4 + NameLength[tree[i].name] + 4) \div 4) * 4
  /\ UNCHANGED <<tree, memory_base, memory_size, pc>>

\* Faulty variant: the flag survives the node.
OnEndNodeKeepingFlag(i) ==
  /\ At(i, "END_NODE")
  /\ struct_ptr' = struct_ptr + 4
  /\ UNCHANGED <<tree, in_memory_node, memory_base, memory_size, pc>>

OnEndNode(i) ==
  /\ At(i, "END_NODE")
  /\ in_memory_node' = FALSE
  /\ struct_ptr' = struct_ptr + 4
  /\ UNCHANGED <<tree, memory_base, memory_size, pc>>

\* The reg property of a memory node, if it holds two 64-bit words, ends the
\* search.
OnReg(i) ==
  /\ At(i, "PROP")
  /\ in_memory_node
  /\ tree[i].name = "reg"
  /\ tree[i].len >= 16
  /\ memory_base' = tree[i].base
  /\ memory_size' = tree[i].size
  /\ pc' = "page_init"
  /\ UNCHANGED <<tree, struct_ptr, in_memory_node>>

\* Any other property is skipped: (struct_ptr + prop_len + 3) & ~3
OnOtherProp(i) ==
  /\ At(i, "PROP")
  /\ ~(in_memory_node /\ tree[i].name = "reg" /\ tree[i].len >= 16)
  /\ struct_ptr' = ((struct_ptr + 12 + tree[i].len + 3) \div 4) * 4
  /\ UNCHANGED <<tree, in_memory_node, memory_base, memory_size, pc>>

OnNop(i) ==
  /\ At(i, "NOP")
  /\ struct_ptr' = struct_ptr + 4
  /\ UNCHANGED <<tree, in_memory_node, memory_base, memory_size, pc>>

\* Faulty variant: the walk starts again at the end of the block.
OnEndAgain(i) ==
  /\ At(i, "END")
  /\ struct_ptr' = 0
  /\ UNCHANGED <<tree, in_memory_node, memory_base, memory_size, pc>>

\* FDT_END: nothing was found.
OnEnd(i) ==
  /\ At(i, "END")
  /\ pc' = "page_init"
  /\ UNCHANGED <<tree, struct_ptr, in_memory_node, memory_base, memory_size>>

DtbStep ==
  \/ dtb_init
  \/ \E i \in 1..Len(tree) :
       \/ OnBeginNode(i) \/ OnEndNode(i)
       \/ OnReg(i) \/ OnOtherProp(i)
       \/ OnNop(i) \/ OnEnd(i)

-----------------------------------------------------------------------------
\* The walk reads a token only where an entry starts, never in the middle of
\* a name or of the data of a property, whatever their lengths.
CursorInStep == pc = "token" => \E i \in 1..Len(tree) : Start[i] = struct_ptr

Count(t, j, i) == Cardinality({k \in j..i : tree[k].token = t})

\* Entry j opens a node that is still open at entry i.
OpenAt(j, i) ==
  /\ tree[j].token = "BEGIN_NODE"
  /\ \A k \in j..i : Count("BEGIN_NODE", j, k) > Count("END_NODE", j, k)

\* The innermost node open at entry i is a memory node.
InMemoryNode(i) ==
  \E j \in 1..(i - 1) :
    /\ OpenAt(j, i)
    /\ \A k \in (j + 1)..(i - 1) : ~OpenAt(k, i)
    /\ tree[j].name \in MemoryNodes

MemoryRegs ==
  {i \in 1..Len(tree) : /\ tree[i].token = "PROP"
                        /\ tree[i].name = "reg"
                        /\ tree[i].len >= 16
                        /\ InMemoryNode(i)}

\* What dtb_init leaves for the memory manager is what the first memory node
\* says of itself, and nothing when there is none: other nodes have a reg as
\* well, before and after it ("检查是否是memory节点", dtb.c:58).
MemoryFound ==
  pc \notin {"dtb_init", "token"} =>
    IF MemoryRegs = {} THEN memory_base = 0 /\ memory_size = 0
    ELSE LET i == CHOOSE i \in MemoryRegs : \A k \in MemoryRegs : i <= k
         IN  memory_base = tree[i].base /\ memory_size = tree[i].size

-----------------------------------------------------------------------------
(* What the proofs ask of the trees, apart from their form.                *)

\* Entry i of t follows the head of node j, before any node inside it.
InBody(t, j, i) ==
  /\ j < i
  /\ t[j].token = "BEGIN_NODE"
  /\ \A k \in (j + 1)..(i - 1) : t[k].token \notin {"BEGIN_NODE", "END_NODE"}

\* Only memory nodes have names that begin with "memory", and they hold no
\* other nodes.
PlainMemory(t) ==
  \A j \in 1..Len(t) :
    t[j].token = "BEGIN_NODE" =>
      /\ t[j].name \in MemoryPrefix <=> t[j].name \in MemoryNodes
      /\ t[j].name \in MemoryNodes =>
           \E e \in 1..Len(t) : InBody(t, j, e) /\ t[e].token = "END_NODE"
=============================================================================
