------------------------------- MODULE MCBoot -------------------------------
(***************************************************************************)
(* Trees for the runs of Boot: a root with properties of its own and up to *)
(* two nodes.  Words have 8 bits: a page has 4 bytes, memory starts at 64, *)
(* the virtual addresses of 64..127 are 192..255 and the kernel ends at 71 *)
(* (199), in the proportions of the real addresses.                        *)
(***************************************************************************)
EXTENDS Boot

CONSTANT MemorySizes      \* what the reg of a memory node may say

Root == ""
Names == {Root, "memory@80000000", "soc", "cpus"}

MCNameLength ==
  [n \in Names |-> CASE n = Root -> 0 [] n = "memory@80000000" -> 15
                     [] n = "soc" -> 3 [] OTHER -> 4]
MCMemory == {"memory@80000000"}

Reg(base, size) == Prop("reg", 16, base, size)
ShortReg == Prop("reg", 8, 0, 0)            \* one-cell addresses and sizes
DeviceType == Prop("device_type", 7, 0, 0)  \* "memory" and its NUL

Node(name, body) == <<BeginNode(name)>> \o body \o <<EndNode>>

MemoryBodies ==
  {<<ShortReg, Nop>>}
  \cup {b : b \in UNION {{<<Reg(64, s)>>, <<DeviceType, Reg(64, s)>>} : s \in MemorySizes}}

OtherNodes ==
  {Node("soc", <<Reg(16, 4)>>),
   Node("cpus", <<ShortReg>> \o Node("soc", <<Reg(0, 8)>>))}

Nodes == {Node("memory@80000000", b) : b \in MemoryBodies} \cup OtherNodes

MCTrees ==
  {Node(Root, <<DeviceType>> \o a \o b) \o <<End>> : a, b \in Nodes \cup {<<>>}}

\* The hypotheses of BootProofs hold here.
ASSUME MCTreesAssumption ==
  \A t \in Trees : PlainMemory(t) /\ MemoryFits(t) /\ MemoryLeavesRoom(t)
=============================================================================
