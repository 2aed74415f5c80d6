----------------------------- MODULE ObjectHeap -----------------------------
(***************************************************************************)
(* What kmalloc and kfree of kern/mm/slub.c promise, independent of slabs, *)
(* classes and pages: an object is as many bytes as were asked for, none   *)
(* of which belongs to another object until it is freed.                   *)
(***************************************************************************)
EXTENDS Integers

CONSTANTS
  Bytes,           \* the addresses of the memory that is managed
  Sizes            \* what callers pass to kmalloc

VARIABLES
  live,            \* what callers hold: the address and the size asked for
  req              \* the size asked for by the kmalloc under way, 0 if none

vars == <<live, req>>

Extent(o) == o.ptr .. (o.ptr + o.size - 1)

Init ==
  /\ live = {}
  /\ req = 0

\* kmalloc(size) is entered.  For 0 bytes nothing will happen.
Ask(size) ==
  /\ req = 0
  /\ req' = size
  /\ UNCHANGED live

\* kmalloc returns ptr.
Grant(ptr) ==
  LET new == [ptr |-> ptr, size |-> req]
  IN  /\ req # 0
      /\ Extent(new) \subseteq Bytes
      /\ \A o \in live : Extent(new) \cap Extent(o) = {}
      /\ live' = live \cup {new}
      /\ req' = 0

\* kmalloc returns NULL.
Refuse ==
  /\ req # 0
  /\ req' = 0
  /\ UNCHANGED live

kfree(o) ==
  /\ req = 0
  /\ live' = live \ {o}
  /\ UNCHANGED req

Next ==
  \/ \E size \in Sizes : Ask(size)
  \/ \E ptr \in Bytes : Grant(ptr)
  \/ Refuse
  \/ \E o \in live : kfree(o)

Spec == Init /\ [][Next]_vars
=============================================================================
