----------------------------- MODULE LinkedList -----------------------------
(***************************************************************************)
(* The circular doubly linked list of libs/list.h, pointer by pointer: an  *)
(* entry may be added twice or deleted through stale pointers, and the     *)
(* result is then whatever the assignments make it.  A list memory l maps  *)
(* every entry to its next and prev fields.                                *)
(***************************************************************************)

list_next(l, elm) == l.next[elm]
list_prev(l, elm) == l.prev[elm]

list_empty(l, list) == l.next[list] = list

list_init(l, elm) == [l EXCEPT !.next[elm] = elm, !.prev[elm] = elm]

\* Insert elm between two entries; the neighbours are written first.
__list_add(l, elm, prev, next) ==
  [l EXCEPT !.next = [[@ EXCEPT ![prev] = elm] EXCEPT ![elm] = next],
            !.prev = [[@ EXCEPT ![next] = elm] EXCEPT ![elm] = prev]]

\* Faulty variant: the backward pointer is not updated.
__list_del_forward(l, prev, next) == [l EXCEPT !.next[prev] = next]

__list_del(l, prev, next) ==
  [l EXCEPT !.next[prev] = next, !.prev[next] = prev]

list_add_after(l, listelm, elm) == __list_add(l, elm, listelm, l.next[listelm])
list_add(l, listelm, elm) == list_add_after(l, listelm, elm)
list_add_before(l, listelm, elm) == __list_add(l, elm, l.prev[listelm], listelm)

\* The entry deleted keeps its own pointers.
list_del(l, listelm) == __list_del(l, l.prev[listelm], l.next[listelm])
=============================================================================
