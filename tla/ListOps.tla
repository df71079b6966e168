------------------------------ MODULE ListOps ------------------------------
(***************************************************************************)
(* The circular, doubly linked, intrusive lists of                         *)
(* src/src/kernel/ds/list.c, pointer by pointer.                           *)
(*                                                                         *)
(* Every operation is a function from the links before it to the links     *)
(* after it.  The links h are a record: next and prev map an address to an *)
(* address or NULL, size maps a list to its counter.  The root node is the *)
(* first field of a List, so a list and its root have one address.         *)
(***************************************************************************)
EXTENDS Naturals, Sequences

CONSTANTS
  List,   \* addresses of list headers
  Node,   \* addresses of list nodes (the sched_node of a PCB)
  NULL    \* the null pointer

Addr == List \cup Node

ASSUME AddrAssumption == NULL \notin Addr /\ List \cap Node = {}

\* No list initialised, no node linked.
NoLinks == [next |-> [a \in Addr |-> NULL],
            prev |-> [a \in Addr |-> NULL],
            size |-> [l \in List |-> 0]]

\* What list_init stores in a new header.
list_init(h, l) == [h EXCEPT !.next[l] = l, !.prev[l] = l, !.size[l] = 0]

\* A slip for list_add: the node before the new one is not linked to it.
AddOneWay(h, new_node, prev, next) ==
  [h EXCEPT !.prev[next] = new_node, !.next[new_node] = next, !.prev[new_node] = prev]

\* __list_add: the four assignments, in their order.
list_add(h, new_node, prev, next) ==
  [h EXCEPT !.prev[next] = new_node, !.next[new_node] = next,
            !.prev[new_node] = prev, !.next[prev] = new_node]

list_push_head(h, l, new_node) ==
  [list_add(h, new_node, l, h.next[l]) EXCEPT !.size[l] = @ + 1]

list_push_tail(h, l, new_node) ==
  [list_add(h, new_node, h.prev[l], l) EXCEPT !.size[l] = @ + 1]

\* The root and the nodes of an empty list are refused.  Whether the node is
\* on this list is not checked.
RemoveRefused(h, l, node) == node = l \/ h.size[l] = 0

list_remove_node(h, l, node) ==
  LET h1 == [h  EXCEPT !.next[h.prev[node]] = h.next[node]]
      h2 == [h1 EXCEPT !.prev[h1.next[node]] = h1.prev[node]]
  IN  IF RemoveRefused(h, l, node) THEN h
      ELSE [h2 EXCEPT !.next[node] = NULL, !.prev[node] = NULL, !.size[l] = @ - 1]

\* The node list_pop_head and list_pop_tail return, and what they leave.
HeadNode(h, l) == IF h.size[l] = 0 THEN NULL ELSE h.next[l]
TailNode(h, l) == IF h.size[l] = 0 THEN NULL ELSE h.prev[l]

\* A slip for list_pop_head: list_remove_node has already counted down.
PopCountsTwice(h, l) == [list_remove_node(h, l, h.next[l]) EXCEPT !.size[l] = @ - 1]

list_pop_head(h, l) == list_remove_node(h, l, h.next[l])

\* A slip for list_pop_tail: the code of list_pop_head, copied.
PopWrongEnd(h, l) == list_remove_node(h, l, h.next[l])

list_pop_tail(h, l) == list_remove_node(h, l, h.prev[l])

-----------------------------------------------------------------------------
(* Reading a list back.                                                    *)

\* The addresses reached from the root of l in 0, 1, ... size + 1 steps.
Walk(h, step, l) ==
  LET at[k \in 0..h.size[l] + 1] == IF k = 0 THEN l ELSE step[at[k - 1]] IN at

\* The nodes of l, in order, by the counter and the next pointers.
Contents(h, l) ==
  LET at == Walk(h, h.next, l) IN [i \in 1..h.size[l] |-> at[i]]

\* The next and prev pointers of l describe one ring through the root and
\* exactly size nodes, and size counts them.
IsRing(h, l) ==
  LET n    == h.size[l]
      next == Walk(h, h.next, l)
      prev == Walk(h, h.prev, l)
  IN  /\ next[n + 1] = l
      /\ \A i \in 1..n : next[i] \in Node
      /\ \A i \in 0..n + 1 : prev[i] = next[n + 1 - i]
=============================================================================
