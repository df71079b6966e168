----------------------------- MODULE LinkedList -----------------------------
(***************************************************************************)
(* The calls of src/src/include/ds/list.h on a set of lists, each the      *)
(* pointer operation of ListOps it executes.                               *)
(*                                                                         *)
(* list.c checks none of its preconditions: the guards on nodes below are  *)
(* the callers' part.  sched.c keeps them (OneListPerPcb of Sched).  A     *)
(* list whose list_init failed is a NULL handle, which every call but the  *)
(* pops accepts; the pops dereference it, so no caller may do that.        *)
(***************************************************************************)
EXTENDS ListOps, FiniteSets

VARIABLES
  links,      \* next, prev and size (see ListOps)
  live,       \* the lists whose handle is not NULL
  err_code,   \* list->err_code
  ret         \* the value returned by the last call

vars == <<links, live, err_code, ret>>

Unlinked(n) == links.next[n] = NULL /\ links.prev[n] = NULL
OnList(l, n) == \E i \in 1..links.size[l] : Contents(links, l)[i] = n

Init ==
  /\ links = NoLinks
  /\ live = {}
  /\ err_code = [l \in List |-> 0]
  /\ ret = NULL

\* list_init; either kmalloc may fail, and then the caller holds NULL.
ListInit(l) ==
  /\ l \notin live
  /\ \/ /\ links' = list_init(links, l)
        /\ err_code' = [err_code EXCEPT ![l] = 0]
        /\ live' = live \cup {l}
        /\ ret' = l
     \/ ret' = NULL /\ UNCHANGED <<links, live, err_code>>

\* What a call that returns a status does with the links h it computed.
Return(status, h) == ret' = status /\ links' = h /\ UNCHANGED <<live, err_code>>

PushHead(l, n) ==
  /\ Unlinked(n)
  /\ IF l \in live THEN Return(0, list_push_head(links, l, n)) ELSE Return(1, links)

PushTail(l, n) ==
  /\ Unlinked(n)
  /\ IF l \in live THEN Return(0, list_push_tail(links, l, n)) ELSE Return(1, links)

RemoveNode(l, n) ==
  IF l \notin live \/ RemoveRefused(links, l, n)
  THEN Return(1, links)
  ELSE OnList(l, n) /\ Return(0, list_remove_node(links, l, n))

\* A pop of an empty list sets the error code, which nothing clears again.
\* The message kstrncpy would store never reaches err_msg.
PopEmpty(l) ==
  /\ links.size[l] = 0
  /\ err_code' = [err_code EXCEPT ![l] = 1]
  /\ ret' = NULL
  /\ UNCHANGED <<links, live>>

PopHead(l) ==
  /\ l \in live
  /\ \/ PopEmpty(l)
     \/ links.size[l] # 0 /\ Return(HeadNode(links, l), list_pop_head(links, l))

PopTail(l) ==
  /\ l \in live
  /\ \/ PopEmpty(l)
     \/ links.size[l] # 0 /\ Return(TailNode(links, l), list_pop_tail(links, l))

\* list_free pops until the counter is 0, then frees the header.
Drained(h, l) ==
  LET after[k \in 0..h.size[l]] == IF k = 0 THEN h ELSE list_pop_head(after[k - 1], l)
  IN  after[h.size[l]]

ListFree(l) ==
  /\ l \in live
  /\ links' = Drained(links, l)
  /\ live' = live \ {l}
  /\ UNCHANGED <<err_code, ret>>

Next ==
  \E l \in List :
    \/ ListInit(l) \/ PopHead(l) \/ PopTail(l) \/ ListFree(l)
    \/ \E n \in Node : PushHead(l, n) \/ PushTail(l, n) \/ RemoveNode(l, n)

Spec == Init /\ [][Next]_vars

-----------------------------------------------------------------------------
(* Properties.                                                             *)

\* The type of every variable.
TypeOK ==
  /\ links \in [next : [Addr -> Addr \cup {NULL}],
                prev : [Addr -> Addr \cup {NULL}],
                size : [List -> Nat]]
  /\ live \in SUBSET List
  /\ err_code \in [List -> {0, 1}]
  /\ ret \in Addr \cup {NULL, 0, 1}

\* After any sequence of calls, the forward and the backward walk of every live
\* list close the same ring of exactly size nodes; no node is on two rings; and
\* a node on no ring has both pointers NULL, so it can be told from a linked
\* one.
WellFormed ==
  /\ \A l \in live : IsRing(links, l)
  /\ \A n \in Node : IF \E l \in live : OnList(l, n)
                     THEN Cardinality({l \in live : OnList(l, n)}) = 1
                     ELSE Unlinked(n)

\* list.c implements the queues its header promises: the nodes read off the
\* next pointers change, and the calls return, as Deques says.
D == INSTANCE Deques WITH contents <- [l \in live |-> Contents(links, l)],
                          err_code <- [l \in live |-> err_code[l]]
ImplementsDeques == D!Spec
=============================================================================
