------------------------------- MODULE Deques -------------------------------
(***************************************************************************)
(* What src/src/include/ds/list.h promises its callers: double-ended       *)
(* queues of nodes.  A caller may push a node that is in no queue, and     *)
(* remove a node from the queue that holds it.  LinkedList shows that the  *)
(* pointer operations of list.c keep this promise.                         *)
(***************************************************************************)
EXTENDS Naturals, Sequences, SeqFilter

CONSTANTS List, Node, NULL

VARIABLES
  contents,   \* live list |-> sequence of nodes
  err_code,   \* live list |-> 1 once a pop found the list empty
  ret         \* the value returned by the last call

vars == <<contents, err_code, ret>>

Live == DOMAIN contents
Free == Node \ UNION {Range(contents[l]) : l \in Live}

Init ==
  /\ contents = <<>>
  /\ err_code = <<>>
  /\ ret = NULL

\* A new list is empty, or there is no memory for it.
Create(l) ==
  /\ l \in List \ Live
  /\ \/ /\ contents' = [k \in Live \cup {l} |-> IF k = l THEN <<>> ELSE contents[k]]
        /\ err_code' = [k \in Live \cup {l} |-> IF k = l THEN 0 ELSE err_code[k]]
        /\ ret' = l
     \/ ret' = NULL /\ UNCHANGED <<contents, err_code>>

\* A push or a removal, which returns 0, and 1 for a list that does not exist.
Update(l, s) ==
  /\ contents' = [contents EXCEPT ![l] = s]
  /\ ret' = 0
  /\ UNCHANGED err_code

Refuse == ret' = 1 /\ UNCHANGED <<contents, err_code>>

PushHead(l, n) == n \in Free /\ IF l \in Live THEN Update(l, <<n>> \o contents[l]) ELSE Refuse
PushTail(l, n) == n \in Free /\ IF l \in Live THEN Update(l, Append(contents[l], n)) ELSE Refuse

Remove(l, n) ==
  IF l \in Live /\ contents[l] # <<>>
  THEN n \in Range(contents[l]) /\ Update(l, Filter(contents[l], Node \ {n}))
  ELSE Refuse

\* A pop returns the node at one end, or NULL and an error from an empty list.
PopHead(l) ==
  /\ l \in Live
  /\ IF contents[l] = <<>>
     THEN err_code' = [err_code EXCEPT ![l] = 1] /\ ret' = NULL /\ UNCHANGED contents
     ELSE /\ contents' = [contents EXCEPT ![l] = Tail(@)]
          /\ ret' = Head(contents[l])
          /\ UNCHANGED err_code

PopTail(l) ==
  /\ l \in Live
  /\ LET s == contents[l]
     IN  IF s = <<>>
         THEN err_code' = [err_code EXCEPT ![l] = 1] /\ ret' = NULL /\ UNCHANGED contents
         ELSE /\ contents' = [contents EXCEPT ![l] = SubSeq(s, 1, Len(s) - 1)]
              /\ ret' = s[Len(s)]
              /\ UNCHANGED err_code

\* A list is given up; its nodes are free again.
Delete(l) ==
  /\ l \in Live
  /\ contents' = [k \in Live \ {l} |-> contents[k]]
  /\ err_code' = [k \in Live \ {l} |-> err_code[k]]
  /\ ret' = ret

Next ==
  \E l \in List :
    \/ Create(l) \/ PopHead(l) \/ PopTail(l) \/ Delete(l)
    \/ \E n \in Node : PushHead(l, n) \/ PushTail(l, n) \/ Remove(l, n)

Spec == Init /\ [][Next]_vars
=============================================================================
