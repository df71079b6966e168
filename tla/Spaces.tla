------------------------------- MODULE Spaces -------------------------------
(***************************************************************************)
(* What the memory manager promises: a process that was created has an     *)
(* address space of its own, with its program, its stack and the kernel in *)
(* it, and a page given to a caller holds what that caller wrote.  Nothing *)
(* that happens to one of them shows in another.                           *)
(***************************************************************************)
CONSTANTS Procs, Callers

VARIABLES
  space,   \* process created |-> what is at its code and stack addresses
  page     \* caller holding a page |-> what is in it

vars == <<space, page>>

\* The function f with the value v for k.
With(f, k, v) == [j \in DOMAIN f \cup {k} |-> IF j = k THEN v ELSE f[j]]

Fresh(p) == [code |-> <<"code", p>>, stack |-> <<"stack", p>>, kernel |-> TRUE]

Init == space = <<>> /\ page = <<>>

Create(p) ==
  /\ p \notin DOMAIN space
  /\ space' = With(space, p, Fresh(p))
  /\ UNCHANGED page

\* A running process writes to its stack.
Run(p) ==
  /\ p \in DOMAIN space
  /\ space' = [space EXCEPT ![p].stack = <<"used", p>>]
  /\ UNCHANGED page

Take(k) ==
  /\ k \notin DOMAIN page
  /\ page' = With(page, k, <<"kernel", k>>)
  /\ UNCHANGED space

Give(k) ==
  /\ k \in DOMAIN page
  /\ page' = [j \in DOMAIN page \ {k} |-> page[j]]
  /\ UNCHANGED space

Next ==
  \/ \E p \in Procs : Create(p) \/ Run(p)
  \/ \E k \in Callers : Take(k) \/ Give(k)

Spec == Init /\ [][Next]_vars
=============================================================================
