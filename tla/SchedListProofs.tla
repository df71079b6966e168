-------------------------- MODULE SchedListProofs --------------------------
(***************************************************************************)
(* The scheduler over pointers implements the scheduler over sequences,    *)
(* for any number of processes and levels.                                 *)
(*                                                                         *)
(* The lists are in order (Well) when they are rings that share no node;   *)
(* LinkedListProofs then says what every call of list.c makes a list read  *)
(* (Reads) and which node follows which (View).                            *)
(*                                                                         *)
(* The ageing loops are described by the set V of the PCBs visited so far: *)
(* Aged(k, g, V) says that each level of g reads what stayed in it and     *)
(* then what came up from below, as in the closed form of Sched.  One      *)
(* visit adds one PCB to V (AgeNodeStep), n rounds of the while loop the   *)
(* first n nodes of the queue (Turn), and the for loop one level after     *)
(* another (Below), by induction over the rounds.  The node to visit next  *)
(* is read before the current one moves, and is still the next one after   *)
(* (NodeNext), because the queue it is in has lost earlier nodes only.     *)
(*                                                                         *)
(* ListInv, which is inductive, joins the shape of the data to the         *)
(* invariant of Sched on what the lists read: that a PCB is pushed on no   *)
(* list while it is on one follows from its state and priority.            *)
(***************************************************************************)
EXTENDS SchedList, SeqFilterProofs

\* The proofs about list.c, for the lists of the scheduler.
LP == INSTANCE LinkedListProofs WITH List <- Lists, Node <- PCB, links <- s.links,
                                     live <- Lists, err_code <- s, ret <- s

-----------------------------------------------------------------------------
(* The lists, read as sequences.                                           *)

LEMMA Addresses == NULL \notin LP!Addr /\ Lists \cap PCB = {}
BY AddressAssumption DEF LP!Addr

LEMMA SameOps ==
  ASSUME NEW h, NEW l, NEW x
  PROVE  /\ L!Contents(h, l) = LP!Contents(h, l)
         /\ L!IsRing(h, l) <=> LP!IsRing(h, l)
         /\ L!list_push_tail(h, l, x) = LP!list_push_tail(h, l, x)
         /\ L!list_remove_node(h, l, x) = LP!list_remove_node(h, l, x)
         /\ L!list_init(h, l) = LP!list_init(h, l)
         /\ L!NoLinks = LP!NoLinks
<1>1. \A step : L!Walk(h, step, l) = LP!Walk(h, step, l)
  BY DEF L!Walk, LP!Walk
<1>2. L!Contents(h, l) = LP!Contents(h, l)
  BY <1>1 DEF L!Contents, LP!Contents
<1>3. L!IsRing(h, l) <=> LP!IsRing(h, l)
  BY <1>1 DEF L!IsRing, LP!IsRing
<1>4. L!list_push_tail(h, l, x) = LP!list_push_tail(h, l, x)
  BY DEF L!list_push_tail, LP!list_push_tail, L!list_add, LP!list_add
<1>5. L!list_remove_node(h, l, x) = LP!list_remove_node(h, l, x)
  BY DEF L!list_remove_node, LP!list_remove_node, L!RemoveRefused, LP!RemoveRefused
<1>6. L!list_init(h, l) = LP!list_init(h, l) /\ L!NoLinks = LP!NoLinks
  BY DEF L!list_init, LP!list_init, L!NoLinks, LP!NoLinks, L!Addr, LP!Addr
<1> QED BY <1>2, <1>3, <1>4, <1>5, <1>6

\* All lists are rings.
Well(h) == h \in LP!Links /\ \E c : LP!Rings(h, Lists, c)

\* List l reads q now, and the others what they read before.
Reads(h, g, l, q) ==
  /\ Well(g) /\ L!Contents(g, l) = q
  /\ \A m \in Lists : m # l => L!Contents(g, m) = L!Contents(h, m)

\* The nodes of list l, and the pointers between them.
View(h, l, q) ==
  /\ q \in Seq(PCB) /\ Len(q) = h.size[l] /\ Distinct(q)
  /\ h.next[l] = IF Len(q) = 0 THEN l ELSE q[1]
  /\ \A j \in 1 .. Len(q) : h.next[q[j]] = IF j = Len(q) THEN l ELSE q[j + 1]

LEMMA SameDistinct == ASSUME NEW q PROVE LP!Distinct(q) <=> Distinct(q)
BY DEF LP!Distinct, Distinct

LEMMA ListView ==
  ASSUME NEW h, Well(h), NEW l \in Lists
  PROVE  View(h, l, L!Contents(h, l)) /\ L!IsRing(h, l)
<1> DEFINE q == L!Contents(h, l)
           n == h.size[l]
<1>1. PICK c : LP!Rings(h, Lists, c)
  BY DEF Well
<1>2. LP!IsListed(h, c, l, q)
  <2>1. LP!IsListed(h, c, l, LP!Contents(h, l))
    BY <1>1, Addresses, LP!ContentsSeq, Zenon
  <2> QED BY <2>1, SameOps
<1>3. L!IsRing(h, l)
  <2>1. LP!IsRing(h, l)
    BY <1>1, Addresses, LP!RingRead
  <2> QED BY <2>1, SameOps
<1>4. /\ q \in Seq(PCB) /\ Len(q) = n /\ Distinct(q) /\ n \in Nat
      /\ \A i \in 1 .. n : q[i] = c[l][i]
  <2>1. n \in Nat
    BY <1>1 DEF LP!Rings, LP!Ring
  <2> QED BY <1>2, <2>1, SameDistinct DEF LP!IsListed
<1> HIDE DEF q
<1>5. /\ c[l][0] = l /\ c[l][n + 1] = l
      /\ \A i \in 0 .. n : h.next[c[l][i]] = c[l][i + 1]
  BY <1>1 DEF LP!Rings, LP!Ring
<1> HIDE DEF n
<1>6. h.next[l] = IF Len(q) = 0 THEN l ELSE q[1]
  <2>1. h.next[l] = c[l][1]
    BY <1>4, <1>5
  <2> QED BY <1>4, <1>5, <2>1
<1>7. ASSUME NEW j \in 1 .. Len(q) PROVE h.next[q[j]] = IF j = Len(q) THEN l ELSE q[j + 1]
  <2>1. j \in 1 .. n /\ j \in 0 .. n /\ q[j] = c[l][j]
    BY <1>4, <1>7
  <2>2. h.next[q[j]] = c[l][j + 1]
    BY <1>5, <2>1
  <2>3. j # n => j + 1 \in 1 .. n
    BY <1>4, <2>1
  <2> QED BY <1>4, <1>5, <2>1, <2>2, <2>3
<1>8. View(h, l, q)
  BY <1>4, <1>6, <1>7 DEF View, n
<1> QED BY <1>3, <1>8 DEF q

\* list_push_tail of a node on no list.
LEMMA Pushed ==
  ASSUME NEW h, Well(h), NEW l \in Lists, NEW p \in PCB,
         \A m \in Lists : p \notin Range(L!Contents(h, m)),
         NEW g, g = L!list_push_tail(h, l, p)
  PROVE  Reads(h, g, l, Append(L!Contents(h, l), p))
<1>1. PICK c : LP!Rings(h, Lists, c)
  BY DEF Well
<1>2. h \in LP!Links
  BY DEF Well
<1>3. h.next[p] = NULL
  <2>1. ASSUME NEW m \in Lists, NEW i \in 1 .. h.size[m] PROVE c[m][i] # p
    <3> DEFINE q == LP!Contents(h, m)
    <3>1. LP!IsListed(h, c, m, q)
      BY <1>1, Addresses, LP!ContentsSeq, Zenon
    <3>2. q \in Seq(PCB) /\ i \in 1 .. Len(q) /\ q[i] = c[m][i] /\ p \notin Range(q)
      BY <3>1, SameOps DEF LP!IsListed
    <3> HIDE DEF q
    <3>3. q[i] \in Range(q)
      BY <3>2 DEF Range
    <3> QED BY <3>2, <3>3
  <2> QED BY <1>1, <2>1 DEF LP!Rings
<1>4. LP!Reads(h, Lists, l, Append(LP!Contents(h, l), p), LP!list_push_tail(h, l, p))
  BY <1>1, <1>2, <1>3, Addresses, LP!PushTailReads, Zenon
<1> QED BY <1>4, SameOps DEF LP!Reads, Reads, Well

\* list_remove_node of the node number j.
LEMMA Removed ==
  ASSUME NEW h, Well(h), NEW l \in Lists, NEW j \in 1 .. Len(L!Contents(h, l)),
         NEW g, g = L!list_remove_node(h, l, L!Contents(h, l)[j])
  PROVE  Reads(h, g, l, LP!Dropped(L!Contents(h, l), j))
<1> DEFINE q == L!Contents(h, l)
<1>1. PICK c : LP!Rings(h, Lists, c)
  BY DEF Well
<1>2. h \in LP!Links
  BY DEF Well
<1>3. LP!IsListed(h, c, l, q)
  <2>1. LP!IsListed(h, c, l, LP!Contents(h, l))
    BY <1>1, Addresses, LP!ContentsSeq, Zenon
  <2> QED BY <2>1, SameOps
<1>4. j \in 1 .. h.size[l] /\ q[j] = c[l][j]
  BY <1>3 DEF LP!IsListed
<1>5. LP!Reads(h, Lists, l, LP!Dropped(LP!Contents(h, l), j), LP!list_remove_node(h, l, c[l][j]))
  BY <1>1, <1>2, <1>4, Addresses, LP!RemoveReads, Zenon
<1>6. g = LP!list_remove_node(h, l, c[l][j])
  BY <1>4, SameOps
<1>7. LP!Reads(h, Lists, l, LP!Dropped(q, j), g)
  BY <1>5, <1>6, SameOps
<1> QED BY <1>7, SameOps DEF LP!Reads, Reads, Well

\* A node has pointers exactly when it is on a list.
LEMMA LinkedView ==
  ASSUME NEW h, Well(h), NEW p \in PCB
  PROVE  h.next[p] = NULL <=> \A m \in Lists : p \notin Range(L!Contents(h, m))
<1>1. PICK c : LP!Rings(h, Lists, c)
  BY DEF Well
<1>2. \A m \in Lists : LP!IsListed(h, c, m, L!Contents(h, m))
  <2>1. ASSUME NEW m \in Lists PROVE LP!IsListed(h, c, m, LP!Contents(h, m))
    BY <1>1, Addresses, LP!ContentsSeq, Zenon
  <2> QED BY <2>1, SameOps
<1>3. \A m \in Lists : p \in Range(L!Contents(h, m)) <=> LP!On(h, c, m, p)
  <2> TAKE m \in Lists
  <2> DEFINE q == L!Contents(h, m)
  <2>1. LP!IsListed(h, c, m, q)
    BY <1>2
  <2> HIDE DEF q
  <2>2. q \in Seq(PCB) /\ Len(q) = h.size[m] /\ \A i \in 1 .. h.size[m] : q[i] = c[m][i]
    BY <2>1 DEF LP!IsListed
  <2>3. DOMAIN q = 1 .. h.size[m]
    BY <2>2
  <2>4. p \in Range(q) <=> \E i \in 1 .. h.size[m] : q[i] = p
    BY <2>3 DEF Range
  <2>5. p \in Range(q) <=> LP!On(h, c, m, p)
    BY <2>2, <2>4 DEF LP!On
  <2> QED BY <2>5 DEF q
<1>4. ASSUME NEW m \in Lists, LP!On(h, c, m, p) PROVE h.next[p] # NULL
  BY <1>1, <1>4, Addresses, LP!OnLinked, Zenon
<1>5. (\A m \in Lists : ~LP!On(h, c, m, p)) => h.next[p] = NULL
  BY <1>1 DEF LP!Rings, LP!On
<1> QED BY <1>3, <1>4, <1>5

-----------------------------------------------------------------------------
(* The ageing loop.                                                        *)

\* What list l of scheduler k reads.
At(k, l) == L!Contents(k.links, l)

\* The fields of the scheduler have their types, and its lists are rings.
Scheduler(k) ==
  /\ k = [links |-> k.links, current_pcb |-> k.current_pcb, state |-> k.state,
          priority |-> k.priority, quantum_remaining |-> k.quantum_remaining,
          age_ticks |-> k.age_ticks]
  /\ Well(k.links)
  /\ k.current_pcb \in PCB \cup {NULL} /\ k.state \in [PCB -> S!States]
  /\ k.priority \in [PCB -> Level] /\ k.quantum_remaining \in [PCB -> Nat]
  /\ k.age_ticks \in [PCB -> Nat]

\* Every process is on the list that its state and priority name.
Queued(k) ==
  /\ \A l \in Lists : At(k, l) \in Seq(Proc) /\ Distinct(At(k, l))
  /\ \A p \in Proc : /\ \A l \in Level : p \in Range(At(k, l))
                                           <=> k.state[p] = "READY" /\ k.priority[p] = l
                     /\ p \in Range(At(k, WaitingQueue)) <=> k.state[p] = "WAITING"

\* The members of V that are promoted when the loop visits them.
Gone(k, V) == {p \in V : k.age_ticks[p] + 1 >= AGE_TICK_MAX}

\* What comes to the end of the level above l.
Up(k, l, G) == IF l \in Level THEN Filter(At(k, l), G) ELSE <<>>

\* The links when the processes of G were promoted.
AgedLists(k, h, G) ==
  /\ Well(h)
  /\ \A l \in Level : L!Contents(h, l) = Filter(At(k, l), Proc \ G) \o Up(k, l + 1, G)
  /\ L!Contents(h, WaitingQueue) = At(k, WaitingQueue)

\* The scheduler g when the loop that began with k has visited V.
Aged(k, g, V) ==
  /\ Scheduler(g) /\ AgedLists(k, g.links, Gone(k, V))
  /\ g.current_pcb = k.current_pcb /\ g.state = k.state
  /\ g.priority = [q \in PCB |-> IF q \in Gone(k, V) THEN k.priority[q] - 1 ELSE k.priority[q]]
  /\ g.quantum_remaining =
       [q \in PCB |-> IF q \in Gone(k, V) THEN MLFQ_QUANTUMS[k.priority[q] - 1]
                      ELSE k.quantum_remaining[q]]
  /\ g.age_ticks = [q \in PCB |-> IF q \in Gone(k, V) THEN 0
                                  ELSE IF q \in V THEN k.age_ticks[q] + 1 ELSE k.age_ticks[q]]

\* On its way through level i the loop has visited the first m processes.
VisitedTo(k, i, m, V) ==
  /\ V \subseteq Proc
  /\ \A l \in Level : l = 0 \/ l > i => V \cap Range(At(k, l)) = {}
  /\ \A j \in 1 .. Len(At(k, i)) : At(k, i)[j] \in V <=> j <= m

\* A level, and the lists.
LEMMA LevelFacts ==
  /\ MLFQ_LEVELS \in Nat \ {0} /\ Level \subseteq Nat /\ Level \subseteq Lists
  /\ \A i \in 1 .. MLFQ_LEVELS - 1 : i \in Level /\ i - 1 \in Level /\ i \in Nat /\ i # 0
  /\ WaitingQueue \in Lists /\ WaitingQueue \notin Level
BY SchedAssumption, AddressAssumption DEF Level, Lists

\* No process is in two queues.
LEMMA QueuesApart ==
  ASSUME NEW k, Queued(k), NEW l \in Level, NEW m \in Level, l # m
  PROVE  Range(At(k, l)) \cap Range(At(k, m)) = {}
<1>1. ASSUME NEW p, p \in Range(At(k, l)), p \in Range(At(k, m)) PROVE FALSE
  <2>1. At(k, l) \in Seq(Proc) /\ p \in Range(At(k, l))
    BY <1>1, LevelFacts DEF Queued
  <2>2. p \in Proc
    <3> DEFINE q == At(k, l)
    <3>1. PICK j \in DOMAIN q : p = q[j]
      BY <2>1 DEF Range
    <3> HIDE DEF q
    <3> QED BY <2>1, <3>1, ElementOfSeq, LenProperties DEF q
  <2> QED BY <1>1, <2>2 DEF Queued
<1> QED BY <1>1

\* What level i reads while the loop is there.
LEMMA AgedLevel ==
  ASSUME NEW k, Queued(k), NEW i \in 1 .. MLFQ_LEVELS - 1, NEW V, NEW m \in Nat,
         VisitedTo(k, i, m, V), NEW h, AgedLists(k, h, Gone(k, V))
  PROVE  L!Contents(h, i) = Filter(At(k, i), Proc \ Gone(k, V))
<1> DEFINE G == Gone(k, V)
           F == Filter(At(k, i), Proc \ G)
<1>1. i \in Level /\ At(k, i) \in Seq(Proc)
  BY LevelFacts DEF Queued
<1>2. Up(k, i + 1, G) = <<>>
  <2>1. CASE i + 1 \in Level
    <3>1. At(k, i + 1) \in Seq(Proc) /\ i + 1 > i
      BY <2>1, LevelFacts DEF Queued
    <3>2. Range(At(k, i + 1)) \cap G = {}
      BY <2>1, <3>1 DEF VisitedTo, Gone
    <3>3. Filter(At(k, i + 1), G) = <<>>
      BY <3>1, <3>2, FilterNone
    <3> QED BY <3>3 DEF Up
  <2>2. CASE i + 1 \notin Level
    BY <2>2 DEF Up
  <2> QED BY <2>1, <2>2
<1>3. L!Contents(h, i) = F \o Up(k, i + 1, G)
  BY <1>1 DEF AgedLists
<1>4. F \in Seq(Proc)
  BY <1>1, FilterProperties
<1>5. F \o <<>> = F
  BY <1>4, ConcatEmptySeq
<1> QED BY <1>2, <1>3, <1>5

\* The process the loop meets next on level i is still there, followed by the one
\* after it: promotions have taken out only some of those before.
NodeAt(k, i, m, h, G, r) ==
  TakenOut(At(k, i), Proc \ G, m + 1, L!Contents(h, i), r,
           Filter(At(k, i), (Proc \ G) \ {At(k, i)[m + 1]}))

LEMMA NodeNext ==
  ASSUME NEW k, Queued(k), NEW i \in 1 .. MLFQ_LEVELS - 1, NEW V, NEW m \in Nat,
         VisitedTo(k, i, m, V), NEW h, AgedLists(k, h, Gone(k, V)),
         m < Len(At(k, i)), NEW p, p = At(k, i)[m + 1]
  PROVE  /\ \E r : NodeAt(k, i, m, h, Gone(k, V), r)
         /\ h.next[p] = IF m + 1 = Len(At(k, i)) THEN i ELSE At(k, i)[m + 2]
         /\ p \in Proc /\ p \notin V
<1> DEFINE q == At(k, i)
           T == Proc \ Gone(k, V)
           F == L!Contents(h, i)
           n == Len(q)
<1>1. /\ i \in Lists /\ i \in Level /\ q \in Seq(Proc) /\ Distinct(q) /\ n \in Nat
      /\ DOMAIN q = 1 .. n /\ \A j \in 1 .. n : q[j] \in Proc
  BY LevelFacts, LenProperties, ElementOfSeq DEF Queued
<1>2. F = Filter(q, T)
  BY AgedLevel
<1>3. \A j \in 1 .. n : j > m => q[j] \in T /\ q[j] \notin V
  BY <1>1 DEF VisitedTo, Gone
<1>4. m + 1 \in 1 .. n /\ m + 1 > m
  BY <1>1
<1>5. q[m + 1] \in T /\ p \in Proc /\ p \notin V /\ q[m + 1] = p
  BY <1>1, <1>3, <1>4
<1>6. View(h, i, F)
  BY <1>1, ListView DEF AgedLists
<1> HIDE DEF q, T, F, n
<1>7. PICK r : TakenOut(q, T, m + 1, Filter(q, T), r, Filter(q, T \ {q[m + 1]}))
  BY <1>1, <1>4, <1>5, FilterOut DEF n
<1>8. h.next[p] = IF m + 1 = n THEN i ELSE q[m + 2]
  <2>1. r \in 1 .. Len(F) /\ F[r] = p /\ (m + 1 = n => r = Len(F))
    BY <1>2, <1>5, <1>7 DEF TakenOut, n
  <2>2. h.next[p] = IF r = Len(F) THEN i ELSE F[r + 1]
    BY <1>6, <2>1 DEF View
  <2>3. CASE m + 1 = n
    BY <2>1, <2>2, <2>3
  <2>4. CASE m + 1 # n
    <3>1. m + 1 < n /\ (m + 1) + 1 = m + 2 /\ m + 2 \in 1 .. n /\ m + 2 > m
      BY <1>1, <1>4, <2>4
    <3>2. q[m + 2] \in T
      BY <1>3, <3>1
    <3>3. r < Len(F) /\ F[r + 1] = q[m + 2]
      BY <1>2, <1>7, <3>1, <3>2 DEF TakenOut, n
    <3>4. r # Len(F)
      <4>1. F \in Seq(PCB)
        BY <1>6 DEF View
      <4>2. Len(F) \in Nat
        BY <4>1, LenProperties
      <4> QED BY <2>1, <3>3, <4>2
    <3> QED BY <2>2, <2>4, <3>3, <3>4
  <2> QED BY <2>3, <2>4
<1>9. NodeAt(k, i, m, h, Gone(k, V), r)
  BY <1>2, <1>7 DEF NodeAt, q, T, F
<1> QED BY <1>5, <1>8, <1>9 DEF q, n

\* A promotion.
LEMMA Promoted ==
  ASSUME NEW k, Queued(k), NEW i \in 1 .. MLFQ_LEVELS - 1, NEW V, NEW m \in Nat,
         VisitedTo(k, i, m, V), NEW h, AgedLists(k, h, Gone(k, V)),
         m < Len(At(k, i)), NEW p, p = At(k, i)[m + 1], NEW G, G = Gone(k, V) \cup {p},
         NEW g, g = L!list_push_tail(L!list_remove_node(h, i, p), i - 1, p)
  PROVE  AgedLists(k, g, G)
<1> DEFINE q == At(k, i)
           O == Gone(k, V)
           F == L!Contents(h, i)
           H == Filter(q, (Proc \ O) \ {p})
           d == L!list_remove_node(h, i, p)
<1>1. PICK r : NodeAt(k, i, m, h, O, r)
  BY NodeNext
<1>2. p \in Proc /\ p \notin V /\ p \in PCB /\ p \notin O /\ p = q[m + 1]
  BY NodeNext DEF PCB, Gone
<1>3. /\ q \in Seq(Proc) /\ Distinct(q) /\ i \in Lists /\ i \in Level /\ i - 1 \in Level
      /\ i - 1 \in Lists /\ i \in Nat /\ i # i - 1
  BY LevelFacts DEF Queued
<1>4. p \in Range(q) /\ m + 1 \in 1 .. Len(q)
  <2>1. DOMAIN q = 1 .. Len(q) /\ Len(q) \in Nat
    BY <1>3, LenProperties
  <2>2. m + 1 \in 1 .. Len(q)
    BY <2>1
  <2> HIDE DEF q
  <2> QED BY <1>2, <2>1, <2>2 DEF Range
<1>5. k.state[p] = "READY" /\ k.priority[p] = i
  BY <1>2, <1>3, <1>4 DEF Queued
<1>6. /\ r \in 1 .. Len(F) /\ F[r] = p
      /\ H = [j \in 1 .. Len(F) - 1 |-> IF j < r THEN F[j] ELSE F[j + 1]]
  BY <1>1, <1>2 DEF NodeAt, TakenOut
<1>7. Well(h)
  BY DEF AgedLists
<1> HIDE DEF q, O, F, H, d
<1>8. Reads(h, d, i, H)
  <2>1. Reads(h, d, i, LP!Dropped(F, r))
    BY <1>3, <1>6, <1>7, Removed DEF F, d
  <2>2. LP!Dropped(F, r) = H
    BY <1>6 DEF LP!Dropped
  <2> QED BY <2>1, <2>2
<1>9. \A l \in Level : /\ At(k, l) \in Seq(Proc)
                       /\ l # i => p \notin Range(At(k, l))
  BY <1>2, <1>5, LevelFacts DEF Queued
<1>10. ASSUME NEW l \in Lists PROVE p \notin Range(L!Contents(d, l))
  <2>1. CASE l = i
    <3>1. Range(H) = Range(q) \cap ((Proc \ O) \ {p})
      BY <1>3, FilterProperties DEF H
    <3> QED BY <1>8, <2>1, <3>1 DEF Reads
  <2>2. CASE l = WaitingQueue
    <3>1. L!Contents(d, l) = At(k, WaitingQueue)
      BY <1>3, <1>8, <2>2, LevelFacts DEF Reads, AgedLists
    <3> QED BY <1>2, <1>5, <3>1 DEF Queued
  <2>3. CASE l \in Level /\ l # i
    <3> DEFINE a == Filter(At(k, l), Proc \ O)
               b == Up(k, l + 1, O)
    <3>1. L!Contents(d, l) = a \o b
      BY <1>8, <2>3 DEF Reads, AgedLists, O
    <3>2. a \in Seq(Proc) /\ Range(a) = Range(At(k, l)) \cap (Proc \ O)
      BY <1>9, <2>3, FilterProperties
    <3>3. b \in Seq(Proc) /\ Range(b) \subseteq O
      <4>1. CASE l + 1 \in Level
        <5>1. At(k, l + 1) \in Seq(Proc) /\ b = Filter(At(k, l + 1), O)
          BY <1>9, <4>1 DEF Up
        <5> QED BY <5>1, FilterProperties
      <4>2. CASE l + 1 \notin Level
        <5>1. b = <<>>
          BY <4>2 DEF Up
        <5>2. Range(<<>>) = {} /\ <<>> \in Seq(Proc)
          BY EmptySeq DEF Range
        <5> HIDE DEF b
        <5> QED BY <5>1, <5>2
      <4> QED BY <4>1, <4>2
    <3> HIDE DEF a, b
    <3>4. Range(a \o b) = Range(a) \cup Range(b)
      BY <3>2, <3>3, ConcatDistinct
    <3> QED BY <1>2, <1>9, <2>3, <3>1, <3>2, <3>3, <3>4
  <2> QED BY <2>1, <2>2, <2>3 DEF Lists
<1>11. Reads(d, g, i - 1, Append(L!Contents(d, i - 1), p))
  <2>1. Well(d)
    BY <1>8 DEF Reads
  <2> QED BY <1>2, <1>3, <1>10, <2>1, Pushed DEF d
<1>12. (Proc \ O) \ {p} = Proc \ G /\ \A e : e \in G <=> e \in O \/ e = p
  BY DEF O
<1>13. ASSUME NEW l \in Level, l # i
       PROVE  Filter(At(k, l), Proc \ G) = Filter(At(k, l), Proc \ O)
  <2> DEFINE t == At(k, l)
  <2>1. \A j \in DOMAIN t : t[j] # p
    BY <1>9, <1>13 DEF Range
  <2> HIDE DEF t
  <2>2. \A j \in DOMAIN t : t[j] \in Proc \ G <=> t[j] \in Proc \ O
    BY <1>12, <2>1
  <2>3. Filter(t, Proc \ G) = Filter(t, Proc \ O)
    BY <2>2, FilterSame
  <2> QED BY <2>3 DEF t
<1>14. ASSUME NEW l \in Nat, l # i PROVE Up(k, l, G) = Up(k, l, O)
  <2>1. CASE l \in Level
    <3> DEFINE t == At(k, l)
    <3>1. \A j \in DOMAIN t : t[j] # p
      BY <1>9, <1>14, <2>1 DEF Range
    <3> HIDE DEF t
    <3>2. \A j \in DOMAIN t : t[j] \in G <=> t[j] \in O
      BY <1>12, <3>1
    <3>3. Filter(t, G) = Filter(t, O)
      BY <3>2, FilterSame
    <3> QED BY <3>3 DEF t, Up
  <2>2. CASE l \notin Level
    BY <2>2 DEF Up
  <2> QED BY <2>1, <2>2
<1>15. Filter(q, G) = Append(Filter(q, O), p)
  <2>1. \A j \in 1 .. Len(q) : q[j] \in O => j < m + 1
    <3>1. \A j \in 1 .. Len(q) : q[j] \in O => j <= m
      BY DEF VisitedTo, q, O, Gone
    <3> QED BY <3>1
  <2>2. G = O \cup {q[m + 1]}
    BY <1>2 DEF O
  <2>3. Filter(q, O \cup {q[m + 1]}) = Append(Filter(q, O), q[m + 1])
    BY <1>3, <1>4, <2>1, FilterAdd
  <2> QED BY <1>2, <2>2, <2>3
<1>16. ASSUME NEW l \in Level
       PROVE  L!Contents(g, l) = Filter(At(k, l), Proc \ G) \o Up(k, l + 1, G)
  <2> DEFINE a == Filter(At(k, l), Proc \ O)
             b == Up(k, l + 1, O)
  <2>1. L!Contents(h, l) = a \o b /\ l \in Lists /\ l + 1 \in Nat
    <3>1. l \in Lists /\ l + 1 \in Nat
      BY LevelFacts
    <3>2. L!Contents(h, l) = Filter(At(k, l), Proc \ Gone(k, V)) \o Up(k, l + 1, Gone(k, V))
      BY Zenon DEF AgedLists
    <3> QED BY <3>1, <3>2 DEF O
  <2>2. CASE l = i
    <3>1. L!Contents(g, l) = H
      BY <1>3, <1>8, <1>11, <2>2 DEF Reads
    <3>2. Up(k, l + 1, G) = <<>>
      <4>1. Up(k, i + 1, O) = <<>>
        <5>1. CASE i + 1 \in Level
          <6>1. At(k, i + 1) \in Seq(Proc) /\ i + 1 > i
            BY <1>3, <1>9, <5>1
          <6>2. Range(At(k, i + 1)) \cap O = {}
            BY <5>1, <6>1 DEF VisitedTo, Gone, O
          <6> QED BY <6>1, <6>2, FilterNone DEF Up
        <5>2. CASE i + 1 \notin Level
          BY <5>2 DEF Up
        <5> QED BY <5>1, <5>2
      <4>2. i + 1 # i /\ i + 1 \in Nat
        BY <1>3
      <4> QED BY <1>14, <2>2, <4>1, <4>2
    <3>3. H = Filter(At(k, l), Proc \ G)
      BY <1>12, <2>2 DEF H, q
    <3>4. H \in Seq(Proc)
      BY <1>3, FilterProperties DEF H
    <3>5. H \o <<>> = H
      BY <3>4, ConcatEmptySeq
    <3> QED BY <3>1, <3>2, <3>3, <3>5
  <2>3. CASE l = i - 1
    <3>1. b = Filter(q, O) /\ Up(k, l + 1, G) = Filter(q, G)
      <4>1. l + 1 = i
        BY <1>3, <2>3
      <4> QED BY <1>3, <4>1 DEF Up, q
    <3>2. l # i /\ L!Contents(d, l) = a \o b
      BY <1>3, <1>8, <2>1, <2>3 DEF Reads
    <3>3. L!Contents(g, l) = Append(a \o b, p)
      BY <1>11, <2>3, <3>2 DEF Reads
    <3>4. a \in Seq(Proc) /\ b \in Seq(Proc)
      <4>1. At(k, l) \in Seq(Proc)
        BY <1>9
      <4>2. a \in Seq(Proc)
        BY <4>1, FilterProperties
      <4>3. Filter(q, O) \in Seq(Proc)
        BY <1>3, FilterProperties
      <4> QED BY <3>1, <4>2, <4>3
    <3>5. Filter(At(k, l), Proc \ G) = a
      BY <1>13, <3>2
    <3>6. Up(k, l + 1, G) = Append(b, p)
      BY <1>15, <3>1
    <3> HIDE DEF a, b
    <3>7. Append(a \o b, p) = a \o Append(b, p)
      <4>1. a \o b \in Seq(Proc) /\ <<p>> \in Seq(Proc)
        BY <1>2, <3>4, ConcatProperties
      <4>2. Append(a \o b, p) = (a \o b) \o <<p>> /\ Append(b, p) = b \o <<p>>
        BY <1>2, <3>4, <4>1, AppendIsConcat
      <4>3. (a \o b) \o <<p>> = a \o (b \o <<p>>)
        BY <3>4, <4>1, ConcatAssociative
      <4> QED BY <4>2, <4>3
    <3> QED BY <3>3, <3>5, <3>6, <3>7
  <2>4. CASE l # i /\ l # i - 1
    <3>1. L!Contents(g, l) = a \o b
      BY <1>8, <1>11, <2>1, <2>4 DEF Reads
    <3>2. l + 1 # i
      BY <1>3, <2>4, LevelFacts
    <3>3. Filter(At(k, l), Proc \ G) = a /\ Up(k, l + 1, G) = b
      BY <1>13, <1>14, <2>1, <2>4, <3>2
    <3> QED BY <3>1, <3>3
  <2> QED BY <2>2, <2>3, <2>4
<1>17. Well(g) /\ L!Contents(g, WaitingQueue) = At(k, WaitingQueue)
  BY <1>3, <1>8, <1>11, LevelFacts DEF Reads, AgedLists
<1> QED BY <1>16, <1>17 DEF AgedLists

\* One turn of the ageing loop.
LEMMA AgeNodeStep ==
  ASSUME NEW k, Scheduler(k), Queued(k), NEW i \in 1 .. MLFQ_LEVELS - 1, NEW V, NEW m \in Nat,
         VisitedTo(k, i, m, V), NEW g, Aged(k, g, V), m < Len(At(k, i)),
         NEW p, p = At(k, i)[m + 1], NEW W, W = V \cup {p}
  PROVE  Aged(k, AgeNode(g, i, p), W) /\ VisitedTo(k, i, m + 1, W)
<1> DEFINE e == AgeNode(g, i, p)
           q == At(k, i)
<1>1. AgedLists(k, g.links, Gone(k, V)) /\ Scheduler(g)
  BY DEF Aged
<1>2. p \in Proc /\ p \in PCB /\ p \notin V /\ p \notin Gone(k, V)
  BY <1>1, NodeNext DEF PCB, Gone
<1>3. /\ q \in Seq(Proc) /\ Distinct(q) /\ i \in Level /\ i - 1 \in Level /\ i \in Nat
      /\ DOMAIN q = 1 .. Len(q) /\ Len(q) \in Nat
  BY LevelFacts, LenProperties DEF Queued
<1>4. m + 1 \in 1 .. Len(q) /\ p = q[m + 1] /\ p \in Range(q)
  <2>1. m + 1 \in 1 .. Len(q) /\ p = q[m + 1]
    BY <1>3
  <2> HIDE DEF q
  <2> QED BY <1>3, <2>1 DEF Range
<1>5. k.priority[p] = i /\ \A l \in Level : l # i => p \notin Range(At(k, l))
  <2>1. k.state[p] = "READY" /\ k.priority[p] = i
    BY <1>2, <1>3, <1>4 DEF Queued
  <2> QED BY <1>2, <2>1 DEF Queued
<1>6. g.priority[p] = i /\ g.age_ticks[p] = k.age_ticks[p] /\ k.age_ticks[p] \in Nat
  BY <1>2, <1>5 DEF Aged, Scheduler
<1>7. VisitedTo(k, i, m + 1, W)
  <2>1. W \subseteq Proc
    BY <1>2 DEF VisitedTo
  <2>2. \A l \in Level : l = 0 \/ l > i => W \cap Range(At(k, l)) = {}
    <3> SUFFICES ASSUME NEW l \in Level, l = 0 \/ l > i PROVE W \cap Range(At(k, l)) = {}
      OBVIOUS
    <3>1. l # i /\ V \cap Range(At(k, l)) = {}
      BY <1>3, LevelFacts DEF VisitedTo
    <3> QED BY <1>5, <3>1
  <2>3. \A j \in 1 .. Len(q) : q[j] \in W <=> j <= m + 1
    <3> SUFFICES ASSUME NEW j \in 1 .. Len(q) PROVE q[j] \in W <=> j <= m + 1
      OBVIOUS
    <3>1. q[j] \in V <=> j <= m
      BY DEF VisitedTo
    <3>2. q[j] = p <=> j = m + 1
      BY <1>3, <1>4 DEF Distinct
    <3>3. j <= m + 1 <=> j <= m \/ j = m + 1
      BY <1>3
    <3> QED BY <3>1, <3>2, <3>3
  <2> QED BY <2>1, <2>2, <2>3 DEF VisitedTo
<1>8. CASE k.age_ticks[p] + 1 < AGE_TICK_MAX
  <2>1. e = [g EXCEPT !.age_ticks[p] = @ + 1]
    BY <1>6, <1>8 DEF AgeNode
  <2>2. Gone(k, W) = Gone(k, V)
    BY <1>6, <1>8, SchedAssumption DEF Gone
  <2> HIDE DEF e, q
  <2>3. /\ e.links = g.links /\ e.current_pcb = g.current_pcb /\ e.state = g.state
        /\ e.priority = g.priority /\ e.quantum_remaining = g.quantum_remaining
        /\ e.age_ticks = [g.age_ticks EXCEPT ![p] = @ + 1]
        /\ e = [links |-> e.links, current_pcb |-> e.current_pcb, state |-> e.state,
                priority |-> e.priority, quantum_remaining |-> e.quantum_remaining,
                age_ticks |-> e.age_ticks]
    BY <1>1, <2>1 DEF Scheduler
  <2>4. e.age_ticks \in [PCB -> Nat]
    BY <1>1, <1>2, <1>6, <2>3 DEF Scheduler
  <2>5. Scheduler(e)
    BY <1>1, <2>3, <2>4 DEF Scheduler
  <2>6. e.age_ticks = [x \in PCB |-> IF x \in Gone(k, W) THEN 0
                                     ELSE IF x \in W THEN k.age_ticks[x] + 1 ELSE k.age_ticks[x]]
    <3>1. e.age_ticks = [x \in PCB |-> IF x = p THEN g.age_ticks[p] + 1 ELSE g.age_ticks[x]]
      BY <1>1, <1>2, <2>3 DEF Scheduler
    <3>2. \A x \in PCB : g.age_ticks[x] = IF x \in Gone(k, V) THEN 0
                                     ELSE IF x \in V THEN k.age_ticks[x] + 1 ELSE k.age_ticks[x]
      BY DEF Aged
    <3>3. \A x \in PCB : x \in W <=> x \in V \/ x = p
      OBVIOUS
    <3> QED BY <1>2, <2>2, <3>1, <3>2, <3>3
  <2>7. Aged(k, e, W)
    BY <2>2, <2>3, <2>5, <2>6 DEF Aged
  <2> QED BY <1>7, <2>7 DEF e
<1>9. CASE ~(k.age_ticks[p] + 1 < AGE_TICK_MAX)
  <2> DEFINE h == L!list_push_tail(L!list_remove_node(g.links, i, p), i - 1, p)
  <2>1. e = [g EXCEPT !.age_ticks[p] = 0, !.priority[p] = i - 1,
                      !.quantum_remaining[p] = MLFQ_QUANTUMS[i - 1], !.links = h]
    BY <1>6, <1>9 DEF AgeNode
  <2>2. Gone(k, W) = Gone(k, V) \cup {p}
    BY <1>6, <1>9, SchedAssumption DEF Gone
  <2>3. AgedLists(k, h, Gone(k, W))
    BY <1>1, <2>2, Promoted
  <2> HIDE DEF e, q, h
  <2>4. /\ e.links = h /\ e.current_pcb = g.current_pcb /\ e.state = g.state
        /\ e.priority = [g.priority EXCEPT ![p] = i - 1]
        /\ e.quantum_remaining = [g.quantum_remaining EXCEPT ![p] = MLFQ_QUANTUMS[i - 1]]
        /\ e.age_ticks = [g.age_ticks EXCEPT ![p] = 0]
        /\ e = [links |-> e.links, current_pcb |-> e.current_pcb, state |-> e.state,
                priority |-> e.priority, quantum_remaining |-> e.quantum_remaining,
                age_ticks |-> e.age_ticks]
    BY <1>1, <2>1 DEF Scheduler
  <2>5. MLFQ_QUANTUMS[i - 1] \in Nat
    BY <1>3, SchedAssumption
  <2>6. /\ e.age_ticks = [x \in PCB |-> IF x = p THEN 0 ELSE g.age_ticks[x]]
        /\ e.priority = [x \in PCB |-> IF x = p THEN i - 1 ELSE g.priority[x]]
        /\ e.quantum_remaining =
             [x \in PCB |-> IF x = p THEN MLFQ_QUANTUMS[i - 1] ELSE g.quantum_remaining[x]]
    BY <1>1, <1>2, <2>4 DEF Scheduler
  <2>7. /\ e.age_ticks \in [PCB -> Nat] /\ e.priority \in [PCB -> Level]
        /\ e.quantum_remaining \in [PCB -> Nat]
    BY <1>1, <1>3, <2>5, <2>6 DEF Scheduler
  <2>8. Scheduler(e)
    <3>1. Well(e.links)
      BY <2>3, <2>4 DEF AgedLists
    <3> QED BY <1>1, <2>4, <2>7, <3>1 DEF Scheduler
  <2>9. \A x \in PCB : /\ x \in W <=> x \in V \/ x = p
                       /\ x \in Gone(k, W) <=> x \in Gone(k, V) \/ x = p
    BY <2>2
  <2>10. e.age_ticks = [x \in PCB |-> IF x \in Gone(k, W) THEN 0
                                      ELSE IF x \in W THEN k.age_ticks[x] + 1 ELSE k.age_ticks[x]]
    <3>1. \A x \in PCB : g.age_ticks[x] = IF x \in Gone(k, V) THEN 0
                                     ELSE IF x \in V THEN k.age_ticks[x] + 1 ELSE k.age_ticks[x]
      BY DEF Aged
    <3>2. ASSUME NEW x \in PCB
          PROVE  (IF x = p THEN 0 ELSE g.age_ticks[x]) =
                 IF x \in Gone(k, W) THEN 0
                 ELSE IF x \in W THEN k.age_ticks[x] + 1 ELSE k.age_ticks[x]
      BY <2>9, <3>1
    <3>3. e.age_ticks = [x \in PCB |-> IF x = p THEN 0 ELSE g.age_ticks[x]]
      BY <2>6
    <3> QED BY <3>2, <3>3, Zenon
  <2>11. e.priority = [x \in PCB |-> IF x \in Gone(k, W) THEN k.priority[x] - 1 ELSE k.priority[x]]
    <3>1. \A x \in PCB : g.priority[x] = IF x \in Gone(k, V) THEN k.priority[x] - 1
                                                             ELSE k.priority[x]
      BY DEF Aged
    <3>2. ASSUME NEW x \in PCB
          PROVE  (IF x = p THEN i - 1 ELSE g.priority[x]) =
                 IF x \in Gone(k, W) THEN k.priority[x] - 1 ELSE k.priority[x]
      BY <1>5, <2>9, <3>1
    <3>3. e.priority = [x \in PCB |-> IF x = p THEN i - 1 ELSE g.priority[x]]
      BY <2>6
    <3> QED BY <3>2, <3>3, Zenon
  <2>12. e.quantum_remaining =
           [x \in PCB |-> IF x \in Gone(k, W) THEN MLFQ_QUANTUMS[k.priority[x] - 1]
                          ELSE k.quantum_remaining[x]]
    <3>1. \A x \in PCB : g.quantum_remaining[x] =
              IF x \in Gone(k, V) THEN MLFQ_QUANTUMS[k.priority[x] - 1] ELSE k.quantum_remaining[x]
      BY DEF Aged
    <3>2. ASSUME NEW x \in PCB
          PROVE  (IF x = p THEN MLFQ_QUANTUMS[i - 1] ELSE g.quantum_remaining[x]) =
                 IF x \in Gone(k, W) THEN MLFQ_QUANTUMS[k.priority[x] - 1]
                                     ELSE k.quantum_remaining[x]
      BY <1>5, <2>9, <3>1
    <3> QED BY <2>6, <3>2
  <2>13. Aged(k, e, W)
    <3>1. g.current_pcb = k.current_pcb /\ g.state = k.state
      BY DEF Aged
    <3> QED BY <2>3, <2>4, <2>8, <2>10, <2>11, <2>12, <3>1 DEF Aged
  <2> QED BY <1>7, <2>13 DEF e
<1> QED BY <1>8, <1>9

\* Nothing is visited yet.
LEMMA AgedStart ==
  ASSUME NEW k, Scheduler(k), Queued(k)
  PROVE  Aged(k, k, {})
<1>1. Gone(k, {}) = {}
  BY DEF Gone
<1>2. ASSUME NEW l \in Level
      PROVE  L!Contents(k.links, l) = Filter(At(k, l), Proc \ {}) \o Up(k, l + 1, {})
  <2> DEFINE q == At(k, l)
             U == Proc \ {}
  <2>1. q \in Seq(Proc) /\ q = L!Contents(k.links, l)
    BY LevelFacts DEF Queued, At
  <2> HIDE DEF q
  <2>2. Range(q) \subseteq U
    BY <2>1 DEF Range
  <2> HIDE DEF U
  <2>3. Filter(q, U) = q
    BY <2>1, <2>2, FilterAll
  <2>4. Up(k, l + 1, {}) = <<>>
    <3>1. CASE l + 1 \in Level
      <4>1. At(k, l + 1) \in Seq(Proc)
        BY <3>1, LevelFacts DEF Queued
      <4>2. Filter(At(k, l + 1), {}) = <<>>
        BY <4>1, FilterNone
      <4> QED BY <3>1, <4>2 DEF Up
    <3>2. CASE l + 1 \notin Level
      BY <3>2 DEF Up
    <3> QED BY <3>1, <3>2
  <2>5. q \o <<>> = q
    BY <2>1, ConcatEmptySeq
  <2> QED BY <2>1, <2>3, <2>4, <2>5 DEF q, U
<1>3. AgedLists(k, k.links, {})
  BY <1>2 DEF AgedLists, Scheduler, At
<1>4. /\ k.priority = [x \in PCB |-> k.priority[x]]
      /\ k.quantum_remaining = [x \in PCB |-> k.quantum_remaining[x]]
      /\ k.age_ticks = [x \in PCB |-> k.age_ticks[x]]
  BY DEF Scheduler
<1> QED BY <1>1, <1>3, <1>4 DEF Aged

\* The while loop as a function of its rounds.
AgeLoop(a, i, n, f) ==
  f = [j \in 0 .. n |-> IF j = 0 THEN [k |-> a, node |-> a.links.next[i]]
                        ELSE AgeRound(f[j - 1], i)]

LEMMA AgeLoopRuns ==
  ASSUME NEW a, NEW i, NEW n \in Nat
  PROVE  \E f : AgeLoop(a, i, n, f)
<1> DEFINE w == [k |-> a, node |-> a.links.next[i]]
           X == {m \in Nat : \E f : AgeLoop(a, i, m, f)}
<1>1. 0 \in X
  <2>1. AgeLoop(a, i, 0, [j \in 0 .. 0 |-> w])
    BY DEF AgeLoop
  <2> QED BY <2>1
<1>2. ASSUME NEW m \in Nat, m \in X PROVE m + 1 \in X
  <2>1. PICK f : AgeLoop(a, i, m, f)
    BY <1>2
  <2> DEFINE e == AgeRound(f[m], i)
             g == [j \in 0 .. m + 1 |-> IF j = m + 1 THEN e ELSE f[j]]
  <2>2. ASSUME NEW j \in 0 .. m + 1
        PROVE  g[j] = IF j = 0 THEN w ELSE AgeRound(g[j - 1], i)
    <3>1. CASE j = m + 1
      <4>1. j - 1 = m /\ g[m] = f[m] /\ j # 0
        BY <3>1
      <4> QED BY <3>1, <4>1
    <3>2. CASE j # m + 1
      <4>1. j \in 0 .. m /\ g[j] = f[j] /\ (j # 0 => g[j - 1] = f[j - 1])
        BY <3>2
      <4> QED BY <2>1, <4>1 DEF AgeLoop
    <3> QED BY <3>1, <3>2
  <2>3. AgeLoop(a, i, m + 1, g)
    BY <2>2 DEF AgeLoop
  <2> QED BY <2>3
<1> HIDE DEF X
<1>3. Nat \subseteq X
  BY <1>1, <1>2, SetInduction
<1> QED BY <1>3 DEF X

LEMMA AgeQueueUnfolds ==
  ASSUME NEW a, NEW i, NEW n, n = Cardinality(PCB), n \in Nat
  PROVE  \E f : AgeLoop(a, i, n, f) /\ AgeQueue(a, i) = f[n].k
<1> DEFINE f == CHOOSE g : AgeLoop(a, i, Cardinality(PCB), g)
<1>1. \E g : AgeLoop(a, i, n, g)
  BY AgeLoopRuns
<1>2. AgeLoop(a, i, Cardinality(PCB), f)
  BY <1>1, Zenon
<1>3. AgeQueue(a, i) = f[Cardinality(PCB)].k
  BY Zenon DEF AgeQueue, AgeLoop
<1> QED BY <1>2, <1>3

\* The first n processes of level i.
First(k, i, n) == {At(k, i)[j] : j \in {x \in 1 .. Len(At(k, i)) : x <= n}}

\* The loop that found V visited when it came to level i, after n rounds.
Turn(k, i, V, n, w) ==
  /\ Aged(k, w.k, V \cup First(k, i, n))
  /\ VisitedTo(k, i, n, V \cup First(k, i, n))
  /\ w.node = IF n < Len(At(k, i)) THEN At(k, i)[n + 1] ELSE i

LEMMA FirstTurn ==
  ASSUME NEW k, Scheduler(k), Queued(k), NEW i \in 1 .. MLFQ_LEVELS - 1, NEW V,
         VisitedTo(k, i, 0, V), NEW a, Aged(k, a, V)
  PROVE  Turn(k, i, V, 0, [k |-> a, node |-> a.links.next[i]])
<1> DEFINE q == At(k, i)
           T == Proc \ Gone(k, V)
<1>1. q \in Seq(Proc) /\ Len(q) \in Nat /\ DOMAIN q = 1 .. Len(q) /\ i \in Level /\ i \in Lists
  BY LevelFacts, LenProperties DEF Queued
<1>2. AgedLists(k, a.links, Gone(k, V)) /\ 0 \in Nat
  BY DEF Aged
<1>3. L!Contents(a.links, i) = Filter(q, T)
  BY <1>2, AgedLevel
<1>4. \A j \in 1 .. Len(q) : q[j] \notin V
  <2>1. \A j \in 1 .. Len(q) : q[j] \in V <=> j <= 0
    BY DEF VisitedTo
  <2> QED BY <1>1, <2>1
<1>5. V \cup First(k, i, 0) = V
  <2>1. {x \in 1 .. Len(q) : x <= 0} = {}
    BY <1>1
  <2> QED BY <2>1 DEF First
<1> HIDE DEF q
<1>6. Range(q) \subseteq T
  BY <1>1, <1>4 DEF Range, Gone
<1> HIDE DEF T
<1>7. Filter(q, T) = q
  BY <1>1, <1>6, FilterAll
<1>8. View(a.links, i, q)
  <2>1. Well(a.links)
    BY <1>2 DEF AgedLists
  <2> QED BY <1>1, <1>3, <1>7, <2>1, ListView
<1>9. a.links.next[i] = IF 0 < Len(q) THEN q[0 + 1] ELSE i
  <2>1. a.links.next[i] = IF Len(q) = 0 THEN i ELSE q[1]
    BY <1>8 DEF View
  <2> QED BY <1>1, <2>1
<1> QED BY <1>5, <1>9 DEF Turn, q

LEMMA NextTurn ==
  ASSUME NEW k, Scheduler(k), Queued(k), NEW i \in 1 .. MLFQ_LEVELS - 1, NEW V, NEW n \in Nat,
         NEW w, Turn(k, i, V, n, w)
  PROVE  Turn(k, i, V, n + 1, AgeRound(w, i))
<1> DEFINE q == At(k, i)
           U == V \cup First(k, i, n)
           W == V \cup First(k, i, n + 1)
<1>1. q \in Seq(Proc) /\ Len(q) \in Nat /\ i \in Level /\ i \in Lists
  BY LevelFacts, LenProperties DEF Queued
<1>2. /\ Aged(k, w.k, U) /\ VisitedTo(k, i, n, U)
      /\ w.node = IF n < Len(q) THEN q[n + 1] ELSE i
  BY DEF Turn
<1>3. CASE n < Len(q)
  <2> DEFINE p == q[n + 1]
             e == AgeNode(w.k, i, p)
  <2>1. W = U \cup {p}
    <3>1. {x \in 1 .. Len(q) : x <= n + 1} = {x \in 1 .. Len(q) : x <= n} \cup {n + 1}
      BY <1>1, <1>3
    <3>2. First(k, i, n + 1) = First(k, i, n) \cup {p}
      BY <3>1 DEF First
    <3> QED BY <3>2
  <2>2. AgedLists(k, w.k.links, Gone(k, U))
    BY <1>2 DEF Aged
  <2>3. /\ w.k.links.next[p] = IF n + 1 = Len(q) THEN i ELSE q[n + 2]
        /\ p \in Proc
    <3> HIDE DEF U
    <3> QED BY <1>2, <1>3, <2>2, NodeNext
  <2>4. Aged(k, e, W) /\ VisitedTo(k, i, n + 1, W)
    <3> HIDE DEF U, W
    <3> QED BY <1>2, <1>3, <2>1, AgeNodeStep
  <2>5. p # i
    BY <1>1, <2>3, AddressAssumption DEF PCB
  <2>6. AgeRound(w, i) = [k |-> e, node |-> w.k.links.next[p]]
    BY <1>2, <1>3, <2>5 DEF AgeRound
  <2>7. w.k.links.next[p] = IF n + 1 < Len(q) THEN q[(n + 1) + 1] ELSE i
    <3>1. n + 1 < Len(q) <=> n + 1 # Len(q)
      BY <1>1, <1>3
    <3>2. (n + 1) + 1 = n + 2
      OBVIOUS
    <3> HIDE DEF p
    <3> QED BY <2>3, <3>1, <3>2
  <2> HIDE DEF p, e
  <2> QED BY <2>4, <2>6, <2>7 DEF Turn
<1>4. CASE ~(n < Len(q))
  <2>1. AgeRound(w, i) = w /\ w.node = i
    BY <1>2, <1>4 DEF AgeRound
  <2>2. \A j \in 1 .. Len(q) : j <= n /\ j <= n + 1
    BY <1>1, <1>4
  <2>3. W = U
    BY <2>2 DEF First
  <2>4. VisitedTo(k, i, n + 1, U)
    BY <1>2, <2>2 DEF VisitedTo
  <2>5. ~(n + 1 < Len(q))
    BY <1>1, <1>4
  <2> HIDE DEF U, W
  <2> QED BY <1>2, <2>1, <2>3, <2>4, <2>5 DEF Turn, U, W
<1> QED BY <1>3, <1>4

\* A queue is no longer than there are PCBs.
LEMMA QueueFits ==
  ASSUME NEW k, Queued(k), NEW l \in Level
  PROVE  Cardinality(PCB) \in Nat /\ Len(At(k, l)) <= Cardinality(PCB)
<1> DEFINE q == At(k, l)
           n == Len(q)
<1>1. IsFiniteSet(PCB) /\ Cardinality(PCB) \in Nat
  <2>1. IsFiniteSet(PCB)
    BY SchedAssumption, FS_AddElement DEF PCB
  <2> QED BY <2>1, FS_CardinalityType
<1>2. q \in Seq(Proc) /\ Distinct(q) /\ n \in Nat /\ DOMAIN q = 1 .. n
  BY LevelFacts, LenProperties DEF Queued
<1>3. IsFiniteSet(1 .. n) /\ Cardinality(1 .. n) = n
  BY <1>2, FS_Interval
<1> HIDE DEF q, n
<1>4. q \in Injection(1 .. n, PCB)
  <2>1. \A j \in 1 .. n : q[j] \in PCB
    BY <1>2, ElementOfSeq DEF PCB, n
  <2>2. q = [j \in 1 .. n |-> q[j]]
    BY <1>2 DEF n
  <2>3. q \in [1 .. n -> PCB]
    BY <2>1, <2>2
  <2>4. \A i \in DOMAIN q : \A j \in DOMAIN q : q[i] = q[j] => i = j
    BY <1>2 DEF Distinct
  <2> QED BY <1>2, <2>3, <2>4 DEF Injection, IsInjective
<1>5. Cardinality(1 .. n) <= Cardinality(PCB)
  BY <1>1, <1>3, <1>4, FS_Injection
<1> QED BY <1>1, <1>3, <1>5 DEF q, n

\* The loop over queue i visits the processes that were there.
LEMMA AgedQueue ==
  ASSUME NEW k, Scheduler(k), Queued(k), NEW i \in 1 .. MLFQ_LEVELS - 1, NEW V,
         VisitedTo(k, i, 0, V), NEW a, Aged(k, a, V)
  PROVE  Aged(k, AgeQueue(a, i), V \cup Range(At(k, i)))
<1> DEFINE q == At(k, i)
           n == Cardinality(PCB)
<1>1. n \in Nat /\ Len(q) <= n /\ i \in Level
  BY LevelFacts, QueueFits
<1>2. q \in Seq(Proc) /\ Len(q) \in Nat /\ DOMAIN q = 1 .. Len(q)
  BY <1>1, LevelFacts, LenProperties DEF Queued
<1>3. PICK f : AgeLoop(a, i, n, f) /\ AgeQueue(a, i) = f[n].k
  BY <1>1, AgeQueueUnfolds
<1> HIDE DEF n
<1>4. /\ f[0] = [k |-> a, node |-> a.links.next[i]]
      /\ \A j \in 0 .. n - 1 : f[j + 1] = AgeRound(f[j], i)
  <2>1. \A j \in 0 .. n - 1 : j + 1 \in 0 .. n /\ j + 1 # 0 /\ (j + 1) - 1 = j
    BY <1>1
  <2> QED BY <1>1, <1>3, <2>1 DEF AgeLoop
<1> DEFINE X == {j \in Nat : j <= n => Turn(k, i, V, j, f[j])}
<1>5. 0 \in X
  BY <1>4, FirstTurn
<1>6. ASSUME NEW j \in Nat, j \in X PROVE j + 1 \in X
  <2> SUFFICES ASSUME j + 1 <= n PROVE Turn(k, i, V, j + 1, f[j + 1])
    OBVIOUS
  <2>1. j \in 0 .. n - 1 /\ j <= n
    BY <1>1
  <2>2. Turn(k, i, V, j, f[j])
    BY <1>6, <2>1
  <2>3. Turn(k, i, V, j + 1, AgeRound(f[j], i))
    BY <2>2, NextTurn
  <2> QED BY <1>4, <2>1, <2>3
<1> HIDE DEF X
<1>7. Nat \subseteq X
  BY <1>5, <1>6, SetInduction
<1>8. Turn(k, i, V, n, f[n])
  BY <1>1, <1>7 DEF X
<1>9. First(k, i, n) = Range(q)
  <2>1. {x \in 1 .. Len(q) : x <= n} = 1 .. Len(q)
    BY <1>1, <1>2
  <2>2. First(k, i, n) = {q[j] : j \in 1 .. Len(q)}
    BY <2>1 DEF First
  <2> HIDE DEF q
  <2> QED BY <1>2, <2>2 DEF Range
<1> QED BY <1>3, <1>8, <1>9 DEF Turn

\* The processes on the levels 1 .. n.
Below(k, n) == UNION {Range(At(k, l)) : l \in 1 .. n}

LEMMA BelowVisited ==
  ASSUME NEW k, Queued(k), NEW i \in 1 .. MLFQ_LEVELS - 1
  PROVE  /\ VisitedTo(k, i, 0, Below(k, i - 1))
         /\ Below(k, i) = Below(k, i - 1) \cup Range(At(k, i))
<1> DEFINE V == Below(k, i - 1)
<1>1. /\ i \in Level /\ i \in Nat /\ i # 0 /\ MLFQ_LEVELS \in Nat
      /\ \A l \in 1 .. i - 1 : l \in Level /\ l # i /\ l # 0 /\ ~(l > i)
  BY SchedAssumption DEF Level
<1>2. \A x : x \in V <=> \E l \in 1 .. i - 1 : x \in Range(At(k, l))
  BY DEF Below
<1>3. V \subseteq Proc
  <2>1. ASSUME NEW l \in Level PROVE Range(At(k, l)) \subseteq Proc
    <3>1. At(k, l) \in Seq(Proc)
      BY LevelFacts DEF Queued
    <3> QED BY <3>1 DEF Range
  <2> QED BY <1>1, <1>2, <2>1
<1> HIDE DEF V
<1>4. ASSUME NEW l \in Level, l = 0 \/ l > i \/ l = i PROVE V \cap Range(At(k, l)) = {}
  <2>1. \A j \in 1 .. i - 1 : j \in Level /\ j # l
    BY <1>1, <1>4
  <2>2. \A j \in 1 .. i - 1 : Range(At(k, j)) \cap Range(At(k, l)) = {}
    BY <2>1, QueuesApart
  <2> QED BY <1>2, <2>2
<1>5. \A j \in 1 .. Len(At(k, i)) : At(k, i)[j] \in V <=> j <= 0
  <2> DEFINE q == At(k, i)
  <2>1. q \in Seq(Proc) /\ V \cap Range(q) = {}
    BY <1>1, <1>4, LevelFacts DEF Queued
  <2> HIDE DEF q
  <2>2. DOMAIN q = 1 .. Len(q) /\ Len(q) \in Nat
    BY <2>1, LenProperties
  <2>3. \A j \in 1 .. Len(q) : q[j] \in Range(q) /\ ~(j <= 0)
    BY <2>2 DEF Range
  <2>4. \A j \in 1 .. Len(q) : q[j] \in V <=> j <= 0
    BY <2>1, <2>3
  <2> QED BY <2>4 DEF q
<1>6. VisitedTo(k, i, 0, V)
  BY <1>3, <1>4, <1>5 DEF VisitedTo
<1>7. Below(k, i) = V \cup Range(At(k, i))
  <2>1. 1 .. i = (1 .. i - 1) \cup {i}
    BY <1>1
  <2>2. \A x : x \in Below(k, i) <=> \E l \in 1 .. i : x \in Range(At(k, l))
    BY DEF Below
  <2>3. \A x : x \in Below(k, i) <=> x \in V \/ x \in Range(At(k, i))
    BY <1>2, <2>1, <2>2
  <2> QED BY <2>3
<1> QED BY <1>6, <1>7 DEF V

\* The for loop as a function of its rounds.
LevelLoop(k, n, f) ==
  f = [j \in 0 .. n |-> IF j = 0 THEN k ELSE AgeQueue(f[j - 1], j)]

LEMMA LevelLoopRuns ==
  ASSUME NEW k, NEW n \in Nat
  PROVE  \E f : LevelLoop(k, n, f)
<1> DEFINE X == {m \in Nat : \E f : LevelLoop(k, m, f)}
<1>1. 0 \in X
  <2>1. LevelLoop(k, 0, [j \in 0 .. 0 |-> k])
    BY DEF LevelLoop
  <2> QED BY <2>1
<1>2. ASSUME NEW m \in Nat, m \in X PROVE m + 1 \in X
  <2>1. PICK f : LevelLoop(k, m, f)
    BY <1>2
  <2> DEFINE e == AgeQueue(f[m], m + 1)
             g == [j \in 0 .. m + 1 |-> IF j = m + 1 THEN e ELSE f[j]]
  <2>2. ASSUME NEW j \in 0 .. m + 1
        PROVE  g[j] = IF j = 0 THEN k ELSE AgeQueue(g[j - 1], j)
    <3>1. CASE j = m + 1
      <4>1. j - 1 = m /\ g[m] = f[m] /\ j # 0
        BY <3>1
      <4> QED BY <3>1, <4>1
    <3>2. CASE j # m + 1
      <4>1. j \in 0 .. m /\ g[j] = f[j] /\ (j # 0 => g[j - 1] = f[j - 1])
        BY <3>2
      <4> QED BY <2>1, <4>1 DEF LevelLoop
    <3> QED BY <3>1, <3>2
  <2>3. LevelLoop(k, m + 1, g)
    BY <2>2 DEF LevelLoop
  <2> QED BY <2>3
<1> HIDE DEF X
<1>3. Nat \subseteq X
  BY <1>1, <1>2, SetInduction
<1> QED BY <1>3 DEF X

LEMMA AgeAllUnfolds ==
  ASSUME NEW k, NEW n, n = MLFQ_LEVELS - 1, n \in Nat
  PROVE  \E f : LevelLoop(k, n, f) /\ AgeAll(k) = f[n]
<1> DEFINE f == CHOOSE g : LevelLoop(k, MLFQ_LEVELS - 1, g)
<1>1. \E g : LevelLoop(k, n, g)
  BY LevelLoopRuns
<1>2. LevelLoop(k, MLFQ_LEVELS - 1, f)
  BY <1>1, Zenon
<1>3. AgeAll(k) = f[MLFQ_LEVELS - 1]
  BY Zenon DEF AgeAll, LevelLoop
<1> QED BY <1>2, <1>3

\* The whole of the ageing: every process below the top level is visited once.
LEMMA AgedAll ==
  ASSUME NEW k, Scheduler(k), Queued(k)
  PROVE  Aged(k, AgeAll(k), Below(k, MLFQ_LEVELS - 1))
<1> DEFINE n == MLFQ_LEVELS - 1
<1>1. n \in Nat
  BY SchedAssumption
<1>2. PICK f : LevelLoop(k, n, f) /\ AgeAll(k) = f[n]
  BY <1>1, AgeAllUnfolds
<1>3. f[0] = k /\ \A j \in 0 .. n - 1 : f[j + 1] = AgeQueue(f[j], j + 1)
  <2>1. \A j \in 0 .. n - 1 : j + 1 \in 0 .. n /\ j + 1 # 0 /\ (j + 1) - 1 = j
    BY <1>1
  <2> HIDE DEF n
  <2> QED BY <1>1, <1>2, <2>1 DEF LevelLoop
<1> DEFINE X == {j \in Nat : j <= n => Aged(k, f[j], Below(k, j))}
<1>4. 0 \in X
  <2>1. Below(k, 0) = {}
    BY DEF Below
  <2> QED BY <1>3, <2>1, AgedStart
<1>5. ASSUME NEW j \in Nat, j \in X PROVE j + 1 \in X
  <2> SUFFICES ASSUME j + 1 <= n PROVE Aged(k, f[j + 1], Below(k, j + 1))
    OBVIOUS
  <2>1. j \in 0 .. n - 1 /\ j <= n /\ j + 1 \in 1 .. MLFQ_LEVELS - 1 /\ (j + 1) - 1 = j
    BY <1>1
  <2>2. Aged(k, f[j], Below(k, j))
    BY <1>5, <2>1
  <2>3. /\ VisitedTo(k, j + 1, 0, Below(k, j))
        /\ Below(k, j + 1) = Below(k, j) \cup Range(At(k, j + 1))
    BY <2>1, BelowVisited
  <2>4. Aged(k, AgeQueue(f[j], j + 1), Below(k, j + 1))
    BY <2>1, <2>2, <2>3, AgedQueue
  <2> QED BY <1>3, <2>1, <2>4
<1> HIDE DEF X
<1>6. Nat \subseteq X
  BY <1>4, <1>5, SetInduction
<1> QED BY <1>1, <1>2, <1>6 DEF X

-----------------------------------------------------------------------------
(* The other operations.                                                   *)

\* Schedulers that differ in their links only.
SameFields(k, e) ==
  /\ e.current_pcb = k.current_pcb /\ e.state = k.state /\ e.priority = k.priority
  /\ e.quantum_remaining = k.quantum_remaining /\ e.age_ticks = k.age_ticks

\* The scheduler e is k with links that read q for list l.
Relinked(k, e, l, q) == Scheduler(e) /\ SameFields(k, e) /\ Reads(k.links, e.links, l, q)

LEMMA Relink ==
  ASSUME NEW k, Scheduler(k), NEW g, NEW l \in Lists, NEW q, Reads(k.links, g, l, q),
         NEW e, e = [k EXCEPT !.links = g]
  PROVE  Relinked(k, e, l, q)
<1>1. /\ e.links = g /\ SameFields(k, e)
      /\ e = [links |-> e.links, current_pcb |-> e.current_pcb, state |-> e.state,
              priority |-> e.priority, quantum_remaining |-> e.quantum_remaining,
              age_ticks |-> e.age_ticks]
  BY DEF Scheduler, SameFields
<1>2. Well(e.links)
  BY <1>1 DEF Reads
<1>3. Scheduler(e)
  BY <1>1, <1>2 DEF Scheduler, SameFields
<1> QED BY <1>1, <1>3 DEF Relinked

\* Process p is on no list.
Unlinked(k, p) == \A m \in Lists : p \notin Range(At(k, m))

\* sched_enqueue of a process on no list.
LEMMA EnqueueStep ==
  ASSUME NEW k, Scheduler(k), NEW p \in Proc, Unlinked(k, p), NEW l,
         \/ k.state[p] = "READY" /\ l = k.priority[p]
         \/ k.state[p] = "WAITING" /\ l = WaitingQueue
  PROVE  l \in Lists /\ Relinked(k, sched_enqueue(k, p), l, Append(At(k, l), p))
<1> DEFINE g == L!list_push_tail(k.links, l, p)
<1>1. p \in PCB /\ l \in Lists
  BY LevelFacts DEF PCB, Scheduler
<1>2. sched_enqueue(k, p) = [k EXCEPT !.links = g]
  BY DEF sched_enqueue
<1>3. Well(k.links) /\ \A m \in Lists : p \notin Range(L!Contents(k.links, m))
  BY DEF Scheduler, Unlinked, At
<1>4. Reads(k.links, g, l, Append(L!Contents(k.links, l), p))
  BY <1>1, <1>3, Pushed
<1> HIDE DEF g
<1> QED BY <1>1, <1>2, <1>4, Relink DEF At

\* The queues of k as Sched has them.
LEMMA QueuesRead ==
  ASSUME NEW k
  PROVE  /\ Queues(k.links) = [l \in Level |-> At(k, l)]
         /\ DOMAIN Queues(k.links) = Level
         /\ \A l \in Level : Queues(k.links)[l] = At(k, l)
BY DEF Queues, At

\* Sched reads sequences the same way.
LEMMA SchedSees ==
  /\ \A K : S!Cardinality(K) = Cardinality(K) /\ S!Least(K) = Least(K)
  /\ \A q : S!Range(q) = Range(q) /\ (S!Distinct(q) <=> Distinct(q))
  /\ \A q, T : S!Filter(q, T) = Filter(q, T)
  /\ S!Level = Level /\ S!PCB = PCB
<1>1. \A K : S!Cardinality(K) = Cardinality(K)
  BY DEF S!Cardinality, Cardinality
<1>2. \A K, n : S!Nth(K, n) = Nth(K, n)
  BY <1>1 DEF S!Nth, Nth, S!Rank, Rank
<1>3. \A q, T : S!Filter(q, T) = Filter(q, T)
  BY <1>1, <1>2 DEF S!Filter, Filter, S!Positions, Positions
<1> QED BY <1>1, <1>2, <1>3 DEF S!Least, Least, S!Range, Range, S!Distinct, Distinct,
                               S!Level, Level, S!PCB, PCB

\* What the scheduler e has after sched_pick_next_process on k.
Picked(k, e) ==
  /\ Scheduler(e)
  /\ Queues(e.links) = S!WithoutNext(Queues(k.links))
  /\ At(e, WaitingQueue) = At(k, WaitingQueue)
  /\ e.current_pcb = S!NextPcb(Queues(k.links))
  /\ e.state = [k.state EXCEPT ![S!NextPcb(Queues(k.links))] = "RUNNING"]
  /\ e.priority = k.priority /\ e.quantum_remaining = k.quantum_remaining
  /\ e.age_ticks = k.age_ticks

LEMMA RunStep ==
  ASSUME NEW k, Scheduler(k), NEW p \in PCB, NEW h, Well(h), NEW e, e = Run(k, p, h)
  PROVE  /\ Scheduler(e) /\ e.links = h /\ e.current_pcb = p
         /\ e.state = [k.state EXCEPT ![p] = "RUNNING"]
         /\ e.priority = k.priority /\ e.quantum_remaining = k.quantum_remaining
         /\ e.age_ticks = k.age_ticks
<1>1. /\ e.links = h /\ e.current_pcb = p
      /\ e.state = [k.state EXCEPT ![p] = "RUNNING"]
      /\ e.priority = k.priority /\ e.quantum_remaining = k.quantum_remaining
      /\ e.age_ticks = k.age_ticks
      /\ e = [links |-> e.links, current_pcb |-> e.current_pcb, state |-> e.state,
              priority |-> e.priority, quantum_remaining |-> e.quantum_remaining,
              age_ticks |-> e.age_ticks]
  BY DEF Run, Scheduler
<1>2. e.state \in [PCB -> S!States]
  BY <1>1 DEF Scheduler, S!States
<1> QED BY <1>1, <1>2 DEF Scheduler

LEMMA PickStep ==
  ASSUME NEW k, Scheduler(k)
  PROVE  Picked(k, sched_pick_next_process(k))
<1> DEFINE Q == Queues(k.links)
           e == sched_pick_next_process(k)
           i == Least(NonEmpty(k))
<1>1. ASSUME NEW l \in Level PROVE Q[l] = At(k, l) /\ View(k.links, l, Q[l])
  <2>1. Q[l] = At(k, l) /\ l \in Lists /\ Well(k.links)
    BY QueuesRead, LevelFacts DEF Scheduler
  <2>2. View(k.links, l, L!Contents(k.links, l))
    BY <2>1, ListView
  <2> QED BY <2>1, <2>2 DEF At
<1>2. \A l \in Level : /\ Q[l] \in Seq(PCB) /\ Len(Q[l]) = k.links.size[l] /\ Distinct(Q[l])
                       /\ Len(Q[l]) \in Nat
  BY <1>1, LenProperties DEF View
<1> HIDE DEF Q
<1>3. S!NonEmpty(Q) = NonEmpty(k)
  <2>1. \A l \in Level : Q[l] # <<>> <=> k.links.size[l] > 0
    <3> TAKE l \in Level
    <3>1. Q[l] \in Seq(PCB) /\ Len(Q[l]) = k.links.size[l] /\ Len(Q[l]) \in Nat
      BY <1>2
    <3> QED BY <3>1, EmptySeq
  <2> QED BY <2>1, SchedSees DEF S!NonEmpty, NonEmpty
<1>4. CASE NonEmpty(k) = {}
  <2>1. e = Run(k, Idle, k.links)
    BY <1>4 DEF sched_pick_next_process
  <2>2. S!NextPcb(Q) = Idle
    BY <1>3, <1>4 DEF S!NextPcb
  <2>3. S!WithoutNext(Q) = [l \in Level |-> Q[l]]
    BY <1>3, <1>4, SchedSees DEF S!WithoutNext
  <2>4. S!WithoutNext(Q) = Q
    BY <2>3, QueuesRead DEF Q
  <2>5. Idle \in PCB /\ Well(k.links)
    BY DEF PCB, Scheduler
  <2> QED BY <2>1, <2>2, <2>4, <2>5, RunStep DEF Picked, Q, At
<1>5. CASE NonEmpty(k) # {}
  <2> DEFINE h == L!list_pop_head(k.links, i)
             p == L!HeadNode(k.links, i)
  <2>1. i \in NonEmpty(k)
    <3>1. NonEmpty(k) \subseteq Level /\ Level \in SUBSET Int /\ IsFiniteSet(Level)
      BY SchedAssumption, FS_Interval DEF NonEmpty, Level
    <3>2. NonEmpty(k) \in SUBSET Int /\ IsFiniteSet(NonEmpty(k))
      BY <3>1, FS_Subset
    <3> QED BY <1>5, <3>2, LeastProperties
  <2> HIDE DEF i
  <2>2. i \in Level /\ i \in Lists /\ k.links.size[i] > 0
    BY <2>1, LevelFacts DEF NonEmpty
  <2>3. Len(Q[i]) > 0 /\ Q[i] \in Seq(PCB) /\ Len(Q[i]) \in Nat
    BY <1>2, <2>2
  <2>4. k.links.next[i] = Q[i][1] /\ k.links.size[i] # 0
    <3>1. View(k.links, i, Q[i])
      BY <1>1, <2>2
    <3> QED BY <2>2, <2>3, <3>1 DEF View
  <2>5. p = Q[i][1] /\ h = L!list_remove_node(k.links, i, Q[i][1])
    BY <2>4 DEF L!HeadNode, L!list_pop_head
  <2>6. p = Head(Q[i]) /\ p \in PCB
    BY <2>3, <2>5, HeadTailProperties
  <2>7. Reads(k.links, h, i, LP!Dropped(Q[i], 1))
    <3>1. Q[i] = L!Contents(k.links, i) /\ 1 \in 1 .. Len(Q[i])
      BY <1>1, <2>2, <2>3 DEF At
    <3>2. Well(k.links)
      BY DEF Scheduler
    <3> QED BY <2>2, <2>5, <3>1, <3>2, Removed
  <2>8. LP!Dropped(Q[i], 1) = Tail(Q[i])
    <3>1. \A j \in 1 .. Len(Q[i]) - 1 : ~(j < 1)
      BY <2>3
    <3>2. LP!Dropped(Q[i], 1) = [j \in 1 .. Len(Q[i]) - 1 |-> Q[i][j + 1]]
      BY <3>1 DEF LP!Dropped
    <3>3. Tail(Q[i]) = [j \in 1 .. Len(Q[i]) - 1 |-> Q[i][j + 1]]
      BY <2>3
    <3> QED BY <3>2, <3>3
  <2>9. e = Run(k, p, h)
    BY <1>5 DEF sched_pick_next_process, i
  <2>10. S!NextPcb(Q) = p
    BY <1>3, <1>5, <2>6, SchedSees DEF S!NextPcb, i
  <2> HIDE DEF h, p, e
  <2>11. Well(h) /\ L!Contents(h, i) = Tail(Q[i])
    BY <2>7, <2>8 DEF Reads
  <2>12. \A m \in Lists : m # i => L!Contents(h, m) = L!Contents(k.links, m)
    BY <2>7 DEF Reads
  <2>13. Queues(h) = S!WithoutNext(Q)
    <3>1. S!WithoutNext(Q) = [l \in Level |-> IF l = i THEN Tail(Q[l]) ELSE Q[l]]
      BY <1>3, <1>5, SchedSees DEF S!WithoutNext, i
    <3>2. \A l \in Level : L!Contents(h, l) = IF l = i THEN Tail(Q[l]) ELSE Q[l]
      BY <1>1, <2>11, <2>12, LevelFacts DEF At
    <3> QED BY <3>1, <3>2 DEF Queues
  <2>14. L!Contents(h, WaitingQueue) = L!Contents(k.links, WaitingQueue)
    BY <2>2, <2>12, LevelFacts
  <2>15. /\ Scheduler(e) /\ e.links = h /\ e.current_pcb = p
         /\ e.state = [k.state EXCEPT ![p] = "RUNNING"]
         /\ e.priority = k.priority /\ e.quantum_remaining = k.quantum_remaining
         /\ e.age_ticks = k.age_ticks
    <3>1. p \in PCB /\ Well(h)
      BY <2>6, <2>11
    <3> QED BY <2>9, <3>1, RunStep
  <2>16. Picked(k, e)
    BY <2>10, <2>13, <2>14, <2>15 DEF Picked, Q, At
  <2> QED BY <2>16 DEF e
<1> QED BY <1>4, <1>5

-----------------------------------------------------------------------------
(* sched_init.                                                             *)

\* The lists of M are empty rings.
Fresh(h, M) == h \in LP!Links /\ (\A l \in M : h.size[l] = 0) /\ \E c : LP!Rings(h, M, c)

LEMMA InitOne ==
  ASSUME NEW h, NEW M \in SUBSET Lists, Fresh(h, M), NEW l \in Lists, l \notin M
  PROVE  Fresh(L!list_init(h, l), M \cup {l})
<1> DEFINE g == LP!list_init(h, l)
<1>1. PICK c : LP!Rings(h, M, c)
  BY DEF Fresh
<1>2. h \in LP!Links
  BY DEF Fresh
<1>3. LP!Started(h, M, c, l, g)
  BY <1>1, <1>2, Addresses, LP!InitRings, Zenon
<1> HIDE DEF g
<1>4. /\ g \in LP!Links /\ g.size[l] = 0 /\ \A m \in M : g.size[m] = h.size[m]
      /\ \E d : LP!Rings(g, M \cup {l}, d)
  BY <1>3 DEF LP!Started
<1>5. \A m \in M \cup {l} : g.size[m] = 0
  BY <1>4 DEF Fresh
<1>6. Fresh(g, M \cup {l})
  BY <1>4, <1>5 DEF Fresh
<1> QED BY <1>6, SameOps DEF g

\* The list_init calls as a function of their number.
InitLoop(n, f) ==
  f = [j \in 0 .. n |-> IF j = 0 THEN L!NoLinks ELSE L!list_init(f[j - 1], j - 1)]

LEMMA InitLoopRuns ==
  ASSUME NEW n \in Nat
  PROVE  \E f : InitLoop(n, f)
<1> DEFINE X == {m \in Nat : \E f : InitLoop(m, f)}
<1>1. 0 \in X
  <2>1. InitLoop(0, [j \in 0 .. 0 |-> L!NoLinks])
    BY DEF InitLoop
  <2> QED BY <2>1
<1>2. ASSUME NEW m \in Nat, m \in X PROVE m + 1 \in X
  <2>1. PICK f : InitLoop(m, f)
    BY <1>2
  <2> DEFINE e == L!list_init(f[m], m)
             g == [j \in 0 .. m + 1 |-> IF j = m + 1 THEN e ELSE f[j]]
  <2>2. ASSUME NEW j \in 0 .. m + 1
        PROVE  g[j] = IF j = 0 THEN L!NoLinks ELSE L!list_init(g[j - 1], j - 1)
    <3>1. CASE j = m + 1
      <4>1. j - 1 = m /\ g[m] = f[m] /\ j # 0
        BY <3>1
      <4> QED BY <3>1, <4>1
    <3>2. CASE j # m + 1
      <4>1. j \in 0 .. m /\ g[j] = f[j] /\ (j # 0 => g[j - 1] = f[j - 1])
        BY <3>2
      <4> QED BY <2>1, <4>1 DEF InitLoop
    <3> QED BY <3>1, <3>2
  <2>3. InitLoop(m + 1, g)
    BY <2>2 DEF InitLoop
  <2> QED BY <2>3
<1> HIDE DEF X
<1>3. Nat \subseteq X
  BY <1>1, <1>2, SetInduction
<1> QED BY <1>3 DEF X

LEMMA InitListsUnfolds ==
  ASSUME MLFQ_LEVELS \in Nat
  PROVE  \E f : InitLoop(MLFQ_LEVELS, f) /\ InitLists = L!list_init(f[MLFQ_LEVELS], WaitingQueue)
<1> DEFINE f == CHOOSE g : InitLoop(MLFQ_LEVELS, g)
<1>1. \E g : InitLoop(MLFQ_LEVELS, g)
  BY InitLoopRuns
<1>2. InitLoop(MLFQ_LEVELS, f)
  BY <1>1, Zenon
<1>3. InitLists = L!list_init(f[MLFQ_LEVELS], WaitingQueue)
  BY Zenon DEF InitLists, InitLoop
<1> QED BY <1>2, <1>3

\* All lists are empty rings at first.
LEMMA InitListsFresh ==
  Well(InitLists) /\ \A l \in Lists : L!Contents(InitLists, l) = <<>>
<1> DEFINE n == MLFQ_LEVELS
<1>1. n \in Nat /\ Level = 0 .. n - 1 /\ WaitingQueue \notin Level
  BY SchedAssumption, AddressAssumption DEF Level
<1>2. PICK f : InitLoop(n, f) /\ InitLists = L!list_init(f[n], WaitingQueue)
  BY <1>1, InitListsUnfolds
<1>3. f[0] = L!NoLinks /\ \A j \in 0 .. n - 1 : f[j + 1] = L!list_init(f[j], j)
  <2>1. \A j \in 0 .. n - 1 : j + 1 \in 0 .. n /\ j + 1 # 0 /\ (j + 1) - 1 = j
    BY <1>1
  <2> QED BY <1>1, <1>2, <2>1 DEF InitLoop
<1> DEFINE X == {j \in Nat : j <= n => Fresh(f[j], 0 .. j - 1)}
<1>4. 0 \in X
  <2>1. L!NoLinks \in LP!Links
    BY SameOps DEF LP!NoLinks, LP!Links, LP!Pointers
  <2>2. LP!Rings(L!NoLinks, {}, <<>>)
    BY SameOps DEF LP!NoLinks, LP!Rings, LP!Addr
  <2>3. 0 .. 0 - 1 = {}
    OBVIOUS
  <2> QED BY <1>3, <2>1, <2>2, <2>3 DEF Fresh
<1>5. ASSUME NEW j \in Nat, j \in X PROVE j + 1 \in X
  <2> SUFFICES ASSUME j + 1 <= n PROVE Fresh(f[j + 1], 0 .. (j + 1) - 1)
    OBVIOUS
  <2>1. /\ j \in 0 .. n - 1 /\ j <= n /\ j \in Level /\ j \notin 0 .. j - 1
        /\ 0 .. j - 1 \subseteq Level /\ 0 .. (j + 1) - 1 = (0 .. j - 1) \cup {j}
    BY <1>1
  <2>2. Fresh(f[j], 0 .. j - 1)
    BY <1>5, <2>1
  <2>3. j \in Lists /\ 0 .. j - 1 \in SUBSET Lists
    BY <2>1, LevelFacts
  <2>4. Fresh(L!list_init(f[j], j), (0 .. j - 1) \cup {j})
    BY <2>1, <2>2, <2>3, InitOne
  <2> QED BY <1>3, <2>1, <2>4
<1> HIDE DEF X
<1>6. Nat \subseteq X
  BY <1>4, <1>5, SetInduction
<1>7. Fresh(f[n], Level)
  BY <1>1, <1>6 DEF X
<1>8. Fresh(InitLists, Lists)
  <2>1. Level \in SUBSET Lists /\ WaitingQueue \in Lists /\ Lists = Level \cup {WaitingQueue}
    BY DEF Lists
  <2> QED BY <1>1, <1>2, <1>7, <2>1, InitOne
<1>9. Well(InitLists)
  BY <1>8 DEF Fresh, Well
<1>10. ASSUME NEW l \in Lists PROVE L!Contents(InitLists, l) = <<>>
  <2> DEFINE q == L!Contents(InitLists, l)
  <2>1. View(InitLists, l, q) /\ InitLists.size[l] = 0
    BY <1>8, <1>9, ListView DEF Fresh
  <2> HIDE DEF q
  <2>2. q \in Seq(PCB) /\ Len(q) = 0
    BY <2>1 DEF View
  <2>3. q = <<>>
    BY <2>2, EmptySeq
  <2> QED BY <2>3 DEF q
<1> QED BY <1>9, <1>10

LEMMA InitStarts ==
  ASSUME Init
  PROVE  Scheduler(s) /\ S!Init
<1>1. /\ s.links = InitLists /\ s.current_pcb = NULL
      /\ s.state = [p \in PCB |-> IF p = Idle THEN "READY" ELSE "NEW"]
      /\ s.priority = [p \in PCB |-> 0]
      /\ s.quantum_remaining = [p \in PCB |-> FIRST_QUANTUM]
      /\ s.age_ticks = [p \in PCB |-> 0]
      /\ s = [links |-> s.links, current_pcb |-> s.current_pcb, state |-> s.state,
              priority |-> s.priority, quantum_remaining |-> s.quantum_remaining,
              age_ticks |-> s.age_ticks]
  BY DEF Init
<1>2. FIRST_QUANTUM \in Nat /\ 0 \in Level
  BY SchedAssumption DEF Level
<1>3. Scheduler(s)
  BY <1>1, <1>2, InitListsFresh DEF Scheduler, S!States
<1>4. Queues(s.links) = [l \in Level |-> <<>>] /\ L!Contents(s.links, WaitingQueue) = <<>>
  BY <1>1, InitListsFresh, LevelFacts DEF Queues
<1>5. S!Init
  BY <1>1, <1>4, SchedSees DEF S!Init, Init
<1> QED BY <1>3, <1>5

-----------------------------------------------------------------------------
(* Every step is a step of Sched.                                          *)

\* The proofs about the scheduler over sequences, for the sequences that the
\* lists read.
SP == INSTANCE SchedProofs WITH
        priority_queues   <- Queues(s.links),
        waiting_queue     <- L!Contents(s.links, WaitingQueue),
        current_pcb       <- s.current_pcb,
        state             <- s.state,
        priority          <- s.priority,
        quantum_remaining <- s.quantum_remaining,
        age_ticks         <- s.age_ticks

\* The inductive invariant: the lists are rings, and what they read is what
\* SchedProofs shows of the queues.
ListInv == Scheduler(s) /\ SP!IInv

\* What an operation may rely on.
Owned(k, on) ==
  /\ Queued(k)
  /\ \A p \in Proc : /\ k.state[p] = "RUNNING" => k.current_pcb = p
                     /\ k.current_pcb = p => k.state[p] = IF on THEN "RUNNING" ELSE "WAITING"
                     /\ k.quantum_remaining[p] \in Nat \ {0}

LEMMA InvOwned == ASSUME ListInv PROVE Scheduler(s) /\ Owned(s, irq_on)
<1>1. /\ SP!Level = Level /\ SP!PCB = PCB /\ \A q : SP!Range(q) = Range(q)
      /\ \A q : SP!Distinct(q) <=> Distinct(q)
  BY DEF SP!Level, Level, SP!PCB, PCB, SP!Range, Range, SP!Distinct, Distinct
<1>2. /\ Queues(s.links) \in [Level -> Seq(Proc)]
      /\ L!Contents(s.links, WaitingQueue) \in Seq(Proc)
  BY <1>1 DEF ListInv, SP!IInv, SP!TypeOK
<1>3. /\ \A l \in Level : Distinct(Queues(s.links)[l])
      /\ Distinct(L!Contents(s.links, WaitingQueue))
      /\ \A p \in Proc :
           /\ \A l \in Level : p \in Range(Queues(s.links)[l])
                                 <=> s.state[p] = "READY" /\ s.priority[p] = l
           /\ p \in Range(L!Contents(s.links, WaitingQueue)) <=> s.state[p] = "WAITING"
           /\ s.state[p] = "RUNNING" => s.current_pcb = p
           /\ s.current_pcb = p => s.state[p] = IF irq_on THEN "RUNNING" ELSE "WAITING"
  BY <1>1 DEF ListInv, SP!IInv, SP!OneListPerPcb
<1>4. \A l \in Level : Queues(s.links)[l] = At(s, l)
  BY QueuesRead
<1>5. Queued(s)
  <2>1. ASSUME NEW l \in Lists PROVE At(s, l) \in Seq(Proc) /\ Distinct(At(s, l))
    <3>1. CASE l \in Level
      BY <1>2, <1>3, <1>4, <3>1
    <3>2. CASE l = WaitingQueue
      BY <1>2, <1>3, <3>2 DEF At
    <3> QED BY <3>1, <3>2 DEF Lists
  <2>2. ASSUME NEW p \in Proc
        PROVE  /\ \A l \in Level : p \in Range(At(s, l))
                                     <=> s.state[p] = "READY" /\ s.priority[p] = l
               /\ p \in Range(At(s, WaitingQueue)) <=> s.state[p] = "WAITING"
    <3>1. p \in Range(At(s, WaitingQueue)) <=> s.state[p] = "WAITING"
      BY <1>3 DEF At
    <3>2. \A l \in Level : p \in Range(At(s, l)) <=> s.state[p] = "READY" /\ s.priority[p] = l
      BY <1>3, <1>4
    <3> QED BY <3>1, <3>2
  <2> QED BY <2>1, <2>2 DEF Queued
<1>6. \A p \in Proc : s.quantum_remaining[p] \in Nat \ {0}
  <2> TAKE p \in Proc
  <2>1. s.quantum_remaining[p] \in 1 .. MLFQ_QUANTUMS[s.priority[p]] /\ p \in PCB
    BY DEF ListInv, SP!IInv, SP!SliceFitsLevel, PCB
  <2>2. s.quantum_remaining[p] \in Nat
    BY <2>1 DEF ListInv, Scheduler
  <2>3. MLFQ_QUANTUMS[s.priority[p]] \in Nat
    BY <2>1, SchedAssumption DEF ListInv, Scheduler
  <2> QED BY <2>1, <2>2, <2>3
<1> QED BY <1>3, <1>5, <1>6 DEF Owned, ListInv

\* A process that is neither ready nor waiting is on no list.
LEMMA OffLists ==
  ASSUME NEW k, Queued(k), NEW p \in Proc, k.state[p] \notin {"READY", "WAITING"}
  PROVE  Unlinked(k, p)
BY DEF Queued, Unlinked, Lists

\* The lists of a scheduler of which one list changed.
LEMMA RelinkedReads ==
  ASSUME NEW k, NEW e, NEW l \in Lists, NEW q, Relinked(k, e, l, q)
  PROVE  /\ l \in Level => /\ Queues(e.links) = [Queues(k.links) EXCEPT ![l] = q]
                           /\ At(e, WaitingQueue) = At(k, WaitingQueue)
         /\ l = WaitingQueue => Queues(e.links) = Queues(k.links) /\ At(e, WaitingQueue) = q
<1>1. /\ At(e, l) = q
      /\ \A m \in Lists : m # l => At(e, m) = At(k, m)
  BY DEF Relinked, Reads, At
<1>2. /\ Queues(e.links) = [m \in Level |-> At(e, m)]
      /\ Queues(k.links) = [m \in Level |-> At(k, m)]
  BY QueuesRead
<1>3. ASSUME l \in Level
      PROVE  /\ Queues(e.links) = [Queues(k.links) EXCEPT ![l] = q]
             /\ At(e, WaitingQueue) = At(k, WaitingQueue)
  <2>1. \A m \in Level : At(e, m) = IF m = l THEN q ELSE At(k, m)
    BY <1>1, LevelFacts
  <2>2. [Queues(k.links) EXCEPT ![l] = q] = [m \in Level |-> IF m = l THEN q ELSE At(k, m)]
    BY <1>2
  <2> QED BY <1>1, <1>2, <1>3, <2>1, <2>2, LevelFacts
<1>4. ASSUME l = WaitingQueue
      PROVE  Queues(e.links) = Queues(k.links) /\ At(e, WaitingQueue) = q
  <2>1. \A m \in Level : At(e, m) = At(k, m)
    BY <1>1, <1>4, LevelFacts
  <2> QED BY <1>1, <1>2, <1>4, <2>1
<1> QED BY <1>3, <1>4

\* The same lists and owner with other fields of the PCBs.
Retyped(k, e, st, pr, qu, ag) ==
  /\ Scheduler(e) /\ e.links = k.links /\ e.current_pcb = k.current_pcb
  /\ e.state = st /\ e.priority = pr /\ e.quantum_remaining = qu /\ e.age_ticks = ag

LEMMA Retype ==
  ASSUME NEW k, Scheduler(k), NEW e,
         NEW st \in [PCB -> S!States], NEW pr \in [PCB -> Level], NEW qu \in [PCB -> Nat],
         NEW ag \in [PCB -> Nat],
         e = [links |-> k.links, current_pcb |-> k.current_pcb, state |-> st,
              priority |-> pr, quantum_remaining |-> qu, age_ticks |-> ag]
  PROVE  Retyped(k, e, st, pr, qu, ag)
BY DEF Retyped, Scheduler

LEMMA CreateStep ==
  ASSUME ListInv, NEW p \in Proc, CreateProcess(p)
  PROVE  Scheduler(s') /\ S!CreateProcess(p)
<1> DEFINE st == [s.state EXCEPT ![p] = "READY"]
           k == [s EXCEPT !.state[p] = "READY"]
           l == s.priority[p]
<1>1. Scheduler(s) /\ Owned(s, irq_on) /\ p \in PCB
  BY InvOwned DEF PCB
<1>2. s.state[p] = "NEW" /\ s' = sched_enqueue(k, p)
  BY DEF CreateProcess
<1>3. st \in [PCB -> S!States] /\ st[p] = "READY"
  BY <1>1 DEF Scheduler, S!States
<1>4. k = [links |-> s.links, current_pcb |-> s.current_pcb, state |-> st,
           priority |-> s.priority, quantum_remaining |-> s.quantum_remaining,
           age_ticks |-> s.age_ticks]
  BY <1>1 DEF Scheduler
<1> HIDE DEF k, st
<1>5. Retyped(s, k, st, s.priority, s.quantum_remaining, s.age_ticks)
  <2>1. /\ s.priority \in [PCB -> Level] /\ s.quantum_remaining \in [PCB -> Nat]
        /\ s.age_ticks \in [PCB -> Nat]
    BY <1>1 DEF Scheduler
  <2> QED BY <1>1, <1>3, <1>4, <2>1, Retype
<1>6. Unlinked(k, p)
  <2>1. Unlinked(s, p)
    BY <1>1, <1>2, OffLists DEF Owned
  <2> QED BY <1>5, <2>1 DEF Retyped, Unlinked, At
<1>7. l \in Level /\ k.state[p] = "READY" /\ k.priority[p] = l /\ Scheduler(k)
  BY <1>1, <1>3, <1>5 DEF Scheduler, Retyped
<1>8. l \in Lists /\ Relinked(k, s', l, Append(At(k, l), p))
  BY <1>2, <1>6, <1>7, EnqueueStep
<1> HIDE DEF l
<1>9. /\ Queues(s'.links) = [Queues(s.links) EXCEPT ![l] = Append(@, p)]
      /\ At(s', WaitingQueue) = At(s, WaitingQueue)
  <2>1. /\ Queues(s'.links) = [Queues(k.links) EXCEPT ![l] = Append(At(k, l), p)]
        /\ At(s', WaitingQueue) = At(k, WaitingQueue)
    BY <1>7, <1>8, RelinkedReads
  <2>2. k.links = s.links /\ Queues(k.links)[l] = At(k, l)
    BY <1>5, <1>7, QueuesRead DEF Retyped
  <2> QED BY <2>1, <2>2 DEF At
<1>10. Scheduler(s') /\ SameFields(k, s')
  BY <1>8 DEF Relinked
<1>11. S!CreateProcess(p)
  <2>1. ~irq_on /\ s.current_pcb = NULL /\ irq_on' = irq_on
    BY DEF CreateProcess
  <2>2. /\ s'.current_pcb = s.current_pcb /\ s'.state = st /\ s'.priority = s.priority
        /\ s'.quantum_remaining = s.quantum_remaining /\ s'.age_ticks = s.age_ticks
    BY <1>5, <1>10 DEF Retyped, SameFields
  <2> QED BY <1>2, <1>9, <2>1, <2>2 DEF S!CreateProcess, S!sched_enqueue, At, l, st
<1> QED BY <1>10, <1>11

LEMMA EnableStep ==
  ASSUME ListInv, EnableInterrupts
  PROVE  Scheduler(s') /\ S!EnableInterrupts
<1>1. s' = s /\ Scheduler(s)
  BY DEF EnableInterrupts, ListInv
<1>2. S!Created = Created
  BY DEF S!Created, Created
<1> QED BY <1>1, <1>2, SchedSees DEF EnableInterrupts, S!EnableInterrupts, S!sched, S!pcb

\* sched_pick_next_process, called with the scheduler k.
LEMMA PickAction ==
  ASSUME NEW k, Scheduler(k), s' = sched_pick_next_process(k)
  PROVE  /\ Scheduler(s') /\ S!sched_pick_next_process(Queues(k.links), k.state)
         /\ L!Contents(s'.links, WaitingQueue) = L!Contents(k.links, WaitingQueue)
         /\ s'.priority = k.priority /\ s'.quantum_remaining = k.quantum_remaining
         /\ s'.age_ticks = k.age_ticks
<1>1. Picked(k, s')
  BY PickStep
<1> QED BY <1>1 DEF Picked, S!sched_pick_next_process, At

LEMMA FirstTickStep ==
  ASSUME ListInv, TimerInterrupt, s.current_pcb = NULL
  PROVE  Scheduler(s') /\ S!FirstTick
<1>1. s' = sched_pick_next_process(s) /\ irq_on /\ irq_on' = irq_on
  BY DEF TimerInterrupt, sched_timer_handler, sched_tick
<1>2. Scheduler(s)
  BY DEF ListInv
<1> QED BY <1>1, <1>2, PickAction DEF S!FirstTick

LEMMA IdleTickStep ==
  ASSUME ListInv, TimerInterrupt, s.current_pcb = Idle
  PROVE  Scheduler(s') /\ S!IdleTick
<1>1. Idle # NULL
  BY AddressAssumption DEF PCB
<1>2. s' = s /\ irq_on /\ irq_on' = irq_on
  BY <1>1 DEF TimerInterrupt, sched_timer_handler, sched_tick
<1> QED BY <1>2 DEF S!IdleTick, S!vars, S!sched, S!pcb, ListInv

LEMMA SwitchAwayStep ==
  ASSUME ListInv, SwitchAway
  PROVE  Scheduler(s') /\ S!SwitchAway
<1>1. Scheduler(s)
  BY DEF ListInv
<1> QED BY <1>1, PickAction DEF SwitchAway, S!SwitchAway

\* An assignment to three fields of a PCB.
LEMMA ThreeFields ==
  ASSUME NEW c, NEW p, NEW x, NEW y, NEW z, NEW r,
         c = [links |-> c.links, current_pcb |-> c.current_pcb, state |-> c.state,
              priority |-> c.priority, quantum_remaining |-> c.quantum_remaining,
              age_ticks |-> c.age_ticks],
         r = [c EXCEPT !.state[p] = x, !.priority[p] = y, !.quantum_remaining[p] = z]
  PROVE  r = [links |-> c.links, current_pcb |-> c.current_pcb,
              state |-> [c.state EXCEPT ![p] = x],
              priority |-> [c.priority EXCEPT ![p] = y],
              quantum_remaining |-> [c.quantum_remaining EXCEPT ![p] = z],
              age_ticks |-> c.age_ticks]
<1>1. /\ r.links = c.links /\ r.current_pcb = c.current_pcb /\ r.age_ticks = c.age_ticks
      /\ r.state = [c.state EXCEPT ![p] = x] /\ r.priority = [c.priority EXCEPT ![p] = y]
      /\ r.quantum_remaining = [c.quantum_remaining EXCEPT ![p] = z]
      /\ r = [links |-> r.links, current_pcb |-> r.current_pcb, state |-> r.state,
              priority |-> r.priority, quantum_remaining |-> r.quantum_remaining,
              age_ticks |-> r.age_ticks]
  OBVIOUS
<1> QED BY <1>1

\* The owner of the CPU takes its own tick: the slice is used up.
LEMMA ExpireTickStep ==
  ASSUME ListInv, TimerInterrupt, NEW p \in Proc, p = s.current_pcb, s.quantum_remaining[p] = 1
  PROVE  Scheduler(s') /\ S!ExpireTick
<1> DEFINE l  == IF s.priority[p] < MLFQ_LEVELS - 1 THEN s.priority[p] + 1 ELSE s.priority[p]
           st == [s.state EXCEPT ![p] = "READY"]
           pr == [s.priority EXCEPT ![p] = l]
           qu == [s.quantum_remaining EXCEPT ![p] = MLFQ_QUANTUMS[l]]
           c  == [s EXCEPT !.quantum_remaining[p] = @ - 1]
           k  == [c EXCEPT !.state[p] = "READY", !.priority[p] = l,
                           !.quantum_remaining[p] = MLFQ_QUANTUMS[l]]
           e  == sched_enqueue(k, p)
           b  == [e EXCEPT !.current_pcb = NULL]
<1>1. /\ Scheduler(s) /\ Owned(s, irq_on) /\ p \in PCB /\ p # Idle /\ p # NULL
      /\ irq_on /\ irq_on' = irq_on
  BY InvOwned, SchedAssumption, AddressAssumption DEF PCB, TimerInterrupt
<1>2. l \in Level /\ MLFQ_QUANTUMS[l] \in Nat
  <2>1. s.priority[p] \in Level
    BY <1>1 DEF Scheduler
  <2>2. l \in Level
    BY <2>1, SchedAssumption DEF Level
  <2> HIDE DEF l
  <2> QED BY <2>2, SchedAssumption
<1>3. s' = sched_pick_next_process(b)
  <2>1. c.current_pcb = p /\ c.quantum_remaining[p] = 0 /\ c.priority = s.priority
    <3>1. c.quantum_remaining = [s.quantum_remaining EXCEPT ![p] = @ - 1]
      BY <1>1 DEF Scheduler
    <3>2. c.quantum_remaining[p] = 0
      BY <1>1, <3>1 DEF Scheduler
    <3> QED BY <1>1, <3>2 DEF Scheduler
  <2>2. sched_tick(s) = Expire(c, p)
    BY <1>1, <2>1 DEF sched_tick
  <2>3. Expire(c, p) = b
    BY <2>1 DEF Expire
  <2>4. b.current_pcb = NULL
    <3> HIDE DEF k, st
    <3>1. b.current_pcb = [e EXCEPT !.current_pcb = NULL].current_pcb
      OBVIOUS
    <3> QED BY <1>1 DEF sched_enqueue, k, Scheduler
  <2> HIDE DEF b, c
  <2> QED BY <1>1, <2>2, <2>3, <2>4 DEF TimerInterrupt, sched_timer_handler
<1> HIDE DEF l
<1>4. /\ st \in [PCB -> S!States] /\ pr \in [PCB -> Level] /\ qu \in [PCB -> Nat]
      /\ s.age_ticks \in [PCB -> Nat] /\ st[p] = "READY" /\ pr[p] = l
  BY <1>1, <1>2 DEF Scheduler, S!States
<1>5. k = [links |-> s.links, current_pcb |-> s.current_pcb, state |-> st,
           priority |-> pr, quantum_remaining |-> qu, age_ticks |-> s.age_ticks]
  <2> DEFINE d == [s.quantum_remaining EXCEPT ![p] = @ - 1]
  <2>1. c = [links |-> s.links, current_pcb |-> s.current_pcb, state |-> s.state,
             priority |-> s.priority, quantum_remaining |-> d, age_ticks |-> s.age_ticks]
    BY <1>1 DEF Scheduler
  <2>2. [d EXCEPT ![p] = MLFQ_QUANTUMS[l]] = qu
    BY <1>1 DEF Scheduler
  <2> HIDE DEF c, d
  <2>3. k = [links |-> c.links, current_pcb |-> c.current_pcb,
             state |-> [c.state EXCEPT ![p] = "READY"],
             priority |-> [c.priority EXCEPT ![p] = l],
             quantum_remaining |-> [c.quantum_remaining EXCEPT ![p] = MLFQ_QUANTUMS[l]],
             age_ticks |-> c.age_ticks]
    <3>1. c = [links |-> c.links, current_pcb |-> c.current_pcb, state |-> c.state,
               priority |-> c.priority, quantum_remaining |-> c.quantum_remaining,
               age_ticks |-> c.age_ticks]
      BY <2>1
    <3>2. k = [c EXCEPT !.state[p] = "READY", !.priority[p] = l,
                        !.quantum_remaining[p] = MLFQ_QUANTUMS[l]]
      OBVIOUS
    <3> HIDE DEF k
    <3> QED BY <3>1, <3>2, ThreeFields
  <2>4. /\ c.links = s.links /\ c.current_pcb = s.current_pcb /\ c.state = s.state
        /\ c.priority = s.priority /\ c.quantum_remaining = d /\ c.age_ticks = s.age_ticks
    BY <2>1
  <2> HIDE DEF k, qu
  <2> QED BY <2>2, <2>3, <2>4
<1> HIDE DEF c, k, st, pr, qu
<1>6. Retyped(s, k, st, pr, qu, s.age_ticks)
  BY <1>1, <1>4, <1>5, Retype
<1>7. Unlinked(k, p)
  <2>1. Unlinked(s, p)
    BY <1>1, OffLists DEF Owned
  <2> QED BY <1>6, <2>1 DEF Retyped, Unlinked, At
<1>8. k.state[p] = "READY" /\ k.priority[p] = l /\ Scheduler(k)
  BY <1>4, <1>6 DEF Retyped
<1>9. l \in Lists /\ Relinked(k, e, l, Append(At(k, l), p))
  BY <1>7, <1>8, EnqueueStep
<1> HIDE DEF e
<1>10. Queues(e.links) = [Queues(s.links) EXCEPT ![l] = Append(@, p)]
       /\ At(e, WaitingQueue) = At(s, WaitingQueue)
  <2>1. /\ Queues(e.links) = [Queues(k.links) EXCEPT ![l] = Append(At(k, l), p)]
        /\ At(e, WaitingQueue) = At(k, WaitingQueue)
    BY <1>2, <1>9, RelinkedReads
  <2>2. k.links = s.links /\ Queues(k.links)[l] = At(k, l)
    BY <1>2, <1>6, QueuesRead DEF Retyped
  <2> QED BY <2>1, <2>2 DEF At
<1>11. Scheduler(e) /\ SameFields(k, e)
  BY <1>9 DEF Relinked
<1>12. /\ Scheduler(b) /\ b.links = e.links /\ b.state = st /\ b.priority = pr
       /\ b.quantum_remaining = qu /\ b.age_ticks = s.age_ticks
  <2>1. /\ b.links = e.links /\ b.current_pcb = NULL /\ b.state = e.state
        /\ b.priority = e.priority
        /\ b.quantum_remaining = e.quantum_remaining /\ b.age_ticks = e.age_ticks
        /\ b = [links |-> b.links, current_pcb |-> b.current_pcb, state |-> b.state,
                priority |-> b.priority, quantum_remaining |-> b.quantum_remaining,
                age_ticks |-> b.age_ticks]
    BY <1>11 DEF Scheduler
  <2> HIDE DEF b
  <2>2. Scheduler(b)
    BY <1>11, <2>1 DEF Scheduler
  <2> QED BY <1>6, <1>11, <2>1, <2>2 DEF Retyped, SameFields
<1> HIDE DEF b
<1>13. /\ Scheduler(s') /\ S!sched_pick_next_process(Queues(b.links), b.state)
       /\ L!Contents(s'.links, WaitingQueue) = L!Contents(b.links, WaitingQueue)
       /\ s'.priority = b.priority /\ s'.quantum_remaining = b.quantum_remaining
       /\ s'.age_ticks = b.age_ticks
  BY <1>3, <1>12, PickAction
<1>14. S!Charged /\ S!Demoted(p) = l
  BY DEF S!Charged, S!Demoted, l
<1>15. S!sched_enqueue(Queues(s.links), l, p) = Queues(b.links)
  BY <1>10, <1>12 DEF S!sched_enqueue
<1>16. L!Contents(s'.links, WaitingQueue) = L!Contents(s.links, WaitingQueue)
  BY <1>10, <1>12, <1>13 DEF At
<1>17. S!ExpireTick
  <2>1. S!sched_pick_next_process(S!sched_enqueue(Queues(s.links), l, p), st)
    BY <1>12, <1>13, <1>15
  <2>2. s'.priority = pr /\ s'.quantum_remaining = qu /\ s'.age_ticks = s.age_ticks
    BY <1>12, <1>13
  <2> QED BY <1>1, <1>14, <1>16, <2>1, <2>2 DEF S!ExpireTick, st, pr, qu
<1> QED BY <1>13, <1>17

\* The owner of the CPU takes its own tick: the slice is not used up, and the
\* queues age.
LEMMA AgeTickStep ==
  ASSUME ListInv, TimerInterrupt, NEW p \in Proc, p = s.current_pcb, s.quantum_remaining[p] # 1
  PROVE  Scheduler(s') /\ S!AgeTick
<1> DEFINE qu == [s.quantum_remaining EXCEPT ![p] = @ - 1]
           k  == [s EXCEPT !.quantum_remaining[p] = @ - 1]
           g  == AgeAll(k)
           B  == Below(k, MLFQ_LEVELS - 1)
           G  == Gone(k, B)
<1>1. /\ Scheduler(s) /\ Owned(s, irq_on) /\ p \in PCB /\ p # Idle /\ p # NULL
      /\ irq_on /\ irq_on' = irq_on
  BY InvOwned, SchedAssumption, AddressAssumption DEF PCB, TimerInterrupt
<1>2. s.quantum_remaining[p] \in Nat \ {0} /\ s.quantum_remaining[p] - 1 \in Nat
      /\ s.quantum_remaining[p] - 1 # 0
  BY <1>1 DEF Owned
<1>3. qu \in [PCB -> Nat] /\ qu[p] # 0
  BY <1>1, <1>2 DEF Scheduler
<1>4. k = [links |-> s.links, current_pcb |-> s.current_pcb, state |-> s.state,
           priority |-> s.priority, quantum_remaining |-> qu, age_ticks |-> s.age_ticks]
  BY <1>1 DEF Scheduler
<1>5. s' = sched_timer_handler(s) /\ sched_tick(s) = IF k.quantum_remaining[p] = 0
                                                     THEN Expire(k, p) ELSE g
  BY <1>1 DEF TimerInterrupt, sched_tick
<1>6. \A x \in PCB : qu[x] = IF x = p THEN s.quantum_remaining[x] - 1 ELSE s.quantum_remaining[x]
  BY <1>1 DEF Scheduler
<1> HIDE DEF k, qu, g
<1>7. Retyped(s, k, s.state, s.priority, qu, s.age_ticks)
  <2>1. /\ s.state \in [PCB -> S!States] /\ s.priority \in [PCB -> Level]
        /\ s.age_ticks \in [PCB -> Nat]
    BY <1>1 DEF Scheduler
  <2> QED BY <1>1, <1>3, <1>4, <2>1, Retype
<1>8. /\ Scheduler(k) /\ k.links = s.links /\ k.state = s.state /\ k.priority = s.priority
      /\ k.quantum_remaining = qu /\ k.age_ticks = s.age_ticks /\ k.current_pcb = p
      /\ \A l : At(k, l) = At(s, l)
  BY <1>7 DEF Retyped, At
<1>9. Queued(k)
  BY <1>1, <1>8 DEF Owned, Queued
<1>10. Aged(k, g, B)
  BY <1>8, <1>9, AgedAll DEF g
<1>11. s' = g
  <2>1. sched_tick(s) = g
    BY <1>3, <1>5, <1>8
  <2>2. g.current_pcb = p
    BY <1>8, <1>10 DEF Aged
  <2> QED BY <1>1, <1>5, <2>1, <2>2 DEF sched_timer_handler
<1>12. Scheduler(s')
  BY <1>10, <1>11 DEF Aged
<1> DEFINE Q == Queues(s.links)
<1>13. \A l \in Level : Q[l] = At(k, l)
  BY <1>8, QueuesRead
<1>14. S!Ageing = B
  <2>1. Level \ {0} = 1 .. MLFQ_LEVELS - 1
    BY SchedAssumption DEF Level
  <2>2. \A x : x \in S!Ageing <=> \E l \in Level \ {0} : x \in Range(Q[l])
    BY SchedSees DEF S!Ageing
  <2>3. \A x : x \in B <=> \E l \in 1 .. MLFQ_LEVELS - 1 : x \in Range(At(k, l))
    BY DEF Below
  <2> HIDE DEF Q, B
  <2>4. \A x : x \in S!Ageing <=> x \in B
    BY <1>13, <2>1, <2>2, <2>3
  <2> QED BY <2>4
<1>15. S!Due = G
  BY <1>8, <1>14 DEF S!Due, Gone
<1>16. ASSUME NEW l \in Level
       PROVE  S!Stay(l) = Filter(At(k, l), Proc \ G) /\ S!Promote(l + 1) = Up(k, l + 1, G)
  <2>1. S!Stay(l) = Filter(At(k, l), Proc \ G)
    <3>1. CASE l # 0
      BY <1>13, <1>15, <3>1, SchedSees DEF S!Stay
    <3>2. CASE l = 0
      <4> DEFINE q == At(k, 0)
                 T == Proc \ G
      <4>1. q \in Seq(Proc) /\ 0 \in Level
        BY <1>9, <3>2, LevelFacts DEF Queued
      <4>2. B \cap Range(q) = {}
        <5>1. ASSUME NEW i \in 1 .. MLFQ_LEVELS - 1 PROVE Range(At(k, i)) \cap Range(q) = {}
          BY <1>9, <4>1, QueuesApart, LevelFacts
        <5> QED BY <5>1 DEF Below
      <4>3. Range(q) \subseteq Proc
        BY <4>1 DEF Range
      <4>4. Range(q) \subseteq T
        BY <4>2, <4>3 DEF Gone
      <4> HIDE DEF T, q
      <4>5. Filter(q, T) = q
        BY <4>1, <4>4, FilterAll
      <4> QED BY <1>13, <3>2, <4>1, <4>5 DEF S!Stay, q, T
    <3> QED BY <3>1, <3>2
  <2>2. S!Promote(l + 1) = Up(k, l + 1, G)
    <3>1. l + 1 # 0
      BY LevelFacts
    <3>2. CASE l + 1 \in Level
      BY <1>13, <1>15, <3>1, <3>2, SchedSees DEF S!Promote, Up
    <3>3. CASE l + 1 \notin Level
      BY <3>3, SchedSees DEF S!Promote, Up
    <3> QED BY <3>2, <3>3
  <2> QED BY <2>1, <2>2
<1>17. Queues(s'.links) = [l \in Level |-> S!Stay(l) \o S!Promote(l + 1)]
  <2>1. \A l \in Level : L!Contents(g.links, l) = Filter(At(k, l), Proc \ G) \o Up(k, l + 1, G)
    BY <1>10 DEF Aged, AgedLists
  <2> HIDE DEF G
  <2>2. \A l \in Level : L!Contents(g.links, l) = S!Stay(l) \o S!Promote(l + 1)
    BY <1>16, <2>1
  <2> QED BY <1>11, <2>2 DEF Queues
<1>18. L!Contents(s'.links, WaitingQueue) = L!Contents(s.links, WaitingQueue)
  BY <1>8, <1>10, <1>11 DEF Aged, AgedLists, At
<1>19. /\ s'.current_pcb = s.current_pcb /\ s'.state = s.state
       /\ s'.priority = [q \in PCB |-> IF q \in G THEN s.priority[q] - 1 ELSE s.priority[q]]
       /\ s'.age_ticks = [q \in PCB |-> IF q \in G THEN 0
                                        ELSE IF q \in B THEN s.age_ticks[q] + 1 ELSE s.age_ticks[q]]
       /\ s'.quantum_remaining = [q \in PCB |-> IF q \in G THEN MLFQ_QUANTUMS[s.priority[q] - 1]
                                                ELSE qu[q]]
  BY <1>8, <1>10, <1>11 DEF Aged
<1> HIDE DEF G, B, Q
<1>20. s'.quantum_remaining = [q \in PCB |-> S!Slice(q)]
  <2>1. \A q \in PCB : S!Slice(q) = IF q \in G THEN MLFQ_QUANTUMS[s.priority[q] - 1] ELSE qu[q]
    BY <1>6, <1>15 DEF S!Slice
  <2> QED BY <1>19, <2>1
<1>21. S!AgeTick
  <2>1. S!Charged /\ s.quantum_remaining[s.current_pcb] # 1
    BY DEF S!Charged
  <2>2. Queues(s'.links) = [l \in S!Level |-> S!Stay(l) \o S!Promote(l + 1)]
    BY <1>17, SchedSees
  <2>3. s'.age_ticks = [q \in S!PCB |-> IF q \in S!Due THEN 0
                             ELSE IF q \in S!Ageing THEN s.age_ticks[q] + 1 ELSE s.age_ticks[q]]
    BY <1>14, <1>15, <1>19, SchedSees
  <2>4. s'.priority = [q \in S!PCB |-> IF q \in S!Due THEN s.priority[q] - 1 ELSE s.priority[q]]
    BY <1>15, <1>19, SchedSees
  <2>5. s'.quantum_remaining = [q \in S!PCB |-> S!Slice(q)]
    BY <1>20, SchedSees
  <2> QED BY <1>1, <1>18, <1>19, <2>1, <2>2, <2>3, <2>4, <2>5 DEF S!AgeTick
<1> QED BY <1>12, <1>21

LEMMA BlockStep ==
  ASSUME ListInv, Block
  PROVE  Scheduler(s') /\ S!sched_block_process
<1> DEFINE p == s.current_pcb
           st == [s.state EXCEPT ![p] = "WAITING"]
           k == [s EXCEPT !.state[p] = "WAITING"]
<1>1. /\ Scheduler(s) /\ Owned(s, irq_on) /\ p \in Blocking /\ p \in Proc /\ p \in PCB
      /\ irq_on /\ ~irq_on' /\ irq_on' = FALSE
  BY InvOwned, SchedAssumption DEF PCB, Block
<1>2. s.state[p] = "RUNNING" /\ s' = sched_enqueue(k, p)
  BY <1>1 DEF Block, Owned, sched_block_process
<1>3. st \in [PCB -> S!States] /\ st[p] = "WAITING"
  BY <1>1 DEF Scheduler, S!States
<1>4. k = [links |-> s.links, current_pcb |-> s.current_pcb, state |-> st,
           priority |-> s.priority, quantum_remaining |-> s.quantum_remaining,
           age_ticks |-> s.age_ticks]
  BY <1>1 DEF Scheduler
<1> HIDE DEF k, st, p
<1>5. Retyped(s, k, st, s.priority, s.quantum_remaining, s.age_ticks)
  <2>1. /\ s.priority \in [PCB -> Level] /\ s.quantum_remaining \in [PCB -> Nat]
        /\ s.age_ticks \in [PCB -> Nat]
    BY <1>1 DEF Scheduler
  <2> QED BY <1>1, <1>3, <1>4, <2>1, Retype
<1>6. Unlinked(k, p)
  <2>1. Unlinked(s, p)
    BY <1>1, <1>2, OffLists DEF Owned
  <2> QED BY <1>5, <2>1 DEF Retyped, Unlinked, At
<1>7. k.state[p] = "WAITING" /\ Scheduler(k)
  BY <1>3, <1>5 DEF Retyped
<1>8. /\ WaitingQueue \in Lists
      /\ Relinked(k, s', WaitingQueue, Append(At(k, WaitingQueue), p))
  BY <1>1, <1>2, <1>6, <1>7, EnqueueStep
<1>9. /\ Queues(s'.links) = Queues(s.links)
      /\ L!Contents(s'.links, WaitingQueue) = Append(L!Contents(s.links, WaitingQueue), p)
  <2>1. /\ Queues(s'.links) = Queues(k.links)
        /\ At(s', WaitingQueue) = Append(At(k, WaitingQueue), p)
    BY <1>8, RelinkedReads
  <2>2. k.links = s.links
    BY <1>5 DEF Retyped
  <2> QED BY <2>1, <2>2 DEF At
<1>10. Scheduler(s') /\ SameFields(k, s')
  BY <1>8 DEF Relinked
<1>11. /\ s'.current_pcb = s.current_pcb /\ s'.state = st /\ s'.priority = s.priority
       /\ s'.quantum_remaining = s.quantum_remaining /\ s'.age_ticks = s.age_ticks
  BY <1>5, <1>10 DEF Retyped, SameFields
<1> QED BY <1>1, <1>9, <1>10, <1>11 DEF S!sched_block_process, st, p

LEMMA UnblockStep ==
  ASSUME ListInv, NEW p \in Blocking, Unblock(p)
  PROVE  Scheduler(s') /\ S!sched_unblock_process(p)
<1> DEFINE W  == WaitingQueue
           st == [s.state EXCEPT ![p] = "READY"]
           ag == [s.age_ticks EXCEPT ![p] = 0]
           l  == s.priority[p]
           qu == [s.quantum_remaining EXCEPT ![p] = MLFQ_QUANTUMS[l]]
           h  == L!list_remove_node(s.links, W, p)
           a  == [s EXCEPT !.links = h]
           k  == [s EXCEPT !.links = h, !.state[p] = "READY", !.age_ticks[p] = 0,
                           !.quantum_remaining[p] = MLFQ_QUANTUMS[l]]
           F  == Filter(At(s, W), Proc \ {p})
<1>1. /\ Scheduler(s) /\ Owned(s, irq_on) /\ p \in Proc /\ p \in PCB
      /\ irq_on /\ irq_on' = irq_on /\ s.state[p] = "WAITING" /\ W \in Lists /\ W \notin Level
  BY InvOwned, SchedAssumption, LevelFacts DEF PCB, Unblock
<1>2. s' = sched_enqueue(k, p)
  BY DEF Unblock, sched_unblock_process
<1>3. l \in Level /\ MLFQ_QUANTUMS[l] \in Nat
  <2>1. l \in Level
    BY <1>1 DEF Scheduler
  <2> HIDE DEF l
  <2> QED BY <2>1, SchedAssumption
<1> HIDE DEF l
<1>4. /\ st \in [PCB -> S!States] /\ ag \in [PCB -> Nat] /\ qu \in [PCB -> Nat]
      /\ s.priority \in [PCB -> Level] /\ st[p] = "READY"
  BY <1>1, <1>3 DEF Scheduler, S!States
<1>5. Reads(s.links, h, W, F)
  <2> DEFINE q == At(s, W)
  <2>1. q \in Seq(Proc) /\ Distinct(q) /\ p \in Range(q) /\ Well(s.links)
    BY <1>1 DEF Owned, Queued, Scheduler
  <2>2. q = L!Contents(s.links, W)
    BY DEF At
  <2> HIDE DEF q
  <2>3. PICK j \in 1 .. Len(q) : q[j] = p
    <3>1. DOMAIN q = 1 .. Len(q)
      BY <2>1, LenProperties
    <3> QED BY <2>1, <3>1 DEF Range
  <2>4. Reads(s.links, h, W, LP!Dropped(q, j))
    BY <1>1, <2>1, <2>2, <2>3, Removed
  <2>5. LP!Dropped(q, j) = LP!Filter(q, Proc \ {q[j]})
    BY <2>1, <2>3, SameDistinct, LP!DropFilters, Addresses
  <2>6. LP!Filter(q, Proc \ {p}) = Filter(q, Proc \ {p})
    <3>1. \A K : LP!Cardinality(K) = Cardinality(K)
      BY DEF LP!Cardinality, Cardinality
    <3>2. \A K, n : LP!Nth(K, n) = Nth(K, n)
      BY <3>1 DEF LP!Nth, Nth, LP!Rank, Rank
    <3> QED BY <3>1, <3>2 DEF LP!Filter, Filter, LP!Positions, Positions
  <2> QED BY <2>3, <2>4, <2>5, <2>6 DEF q
<1> HIDE DEF h
<1>6. Relinked(s, a, W, F)
  BY <1>1, <1>5, Relink
<1>7. a.links = h
  BY <1>1 DEF Scheduler
<1>8. k = [links |-> a.links, current_pcb |-> a.current_pcb, state |-> st,
           priority |-> s.priority, quantum_remaining |-> qu, age_ticks |-> ag]
  <2>1. a.current_pcb = s.current_pcb
    BY <1>6 DEF Relinked, SameFields
  <2>2. k = [links |-> h, current_pcb |-> s.current_pcb, state |-> st,
             priority |-> s.priority, quantum_remaining |-> qu, age_ticks |-> ag]
    <3>1. s = [links |-> s.links, current_pcb |-> s.current_pcb, state |-> s.state,
               priority |-> s.priority, quantum_remaining |-> s.quantum_remaining,
               age_ticks |-> s.age_ticks]
      BY <1>1 DEF Scheduler
    <3>2. k = [s EXCEPT !.links = h, !.state[p] = "READY", !.age_ticks[p] = 0,
                        !.quantum_remaining[p] = MLFQ_QUANTUMS[l]]
      OBVIOUS
    <3> HIDE DEF k
    <3>3. /\ k.links = h /\ k.current_pcb = s.current_pcb /\ k.priority = s.priority
          /\ k.state = st /\ k.age_ticks = ag /\ k.quantum_remaining = qu
          /\ k = [links |-> k.links, current_pcb |-> k.current_pcb, state |-> k.state,
                  priority |-> k.priority, quantum_remaining |-> k.quantum_remaining,
                  age_ticks |-> k.age_ticks]
      BY <3>1, <3>2
    <3> HIDE DEF st, ag, qu
    <3> QED BY <3>3
  <2> HIDE DEF a, k
  <2> QED BY <1>7, <2>1, <2>2
<1> HIDE DEF k, st, ag, qu, a, F, W
<1>9. Retyped(a, k, st, s.priority, qu, ag)
  <2>1. Scheduler(a)
    BY <1>6 DEF Relinked
  <2> QED BY <1>4, <1>8, <2>1, Retype
<1>10. At(a, W) = F /\ \A m \in Lists : m # W => At(a, m) = At(s, m)
  BY <1>6 DEF Relinked, Reads, At
<1>11. Unlinked(k, p)
  <2>1. p \notin Range(F)
    <3>1. At(s, W) \in Seq(Proc)
      BY <1>1 DEF Owned, Queued
    <3>2. Range(F) = Range(At(s, W)) \cap (Proc \ {p})
      BY <3>1, FilterProperties DEF F
    <3> QED BY <3>2
  <2>2. \A m \in Level : p \notin Range(At(s, m))
    BY <1>1 DEF Owned, Queued
  <2>3. \A m \in Lists : p \notin Range(At(a, m))
    BY <1>10, <2>1, <2>2 DEF Lists, W
  <2> QED BY <1>9, <2>3 DEF Retyped, Unlinked, At
<1>12. k.state[p] = "READY" /\ k.priority[p] = l /\ Scheduler(k)
  BY <1>4, <1>9 DEF Retyped, l
<1>13. l \in Lists /\ Relinked(k, s', l, Append(At(k, l), p))
  BY <1>1, <1>2, <1>11, <1>12, EnqueueStep
<1>14. /\ Queues(s'.links) = [Queues(s.links) EXCEPT ![l] = Append(@, p)]
       /\ L!Contents(s'.links, W) = F
  <2>1. /\ Queues(s'.links) = [Queues(k.links) EXCEPT ![l] = Append(At(k, l), p)]
        /\ At(s', W) = At(k, W)
    BY <1>3, <1>13, RelinkedReads DEF W
  <2>2. k.links = a.links /\ Queues(k.links)[l] = At(k, l)
    BY <1>3, <1>9, QueuesRead DEF Retyped
  <2>3. Queues(a.links) = Queues(s.links)
    BY <1>1, <1>6, RelinkedReads DEF W
  <2>4. At(k, W) = F
    BY <1>10, <2>2 DEF At
  <2>5. At(s', W) = L!Contents(s'.links, W)
    BY DEF At
  <2> QED BY <2>1, <2>2, <2>3, <2>4, <2>5
<1>15. Scheduler(s') /\ SameFields(k, s')
  BY <1>13 DEF Relinked
<1>16. /\ s'.current_pcb = s.current_pcb /\ s'.state = st /\ s'.priority = s.priority
       /\ s'.quantum_remaining = qu /\ s'.age_ticks = ag
  BY <1>6, <1>9, <1>15 DEF Retyped, SameFields, Relinked
<1>17. F = S!Filter(L!Contents(s.links, W), Proc \ {p})
  BY SchedSees DEF F, At
<1> QED BY <1>1, <1>14, <1>15, <1>16, <1>17
        DEF S!sched_unblock_process, S!sched_enqueue, st, qu, ag, l, W

\* Every step of the pointers is a step of the sequences.
LEMMA ListStep ==
  ASSUME ListInv, [Next]_vars
  PROVE  Scheduler(s') /\ [S!Next]_(S!vars)
<1>1. CASE \E p \in Proc : CreateProcess(p)
  BY <1>1, CreateStep DEF S!Next
<1>2. CASE EnableInterrupts
  BY <1>2, EnableStep DEF S!Next
<1>3. CASE TimerInterrupt
  <2>1. s.current_pcb \in Proc \cup {Idle, NULL}
    BY DEF ListInv, Scheduler, PCB
  <2>2. CASE s.current_pcb = NULL
    BY <1>3, <2>2, FirstTickStep DEF S!Next
  <2>3. CASE s.current_pcb = Idle
    BY <1>3, <2>3, IdleTickStep DEF S!Next
  <2>4. CASE s.current_pcb \in Proc
    BY <1>3, <2>4, ExpireTickStep, AgeTickStep DEF S!Next
  <2> QED BY <2>1, <2>2, <2>3, <2>4
<1>4. CASE Block
  BY <1>4, BlockStep DEF S!Next
<1>5. CASE SwitchAway
  BY <1>5, SwitchAwayStep DEF S!Next
<1>6. CASE \E p \in Blocking : Unblock(p)
  BY <1>6, UnblockStep DEF S!Next
<1>7. CASE UNCHANGED vars
  BY <1>7 DEF vars, S!vars, S!sched, S!pcb, ListInv
<1> QED BY <1>1, <1>2, <1>3, <1>4, <1>5, <1>6, <1>7 DEF Next

-----------------------------------------------------------------------------
(* SchedProofs speaks about these steps.                                   *)

\* SP and S instantiate the same definitions.
LEMMA ProofsSee ==
  /\ \A K : SP!Cardinality(K) = S!Cardinality(K) /\ SP!Least(K) = S!Least(K)
  /\ \A q : SP!Range(q) = S!Range(q)
  /\ \A q, T : SP!Filter(q, T) = S!Filter(q, T)
  /\ SP!Level = S!Level /\ SP!PCB = S!PCB
<1>1. \A K : SP!Cardinality(K) = S!Cardinality(K)
  BY DEF SP!Cardinality, S!Cardinality
<1>2. \A K, n : SP!Nth(K, n) = S!Nth(K, n)
  BY <1>1 DEF SP!Nth, S!Nth, SP!Rank, S!Rank
<1>3. \A q, T : SP!Filter(q, T) = S!Filter(q, T)
  BY <1>1, <1>2 DEF SP!Filter, S!Filter, SP!Positions, S!Positions
<1> QED BY <1>1, <1>2, <1>3 DEF SP!Least, S!Least, SP!Range, S!Range, SP!Level, S!Level,
                               SP!PCB, S!PCB

LEMMA ProofsPick ==
  ASSUME NEW Q, NEW st
  PROVE  S!sched_pick_next_process(Q, st) <=> SP!sched_pick_next_process(Q, st)
<1>1. S!NonEmpty(Q) = SP!NonEmpty(Q)
  BY ProofsSee DEF S!NonEmpty, SP!NonEmpty
<1>2. S!NextPcb(Q) = SP!NextPcb(Q)
  BY <1>1, ProofsSee DEF S!NextPcb, SP!NextPcb
<1>3. S!WithoutNext(Q) = SP!WithoutNext(Q)
  BY <1>1, ProofsSee DEF S!WithoutNext, SP!WithoutNext
<1> QED
  BY <1>2, <1>3 DEF S!sched_pick_next_process, SP!sched_pick_next_process

LEMMA ProofsAge == S!AgeTick <=> SP!AgeTick
<1>1. S!Ageing = SP!Ageing
  BY ProofsSee DEF S!Ageing, SP!Ageing
<1>2. S!Due = SP!Due
  BY <1>1 DEF S!Due, SP!Due
<1>3. \A l : S!Stay(l) = SP!Stay(l)
  BY <1>2, ProofsSee DEF S!Stay, SP!Stay
<1>4. \A l : S!Promote(l) = SP!Promote(l)
  BY <1>2, ProofsSee DEF S!Promote, SP!Promote
<1>5. \A q : S!Slice(q) = SP!Slice(q)
  BY <1>2 DEF S!Slice, SP!Slice
<1>6. [l \in S!Level |-> S!Stay(l) \o S!Promote(l + 1)]
        = [l \in SP!Level |-> SP!Stay(l) \o SP!Promote(l + 1)]
  BY <1>3, <1>4, ProofsSee
<1>7. [q \in S!PCB |-> S!Slice(q)] = [q \in SP!PCB |-> SP!Slice(q)]
  BY <1>5, ProofsSee
<1> QED
  BY <1>1, <1>2, <1>6, <1>7, ProofsSee DEF S!AgeTick, SP!AgeTick, S!Charged, SP!Charged

LEMMA ProofsNext == [S!Next]_(S!vars) => [SP!Next]_(SP!vars)
<1> SUFFICES ASSUME [S!Next]_(S!vars) PROVE [SP!Next]_(SP!vars)
  OBVIOUS
<1>0. UNCHANGED S!vars => UNCHANGED SP!vars
  BY DEF S!vars, SP!vars, S!sched, SP!sched, S!pcb, SP!pcb
<1>1. CASE \E p \in Proc : S!CreateProcess(p)
  BY <1>1 DEF S!CreateProcess, SP!CreateProcess, S!sched_enqueue, SP!sched_enqueue, SP!Next
<1>2. CASE S!EnableInterrupts
  BY <1>2, ProofsSee DEF S!EnableInterrupts, SP!EnableInterrupts, S!Created, SP!Created,
                         S!sched, S!pcb, SP!sched, SP!pcb, SP!Next
<1>3. CASE S!FirstTick
  BY <1>3, ProofsPick DEF S!FirstTick, SP!FirstTick, SP!Next
<1>4. CASE S!ExpireTick
  BY <1>4, ProofsPick DEF S!ExpireTick, SP!ExpireTick, S!sched_enqueue, SP!sched_enqueue,
                          S!Demoted, SP!Demoted, S!Charged, SP!Charged, SP!Next
<1>5. CASE S!AgeTick
  BY <1>5, ProofsAge DEF SP!Next
<1>6. CASE S!sched_block_process
  BY <1>6 DEF S!sched_block_process, SP!sched_block_process, SP!Next
<1>7. CASE S!SwitchAway
  BY <1>7, ProofsPick DEF S!SwitchAway, SP!SwitchAway, SP!Next
<1>8. CASE \E p \in Blocking : S!sched_unblock_process(p)
  BY <1>8, ProofsSee DEF S!sched_unblock_process, SP!sched_unblock_process,
                         S!sched_enqueue, SP!sched_enqueue, SP!Next
<1>9. CASE S!IdleTick \/ UNCHANGED S!vars
  BY <1>0, <1>9 DEF S!IdleTick
<1> QED
  BY <1>1, <1>2, <1>3, <1>4, <1>5, <1>6, <1>7, <1>8, <1>9 DEF S!Next

\* The parameters are ones SchedProofs speaks about.
LEMMA ProofsParameters ==
  /\ SP!IsFiniteSet(Proc) /\ Idle \notin Proc /\ NULL \notin SP!PCB
  /\ MLFQ_LEVELS \in Nat \ {0} /\ AGE_TICK_MAX \in Nat \ {0} /\ Blocking \subseteq Proc
  /\ MLFQ_QUANTUMS \in [SP!Level -> Nat \ {0}] /\ FIRST_QUANTUM \in 1..MLFQ_QUANTUMS[0]
BY SchedAssumption, AddressAssumption
   DEF SP!IsFiniteSet, IsFiniteSet, SP!PCB, PCB, SP!Level, Level

LEMMA ListInvInitial == Init => ListInv /\ S!Init
<1>1. S!Init => SP!Init
  BY ProofsSee DEF S!Init, SP!Init
<1>2. SP!Init => SP!IInv
  BY ProofsParameters, SP!InitIInv
<1> QED BY <1>1, <1>2, InitStarts DEF ListInv

LEMMA ListInvStep == ListInv /\ [Next]_vars => ListInv' /\ [S!Next]_(S!vars)
<1>1. SP!IInv /\ [SP!Next]_(SP!vars) => SP!IInv'
  BY ProofsParameters, SP!NextIInv
<1>2. ListInv /\ [Next]_vars => Scheduler(s') /\ [S!Next]_(S!vars)
  BY ListStep
<1>3. ListInv /\ [Next]_vars => SP!IInv'
  BY <1>1, <1>2, ProofsNext DEF ListInv
<1>4. ListInv' <=> Scheduler(s') /\ SP!IInv'
  BY DEF ListInv
<1> QED BY <1>2, <1>3, <1>4

-----------------------------------------------------------------------------
\* The inductive invariant holds in every state: whatever the ageing loop has
\* unlinked and pushed, every handler leaves rings that hold the queues of Sched.
THEOREM SchedListInvariant == Spec => []ListInv
BY ListInvInitial, ListInvStep, PTL DEF Spec

\* Every queue of the scheduler is a closed ring with the right counter after
\* every handler, and a PCB has pointers exactly when a queue holds it.
THEOREM SchedListRings == Spec => []QueuesAreRings
<1>1. ASSUME ListInv PROVE QueuesAreRings
  <2>1. Scheduler(s) /\ Owned(s, irq_on) /\ Well(s.links)
    BY <1>1, InvOwned DEF Scheduler
  <2>2. \A l \in Lists : L!IsRing(s.links, l)
    BY <2>1, ListView
  <2>3. ASSUME NEW p \in PCB
        PROVE  s.links.next[p] = NULL <=> s.state[p] \in {"NEW", "RUNNING"} \/ p = Idle
    <3>1. s.links.next[p] = NULL <=> \A m \in Lists : p \notin Range(At(s, m))
      BY <2>1, LinkedView DEF At
    <3>2. s.state[p] \in {"NEW", "READY", "RUNNING", "WAITING"} /\ s.priority[p] \in Level
      BY <2>1 DEF Scheduler, S!States
    <3>3. CASE p = Idle
      <4>1. ASSUME NEW m \in Lists PROVE p \notin Range(At(s, m))
        <5>1. At(s, m) \in Seq(Proc)
          BY <2>1 DEF Owned, Queued
        <5> QED BY <3>3, <5>1, SchedAssumption DEF Range
      <4> QED BY <3>1, <3>3, <4>1
    <3>4. CASE p # Idle
      <4>1. p \in Proc
        BY <3>4 DEF PCB
      <4>2. /\ \A l \in Level : p \in Range(At(s, l))
                                  <=> s.state[p] = "READY" /\ s.priority[p] = l
            /\ p \in Range(At(s, WaitingQueue)) <=> s.state[p] = "WAITING"
        BY <2>1, <4>1 DEF Owned, Queued
      <4>3. (\A m \in Lists : p \notin Range(At(s, m))) <=> s.state[p] \notin {"READY", "WAITING"}
        BY <3>2, <4>2 DEF Lists
      <4> QED BY <3>1, <3>2, <3>4, <4>3
    <3> QED BY <3>3, <3>4
  <2> QED BY <2>2, <2>3 DEF QueuesAreRings
<1> QED BY <1>1, SchedListInvariant, PTL

\* The scheduler over pointers does what the scheduler over sequences does: the
\* loops of sched_tick compute the closed forms of Sched for any number of
\* processes and levels.
THEOREM SchedListImplements == Spec => ImplementsSched
BY ListInvInitial, ListInvStep, SchedListInvariant, PTL DEF Spec, ImplementsSched, S!Spec
=============================================================================
