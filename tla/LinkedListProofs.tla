-------------------------- MODULE LinkedListProofs --------------------------
(***************************************************************************)
(* The pointer operations of list.c keep every list a ring and implement   *)
(* the double-ended queues of Deques, for every set of lists and nodes.    *)
(*                                                                         *)
(* A ring of n nodes is given by the function a from 0 .. n + 1 that       *)
(* numbers the addresses met on the way around, the root at both ends.     *)
(* The inductive invariant says that there is such a function for every    *)
(* live list, that no node is in two of them, and that a node in none has  *)
(* no pointers.                                                            *)
(***************************************************************************)
EXTENDS LinkedList, SeqFilterProofs

Pointers == [Addr -> Addr \cup {NULL}]

Links == [next : Pointers, prev : Pointers, size : [List -> Nat]]

\* The ring of list l: n nodes, numbered by a.
Ring(next, prev, l, n, a) ==
  /\ n \in Nat /\ a \in [0 .. n + 1 -> Addr]
  /\ a[0] = l /\ a[n + 1] = l
  /\ \A i \in 1 .. n : a[i] \in Node
  /\ \A i, j \in 1 .. n : a[i] = a[j] => i = j
  /\ \A i \in 0 .. n : next[a[i]] = a[i + 1] /\ prev[a[i + 1]] = a[i]

-----------------------------------------------------------------------------
(* One ring.                                                               *)

\* The root is no node, so that no address occurs twice on the way around.
Apart(a, n) ==
  /\ \A i, j \in 0 .. n : a[i] = a[j] => i = j
  /\ \A i, j \in 1 .. n + 1 : a[i] = a[j] => i = j

LEMMA RingDistinct ==
  ASSUME NEW next, NEW prev, NEW l \in List, NEW n, NEW a, Ring(next, prev, l, n, a)
  PROVE  Apart(a, n)
<1>1. l \notin Node
  BY AddrAssumption
<1>2. /\ n \in Nat /\ a[0] = l /\ a[n + 1] = l
      /\ \A i \in 1 .. n : a[i] \in Node
      /\ \A i, j \in 1 .. n : a[i] = a[j] => i = j
  BY DEF Ring
<1>3. \A i \in 0 .. n : i = 0 \/ i \in 1 .. n
  BY <1>2
<1>4. \A i \in 1 .. n + 1 : i = n + 1 \/ i \in 1 .. n
  BY <1>2
<1> QED BY <1>1, <1>2, <1>3, <1>4 DEF Apart

\* The node x between the addresses j and j + 1.
WithNode(a, n, j, x) ==
  [i \in 0 .. n + 2 |-> IF i <= j THEN a[i] ELSE IF i = j + 1 THEN x ELSE a[i - 1]]

\* __list_add puts a node between two neighbours of a ring.
LEMMA RingInsert ==
  ASSUME NEW next \in Pointers, NEW prev \in Pointers, NEW l \in List, NEW n, NEW a,
         Ring(next, prev, l, n, a), NEW j \in 0 .. n, NEW x \in Node,
         \A i \in 1 .. n : a[i] # x,
         NEW next2, next2 = [[next EXCEPT ![x] = a[j + 1]] EXCEPT ![a[j]] = x],
         NEW prev2, prev2 = [[prev EXCEPT ![a[j + 1]] = x] EXCEPT ![x] = a[j]]
  PROVE  Ring(next2, prev2, l, n + 1, WithNode(a, n, j, x))
<1> DEFINE b == WithNode(a, n, j, x)
<1>1. /\ n \in Nat /\ a \in [0 .. n + 1 -> Addr] /\ a[0] = l /\ a[n + 1] = l
      /\ \A i \in 1 .. n : a[i] \in Node
      /\ \A i, k \in 1 .. n : a[i] = a[k] => i = k
      /\ \A i \in 0 .. n : next[a[i]] = a[i + 1] /\ prev[a[i + 1]] = a[i]
  BY DEF Ring
<1>2. /\ \A i, k \in 0 .. n : a[i] = a[k] => i = k
      /\ \A i, k \in 1 .. n + 1 : a[i] = a[k] => i = k
  BY RingDistinct DEF Apart
<1>3. x \in Addr /\ x # l /\ \A i \in 0 .. n + 1 : a[i] # x /\ a[i] \in Addr
  <2>1. x \in Addr /\ x # l
    BY AddrAssumption DEF Addr
  <2>2. \A i \in 0 .. n + 1 : i = 0 \/ i = n + 1 \/ i \in 1 .. n
    BY <1>1
  <2> QED BY <1>1, <2>1, <2>2
<1>4. /\ DOMAIN next = Addr /\ DOMAIN prev = Addr
  BY DEF Pointers
<1>5. /\ next2[x] = a[j + 1] /\ next2[a[j]] = x
      /\ \A i \in 0 .. n : i # j => next2[a[i]] = a[i + 1]
  BY <1>1, <1>2, <1>3, <1>4
<1>6. /\ prev2[x] = a[j] /\ prev2[a[j + 1]] = x
      /\ \A i \in 0 .. n : i # j => prev2[a[i + 1]] = a[i]
  <2>1. j + 1 \in 1 .. n + 1 /\ a[j + 1] # x /\ a[j + 1] \in Addr
    BY <1>1, <1>3
  <2>2. ASSUME NEW i \in 0 .. n, i # j PROVE prev2[a[i + 1]] = a[i]
    <3>1. i + 1 \in 1 .. n + 1 /\ i + 1 # j + 1 /\ a[i + 1] # x /\ a[i + 1] \in Addr
      BY <1>1, <1>3, <2>2
    <3>2. a[i + 1] # a[j + 1]
      BY <1>2, <2>1, <3>1
    <3> QED BY <1>1, <1>4, <3>1, <3>2
  <2> QED BY <1>3, <1>4, <2>1, <2>2
<1>7. /\ b \in [0 .. n + 2 -> Addr]
      /\ \A i \in 0 .. j : b[i] = a[i]
      /\ b[j + 1] = x
      /\ \A i \in j + 2 .. n + 2 : b[i] = a[i - 1]
  BY <1>1, <1>3 DEF WithNode
<1> HIDE DEF b
<1>8. b[0] = l /\ b[n + 2] = l
  <2>1. 0 \in 0 .. j /\ n + 2 \in j + 2 .. n + 2 /\ (n + 2) - 1 = n + 1
    BY <1>1
  <2> QED BY <1>1, <1>7, <2>1
<1>9. \A i \in 1 .. n + 1 : b[i] \in Node
  <2> TAKE i \in 1 .. n + 1
  <2>1. CASE i <= j
    BY <1>1, <1>7, <2>1
  <2>2. CASE i = j + 1
    BY <1>7, <2>2
  <2>3. CASE i > j + 1
    <3>1. i - 1 \in 1 .. n /\ i \in j + 2 .. n + 2
      BY <1>1, <2>3
    <3> QED BY <1>1, <1>7, <3>1
  <2> QED BY <1>1, <2>1, <2>2, <2>3
<1>10. \A i, k \in 1 .. n + 1 : b[i] = b[k] => i = k
  <2> DEFINE src(i) == IF i <= j THEN i ELSE i - 1
  <2>1. \A i \in 1 .. n + 1 : i # j + 1 => src(i) \in 1 .. n /\ b[i] = a[src(i)]
    BY <1>1, <1>7
  <2>2. \A i, k \in 1 .. n + 1 : i # j + 1 /\ k # j + 1 /\ src(i) = src(k) => i = k
    BY <1>1
  <2> HIDE DEF src
  <2> QED BY <1>1, <1>7, <2>1, <2>2
<1>11. ASSUME NEW i \in 0 .. n + 1 PROVE next2[b[i]] = b[i + 1] /\ prev2[b[i + 1]] = b[i]
  <2>1. CASE i < j
    <3>1. i \in 0 .. n /\ i # j /\ b[i] = a[i] /\ b[i + 1] = a[i + 1]
      BY <1>1, <1>7, <2>1
    <3> QED BY <1>5, <1>6, <3>1
  <2>2. CASE i = j
    BY <1>1, <1>5, <1>6, <1>7, <2>2
  <2>3. CASE i = j + 1
    <3>1. b[i] = x /\ b[i + 1] = a[j + 1]
      BY <1>1, <1>7, <2>3
    <3> QED BY <1>5, <1>6, <3>1
  <2>4. CASE i > j + 1
    <3>1. /\ i - 1 \in 0 .. n /\ i - 1 # j /\ i \in j + 2 .. n + 2 /\ i + 1 \in j + 2 .. n + 2
          /\ (i + 1) - 1 = i /\ (i - 1) + 1 = i
      BY <1>1, <2>4
    <3>2. b[i] = a[i - 1] /\ b[i + 1] = a[i]
      BY <1>7, <3>1
    <3>3. next2[a[i - 1]] = a[i] /\ prev2[a[i]] = a[i - 1]
      BY <1>5, <1>6, <3>1
    <3> QED BY <3>2, <3>3
  <2> QED BY <1>1, <2>1, <2>2, <2>3, <2>4
<1>12. Ring(next2, prev2, l, n + 1, b)
  <2>1. n + 1 \in Nat /\ (n + 1) + 1 = n + 2
    BY <1>1
  <2> QED BY <1>7, <1>8, <1>9, <1>10, <1>11, <2>1 DEF Ring
<1> QED BY <1>12 DEF b

\* Without address j.
WithoutNode(a, n, j) == [i \in 0 .. n |-> IF i < j THEN a[i] ELSE a[i + 1]]

\* Unlinking a node joins its neighbours.
LEMMA RingRemove ==
  ASSUME NEW next \in Pointers, NEW prev \in Pointers, NEW l \in List, NEW n, NEW a,
         Ring(next, prev, l, n, a), NEW j \in 1 .. n,
         NEW next2, next2 = [[next EXCEPT ![a[j - 1]] = a[j + 1]] EXCEPT ![a[j]] = NULL],
         NEW prev2, prev2 = [[prev EXCEPT ![a[j + 1]] = a[j - 1]] EXCEPT ![a[j]] = NULL]
  PROVE  Ring(next2, prev2, l, n - 1, WithoutNode(a, n, j))
<1> DEFINE b == WithoutNode(a, n, j)
<1>1. /\ n \in Nat /\ a \in [0 .. n + 1 -> Addr] /\ a[0] = l /\ a[n + 1] = l
      /\ \A i \in 1 .. n : a[i] \in Node
      /\ \A i, k \in 1 .. n : a[i] = a[k] => i = k
      /\ \A i \in 0 .. n : next[a[i]] = a[i + 1] /\ prev[a[i + 1]] = a[i]
  BY DEF Ring
<1>2. /\ \A i, k \in 0 .. n : a[i] = a[k] => i = k
      /\ \A i, k \in 1 .. n + 1 : a[i] = a[k] => i = k
  BY RingDistinct DEF Apart
<1>3. \A i \in 0 .. n + 1 : a[i] \in Addr
  BY <1>1
<1>4. DOMAIN next = Addr /\ DOMAIN prev = Addr
  BY DEF Pointers
<1>5. /\ next2[a[j - 1]] = a[j + 1]
      /\ \A i \in 0 .. n : i # j - 1 /\ i # j => next2[a[i]] = a[i + 1]
  <2>1. j - 1 \in 0 .. n /\ j - 1 # j /\ j \in 0 .. n
    BY <1>1
  <2>2. a[j - 1] # a[j] /\ a[j - 1] \in Addr
    BY <1>1, <1>2, <1>3, <2>1
  <2>3. ASSUME NEW i \in 0 .. n, i # j - 1, i # j PROVE next2[a[i]] = a[i + 1]
    <3>1. a[i] # a[j - 1] /\ a[i] # a[j] /\ a[i] \in Addr
      BY <1>1, <1>2, <1>3, <2>1, <2>3
    <3> QED BY <1>1, <1>4, <3>1
  <2> QED BY <1>4, <2>2, <2>3
<1>6. /\ prev2[a[j + 1]] = a[j - 1]
      /\ \A i \in 0 .. n : i # j - 1 /\ i # j => prev2[a[i + 1]] = a[i]
  <2>1. j + 1 \in 1 .. n + 1 /\ j \in 1 .. n + 1 /\ j + 1 # j
    BY <1>1
  <2>2. a[j + 1] # a[j] /\ a[j + 1] \in Addr
    BY <1>1, <1>2, <1>3, <2>1
  <2>3. ASSUME NEW i \in 0 .. n, i # j - 1, i # j PROVE prev2[a[i + 1]] = a[i]
    <3>1. i + 1 \in 1 .. n + 1 /\ i + 1 # j /\ i + 1 # j + 1
      BY <1>1, <2>3
    <3>2. a[i + 1] # a[j + 1] /\ a[i + 1] # a[j] /\ a[i + 1] \in Addr
      BY <1>1, <1>2, <1>3, <2>1, <3>1
    <3> QED BY <1>1, <1>4, <3>2
  <2> QED BY <1>4, <2>2, <2>3
<1>7. /\ b \in [0 .. n -> Addr]
      /\ \A i \in 0 .. j - 1 : b[i] = a[i]
      /\ \A i \in j .. n : b[i] = a[i + 1]
  BY <1>1, <1>3 DEF WithoutNode
<1> HIDE DEF b
<1>8. b[0] = l /\ b[n] = l
  <2>1. 0 \in 0 .. j - 1 /\ n \in j .. n
    BY <1>1
  <2> QED BY <1>1, <1>7, <2>1
<1> DEFINE src(i) == IF i < j THEN i ELSE i + 1
<1>9. \A i \in 1 .. n - 1 : src(i) \in 1 .. n /\ b[i] = a[src(i)]
  BY <1>1, <1>7
<1>10. \A i, k \in 1 .. n - 1 : src(i) = src(k) => i = k
  BY <1>1
<1> HIDE DEF src
<1>11. /\ \A i \in 1 .. n - 1 : b[i] \in Node
       /\ \A i, k \in 1 .. n - 1 : b[i] = b[k] => i = k
  <2>1. \A i \in 1 .. n : a[i] \in Node
    BY <1>1
  <2>2. \A i, k \in 1 .. n : a[i] = a[k] => i = k
    BY <1>1
  <2>3. ASSUME NEW i \in 1 .. n - 1, NEW k \in 1 .. n - 1, b[i] = b[k] PROVE i = k
    <3>1. a[src(i)] = a[src(k)] /\ src(i) \in 1 .. n /\ src(k) \in 1 .. n
      BY <1>9, <2>3
    <3> QED BY <1>10, <2>2, <3>1
  <2> QED BY <1>9, <2>1, <2>3
<1>12. ASSUME NEW i \in 0 .. n - 1 PROVE next2[b[i]] = b[i + 1] /\ prev2[b[i + 1]] = b[i]
  <2>1. CASE i < j - 1
    <3>1. i \in 0 .. n /\ i # j - 1 /\ i # j /\ i \in 0 .. j - 1 /\ i + 1 \in 0 .. j - 1
      BY <1>1, <2>1
    <3>2. b[i] = a[i] /\ b[i + 1] = a[i + 1]
      BY <1>7, <3>1
    <3> QED BY <1>5, <1>6, <3>1, <3>2
  <2>2. CASE i = j - 1
    <3>0. j - 1 \in 0 .. j - 1 /\ j \in j .. n /\ (j - 1) + 1 = j
      BY <1>1
    <3>1. b[i] = a[j - 1] /\ b[i + 1] = a[j + 1]
      BY <1>7, <2>2, <3>0
    <3> QED BY <1>5, <1>6, <3>1
  <2>3. CASE i > j - 1
    <3>1. /\ i + 1 \in 0 .. n /\ i + 1 # j - 1 /\ i + 1 # j
          /\ i \in j .. n /\ i + 1 \in j .. n
      BY <1>1, <2>3
    <3>2. b[i] = a[i + 1] /\ b[i + 1] = a[(i + 1) + 1]
      BY <1>7, <3>1
    <3> QED BY <1>5, <1>6, <3>1, <3>2
  <2> QED BY <1>1, <2>1, <2>2, <2>3
<1>13. Ring(next2, prev2, l, n - 1, b)
  <2>1. n - 1 \in Nat /\ (n - 1) + 1 = n
    BY <1>1
  <2> QED BY <1>7, <1>8, <1>11, <1>12, <2>1 DEF Ring
<1> QED BY <1>13 DEF b

\* Pointers of other addresses do not matter.
LEMMA RingFrame ==
  ASSUME NEW next, NEW prev, NEW l, NEW n, NEW a, Ring(next, prev, l, n, a),
         NEW next2, \A i \in 0 .. n : next2[a[i]] = next[a[i]],
         NEW prev2, \A i \in 0 .. n : prev2[a[i + 1]] = prev[a[i + 1]]
  PROVE  Ring(next2, prev2, l, n, a)
BY DEF Ring

-----------------------------------------------------------------------------
(* All rings.                                                              *)

\* The rings c of the lists L in the links h.
Rings(h, L, c) ==
  /\ \A l \in L : Ring(h.next, h.prev, l, h.size[l], c[l])
  /\ \A l, k \in L : l # k => \A i \in 1 .. h.size[l], j \in 1 .. h.size[k] : c[l][i] # c[k][j]
  /\ \A x \in Node : (\A l \in L : \A i \in 1 .. h.size[l] : c[l][i] # x) =>
                       h.next[x] = NULL /\ h.prev[x] = NULL

\* Address x is on the ring of l.
On(h, c, l, x) == \E i \in 1 .. h.size[l] : c[l][i] = x

\* A linked node has pointers.
LEMMA OnLinked ==
  ASSUME NEW h, NEW L \in SUBSET List, NEW c, Rings(h, L, c), NEW l \in L, NEW x, On(h, c, l, x)
  PROVE  h.next[x] # NULL /\ h.prev[x] # NULL /\ x \in Node
<1> DEFINE n == h.size[l]
           a == c[l]
<1>1. Ring(h.next, h.prev, l, n, a)
  BY DEF Rings
<1>2. PICK i \in 1 .. n : a[i] = x
  BY DEF On
<1> HIDE DEF n, a
<1>3. /\ n \in Nat /\ a \in [0 .. n + 1 -> Addr] /\ a[i] \in Node
      /\ \A k \in 0 .. n : h.next[a[k]] = a[k + 1] /\ h.prev[a[k + 1]] = a[k]
  BY <1>1 DEF Ring
<1>4. i \in 0 .. n /\ i - 1 \in 0 .. n /\ (i - 1) + 1 = i /\ i + 1 \in 0 .. n + 1 /\ i - 1 \in 0 .. n + 1
  BY <1>3
<1>5. h.next[x] = a[i + 1] /\ h.prev[x] = a[i - 1]
  BY <1>2, <1>3, <1>4
<1>6. a[i + 1] \in Addr /\ a[i - 1] \in Addr
  BY <1>3, <1>4
<1> QED BY <1>2, <1>3, <1>5, <1>6, AddrAssumption

\* The addresses of one ring are not those of another, nor a free node.
LEMMA RingsApart ==
  ASSUME NEW h, NEW L \in SUBSET List, NEW c, Rings(h, L, c), NEW l \in L, NEW k \in L, l # k,
         NEW i \in 0 .. h.size[l] + 1, NEW j \in 0 .. h.size[k] + 1
  PROVE  c[l][i] # c[k][j]
<1>1. Ring(h.next, h.prev, l, h.size[l], c[l]) /\ Ring(h.next, h.prev, k, h.size[k], c[k])
  BY DEF Rings
<1>2. l \notin Node /\ k \notin Node
  BY AddrAssumption
<1>3. /\ i \in 1 .. h.size[l] => c[l][i] \in Node
      /\ i \notin 1 .. h.size[l] => c[l][i] = l
  BY <1>1 DEF Ring
<1>4. /\ j \in 1 .. h.size[k] => c[k][j] \in Node
      /\ j \notin 1 .. h.size[k] => c[k][j] = k
  BY <1>1 DEF Ring
<1>5. i \in 1 .. h.size[l] /\ j \in 1 .. h.size[k] => c[l][i] # c[k][j]
  BY DEF Rings
<1> QED BY <1>2, <1>3, <1>4, <1>5

\* The links g differ from h in the ring of l only, which has n nodes numbered by
\* b, and in the pointers of the node x.
Changed(h, g, L, c, l, n, b, x) ==
  /\ Ring(g.next, g.prev, l, n, b)
  /\ g.size[l] = n
  /\ \A k \in L : k # l => g.size[k] = h.size[k]
  /\ \A y \in Addr : y # x /\ (\A i \in 0 .. h.size[l] + 1 : c[l][i] # y) =>
                       g.next[y] = h.next[y] /\ g.prev[y] = h.prev[y]

\* Then the other rings are still there.
LEMMA OthersKept ==
  ASSUME NEW h, NEW L \in SUBSET List, NEW c, Rings(h, L, c), NEW l \in L, NEW x \in Node,
         \A k \in L : k # l => ~On(h, c, k, x),
         NEW g, NEW n, NEW b, Changed(h, g, L, c, l, n, b, x), NEW k \in L, k # l
  PROVE  Ring(g.next, g.prev, k, g.size[k], c[k])
<1> DEFINE m == h.size[k]
           a == c[k]
<1>1. Ring(h.next, h.prev, k, m, a) /\ g.size[k] = m
  BY DEF Rings, Changed
<1>2. \A i \in 0 .. h.size[l] + 1, j \in 0 .. m + 1 : c[l][i] # a[j]
  BY RingsApart
<1>3. \A i \in 1 .. m : a[i] # x
  BY DEF On
<1> HIDE DEF m, a
<1>4. ASSUME NEW j \in 0 .. m + 1
      PROVE  g.next[a[j]] = h.next[a[j]] /\ g.prev[a[j]] = h.prev[a[j]]
  <2>1. a[j] \in Addr /\ (j \notin 1 .. m => a[j] = k)
    BY <1>1 DEF Ring
  <2>2. k \notin Node
    BY AddrAssumption
  <2>3. a[j] # x
    BY <1>3, <2>1, <2>2
  <2>4. \A i \in 0 .. h.size[l] + 1 : c[l][i] # a[j]
    BY <1>2
  <2> QED BY <2>1, <2>3, <2>4 DEF Changed
<1>5. m \in Nat
  BY <1>1 DEF Ring
<1>6. \A i \in 0 .. m : i \in 0 .. m + 1 /\ i + 1 \in 0 .. m + 1
  BY <1>5
<1>7. /\ \A i \in 0 .. m : g.next[a[i]] = h.next[a[i]]
      /\ \A i \in 0 .. m : g.prev[a[i + 1]] = h.prev[a[i + 1]]
  BY <1>4, <1>6
<1>8. Ring(g.next, g.prev, k, m, a)
  BY <1>1, <1>7, RingFrame
<1> QED BY <1>1, <1>8 DEF m, a

\* The rings c, but with ring b for list l.
WithRing(c, L, l, b) == [k \in L |-> IF k = l THEN b ELSE c[k]]

\* The new ring b of l has the nodes it had, with x or without it, and x has no
\* pointers when it is not there.
NodesKept(h, g, c, l, n, b, x) ==
  /\ \A i \in 1 .. n : b[i] = x \/ On(h, c, l, b[i])
  /\ \A y \in Node : y # x /\ On(h, c, l, y) => \E i \in 1 .. n : b[i] = y
  /\ (\A i \in 1 .. n : b[i] # x) => g.next[x] = NULL /\ g.prev[x] = NULL

\* Then all rings are well again.
LEMMA ChangedRings ==
  ASSUME NEW h, NEW L \in SUBSET List, NEW c, Rings(h, L, c), NEW l \in L, NEW x \in Node,
         \A k \in L : k # l => ~On(h, c, k, x),
         NEW g, NEW n, NEW b, Changed(h, g, L, c, l, n, b, x),
         NodesKept(h, g, c, l, n, b, x)
  PROVE  Rings(g, L, WithRing(c, L, l, b))
<1> DEFINE d == WithRing(c, L, l, b)
<1>1. d[l] = b /\ \A k \in L : k # l => d[k] = c[k]
  BY DEF WithRing
<1>2. g.size[l] = n /\ \A k \in L : k # l => g.size[k] = h.size[k]
  BY DEF Changed
<1>0. /\ \A i \in 1 .. n : b[i] = x \/ On(h, c, l, b[i])
      /\ \A y \in Node : y # x /\ On(h, c, l, y) => \E i \in 1 .. n : b[i] = y
      /\ (\A i \in 1 .. n : b[i] # x) => g.next[x] = NULL /\ g.prev[x] = NULL
  BY DEF NodesKept
<1> HIDE DEF d
<1>3. ASSUME NEW k \in L PROVE Ring(g.next, g.prev, k, g.size[k], d[k])
  <2>1. CASE k = l
    BY <1>1, <1>2, <2>1 DEF Changed
  <2>2. CASE k # l
    <3>1. Ring(g.next, g.prev, k, g.size[k], c[k])
      BY <2>2, OthersKept, Zenon
    <3> QED BY <1>1, <2>2, <3>1
  <2> QED BY <2>1, <2>2
<1>4. ASSUME NEW k \in L, k # l, NEW i \in 1 .. n, NEW j \in 1 .. h.size[k] PROVE b[i] # c[k][j]
  <2>1. CASE b[i] = x
    BY <1>4, <2>1 DEF On
  <2>2. CASE On(h, c, l, b[i])
    BY <1>4, <2>2 DEF On, Rings
  <2> QED BY <1>0, <2>1, <2>2
<1>5. ASSUME NEW k \in L, NEW m \in L, k # m, NEW i \in 1 .. g.size[k], NEW j \in 1 .. g.size[m]
      PROVE  d[k][i] # d[m][j]
  <2>1. CASE k = l
    BY <1>1, <1>2, <1>4, <1>5, <2>1
  <2>2. CASE m = l
    BY <1>1, <1>2, <1>4, <1>5, <2>2
  <2>3. CASE k # l /\ m # l
    BY <1>1, <1>2, <1>5, <2>3 DEF Rings
  <2> QED BY <2>1, <2>2, <2>3
<1>6. ASSUME NEW y \in Node, \A k \in L : \A i \in 1 .. g.size[k] : d[k][i] # y
      PROVE  g.next[y] = NULL /\ g.prev[y] = NULL
  <2>1. \A i \in 1 .. n : b[i] # y
    BY <1>1, <1>2, <1>6
  <2>2. CASE y = x
    BY <1>0, <2>1, <2>2
  <2>3. CASE y # x
    <3>1. ~On(h, c, l, y)
      BY <1>0, <2>1, <2>3
    <3>2. \A k \in L : ~On(h, c, k, y)
      BY <1>1, <1>2, <1>6, <3>1 DEF On
    <3>3. h.next[y] = NULL /\ h.prev[y] = NULL
      BY <3>2 DEF Rings, On
    <3>4. Ring(h.next, h.prev, l, h.size[l], c[l])
      BY DEF Rings
    <3>5. \A i \in 0 .. h.size[l] + 1 : i \in 1 .. h.size[l] \/ c[l][i] = l
      BY <3>4 DEF Ring
    <3>6. l # y /\ y \in Addr
      BY AddrAssumption DEF Addr
    <3>7. \A i \in 0 .. h.size[l] + 1 : c[l][i] # y
      BY <3>1, <3>5, <3>6 DEF On
    <3> QED BY <2>3, <3>3, <3>6, <3>7 DEF Changed
  <2> QED BY <2>2, <2>3
<1>7. Rings(g, L, d)
  BY <1>3, <1>5, <1>6 DEF Rings
<1> QED BY <1>7 DEF d
-----------------------------------------------------------------------------
(* The operations.                                                         *)

\* What a push does to the three fields, in neighbours p and q of the new node x.
Added(h, l, x, p, q) == [list_add(h, x, p, q) EXCEPT !.size[l] = @ + 1]

IsAdded(g, h, l, x, p, q) ==
  /\ g \in Links
  /\ g.next = [[h.next EXCEPT ![x] = q] EXCEPT ![p] = x]
  /\ g.prev = [[h.prev EXCEPT ![q] = x] EXCEPT ![x] = p]
  /\ g.size = [h.size EXCEPT ![l] = h.size[l] + 1]

LEMMA AddFields ==
  ASSUME NEW h \in Links, NEW l \in List, NEW x \in Addr, NEW p \in Addr, NEW q \in Addr
  PROVE  IsAdded(Added(h, l, x, p, q), h, l, x, p, q)
<1> DEFINE g == Added(h, l, x, p, q)
<1>1. /\ h.next \in Pointers /\ h.prev \in Pointers /\ h.size \in [List -> Nat]
      /\ h = [next |-> h.next, prev |-> h.prev, size |-> h.size]
  BY DEF Links
<1>2. list_add(h, x, p, q) = [next |-> [[h.next EXCEPT ![x] = q] EXCEPT ![p] = x],
                              prev |-> [[h.prev EXCEPT ![q] = x] EXCEPT ![x] = p],
                              size |-> h.size]
  <2> DEFINE h1 == [h EXCEPT !.prev[q] = x]
             h2 == [h1 EXCEPT !.next[x] = q]
             h3 == [h2 EXCEPT !.prev[x] = p]
             h4 == [h3 EXCEPT !.next[p] = x]
  <2>1. h1 = [next |-> h.next, prev |-> [h.prev EXCEPT ![q] = x], size |-> h.size]
    BY <1>1
  <2>2. list_add(h, x, p, q) = h4
    BY DEF list_add
  <2> HIDE DEF h1
  <2>3. h2 = [next |-> [h.next EXCEPT ![x] = q], prev |-> [h.prev EXCEPT ![q] = x], size |-> h.size]
    BY <2>1
  <2> HIDE DEF h2
  <2>4. h3 = [next |-> [h.next EXCEPT ![x] = q],
              prev |-> [[h.prev EXCEPT ![q] = x] EXCEPT ![x] = p], size |-> h.size]
    BY <2>3
  <2> HIDE DEF h3
  <2> QED BY <2>2, <2>4
<1>3. g = [next |-> [[h.next EXCEPT ![x] = q] EXCEPT ![p] = x],
           prev |-> [[h.prev EXCEPT ![q] = x] EXCEPT ![x] = p],
           size |-> [h.size EXCEPT ![l] = h.size[l] + 1]]
  BY <1>2 DEF Added
<1>4. h.size[l] + 1 \in Nat
  BY <1>1
<1> HIDE DEF g
<1>5. IsAdded(g, h, l, x, p, q)
  BY <1>1, <1>3, <1>4 DEF IsAdded, Links, Pointers
<1> QED BY <1>5 DEF g

\* What a removal does to them.
IsRemoved(g, h, l, x, p, q) ==
  /\ g \in Links
  /\ g.next = [[h.next EXCEPT ![p] = q] EXCEPT ![x] = NULL]
  /\ g.prev = [[h.prev EXCEPT ![q] = p] EXCEPT ![x] = NULL]
  /\ g.size = [h.size EXCEPT ![l] = h.size[l] - 1]

LEMMA RemoveFields ==
  ASSUME NEW h \in Links, NEW l \in List, NEW x \in Addr, ~RemoveRefused(h, l, x),
         NEW p \in Addr, p = h.prev[x], p # x, NEW q \in Addr, q = h.next[x], q # x
  PROVE  IsRemoved(list_remove_node(h, l, x), h, l, x, p, q)
<1> DEFINE g == list_remove_node(h, l, x)
           h1 == [h EXCEPT !.next[h.prev[x]] = h.next[x]]
           h2 == [h1 EXCEPT !.prev[h1.next[x]] = h1.prev[x]]
<1>1. /\ h.next \in Pointers /\ h.prev \in Pointers /\ h.size \in [List -> Nat]
      /\ h = [next |-> h.next, prev |-> h.prev, size |-> h.size]
  BY DEF Links
<1>2. h1 = [next |-> [h.next EXCEPT ![p] = q], prev |-> h.prev, size |-> h.size]
  BY <1>1
<1>3. h1.next[x] = q /\ h1.prev[x] = p
  BY <1>1, <1>2 DEF Pointers
<1> HIDE DEF h1
<1>4. h2 = [next |-> [h.next EXCEPT ![p] = q], prev |-> [h.prev EXCEPT ![q] = p], size |-> h.size]
  BY <1>2, <1>3
<1>5. g = [h2 EXCEPT !.next[x] = NULL, !.prev[x] = NULL, !.size[l] = @ - 1]
  BY DEF list_remove_node, h1
<1> HIDE DEF h2
<1>6. g = [next |-> [[h.next EXCEPT ![p] = q] EXCEPT ![x] = NULL],
           prev |-> [[h.prev EXCEPT ![q] = p] EXCEPT ![x] = NULL],
           size |-> [h.size EXCEPT ![l] = h.size[l] - 1]]
  BY <1>4, <1>5
<1>7. h.size[l] - 1 \in Nat
  BY <1>1 DEF RemoveRefused
<1> HIDE DEF g
<1>8. IsRemoved(g, h, l, x, p, q)
  BY <1>1, <1>6, <1>7 DEF IsRemoved, Links, Pointers
<1> QED BY <1>8 DEF g

\* The links g, in which list l has n nodes numbered by b and the others theirs.
Rewritten(h, L, c, l, n, b, g) ==
  /\ g \in Links
  /\ g.size[l] = n
  /\ \A k \in L : k # l => g.size[k] = h.size[k]
  /\ Rings(g, L, WithRing(c, L, l, b))

\* A free node can be linked in anywhere on a ring.
LEMMA PushRings ==
  ASSUME NEW h \in Links, NEW L \in SUBSET List, NEW c, Rings(h, L, c), NEW l \in L,
         NEW x \in Node, h.next[x] = NULL, NEW j \in 0 .. h.size[l],
         NEW g, g = Added(h, l, x, c[l][j], c[l][j + 1])
  PROVE  Rewritten(h, L, c, l, h.size[l] + 1, WithNode(c[l], h.size[l], j, x), g)
<1> DEFINE n == h.size[l]
           a == c[l]
           b == WithNode(a, n, j, x)
<1>1. Ring(h.next, h.prev, l, n, a) /\ n \in Nat /\ j \in 0 .. n
  BY DEF Rings, Ring
<1>2. \A k \in L : ~On(h, c, k, x)
  BY OnLinked
<1>3. \A i \in 1 .. n : a[i] # x
  BY <1>2 DEF On
<1>4. a \in [0 .. n + 1 -> Addr]
  BY <1>1 DEF Ring
<1>5. g = Added(h, l, x, a[j], a[j + 1])
  OBVIOUS
<1>6. h.next \in Pointers /\ h.prev \in Pointers /\ h.size \in [List -> Nat] /\ l \in List
  BY DEF Links
<1>7. On(h, c, l, x) = \E i \in 1 .. n : a[i] = x
  BY DEF On
<1>8. \A y : On(h, c, l, y) <=> \E i \in 1 .. n : a[i] = y
  BY DEF On
<1> HIDE DEF n, a
<1>9. x \in Addr /\ a[j] \in Addr /\ a[j + 1] \in Addr
  BY <1>1, <1>4 DEF Addr
<1>10. /\ g \in Links
       /\ g.next = [[h.next EXCEPT ![x] = a[j + 1]] EXCEPT ![a[j]] = x]
       /\ g.prev = [[h.prev EXCEPT ![a[j + 1]] = x] EXCEPT ![x] = a[j]]
       /\ g.size = [h.size EXCEPT ![l] = h.size[l] + 1]
  <2>1. IsAdded(g, h, l, x, a[j], a[j + 1])
    BY <1>5, <1>6, <1>9, AddFields, Zenon
  <2> QED BY <2>1 DEF IsAdded
<1>11. Ring(g.next, g.prev, l, n + 1, b)
  BY <1>1, <1>3, <1>6, <1>10, RingInsert
<1>12. g.size[l] = n + 1 /\ \A k \in L : k # l => g.size[k] = h.size[k]
  BY <1>6, <1>10 DEF n
<1>13. \A y \in Addr : y # x /\ (\A i \in 0 .. n + 1 : a[i] # y) =>
                         g.next[y] = h.next[y] /\ g.prev[y] = h.prev[y]
  <2> TAKE y \in Addr
  <2> HAVE y # x /\ (\A i \in 0 .. n + 1 : a[i] # y)
  <2>1. j \in 0 .. n + 1 /\ j + 1 \in 0 .. n + 1
    BY <1>1
  <2>2. y # a[j] /\ y # a[j + 1]
    BY <2>1
  <2> QED BY <1>6, <1>10, <2>2 DEF Pointers
<1>14. Changed(h, g, L, c, l, n + 1, b, x)
  BY <1>11, <1>12, <1>13 DEF Changed, n, a
<1>15. /\ b[j + 1] = x /\ \A i \in 1 .. j : b[i] = a[i]
       /\ \A i \in j + 2 .. n + 1 : b[i] = a[i - 1]
       /\ \A i \in j + 1 .. n : b[i + 1] = a[i]
  <2>1. b = [i \in 0 .. n + 2 |-> IF i <= j THEN a[i] ELSE IF i = j + 1 THEN x ELSE a[i - 1]]
    BY DEF WithNode
  <2>2. \A i \in j + 1 .. n : i + 1 \in 0 .. n + 2 /\ ~(i + 1 <= j) /\ i + 1 # j + 1 /\ (i + 1) - 1 = i
    BY <1>1
  <2> QED BY <1>1, <2>1, <2>2
<1> HIDE DEF b
<1>16. \A i \in 1 .. n + 1 : b[i] = x \/ On(h, c, l, b[i])
  <2> TAKE i \in 1 .. n + 1
  <2>1. CASE i <= j
    BY <1>1, <1>8, <1>15, <2>1
  <2>2. CASE i = j + 1
    BY <1>15, <2>2
  <2>3. CASE i > j + 1
    <3>1. i \in j + 2 .. n + 1 /\ i - 1 \in 1 .. n
      BY <1>1, <2>3
    <3> QED BY <1>8, <1>15, <3>1
  <2> QED BY <1>1, <2>1, <2>2, <2>3
<1>17. \A y \in Node : y # x /\ On(h, c, l, y) => \E i \in 1 .. n + 1 : b[i] = y
  <2> TAKE y \in Node
  <2> HAVE y # x /\ On(h, c, l, y)
  <2>1. PICK i \in 1 .. n : a[i] = y
    BY <1>8
  <2>2. CASE i <= j
    <3>1. i \in 1 .. j /\ i \in 1 .. n + 1
      BY <1>1, <2>2
    <3> QED BY <1>15, <2>1, <3>1
  <2>3. CASE i > j
    <3>1. i \in j + 1 .. n /\ i + 1 \in 1 .. n + 1
      BY <1>1, <2>3
    <3> QED BY <1>15, <2>1, <3>1
  <2> QED BY <1>1, <2>2, <2>3
<1>18. ~(\A i \in 1 .. n + 1 : b[i] # x)
  <2>1. j + 1 \in 1 .. n + 1
    BY <1>1
  <2> QED BY <1>15, <2>1
<1>19. Rings(g, L, WithRing(c, L, l, b))
  <2>1. NodesKept(h, g, c, l, n + 1, b, x)
    BY <1>16, <1>17, <1>18 DEF NodesKept
  <2> QED BY <1>2, <1>14, <2>1, ChangedRings, Zenon
<1> QED BY <1>10, <1>12, <1>19 DEF Rewritten, n, a, b

\* A node can be taken out anywhere on its ring.
LEMMA RemoveRings ==
  ASSUME NEW h \in Links, NEW L \in SUBSET List, NEW c, Rings(h, L, c), NEW l \in L,
         NEW j \in 1 .. h.size[l], NEW g, g = list_remove_node(h, l, c[l][j])
  PROVE  Rewritten(h, L, c, l, h.size[l] - 1, WithoutNode(c[l], h.size[l], j), g)
<1> DEFINE n == h.size[l]
           a == c[l]
           x == a[j]
           b == WithoutNode(a, n, j)
<1>1. Ring(h.next, h.prev, l, n, a) /\ n \in Nat /\ j \in 1 .. n
  BY DEF Rings, Ring
<1>2. \A y : On(h, c, l, y) <=> \E i \in 1 .. n : a[i] = y
  BY DEF On
<1>3. \A k \in L : k # l => ~On(h, c, k, x)
  BY DEF On, Rings
<1>4. /\ a \in [0 .. n + 1 -> Addr] /\ x \in Node
      /\ \A i \in 0 .. n : h.next[a[i]] = a[i + 1] /\ h.prev[a[i + 1]] = a[i]
      /\ \A i, k \in 1 .. n : a[i] = a[k] => i = k
  BY <1>1 DEF Ring
<1>5. h.next \in Pointers /\ h.prev \in Pointers /\ h.size \in [List -> Nat] /\ l \in List
  BY DEF Links
<1>6. n # 0 /\ x # l /\ ~RemoveRefused(h, l, x)
  <2>1. n # 0
    BY <1>1
  <2>2. x # l
    BY <1>4, AddrAssumption
  <2> QED BY <2>1, <2>2 DEF RemoveRefused
<1>7. g = list_remove_node(h, l, x)
  OBVIOUS
<1> HIDE DEF n, a
<1>8. /\ j - 1 \in 0 .. n /\ j \in 0 .. n /\ j + 1 \in 1 .. n + 1 /\ j \in 1 .. n + 1
      /\ j - 1 \in 0 .. n + 1 /\ j + 1 \in 0 .. n + 1 /\ (j - 1) + 1 = j /\ j - 1 # j /\ j + 1 # j
  BY <1>1
<1>9. /\ \A i, k \in 0 .. n : a[i] = a[k] => i = k
      /\ \A i, k \in 1 .. n + 1 : a[i] = a[k] => i = k
  <2>1. Apart(a, n)
    BY <1>1, <1>5, RingDistinct, Zenon
  <2> QED BY <2>1 DEF Apart
<1>10. a[j - 1] # x /\ a[j + 1] # x /\ h.prev[x] = a[j - 1] /\ h.next[x] = a[j + 1]
  <2>1. a[j - 1] # a[j]
    BY <1>8, <1>9
  <2>2. a[j + 1] # a[j]
    BY <1>8, <1>9
  <2> QED BY <1>4, <1>8, <2>1, <2>2
<1>11. x \in Addr /\ a[j - 1] \in Addr /\ a[j + 1] \in Addr
  BY <1>4, <1>8 DEF Addr
<1>12. /\ g \in Links
       /\ g.next = [[h.next EXCEPT ![a[j - 1]] = a[j + 1]] EXCEPT ![a[j]] = NULL]
       /\ g.prev = [[h.prev EXCEPT ![a[j + 1]] = a[j - 1]] EXCEPT ![a[j]] = NULL]
       /\ g.size = [h.size EXCEPT ![l] = h.size[l] - 1]
  <2>1. IsRemoved(g, h, l, x, a[j - 1], a[j + 1])
    BY <1>5, <1>6, <1>7, <1>10, <1>11, RemoveFields, Zenon
  <2> QED BY <2>1 DEF IsRemoved
<1>13. Ring(g.next, g.prev, l, n - 1, b)
  BY <1>1, <1>5, <1>12, RingRemove, Zenon
<1>14. g.size[l] = n - 1 /\ \A k \in L : k # l => g.size[k] = h.size[k]
  BY <1>5, <1>12 DEF n
<1>15. \A y \in Addr : y # x /\ (\A i \in 0 .. n + 1 : a[i] # y) =>
                         g.next[y] = h.next[y] /\ g.prev[y] = h.prev[y]
  <2> TAKE y \in Addr
  <2> HAVE y # x /\ (\A i \in 0 .. n + 1 : a[i] # y)
  <2>1. y # a[j - 1] /\ y # a[j + 1] /\ y # a[j]
    BY <1>8
  <2> QED BY <1>5, <1>12, <2>1 DEF Pointers
<1>16. Changed(h, g, L, c, l, n - 1, b, x)
  BY <1>13, <1>14, <1>15 DEF Changed, n, a
<1>17. /\ \A i \in 1 .. j - 1 : b[i] = a[i]
       /\ \A i \in j .. n - 1 : b[i] = a[i + 1]
       /\ \A i \in j + 1 .. n : b[i - 1] = a[i]
  <2>1. b = [i \in 0 .. n |-> IF i < j THEN a[i] ELSE a[i + 1]]
    BY DEF WithoutNode
  <2>2. \A i \in j + 1 .. n : i - 1 \in 0 .. n /\ ~(i - 1 < j) /\ (i - 1) + 1 = i
    BY <1>1
  <2> QED BY <1>1, <2>1, <2>2
<1>18. g.next[x] = NULL /\ g.prev[x] = NULL
  BY <1>5, <1>11, <1>12 DEF Pointers
<1> HIDE DEF b
<1>19. \A i \in 1 .. n - 1 : b[i] = x \/ On(h, c, l, b[i])
  <2> TAKE i \in 1 .. n - 1
  <2>1. CASE i < j
    <3>1. i \in 1 .. j - 1 /\ i \in 1 .. n
      BY <1>1, <2>1
    <3> QED BY <1>2, <1>17, <3>1
  <2>2. CASE i >= j
    <3>1. i \in j .. n - 1 /\ i + 1 \in 1 .. n
      BY <1>1, <2>2
    <3> QED BY <1>2, <1>17, <3>1
  <2> QED BY <1>1, <2>1, <2>2
<1>20. \A y \in Node : y # x /\ On(h, c, l, y) => \E i \in 1 .. n - 1 : b[i] = y
  <2> TAKE y \in Node
  <2> HAVE y # x /\ On(h, c, l, y)
  <2>1. PICK i \in 1 .. n : a[i] = y
    BY <1>2
  <2>2. CASE i < j
    <3>1. i \in 1 .. j - 1 /\ i \in 1 .. n - 1
      BY <1>1, <2>2
    <3> QED BY <1>17, <2>1, <3>1
  <2>3. CASE i > j
    <3>1. i \in j + 1 .. n /\ i - 1 \in 1 .. n - 1
      BY <1>1, <2>3
    <3> QED BY <1>17, <2>1, <3>1
  <2>4. i # j
    BY <2>1
  <2> QED BY <1>1, <2>2, <2>3, <2>4
<1>21. Rings(g, L, WithRing(c, L, l, b))
  <2>1. x \in Node
    BY <1>4
  <2> HIDE DEF x
  <2>2. NodesKept(h, g, c, l, n - 1, b, x)
    BY <1>18, <1>19, <1>20 DEF NodesKept
  <2> QED BY <1>3, <1>16, <2>1, <2>2, ChangedRings, Zenon
<1> QED BY <1>12, <1>14, <1>21 DEF Rewritten, n, a, b

\* The ring of an empty list.
NewRing(l) == [i \in 0 .. 1 |-> l]

\* The links g have a new ring, that of l.
Started(h, L, c, l, g) ==
  /\ g \in Links /\ g.size[l] = 0
  /\ \A k \in L : g.size[k] = h.size[k]
  /\ Rings(g, L \cup {l}, WithRing(c, L \cup {l}, l, NewRing(l)))

\* list_init adds a ring.
LEMMA InitRings ==
  ASSUME NEW h \in Links, NEW L \in SUBSET List, NEW c, Rings(h, L, c), NEW l \in List, l \notin L,
         NEW g, g = list_init(h, l)
  PROVE  Started(h, L, c, l, g)
<1> DEFINE M == L \cup {l}
           d == WithRing(c, M, l, NewRing(l))
<1>1. /\ h.next \in Pointers /\ h.prev \in Pointers /\ h.size \in [List -> Nat]
      /\ h = [next |-> h.next, prev |-> h.prev, size |-> h.size]
  BY DEF Links
<1>2. g = [next |-> [h.next EXCEPT ![l] = l], prev |-> [h.prev EXCEPT ![l] = l],
           size |-> [h.size EXCEPT ![l] = 0]]
  BY <1>1 DEF list_init
<1>3. l \in Addr
  BY DEF Addr
<1>4. g \in Links
  BY <1>1, <1>2, <1>3 DEF Links, Pointers
<1>5. /\ g.next[l] = l /\ g.prev[l] = l /\ g.size[l] = 0
      /\ \A y \in Addr : y # l => g.next[y] = h.next[y] /\ g.prev[y] = h.prev[y]
      /\ \A k \in L : g.size[k] = h.size[k]
  BY <1>1, <1>2, <1>3 DEF Pointers
<1>6. d[l] = NewRing(l) /\ \A k \in L : d[k] = c[k]
  BY DEF WithRing
<1> HIDE DEF d
<1>7. ASSUME NEW k \in L PROVE Ring(g.next, g.prev, k, g.size[k], d[k])
  <2> DEFINE n == h.size[k]
             a == c[k]
  <2>1. Ring(h.next, h.prev, k, n, a) /\ g.size[k] = n /\ d[k] = a
    BY <1>5, <1>6 DEF Rings
  <2> HIDE DEF n, a
  <2>2. n \in Nat /\ \A i \in 0 .. n + 1 : a[i] \in Addr /\ (i \in 1 .. n => a[i] \in Node)
        /\ a[0] = k /\ a[n + 1] = k
    BY <2>1 DEF Ring
  <2>3. l \notin Node /\ k # l
    BY AddrAssumption
  <2>4. \A i \in 0 .. n + 1 : i = 0 \/ i = n + 1 \/ i \in 1 .. n
    BY <2>2
  <2>5. \A i \in 0 .. n + 1 : a[i] # l
    BY <2>2, <2>3, <2>4
  <2>6. \A i \in 0 .. n : i \in 0 .. n + 1 /\ i + 1 \in 0 .. n + 1
    BY <2>2
  <2>7. /\ \A i \in 0 .. n : g.next[a[i]] = h.next[a[i]]
        /\ \A i \in 0 .. n : g.prev[a[i + 1]] = h.prev[a[i + 1]]
    BY <1>5, <2>2, <2>5, <2>6
  <2>8. Ring(g.next, g.prev, k, n, a)
    BY <2>1, <2>7, RingFrame
  <2> QED BY <2>1, <2>8
<1>8. Ring(g.next, g.prev, l, g.size[l], d[l])
  <2> DEFINE a == NewRing(l)
  <2>1. a \in [0 .. 0 + 1 -> Addr] /\ a[0] = l /\ a[0 + 1] = l
    BY <1>3 DEF NewRing
  <2>2. (\A i \in 1 .. 0 : FALSE) /\ (\A i \in 0 .. 0 : i = 0)
    OBVIOUS
  <2> HIDE DEF a
  <2>3. Ring(g.next, g.prev, l, 0, a)
    BY <1>5, <2>1, <2>2 DEF Ring
  <2> QED BY <1>5, <1>6, <2>3 DEF a
<1>9. \A k \in M : Ring(g.next, g.prev, k, g.size[k], d[k])
  BY <1>7, <1>8
<1>10. ASSUME NEW k \in M, NEW m \in M, k # m, NEW i \in 1 .. g.size[k], NEW j \in 1 .. g.size[m]
       PROVE  d[k][i] # d[m][j]
  <2>1. k \in L /\ m \in L
    BY <1>5
  <2> QED BY <1>5, <1>6, <1>10, <2>1 DEF Rings
<1>11. ASSUME NEW y \in Node, \A k \in M : \A i \in 1 .. g.size[k] : d[k][i] # y
       PROVE  g.next[y] = NULL /\ g.prev[y] = NULL
  <2>1. \A k \in L : \A i \in 1 .. h.size[k] : c[k][i] # y
    BY <1>5, <1>6, <1>11
  <2>2. y \in Addr /\ y # l
    BY AddrAssumption DEF Addr
  <2> QED BY <1>5, <2>1, <2>2 DEF Rings
<1> HIDE DEF M
<1>12. Rings(g, M, d)
  BY <1>9, <1>10, <1>11 DEF Rings
<1> QED BY <1>4, <1>5, <1>12 DEF Started, M, d

\* A list without nodes can be given up.
LEMMA FreeRings ==
  ASSUME NEW h, NEW L \in SUBSET List, NEW c, Rings(h, L, c), NEW l \in L, h.size[l] = 0
  PROVE  Rings(h, L \ {l}, c)
<1>1. ASSUME NEW x \in Node, \A k \in L \ {l} : \A i \in 1 .. h.size[k] : c[k][i] # x
      PROVE  \A k \in L : \A i \in 1 .. h.size[k] : c[k][i] # x
  BY <1>1
<1> QED BY <1>1 DEF Rings

\* The ends of a ring are the neighbours of the root.
LEMMA RingEnds ==
  ASSUME NEW h, NEW L, NEW c, Rings(h, L, c), NEW l \in L
  PROVE  /\ h.size[l] \in Nat
         /\ c[l][0] = l /\ c[l][h.size[l] + 1] = l
         /\ h.next[l] = c[l][1] /\ h.prev[l] = c[l][h.size[l]]
<1> DEFINE n == h.size[l]
           a == c[l]
<1>1. Ring(h.next, h.prev, l, n, a)
  BY DEF Rings
<1> HIDE DEF n, a
<1>2. /\ n \in Nat /\ a[0] = l /\ a[n + 1] = l
      /\ \A i \in 0 .. n : h.next[a[i]] = a[i + 1] /\ h.prev[a[i + 1]] = a[i]
  BY <1>1 DEF Ring
<1>3. 0 \in 0 .. n /\ n \in 0 .. n /\ 0 + 1 = 1
  BY <1>2
<1>4. h.next[l] = a[1] /\ h.prev[l] = a[n]
  BY <1>2, <1>3
<1> QED BY <1>2, <1>4 DEF n, a

\* The links after each of the first n pops of list_free.
DrainLoop(h, l, n, f) ==
  f = [k \in 0 .. n |-> IF k = 0 THEN h ELSE list_pop_head(f[k - 1], l)]

LEMMA DrainLoopRuns ==
  ASSUME NEW h, NEW l, NEW n \in Nat
  PROVE  \E f : DrainLoop(h, l, n, f)
<1> DEFINE S == {m \in Nat : \E f : DrainLoop(h, l, m, f)}
<1>1. 0 \in S
  <2>1. DrainLoop(h, l, 0, [k \in 0 .. 0 |-> h])
    BY DEF DrainLoop
  <2> QED BY <2>1
<1>2. ASSUME NEW m \in Nat, m \in S PROVE m + 1 \in S
  <2>1. PICK f : DrainLoop(h, l, m, f)
    BY <1>2
  <2> DEFINE e == list_pop_head(f[m], l)
             g == [k \in 0 .. m + 1 |-> IF k = m + 1 THEN e ELSE f[k]]
  <2>2. ASSUME NEW k \in 0 .. m + 1
        PROVE  g[k] = IF k = 0 THEN h ELSE list_pop_head(g[k - 1], l)
    <3>1. CASE k = m + 1
      <4>1. k - 1 = m /\ g[m] = f[m] /\ k # 0
        BY <3>1
      <4> QED BY <3>1, <4>1
    <3>2. CASE k # m + 1
      <4>1. k \in 0 .. m /\ g[k] = f[k] /\ (k # 0 => g[k - 1] = f[k - 1])
        BY <3>2
      <4> QED BY <2>1, <4>1 DEF DrainLoop
    <3> QED BY <3>1, <3>2
  <2>3. DrainLoop(h, l, m + 1, g)
    BY <2>2 DEF DrainLoop
  <2> QED BY <2>3
<1> HIDE DEF S
<1>3. Nat \subseteq S
  BY <1>1, <1>2, SetInduction
<1> QED BY <1>3 DEF S

LEMMA DrainUnfolds ==
  ASSUME NEW h, NEW l, h.size[l] \in Nat
  PROVE  \E f : DrainLoop(h, l, h.size[l], f) /\ Drained(h, l) = f[h.size[l]]
<1> DEFINE f == CHOOSE g : DrainLoop(h, l, h.size[l], g)
<1>1. \E g : DrainLoop(h, l, h.size[l], g)
  BY DrainLoopRuns
<1>2. DrainLoop(h, l, h.size[l], f)
  BY <1>1, Zenon
<1>3. Drained(h, l) = f[h.size[l]]
  BY Zenon DEF Drained, DrainLoop
<1> QED BY <1>2, <1>3

\* The links g after k pops.
Popped(h, L, c, l, k, g) ==
  /\ g \in Links
  /\ g.size[l] = h.size[l] - k
  /\ \A m \in L : m # l => g.size[m] = h.size[m]
  /\ \E d : Rings(g, L, d) /\ \A m \in L : m # l => d[m] = c[m]

\* list_free leaves the ring of l empty and the others as they were.
LEMMA DrainedRings ==
  ASSUME NEW h \in Links, NEW L \in SUBSET List, NEW c, Rings(h, L, c), NEW l \in L
  PROVE  Popped(h, L, c, l, h.size[l], Drained(h, l))
<1> DEFINE n == h.size[l]
<1>1. n \in Nat
  BY RingEnds
<1>2. PICK f : DrainLoop(h, l, n, f) /\ Drained(h, l) = f[n]
  BY <1>1, DrainUnfolds
<1> DEFINE S == {k \in Nat : k <= n => Popped(h, L, c, l, k, f[k])}
<1>3. f[0] = h /\ \A k \in 0 .. n - 1 : f[k + 1] = list_pop_head(f[k], l)
  <2>1. \A k \in 0 .. n - 1 : k + 1 \in 0 .. n /\ k + 1 # 0 /\ (k + 1) - 1 = k
    BY <1>1
  <2> QED BY <1>1, <1>2, <2>1 DEF DrainLoop
<1> HIDE DEF n
<1>4. 0 \in S
  <2>1. Popped(h, L, c, l, 0, h)
    BY <1>1 DEF Popped, n
  <2> QED BY <1>3, <2>1
<1>5. ASSUME NEW k \in Nat, k \in S PROVE k + 1 \in S
  <2> SUFFICES ASSUME k + 1 <= n PROVE Popped(h, L, c, l, k + 1, f[k + 1])
    OBVIOUS
  <2> DEFINE g == f[k]
             e == f[k + 1]
  <2>1. Popped(h, L, c, l, k, g) /\ e = list_pop_head(g, l)
    BY <1>1, <1>3, <1>5
  <2> HIDE DEF g, e
  <2>2. PICK d : Rings(g, L, d) /\ \A m \in L : m # l => d[m] = c[m]
    BY <2>1 DEF Popped
  <2>3. g \in Links /\ g.size[l] = n - k /\ \A m \in L : m # l => g.size[m] = h.size[m]
    BY <2>1 DEF Popped, n
  <2>4. 1 \in 1 .. g.size[l] /\ g.next[l] = d[l][1]
    BY <1>1, <2>2, <2>3, RingEnds
  <2>5. e = list_remove_node(g, l, d[l][1])
    BY <2>1, <2>4 DEF list_pop_head
  <2> DEFINE b == WithRing(d, L, l, WithoutNode(d[l], g.size[l], 1))
  <2>6. /\ e \in Links /\ e.size[l] = g.size[l] - 1
        /\ \A m \in L : m # l => e.size[m] = g.size[m]
        /\ Rings(e, L, b)
    <3>1. Rewritten(g, L, d, l, g.size[l] - 1, WithoutNode(d[l], g.size[l], 1), e)
      BY <2>2, <2>3, <2>4, <2>5, RemoveRings, Zenon
    <3> QED BY <3>1 DEF Rewritten
  <2>7. \A m \in L : m # l => b[m] = c[m]
    BY <2>2 DEF WithRing
  <2> HIDE DEF b
  <2>8. e.size[l] = n - (k + 1)
    BY <1>1, <2>3, <2>6
  <2>9. Popped(h, L, c, l, k + 1, e)
    BY <2>3, <2>6, <2>7, <2>8 DEF Popped, n
  <2> QED BY <2>9 DEF e
<1> HIDE DEF S
<1>6. Nat \subseteq S
  BY <1>4, <1>5, SetInduction
<1>7. n \in S
  BY <1>1, <1>6
<1> QED BY <1>1, <1>2, <1>7 DEF S, n

-----------------------------------------------------------------------------
(* Reading the lists back.                                                 *)

WalkLoop(step, l, n, f) == f = [k \in 0 .. n + 1 |-> IF k = 0 THEN l ELSE step[f[k - 1]]]

\* Address a[k] is k steps from l.
Steps(step, l, n, a) ==
  /\ n \in Nat /\ a \in [0 .. n + 1 -> Addr]
  /\ a[0] = l
  /\ \A k \in 0 .. n : step[a[k]] = a[k + 1]

\* A walk is determined by where it starts and by its steps.
LEMMA WalkIs ==
  ASSUME NEW h, NEW l, NEW step, NEW a, Steps(step, l, h.size[l], a)
  PROVE  Walk(h, step, l) = a
<1> DEFINE n == h.size[l]
           f == CHOOSE g : WalkLoop(step, l, n, g)
<1>0. /\ n \in Nat /\ a \in [0 .. n + 1 -> Addr] /\ a[0] = l
      /\ \A k \in 0 .. n : step[a[k]] = a[k + 1]
  BY DEF Steps
<1>1. WalkLoop(step, l, n, a)
  <2> DEFINE b == [k \in 0 .. n + 1 |-> IF k = 0 THEN l ELSE step[a[k - 1]]]
  <2>1. ASSUME NEW k \in 0 .. n + 1 PROVE a[k] = b[k]
    <3>1. CASE k = 0
      BY <1>0, <3>1
    <3>2. CASE k # 0
      <4>1. k - 1 \in 0 .. n /\ (k - 1) + 1 = k
        BY <1>0, <3>2
      <4>2. step[a[k - 1]] = a[k]
        BY <1>0, <4>1
      <4> QED BY <3>2, <4>2
    <3> QED BY <3>1, <3>2
  <2>2. a = b
    BY <1>0, <2>1
  <2> QED BY <2>2 DEF WalkLoop
<1>2. WalkLoop(step, l, n, f)
  BY <1>1, Zenon
<1>3. Walk(h, step, l) = f
  BY Zenon DEF Walk, WalkLoop
<1> HIDE DEF f, n
<1> DEFINE T == {k \in Nat : k <= n + 1 => f[k] = a[k]}
<1>4. 0 \in T
  BY <1>0, <1>2 DEF WalkLoop
<1>5. ASSUME NEW k \in Nat, k \in T PROVE k + 1 \in T
  <2> SUFFICES ASSUME k + 1 <= n + 1 PROVE f[k + 1] = a[k + 1]
    OBVIOUS
  <2>1. k + 1 \in 0 .. n + 1 /\ k + 1 # 0 /\ (k + 1) - 1 = k /\ k \in 0 .. n /\ k <= n + 1
    BY <1>0
  <2>2. f[k + 1] = step[f[k]]
    BY <1>0, <1>2, <2>1 DEF WalkLoop
  <2> QED BY <1>0, <1>5, <2>1, <2>2
<1> HIDE DEF T
<1>6. Nat \subseteq T
  BY <1>4, <1>5, SetInduction
<1>7. \A k \in 0 .. n + 1 : f[k] = a[k]
  BY <1>0, <1>6 DEF T
<1>8. DOMAIN f = 0 .. n + 1 /\ f = [k \in DOMAIN f |-> f[k]]
  BY <1>0, <1>2 DEF WalkLoop
<1>9. f = a
  BY <1>0, <1>7, <1>8
<1> QED BY <1>3, <1>9

\* The nodes of the ring of l.
Listed(h, c, l) == [i \in 1 .. h.size[l] |-> c[l][i]]

\* Read along the next pointers, a list has the nodes of its ring in their order,
\* and along the prev pointers in the reverse order.
LEMMA RingRead ==
  ASSUME NEW h, NEW L \in SUBSET List, NEW c, Rings(h, L, c), NEW l \in L
  PROVE  /\ Contents(h, l) = Listed(h, c, l)
         /\ IsRing(h, l)
<1> DEFINE n == h.size[l]
           a == c[l]
           b == [i \in 0 .. n + 1 |-> a[n + 1 - i]]
<1>1. Ring(h.next, h.prev, l, n, a)
  BY DEF Rings
<1>2. n = h.size[l] /\ Listed(h, c, l) = [i \in 1 .. n |-> a[i]]
  BY DEF Listed
<1> HIDE DEF n, a
<1>3. /\ n \in Nat /\ a \in [0 .. n + 1 -> Addr] /\ a[0] = l /\ a[n + 1] = l
      /\ \A i \in 1 .. n : a[i] \in Node
      /\ \A i \in 0 .. n : h.next[a[i]] = a[i + 1] /\ h.prev[a[i + 1]] = a[i]
  BY <1>1 DEF Ring
<1>4. Walk(h, h.next, l) = a
  <2>1. \A i \in 0 .. n : h.next[a[i]] = a[i + 1]
    BY <1>3
  <2>2. Steps(h.next, l, h.size[l], a)
    BY <1>2, <1>3, <2>1 DEF Steps
  <2> QED BY <2>2, WalkIs, Zenon
<1>5. Walk(h, h.prev, l) = b
  <2>1. \A i \in 0 .. n + 1 : n + 1 - i \in 0 .. n + 1
    BY <1>3
  <2>2. b \in [0 .. n + 1 -> Addr]
    BY <1>3, <2>1
  <2>3. b[0] = l
    <3>1. 0 \in 0 .. n + 1 /\ n + 1 - 0 = n + 1
      BY <1>3
    <3> QED BY <1>3, <3>1
  <2>4. ASSUME NEW k \in 0 .. n PROVE h.prev[b[k]] = b[k + 1]
    <3>1. /\ k \in 0 .. n + 1 /\ k + 1 \in 0 .. n + 1
          /\ n - k \in 0 .. n /\ n + 1 - k = (n - k) + 1 /\ n + 1 - (k + 1) = n - k
      BY <1>3
    <3>2. b[k] = a[(n - k) + 1] /\ b[k + 1] = a[n - k]
      BY <3>1
    <3> QED BY <1>3, <3>1, <3>2
  <2> HIDE DEF b
  <2>5. \A k \in 0 .. n : h.prev[b[k]] = b[k + 1]
    BY <2>4
  <2>6. Steps(h.prev, l, h.size[l], b)
    BY <1>2, <1>3, <2>2, <2>3, <2>5 DEF Steps
  <2> QED BY <2>6, WalkIs, Zenon
<1>6. Contents(h, l) = [i \in 1 .. n |-> a[i]]
  BY <1>4 DEF Contents, n
<1>7. \A i \in 0 .. n + 1 : b[i] = a[n + 1 - i]
  OBVIOUS
<1> HIDE DEF b
<1>8. IsRing(h, l)
  BY <1>2, <1>3, <1>4, <1>5, <1>7 DEF IsRing
<1> QED BY <1>2, <1>6, <1>8

\* The nodes of the ring of l, as a sequence s.
IsListed(h, c, l, s) ==
  /\ s \in Seq(Node) /\ Len(s) = h.size[l] /\ h.size[l] \in Nat
  /\ \A i \in 1 .. h.size[l] : s[i] = c[l][i]
  /\ Distinct(s)

\* The contents of a list are a sequence of its nodes, none twice.
LEMMA ContentsSeq ==
  ASSUME NEW h, NEW L \in SUBSET List, NEW c, Rings(h, L, c), NEW l \in L
  PROVE  IsListed(h, c, l, Contents(h, l))
<1> DEFINE n == h.size[l]
           a == c[l]
           s == Contents(h, l)
<1>1. s = Listed(h, c, l)
  BY RingRead
<1>2. s = [i \in 1 .. n |-> a[i]]
  BY <1>1 DEF Listed
<1>3. Ring(h.next, h.prev, l, n, a)
  BY DEF Rings
<1> HIDE DEF n, a, s
<1>4. n \in Nat /\ (\A i \in 1 .. n : a[i] \in Node) /\ (\A i, j \in 1 .. n : a[i] = a[j] => i = j)
  BY <1>3 DEF Ring
<1>5. s \in [1 .. n -> Node]
  BY <1>2, <1>4
<1>6. s \in Seq(Node) /\ Len(s) = n /\ \A i \in 1 .. n : s[i] = a[i]
  <2>1. s \in Seq(Node)
    BY <1>4, <1>5, SeqDef
  <2> QED BY <1>2, <1>4, <2>1
<1>7. Distinct(s)
  BY <1>2, <1>4 DEF Distinct
<1> QED BY <1>4, <1>6, <1>7 DEF IsListed, n, a, s

\* The links g are links in which list l reads s and the other lists of L what
\* they read in h.
Reads(h, L, l, s, g) ==
  /\ g \in Links
  /\ \E d : Rings(g, L, d)
  /\ Contents(g, l) = s
  /\ \A k \in L : k # l => Contents(g, k) = Contents(h, k)

\* What a list reads after its ring was rewritten.
LEMMA RewrittenReads ==
  ASSUME NEW h, NEW L \in SUBSET List, NEW c, Rings(h, L, c), NEW l \in L, NEW n, NEW b, NEW g,
         Rewritten(h, L, c, l, n, b, g), NEW s, s = [i \in 1 .. n |-> b[i]]
  PROVE  Reads(h, L, l, s, g)
<1> DEFINE d == WithRing(c, L, l, b)
<1>1. /\ g \in Links /\ g.size[l] = n /\ Rings(g, L, d)
      /\ \A k \in L : k # l => g.size[k] = h.size[k]
  BY DEF Rewritten
<1>2. d[l] = b /\ \A k \in L : k # l => d[k] = c[k]
  BY DEF WithRing
<1> HIDE DEF d
<1>3. \A k \in L : Contents(g, k) = Listed(g, d, k) /\ Contents(h, k) = Listed(h, c, k)
  BY <1>1, RingRead
<1>4. Contents(g, l) = s
  BY <1>1, <1>2, <1>3 DEF Listed
<1>5. \A k \in L : k # l => Contents(g, k) = Contents(h, k)
  BY <1>1, <1>2, <1>3 DEF Listed
<1> QED BY <1>1, <1>4, <1>5 DEF Reads

\* list_push_head
LEMMA PushHeadReads ==
  ASSUME NEW h \in Links, NEW L \in SUBSET List, NEW c, Rings(h, L, c), NEW l \in L,
         NEW x \in Node, h.next[x] = NULL
  PROVE  Reads(h, L, l, <<x>> \o Contents(h, l), list_push_head(h, l, x))
<1> DEFINE n == h.size[l]
           a == c[l]
           b == WithNode(a, n, 0, x)
           g == list_push_head(h, l, x)
           s == Contents(h, l)
           t == <<x>> \o s
<1>1. /\ n \in Nat /\ s \in Seq(Node) /\ Len(s) = n /\ \A i \in 1 .. n : s[i] = a[i]
      /\ a[0] = l /\ h.next[l] = a[1]
  <2>1. IsListed(h, c, l, s)
    BY ContentsSeq, Zenon
  <2>2. a[0] = l /\ h.next[l] = a[1]
    BY RingEnds
  <2> QED BY <2>1, <2>2 DEF IsListed
<1>2. g = Added(h, l, x, a[0], a[0 + 1])
  BY <1>1 DEF list_push_head, Added
<1>3. 0 \in 0 .. h.size[l]
  BY <1>1
<1>4. Rewritten(h, L, c, l, n + 1, b, g)
  BY <1>2, <1>3, PushRings, Zenon
<1>5. [i \in 1 .. n + 1 |-> b[i]] = t
  <2>1. b = [i \in 0 .. n + 2 |-> IF i <= 0 THEN a[i] ELSE IF i = 0 + 1 THEN x ELSE a[i - 1]]
    BY DEF WithNode
  <2> HIDE DEF n, a, b, s
  <2>2. <<x>> \in Seq(Node) /\ Len(<<x>>) = 1 /\ <<x>>[1] = x
    OBVIOUS
  <2>3. /\ t \in Seq(Node) /\ Len(t) = 1 + n
        /\ \A i \in 1 .. 1 + n : t[i] = IF i <= 1 THEN <<x>>[i] ELSE s[i - 1]
    BY <1>1, <2>2, ConcatProperties
  <2> HIDE DEF t
  <2>4. ASSUME NEW i \in 1 .. n + 1 PROVE b[i] = t[i]
    <3>1. CASE i = 1
      BY <1>1, <2>1, <2>2, <2>3, <3>1
    <3>2. CASE i # 1
      <4>1. i - 1 \in 1 .. n /\ ~(i <= 1) /\ ~(i <= 0) /\ i # 0 + 1 /\ i \in 0 .. n + 2 /\ i \in 1 .. 1 + n
        BY <1>1, <3>2
      <4>2. b[i] = a[i - 1]
        BY <2>1, <4>1
      <4>3. t[i] = s[i - 1]
        BY <2>3, <4>1
      <4> QED BY <1>1, <4>1, <4>2, <4>3
    <3> QED BY <3>1, <3>2
  <2>5. t = [i \in 1 .. n + 1 |-> t[i]]
    BY <1>1, <2>3
  <2> QED BY <2>4, <2>5
<1> HIDE DEF n, b, g, t
<1>6. Reads(h, L, l, t, g)
  BY <1>4, <1>5, RewrittenReads, Zenon
<1> QED BY <1>6 DEF t, g

\* list_push_tail
LEMMA PushTailReads ==
  ASSUME NEW h \in Links, NEW L \in SUBSET List, NEW c, Rings(h, L, c), NEW l \in L,
         NEW x \in Node, h.next[x] = NULL
  PROVE  Reads(h, L, l, Append(Contents(h, l), x), list_push_tail(h, l, x))
<1> DEFINE n == h.size[l]
           a == c[l]
           b == WithNode(a, n, n, x)
           g == list_push_tail(h, l, x)
           s == Contents(h, l)
           t == Append(s, x)
<1>1. /\ n \in Nat /\ s \in Seq(Node) /\ Len(s) = n /\ \A i \in 1 .. n : s[i] = a[i]
      /\ a[n + 1] = l /\ h.prev[l] = a[n]
  <2>1. IsListed(h, c, l, s)
    BY ContentsSeq, Zenon
  <2>2. a[n + 1] = l /\ h.prev[l] = a[n]
    BY RingEnds
  <2> QED BY <2>1, <2>2 DEF IsListed
<1>2. g = Added(h, l, x, a[n], a[n + 1])
  BY <1>1 DEF list_push_tail, Added
<1>3. n \in 0 .. h.size[l]
  BY <1>1
<1>4. Rewritten(h, L, c, l, n + 1, b, g)
  BY <1>2, <1>3, PushRings, Zenon
<1>5. [i \in 1 .. n + 1 |-> b[i]] = t
  <2>1. b = [i \in 0 .. n + 2 |-> IF i <= n THEN a[i] ELSE IF i = n + 1 THEN x ELSE a[i - 1]]
    BY DEF WithNode
  <2> HIDE DEF n, a, b, s
  <2>2. /\ t \in Seq(Node) /\ Len(t) = n + 1 /\ (\A i \in 1 .. n : t[i] = s[i]) /\ t[n + 1] = x
    BY <1>1, AppendProperties
  <2> HIDE DEF t
  <2>3. \A i \in 1 .. n + 1 : b[i] = t[i]
    BY <1>1, <2>1, <2>2
  <2>4. t = [i \in 1 .. n + 1 |-> t[i]]
    BY <1>1, <2>2
  <2> QED BY <2>3, <2>4
<1> HIDE DEF n, b, g, t
<1>6. Reads(h, L, l, t, g)
  BY <1>4, <1>5, RewrittenReads, Zenon
<1> QED BY <1>6 DEF t, g

\* The sequence s without its element number j.
Dropped(s, j) == [i \in 1 .. Len(s) - 1 |-> IF i < j THEN s[i] ELSE s[i + 1]]

\* list_remove_node
LEMMA RemoveReads ==
  ASSUME NEW h \in Links, NEW L \in SUBSET List, NEW c, Rings(h, L, c), NEW l \in L,
         NEW j \in 1 .. h.size[l]
  PROVE  Reads(h, L, l, Dropped(Contents(h, l), j), list_remove_node(h, l, c[l][j]))
<1> DEFINE n == h.size[l]
           a == c[l]
           b == WithoutNode(a, n, j)
           g == list_remove_node(h, l, a[j])
           s == Contents(h, l)
           t == Dropped(s, j)
<1>1. n \in Nat /\ Len(s) = n /\ \A i \in 1 .. n : s[i] = a[i]
  <2>1. IsListed(h, c, l, s)
    BY ContentsSeq, Zenon
  <2> QED BY <2>1 DEF IsListed
<1>2. Rewritten(h, L, c, l, n - 1, b, g)
  BY RemoveRings, Zenon
<1>3. t = [i \in 1 .. n - 1 |-> b[i]]
  <2>1. b = [i \in 0 .. n |-> IF i < j THEN a[i] ELSE a[i + 1]] /\ j \in 1 .. n
    BY DEF WithoutNode
  <2>2. t = [i \in 1 .. n - 1 |-> IF i < j THEN s[i] ELSE s[i + 1]]
    BY <1>1 DEF Dropped
  <2> HIDE DEF n, a, b, s, t
  <2>3. ASSUME NEW i \in 1 .. n - 1 PROVE b[i] = IF i < j THEN s[i] ELSE s[i + 1]
    <3>1. i \in 0 .. n /\ i \in 1 .. n /\ i + 1 \in 1 .. n
      BY <1>1
    <3> QED BY <1>1, <2>1, <3>1
  <2> QED BY <2>2, <2>3
<1> HIDE DEF n, b, g, t
<1>4. Reads(h, L, l, t, g)
  BY <1>2, <1>3, RewrittenReads, Zenon
<1> QED BY <1>4 DEF t, g

\* Taking off either end.
LEMMA DropEnds ==
  ASSUME NEW S, NEW s \in Seq(S), s # <<>>
  PROVE  Dropped(s, 1) = Tail(s) /\ Dropped(s, Len(s)) = SubSeq(s, 1, Len(s) - 1)
<1>1. Len(s) \in Nat /\ Len(s) # 0
  BY EmptySeq, LenProperties
<1>2. Dropped(s, 1) = Tail(s)
  <2>1. Tail(s) = [i \in 1 .. Len(s) - 1 |-> s[i + 1]]
    <3> DEFINE t == Tail(s)
    <3>1. /\ t \in Seq(S) /\ Len(t) = Len(s) - 1
          /\ \A i \in 1 .. Len(t) : t[i] = s[i + 1]
      BY HeadTailProperties
    <3> HIDE DEF t
    <3>2. t = [i \in 1 .. Len(t) |-> t[i]]
      BY <3>1
    <3>3. t = [i \in 1 .. Len(s) - 1 |-> s[i + 1]]
      BY <3>1, <3>2
    <3> QED BY <3>3 DEF t
  <2>2. \A i \in 1 .. Len(s) - 1 : ~(i < 1)
    BY <1>1
  <2> QED BY <2>1, <2>2 DEF Dropped
<1>3. Dropped(s, Len(s)) = SubSeq(s, 1, Len(s) - 1)
  <2>1. SubSeq(s, 1, Len(s) - 1) = [i \in 1 .. Len(s) - 1 |-> s[i]]
    <3>1. Len(s) - 1 \in 0 .. Len(s)
      BY <1>1
    <3> QED BY <3>1, SubSeqRestrict DEF Restrict
  <2>2. \A i \in 1 .. Len(s) - 1 : i < Len(s)
    BY <1>1
  <2> QED BY <2>1, <2>2 DEF Dropped
<1> QED BY <1>2, <1>3

\* Taking out an element that occurs once.
LEMMA DropFilters ==
  ASSUME NEW S, NEW s \in Seq(S), Distinct(s), NEW j \in 1 .. Len(s)
  PROVE  Filter(s, S \ {s[j]}) = Dropped(s, j)
<1> DEFINE n == Len(s)
           K == Positions(s, S \ {s[j]})
           at(k) == IF k < j THEN k ELSE k + 1
<1>1. n \in Nat /\ DOMAIN s = 1 .. n /\ \A i \in 1 .. n : s[i] \in S
  BY LenProperties, ElementOfSeq
<1>2. K = (1 .. n) \ {j}
  BY <1>1 DEF Positions, Distinct
<1>3. IsFiniteSet(1 .. n) /\ Cardinality(1 .. n) = n
  BY <1>1, FS_Interval
<1>4. IsFiniteSet(K) /\ Cardinality(K) = n - 1
  <2>1. j \in 1 .. n
    OBVIOUS
  <2> QED BY <1>2, <1>3, <2>1, FS_RemoveElement
<1>5. K \in SUBSET Int
  <2>1. 1 .. n \in SUBSET Int
    BY <1>1
  <2> HIDE DEF K
  <2> QED BY <1>2, <2>1
<1>6. Filter(s, S \ {s[j]}) = [k \in 1 .. n - 1 |-> s[Nth(K, k)]]
  BY <1>4 DEF Filter
<1> HIDE DEF K
<1>7. ASSUME NEW k \in 1 .. n - 1 PROVE at(k) \in K /\ Nth(K, k) = at(k)
  <2>1. at(k) \in K /\ k \in Nat
    BY <1>1, <1>2
  <2>2. Rank(K, at(k)) = k
    <3> DEFINE U == {m \in K : m <= at(k)}
    <3>1. CASE k < j
      <4>1. U = 1 .. k
        BY <1>1, <1>2, <3>1
      <4>2. Cardinality(1 .. k) = k
        BY <2>1, FS_Interval
      <4> QED BY <4>1, <4>2 DEF Rank
    <3>2. CASE ~(k < j)
      <4>1. U = (1 .. k + 1) \ {j} /\ j \in 1 .. k + 1
        BY <1>1, <1>2, <3>2
      <4>2. k + 1 \in Nat /\ Cardinality(1 .. k + 1) = k + 1 /\ IsFiniteSet(1 .. k + 1)
        BY <2>1, FS_Interval
      <4>3. Cardinality((1 .. k + 1) \ {j}) = (k + 1) - 1
        BY <4>1, <4>2, FS_RemoveElement
      <4>4. Rank(K, at(k)) = Cardinality(U)
        BY DEF Rank
      <4>5. (k + 1) - 1 = k
        BY <2>1
      <4> QED BY <4>1, <4>3, <4>4, <4>5
    <3> QED BY <3>1, <3>2
  <2>3. Nth(K, Rank(K, at(k))) = at(k)
    BY <1>4, <1>5, <2>1, NthProperties
  <2> QED BY <2>1, <2>2, <2>3
<1>8. \A k \in 1 .. n - 1 : s[Nth(K, k)] = IF k < j THEN s[k] ELSE s[k + 1]
  BY <1>7
<1> QED BY <1>6, <1>8 DEF Dropped

-----------------------------------------------------------------------------
(* The invariant.                                                          *)

\* What a call may return.
Answers == Addr \cup {NULL, 0, 1}

\* Every live list has its ring, and the rings share no node.
LinkInv ==
  /\ links \in Links /\ live \in SUBSET List
  /\ \E c : Rings(links, live, c)
  /\ err_code \in [List -> {0, 1}]
  /\ ret \in Answers

\* The state of Deques that LinkedList implements.
Queues == [l \in live |-> Contents(links, l)]
Errors == [l \in live |-> err_code[l]]

\* A node is on a list exactly when it is on its ring.
LEMMA OnListOn ==
  ASSUME NEW c, Rings(links, live, c), live \in SUBSET List, NEW l \in live, NEW n
  PROVE  OnList(l, n) <=> On(links, c, l, n)
<1>1. IsListed(links, c, l, Contents(links, l))
  BY ContentsSeq, Zenon
<1> QED BY <1>1 DEF IsListed, OnList, On

\* The invariant says what WellFormed says.
LEMMA InvWellFormed ==
  ASSUME LinkInv
  PROVE  TypeOK /\ WellFormed
<1>1. TypeOK
  BY DEF LinkInv, TypeOK, Links, Pointers, Answers
<1>2. PICK c : Rings(links, live, c)
  BY DEF LinkInv
<1>3. live \in SUBSET List
  BY DEF LinkInv
<1>4. \A l \in live : IsRing(links, l)
  BY <1>2, <1>3, RingRead
<1>5. \A l \in live, n \in Node : OnList(l, n) <=> On(links, c, l, n)
  BY <1>2, <1>3, OnListOn
<1>6. ASSUME NEW n \in Node, NEW l \in live, OnList(l, n)
      PROVE  Cardinality({k \in live : OnList(k, n)}) = 1
  <2>1. ASSUME NEW k \in live, OnList(k, n) PROVE k = l
    BY <1>2, <1>5, <1>6, <2>1 DEF On, Rings
  <2>2. {k \in live : OnList(k, n)} = {l}
    BY <1>6, <2>1
  <2> QED BY <2>2, FS_Singleton
<1>7. ASSUME NEW n \in Node, ~\E l \in live : OnList(l, n) PROVE Unlinked(n)
  BY <1>2, <1>5, <1>7 DEF On, Rings, Unlinked
<1> QED BY <1>1, <1>4, <1>6, <1>7 DEF WellFormed

LEMMA InitLinks ==
  ASSUME Init
  PROVE  LinkInv
<1>1. links \in Links /\ live = {}
  BY DEF Init, NoLinks, Links, Pointers
<1>2. \A x \in Node : links.next[x] = NULL /\ links.prev[x] = NULL
  BY DEF Init, NoLinks, Addr
<1>3. Rings(links, live, <<>>)
  BY <1>1, <1>2 DEF Rings
<1> QED BY <1>1, <1>3 DEF Init, LinkInv, Answers

\* A call that rewrites list l keeps the invariant and gives the queue of l the
\* contents s.
LEMMA RewriteStep ==
  ASSUME LinkInv, NEW l \in live, NEW s, Reads(links, live, l, s, links'),
         UNCHANGED <<live, err_code>>, ret' \in Answers
  PROVE  LinkInv' /\ Queues' = [Queues EXCEPT ![l] = s] /\ Errors' = Errors
<1>1. /\ links' \in Links /\ (\E d : Rings(links', live, d)) /\ Contents(links', l) = s
      /\ \A k \in live : k # l => Contents(links', k) = Contents(links, k)
  BY DEF Reads
<1>2. live' = live /\ err_code' = err_code
  OBVIOUS
<1>3. LinkInv'
  BY <1>1, <1>2 DEF LinkInv
<1>4. Queues' = [k \in live |-> Contents(links', k)]
  BY <1>2 DEF Queues
<1>5. [Queues EXCEPT ![l] = s] = [k \in live |-> IF k = l THEN s ELSE Contents(links, k)]
  BY DEF Queues
<1>6. Queues' = [Queues EXCEPT ![l] = s]
  BY <1>1, <1>4, <1>5
<1> QED BY <1>2, <1>3, <1>6 DEF Errors

\* A call that changes neither links nor lists.
LEMMA QuietStep ==
  ASSUME LinkInv, UNCHANGED <<links, live>>, err_code' \in [List -> {0, 1}], ret' \in Answers
  PROVE  LinkInv' /\ Queues' = Queues
BY DEF LinkInv, Queues

-----------------------------------------------------------------------------
(* Every call is the call of Deques.                                       *)

\* Deques sees the queues and the error codes of the live lists.
LEMMA DequesSees ==
  /\ D!Live = live
  /\ \A l \in live : Queues[l] = Contents(links, l)
BY DEF D!Live, Queues

\* A node without pointers is in no queue.
LEMMA UnlinkedFree ==
  ASSUME LinkInv, NEW n \in Node, Unlinked(n)
  PROVE  n \in D!Free
<1>1. PICK c : Rings(links, live, c)
  BY DEF LinkInv
<1>2. live \in SUBSET List
  BY DEF LinkInv
<1>3. ASSUME NEW l \in live PROVE n \notin D!Range(Queues[l])
  <2>1. ~On(links, c, l, n)
    BY <1>1, <1>2, OnLinked DEF Unlinked
  <2>2. IsListed(links, c, l, Contents(links, l))
    BY <1>1, <1>2, ContentsSeq, Zenon
  <2>3. DOMAIN Contents(links, l) = 1 .. links.size[l]
    BY <2>2 DEF IsListed
  <2>4. \A i \in DOMAIN Contents(links, l) : Contents(links, l)[i] # n
    BY <2>1, <2>2, <2>3 DEF IsListed, On
  <2> QED BY <2>4, DequesSees DEF D!Range
<1>4. n \notin UNION {D!Range(Queues[l]) : l \in live}
  BY <1>3
<1> QED BY <1>4, DequesSees DEF D!Free, Queues

LEMMA PushHeadStep ==
  ASSUME LinkInv, NEW l \in List, NEW n \in Node, PushHead(l, n)
  PROVE  LinkInv' /\ D!PushHead(l, n)
<1>1. Unlinked(n) /\ n \in D!Free
  BY UnlinkedFree DEF PushHead
<1>2. CASE l \in live
  <2> DEFINE s == <<n>> \o Contents(links, l)
  <2>1. /\ links' = list_push_head(links, l, n) /\ ret' = 0
        /\ UNCHANGED <<live, err_code>>
    BY <1>2 DEF PushHead, Return
  <2>2. PICK c : Rings(links, live, c)
    BY DEF LinkInv
  <2>3. Reads(links, live, l, s, links')
    BY <1>1, <1>2, <2>1, <2>2, PushHeadReads DEF LinkInv, Unlinked
  <2>4. LinkInv' /\ Queues' = [Queues EXCEPT ![l] = s] /\ Errors' = Errors
    BY <1>2, <2>1, <2>3, RewriteStep DEF Answers
  <2>5. s = <<n>> \o Queues[l]
    BY <1>2, DequesSees
  <2> HIDE DEF s
  <2> QED BY <1>1, <1>2, <2>1, <2>4, <2>5, DequesSees DEF D!PushHead, D!Update, Queues, Errors
<1>3. CASE l \notin live
  <2>1. ret' = 1 /\ UNCHANGED <<links, live, err_code>>
    BY <1>3 DEF PushHead, Return
  <2>2. LinkInv' /\ Queues' = Queues /\ Errors' = Errors
    BY <2>1 DEF LinkInv, Answers, Queues, Errors
  <2> QED BY <1>1, <1>3, <2>1, <2>2, DequesSees DEF D!PushHead, D!Refuse, Queues, Errors
<1> QED BY <1>2, <1>3

LEMMA PushTailStep ==
  ASSUME LinkInv, NEW l \in List, NEW n \in Node, PushTail(l, n)
  PROVE  LinkInv' /\ D!PushTail(l, n)
<1>1. Unlinked(n) /\ n \in D!Free
  BY UnlinkedFree DEF PushTail
<1>2. CASE l \in live
  <2> DEFINE s == Append(Contents(links, l), n)
  <2>1. /\ links' = list_push_tail(links, l, n) /\ ret' = 0
        /\ UNCHANGED <<live, err_code>>
    BY <1>2 DEF PushTail, Return
  <2>2. PICK c : Rings(links, live, c)
    BY DEF LinkInv
  <2>3. Reads(links, live, l, s, links')
    BY <1>1, <1>2, <2>1, <2>2, PushTailReads DEF LinkInv, Unlinked
  <2>4. LinkInv' /\ Queues' = [Queues EXCEPT ![l] = s] /\ Errors' = Errors
    BY <1>2, <2>1, <2>3, RewriteStep DEF Answers
  <2>5. s = Append(Queues[l], n)
    BY <1>2, DequesSees
  <2> HIDE DEF s
  <2> QED BY <1>1, <1>2, <2>1, <2>4, <2>5, DequesSees DEF D!PushTail, D!Update, Queues, Errors
<1>3. CASE l \notin live
  <2>1. ret' = 1 /\ UNCHANGED <<links, live, err_code>>
    BY <1>3 DEF PushTail, Return
  <2>2. LinkInv' /\ Queues' = Queues /\ Errors' = Errors
    BY <2>1 DEF LinkInv, Answers, Queues, Errors
  <2> QED BY <1>1, <1>3, <2>1, <2>2, DequesSees DEF D!PushTail, D!Refuse, Queues, Errors
<1> QED BY <1>2, <1>3

\* A list is empty exactly when its counter is 0.
LEMMA EmptyCounter ==
  ASSUME LinkInv, NEW l \in live
  PROVE  /\ Contents(links, l) \in Seq(Node) /\ links.size[l] \in Nat
         /\ Len(Contents(links, l)) = links.size[l] /\ Distinct(Contents(links, l))
         /\ Contents(links, l) = <<>> <=> links.size[l] = 0
<1>1. PICK c : Rings(links, live, c)
  BY DEF LinkInv
<1>2. IsListed(links, c, l, Contents(links, l))
  BY <1>1, ContentsSeq, Zenon DEF LinkInv
<1> DEFINE s == Contents(links, l)
<1>3. s \in Seq(Node) /\ Len(s) = links.size[l] /\ Distinct(s) /\ links.size[l] \in Nat
  BY <1>2 DEF IsListed
<1> HIDE DEF s
<1>4. s = <<>> <=> Len(s) = 0
  BY <1>3, EmptySeq
<1> QED BY <1>3, <1>4 DEF s

\* Taking out the node number j.
LEMMA DropStep ==
  ASSUME LinkInv, NEW l \in live, NEW j \in 1 .. links.size[l],
         links' = list_remove_node(links, l, Contents(links, l)[j]),
         UNCHANGED <<live, err_code>>, ret' \in Answers
  PROVE  /\ LinkInv' /\ Errors' = Errors
         /\ Queues' = [Queues EXCEPT ![l] = Dropped(Contents(links, l), j)]
<1>1. PICK c : Rings(links, live, c)
  BY DEF LinkInv
<1>2. links \in Links /\ live \in SUBSET List
  BY DEF LinkInv
<1>3. IsListed(links, c, l, Contents(links, l))
  BY <1>1, <1>2, ContentsSeq, Zenon
<1>4. Contents(links, l)[j] = c[l][j]
  BY <1>3 DEF IsListed
<1>5. links' = list_remove_node(links, l, c[l][j])
  BY <1>4
<1>6. Reads(links, live, l, Dropped(Contents(links, l), j), links')
  BY <1>1, <1>2, <1>5, RemoveReads, Zenon
<1> QED BY <1>6, RewriteStep

\* The filter Deques uses is that of SeqFilter.
LEMMA DequesFilter ==
  ASSUME NEW s, NEW T
  PROVE  D!Filter(s, T) = Filter(s, T)
BY DEF D!Filter, D!Positions, D!Nth, D!Rank, D!Cardinality, Filter, Positions, Nth, Rank, Cardinality

LEMMA RemoveNodeStep ==
  ASSUME LinkInv, NEW l \in List, NEW n \in Node, RemoveNode(l, n)
  PROVE  LinkInv' /\ D!Remove(l, n)
<1>1. n # l
  BY AddrAssumption
<1>2. CASE l \in live /\ links.size[l] # 0
  <2> DEFINE s == Contents(links, l)
  <2>1. ~RemoveRefused(links, l, n)
    BY <1>1, <1>2 DEF RemoveRefused
  <2>2. /\ OnList(l, n) /\ links' = list_remove_node(links, l, n) /\ ret' = 0
        /\ UNCHANGED <<live, err_code>>
    BY <1>2, <2>1 DEF RemoveNode, Return
  <2>3. PICK j \in 1 .. links.size[l] : s[j] = n
    BY <2>2 DEF OnList
  <2>4. s \in Seq(Node) /\ Len(s) = links.size[l] /\ Distinct(s) /\ s # <<>> /\ links.size[l] \in Nat
    BY <1>2, EmptyCounter
  <2>5. /\ LinkInv' /\ Errors' = Errors
        /\ Queues' = [Queues EXCEPT ![l] = Dropped(s, j)]
    BY <1>2, <2>2, <2>3, DropStep DEF Answers
  <2>6. s = Queues[l]
    BY <1>2, DequesSees
  <2> HIDE DEF s
  <2>7. D!Filter(s, Node \ {n}) = Dropped(s, j)
    BY <2>3, <2>4, DropFilters, DequesFilter
  <2>8. n \in D!Range(s)
    BY <2>3, <2>4 DEF D!Range
  <2> QED BY <1>2, <2>2, <2>4, <2>5, <2>6, <2>7, <2>8, DequesSees
          DEF D!Remove, D!Update, Queues, Errors
<1>3. CASE ~(l \in live /\ links.size[l] # 0)
  <2>1. l \notin live \/ RemoveRefused(links, l, n)
    BY <1>3 DEF RemoveRefused
  <2>2. ret' = 1 /\ UNCHANGED <<links, live, err_code>>
    BY <2>1 DEF RemoveNode, Return
  <2>3. LinkInv' /\ Queues' = Queues /\ Errors' = Errors
    BY <2>2 DEF LinkInv, Answers, Queues, Errors
  <2>4. ~(l \in live /\ Queues[l] # <<>>)
    BY <1>3, EmptyCounter, DequesSees
  <2> QED BY <2>2, <2>3, <2>4, DequesSees DEF D!Remove, D!Refuse, Queues, Errors
<1> QED BY <1>2, <1>3

\* A pop of an empty list.
LEMMA PopEmptyStep ==
  ASSUME LinkInv, NEW l \in live, PopEmpty(l)
  PROVE  /\ LinkInv' /\ Queues' = Queues /\ Queues[l] = <<>>
         /\ Errors' = [Errors EXCEPT ![l] = 1] /\ ret' = NULL
<1>1. /\ links.size[l] = 0 /\ err_code' = [err_code EXCEPT ![l] = 1] /\ ret' = NULL
      /\ UNCHANGED <<links, live>>
  BY DEF PopEmpty
<1>2. err_code \in [List -> {0, 1}] /\ l \in List
  BY DEF LinkInv
<1>3. LinkInv' /\ Queues' = Queues
  BY <1>1, <1>2, QuietStep DEF Answers
<1>4. Queues[l] = <<>>
  BY <1>1, EmptyCounter, DequesSees
<1>5. Errors' = [Errors EXCEPT ![l] = 1]
  BY <1>1, <1>2 DEF Errors, LinkInv
<1> QED BY <1>1, <1>3, <1>4, <1>5

\* The ends of a list are the neighbours of its root.
LEMMA EndNodes ==
  ASSUME LinkInv, NEW l \in live, links.size[l] # 0
  PROVE  /\ links.next[l] = Contents(links, l)[1]
         /\ links.prev[l] = Contents(links, l)[links.size[l]]
         /\ 1 \in 1 .. links.size[l] /\ links.size[l] \in 1 .. links.size[l]
<1>1. PICK c : Rings(links, live, c)
  BY DEF LinkInv
<1>2. live \in SUBSET List
  BY DEF LinkInv
<1>3. IsListed(links, c, l, Contents(links, l))
  BY <1>1, <1>2, ContentsSeq, Zenon
<1>4. links.next[l] = c[l][1] /\ links.prev[l] = c[l][links.size[l]]
  BY <1>1, RingEnds
<1>5. links.size[l] \in Nat /\ \A i \in 1 .. links.size[l] : Contents(links, l)[i] = c[l][i]
  BY <1>3 DEF IsListed
<1>6. 1 \in 1 .. links.size[l] /\ links.size[l] \in 1 .. links.size[l]
  BY <1>5
<1> QED BY <1>4, <1>5, <1>6

LEMMA PopHeadStep ==
  ASSUME LinkInv, NEW l \in List, PopHead(l)
  PROVE  LinkInv' /\ D!PopHead(l)
<1>1. l \in live
  BY DEF PopHead
<1>2. CASE PopEmpty(l)
  <2>1. /\ LinkInv' /\ Queues' = Queues /\ Queues[l] = <<>>
        /\ Errors' = [Errors EXCEPT ![l] = 1] /\ ret' = NULL
    BY <1>1, <1>2, PopEmptyStep
  <2> QED BY <1>1, <2>1, DequesSees DEF D!PopHead, Queues, Errors
<1>3. CASE links.size[l] # 0
  <2> DEFINE s == Contents(links, l)
  <2>1. /\ ret' = links.next[l] /\ links' = list_remove_node(links, l, links.next[l])
        /\ UNCHANGED <<live, err_code>>
    BY <1>3 DEF PopHead, PopEmpty, Return, HeadNode, list_pop_head
  <2>2. links.next[l] = s[1] /\ 1 \in 1 .. links.size[l]
    BY <1>1, <1>3, EndNodes
  <2>3. s \in Seq(Node) /\ Len(s) = links.size[l] /\ s # <<>>
    BY <1>1, <1>3, EmptyCounter
  <2>4. s = Queues[l]
    BY <1>1, DequesSees
  <2>5. ret' \in Answers
    <3>1. links.next[l] \in Addr \cup {NULL}
      BY <1>1 DEF LinkInv, Links, Pointers, Addr
    <3> QED BY <2>1, <3>1 DEF Answers
  <2>6. /\ LinkInv' /\ Errors' = Errors
        /\ Queues' = [Queues EXCEPT ![l] = Dropped(s, 1)]
    BY <1>1, <2>1, <2>2, <2>5, DropStep
  <2> HIDE DEF s
  <2>7. Dropped(s, 1) = Tail(s) /\ ret' = Head(s)
    BY <2>1, <2>2, <2>3, DropEnds
  <2>8. Queues' = [Queues EXCEPT ![l] = Tail(Queues[l])] /\ ret' = Head(Queues[l]) /\ Queues[l] # <<>>
    BY <2>3, <2>4, <2>6, <2>7
  <2> QED BY <1>1, <2>6, <2>8, DequesSees DEF D!PopHead, Queues, Errors
<1> QED BY <1>2, <1>3 DEF PopHead

LEMMA PopTailStep ==
  ASSUME LinkInv, NEW l \in List, PopTail(l)
  PROVE  LinkInv' /\ D!PopTail(l)
<1>1. l \in live
  BY DEF PopTail
<1>2. CASE PopEmpty(l)
  <2>1. /\ LinkInv' /\ Queues' = Queues /\ Queues[l] = <<>>
        /\ Errors' = [Errors EXCEPT ![l] = 1] /\ ret' = NULL
    BY <1>1, <1>2, PopEmptyStep
  <2> QED BY <1>1, <2>1, DequesSees DEF D!PopTail, Queues, Errors
<1>3. CASE links.size[l] # 0
  <2> DEFINE s == Contents(links, l)
  <2>1. /\ ret' = links.prev[l] /\ links' = list_remove_node(links, l, links.prev[l])
        /\ UNCHANGED <<live, err_code>>
    BY <1>3 DEF PopTail, PopEmpty, Return, TailNode, list_pop_tail
  <2>2. links.prev[l] = s[links.size[l]] /\ links.size[l] \in 1 .. links.size[l]
    BY <1>1, <1>3, EndNodes
  <2>3. s \in Seq(Node) /\ Len(s) = links.size[l] /\ s # <<>>
    BY <1>1, <1>3, EmptyCounter
  <2>4. s = Queues[l]
    BY <1>1, DequesSees
  <2>5. ret' \in Answers
    <3>1. links.prev[l] \in Addr \cup {NULL}
      BY <1>1 DEF LinkInv, Links, Pointers, Addr
    <3> QED BY <2>1, <3>1 DEF Answers
  <2>6. /\ LinkInv' /\ Errors' = Errors
        /\ Queues' = [Queues EXCEPT ![l] = Dropped(s, links.size[l])]
    BY <1>1, <2>1, <2>2, <2>5, DropStep
  <2> HIDE DEF s
  <2>7. Dropped(s, Len(s)) = SubSeq(s, 1, Len(s) - 1) /\ ret' = s[Len(s)]
    BY <2>1, <2>2, <2>3, DropEnds
  <2>8. /\ Queues' = [Queues EXCEPT ![l] = SubSeq(Queues[l], 1, Len(Queues[l]) - 1)]
        /\ ret' = Queues[l][Len(Queues[l])] /\ Queues[l] # <<>>
    BY <2>3, <2>4, <2>6, <2>7
  <2> QED BY <1>1, <2>6, <2>8, DequesSees DEF D!PopTail, Queues, Errors
<1> QED BY <1>2, <1>3 DEF PopTail

LEMMA ListInitStep ==
  ASSUME LinkInv, NEW l \in List, ListInit(l)
  PROVE  LinkInv' /\ D!Create(l)
<1>1. l \notin live /\ live \in SUBSET List /\ links \in Links
  BY DEF ListInit, LinkInv
<1>2. CASE ret' = NULL /\ UNCHANGED <<links, live, err_code>>
  <2>1. LinkInv' /\ Queues' = Queues /\ Errors' = Errors
    BY <1>2 DEF LinkInv, Answers, Queues, Errors
  <2> QED BY <1>1, <1>2, <2>1, DequesSees DEF D!Create, Queues, Errors
<1>3. CASE /\ links' = list_init(links, l) /\ err_code' = [err_code EXCEPT ![l] = 0]
           /\ live' = live \cup {l} /\ ret' = l
  <2> DEFINE M == live \cup {l}
             h == links'
  <2>1. PICK c : Rings(links, live, c)
    BY DEF LinkInv
  <2> DEFINE d == WithRing(c, M, l, NewRing(l))
  <2>2. /\ h \in Links /\ h.size[l] = 0 /\ Rings(h, M, d)
        /\ \A k \in live : h.size[k] = links.size[k]
    <3>1. Started(links, live, c, l, h)
      BY <1>1, <1>3, <2>1, InitRings, Zenon
    <3> QED BY <3>1 DEF Started
  <2>3. \A k \in live : d[k] = c[k]
    BY <1>1 DEF WithRing
  <2> HIDE DEF d
  <2>4. M \in SUBSET List
    BY <1>1
  <2>5. err_code' \in [List -> {0, 1}] /\ ret' \in Answers
    BY <1>3 DEF LinkInv, Answers, Addr
  <2>6. LinkInv'
    BY <1>3, <2>2, <2>4, <2>5 DEF LinkInv
  <2>7. \A k \in M : Contents(h, k) = Listed(h, d, k)
    BY <2>2, <2>4, RingRead
  <2>8. \A k \in live : Contents(h, k) = Contents(links, k)
    <3>1. \A k \in live : Contents(links, k) = Listed(links, c, k)
      BY <1>1, <2>1, RingRead
    <3> QED BY <2>2, <2>3, <2>7, <3>1 DEF Listed
  <2>9. Contents(h, l) = <<>>
    <3> DEFINE s == Contents(h, l)
    <3>1. l \in M
      OBVIOUS
    <3> HIDE DEF M, h
    <3>2. IsListed(h, d, l, s)
      BY <2>2, <2>4, <3>1, ContentsSeq, Zenon
    <3> HIDE DEF s
    <3>3. s \in Seq(Node) /\ Len(s) = 0
      BY <2>2, <3>2 DEF IsListed
    <3>4. s = <<>>
      BY <3>3, EmptySeq
    <3> QED BY <3>4 DEF s
  <2>10. Queues' = [k \in M |-> Contents(h, k)]
    BY <1>3 DEF Queues
  <2>11. Queues' = [k \in M |-> IF k = l THEN <<>> ELSE Queues[k]]
    BY <1>1, <2>8, <2>9, <2>10, DequesSees
  <2>12. Errors' = [k \in M |-> IF k = l THEN 0 ELSE Errors[k]]
    BY <1>1, <1>3 DEF LinkInv, Errors
  <2> HIDE DEF M, h
  <2>13. M = D!Live \cup {l}
    BY DequesSees DEF M
  <2> QED BY <1>1, <1>3, <2>6, <2>11, <2>12, <2>13, DequesSees DEF D!Create, Queues, Errors
<1> QED BY <1>2, <1>3 DEF ListInit

LEMMA ListFreeStep ==
  ASSUME LinkInv, NEW l \in List, ListFree(l)
  PROVE  LinkInv' /\ D!Delete(l)
<1>1. /\ l \in live /\ links' = Drained(links, l) /\ live' = live \ {l}
      /\ UNCHANGED <<err_code, ret>>
  BY DEF ListFree
<1>2. links \in Links /\ live \in SUBSET List
  BY DEF LinkInv
<1>3. PICK c : Rings(links, live, c)
  BY DEF LinkInv
<1> DEFINE h == links'
           M == live \ {l}
<1>4. Popped(links, live, c, l, links.size[l], h)
  BY <1>1, <1>2, <1>3, DrainedRings
<1>5. PICK d : Rings(h, live, d) /\ \A k \in live : k # l => d[k] = c[k]
  BY <1>4 DEF Popped
<1>6. /\ h \in Links /\ h.size[l] = links.size[l] - links.size[l]
      /\ \A k \in live : k # l => h.size[k] = links.size[k]
  BY <1>4 DEF Popped
<1>7. h.size[l] = 0
  BY <1>1, <1>2, <1>6 DEF Links
<1>8. Rings(h, M, d)
  BY <1>1, <1>2, <1>5, <1>7, FreeRings
<1>9. LinkInv'
  BY <1>1, <1>6, <1>8 DEF LinkInv
<1>10. \A k \in M : Contents(h, k) = Contents(links, k)
  <2>1. \A k \in live : Contents(h, k) = Listed(h, d, k) /\ Contents(links, k) = Listed(links, c, k)
    BY <1>2, <1>3, <1>5, RingRead
  <2> QED BY <1>5, <1>6, <2>1 DEF Listed
<1>11. Queues' = [k \in M |-> Queues[k]]
  BY <1>1, <1>10 DEF Queues
<1>12. Errors' = [k \in M |-> Errors[k]]
  BY <1>1 DEF Errors
<1> HIDE DEF M
<1>13. M = D!Live \ {l}
  BY DequesSees DEF M
<1> QED BY <1>1, <1>9, <1>11, <1>12, <1>13, DequesSees DEF D!Delete, Queues, Errors

-----------------------------------------------------------------------------
(* The theorems.                                                           *)

LEMMA LinkStep ==
  ASSUME LinkInv, [Next]_vars
  PROVE  LinkInv' /\ [D!Next]_(D!vars)
<1>1. ASSUME NEW l \in List, ListInit(l) PROVE LinkInv' /\ D!Next
  BY <1>1, ListInitStep DEF D!Next
<1>2. ASSUME NEW l \in List, PopHead(l) PROVE LinkInv' /\ D!Next
  BY <1>2, PopHeadStep DEF D!Next
<1>3. ASSUME NEW l \in List, PopTail(l) PROVE LinkInv' /\ D!Next
  BY <1>3, PopTailStep DEF D!Next
<1>4. ASSUME NEW l \in List, ListFree(l) PROVE LinkInv' /\ D!Next
  BY <1>4, ListFreeStep DEF D!Next
<1>5. ASSUME NEW l \in List, NEW n \in Node, PushHead(l, n) PROVE LinkInv' /\ D!Next
  BY <1>5, PushHeadStep DEF D!Next
<1>6. ASSUME NEW l \in List, NEW n \in Node, PushTail(l, n) PROVE LinkInv' /\ D!Next
  BY <1>6, PushTailStep DEF D!Next
<1>7. ASSUME NEW l \in List, NEW n \in Node, RemoveNode(l, n) PROVE LinkInv' /\ D!Next
  BY <1>7, RemoveNodeStep DEF D!Next
<1>8. CASE UNCHANGED vars
  <2>1. LinkInv'
    BY <1>8 DEF LinkInv, vars
  <2>2. UNCHANGED D!vars
    BY <1>8 DEF vars, D!vars
  <2> QED BY <2>1, <2>2
<1> QED BY <1>1, <1>2, <1>3, <1>4, <1>5, <1>6, <1>7, <1>8 DEF Next

LEMMA InitDeques ==
  ASSUME Init
  PROVE  D!Init
<1>1. live = {} /\ ret = NULL
  BY DEF Init
<1>2. Queues = <<>> /\ Errors = <<>>
  BY <1>1 DEF Queues, Errors
<1> QED BY <1>1, <1>2 DEF D!Init, Queues, Errors

\* Whatever lists and nodes there are, list.c keeps its pointers in the type its
\* header gives them: every next and prev is an address of the system or NULL.
THEOREM LinkedListTypeCorrect == Spec => []TypeOK
<1>1. Init => LinkInv
  BY InitLinks
<1>2. LinkInv /\ [Next]_vars => LinkInv'
  BY LinkStep
<1>3. LinkInv => TypeOK
  BY InvWellFormed
<1> QED BY <1>1, <1>2, <1>3, PTL DEF Spec

\* For any number of lists and nodes and any sequence of calls of list.c, every live
\* list is one ring of exactly size nodes in both directions, no node is on two
\* rings, and a node on none has both pointers NULL.
THEOREM LinkedListWellFormed == Spec => []WellFormed
<1>1. Init => LinkInv
  BY InitLinks
<1>2. LinkInv /\ [Next]_vars => LinkInv'
  BY LinkStep
<1>3. LinkInv => WellFormed
  BY InvWellFormed
<1> QED BY <1>1, <1>2, <1>3, PTL DEF Spec

\* list.c implements the double-ended queues of Deques, call by call, with the same
\* results and error codes.
THEOREM LinkedListImplements == Spec => ImplementsDeques
<1>1. Init => LinkInv /\ D!Init
  BY InitLinks, InitDeques
<1>2. LinkInv /\ [Next]_vars => LinkInv' /\ [D!Next]_(D!vars)
  BY LinkStep
<1> QED BY <1>1, <1>2, PTL DEF Spec, ImplementsDeques, D!Spec
=============================================================================
