---------------------------- MODULE MemoryProofs ----------------------------
(***************************************************************************)
(* Proofs about the kernel's memory: the heap of Heap, for every size of   *)
(* heap, header and request, and the frames of BootMemory, for every size  *)
(* of memory that lets the bitmap fill a frame.                            *)
(*                                                                         *)
(* BlocksDisjoint compares a block with its successor.  It is not enough   *)
(* for an induction without walking the chain, so the inductive invariant  *)
(* HeapInv compares every two blocks (Ordered), which also makes the       *)
(* addresses of the blocks distinct: kfree finds exactly the block that    *)
(* kmalloc gave out.                                                       *)
(*                                                                         *)
(* The last part is about the page tables of Vmm, for every size of memory *)
(* and of a table, and every number of processes and callers.  Its         *)
(* inductive invariant VmmInv gives every frame that a table of the kernel *)
(* refers to one place (pl), so that no two entries share a frame, and     *)
(* says where the directory, the tables, the code and the stack of every   *)
(* ready process are (SpaceAt) and what every caller holds (HeldAt).       *)
(***************************************************************************)
EXTENDS Heap, BootMemory, Vmm, SeqFilterProofs

Blocks == [addr : Nat, size : Nat, is_free : BOOLEAN]

\* h is a chain of N blocks.
Chain(h, N) ==
  /\ N \in Nat /\ DOMAIN h = 1..N
  /\ \A k \in 1..N : /\ h[k] \in Blocks
                     /\ h[k].addr \in Nat /\ h[k].size \in Nat /\ h[k].is_free \in BOOLEAN

\* The first byte behind a block.
End(b) == b.addr + HEADER + b.size

\* The blocks of a chain lie in its order, apart, and inside the heap.
Laid(h) ==
  /\ \A i, j \in DOMAIN h : i < j => End(h[i]) <= h[j].addr
  /\ \A i \in DOMAIN h : End(h[i]) <= HEAP_END
  /\ h # <<>> /\ h[1].addr = HEAP_START

\* The pointers of u are the payloads of the blocks of h that are in use, and
\* each of those has room for what u says was asked for.
Accounts(h, u) ==
  /\ \A p \in DOMAIN u : p \in Nat /\ u[p] \in Nat
  /\ \A p \in DOMAIN u : \E i \in DOMAIN h : ~h[i].is_free /\ p = h[i].addr + HEADER
  /\ \A i \in DOMAIN h : ~h[i].is_free => /\ h[i].addr + HEADER \in DOMAIN u
                                         /\ h[i].size >= u[h[i].addr + HEADER]

\* No two neighbours of h are free.
Merged(h) == \A i, j \in DOMAIN h : j = i + 1 => ~(h[i].is_free /\ h[j].is_free)

\* g is the chain h of N blocks with block i split for n bytes.
SplitOf(g, h, N, i, n) ==
  \E x, y \in Blocks :
    /\ x.addr = h[i].addr /\ x.size = n /\ ~x.is_free
    /\ y.addr = h[i].addr + HEADER + n /\ y.size = h[i].size - n - HEADER /\ y.is_free
    /\ \A k \in 1..(N + 1) : /\ k < i => g[k] = h[k]
                             /\ k = i => g[k] = x
                             /\ k = i + 1 => g[k] = y
                             /\ k > i + 1 => g[k] = h[k - 1]

\* The pointers of v are those of u and the payload of block b, for n bytes.
Adds(v, u, b, n) ==
  /\ DOMAIN v = DOMAIN u \cup {b.addr + HEADER}
  /\ \A q \in DOMAIN v : v[q] = IF q = b.addr + HEADER THEN n ELSE u[q]

\* The inductive invariant.
HeapInv == heap \in Seq(Blocks) /\ Laid(heap) /\ Accounts(heap, held) /\ Merged(heap)

-----------------------------------------------------------------------------
(* The chain that Taken builds.                                            *)

\* The chain h with block i replaced by x and y.
Spliced(h, i, x, y) == SubSeq(h, 1, i - 1) \o <<x, y>> \o SubSeq(h, i + 1, Len(h))

\* Block by block: those before block i keep their places, those behind it move
\* by one.
IsSpliced(g, h, i, x, y) ==
  /\ g \in Seq(Blocks) /\ DOMAIN g = 1..(Len(h) + 1) /\ Len(g) = Len(h) + 1
  /\ \A k \in 1..(Len(h) + 1) :
       g[k] = IF k < i THEN h[k] ELSE IF k = i THEN x
              ELSE IF k = i + 1 THEN y ELSE h[k - 1]

\* That is what splitting block i in two does.
LEMMA SplitChain ==
  ASSUME NEW h \in Seq(Blocks), NEW i \in 1..Len(h), NEW x \in Blocks, NEW y \in Blocks
  PROVE  IsSpliced(Spliced(h, i, x, y), h, i, x, y)
<1> DEFINE a == SubSeq(h, 1, i - 1)
           b == SubSeq(h, i + 1, Len(h))
<1>1. Len(h) \in Nat /\ DOMAIN h = 1..Len(h) /\ i \in 1..Len(h)
  BY LenProperties
<1>2. \A k \in 1..Len(h) : h[k] \in Blocks
  BY <1>1, ElementOfSeq
<1>3. /\ a \in Seq(Blocks) /\ Len(a) = i - 1
      /\ \A k \in 1..(i - 1) : a[k] = h[k]
  BY <1>1, <1>2, SMT
<1>4. /\ b \in Seq(Blocks) /\ Len(b) = Len(h) - i
      /\ \A k \in 1..(Len(h) - i) : b[k] = h[i + k]
  <2>1. i + 1 \in Int /\ Len(h) \in Int /\ \A k \in (i + 1)..Len(h) : h[k] \in Blocks
    BY <1>1, <1>2
  <2>2. /\ b \in Seq(Blocks)
        /\ Len(b) = IF i + 1 <= Len(h) THEN Len(h) - (i + 1) + 1 ELSE 0
        /\ \A k \in 1..(Len(h) - (i + 1) + 1) : b[k] = h[i + 1 + k - 1]
    BY <2>1, SubSeqProperties
  <2> HIDE DEF b
  <2>3. Len(h) \in Nat /\ i \in Nat /\ 1 <= i /\ i <= Len(h)
    BY <1>1
  <2>4. ASSUME NEW k \in 1..(Len(h) - i)
        PROVE  b[k] = h[i + k]
    <3>1. k \in 1..(Len(h) - (i + 1) + 1) /\ i + 1 + k - 1 = i + k
      BY <2>3
    <3> QED
      BY <2>2, <3>1
  <2>5. Len(b) = Len(h) - i
    BY <2>2, <2>3
  <2> QED
    BY <2>2, <2>4, <2>5
<1>5. /\ <<x, y>> \in Seq(Blocks) /\ Len(<<x, y>>) = 2
      /\ <<x, y>>[1] = x /\ <<x, y>>[2] = y
  BY SMT
<1> HIDE DEF a, b
<1> DEFINE c == a \o <<x, y>>
<1>6. /\ c \in Seq(Blocks) /\ Len(c) = i + 1
      /\ \A k \in 1..(i - 1) : c[k] = h[k]
      /\ c[i] = x /\ c[i + 1] = y
  BY <1>1, <1>3, <1>5, SMT
<1> HIDE DEF c
<1>7. /\ c \o b \in Seq(Blocks) /\ Len(c \o b) = Len(h) + 1
      /\ \A k \in 1..(i + 1) : (c \o b)[k] = c[k]
      /\ \A k \in (i + 2)..(Len(h) + 1) : (c \o b)[k] = h[k - 1]
  <2>1. /\ c \o b \in Seq(Blocks) /\ Len(c \o b) = Len(c) + Len(b)
        /\ \A k \in 1..(Len(c) + Len(b)) :
             (c \o b)[k] = IF k <= Len(c) THEN c[k] ELSE b[k - Len(c)]
    BY <1>4, <1>6, ConcatProperties
  <2>2. ASSUME NEW k \in (i + 2)..(Len(h) + 1)
        PROVE  (c \o b)[k] = h[k - 1]
    <3>1. Len(c) = i + 1 /\ Len(b) = Len(h) - i /\ Len(h) \in Nat /\ i \in Nat /\ k \in Nat
      BY <1>1, <1>4, <1>6
    <3>2. /\ k \in 1..(Len(c) + Len(b)) /\ ~(k <= Len(c))
          /\ k - Len(c) \in 1..(Len(h) - i) /\ i + (k - Len(c)) = k - 1
      BY <3>1
    <3>3. b[k - Len(c)] = h[i + (k - Len(c))]
      BY <1>4, <3>2
    <3> QED
      BY <2>1, <3>2, <3>3
  <2>3. \A k \in 1..(i + 1) : (c \o b)[k] = c[k]
    BY <1>1, <1>4, <1>6, <2>1
  <2> QED
    BY <1>1, <1>4, <1>6, <2>1, <2>2, <2>3
<1> DEFINE g == c \o b
<1>8. g = c \o b
  OBVIOUS
<1> HIDE DEF g
<1>9. ASSUME NEW k \in 1..(Len(h) + 1)
      PROVE  g[k] = IF k < i THEN h[k] ELSE IF k = i THEN x
                    ELSE IF k = i + 1 THEN y ELSE h[k - 1]
  <2>1. i \in Nat /\ k \in Nat /\ Len(h) \in Nat /\ i >= 1
    BY <1>1
  <2>2. CASE k < i
    <3>1. k \in 1..(i - 1) /\ k \in 1..(i + 1)
      BY <2>1, <2>2
    <3>2. g[k] = h[k]
      BY <1>6, <1>7, <1>8, <3>1
    <3> QED
      BY <2>2, <3>2
  <2>3. CASE k = i \/ k = i + 1
    BY <1>6, <1>7, <1>8, <2>1, <2>3
  <2>4. CASE k >= i + 2
    BY <1>7, <1>8, <2>1, <2>4
  <2> QED
    BY <2>1, <2>2, <2>3, <2>4
<1> QED
  <2>1. DOMAIN g = 1..(Len(h) + 1)
    BY <1>7, <1>8, LenProperties
  <2>2. Spliced(h, i, x, y) = g
    BY DEF Spliced, a, b, c, g
  <2>3. g \in Seq(Blocks) /\ Len(g) = Len(h) + 1
    BY <1>7, <1>8
  <2> QED
    BY <1>9, <2>1, <2>2, <2>3, Zenon DEF IsSpliced

\* A sequence of blocks is a chain of as many blocks.
LEMMA SeqIsChain ==
  ASSUME NEW h \in Seq(Blocks)
  PROVE  Chain(h, Len(h))
<1>1. Len(h) \in Nat /\ DOMAIN h = 1..Len(h)
  BY LenProperties
<1>2. \A k \in 1..Len(h) : h[k] \in Blocks
  BY <1>1, ElementOfSeq
<1>3. \A k \in 1..Len(h) :
         h[k].addr \in Nat /\ h[k].size \in Nat /\ h[k].is_free \in BOOLEAN
  BY <1>2 DEF Blocks
<1> QED
  BY <1>1, <1>2, <1>3 DEF Chain

\* A block ends at an address.
LEMMA EndIsNat ==
  ASSUME NEW b, b.addr \in Nat, b.size \in Nat
  PROVE  End(b) \in Nat
BY HeapAssumption DEF End

\* No two blocks of a chain in order have the same address.
LEMMA LaidDistinct ==
  ASSUME NEW h, NEW N, Chain(h, N), Laid(h)
  PROVE  \A i, j \in DOMAIN h : h[i].addr = h[j].addr => i = j
<1> SUFFICES ASSUME NEW i \in DOMAIN h, NEW j \in DOMAIN h, i < j
             PROVE  h[i].addr # h[j].addr
  BY DEF Chain
<1>1. /\ h[i].addr \in Nat /\ h[i].size \in Nat /\ h[j].addr \in Nat
      /\ HEADER \in Nat /\ HEADER > 0
  BY HeapAssumption DEF Chain
<1>2. h[i].addr + HEADER + h[i].size <= h[j].addr
  BY DEF Laid, End
<1> QED
  BY <1>1, <1>2

\* A block that is split for n bytes leaves the chain in order, all pointers
\* accounted for and no free neighbours.
LEMMA SplitKeeps ==
  ASSUME NEW h, NEW N, Chain(h, N), Laid(h), Merged(h),
         NEW u, Accounts(h, u),
         NEW n \in Nat, NEW i \in 1..N, h[i].is_free, h[i].size >= n + HEADER + MIN_SPLIT,
         NEW g, Chain(g, N + 1), SplitOf(g, h, N, i, n),
         NEW v, Adds(v, u, h[i], n)
  PROVE  Laid(g) /\ Accounts(g, v) /\ Merged(g)
<1> DEFINE From(k) == IF k <= i THEN k ELSE k - 1
<1>1. N \in Nat /\ DOMAIN h = 1..N /\ DOMAIN g = 1..(N + 1) /\ i \in Nat
  BY DEF Chain
<1>2. \A k \in 1..N : h[k].addr \in Nat /\ h[k].size \in Nat /\ h[k].is_free \in BOOLEAN
  BY DEF Chain
<1>3. HEADER \in Nat /\ MIN_SPLIT \in Nat /\ HEAP_END \in Nat
  BY HeapAssumption
<1>4. PICK x, y \in Blocks :
        /\ x.addr = h[i].addr /\ x.size = n /\ ~x.is_free
        /\ y.addr = h[i].addr + HEADER + n /\ y.size = h[i].size - n - HEADER /\ y.is_free
        /\ \A k \in 1..(N + 1) : /\ k < i => g[k] = h[k]
                                 /\ k = i => g[k] = x
                                 /\ k = i + 1 => g[k] = y
                                 /\ k > i + 1 => g[k] = h[k - 1]
  BY DEF SplitOf
<1>5. /\ x.addr \in Nat /\ x.size \in Nat /\ y.addr \in Nat /\ y.size \in Nat
      /\ End(x) = y.addr /\ End(y) = End(h[i])
      /\ y.addr >= h[i].addr /\ y.addr <= End(h[i])
  <2>1. x.addr \in Nat /\ x.size \in Nat /\ y.addr \in Nat /\ y.size \in Nat
    BY DEF Blocks
  <2>2. h[i].addr \in Nat /\ h[i].size \in Nat
    BY <1>2
  <2> QED
    BY <1>3, <1>4, <2>1, <2>2 DEF End
<1>6. ASSUME NEW k \in 1..(N + 1)
      PROVE  /\ From(k) \in 1..N
             /\ g[k].addr \in Nat /\ g[k].size \in Nat /\ g[k].is_free \in BOOLEAN
             /\ g[k].addr >= h[From(k)].addr
             /\ End(g[k]) <= End(h[From(k)])
  <2>0. g[k].addr \in Nat /\ g[k].size \in Nat /\ g[k].is_free \in BOOLEAN
    BY DEF Chain
  <2>1. CASE k < i
    <3>1. From(k) = k /\ k \in 1..N /\ g[k] = h[k]
      BY <1>1, <1>4, <2>1
    <3>2. h[k].addr \in Nat /\ h[k].size \in Nat
      BY <1>2, <3>1
    <3>3. End(h[k]) \in Nat
      BY <1>3, <3>2 DEF End
    <3> QED
      BY <2>0, <3>1, <3>2, <3>3
  <2>2. CASE k = i
    BY <1>1, <1>2, <1>4, <1>5, <2>0, <2>2
  <2>3. CASE k = i + 1
    <3>1. From(k) = i /\ g[k] = y
      BY <1>1, <1>4, <2>3
    <3>2. End(h[i]) \in Nat
      BY <1>2, <1>3 DEF End
    <3> QED
      BY <1>5, <2>0, <3>1, <3>2
  <2>4. CASE k > i + 1
    <3>1. From(k) = k - 1 /\ g[k] = h[k - 1] /\ k - 1 \in 1..N
      BY <1>1, <1>4, <2>4
    <3> QED
      BY <1>2, <1>3, <2>0, <3>1 DEF End
  <2> QED
    BY <1>1, <2>1, <2>2, <2>3, <2>4
<1>7. Laid(g)
  <2>1. ASSUME NEW j \in DOMAIN g, NEW k \in DOMAIN g, j < k
        PROVE  End(g[j]) <= g[k].addr
    <3>1. CASE j = i /\ k = i + 1
      BY <1>1, <1>4, <1>5, <3>1
    <3>2. CASE ~(j = i /\ k = i + 1)
      <4>1. From(j) < From(k)
        BY <1>1, <2>1, <3>2
      <4>2. From(j) \in DOMAIN h /\ From(k) \in DOMAIN h
        BY <1>1, <1>6
      <4>3. End(h[From(j)]) <= h[From(k)].addr
        BY <4>1, <4>2 DEF Laid
      <4>4. /\ g[j].addr \in Nat /\ g[j].size \in Nat /\ g[k].addr \in Nat
            /\ h[From(j)].addr \in Nat /\ h[From(j)].size \in Nat /\ h[From(k)].addr \in Nat
            /\ g[k].addr >= h[From(k)].addr /\ End(g[j]) <= End(h[From(j)])
        BY <1>1, <1>2, <1>6
      <4> HIDE DEF From
      <4> QED
        BY <1>3, <4>3, <4>4 DEF End
    <3> QED
      BY <3>1, <3>2
  <2>2. ASSUME NEW k \in DOMAIN g
        PROVE  End(g[k]) <= HEAP_END
    <3>1. From(k) \in DOMAIN h /\ End(h[From(k)]) <= HEAP_END
      BY <1>1, <1>6 DEF Laid
    <3>2. g[k].addr \in Nat /\ g[k].size \in Nat /\ h[From(k)].addr \in Nat
          /\ h[From(k)].size \in Nat /\ End(g[k]) <= End(h[From(k)])
      BY <1>1, <1>2, <1>6, <3>1
    <3> HIDE DEF From
    <3> QED
      BY <1>3, <3>1, <3>2 DEF End
  <2>3. g # <<>> /\ g[1].addr = HEAP_START
    <3>1. 1 \in DOMAIN g /\ 1 \in 1..(N + 1) /\ h[1].addr = HEAP_START
      BY <1>1 DEF Laid
    <3>2. g[1].addr = h[1].addr
      BY <1>1, <1>4, <1>5, <3>1
    <3>3. g # <<>>
      BY <3>1
    <3> QED
      BY <3>1, <3>2, <3>3
  <2> QED
    BY <2>1, <2>2, <2>3 DEF Laid
<1>8. Accounts(g, v)
  <2> DEFINE p == h[i].addr + HEADER
  <2>1. /\ p \in Nat /\ x.addr + HEADER = p
        /\ DOMAIN v = DOMAIN u \cup {p} /\ v[p] = n
        /\ \A q \in DOMAIN u : q # p => v[q] = u[q]
    <3>1. p \in Nat /\ x.addr + HEADER = p
      BY <1>2, <1>3, <1>4
    <3>2. DOMAIN v = DOMAIN u \cup {p} /\ \A q \in DOMAIN v : v[q] = IF q = p THEN n ELSE u[q]
      BY DEF Adds
    <3> QED
      BY <3>1, <3>2
  <2> HIDE DEF p
  <2>2. ASSUME NEW q \in DOMAIN v
        PROVE  q \in Nat /\ v[q] \in Nat
    BY <2>1 DEF Accounts
  <2>3. ASSUME NEW q \in DOMAIN v
        PROVE  \E k \in DOMAIN g : ~g[k].is_free /\ q = g[k].addr + HEADER
    <3>1. CASE q = p
      BY <1>1, <1>4, <2>1, <3>1
    <3>2. CASE q # p
      <4>1. q \in DOMAIN u
        BY <2>1, <3>2
      <4>2. PICK j \in DOMAIN h : ~h[j].is_free /\ q = h[j].addr + HEADER
        BY <4>1 DEF Accounts
      <4>3. j # i /\ j \in 1..N
        BY <1>1, <4>2
      <4>4. CASE j < i
        BY <1>1, <1>4, <4>2, <4>3, <4>4
      <4>5. CASE j > i
        <5>1. j + 1 \in DOMAIN g /\ g[j + 1] = h[j]
          BY <1>1, <1>4, <4>3, <4>5
        <5> QED
          BY <4>2, <5>1
      <4> QED
        BY <1>1, <4>3, <4>4, <4>5
    <3> QED
      BY <3>1, <3>2
  <2>4. ASSUME NEW k \in DOMAIN g, ~g[k].is_free
        PROVE  g[k].addr + HEADER \in DOMAIN v /\ g[k].size >= v[g[k].addr + HEADER]
    <3>1. CASE k = i
      <4>1. g[k] = x
        BY <1>1, <1>4, <3>1
      <4> QED
        BY <1>4, <2>1, <4>1
    <3>2. CASE k # i
      <4>1. PICK j \in DOMAIN h : g[k] = h[j] /\ j # i
        <5>1. k # i + 1
          BY <1>1, <1>4, <2>4
        <5>2. CASE k < i
          BY <1>1, <1>4, <5>2
        <5>3. CASE k > i + 1
          BY <1>1, <1>4, <5>3
        <5> QED
          BY <1>1, <3>2, <5>1, <5>2, <5>3
      <4>2. h[j].addr # h[i].addr /\ h[j].addr \in Nat /\ h[i].addr \in Nat
        BY <1>1, <1>2, <4>1, LaidDistinct
      <4>3. h[j].addr + HEADER # p
        BY <1>3, <4>2 DEF p
      <4>4. h[j].addr + HEADER \in DOMAIN u /\ h[j].size >= u[h[j].addr + HEADER]
        BY <2>4, <4>1 DEF Accounts
      <4>5. v[h[j].addr + HEADER] = u[h[j].addr + HEADER]
        BY <2>1, <4>3, <4>4
      <4> QED
        BY <2>1, <4>1, <4>4, <4>5
    <3> QED
      BY <3>1, <3>2
  <2> QED
    BY <2>2, <2>3, <2>4 DEF Accounts
<1>9. Merged(g)
  <2> SUFFICES ASSUME NEW j \in DOMAIN g, NEW k \in DOMAIN g, k = j + 1,
                      g[j].is_free, g[k].is_free
               PROVE  FALSE
    BY DEF Merged
  <2>1. j # i /\ k # i
    BY <1>1, <1>4
  <2>2. CASE k < i
    BY <1>1, <1>4, <2>2 DEF Merged
  <2>3. CASE j = i + 1
    <3>1. g[k] = h[i + 1] /\ i + 1 \in DOMAIN h
      BY <1>1, <1>4, <2>3
    <3> QED
      BY <1>1, <3>1 DEF Merged
  <2>4. CASE j > i + 1
    <3>1. g[j] = h[j - 1] /\ g[k] = h[k - 1] /\ j - 1 \in DOMAIN h /\ k - 1 \in DOMAIN h
          /\ k - 1 = (j - 1) + 1
      BY <1>1, <1>4, <2>4
    <3> QED
      BY <3>1 DEF Merged
  <2> QED
    BY <1>1, <2>1, <2>2, <2>3, <2>4
<1> QED
  BY <1>7, <1>8, <1>9

\* g is the chain h of N blocks with the mark of block i set to b.
MarkOf(g, h, N, i, b) ==
  /\ \A k \in 1..N : g[k].addr = h[k].addr /\ g[k].size = h[k].size
  /\ \A k \in 1..N : g[k].is_free = IF k = i THEN b ELSE h[k].is_free

\* Marking a block moves none.
LEMMA MarkKeepsLaid ==
  ASSUME NEW h, NEW N, Chain(h, N), Laid(h),
         NEW i, NEW b, NEW g, Chain(g, N), MarkOf(g, h, N, i, b)
  PROVE  Laid(g)
<1>1. N \in Nat /\ DOMAIN h = 1..N /\ DOMAIN g = 1..N
  BY DEF Chain
<1>2. \A k \in 1..N : g[k].addr = h[k].addr /\ End(g[k]) = End(h[k])
  BY DEF MarkOf, End
<1>3. 1 \in 1..N
  BY <1>1 DEF Laid
<1>4. g # <<>>
  BY <1>1, <1>3
<1> QED
  BY <1>1, <1>2, <1>3, <1>4 DEF Laid

\* Neither does taking a whole block, which accounts for one more pointer.
LEMMA TakeWholeKeeps ==
  ASSUME NEW h, NEW N, Chain(h, N), Laid(h), Merged(h),
         NEW u, Accounts(h, u),
         NEW n \in Nat, NEW i \in 1..N, h[i].is_free, h[i].size >= n,
         NEW g, Chain(g, N), MarkOf(g, h, N, i, FALSE),
         NEW v, Adds(v, u, h[i], n)
  PROVE  Laid(g) /\ Accounts(g, v) /\ Merged(g)
<1> DEFINE p == h[i].addr + HEADER
<1>1. N \in Nat /\ DOMAIN h = 1..N /\ DOMAIN g = 1..N /\ HEADER \in Nat
  BY HeapAssumption DEF Chain
<1>2. \A k \in 1..N : h[k].addr \in Nat /\ h[k].size \in Nat /\ h[k].is_free \in BOOLEAN
  BY DEF Chain
<1>3. \A k \in 1..N : /\ g[k].addr = h[k].addr /\ g[k].size = h[k].size
                      /\ g[k].is_free = IF k = i THEN FALSE ELSE h[k].is_free
  BY DEF MarkOf
<1>4. /\ p \in Nat /\ DOMAIN v = DOMAIN u \cup {p} /\ v[p] = n
      /\ \A q \in DOMAIN u : q # p => v[q] = u[q]
  <2>1. DOMAIN v = DOMAIN u \cup {p} /\ \A q \in DOMAIN v : v[q] = IF q = p THEN n ELSE u[q]
    BY DEF Adds
  <2> QED
    BY <1>1, <1>2, <2>1
<1>5. ASSUME NEW k \in 1..N, k # i
      PROVE  h[k].addr + HEADER # p
  <2>1. h[k].addr # h[i].addr
    BY <1>1, <1>5, LaidDistinct
  <2>2. h[k].addr \in Nat /\ h[i].addr \in Nat /\ HEADER \in Nat
    BY <1>1, <1>2
  <2>3. \A a, b, c \in Nat : a # b => a + c # b + c
    OBVIOUS
  <2> QED
    BY <2>1, <2>2, <2>3
<1> HIDE DEF p
<1>6. Laid(g)
  BY MarkKeepsLaid
<1>7. Accounts(g, v)
  <2>1. \A q \in DOMAIN v : q \in Nat /\ v[q] \in Nat
    BY <1>4 DEF Accounts
  <2>2. ASSUME NEW q \in DOMAIN v
        PROVE  \E k \in DOMAIN g : ~g[k].is_free /\ q = g[k].addr + HEADER
    <3>1. CASE q = p
      BY <1>1, <1>3, <3>1 DEF p
    <3>2. CASE q # p
      <4>1. PICK j \in DOMAIN h : ~h[j].is_free /\ q = h[j].addr + HEADER
        BY <1>4, <3>2 DEF Accounts
      <4> QED
        BY <1>1, <1>3, <4>1
    <3> QED
      BY <3>1, <3>2
  <2>3. ASSUME NEW k \in DOMAIN g, ~g[k].is_free
        PROVE  g[k].addr + HEADER \in DOMAIN v /\ g[k].size >= v[g[k].addr + HEADER]
    <3>1. CASE k = i
      BY <1>1, <1>3, <1>4, <3>1 DEF p
    <3>2. CASE k # i
      <4>1. g[k].addr + HEADER = h[k].addr + HEADER /\ g[k].size = h[k].size
            /\ ~h[k].is_free /\ h[k].addr + HEADER # p
        BY <1>1, <1>3, <1>5, <2>3, <3>2
      <4>2. h[k].addr + HEADER \in DOMAIN u /\ h[k].size >= u[h[k].addr + HEADER]
        BY <1>1, <4>1 DEF Accounts
      <4> QED
        BY <1>4, <4>1, <4>2
    <3> QED
      BY <3>1, <3>2
  <2> QED
    BY <2>1, <2>2, <2>3 DEF Accounts
<1>8. Merged(g)
  <2> SUFFICES ASSUME NEW j \in DOMAIN g, NEW k \in DOMAIN g, k = j + 1,
                      g[j].is_free, g[k].is_free
               PROVE  FALSE
    BY DEF Merged
  <2>1. h[j].is_free /\ h[k].is_free
    BY <1>1, <1>3
  <2> QED
    BY <1>1, <2>1 DEF Merged
<1> QED
  BY <1>6, <1>7, <1>8

-----------------------------------------------------------------------------
(* The chain that Coalesced builds.                                        *)

\* A chain of N blocks falls into R runs, which start at the blocks K: run k
\* goes from first[k] to last[k].  The runs follow each other and cover the chain.
InRuns(N, K, R, first, last) ==
  /\ R \in Nat /\ R > 0 /\ first[1] = 1
  /\ \A k \in 1..R : first[k] \in 1..N /\ first[k] \in K /\ last[k] \in first[k]..N
  /\ \A k, m \in 1..R : k < m => last[k] < first[m]
  /\ \A k, m \in 1..R : m = k + 1 => first[m] = last[k] + 1
  /\ \A k \in 1..R : \A i \in 1..N : first[k] < i /\ i <= last[k] => i \notin K
  /\ \A i \in K : \E k \in 1..R : first[k] = i

Firsts(h) == [k \in 1..Cardinality(Kept(h)) |-> Nth(Kept(h), k)]
Lasts(h)  == [k \in 1..Cardinality(Kept(h)) |-> RunEnd(h, k)]

\* The runs of Coalesced are such runs.
LEMMA Runs ==
  ASSUME NEW h, NEW N, Chain(h, N), h # <<>>, N > 0, Len(h) = N
  PROVE  InRuns(N, Kept(h), Cardinality(Kept(h)), Firsts(h), Lasts(h))
<1> DEFINE K == Kept(h)
           R == Cardinality(K)
           F(k) == Nth(K, k)
<1>1. N \in Nat /\ DOMAIN h = 1..N
  BY DEF Chain
<1>2. K \in SUBSET (1..N) /\ 1 \in K /\ K \in SUBSET Int
  BY <1>1 DEF Kept
<1>3. IsFiniteSet(K)
  BY <1>1, <1>2, FS_Interval, FS_Subset
<1>4. R \in Nat /\ \A i \in K : Rank(K, i) \in 1..R
  BY <1>2, <1>3, RankProperties
<1>5. R > 0 /\ 1 \in 1..R
  BY <1>2, <1>4
<1>6. /\ \A k \in 1..R : F(k) \in K /\ Rank(K, F(k)) = k
      /\ \A k, m \in 1..R : k < m => F(k) < F(m)
      /\ \A i \in K : F(Rank(K, i)) = i
  BY <1>2, <1>3, NthProperties
<1>7. \A i, j \in K : i < j => Rank(K, i) < Rank(K, j)
  BY <1>2, <1>3, RankProperties
<1> HIDE DEF K, R, F
<1>8. \A k \in 1..R : F(k) \in 1..N /\ F(k) \in K
  BY <1>2, <1>6
<1>9. F(1) = 1
  <2>1. Rank(K, 1) \in 1..R
    BY <1>2, <1>4
  <2>2. CASE Rank(K, 1) = 1
    BY <1>2, <1>6, <2>2
  <2>3. CASE Rank(K, 1) > 1
    <3>1. F(1) < F(Rank(K, 1))
      BY <1>4, <1>5, <1>6, <2>1, <2>3
    <3>2. F(1) < 1
      BY <1>2, <1>6, <3>1
    <3> QED
      BY <1>1, <1>5, <1>8, <3>2
  <2> QED
    BY <1>4, <2>1, <2>2, <2>3
<1>10. \A k \in 1..R : RunEnd(h, k) = IF k < R THEN F(k + 1) - 1 ELSE N
  BY DEF RunEnd, K, R, F
<1>11. ASSUME NEW k \in 1..R
       PROVE  RunEnd(h, k) \in F(k)..N
  <2>1. CASE k < R
    <3>1. k + 1 \in 1..R /\ k < k + 1
      BY <1>4, <2>1
    <3>2. F(k) < F(k + 1) /\ F(k + 1) \in 1..N /\ F(k) \in 1..N
      BY <1>6, <1>8, <3>1
    <3> QED
      BY <1>1, <1>10, <2>1, <3>2
  <2>2. CASE ~(k < R)
    BY <1>1, <1>8, <1>10, <2>2
  <2> QED
    BY <2>1, <2>2
<1>12. ASSUME NEW k \in 1..R, NEW m \in 1..R, k < m
       PROVE  RunEnd(h, k) < F(m)
  <2>1. k < R /\ k + 1 \in 1..R /\ (k + 1 = m \/ k + 1 < m)
    BY <1>4, <1>12
  <2>2. F(k + 1) <= F(m) /\ F(k + 1) \in 1..N /\ F(m) \in 1..N
    BY <1>1, <1>6, <1>8, <2>1
  <2> QED
    BY <1>1, <1>10, <2>1, <2>2
<1>13. ASSUME NEW k \in 1..R, NEW m \in 1..R, m = k + 1
       PROVE  F(m) = RunEnd(h, k) + 1
  <2>1. k < R /\ F(k + 1) \in 1..N
    BY <1>4, <1>8, <1>13
  <2> QED
    BY <1>1, <1>10, <1>13, <2>1
<1>14. ASSUME NEW k \in 1..R, NEW i \in 1..N, F(k) < i, i <= RunEnd(h, k), i \in K
       PROVE  FALSE
  <2>1. k < Rank(K, i) /\ Rank(K, i) \in 1..R
    <3>1. Rank(K, F(k)) < Rank(K, i)
      BY <1>7, <1>8, <1>14
    <3> QED
      BY <1>4, <1>6, <1>14, <3>1
  <2>2. F(Rank(K, i)) = i
    BY <1>6, <1>14
  <2>3. RunEnd(h, k) < i
    BY <1>12, <2>1, <2>2
  <2>4. RunEnd(h, k) \in Int /\ i \in Int
    BY <1>1, <1>8, <1>11
  <2> QED
    BY <1>14, <2>3, <2>4
<1>15. \A i \in K : \E k \in 1..R : F(k) = i
  BY <1>4, <1>6
<1>16. \A k \in 1..R : Firsts(h)[k] = F(k) /\ Lasts(h)[k] = RunEnd(h, k)
  BY DEF Firsts, Lasts, K, R, F
<1> DEFINE first == Firsts(h)
           last == Lasts(h)
<1>17. \A k \in 1..R : first[k] = F(k) /\ last[k] = RunEnd(h, k)
  BY <1>16
<1> HIDE DEF first, last
<1>18. R \in Nat /\ R > 0 /\ first[1] = 1
  BY <1>4, <1>5, <1>9, <1>17
<1>19. \A k \in 1..R : first[k] \in 1..N /\ first[k] \in K /\ last[k] \in first[k]..N
  BY <1>8, <1>11, <1>17
<1>20. \A k, m \in 1..R : k < m => last[k] < first[m]
  BY <1>12, <1>17
<1>21. \A k, m \in 1..R : m = k + 1 => first[m] = last[k] + 1
  BY <1>13, <1>17
<1>22. \A k \in 1..R : \A i \in 1..N : first[k] < i /\ i <= last[k] => i \notin K
  BY <1>14, <1>17
<1>23. \A i \in K : \E k \in 1..R : first[k] = i
  BY <1>15, <1>17
<1>24. InRuns(N, K, R, first, last)
  BY <1>18, <1>19, <1>20, <1>21, <1>22, <1>23, Zenon DEF InRuns
<1> QED
  BY <1>24, Zenon DEF K, R, first, last

\* Block k of the merged chain g is the first block of run k, with the size the
\* code gives it: its own, or a header and the size of the last block of the run.
RunsOf(g, h, R, first, last) ==
  \A k \in 1..R :
    /\ g[k].addr = h[first[k]].addr /\ g[k].is_free = h[first[k]].is_free
    /\ g[k].size = IF first[k] = last[k] THEN h[first[k]].size ELSE HEADER + h[last[k]].size

\* Merging the free runs of a chain in order leaves a chain in order, with the
\* same blocks in use and without free neighbours.  The wrong size is harmless
\* here: it never reaches behind the end of the last block of the run.
LEMMA MergeKeeps ==
  ASSUME NEW h, NEW N, Chain(h, N), Laid(h), Len(h) = N,
         NEW u, Accounts(h, u),
         NEW g, g = Coalesced(h)
  PROVE  g \in Seq(Blocks) /\ Laid(g) /\ Accounts(g, u) /\ Merged(g)
<1> DEFINE K == Kept(h)
           R == Cardinality(K)
           first == Firsts(h)
           last == Lasts(h)
<1>1. N \in Nat /\ DOMAIN h = 1..N /\ HEADER \in Nat /\ HEAP_END \in Nat
  BY HeapAssumption DEF Chain
<1>2. \A k \in 1..N : h[k].addr \in Nat /\ h[k].size \in Nat /\ h[k].is_free \in BOOLEAN
  BY DEF Chain
<1>3. h # <<>> /\ N > 0 /\ h[1].addr = HEAP_START
  BY <1>1 DEF Laid
<1>4. \A i \in 1..N : i \notin K => i - 1 \in 1..N /\ h[i].is_free /\ h[i - 1].is_free
  BY <1>1 DEF Kept
<1>5. \A i \in K : i = 1 \/ ~(h[i - 1].is_free /\ h[i].is_free)
  BY DEF Kept
<1>6. /\ R \in Nat /\ R > 0 /\ first[1] = 1
      /\ \A k \in 1..R : first[k] \in 1..N /\ first[k] \in K /\ last[k] \in first[k]..N
      /\ \A k, m \in 1..R : k < m => last[k] < first[m]
      /\ \A k, m \in 1..R : m = k + 1 => first[m] = last[k] + 1
      /\ \A k \in 1..R : \A i \in 1..N : first[k] < i /\ i <= last[k] => i \notin K
      /\ \A i \in K : \E k \in 1..R : first[k] = i
  <2>1. InRuns(N, K, R, first, last)
    BY <1>3, Runs, Zenon
  <2> HIDE DEF K, R, first, last
  <2> QED
    BY <2>1, Zenon DEF InRuns
<1>7. DOMAIN g = 1..R /\ RunsOf(g, h, R, first, last)
  BY DEF Coalesced, RunsOf, Firsts, Lasts
<1> HIDE DEF K, R, first, last
<1>8. ASSUME NEW k \in 1..R
      PROVE  /\ first[k] \in 1..N /\ last[k] \in 1..N /\ first[k] <= last[k]
             /\ g[k].addr = h[first[k]].addr /\ g[k].is_free = h[first[k]].is_free
             /\ g[k].size = IF first[k] = last[k] THEN h[first[k]].size ELSE HEADER + h[last[k]].size
  BY <1>1, <1>6, <1>7 DEF RunsOf
<1>9. Chain(g, R)
  <2>1. ASSUME NEW k \in 1..R
        PROVE  /\ g[k] \in Blocks
               /\ g[k].addr \in Nat /\ g[k].size \in Nat /\ g[k].is_free \in BOOLEAN
    <3> DEFINE f == h[first[k]]
               t == h[last[k]]
    <3>1. /\ f \in Blocks /\ t \in Blocks
          /\ g[k] = IF first[k] = last[k] THEN f ELSE [f EXCEPT !.size = HEADER + t.size]
      BY <1>1, <1>8 DEF Chain, Coalesced, first, last, Firsts, Lasts, R, K
    <3>2. HEADER \in Nat
      BY <1>1
    <3> HIDE DEF f, t
    <3>3. g[k] \in Blocks
      BY <3>1, <3>2 DEF Blocks
    <3> QED
      BY <3>3 DEF Blocks
  <2> QED
    BY <1>6, <1>7, <2>1 DEF Chain
\* A merged block ends where its last block did, or before.
<1>10. ASSUME NEW k \in 1..R
       PROVE  End(g[k]) <= End(h[last[k]])
  <2>1. CASE first[k] = last[k]
    BY <1>1, <1>2, <1>8, <2>1 DEF End
  <2>2. CASE first[k] < last[k]
    <3>1. End(h[first[k]]) <= h[last[k]].addr
      BY <1>1, <1>8, <2>2 DEF Laid
    <3>2. /\ h[first[k]].addr \in Nat /\ h[first[k]].size \in Nat
          /\ h[last[k]].addr \in Nat /\ h[last[k]].size \in Nat
          /\ g[k].addr = h[first[k]].addr /\ g[k].size = HEADER + h[last[k]].size
      BY <1>1, <1>2, <1>8, <2>2
    <3> DEFINE a == h[first[k]].addr
               s == h[first[k]].size
               b == h[last[k]].addr
               t == h[last[k]].size
    <3>3. HEADER \in Nat /\ a \in Nat /\ s \in Nat /\ b \in Nat /\ t \in Nat
      BY <1>1, <3>2
    <3>4. End(g[k]) = a + HEADER + (HEADER + t)
      BY <3>2 DEF End
    <3>5. End(h[last[k]]) = b + HEADER + t
      BY DEF End
    <3>6. a + HEADER + s <= b
      BY <3>1 DEF End
    <3> HIDE DEF a, s, b, t
    <3>7. a + HEADER + (HEADER + t) <= b + HEADER + t
      BY <3>3, <3>6
    <3> QED
      BY <3>4, <3>5, <3>7
  <2> QED
    BY <1>8, <2>1, <2>2
<1>11. Laid(g)
  <2>1. ASSUME NEW j \in DOMAIN g, NEW k \in DOMAIN g, j < k
        PROVE  End(g[j]) <= g[k].addr
    <3>1. End(g[j]) <= End(h[last[j]]) /\ last[j] < first[k]
      BY <1>6, <1>7, <1>10, <2>1
    <3>2. End(h[last[j]]) <= h[first[k]].addr
      BY <1>1, <1>7, <1>8, <3>1 DEF Laid
    <3>3. End(g[j]) \in Nat /\ End(h[last[j]]) \in Nat /\ h[first[k]].addr \in Nat
          /\ g[k].addr = h[first[k]].addr
      <4>1. g[j].addr \in Nat /\ g[j].size \in Nat
        BY <1>7, <1>9 DEF Chain
      <4>2. h[last[j]].addr \in Nat /\ h[last[j]].size \in Nat /\ HEADER \in Nat
        BY <1>1, <1>2, <1>7, <1>8
      <4>3. End(g[j]) \in Nat /\ End(h[last[j]]) \in Nat
        BY <4>1, <4>2, EndIsNat
      <4> QED
        BY <1>2, <1>7, <1>8, <4>3
    <3> QED
      BY <3>1, <3>2, <3>3
  <2>2. ASSUME NEW k \in DOMAIN g
        PROVE  End(g[k]) <= HEAP_END
    <3>1. End(g[k]) <= End(h[last[k]]) /\ End(h[last[k]]) <= HEAP_END
      BY <1>1, <1>7, <1>8, <1>10 DEF Laid
    <3>2. End(g[k]) \in Nat /\ End(h[last[k]]) \in Nat
      <4>1. g[k].addr \in Nat /\ g[k].size \in Nat
        BY <1>7, <1>9 DEF Chain
      <4>2. h[last[k]].addr \in Nat /\ h[last[k]].size \in Nat
        BY <1>2, <1>7, <1>8
      <4> QED
        BY <4>1, <4>2, EndIsNat
    <3> QED
      BY <1>1, <3>1, <3>2
  <2>3. g # <<>> /\ g[1].addr = HEAP_START
    <3>1. 1 \in 1..R
      BY <1>6
    <3> QED
      BY <1>3, <1>6, <1>7, <1>8, <3>1
  <2> QED
    BY <2>1, <2>2, <2>3 DEF Laid
\* A block in use is a run of its own.
<1>12. ASSUME NEW i \in 1..N, ~h[i].is_free
       PROVE  \E k \in 1..R : first[k] = i /\ last[k] = i
  <2>1. i \in K
    BY <1>4, <1>12
  <2>2. PICK k \in 1..R : first[k] = i
    BY <1>6, <2>1
  <2>3. CASE last[k] = i
    BY <2>2, <2>3
  <2>4. CASE i < last[k]
    <3>1. i + 1 \in 1..N /\ first[k] < i + 1 /\ i + 1 <= last[k]
      BY <1>1, <1>8, <2>2, <2>4
    <3>2. i + 1 \notin K
      BY <1>6, <3>1
    <3>3. h[(i + 1) - 1].is_free
      BY <1>4, <3>1, <3>2
    <3> QED
      BY <1>1, <1>12, <3>3
  <2> QED
    BY <1>1, <1>8, <2>2, <2>3, <2>4
\* A free block that starts a run ends it with a free block.
<1>13. ASSUME NEW k \in 1..R, h[first[k]].is_free
       PROVE  h[last[k]].is_free
  <2>1. CASE first[k] = last[k]
    BY <1>13, <2>1
  <2>2. CASE first[k] < last[k]
    <3>1. last[k] \notin K
      BY <1>1, <1>6, <1>8, <2>2
    <3> QED
      BY <1>4, <1>8, <3>1
  <2> QED
    BY <1>8, <2>1, <2>2
<1>14. Accounts(g, u)
  <2>1. ASSUME NEW q \in DOMAIN u
        PROVE  \E k \in DOMAIN g : ~g[k].is_free /\ q = g[k].addr + HEADER
    <3>1. PICK i \in 1..N : ~h[i].is_free /\ q = h[i].addr + HEADER
      BY <1>1 DEF Accounts
    <3>2. PICK k \in 1..R : first[k] = i /\ last[k] = i
      BY <1>12, <3>1
    <3> QED
      BY <1>7, <1>8, <3>1, <3>2
  <2>2. ASSUME NEW k \in DOMAIN g, ~g[k].is_free
        PROVE  g[k].addr + HEADER \in DOMAIN u /\ g[k].size >= u[g[k].addr + HEADER]
    <3>1. ~h[first[k]].is_free /\ first[k] \in 1..N
      BY <1>7, <1>8, <2>2
    <3>2. PICK m \in 1..R : first[m] = first[k] /\ last[m] = first[k]
      BY <1>12, <3>1
    <3>3. m = k
      <4>1. m < k => last[m] < first[k]
        BY <1>6, <1>7
      <4>2. k < m => last[k] < first[m] /\ first[k] <= last[k]
        BY <1>6, <1>7, <1>8
      <4> QED
        BY <1>1, <1>6, <1>7, <1>8, <3>2, <4>1, <4>2
    <3>4. g[k].addr = h[first[k]].addr /\ g[k].size = h[first[k]].size
      BY <1>7, <1>8, <3>2, <3>3
    <3> QED
      BY <1>1, <3>1, <3>4 DEF Accounts
  <2> QED
    BY <2>1, <2>2 DEF Accounts
<1>15. Merged(g)
  <2> SUFFICES ASSUME NEW j \in 1..R, NEW k \in 1..R, k = j + 1, g[j].is_free, g[k].is_free
               PROVE  FALSE
    BY <1>7 DEF Merged
  <2>1. h[last[j]].is_free /\ h[first[k]].is_free
    BY <1>8, <1>13
  <2>2. first[k] = last[j] + 1 /\ first[k] \in K /\ last[j] \in 1..N
    BY <1>6, <1>8
  <2>3. first[k] # 1 /\ first[k] - 1 = last[j]
    BY <1>1, <2>2
  <2> QED
    BY <1>5, <2>1, <2>2, <2>3
<1>16. g \in Seq(Blocks)
  <2>1. g = [k \in 1..R |-> g[k]]
    BY <1>7 DEF Coalesced, R, K
  <2>2. \A k \in 1..R : g[k] \in Blocks
    BY <1>9 DEF Chain
  <2> QED
    BY <1>6, <2>1, <2>2
<1> QED
  BY <1>11, <1>14, <1>15, <1>16

\* Freeing the block of pointer p takes p, and only p, off the account.
LEMMA FreeAccounts ==
  ASSUME NEW h, NEW N, Chain(h, N), Laid(h),
         NEW u, Accounts(h, u),
         NEW i \in 1..N, h[i].addr + HEADER \in DOMAIN u,
         NEW g, Chain(g, N), MarkOf(g, h, N, i, TRUE),
         NEW v, DOMAIN v = DOMAIN u \ {h[i].addr + HEADER},
         \A q \in DOMAIN v : v[q] = u[q]
  PROVE  Accounts(g, v)
<1> DEFINE p == h[i].addr + HEADER
<1>1. DOMAIN h = 1..N /\ DOMAIN g = 1..N /\ HEADER \in Nat
  BY HeapAssumption DEF Chain
<1>2. \A k \in 1..N : h[k].addr \in Nat
  BY DEF Chain
<1>3. \A k \in 1..N : /\ g[k].addr = h[k].addr /\ g[k].size = h[k].size
                      /\ g[k].is_free = IF k = i THEN TRUE ELSE h[k].is_free
  BY DEF MarkOf
<1>4. ASSUME NEW k \in 1..N, k # i
      PROVE  h[k].addr + HEADER # p
  <2>1. h[k].addr # h[i].addr
    BY <1>1, <1>4, LaidDistinct
  <2> QED
    BY <1>1, <1>2, <2>1
<1> HIDE DEF p
<1>5. DOMAIN v = DOMAIN u \ {p}
  BY DEF p
<1>6. ASSUME NEW q \in DOMAIN v
      PROVE  \E k \in DOMAIN g : ~g[k].is_free /\ q = g[k].addr + HEADER
  <2>1. PICK k \in 1..N : ~h[k].is_free /\ q = h[k].addr + HEADER
    BY <1>1, <1>5 DEF Accounts
  <2>2. k # i
    BY <1>5, <2>1 DEF p
  <2> QED
    BY <1>1, <1>3, <2>1, <2>2
<1>7. ASSUME NEW k \in DOMAIN g, ~g[k].is_free
      PROVE  g[k].addr + HEADER \in DOMAIN v /\ g[k].size >= v[g[k].addr + HEADER]
  <2>1. k # i /\ ~h[k].is_free /\ k \in 1..N
    BY <1>1, <1>3, <1>7
  <2>2. h[k].addr + HEADER \in DOMAIN u /\ h[k].size >= u[h[k].addr + HEADER]
    BY <1>1, <2>1 DEF Accounts
  <2>3. h[k].addr + HEADER \in DOMAIN v
    BY <1>4, <1>5, <2>1, <2>2
  <2>4. g[k].addr = h[k].addr /\ g[k].size = h[k].size
    BY <1>3, <2>1
  <2> QED
    BY <2>2, <2>3, <2>4
<1>8. \A q \in DOMAIN v : q \in Nat /\ v[q] \in Nat
  BY <1>5 DEF Accounts
<1> QED
  BY <1>6, <1>7, <1>8 DEF Accounts

-----------------------------------------------------------------------------
(* The steps of the heap.                                                  *)

\* kmalloc takes the first block that fits, whole or split, or changes nothing.
LEMMA KmallocKeeps ==
  ASSUME HeapInv, NEW n \in Sizes, kmalloc(n)
  PROVE  HeapInv'
<1> DEFINE N == Len(heap)
<1>1. CASE n = 0 \/ Fit(n) = {}
  BY <1>1 DEF kmalloc, vars, HeapInv, Laid, Accounts, Merged
<1>2. CASE n # 0 /\ Fit(n) # {}
  <2> DEFINE i == Least(Fit(n))
  <2>1. /\ heap' = Taken(i, n)
        /\ held' = [q \in DOMAIN held \cup {heap[i].addr + HEADER} |->
                      IF q = heap[i].addr + HEADER THEN n ELSE held[q]]
    BY <1>2 DEF kmalloc
  <2>2. heap \in Seq(Blocks) /\ Laid(heap) /\ Accounts(heap, held) /\ Merged(heap)
    BY DEF HeapInv
  <2>3. Chain(heap, N) /\ DOMAIN heap = 1..N /\ N \in Nat
    BY <2>2, SeqIsChain DEF Chain
  <2>4. i \in Fit(n)
    <3>1. Fit(n) \in SUBSET (1..N) /\ Fit(n) \in SUBSET Int
      BY <2>3 DEF Fit
    <3>2. IsFiniteSet(1..N)
      BY <2>3, FS_Interval
    <3>3. IsFiniteSet(Fit(n))
      BY <3>1, <3>2, FS_Subset
    <3> QED
      BY <1>2, <3>1, <3>3, LeastProperties
  <2> HIDE DEF i
  <2>5. i \in 1..N /\ heap[i].is_free /\ heap[i].size >= n
    BY <2>3, <2>4 DEF Fit
  <2>6. n \in Nat
    BY HeapAssumption
  <2>7. Adds(held', held, heap[i], n)
    BY <2>1 DEF Adds
  <2>8. CASE Splits(i, n)
    <3> DEFINE x == Header(heap[i].addr, n, FALSE)
               y == Header(heap[i].addr + HEADER + n, heap[i].size - n - HEADER, TRUE)
    <3>1. heap[i].size >= n + HEADER + MIN_SPLIT
      BY <2>8 DEF Splits
    <3>2. heap[i].addr \in Nat /\ heap[i].size \in Nat
      BY <2>3, <2>5 DEF Chain
    <3>3. HEADER \in Nat /\ MIN_SPLIT \in Nat
      BY HeapAssumption
    <3>4. heap[i].addr + HEADER + n \in Nat /\ heap[i].size - n - HEADER \in Nat
      BY <2>6, <3>1, <3>2, <3>3
    <3>5. x \in Blocks /\ y \in Blocks
      BY <2>6, <3>2, <3>4 DEF Header, Blocks
    <3>6. /\ x.addr = heap[i].addr /\ x.size = n /\ ~x.is_free
          /\ y.addr = heap[i].addr + HEADER + n /\ y.size = heap[i].size - n - HEADER /\ y.is_free
      BY DEF Header
    <3>7. heap' = Spliced(heap, i, x, y)
      BY <2>1, <2>8 DEF Taken, Spliced
    <3> HIDE DEF x, y
    <3>8. /\ heap' \in Seq(Blocks) /\ DOMAIN heap' = 1..(N + 1) /\ Len(heap') = N + 1
          /\ \A k \in 1..(N + 1) :
               heap'[k] = IF k < i THEN heap[k] ELSE IF k = i THEN x
                          ELSE IF k = i + 1 THEN y ELSE heap[k - 1]
      <4>1. heap \in Seq(Blocks) /\ i \in 1..Len(heap)
        BY <2>2, <2>5
      <4>2. IsSpliced(heap', heap, i, x, y)
        BY <3>5, <3>7, <4>1, SplitChain, Zenon
      <4> QED
        BY <4>2, Zenon DEF IsSpliced
    <3>9. Chain(heap', N + 1)
      BY <3>8, SeqIsChain
    <3>10. SplitOf(heap', heap, N, i, n)
      <4>1. \A k \in 1..(N + 1) : /\ k < i => heap'[k] = heap[k]
                                  /\ k = i => heap'[k] = x
                                  /\ k = i + 1 => heap'[k] = y
                                  /\ k > i + 1 => heap'[k] = heap[k - 1]
        BY <2>3, <2>5, <3>8
      <4> QED
        BY <3>5, <3>6, <4>1 DEF SplitOf
    <3> HIDE DEF N
    <3>11. Laid(heap') /\ Accounts(heap', held') /\ Merged(heap')
      BY <2>2, <2>3, <2>5, <2>6, <2>7, <3>1, <3>9, <3>10, SplitKeeps
    <3> QED
      BY <3>8, <3>11 DEF HeapInv, Laid, Accounts, Merged
  <2>9. CASE ~Splits(i, n)
    <3>1. heap' = [heap EXCEPT ![i].is_free = FALSE]
      BY <2>1, <2>9 DEF Taken
    <3>2. \A k \in 1..N : heap[k] \in Blocks
      BY <2>3 DEF Chain
    <3>3. DOMAIN heap' = 1..N
          /\ \A k \in 1..N : heap'[k] = IF k = i THEN [heap[i] EXCEPT !.is_free = FALSE] ELSE heap[k]
      BY <2>3, <2>5, <3>1
    <3>4. \A k \in 1..N : heap'[k] \in Blocks
      BY <2>5, <3>2, <3>3 DEF Blocks
    <3>5. heap' \in Seq(Blocks) /\ Len(heap') = N
      <4>1. heap' = [k \in 1..N |-> heap'[k]]
        BY <2>3, <3>1
      <4> QED
        BY <2>3, <3>4, <4>1, LenProperties
    <3>6. MarkOf(heap', heap, N, i, FALSE)
      <4>1. heap[i] \in Blocks /\ heap'[i] = [heap[i] EXCEPT !.is_free = FALSE]
        BY <2>5, <3>2, <3>3
      <4>2. heap'[i].addr = heap[i].addr /\ heap'[i].size = heap[i].size /\ heap'[i].is_free = FALSE
        BY <4>1 DEF Blocks
      <4>3. \A k \in 1..N : k # i => heap'[k] = heap[k]
        BY <3>3
      <4> QED
        BY <4>2, <4>3 DEF MarkOf
    <3>7. Chain(heap', N)
      BY <3>5, SeqIsChain
    <3> HIDE DEF N
    <3>8. Laid(heap') /\ Accounts(heap', held') /\ Merged(heap')
      BY <2>2, <2>3, <2>5, <2>6, <2>7, <3>6, <3>7, TakeWholeKeeps
    <3> QED
      BY <3>5, <3>8 DEF HeapInv, Laid, Accounts, Merged
  <2> QED
    BY <2>8, <2>9
<1> QED
  BY <1>1, <1>2

\* kfree marks the block of its pointer, and only that one, and merges.
LEMMA KfreeKeeps ==
  ASSUME HeapInv, NEW p \in DOMAIN held, kfree(p)
  PROVE  HeapInv'
<1> DEFINE N == Len(heap)
           g == [k \in DOMAIN heap |->
                   IF heap[k].addr = p - HEADER THEN [heap[k] EXCEPT !.is_free = TRUE]
                   ELSE heap[k]]
<1>1. heap' = Coalesced(g) /\ held' = [q \in DOMAIN held \ {p} |-> held[q]]
  BY DEF kfree
<1>2. heap \in Seq(Blocks) /\ Laid(heap) /\ Accounts(heap, held)
  BY DEF HeapInv
<1>3. Chain(heap, N) /\ DOMAIN heap = 1..N /\ N \in Nat
  BY <1>2, SeqIsChain DEF Chain
<1>4. PICK i \in 1..N : ~heap[i].is_free /\ p = heap[i].addr + HEADER
  BY <1>2, <1>3 DEF Accounts
<1>5. \A k \in 1..N : heap[k] \in Blocks /\ heap[k].addr \in Nat
  BY <1>3 DEF Chain
<1>6. ASSUME NEW k \in 1..N
      PROVE  heap[k].addr = p - HEADER <=> k = i
  <2>1. p - HEADER = heap[i].addr
    BY <1>4, <1>5, HeapAssumption
  <2> QED
    BY <1>2, <1>3, <2>1, LaidDistinct
<1>7. \A k \in 1..N : g[k] = IF k = i THEN [heap[k] EXCEPT !.is_free = TRUE] ELSE heap[k]
  BY <1>3, <1>6
<1>8. g = [k \in 1..N |-> g[k]]
  BY <1>3
<1> HIDE DEF g
<1>9. \A k \in 1..N : g[k] \in Blocks
  BY <1>5, <1>7 DEF Blocks
<1>10. g \in Seq(Blocks) /\ Len(g) = N
  BY <1>3, <1>8, <1>9, LenProperties
<1>11. MarkOf(g, heap, N, i, TRUE)
  BY <1>5, <1>7 DEF MarkOf, Blocks
<1>12. Chain(g, N)
  BY <1>10, SeqIsChain
<1> HIDE DEF N
<1>13. Laid(g)
  BY <1>2, <1>3, <1>11, <1>12, MarkKeepsLaid
<1>14. Accounts(g, held')
  <2>1. heap[i].addr + HEADER \in DOMAIN held
    BY <1>4
  <2>2. /\ DOMAIN held' = DOMAIN held \ {heap[i].addr + HEADER}
        /\ \A q \in DOMAIN held' : held'[q] = held[q]
    BY <1>1, <1>4
  <2> QED
    BY <1>2, <1>3, <1>11, <1>12, <2>1, <2>2, FreeAccounts
<1>15. heap' \in Seq(Blocks) /\ Laid(heap') /\ Accounts(heap', held') /\ Merged(heap')
  BY <1>1, <1>10, <1>12, <1>13, <1>14, MergeKeeps
<1> QED
  BY <1>15 DEF HeapInv, Laid, Accounts, Merged

\* kmalloc_init leaves one free block that fills the heap.
LEMMA HeapInvInit == Init => HeapInv
<1> SUFFICES ASSUME Init PROVE HeapInv
  OBVIOUS
<1> DEFINE b == Header(HEAP_START, HEAP_END - HEAP_START - HEADER, TRUE)
<1>1. /\ HEAP_START \in Nat /\ HEAP_END \in Nat /\ HEADER \in Nat
      /\ HEAP_END - HEAP_START - HEADER \in Nat
  BY HeapAssumption
<1>2. b \in Blocks /\ b.addr = HEAP_START /\ b.is_free /\ b.size = HEAP_END - HEAP_START - HEADER
  BY <1>1 DEF Header, Blocks
<1>4. heap = <<b>> /\ held = <<>>
  BY DEF Init
<1> HIDE DEF b
<1>3. End(b) = HEAP_END
  BY <1>1, <1>2 DEF End
<1>5. heap \in Seq(Blocks) /\ DOMAIN heap = {1} /\ heap[1] = b /\ heap # <<>>
  BY <1>2, <1>4
<1>6. Laid(heap)
  BY <1>1, <1>2, <1>3, <1>5 DEF Laid
<1>7. Accounts(heap, held)
  BY <1>2, <1>4, <1>5 DEF Accounts
<1>8. Merged(heap)
  BY <1>5 DEF Merged
<1> QED
  BY <1>5, <1>6, <1>7, <1>8 DEF HeapInv

\* HeapInv holds in every state of the heap.
THEOREM HeapInvariant == Spec => []HeapInv
<1>1. HeapInv /\ [Next]_vars => HeapInv'
  <2> SUFFICES ASSUME HeapInv, [Next]_vars PROVE HeapInv'
    OBVIOUS
  <2>1. CASE \E n \in Sizes : kmalloc(n)
    BY <2>1, KmallocKeeps
  <2>2. CASE \E p \in DOMAIN held : kfree(p)
    BY <2>2, KfreeKeeps
  <2>3. CASE UNCHANGED vars
    BY <2>3 DEF vars, HeapInv, Laid, Accounts, Merged
  <2> QED
    BY <2>1, <2>2, <2>3 DEF Next
<1> QED
  BY <1>1, HeapInvInit, PTL DEF Spec

\* Type correctness of the chain and of the pointers held.
THEOREM HeapTypeCorrect == Spec => []TypeOK
<1>1. HeapInv => TypeOK
  BY DEF HeapInv, TypeOK, Blocks, Accounts
<1> QED
  BY <1>1, HeapInvariant, PTL

\* Whatever the order of kmalloc and kfree, and although kfree computes the size
\* of a merged block wrongly, no block reaches into the next one or out of the
\* heap.
THEOREM HeapBlocksDisjoint == Spec => []BlocksDisjoint
<1>1. HeapInv => BlocksDisjoint
  <2> SUFFICES ASSUME HeapInv PROVE BlocksDisjoint
    OBVIOUS
  <2>1. Chain(heap, Len(heap)) /\ Laid(heap)
    BY SeqIsChain DEF HeapInv
  <2>2. DOMAIN heap = 1..Len(heap) /\ Len(heap) \in Nat
    BY <2>1 DEF Chain
  <2>3. ASSUME NEW i \in DOMAIN heap
        PROVE  heap[i].addr + HEADER + heap[i].size
                 <= IF i = Len(heap) THEN HEAP_END ELSE heap[i + 1].addr
    <3>1. CASE i = Len(heap)
      BY <2>1, <3>1 DEF Laid, End
    <3>2. CASE i # Len(heap)
      <4>1. i + 1 \in DOMAIN heap /\ i < i + 1
        BY <2>2, <3>2
      <4> QED
        BY <2>1, <3>2, <4>1 DEF Laid, End
    <3> QED
      BY <3>1, <3>2
  <2> QED
    BY <2>1, <2>3 DEF BlocksDisjoint, Laid
<1> QED
  BY <1>1, HeapInvariant, PTL

\* The pointers that callers hold are the payloads of the blocks marked in use,
\* one for one, each with room for what was asked for: kfree never frees, and
\* kmalloc never hands out, a block that someone else still holds.
THEOREM HeapHeldIsAllocated == Spec => []HeldIsAllocated
<1>1. HeapInv => HeldIsAllocated
  BY DEF HeapInv, Accounts, HeldIsAllocated
<1> QED
  BY <1>1, HeapInvariant, PTL

\* The one pass of kfree leaves no two neighbours free, on either side.
THEOREM HeapFullyMerged == Spec => []FullyMerged
<1>1. HeapInv => FullyMerged
  <2> SUFFICES ASSUME HeapInv PROVE FullyMerged
    OBVIOUS
  <2>1. Merged(heap) /\ DOMAIN heap = 1..Len(heap) /\ Len(heap) \in Nat
    BY SeqIsChain DEF HeapInv, Chain
  <2>2. ASSUME NEW i \in 1..(Len(heap) - 1)
        PROVE  ~(heap[i].is_free /\ heap[i + 1].is_free)
    <3>1. i \in DOMAIN heap /\ i + 1 \in DOMAIN heap
      BY <2>1
    <3> QED
      BY <2>1, <3>1 DEF Merged
  <2> QED
    BY <2>2 DEF FullyMerged
<1> QED
  BY <1>1, HeapInvariant, PTL

-----------------------------------------------------------------------------
(* The frames.  The PMM marks the frames below the end of the bitmap, and  *)
(* then the kernel puts its directory and the first header of the heap     *)
(* where the bitmap ends.                                                  *)

\* The bitmap is large enough for what the kernel overlays on its end, the
\* directory, to lie behind the bits of the reserved frames and of the three
\* frames of paging_init.
Room ==
  /\ frames_to_reserve + 3 <= total_frames
  /\ frames_to_reserve + 3 <= 8 * (frames_to_reserve * FRAME - BITMAP_ADDR)

\* The kernel's numbers leave that room if the memory, reduced modulo 4 GB, is
\* at least 130948 KB, which is 124 KB less than 128 MB.
THEOREM RoomFrom128M ==
  ASSUME FRAME = 4096, BITMAP_ADDR = 4194304, RamKB \in Nat, RamKB % 4194304 >= 130948
  PROVE  Room
<1> DEFINE X == RamKB % 4194304
<1>1. X \in Nat /\ X >= 130948 /\ X < 4194304
  OBVIOUS
<1> DEFINE T == X \div 4
<1>2. T \in Nat /\ T >= 32737 /\ T < 1048576
  BY <1>1
<1>3. total_frames = T
  BY DEF total_frames
<1> HIDE DEF X, T
<1> DEFINE W == (T + 31) \div 32
<1>4. W \in Nat /\ W >= 1024 /\ W <= 32768 /\ 32 * W <= T + 31
  BY <1>2
<1>5. heap_start = 4194304 + 4 * W
  BY <1>3 DEF heap_start, bitmap_bytes
<1> HIDE DEF W
<1> DEFINE N == (4 * W) \div 4096
<1>6. N \in Nat /\ N >= 1 /\ N <= 32
  BY <1>4
<1>7. (4194304 + 4 * W) \div 4096 = 1024 + N
  BY <1>4
<1>8. frames_to_reserve = 1024 + N
  BY <1>5, <1>7 DEF frames_to_reserve
<1> HIDE DEF N
<1> QED BY <1>2, <1>3, <1>6, <1>8 DEF Room

\* What the proof uses of the layout: R frames are reserved, T exist.
LEMMA Layout ==
  ASSUME Room
  PROVE  /\ total_frames \in Nat /\ frames_to_reserve \in Nat /\ heap_start \in Nat
         /\ FRAME \in Nat /\ FRAME > 0 /\ BITMAP_ADDR \in Nat
         /\ frames_to_reserve + 3 <= total_frames
         /\ frames_to_reserve * FRAME >= BITMAP_ADDR
         /\ frames_to_reserve * FRAME <= heap_start
         /\ frames_to_reserve + 3 <= 8 * (frames_to_reserve * FRAME - BITMAP_ADDR)
<1>0. FRAME \in Nat /\ FRAME >= 1024 /\ BITMAP_ADDR \in Nat /\ BITMAP_ADDR % FRAME = 0 /\ RamKB \in Nat
  BY BootAssumption
<1>1. total_frames \in Nat
  <2> DEFINE X == RamKB % 4194304
             Y == FRAME \div 1024
  <2>1. X \in Nat /\ Y \in Nat /\ Y > 0
    BY <1>0
  <2>2. total_frames = X \div Y
    BY DEF total_frames
  <2> HIDE DEF X, Y
  <2> QED BY <2>1, <2>2
<1>2. heap_start \in Nat /\ heap_start >= BITMAP_ADDR
  <2> DEFINE W == (total_frames + 31) \div 32
  <2>1. W \in Nat
    BY <1>1
  <2>2. heap_start = BITMAP_ADDR + 4 * W
    BY DEF heap_start, bitmap_bytes
  <2> HIDE DEF W
  <2> QED BY <1>0, <2>1, <2>2
<1> DEFINE H == heap_start
           R == frames_to_reserve
           M == H % FRAME
<1>3. R = H \div FRAME
  BY DEF frames_to_reserve
<1> HIDE DEF H, R
<1>4. R \in Nat /\ M \in Nat /\ M < FRAME /\ H = FRAME * R + M
  BY <1>0, <1>2, <1>3 DEF H
<1> DEFINE q == BITMAP_ADDR \div FRAME
<1>5. q \in Nat /\ BITMAP_ADDR = FRAME * q
  BY <1>0
<1> HIDE DEF q, M
<1>6. PICK a \in Nat : a = R * FRAME
  BY <1>0, <1>4
<1>7. H = a + M
  BY <1>0, <1>4, <1>6
<1>8. ~(R < q)
  <2> SUFFICES ASSUME R < q PROVE FALSE
    OBVIOUS
  <2>1. PICK d \in Nat : q = R + 1 + d
    <3>1. q - R - 1 \in Nat /\ q = R + 1 + (q - R - 1)
      BY <1>4, <1>5
    <3> QED BY <3>1
  <2>2. PICK b \in Nat : b = d * FRAME
    BY <1>0, <2>1
  <2>3. BITMAP_ADDR = a + FRAME + b
    BY <1>0, <1>4, <1>5, <1>6, <2>1, <2>2
  <2> QED BY <1>0, <1>2, <1>4, <1>6, <1>7, <2>2, <2>3 DEF H
<1>9. a >= BITMAP_ADDR
  <2>1. PICK d \in Nat : R = q + d
    <3>1. R - q \in Nat /\ R = q + (R - q)
      BY <1>4, <1>5, <1>8
    <3> QED BY <3>1
  <2>2. PICK b \in Nat : b = d * FRAME
    BY <1>0, <2>1
  <2>3. a = BITMAP_ADDR + b
    BY <1>0, <1>4, <1>5, <1>6, <2>1, <2>2
  <2> QED BY <1>0, <2>2, <2>3
<1> QED BY <1>0, <1>1, <1>2, <1>4, <1>6, <1>7, <1>9 DEF H, R, Room

\* The first free frame is the one whose bit is the first that is not set.
LEMMA FirstFreeIs ==
  ASSUME total_frames \in Nat, NEW m, NEW f \in 0 .. total_frames - 1, f \notin m,
         \A g \in 0 .. f - 1 : g \in m
  PROVE  FirstFree(m) = f
<1> DEFINE P(x) == Unset(m, x) /\ \A g \in 0 .. x - 1 : ~Unset(m, g)
<1>1. P(f)
  BY DEF Unset
<1>2. ~(\A x \in 0 .. total_frames - 1 : ~Unset(m, x))
  BY <1>1
<1>3. \A x \in 0 .. total_frames - 1 : P(x) => x = f
  <2> SUFFICES ASSUME NEW x \in 0 .. total_frames - 1, P(x), x # f PROVE FALSE
    OBVIOUS
  <2>1. x \in Int /\ f \in Int
    OBVIOUS
  <2>2. CASE x < f
    <3>1. x \in 0 .. f - 1
      BY <2>1, <2>2
    <3> QED BY <3>1 DEF Unset
  <2>3. CASE f < x
    <3>1. f \in 0 .. x - 1
      BY <2>1, <2>3
    <3> QED BY <3>1 DEF Unset
  <2> QED BY <2>1, <2>2, <2>3
<1>4. FirstFree(m) = CHOOSE x \in 0 .. total_frames - 1 : P(x)
  BY <1>2 DEF FirstFree
<1> HIDE DEF P
<1>5. (CHOOSE x \in 0 .. total_frames - 1 : P(x)) \in 0 .. total_frames - 1
      /\ P(CHOOSE x \in 0 .. total_frames - 1 : P(x))
  BY <1>1
<1> QED BY <1>3, <1>4, <1>5

\* Whatever the bitmap holds, the frame found is free or it is frame 0.
LEMMA FirstFreeUnset ==
  ASSUME total_frames \in Nat, NEW m, FirstFree(m) # 0
  PROVE  FirstFree(m) \in Nat /\ FirstFree(m) \notin m
<1>1. PICK x \in 0 .. total_frames - 1 : x \notin m
  <2>1. ~(\A f \in 0 .. total_frames - 1 : ~Unset(m, f))
    BY DEF FirstFree
  <2> QED BY <2>1 DEF Unset
<1> DEFINE K == {f \in 0 .. total_frames - 1 : f \notin m}
<1>2. K \in SUBSET Int /\ K # {} /\ IsFiniteSet(K)
  <2>1. IsFiniteSet(0 .. total_frames - 1)
    BY FS_Interval
  <2> QED BY <1>1, <2>1, FS_Subset
<1>3. Least(K) \in K /\ \A i \in K : Least(K) <= i
  BY <1>2, LeastProperties
<1>4. /\ Least(K) \in 0 .. total_frames - 1 /\ Least(K) \notin m
      /\ \A g \in 0 .. Least(K) - 1 : g \in m
  BY <1>3
<1>5. FirstFree(m) = Least(K)
  BY <1>4, FirstFreeIs
<1> QED BY <1>4, <1>5

\* The frames below the end of the bitmap stay marked, and everybody's frames are
\* marked and lie above them.
FramesInv ==
  /\ phase \in {"none", "pmm", "paging", "heap"}
  /\ phase \in {"none", "pmm"} => frames = {}
  /\ phase = "pmm" => mem = 0 .. frames_to_reserve - 1
  /\ phase = "paging" => frames = frames_to_reserve .. frames_to_reserve + 2
  /\ phase # "none" => 0 .. frames_to_reserve - 1 \subseteq mem
  /\ frames \subseteq mem
  /\ \A f \in frames : f \in Nat /\ f >= frames_to_reserve

\* paging_init takes the next three frames, and clearing the directory does not
\* reach their bits.
LEMMA PagingFrames ==
  ASSUME Room, FramesInv, paging_init
  PROVE  FramesInv'
<1> DEFINE R == frames_to_reserve
           dir == FirstFree(mem)
           m1 == Marked(mem, dir)
           pt0 == FirstFree(m1)
           m2 == Marked(m1, pt0)
           pt1 == FirstFree(m2)
           m3 == Marked(m2, pt1)
           d == dir * FRAME
           cleared == BitAt(d) .. BitAt(d + FRAME) - 1
<1>0. /\ total_frames \in Nat /\ R \in Nat /\ FRAME \in Nat /\ BITMAP_ADDR \in Nat
      /\ R + 3 <= total_frames /\ R + 3 <= 8 * (R * FRAME - BITMAP_ADDR)
  BY Layout
<1>1. phase = "pmm" /\ mem = 0 .. R - 1 /\ frames = {}
  BY DEF FramesInv, paging_init
<1>2. /\ phase' = "paging" /\ frames' = {dir, pt0, pt1}
      /\ {b \in m3 : b \notin cleared} \subseteq mem'
  BY DEF paging_init
<1> HIDE DEF R
<1>3. dir = R
  <2>1. R \in 0 .. total_frames - 1 /\ R \notin mem /\ \A g \in 0 .. R - 1 : g \in mem
    BY <1>0, <1>1
  <2> QED BY <1>0, <2>1, FirstFreeIs
<1>4. m1 = 0 .. R
  BY <1>0, <1>1, <1>3 DEF Marked
<1> HIDE DEF dir, m1
<1>5. pt0 = R + 1
  <2>1. R + 1 \in 0 .. total_frames - 1 /\ R + 1 \notin m1 /\ \A g \in 0 .. (R + 1) - 1 : g \in m1
    BY <1>0, <1>4
  <2> QED BY <1>0, <2>1, FirstFreeIs
<1>6. m2 = 0 .. R + 1
  BY <1>0, <1>4, <1>5 DEF Marked
<1> HIDE DEF pt0, m2
<1>7. pt1 = R + 2
  <2>1. R + 2 \in 0 .. total_frames - 1 /\ R + 2 \notin m2 /\ \A g \in 0 .. (R + 2) - 1 : g \in m2
    BY <1>0, <1>6
  <2> QED BY <1>0, <2>1, FirstFreeIs
<1>8. m3 = 0 .. R + 2
  BY <1>0, <1>6, <1>7 DEF Marked
<1> HIDE DEF pt1, m3
<1>9. PICK a \in Nat : a = R * FRAME
  BY <1>0
<1>10. \A b \in cleared : b >= R + 3
  BY <1>0, <1>3, <1>9 DEF BitAt
<1> HIDE DEF cleared
<1>11. 0 .. R + 2 \subseteq mem'
  BY <1>0, <1>2, <1>8, <1>10
<1>12. frames' = R .. R + 2
  BY <1>0, <1>2, <1>3, <1>5, <1>7
<1>13. 0 .. R - 1 \subseteq mem' /\ frames' \subseteq mem' /\ \A f \in frames' : f \in Nat /\ f >= R
  BY <1>0, <1>11, <1>12
<1>14. phase' = "paging"
  BY <1>2
<1> QED BY <1>12, <1>13, <1>14 DEF FramesInv, R

\* The first header of the heap lies behind them too.
LEMMA HeapFrames ==
  ASSUME Room, FramesInv, kmalloc_init
  PROVE  FramesInv'
<1> DEFINE R == frames_to_reserve
           H == heap_start
           old == BitAt(H) .. BitAt(H + 4) + 7
           next == BitAt(H + 8) .. BitAt(H + 12) - 1
<1>0. /\ R \in Nat /\ H \in Nat /\ FRAME \in Nat /\ BITMAP_ADDR \in Nat
      /\ R * FRAME <= H /\ R + 3 <= 8 * (R * FRAME - BITMAP_ADDR)
  BY Layout
<1>1. phase = "paging" /\ frames = R .. R + 2 /\ 0 .. R - 1 \subseteq mem /\ frames \subseteq mem
  BY DEF FramesInv, kmalloc_init
<1>2. /\ phase' = "heap" /\ frames' = frames
      /\ {b \in mem : b \notin old /\ b \notin next} \subseteq mem'
  BY DEF kmalloc_init
<1> HIDE DEF R, H
<1>3. PICK a \in Nat : a = R * FRAME
  BY <1>0
<1>4. (\A b \in old : b >= R + 3) /\ (\A b \in next : b >= R + 3)
  BY <1>0, <1>3 DEF BitAt
<1> HIDE DEF old, next
<1>5. 0 .. R + 2 \subseteq mem
  BY <1>0, <1>1
<1>6. 0 .. R + 2 \subseteq mem'
  BY <1>0, <1>2, <1>4, <1>5
<1> QED BY <1>0, <1>1, <1>2, <1>6 DEF FramesInv, R

\* Frames are taken above the reserved ones, and only those are given back.
LEMMA FramesStep ==
  ASSUME Room, FramesInv, [BootNext]_bootVars
  PROVE  FramesInv'
<1>0. total_frames \in Nat /\ frames_to_reserve \in Nat
  BY Layout
<1>1. CASE pmm_init
  <2>1. {f \in 0 .. frames_to_reserve - 1 : f < total_frames} = 0 .. frames_to_reserve - 1
    BY Layout
  <2> QED BY <1>1, <2>1 DEF pmm_init, FramesInv
<1>2. CASE paging_init
  BY <1>2, PagingFrames
<1>3. CASE kmalloc_init
  BY <1>3, HeapFrames
<1>4. CASE AllocateFrame
  <2> DEFINE f == FirstFree(mem)
  <2>1. /\ phase = "heap" /\ phase' = "heap" /\ f # 0
        /\ mem' = mem \cup {f} /\ frames' = frames \cup {f}
    BY <1>4 DEF AllocateFrame, Marked
  <2>2. f \in Nat /\ f \notin mem
    BY <1>0, <2>1, FirstFreeUnset
  <2> HIDE DEF f
  <2>3. f >= frames_to_reserve
    BY <1>0, <2>1, <2>2 DEF FramesInv
  <2> QED BY <2>1, <2>2, <2>3 DEF FramesInv
<1>5. ASSUME NEW f \in frames, FreeFrame(f) PROVE FramesInv'
  <2>1. phase = "heap" /\ phase' = "heap" /\ mem' = mem \ {f} /\ frames' = frames \ {f}
    BY <1>5 DEF FreeFrame
  <2>2. f \notin 0 .. frames_to_reserve - 1
    BY <1>0, <1>5 DEF FramesInv
  <2> QED BY <2>1, <2>2 DEF FramesInv
<1>6. CASE UNCHANGED bootVars
  BY <1>6 DEF bootVars, FramesInv
<1> QED BY <1>1, <1>2, <1>3, <1>4, <1>5, <1>6 DEF BootNext

\* FramesInv holds in every state.
LEMMA FramesAlways ==
  ASSUME Room
  PROVE  BootSpec => []FramesInv
<1>1. BootInit => FramesInv
  BY DEF BootInit, FramesInv
<1>2. FramesInv /\ [BootNext]_bootVars => FramesInv'
  BY FramesStep
<1> QED BY <1>1, <1>2, PTL DEF BootSpec

\* If the bitmap fills a frame or more, paging_init and kmalloc_init, which
\* overwrite its end, leave the marks of the reserved frames alone: no frame
\* below the bitmap is ever handed out by pmm_allocate_frame.
THEOREM BootReservedKept ==
  ASSUME Room
  PROVE  BootSpec => []ReservedKept
<1>1. FramesInv => ReservedKept
  <2> SUFFICES ASSUME FramesInv, NEW f \in frames PROVE f * FRAME >= BITMAP_ADDR
    BY DEF ReservedKept
  <2> DEFINE R == frames_to_reserve
  <2>1. /\ R \in Nat /\ FRAME \in Nat /\ BITMAP_ADDR \in Nat /\ R * FRAME >= BITMAP_ADDR
        /\ f \in Nat /\ f >= R
    BY Layout DEF FramesInv
  <2> HIDE DEF R
  <2>2. PICK e \in Nat : f = R + e
    <3>1. f - R \in Nat /\ f = R + (f - R)
      BY <2>1
    <3> QED BY <3>1
  <2>3. PICK a \in Nat : a = R * FRAME
    BY <2>1
  <2>4. PICK b \in Nat : b = e * FRAME
    BY <2>1, <2>2
  <2>5. f * FRAME = a + b
    BY <2>1, <2>2, <2>3, <2>4
  <2> QED BY <2>1, <2>3, <2>4, <2>5
<1> QED BY <1>1, FramesAlways, PTL

\* Under the same condition no mark of a frame in use is lost: the directory, the
\* page tables and every frame handed out are marked until they are given back.
THEOREM BootHeldMarked ==
  ASSUME Room
  PROVE  BootSpec => []HeldMarked
<1>1. FramesInv => HeldMarked
  BY DEF FramesInv, HeldMarked
<1> QED BY <1>1, FramesAlways, PTL

-----------------------------------------------------------------------------
(* The page tables of Vmm.                                                 *)

\* The pages of the kernel above the identity map.
KPages == (2 .. ENTRIES - 1) \X Index

Tags == {<<"entry">>, <<"zero">>, <<"junk">>, <<"heap">>}
          \cup {<<k, p>> : k \in {"code", "stack", "used"}, p \in Procs}
          \cup {<<"kernel", k>> : k \in Callers}

Words == [present : BOOLEAN, user : BOOLEAN, frame : Int, tag : Tags]

Mach(u, m, t, b) == [used |-> u, mem |-> m, tlb |-> t, fault |-> b]

IsMach(x) == \E u, m, t, b : x = Mach(u, m, t, b)

\* x is a machine with N frames.
Typed(x, N) ==
  /\ IsMach(x)
  /\ x.mem \in [0 .. N - 1 -> [Index -> Words]]
  /\ x.fault \in BOOLEAN

\* The word w of x is an entry for a frame of its own: pl says that it belongs
\* to the place key, so no other word refers to it.
Ref(x, pl, w, key) ==
  w.tag = <<"entry">> /\ w.frame \in x.used /\ w.frame > PT1 /\ pl[w.frame] = key

\* The place of a table is <<its index, None>>, that of a page is the page.
DirOk(x, pl) ==
  \A i \in 2 .. ENTRIES - 1 :
    x.mem[KDIR][i].present => Ref(x, pl, x.mem[KDIR][i], <<i, None>>)

TabOk(x, pl) ==
  \A i \in 2 .. ENTRIES - 1 : \A j \in Index :
    x.mem[KDIR][i].present /\ x.mem[x.mem[KDIR][i].frame][j].present
      => Ref(x, pl, x.mem[x.mem[KDIR][i].frame][j], <<i, j>>)

\* The words of the heap in the directory, and page NULL, are not present.
BaseOk(x, N, pl) ==
  /\ pl \in [0 .. N - 1 -> Int \X Int]
  /\ x.used \in SUBSET (0 .. N - 1) /\ 0 .. PT1 \subseteq x.used
  /\ x.mem[KDIR][0] = Entry(FALSE, PT0) /\ x.mem[KDIR][1] = Entry(FALSE, PT1)
  /\ x.mem[PT0][0].present = FALSE
  /\ \A i \in Index : i >= HEAP => x.mem[KDIR][i].present = FALSE

TlbOk(x) ==
  /\ DOMAIN x.tlb \subseteq KPages
  /\ \A q \in DOMAIN x.tlb : x.tlb[q] = Walk(x, KDIR, q)

\* The tables of the kernel are in order, in a machine with N frames.
Ok(x, N, pl) ==
  Typed(x, N) /\ BaseOk(x, N, pl) /\ DirOk(x, pl) /\ TabOk(x, pl) /\ TlbOk(x)

-----------------------------------------------------------------------------
\* What the provers need of the numbers.
Dims(N) ==
  /\ ENTRIES \in Nat /\ ENTRIES >= 10 /\ USER_DIR \in Int /\ USER_DIR >= 3
  /\ USER_DIR <= ENTRIES - 2 /\ RESERVED \in Nat /\ RESERVED >= 1
  /\ N \in Int /\ RESERVED + 3 <= N /\ N <= 2 * ENTRIES - 1

LEMMA DimsHold ==
  ASSUME NEW N \in MEMORIES PROVE Dims(N)
BY VmmAssumption DEF Dims

\* The fields of the words.
IsEntry(w, u, f) ==
  w \in Words /\ w.present = TRUE /\ w.user = u /\ w.frame = f /\ w.tag = <<"entry">>

LEMMA EntryFields ==
  ASSUME NEW u \in BOOLEAN, NEW f \in Int PROVE IsEntry(Entry(u, f), u, f)
<1>1. <<"entry">> \in Tags
  BY DEF Tags
<1> QED BY <1>1 DEF Entry, MemoryWord, Words, IsEntry

LEMMA ZeroFields == ZERO \in Words /\ ZERO.present = FALSE /\ ZERO.frame = 0 /\ JUNK \in Words
<1>1. <<"zero">> \in Tags /\ <<"junk">> \in Tags
  BY DEF Tags
<1> QED BY <1>1 DEF ZERO, JUNK, Data, MemoryWord, Words

LEMMA DataFields ==
  ASSUME NEW t \in Tags
  PROVE  Data(t) \in Words /\ Data(t).tag = t
BY DEF Data, MemoryWord, Words

LEMMA WordCleared ==
  ASSUME NEW w \in Words PROVE Cleared(w) \in Words /\ Cleared(w).present = FALSE
BY DEF Words, Cleared, MemoryWord

\* The smallest number of a set.
LEMMA MinProperties ==
  ASSUME NEW K \in SUBSET Int, IsFiniteSet(K), K # {}
  PROVE  Min(K) \in K /\ \A j \in K : Min(K) <= j
<1>1. \E i \in K : \A j \in K : i <= j
  BY LeastProperties
<1> QED BY <1>1 DEF Min

-----------------------------------------------------------------------------
(* The primitives.                                                         *)

\* The fields of a machine, and a machine with one of them changed.
LEMMA MachFields ==
  ASSUME NEW u, NEW m, NEW t, NEW b
  PROVE  /\ Mach(u, m, t, b).used = u /\ Mach(u, m, t, b).mem = m
         /\ Mach(u, m, t, b).tlb = t /\ Mach(u, m, t, b).fault = b
         /\ IsMach(Mach(u, m, t, b))
<1>1. IsMach(Mach(u, m, t, b))
  BY DEF IsMach
<1> QED BY <1>1 DEF Mach

LEMMA MachExcept ==
  ASSUME NEW x, IsMach(x), NEW v
  PROVE  /\ [x EXCEPT !.used = v] = Mach(v, x.mem, x.tlb, x.fault)
         /\ [x EXCEPT !.mem = v] = Mach(x.used, v, x.tlb, x.fault)
         /\ [x EXCEPT !.tlb = v] = Mach(x.used, x.mem, v, x.fault)
         /\ [x EXCEPT !.fault = v] = Mach(x.used, x.mem, x.tlb, v)
<1>1. PICK u, m, t, b : x = Mach(u, m, t, b)
  BY DEF IsMach
<1>2. x.used = u /\ x.mem = m /\ x.tlb = t /\ x.fault = b
  BY <1>1, MachFields
<1>3. /\ [Mach(u, m, t, b) EXCEPT !.used = v] = Mach(v, m, t, b)
      /\ [Mach(u, m, t, b) EXCEPT !.mem = v] = Mach(u, v, t, b)
      /\ [Mach(u, m, t, b) EXCEPT !.tlb = v] = Mach(u, m, v, b)
      /\ [Mach(u, m, t, b) EXCEPT !.fault = v] = Mach(u, m, t, v)
  BY DEF Mach
<1> QED BY <1>1, <1>2, <1>3

\* z is x with another row in frame f.
Wrote(x, z, N, f, row) ==
  /\ Typed(z, N) /\ z.used = x.used /\ z.tlb = x.tlb /\ z.fault = x.fault
  /\ z.mem[f] = row
  /\ \A g \in 0 .. N - 1 : g # f => z.mem[g] = x.mem[g]

LEMMA RowWritten ==
  ASSUME NEW N \in Int, NEW x, Typed(x, N), NEW f \in 0 .. N - 1, NEW row \in [Index -> Words]
  PROVE  Wrote(x, [x EXCEPT !.mem[f] = row], N, f, row)
<1> DEFINE z == [x EXCEPT !.mem[f] = row]
<1>1. z = Mach(x.used, [x.mem EXCEPT ![f] = row], x.tlb, x.fault)
  <2>1. z = [x EXCEPT !.mem = [x.mem EXCEPT ![f] = row]]
    OBVIOUS
  <2> QED BY <2>1, MachExcept DEF Typed
<1>2. [x.mem EXCEPT ![f] = row] \in [0 .. N - 1 -> [Index -> Words]]
  BY DEF Typed
<1>3. Wrote(x, z, N, f, row)
  BY <1>1, <1>2, MachFields DEF Typed, Wrote
<1> QED BY <1>3

LEMMA RowType ==
  ASSUME NEW N \in Int, NEW x, Typed(x, N), NEW f \in 0 .. N - 1, NEW i \in Index, NEW w \in Words
  PROVE  /\ x.mem[f] \in [Index -> Words] /\ x.mem[f][i] \in Words
         /\ [x.mem[f] EXCEPT ![i] = w] \in [Index -> Words]
         /\ [x.mem[f] EXCEPT ![i] = w][i] = w
         /\ \A j \in Index : j # i => [x.mem[f] EXCEPT ![i] = w][j] = x.mem[f][j]
<1>1. x.mem[f] \in [Index -> Words]
  BY DEF Typed
<1> QED BY <1>1

LEMMA WordWritten ==
  ASSUME NEW N \in Int, NEW x, Typed(x, N), NEW f \in 0 .. N - 1, NEW i \in Index, NEW w \in Words
  PROVE  Wrote(x, [x EXCEPT !.mem[f][i] = w], N, f, [x.mem[f] EXCEPT ![i] = w])
<1> DEFINE row == [x.mem[f] EXCEPT ![i] = w]
<1>1. row \in [Index -> Words]
  BY RowType
<1>2. [x EXCEPT !.mem[f][i] = w] = [x EXCEPT !.mem[f] = row]
  BY DEF Typed
<1> HIDE DEF row
<1>3. Wrote(x, [x EXCEPT !.mem[f] = row], N, f, row)
  BY <1>1, RowWritten
<1> QED BY <1>2, <1>3 DEF row

\* z is x without the cached translation of q.
Dropped(x, z, N, q) ==
  /\ Typed(z, N) /\ z.used = x.used /\ z.mem = x.mem /\ z.fault = x.fault
  /\ DOMAIN z.tlb = DOMAIN x.tlb \ {q}
  /\ \A r \in DOMAIN z.tlb : z.tlb[r] = x.tlb[r]

LEMMA Invalidated ==
  ASSUME NEW N, NEW x, Typed(x, N), NEW q
  PROVE  Dropped(x, paging_invalidate_page_cache(x, q), N, q)
<1> DEFINE z == paging_invalidate_page_cache(x, q)
<1>1. z = Mach(x.used, x.mem, [r \in DOMAIN x.tlb \ {q} |-> x.tlb[r]], x.fault)
  BY MachExcept DEF Typed, paging_invalidate_page_cache
<1> HIDE DEF z
<1>2. Dropped(x, z, N, q)
  BY <1>1, MachFields DEF Typed, Dropped
<1> QED BY <1>2 DEF z

\* z is x with frame f marked.
MarkedIn(x, z, N, f) ==
  /\ Typed(z, N) /\ z.used = x.used \cup {f} /\ z.mem = x.mem /\ z.fault = x.fault
  /\ z.tlb = x.tlb

LEMMA MarkIs ==
  ASSUME NEW N, NEW x, Typed(x, N), NEW f
  PROVE  MarkedIn(x, Mark(x, f), N, f)
<1> DEFINE z == Mark(x, f)
           v == x.used \cup {f}
<1>1. z = [x EXCEPT !.used = v]
  BY DEF Mark
<1> HIDE DEF v, z
<1>2. z = Mach(v, x.mem, x.tlb, x.fault)
  BY <1>1, MachExcept DEF Typed
<1>3. Typed(z, N) /\ z.used = v /\ z.mem = x.mem /\ z.fault = x.fault /\ z.tlb = x.tlb
  BY <1>2, MachFields DEF Typed
<1> QED BY <1>3 DEF z, v, MarkedIn

\* z is x with the translation of q to f cached.
Cached(x, z, N, q, f) ==
  /\ Typed(z, N) /\ z.used = x.used /\ z.mem = x.mem /\ z.fault = FALSE
  /\ DOMAIN z.tlb = DOMAIN x.tlb \cup {q}
  /\ z.tlb[q] = f
  /\ \A r \in DOMAIN x.tlb : r # q => z.tlb[r] = x.tlb[r]

\* An access to a page whose frame exists.
LEMMA Accessed ==
  ASSUME NEW N, NEW x, Typed(x, N), NEW q, ~x.fault,
         Translate(x, q) \in 0 .. N - 1, ~(q[1] < 2) \/ q = WINDOW
  PROVE  Cached(x, Access(x, q), N, q, Translate(x, q))
<1> DEFINE f == Translate(x, q)
           z == Access(x, q)
           tl == With(x.tlb, q, f)
<1>1. DOMAIN x.mem = 0 .. N - 1
  BY DEF Typed
<1>2. z = [x EXCEPT !.tlb = tl]
  BY <1>1 DEF Access, AccessFrame
<1>3. z = Mach(x.used, x.mem, tl, x.fault)
  BY <1>2, MachExcept DEF Typed
<1>4. /\ DOMAIN tl = DOMAIN x.tlb \cup {q}
      /\ tl[q] = f
      /\ \A r \in DOMAIN x.tlb : r # q => tl[r] = x.tlb[r]
  BY DEF With
<1> HIDE DEF tl, f, z
<1>5. Cached(x, z, N, q, f)
  BY <1>3, <1>4, MachFields DEF Typed, Cached
<1> QED BY <1>5 DEF z, f

-----------------------------------------------------------------------------
(* Walking the tables of the kernel.                                       *)

LEMMA KPage ==
  ASSUME NEW N \in Int, Dims(N), NEW q \in KPages
  PROVE  /\ q = <<q[1], q[2]>> /\ q[1] \in 2 .. ENTRIES - 1 /\ q[2] \in Index
         /\ q[1] \in Int /\ q[1] >= 2 /\ q[1] \in Index /\ q[2] \in Int /\ q[2] # None /\ q # NULL /\ q # WINDOW
BY DEF KPages, Dims, Index, None, NULL, WINDOW

LEMMA Frames ==
  ASSUME NEW N \in Int, Dims(N)
  PROVE  /\ KDIR \in 0 .. N - 1 /\ PT0 \in 0 .. N - 1 /\ PT1 \in 0 .. N - 1
         /\ KDIR # PT0 /\ KDIR # PT1 /\ PT0 # PT1 /\ KDIR < PT1 /\ PT0 < PT1 /\ KDIR > 0
         /\ KDIR \in Int /\ PT0 \in Int /\ PT1 \in Int
         /\ 0 \in Index /\ 1 \in Index /\ USER_DIR \in Index /\ ENTRIES - 1 \in Index
BY DEF Dims, KDIR, PT0, PT1, Index

\* The table of the kernel for directory index i.
Tab(x, i) == x.mem[KDIR][i].frame
Has(x, i) == x.mem[KDIR][i].present

LEMMA WalkIs ==
  ASSUME NEW N \in Int, NEW x, NEW pl, Ok(x, N, pl), Dims(N), NEW q \in KPages
  PROVE  /\ Has(x, q[1]) => Tab(x, q[1]) \in x.used /\ Tab(x, q[1]) \in 0 .. N - 1
                            /\ Tab(x, q[1]) > PT1 /\ pl[Tab(x, q[1])] = <<q[1], None>>
         /\ Walk(x, KDIR, q) = IF Has(x, q[1]) /\ x.mem[Tab(x, q[1])][q[2]].present
                               THEN x.mem[Tab(x, q[1])][q[2]].frame ELSE None
         /\ Walk(x, KDIR, q) # None =>
              /\ Walk(x, KDIR, q) \in x.used /\ Walk(x, KDIR, q) \in 0 .. N - 1
              /\ Walk(x, KDIR, q) > PT1 /\ pl[Walk(x, KDIR, q)] = q
              /\ x.mem[Tab(x, q[1])][q[2]].tag = <<"entry">>
<1>1. q = <<q[1], q[2]>> /\ q[1] \in 2 .. ENTRIES - 1 /\ q[2] \in Index
  BY KPage
<1>2. x.used \in SUBSET (0 .. N - 1) /\ DOMAIN x.mem = 0 .. N - 1
  BY DEF Ok, BaseOk, Typed
<1>3. Has(x, q[1]) => /\ Tab(x, q[1]) \in x.used /\ Tab(x, q[1]) \in 0 .. N - 1
                      /\ Tab(x, q[1]) > PT1 /\ pl[Tab(x, q[1])] = <<q[1], None>>
  BY <1>1, <1>2 DEF Ok, DirOk, Ref, Tab, Has
<1>4. Walk(x, KDIR, q) = IF Has(x, q[1]) /\ x.mem[Tab(x, q[1])][q[2]].present
                         THEN x.mem[Tab(x, q[1])][q[2]].frame ELSE None
  BY <1>2, <1>3 DEF Walk, Leaf, Has, Tab
<1>5. ASSUME Walk(x, KDIR, q) # None
      PROVE  /\ Walk(x, KDIR, q) \in x.used /\ Walk(x, KDIR, q) \in 0 .. N - 1
             /\ Walk(x, KDIR, q) > PT1 /\ pl[Walk(x, KDIR, q)] = q
             /\ x.mem[Tab(x, q[1])][q[2]].tag = <<"entry">>
  <2>1. Ref(x, pl, x.mem[Tab(x, q[1])][q[2]], <<q[1], q[2]>>)
    BY <1>1, <1>4, <1>5 DEF Ok, TabOk, Has, Tab
  <2> QED BY <1>1, <1>2, <1>4, <1>5, <2>1 DEF Ref
<1> QED BY <1>3, <1>4, <1>5

\* z comes from x without a write to the tables of the kernel.
Follows(x, z, N) ==
  /\ Typed(z, N) /\ x.used \in SUBSET z.used /\ z.used \in SUBSET (0 .. N - 1)
  /\ z.mem[KDIR] = x.mem[KDIR] /\ z.mem[PT0] = x.mem[PT0]
  /\ \A i \in 2 .. ENTRIES - 1 : Has(x, i) => z.mem[Tab(x, i)] = x.mem[Tab(x, i)]
  /\ \A q \in DOMAIN z.tlb : q \in KPages /\ z.tlb[q] = Walk(x, KDIR, q)

\* The kernel's pages are where they were.
SameWalks(x, z) == \A q \in KPages : Walk(z, KDIR, q) = Walk(x, KDIR, q)

\* The tables of the kernel are in order as long as nothing writes to them.
LEMMA TablesKept ==
  ASSUME NEW N \in Int, NEW x, NEW z, NEW pl, Ok(x, N, pl), Dims(N), Follows(x, z, N)
  PROVE  Ok(z, N, pl) /\ SameWalks(x, z)
<1> USE DEF Follows
<1>1. BaseOk(z, N, pl)
  BY DEF Ok, BaseOk
<1>2. DirOk(z, pl)
  BY DEF Ok, DirOk, Ref
<1>3. TabOk(z, pl)
  <2> SUFFICES ASSUME NEW i \in 2 .. ENTRIES - 1, NEW j \in Index,
                      z.mem[KDIR][i].present, z.mem[z.mem[KDIR][i].frame][j].present
               PROVE  Ref(z, pl, z.mem[z.mem[KDIR][i].frame][j], <<i, j>>)
    BY DEF TabOk
  <2>1. z.mem[z.mem[KDIR][i].frame] = x.mem[x.mem[KDIR][i].frame] /\ x.mem[KDIR][i].present
    BY DEF Tab, Has
  <2>2. Ref(x, pl, x.mem[x.mem[KDIR][i].frame][j], <<i, j>>)
    BY <2>1 DEF Ok, TabOk
  <2> QED BY <2>1, <2>2 DEF Ref
<1>4. ASSUME NEW q \in KPages PROVE Walk(z, KDIR, q) = Walk(x, KDIR, q)
  <2>1. q[1] \in 2 .. ENTRIES - 1
    BY KPage
  <2>2. DOMAIN z.mem = DOMAIN x.mem
    BY DEF Ok, Typed
  <2> QED BY <2>1, <2>2 DEF Walk, Leaf, Tab, Has
<1>5. TlbOk(z)
  BY <1>4 DEF TlbOk
<1> QED BY <1>1, <1>2, <1>3, <1>4, <1>5 DEF Ok, SameWalks

\* The kernel has no entry for the frame f.
Unreferenced(x, f) ==
  /\ \A i \in 2 .. ENTRIES - 1 : Has(x, i) => Tab(x, i) # f
  /\ \A q \in KPages : Walk(x, KDIR, q) # f

\* A frame that is not in use may be given any place.
LEMMA Replaced ==
  ASSUME NEW N \in Int, NEW x, NEW pl, Ok(x, N, pl), Dims(N), NEW f \in 0 .. N - 1, NEW key \in Int \X Int,
         f \notin x.used \/ Unreferenced(x, f)
  PROVE  Ok(x, N, [pl EXCEPT ![f] = key])
<1> DEFINE p2 == [pl EXCEPT ![f] = key]
<1>1. p2 \in [0 .. N - 1 -> Int \X Int] /\ \A g \in 0 .. N - 1 : g # f => p2[g] = pl[g]
  BY DEF Ok, BaseOk
<1>2. x.used \in SUBSET (0 .. N - 1)
  BY DEF Ok, BaseOk
<1> HIDE DEF p2
<1>3. DirOk(x, p2)
  <2> SUFFICES ASSUME NEW i \in 2 .. ENTRIES - 1, x.mem[KDIR][i].present
               PROVE  Ref(x, p2, x.mem[KDIR][i], <<i, None>>)
    BY DEF DirOk
  <2>1. Ref(x, pl, x.mem[KDIR][i], <<i, None>>)
    BY DEF Ok, DirOk
  <2>2. x.mem[KDIR][i].frame # f
    <3>1. CASE f \notin x.used
      BY <2>1, <3>1 DEF Ref
    <3>2. CASE Unreferenced(x, f)
      BY <3>2 DEF Unreferenced, Tab, Has
    <3> QED BY <3>1, <3>2
  <2> QED BY <1>1, <1>2, <2>1, <2>2 DEF Ref
<1>4. TabOk(x, p2)
  <2> SUFFICES ASSUME NEW i \in 2 .. ENTRIES - 1, NEW j \in Index,
                      x.mem[KDIR][i].present, x.mem[x.mem[KDIR][i].frame][j].present
               PROVE  Ref(x, p2, x.mem[x.mem[KDIR][i].frame][j], <<i, j>>)
    BY DEF TabOk
  <2>1. Ref(x, pl, x.mem[x.mem[KDIR][i].frame][j], <<i, j>>)
    BY DEF Ok, TabOk
  <2> DEFINE q == <<i, j>>
  <2>2. q \in KPages /\ q[1] = i /\ q[2] = j
    BY DEF KPages
  <2> HIDE DEF q
  <2>3. x.mem[x.mem[KDIR][i].frame][j].frame = Walk(x, KDIR, q)
    <3>1. Walk(x, KDIR, q) = IF Has(x, q[1]) /\ x.mem[Tab(x, q[1])][q[2]].present
                             THEN x.mem[Tab(x, q[1])][q[2]].frame ELSE None
      BY <2>2, WalkIs
    <3> QED BY <2>2, <3>1 DEF Has, Tab
  <2>4. x.mem[x.mem[KDIR][i].frame][j].frame # f
    <3>1. CASE f \notin x.used
      BY <2>1, <3>1 DEF Ref
    <3>2. CASE Unreferenced(x, f)
      BY <2>2, <2>3, <3>2 DEF Unreferenced
    <3> QED BY <3>1, <3>2
  <2> QED BY <1>1, <1>2, <2>1, <2>4 DEF Ref
<1>5. BaseOk(x, N, p2)
  BY <1>1 DEF Ok, BaseOk
<1> QED BY <1>3, <1>4, <1>5 DEF Ok, p2

LEMMA MarkOk ==
  ASSUME NEW N \in Int, NEW x, NEW pl, Ok(x, N, pl), Dims(N), NEW f \in 0 .. N - 1, f \notin x.used,
         NEW key \in Int \X Int, NEW z, z = Mark(x, f)
  PROVE  /\ Ok(z, N, [pl EXCEPT ![f] = key])
         /\ z.used = x.used \cup {f} /\ z.mem = x.mem /\ z.fault = x.fault
         /\ SameWalks(x, z)
<1> DEFINE p2 == [pl EXCEPT ![f] = key]
<1>1. /\ Typed(z, N) /\ z.used = x.used \cup {f} /\ z.mem = x.mem /\ z.fault = x.fault
      /\ z.tlb = x.tlb
  <2>1. MarkedIn(x, z, N, f)
    BY MarkIs DEF Ok
  <2> QED BY <2>1 DEF MarkedIn
<1>2. Ok(x, N, p2)
  BY Replaced
<1> HIDE DEF p2
<1>3. x.used \in SUBSET z.used /\ z.used \in SUBSET (0 .. N - 1)
  BY <1>1 DEF Ok, BaseOk
<1>4. \A q \in DOMAIN z.tlb : q \in KPages /\ z.tlb[q] = Walk(x, KDIR, q)
  BY <1>1 DEF Ok, TlbOk
<1>5. Follows(x, z, N)
  BY <1>1, <1>3, <1>4 DEF Follows
<1>6. Ok(z, N, p2) /\ SameWalks(x, z)
  BY <1>2, <1>5, TablesKept
<1> QED BY <1>1, <1>6 DEF p2

-----------------------------------------------------------------------------
(* The temporary window.                                                   *)

\* z is x after an operation through the window that leaves row in frame f.
Through(x, z, N, f, row) ==
  /\ Typed(z, N) /\ z.used = x.used /\ z.fault = FALSE
  /\ DOMAIN z.tlb = DOMAIN x.tlb /\ \A q \in DOMAIN x.tlb : z.tlb[q] = x.tlb[q]
  /\ z.mem[f] = row
  /\ \A g \in 0 .. N - 1 : g # f /\ g # PT1 => z.mem[g] = x.mem[g]

\* What the window needs of the tables.
Base(x, N) ==
  Typed(x, N) /\ x.mem[KDIR][1] = Entry(FALSE, PT1) /\ DOMAIN x.tlb \subseteq KPages

LEMMA OkBase ==
  ASSUME NEW N, NEW x, NEW pl, Ok(x, N, pl) PROVE Base(x, N)
BY DEF Ok, BaseOk, TlbOk, Base

\* The window shows frame f.
Shown(x, y, N, f) ==
  /\ Typed(y, N) /\ y.used = x.used /\ y.fault = FALSE
  /\ DOMAIN y.tlb = DOMAIN x.tlb /\ \A q \in DOMAIN x.tlb : y.tlb[q] = x.tlb[q]
  /\ \A g \in 0 .. N - 1 : g # PT1 => y.mem[g] = x.mem[g]
  /\ Translate(y, WINDOW) = f

LEMMA WindowMap ==
  ASSUME NEW N \in Int, NEW x, Base(x, N), Dims(N), ~x.fault, NEW f \in 0 .. N - 1
  PROVE  Shown(x, vmm_map_to_temp_window(x, f), N, f)
<1> DEFINE y == vmm_map_to_temp_window(x, f)
           k == ENTRIES - 1
           e == Entry(FALSE, f)
           v == [x EXCEPT !.mem[PT1][k] = e]
<1>1. Directory(x, 1).frame = PT1 /\ WINDOW[2] = k /\ Typed(x, N) /\ WINDOW[1] = 1
  <2>1. IsEntry(Entry(FALSE, PT1), FALSE, PT1)
    BY EntryFields, Frames
  <2> QED BY <2>1 DEF Base, Directory, WINDOW, IsEntry
<1>2. y = paging_invalidate_page_cache(v, WINDOW)
  BY <1>1 DEF vmm_map_to_temp_window
<1>3. e \in Words /\ e.present = TRUE /\ e.frame = f
  <2>1. IsEntry(e, FALSE, f)
    <3>1. f \in Int /\ FALSE \in BOOLEAN
      OBVIOUS
    <3> QED BY <3>1, EntryFields
  <2> QED BY <2>1 DEF IsEntry
<1>4. PT1 \in 0 .. N - 1 /\ KDIR \in 0 .. N - 1 /\ KDIR # PT1 /\ k \in Index /\ PT1 \in Int
  BY Frames
<1> HIDE DEF k, e
<1>5. Wrote(x, v, N, PT1, [x.mem[PT1] EXCEPT ![k] = e])
  BY <1>1, <1>3, <1>4, WordWritten
<1> HIDE DEF v
<1>6. Dropped(v, y, N, WINDOW)
  BY <1>2, <1>5, Invalidated DEF Wrote
<1> HIDE DEF y
<1>7. WINDOW \notin DOMAIN x.tlb
  BY KPage DEF Base
<1>8. /\ y.mem[KDIR][1].present = TRUE /\ y.mem[KDIR][1].frame = PT1
      /\ y.mem[PT1][k] = e
  <2>1. y.mem[KDIR][1] = Entry(FALSE, PT1)
    BY <1>4, <1>5, <1>6 DEF Base, Wrote, Dropped
  <2>2. IsEntry(Entry(FALSE, PT1), FALSE, PT1)
    BY <1>4, EntryFields
  <2>3. [x.mem[PT1] EXCEPT ![k] = e][k] = e
    BY <1>1, <1>3, <1>4, RowType
  <2> QED BY <1>5, <1>6, <2>1, <2>2, <2>3 DEF IsEntry, Wrote, Dropped
<1>9. Translate(y, WINDOW) = f
  <2>1. DOMAIN y.mem = 0 .. N - 1
    BY <1>6 DEF Typed, Dropped
  <2>3. Walk(y, KDIR, WINDOW) = f
    BY <1>1, <1>3, <1>4, <1>8, <2>1 DEF Walk, Leaf
  <2> QED BY <1>5, <1>6, <1>7, <2>3 DEF Translate, Dropped, Wrote
<1>10. /\ DOMAIN y.tlb = DOMAIN x.tlb /\ \A q \in DOMAIN x.tlb : y.tlb[q] = x.tlb[q]
  BY <1>5, <1>6, <1>7 DEF Dropped, Wrote
<1>11. Shown(x, y, N, f)
  BY <1>1, <1>5, <1>6, <1>9, <1>10 DEF Shown, Dropped, Wrote, Typed
<1> QED BY <1>11 DEF y

\* z is y, but for the window.
Unshown(y, z, N) ==
  /\ Typed(z, N) /\ z.used = y.used /\ z.fault = y.fault
  /\ DOMAIN z.tlb = DOMAIN y.tlb \ {WINDOW} /\ \A q \in DOMAIN z.tlb : z.tlb[q] = y.tlb[q]
  /\ \A g \in 0 .. N - 1 : g # PT1 => z.mem[g] = y.mem[g]

LEMMA WindowUnmap ==
  ASSUME NEW N \in Int, NEW y, Typed(y, N), Dims(N), y.mem[KDIR][1] = Entry(FALSE, PT1)
  PROVE  Unshown(y, vmm_unmap_temp_window(y), N)
<1> DEFINE k == ENTRIES - 1
           w == [y.mem[PT1][k] EXCEPT !.present = FALSE]
           v == [y EXCEPT !.mem[PT1][k] = w]
           z == vmm_unmap_temp_window(y)
<1>1. Directory(y, 1).frame = PT1 /\ WINDOW[2] = k
  <2>1. IsEntry(Entry(FALSE, PT1), FALSE, PT1)
    BY EntryFields, Frames
  <2> QED BY <2>1 DEF Directory, WINDOW, IsEntry
<1>2. PT1 \in 0 .. N - 1 /\ k \in Index
  BY Frames
<1> HIDE DEF k
<1>3. y.mem[PT1] \in [Index -> Words] /\ y.mem[PT1][k] \in Words
  BY <1>2 DEF Typed
<1>4. w \in Words
  BY <1>3 DEF Words
<1>5. z = paging_invalidate_page_cache(v, WINDOW)
  <2>1. [y EXCEPT !.mem[PT1][k].present = FALSE] = v
    BY <1>2, <1>3 DEF Typed
  <2> QED BY <1>1, <2>1 DEF vmm_unmap_temp_window
<1> HIDE DEF w
<1>6. Wrote(y, v, N, PT1, [y.mem[PT1] EXCEPT ![k] = w])
  BY <1>2, <1>4, WordWritten
<1> HIDE DEF v
<1>7. Dropped(v, z, N, WINDOW)
  BY <1>5, <1>6, Invalidated DEF Wrote
<1> HIDE DEF z
<1>8. Unshown(y, z, N)
  BY <1>6, <1>7 DEF Wrote, Dropped, Unshown
<1> QED BY <1>8 DEF z

\* Reading or writing a frame through the window.
LEMMA WindowUsed ==
  ASSUME NEW N \in Int, NEW x, Base(x, N), Dims(N), ~x.fault,
         NEW f \in 0 .. N - 1, f # PT1, f # KDIR, NEW y, Shown(x, y, N, f),
         NEW row, NEW b, Wrote(Access(y, WINDOW), b, N, f, row)
  PROVE  Through(x, vmm_unmap_temp_window(b), N, f, row)
<1> DEFINE z == vmm_unmap_temp_window(b)
           a == Access(y, WINDOW)
<1>1. Cached(y, a, N, WINDOW, f)
  <2>1. Typed(y, N) /\ ~y.fault /\ Translate(y, WINDOW) \in 0 .. N - 1 /\ Translate(y, WINDOW) = f
    BY DEF Shown
  <2>2. Cached(y, a, N, WINDOW, Translate(y, WINDOW))
    BY <2>1, Accessed
  <2> QED BY <2>1, <2>2
<1> HIDE DEF a
<1>2. Wrote(a, b, N, f, row)
  BY DEF a
<1>3. KDIR \in 0 .. N - 1 /\ KDIR # PT1 /\ PT1 \in 0 .. N - 1
  BY Frames
<1>4. b.mem[KDIR][1] = Entry(FALSE, PT1)
  <2>1. b.mem[KDIR] = a.mem[KDIR] /\ y.mem[KDIR] = x.mem[KDIR]
    BY <1>2, <1>3 DEF Shown, Wrote
  <2> QED BY <1>1, <2>1 DEF Base, Cached
<1>5. Unshown(b, z, N)
  BY <1>2, <1>4, WindowUnmap DEF Wrote
<1> HIDE DEF z
<1>6. WINDOW \notin DOMAIN x.tlb
  BY KPage DEF Base
<1>7. /\ DOMAIN y.tlb = DOMAIN x.tlb /\ \A q \in DOMAIN x.tlb : y.tlb[q] = x.tlb[q]
      /\ y.used = x.used
      /\ \A g \in 0 .. N - 1 : g # PT1 => y.mem[g] = x.mem[g]
  BY DEF Shown
<1>8. DOMAIN z.tlb = DOMAIN x.tlb /\ \A q \in DOMAIN x.tlb : z.tlb[q] = x.tlb[q]
  BY <1>1, <1>2, <1>5, <1>6, <1>7 DEF Cached, Wrote, Unshown
<1>9. z.mem[f] = row /\ \A g \in 0 .. N - 1 : g # f /\ g # PT1 => z.mem[g] = x.mem[g]
  BY <1>1, <1>2, <1>5, <1>7 DEF Cached, Wrote, Unshown
<1>10. Through(x, z, N, f, row)
  BY <1>1, <1>2, <1>5, <1>7, <1>8, <1>9 DEF Through, Cached, Wrote, Unshown
<1> QED BY <1>10 DEF z

-----------------------------------------------------------------------------
(* What a step of the kernel leaves alone.                                 *)

Good(x, N) == \E pl : Ok(x, N, pl)

\* Frame f is in use and is not a table of the kernel.
Plain(x, f) ==
  f \in x.used /\ f > PT1 /\ \A i \in 2 .. ENTRIES - 1 : Has(x, i) => Tab(x, i) # f

\* Nor is it in a page of the kernel.
Loose(x, f) == Plain(x, f) /\ \A q \in KPages : Walk(x, KDIR, q) # f

\* From x to z, only the frames of W were written and only the pages of Q
\* unmapped, of those that were in use in x.
Step(x, z, N, W, Q) ==
  /\ Good(z, N) /\ z.fault = FALSE /\ x.used \subseteq z.used
  /\ \A f : Plain(x, f) => Plain(z, f) /\ (f \notin W => z.mem[f] = x.mem[f])
  /\ \A f : Loose(x, f) => Loose(z, f)
  /\ \A q \in KPages : q \notin Q /\ Walk(x, KDIR, q) # None => Walk(z, KDIR, q) = Walk(x, KDIR, q)

LEMMA StepTrans ==
  ASSUME NEW N, NEW x, NEW y, NEW z, NEW W, NEW Q, NEW V, NEW R,
         Step(x, y, N, W, Q), Step(y, z, N, V, R)
  PROVE  Step(x, z, N, W \cup V, Q \cup R)
BY DEF Step

LEMMA StepFresh ==
  ASSUME NEW N, NEW x, NEW z, NEW W, NEW Q, Step(x, z, N, W, Q),
         \A f \in W : f \notin x.used, \A q \in Q : Walk(x, KDIR, q) = None
  PROVE  Step(x, z, N, {}, {})
BY DEF Step, Plain

\* The frame of a page of the kernel.
LEMMA PagePlain ==
  ASSUME NEW N \in Int, NEW x, Good(x, N), Dims(N), NEW q \in KPages, Walk(x, KDIR, q) # None
  PROVE  /\ Plain(x, Walk(x, KDIR, q)) /\ Walk(x, KDIR, q) \in 0 .. N - 1
         /\ \A r \in KPages : Walk(x, KDIR, r) = Walk(x, KDIR, q) => r = q
<1>1. PICK pl : Ok(x, N, pl)
  BY DEF Good
<1> DEFINE f == Walk(x, KDIR, q)
<1>2. f \in x.used /\ f \in 0 .. N - 1 /\ f > PT1 /\ pl[f] = q
  BY <1>1, WalkIs
<1>3. q[2] # None
  BY KPage
<1>4. \A i \in 2 .. ENTRIES - 1 : Has(x, i) => Tab(x, i) # f
  <2> SUFFICES ASSUME NEW i \in 2 .. ENTRIES - 1, Has(x, i), Tab(x, i) = f PROVE FALSE
    OBVIOUS
  <2>1. pl[f] = <<i, None>>
    BY <1>1 DEF Ok, DirOk, Ref, Has, Tab
  <2> QED BY <1>2, <1>3, <2>1
<1>5. ASSUME NEW r \in KPages, Walk(x, KDIR, r) = f PROVE r = q
  BY <1>1, <1>2, <1>5, WalkIs
<1> QED BY <1>2, <1>4, <1>5 DEF Plain

LEMMA FollowsStep ==
  ASSUME NEW N \in Int, NEW x, NEW z, NEW pl, Ok(x, N, pl), Dims(N), Follows(x, z, N), z.fault = FALSE,
         NEW W, \A f : Plain(x, f) /\ f \notin W => z.mem[f] = x.mem[f]
  PROVE  Step(x, z, N, W, {}) /\ Ok(z, N, pl) /\ SameWalks(x, z)
<1>1. Ok(z, N, pl) /\ SameWalks(x, z)
  BY TablesKept
<1>2. Good(z, N)
  BY <1>1 DEF Good
<1>3. ASSUME NEW f, Plain(x, f) PROVE Plain(z, f)
  BY <1>3 DEF Follows, Plain, Has, Tab
<1>4. ASSUME NEW f, Loose(x, f) PROVE Loose(z, f)
  BY <1>1, <1>3, <1>4 DEF Loose, SameWalks
<1>5. x.used \subseteq z.used
  BY DEF Follows
<1> QED BY <1>1, <1>2, <1>3, <1>4, <1>5 DEF Step, SameWalks

\* z is x, but for the window.
Quiet(x, z, N) ==
  /\ Typed(z, N) /\ z.used = x.used /\ z.fault = FALSE
  /\ DOMAIN z.tlb = DOMAIN x.tlb /\ \A q \in DOMAIN x.tlb : z.tlb[q] = x.tlb[q]
  /\ \A g \in 0 .. N - 1 : g # PT1 => z.mem[g] = x.mem[g]

LEMMA QuietStep ==
  ASSUME NEW N \in Int, NEW x, NEW z, NEW pl, Ok(x, N, pl), Dims(N), Quiet(x, z, N)
  PROVE  Step(x, z, N, {}, {}) /\ Ok(z, N, pl) /\ SameWalks(x, z)
<1>1. KDIR \in 0 .. N - 1 /\ PT0 \in 0 .. N - 1 /\ KDIR # PT1 /\ PT0 # PT1
  BY Frames
<1>2. \A f : Plain(x, f) => f \in 0 .. N - 1 /\ f # PT1
  <2> SUFFICES ASSUME NEW f, Plain(x, f) PROVE f \in 0 .. N - 1 /\ f # PT1
    OBVIOUS
  <2>1. f \in 0 .. N - 1 /\ f > PT1
    BY DEF Plain, Ok, BaseOk
  <2> QED BY <2>1, Frames
<1>3. \A i \in 2 .. ENTRIES - 1 : Has(x, i) => Tab(x, i) \in 0 .. N - 1 /\ Tab(x, i) # PT1
  <2> SUFFICES ASSUME NEW i \in 2 .. ENTRIES - 1, Has(x, i)
               PROVE  Tab(x, i) \in 0 .. N - 1 /\ Tab(x, i) # PT1
    OBVIOUS
  <2>1. Tab(x, i) \in 0 .. N - 1 /\ Tab(x, i) > PT1
    BY DEF Ok, BaseOk, DirOk, Ref, Has, Tab
  <2> QED BY <2>1, Frames
<1>4. Follows(x, z, N)
  <2>1. \A q \in DOMAIN z.tlb : q \in KPages /\ z.tlb[q] = Walk(x, KDIR, q)
    BY DEF Ok, TlbOk, Quiet
  <2>2. x.used \in SUBSET z.used /\ z.used \in SUBSET (0 .. N - 1) /\ Typed(z, N)
    BY DEF Quiet, Ok, BaseOk
  <2>3. z.mem[KDIR] = x.mem[KDIR] /\ z.mem[PT0] = x.mem[PT0]
    BY <1>1 DEF Quiet
  <2>4. \A i \in 2 .. ENTRIES - 1 : Has(x, i) => z.mem[Tab(x, i)] = x.mem[Tab(x, i)]
    BY <1>3 DEF Quiet
  <2> QED BY <2>1, <2>2, <2>3, <2>4 DEF Follows
<1>5. \A f : Plain(x, f) /\ f \notin {} => z.mem[f] = x.mem[f]
  BY <1>2 DEF Quiet
<1>6. z.fault = FALSE
  BY DEF Quiet
<1> HIDE DEF Quiet
<1> QED BY <1>4, <1>5, <1>6, FollowsStep

-----------------------------------------------------------------------------
(* Writing to a page of the kernel.                                        *)

\* z is x with row in the frame f of a page.
Written(x, z, N, f, row) ==
  /\ Step(x, z, N, {f}, {}) /\ z.used = x.used /\ z.mem[f] = row /\ SameWalks(x, z)

LEMMA PageWritten ==
  ASSUME NEW N \in Int, NEW x, Good(x, N), Dims(N), ~x.fault, NEW q \in KPages,
         Walk(x, KDIR, q) # None, NEW f, f = Walk(x, KDIR, q), NEW row, NEW z,
         Wrote(Access(x, q), z, N, f, row)
  PROVE  Written(x, z, N, f, row)
<1>1. PICK pl : Ok(x, N, pl)
  BY DEF Good
<1>2. Plain(x, f) /\ f \in 0 .. N - 1 /\ f > PT1
  BY PagePlain DEF Plain
<1>3. Translate(x, q) = f
  BY <1>1 DEF Translate, Ok, TlbOk
<1> DEFINE a == Access(x, q)
<1>4. Cached(x, a, N, q, f)
  <2>1. ~(q[1] < 2) /\ Typed(x, N) /\ Translate(x, q) \in 0 .. N - 1
    BY <1>1, <1>2, <1>3, KPage DEF Ok
  <2>2. Cached(x, a, N, q, Translate(x, q))
    BY <2>1, Accessed
  <2> QED BY <1>3, <2>2
<1>5. Wrote(a, z, N, f, row)
  OBVIOUS
<1> HIDE DEF a
<1>6. /\ Typed(z, N) /\ z.used = x.used /\ z.fault = FALSE /\ z.mem[f] = row
      /\ \A g \in 0 .. N - 1 : g # f => z.mem[g] = x.mem[g]
      /\ DOMAIN z.tlb = DOMAIN x.tlb \cup {q} /\ z.tlb[q] = f
      /\ \A r \in DOMAIN x.tlb : r # q => z.tlb[r] = x.tlb[r]
  BY <1>4, <1>5 DEF Cached, Wrote
<1>7. Follows(x, z, N)
  <2>1. \A r \in DOMAIN z.tlb : r \in KPages /\ z.tlb[r] = Walk(x, KDIR, r)
    BY <1>1, <1>6 DEF Ok, TlbOk
  <2>2. x.used \in SUBSET z.used /\ z.used \in SUBSET (0 .. N - 1)
    BY <1>1, <1>6 DEF Ok, BaseOk
  <2>3. z.mem[KDIR] = x.mem[KDIR] /\ z.mem[PT0] = x.mem[PT0]
    BY <1>2, <1>6, Frames
  <2>4. \A i \in 2 .. ENTRIES - 1 : Has(x, i) => Tab(x, i) \in 0 .. N - 1 /\ Tab(x, i) # f
    BY <1>1, <1>2 DEF Ok, BaseOk, DirOk, Ref, Has, Tab, Plain
  <2>5. \A i \in 2 .. ENTRIES - 1 : Has(x, i) => z.mem[Tab(x, i)] = x.mem[Tab(x, i)]
    BY <1>6, <2>4
  <2> QED BY <1>6, <2>1, <2>2, <2>3, <2>5 DEF Follows
<1>8. \A g : Plain(x, g) /\ g \notin {f} => z.mem[g] = x.mem[g]
  <2>1. \A g : Plain(x, g) => g \in 0 .. N - 1
    BY <1>1 DEF Plain, Ok, BaseOk
  <2> QED BY <1>6, <2>1
<1>9. Step(x, z, N, {f}, {}) /\ SameWalks(x, z)
  <2>1. z.fault = FALSE
    BY <1>6
  <2> HIDE DEF Follows
  <2> QED BY <1>1, <1>7, <1>8, <2>1, FollowsStep
<1> QED BY <1>6, <1>9 DEF Written

\* Filling a page, and storing a word in it.
LEMMA PageFilled ==
  ASSUME NEW N \in Int, NEW x, Good(x, N), Dims(N), ~x.fault, NEW q \in KPages,
         Walk(x, KDIR, q) # None, NEW w \in Words
  PROVE  Written(x, Fill(x, q, w), N, Walk(x, KDIR, q), [i \in Index |-> w])
<1> DEFINE f == Walk(x, KDIR, q)
           a == Access(x, q)
           row == [i \in Index |-> w]
           z == Fill(x, q, w)
<1>1. PICK pl : Ok(x, N, pl)
  BY DEF Good
<1>2. f \in 0 .. N - 1
  BY PagePlain
<1>3. Translate(x, q) = f
  BY <1>1 DEF Translate, Ok, TlbOk
<1>4. Cached(x, a, N, q, f)
  <2>1. ~(q[1] < 2) /\ Typed(x, N) /\ Translate(x, q) \in 0 .. N - 1
    BY <1>1, <1>2, <1>3, KPage DEF Ok
  <2>2. Cached(x, a, N, q, Translate(x, q))
    BY <2>1, Accessed
  <2> QED BY <1>3, <2>2
<1>5. row \in [Index -> Words]
  OBVIOUS
<1>6. z = [a EXCEPT !.mem[f] = row]
  BY <1>3, <1>4 DEF Fill, FillFrame, Cached
<1>7. Wrote(a, z, N, f, row)
  <2>1. Typed(a, N)
    BY <1>4 DEF Cached
  <2> HIDE DEF a, f, row
  <2>2. Wrote(a, [a EXCEPT !.mem[f] = row], N, f, row)
    BY <1>2, <1>5, <2>1, RowWritten
  <2> QED BY <1>6, <2>2
<1> HIDE DEF z, row, f
<1>8. f = Walk(x, KDIR, q)
  BY DEF f
<1>9. Written(x, z, N, f, row)
  BY <1>7, <1>8, PageWritten
<1> QED BY <1>9 DEF z, row, f

LEMMA PageStored ==
  ASSUME NEW N \in Int, NEW x, Good(x, N), Dims(N), ~x.fault, NEW q \in KPages,
         Walk(x, KDIR, q) # None, NEW i \in Index, NEW w \in Words
  PROVE  Written(x, Store(x, q, i, w), N, Walk(x, KDIR, q), [x.mem[Walk(x, KDIR, q)] EXCEPT ![i] = w])
<1> DEFINE f == Walk(x, KDIR, q)
           a == Access(x, q)
           row == [x.mem[f] EXCEPT ![i] = w]
           z == Store(x, q, i, w)
<1>1. PICK pl : Ok(x, N, pl)
  BY DEF Good
<1>2. f \in 0 .. N - 1
  BY PagePlain
<1>3. Translate(x, q) = f
  BY <1>1 DEF Translate, Ok, TlbOk
<1>4. Cached(x, a, N, q, f)
  <2>1. ~(q[1] < 2) /\ Typed(x, N) /\ Translate(x, q) \in 0 .. N - 1
    BY <1>1, <1>2, <1>3, KPage DEF Ok
  <2>2. Cached(x, a, N, q, Translate(x, q))
    BY <2>1, Accessed
  <2> QED BY <1>3, <2>2
<1>6. z = [a EXCEPT !.mem[f][i] = w]
  BY <1>3, <1>4 DEF Store, StoreFrame, Cached
<1>7. Wrote(a, z, N, f, row)
  <2>1. Typed(a, N) /\ a.mem = x.mem
    BY <1>4 DEF Cached
  <2>2. row = [a.mem[f] EXCEPT ![i] = w]
    BY <2>1
  <2> HIDE DEF a, f, row
  <2>3. Wrote(a, [a EXCEPT !.mem[f][i] = w], N, f, [a.mem[f] EXCEPT ![i] = w])
    BY <1>2, <2>1, WordWritten
  <2> QED BY <1>6, <2>2, <2>3
<1> HIDE DEF z, row, f
<1>8. f = Walk(x, KDIR, q)
  BY DEF f
<1>9. Written(x, z, N, f, row)
  BY <1>7, <1>8, PageWritten
<1> QED BY <1>9 DEF z, row, f

-----------------------------------------------------------------------------
(* Looking up a frame.                                                     *)

LEMMA LookedUp ==
  ASSUME NEW N \in Int, NEW x, NEW pl, Ok(x, N, pl), Dims(N), ~x.fault, NEW i \in Index, NEW j \in Index,
         Has(x, i), Tab(x, i) \in 0 .. N - 1, Tab(x, i) # PT1, Tab(x, i) # KDIR
  PROVE  /\ Quiet(x, vmm_get_physical_address(x, <<i, j>>).m, N)
         /\ vmm_get_physical_address(x, <<i, j>>).frame = x.mem[Tab(x, i)][j].frame
<1> DEFINE f == Tab(x, i)
           y == vmm_map_to_temp_window(x, f)
           a == Access(y, WINDOW)
           z == vmm_unmap_temp_window(a)
           r == vmm_get_physical_address(x, <<i, j>>)
<1>1. r.m = z /\ r.frame = Load(y, WINDOW, j).frame
  BY DEF vmm_get_physical_address, Directory, Has, Tab
<1>2. Base(x, N)
  BY OkBase
<1> HIDE DEF f
<1>3. Shown(x, y, N, f) /\ f \in 0 .. N - 1 /\ f # PT1 /\ f # KDIR
  BY <1>2, WindowMap DEF f
<1> HIDE DEF y
<1>4. Typed(y, N) /\ ~y.fault /\ Translate(y, WINDOW) = f /\ y.mem[f] = x.mem[f]
  BY <1>3 DEF Shown
<1>5. Cached(y, a, N, WINDOW, f)
  <2>1. Cached(y, a, N, WINDOW, Translate(y, WINDOW))
    BY <1>3, <1>4, Accessed
  <2> QED BY <1>4, <2>1
<1>6. Wrote(a, a, N, f, x.mem[f])
  BY <1>4, <1>5 DEF Cached, Wrote
<1>7. Through(x, z, N, f, x.mem[f])
  BY <1>2, <1>3, <1>6, WindowUsed
<1>8. Load(y, WINDOW, j) = x.mem[f][j]
  BY <1>4, <1>5 DEF Load, LoadFrame, Cached
<1> HIDE DEF z
<1>9. Quiet(x, z, N)
  BY <1>7 DEF Through, Quiet
<1> QED BY <1>1, <1>8, <1>9 DEF f

\* The result r of a look-up is the frame f.
Found(x, r, N, f) ==
  /\ Step(x, r.m, N, {}, {}) /\ r.m.used = x.used /\ SameWalks(x, r.m) /\ r.frame = f

LEMMA PageFound ==
  ASSUME NEW N \in Int, NEW x, Good(x, N), Dims(N), ~x.fault, NEW q \in KPages, Walk(x, KDIR, q) # None
  PROVE  Found(x, vmm_get_physical_address(x, q), N, Walk(x, KDIR, q))
<1>1. PICK pl : Ok(x, N, pl)
  BY DEF Good
<1>2. q = <<q[1], q[2]>> /\ q[1] \in Index /\ q[2] \in Index
  BY KPage
<1>3. Has(x, q[1]) /\ x.mem[Tab(x, q[1])][q[2]].frame = Walk(x, KDIR, q)
  BY <1>1, WalkIs
<1>4. Tab(x, q[1]) \in 0 .. N - 1 /\ Tab(x, q[1]) # PT1 /\ Tab(x, q[1]) # KDIR
  <2>1. Tab(x, q[1]) \in 0 .. N - 1 /\ Tab(x, q[1]) > PT1
    BY <1>1, <1>3, WalkIs
  <2> QED BY <2>1, Frames
<1> DEFINE r == vmm_get_physical_address(x, <<q[1], q[2]>>)
<1>5. Quiet(x, r.m, N) /\ r.frame = x.mem[Tab(x, q[1])][q[2]].frame
  BY <1>1, <1>2, <1>3, <1>4, LookedUp
<1>6. Step(x, r.m, N, {}, {}) /\ SameWalks(x, r.m)
  BY <1>1, <1>5, QuietStep
<1>7. r.m.used = x.used
  BY <1>5 DEF Quiet
<1> QED BY <1>2, <1>3, <1>5, <1>6, <1>7 DEF Found

LEMMA NullFound ==
  ASSUME NEW N \in Int, NEW x, Good(x, N), Dims(N), ~x.fault
  PROVE  Found(x, vmm_get_physical_address(x, NULL), N, x.mem[PT0][0].frame)
<1>1. PICK pl : Ok(x, N, pl)
  BY DEF Good
<1>2. 0 \in Index /\ PT0 \in 0 .. N - 1 /\ PT0 # PT1 /\ PT0 # KDIR /\ PT0 \in Int
  BY Frames
<1>3. Has(x, 0) /\ Tab(x, 0) = PT0
  <2>1. IsEntry(Entry(FALSE, PT0), FALSE, PT0)
    BY <1>2, EntryFields
  <2> QED BY <1>1, <2>1 DEF IsEntry, Ok, BaseOk, Has, Tab
<1> DEFINE r == vmm_get_physical_address(x, <<0, 0>>)
<1>5. Quiet(x, r.m, N) /\ r.frame = x.mem[Tab(x, 0)][0].frame
  BY <1>1, <1>2, <1>3, LookedUp
<1>6. Step(x, r.m, N, {}, {}) /\ SameWalks(x, r.m)
  BY <1>1, <1>5, QuietStep
<1>7. r.m.used = x.used
  BY <1>5 DEF Quiet
<1> QED BY <1>3, <1>5, <1>6, <1>7 DEF Found, NULL

-----------------------------------------------------------------------------
(* One entry of a table.                                                   *)

\* z is x with the word w for page <<i, j>>, the page not cached.
Entered(x, z, N, i, j, w) ==
  /\ Typed(z, N) /\ z.used = x.used /\ z.fault = FALSE
  /\ \A r \in DOMAIN z.tlb : r \in DOMAIN x.tlb /\ r # <<i, j>> /\ z.tlb[r] = x.tlb[r]
  /\ z.mem[Tab(x, i)] = [x.mem[Tab(x, i)] EXCEPT ![j] = w]
  /\ \A g \in 0 .. N - 1 : g # Tab(x, i) /\ g # PT1 => z.mem[g] = x.mem[g]

\* Page q moves to the frame v, and all else stays.
Moves(x, z, N, q, v) ==
  /\ z.fault = FALSE /\ z.used = x.used
  /\ \A f : Plain(x, f) => Plain(z, f) /\ z.mem[f] = x.mem[f]
  /\ Walk(z, KDIR, q) = v
  /\ \A r \in KPages : r # q => Walk(z, KDIR, r) = Walk(x, KDIR, r)

LEMMA EntryOk ==
  ASSUME NEW N \in Int, NEW x, NEW pl, Ok(x, N, pl), Dims(N), NEW i \in 2 .. ENTRIES - 1, NEW j \in Index,
         Has(x, i), NEW w \in Words, w.present => Ref(x, pl, w, <<i, j>>),
         NEW z, Entered(x, z, N, i, j, w)
  PROVE  Ok(z, N, pl) /\ Moves(x, z, N, <<i, j>>, IF w.present THEN w.frame ELSE None)
<1> DEFINE t == Tab(x, i)
           q == <<i, j>>
<1>1. q \in KPages /\ q[1] = i /\ q[2] = j
  BY DEF KPages
<1> HIDE DEF q
<1>2. t \in x.used /\ t \in 0 .. N - 1 /\ t > PT1 /\ pl[t] = <<i, None>>
  BY <1>1, WalkIs
<1>3. /\ t # KDIR /\ t # PT0 /\ t # PT1 /\ KDIR \in 0 .. N - 1 /\ PT0 \in 0 .. N - 1
      /\ KDIR # PT1 /\ PT0 # PT1
  BY <1>2, Frames
<1>4. z.mem[KDIR] = x.mem[KDIR] /\ z.mem[PT0] = x.mem[PT0]
  BY <1>3 DEF Entered
<1>5. \A k \in 2 .. ENTRIES - 1 : Has(z, k) = Has(x, k) /\ Tab(z, k) = Tab(x, k)
  BY <1>4 DEF Has, Tab
<1>6. ASSUME NEW k \in 2 .. ENTRIES - 1, Has(x, k), k # i
      PROVE  z.mem[Tab(x, k)] = x.mem[Tab(x, k)]
  <2>1. Tab(x, k) \in 0 .. N - 1 /\ Tab(x, k) > PT1 /\ pl[Tab(x, k)] = <<k, None>>
    BY <1>6 DEF Ok, BaseOk, DirOk, Ref, Has, Tab
  <2>2. Tab(x, k) # t
    BY <1>2, <1>6, <2>1
  <2>3. Tab(x, k) # PT1
    BY <2>1, Frames
  <2> QED BY <2>1, <2>2, <2>3 DEF Entered
<1>7. z.mem[t][j] = w /\ \A l \in Index : l # j => z.mem[t][l] = x.mem[t][l]
  <2>1. x.mem[t] \in [Index -> Words]
    BY <1>2 DEF Ok, Typed
  <2> QED BY <2>1 DEF Entered
<1>8. Typed(z, N) /\ z.used = x.used /\ z.fault = FALSE /\ DOMAIN z.mem = 0 .. N - 1
  BY DEF Entered, Typed
<1>9. BaseOk(z, N, pl)
  BY <1>4, <1>8 DEF Ok, BaseOk
<1>10. DirOk(z, pl)
  BY <1>4, <1>8 DEF Ok, DirOk, Ref
<1>11. TabOk(z, pl)
  <2> SUFFICES ASSUME NEW k \in 2 .. ENTRIES - 1, NEW l \in Index,
                      z.mem[KDIR][k].present, z.mem[z.mem[KDIR][k].frame][l].present
               PROVE  Ref(z, pl, z.mem[z.mem[KDIR][k].frame][l], <<k, l>>)
    BY DEF TabOk
  <2>0. Has(x, k) /\ z.mem[KDIR][k].frame = Tab(x, k)
    BY <1>4 DEF Has, Tab
  <2> SUFFICES Ref(x, pl, z.mem[Tab(x, k)][l], <<k, l>>)
    BY <1>8, <2>0 DEF Ref
  <2>1. CASE k = i /\ l = j
    BY <1>7, <2>0, <2>1
  <2>2. CASE ~(k = i /\ l = j)
    <3>1. z.mem[Tab(x, k)][l] = x.mem[Tab(x, k)][l]
      BY <1>6, <1>7, <2>0, <2>2
    <3> QED BY <2>0, <3>1 DEF Ok, TabOk, Has, Tab
  <2> QED BY <2>1, <2>2
<1>12. Walk(z, KDIR, q) = IF w.present THEN w.frame ELSE None
  <2>1. z.mem[KDIR][i].present /\ z.mem[KDIR][i].frame = t
    BY <1>4 DEF Has, Tab
  <2> QED BY <1>1, <1>2, <1>7, <1>8, <2>1 DEF Walk, Leaf
<1>13. ASSUME NEW r \in KPages, r # q PROVE Walk(z, KDIR, r) = Walk(x, KDIR, r)
  <2>1. /\ r = <<r[1], r[2]>> /\ r[1] \in 2 .. ENTRIES - 1 /\ r[2] \in Index
    BY KPage
  <2>2. ~(r[1] = i /\ r[2] = j)
    BY <1>13, <2>1 DEF q
  <2>3. Has(x, r[1]) => z.mem[Tab(x, r[1])][r[2]] = x.mem[Tab(x, r[1])][r[2]]
    BY <1>6, <1>7, <2>1, <2>2
  <2>4. DOMAIN x.mem = DOMAIN z.mem
    BY <1>8 DEF Ok, Typed
  <2> QED BY <1>4, <2>3, <2>4 DEF Walk, Leaf, Has, Tab
<1>14. TlbOk(z)
  <2> SUFFICES ASSUME NEW r \in DOMAIN z.tlb PROVE r \in KPages /\ z.tlb[r] = Walk(z, KDIR, r)
    BY DEF TlbOk
  <2>1. r \in DOMAIN x.tlb /\ r # q /\ z.tlb[r] = x.tlb[r]
    BY DEF Entered, q
  <2> QED BY <1>13, <2>1 DEF Ok, TlbOk
<1>15. ASSUME NEW f, Plain(x, f) PROVE Plain(z, f) /\ z.mem[f] = x.mem[f]
  <2>1. Plain(z, f)
    BY <1>5, <1>8, <1>15 DEF Plain
  <2>2. f \in 0 .. N - 1 /\ f > PT1 /\ f # t
    BY <1>15 DEF Plain, Ok, BaseOk
  <2>3. f # PT1
    BY <2>2, Frames
  <2> QED BY <2>1, <2>2, <2>3 DEF Entered
<1> QED BY <1>8, <1>9, <1>10, <1>11, <1>12, <1>13, <1>14, <1>15 DEF Ok, Moves, q

-----------------------------------------------------------------------------
(* vmm_free_page.                                                          *)

\* Page q, which was in frame f, is not mapped any more.
Freed(x, z, N, q, f) ==
  /\ Step(x, z, N, {}, {q}) /\ z.used = x.used /\ Walk(z, KDIR, q) = None /\ Loose(z, f)
  /\ \A r \in KPages : r # q => Walk(z, KDIR, r) = Walk(x, KDIR, r)

LEMMA PageFreed ==
  ASSUME NEW N \in Int, NEW x, Good(x, N), Dims(N), ~x.fault, NEW q \in KPages, Walk(x, KDIR, q) # None
  PROVE  Freed(x, vmm_free_page(x, q), N, q, Walk(x, KDIR, q))
<1>1. PICK pl : Ok(x, N, pl)
  BY DEF Good
<1> DEFINE i == q[1]
           j == q[2]
           t == Tab(x, i)
           w == Cleared(x.mem[t][j])
           v == [x EXCEPT !.mem[t][j] = w]
           z == vmm_free_page(x, q)
<1>2. q = <<i, j>> /\ i \in 2 .. ENTRIES - 1 /\ j \in Index
  BY KPage
<1>3. Has(x, i) /\ t \in 0 .. N - 1 /\ t \in x.used
  BY <1>1, WalkIs
<1> HIDE DEF i, j
<1>4. x.mem[t] \in [Index -> Words] /\ x.mem[t][j] \in Words /\ Typed(x, N)
  BY <1>1, <1>2, <1>3 DEF Ok, Typed
<1>5. w \in Words /\ w.present = FALSE
  BY <1>4, WordCleared
<1>6. z = paging_invalidate_page_cache(v, q)
  <2>1. Directory(x, q[1]).present /\ Directory(x, q[1]).frame = t /\ q[2] = j
    BY <1>3 DEF Directory, Has, Tab, i, j
  <2>2. [x EXCEPT !.mem[t][j] = Cleared(@)] = v
    OBVIOUS
  <2> QED BY <2>1, <2>2 DEF vmm_free_page
<1> HIDE DEF w, t
<1>7. Wrote(x, v, N, t, [x.mem[t] EXCEPT ![j] = w])
  BY <1>2, <1>3, <1>4, <1>5, WordWritten
<1> HIDE DEF v
<1>8. Dropped(v, z, N, q)
  BY <1>6, <1>7, Invalidated DEF Wrote
<1> HIDE DEF z
<1>9. Entered(x, z, N, i, j, w)
  <2>1. z.fault = FALSE
    BY <1>4, <1>7, <1>8 DEF Wrote, Dropped, Typed
  <2> QED BY <1>2, <1>7, <1>8, <2>1 DEF Wrote, Dropped, Entered, t
<1>10. Ok(z, N, pl) /\ Moves(x, z, N, q, None)
  BY <1>1, <1>2, <1>3, <1>5, <1>9, EntryOk
<1>11. Step(x, z, N, {}, {q})
  <2>1. Good(z, N)
    BY <1>10 DEF Good
  <2>2. ASSUME NEW f, Loose(x, f) PROVE Loose(z, f)
    <3>1. Plain(z, f)
      BY <1>10, <2>2 DEF Loose, Moves
    <3>2. f # None
      <4>1. f \in 0 .. N - 1
        BY <1>1, <2>2 DEF Loose, Plain, Ok, BaseOk
      <4> QED BY <4>1 DEF None
    <3> QED BY <1>10, <2>2, <3>1, <3>2 DEF Loose, Moves
  <2> QED BY <1>10, <2>1, <2>2 DEF Moves, Step
<1>12. Loose(z, Walk(x, KDIR, q))
  <2>1. Plain(x, Walk(x, KDIR, q)) /\ \A r \in KPages : Walk(x, KDIR, r) = Walk(x, KDIR, q) => r = q
    BY PagePlain
  <2> QED BY <1>10, <2>1 DEF Loose, Moves
<1> QED BY <1>10, <1>11, <1>12 DEF Freed, Moves, z

-----------------------------------------------------------------------------
(* vmm_get_new_page.                                                       *)

\* The machine of NewTable, row by row.
TableRows(x, z, N, i, t, e) ==
  /\ Typed(z, N) /\ z.used = x.used \cup {t} /\ z.fault = FALSE
  /\ DOMAIN z.tlb = DOMAIN x.tlb /\ \A q \in DOMAIN x.tlb : z.tlb[q] = x.tlb[q]
  /\ z.mem[t] = [k \in Index |-> ZERO]
  /\ z.mem[KDIR] = [x.mem[KDIR] EXCEPT ![i] = e]
  /\ \A g \in 0 .. N - 1 : g # t /\ g # PT1 /\ g # KDIR => z.mem[g] = x.mem[g]

LEMMA NewTableRows ==
  ASSUME NEW N \in Int, NEW x, NEW pl, Ok(x, N, pl), Dims(N), ~x.fault, NEW i \in 2 .. ENTRIES - 1,
         NEW u \in BOOLEAN, NEW t \in 0 .. N - 1, t \notin x.used
  PROVE  TableRows(x, NewTable(x, i, u, t), N, i, t, Entry(u, t))
<1> DEFINE w == Entry(u, t)
           m == Mark(x, t)
           e == [m EXCEPT !.mem[KDIR][i] = w]
           y == vmm_map_to_temp_window(e, t)
           a == Access(y, WINDOW)
           row == [k \in Index |-> ZERO]
           b == Fill(y, WINDOW, ZERO)
           z == NewTable(x, i, u, t)
<1>1. z = vmm_unmap_temp_window(b)
  BY DEF NewTable
<1>2. w \in Words
  <2>1. t \in Int
    OBVIOUS
  <2>2. IsEntry(w, u, t)
    BY <2>1, EntryFields
  <2> QED BY <2>2 DEF IsEntry
<1>3. KDIR \in 0 .. N - 1 /\ i \in Index /\ 1 \in Index /\ i # 1 /\ KDIR # PT1
  BY Frames DEF Index
<1>4. t # PT1 /\ t # KDIR
  <2>1. 0 .. PT1 \subseteq x.used
    BY DEF Ok, BaseOk
  <2> QED BY <2>1, Frames
<1>5. MarkedIn(x, m, N, t)
  BY MarkIs DEF Ok
<1> HIDE DEF w, m
<1>6. Wrote(m, e, N, KDIR, [m.mem[KDIR] EXCEPT ![i] = w])
  BY <1>2, <1>3, <1>5, WordWritten DEF MarkedIn
<1> HIDE DEF e
<1>7. /\ Typed(e, N) /\ e.used = x.used \cup {t} /\ e.tlb = x.tlb /\ e.fault = x.fault
      /\ e.mem[KDIR] = [x.mem[KDIR] EXCEPT ![i] = w]
      /\ \A g \in 0 .. N - 1 : g # KDIR => e.mem[g] = x.mem[g]
  BY <1>5, <1>6 DEF Wrote, MarkedIn
<1>8. Base(e, N)
  <2>1. x.mem[KDIR] \in [Index -> Words]
    BY <1>3 DEF Ok, Typed
  <2>2. e.mem[KDIR][1] = x.mem[KDIR][1]
    BY <1>3, <1>7, <2>1
  <2>3. x.mem[KDIR][1] = Entry(FALSE, PT1) /\ DOMAIN x.tlb \subseteq KPages
    BY DEF Ok, BaseOk, TlbOk
  <2> QED BY <1>7, <2>2, <2>3 DEF Base
<1>9. Shown(e, y, N, t)
  BY <1>7, <1>8, WindowMap
<1> HIDE DEF y
<1>10. Typed(y, N) /\ ~y.fault /\ Translate(y, WINDOW) = t
  BY <1>9 DEF Shown
<1>11. Cached(y, a, N, WINDOW, t)
  <2>1. Cached(y, a, N, WINDOW, Translate(y, WINDOW))
    BY <1>10, Accessed
  <2> QED BY <1>10, <2>1
<1>12. b = [a EXCEPT !.mem[t] = row]
  BY <1>10, <1>11 DEF Fill, FillFrame, Cached
<1>13. row \in [Index -> Words]
  BY ZeroFields
<1>14. Wrote(a, b, N, t, row)
  <2>1. Typed(a, N)
    BY <1>11 DEF Cached
  <2> HIDE DEF a, row
  <2>2. Wrote(a, [a EXCEPT !.mem[t] = row], N, t, row)
    BY <1>13, <2>1, RowWritten
  <2> QED BY <1>12, <2>2
<1> HIDE DEF b, row
<1>15. Through(e, z, N, t, row)
  <2>1. ~e.fault
    BY <1>7
  <2>2. Through(e, vmm_unmap_temp_window(b), N, t, row)
    BY <1>4, <1>8, <1>9, <1>14, <2>1, WindowUsed
  <2> QED BY <1>1, <2>2
<1> HIDE DEF z
<1>16. /\ z.mem[KDIR] = [x.mem[KDIR] EXCEPT ![i] = w]
       /\ \A g \in 0 .. N - 1 : g # t /\ g # PT1 /\ g # KDIR => z.mem[g] = x.mem[g]
  BY <1>3, <1>4, <1>7, <1>15 DEF Through
<1>17. /\ Typed(z, N) /\ z.used = x.used \cup {t} /\ z.fault = FALSE /\ z.mem[t] = row
       /\ DOMAIN z.tlb = DOMAIN x.tlb /\ \A q \in DOMAIN x.tlb : z.tlb[q] = x.tlb[q]
  BY <1>7, <1>15 DEF Through
<1> QED BY <1>16, <1>17 DEF TableRows, z, w, row

\* A new table is empty: the pages of the kernel are where they were.
HasTable(x, z, N, p2, i, t) ==
  /\ Ok(z, N, p2) /\ Has(z, i) /\ z.used = x.used \cup {t}
  /\ SameWalks(x, z) /\ Step(x, z, N, {}, {})

LEMMA NewTableOk ==
  ASSUME NEW N \in Int, NEW x, NEW pl, Ok(x, N, pl), Dims(N), ~x.fault, NEW i \in 2 .. ENTRIES - 1,
         i < HEAP, ~Has(x, i), NEW u \in BOOLEAN, NEW t \in 0 .. N - 1, t \notin x.used,
         NEW z, z = NewTable(x, i, u, t)
  PROVE  HasTable(x, z, N, [pl EXCEPT ![t] = <<i, None>>], i, t)
<1> DEFINE p2 == [pl EXCEPT ![t] = <<i, None>>]
           e == Entry(u, t)
<1>1. TableRows(x, z, N, i, t, e)
  BY NewTableRows
<1>2. e.present = TRUE /\ e.frame = t /\ e.tag = <<"entry">>
  <2>1. t \in Int
    OBVIOUS
  <2>2. IsEntry(e, u, t)
    BY <2>1, EntryFields
  <2> QED BY <2>2 DEF IsEntry
<1>3. /\ KDIR \in 0 .. N - 1 /\ PT0 \in 0 .. N - 1 /\ i \in Index /\ 0 \in Index /\ 1 \in Index
      /\ i # 0 /\ i # 1 /\ KDIR # PT1 /\ KDIR # PT0 /\ PT0 # PT1 /\ PT1 \in Int /\ KDIR < PT1
  BY Frames DEF Index
<1>4. t # PT1 /\ t # KDIR /\ t # PT0 /\ t > PT1
  <2>1. 0 .. PT1 \subseteq x.used /\ PT1 \in Int /\ KDIR \in Int /\ PT0 \in Int
    BY Frames DEF Ok, BaseOk
  <2> QED BY <2>1, Frames
<1>5. Ok(x, N, p2) /\ p2[t] = <<i, None>>
  <2>1. <<i, None>> \in Int \X Int
    BY DEF None
  <2>2. Ok(x, N, p2)
    BY <2>1, Replaced
  <2>3. pl \in [0 .. N - 1 -> Int \X Int]
    BY DEF Ok, BaseOk
  <2> QED BY <2>2, <2>3
<1> HIDE DEF p2, e
<1>6. /\ Typed(z, N) /\ z.used = x.used \cup {t} /\ z.fault = FALSE /\ DOMAIN z.mem = 0 .. N - 1
      /\ DOMAIN z.tlb = DOMAIN x.tlb /\ \A q \in DOMAIN x.tlb : z.tlb[q] = x.tlb[q]
  BY <1>1 DEF TableRows, Typed
<1>7. z.mem[KDIR][i] = e /\ \A k \in Index : k # i => z.mem[KDIR][k] = x.mem[KDIR][k]
  <2>1. x.mem[KDIR] \in [Index -> Words]
    BY <1>3 DEF Ok, Typed
  <2> QED BY <1>1, <1>3, <2>1 DEF TableRows
<1>8. \A k \in Index : z.mem[t][k].present = FALSE
  BY <1>1, ZeroFields DEF TableRows
<1>9. z.mem[PT0] = x.mem[PT0]
  BY <1>1, <1>3, <1>4 DEF TableRows
<1>10. \A k \in 2 .. ENTRIES - 1 : k \in Index
  BY DEF Index
<1>11. ASSUME NEW k \in 2 .. ENTRIES - 1, Has(x, k), k # i
       PROVE  /\ z.mem[Tab(x, k)] = x.mem[Tab(x, k)] /\ Tab(x, k) \in x.used
              /\ Has(z, k) /\ Tab(z, k) = Tab(x, k)
  <2>1. Tab(x, k) \in x.used /\ Tab(x, k) \in 0 .. N - 1 /\ Tab(x, k) > PT1
    BY <1>11 DEF Ok, BaseOk, DirOk, Ref, Has, Tab
  <2>2. Tab(x, k) # PT1 /\ Tab(x, k) # KDIR /\ Tab(x, k) # t
    BY <1>3, <2>1
  <2> QED BY <1>1, <1>7, <1>10, <1>11, <2>1, <2>2 DEF TableRows, Has, Tab
<1>12. BaseOk(z, N, p2)
  <2>1. \A k \in Index : k >= HEAP => k # i
    BY DEF Dims, HEAP, Index
  <2> QED BY <1>3, <1>5, <1>6, <1>7, <1>9, <2>1 DEF Ok, BaseOk
<1>13. DirOk(z, p2)
  <2> SUFFICES ASSUME NEW k \in 2 .. ENTRIES - 1, z.mem[KDIR][k].present
               PROVE  Ref(z, p2, z.mem[KDIR][k], <<k, None>>)
    BY DEF DirOk
  <2>1. CASE k = i
    BY <1>2, <1>4, <1>5, <1>6, <1>7, <2>1 DEF Ref
  <2>2. CASE k # i
    <3>1. z.mem[KDIR][k] = x.mem[KDIR][k]
      BY <1>7, <1>10, <2>2
    <3> QED BY <1>5, <1>6, <3>1 DEF Ok, DirOk, Ref
  <2> QED BY <2>1, <2>2
<1>14. TabOk(z, p2)
  <2> SUFFICES ASSUME NEW k \in 2 .. ENTRIES - 1, NEW l \in Index,
                      z.mem[KDIR][k].present, z.mem[z.mem[KDIR][k].frame][l].present
               PROVE  Ref(z, p2, z.mem[z.mem[KDIR][k].frame][l], <<k, l>>)
    BY DEF TabOk
  <2>1. k # i
    BY <1>2, <1>7, <1>8
  <2>2. x.mem[KDIR][k].present /\ z.mem[KDIR][k].frame = x.mem[KDIR][k].frame
    BY <1>7, <1>10, <2>1
  <2>3. z.mem[z.mem[KDIR][k].frame] = x.mem[x.mem[KDIR][k].frame]
    BY <1>11, <2>1, <2>2 DEF Has, Tab
  <2>4. Ref(x, p2, x.mem[x.mem[KDIR][k].frame][l], <<k, l>>)
    BY <1>5, <2>2, <2>3 DEF Ok, TabOk
  <2> QED BY <1>6, <2>3, <2>4 DEF Ref
<1>15. ASSUME NEW r \in KPages PROVE Walk(z, KDIR, r) = Walk(x, KDIR, r)
  <2>1. r[1] \in 2 .. ENTRIES - 1 /\ r[2] \in Index
    BY KPage
  <2>2. CASE r[1] = i
    <3>1. Walk(x, KDIR, r) = None
      BY <2>2 DEF Walk, Leaf, Has
    <3>2. Walk(z, KDIR, r) = None
      BY <1>2, <1>7, <1>8, <2>1, <2>2 DEF Walk, Leaf
    <3> QED BY <3>1, <3>2
  <2>3. CASE r[1] # i
    <3>1. z.mem[KDIR][r[1]] = x.mem[KDIR][r[1]]
      BY <1>7, <1>10, <2>1, <2>3
    <3>2. Has(x, r[1]) => z.mem[Tab(x, r[1])] = x.mem[Tab(x, r[1])]
      BY <1>11, <2>1, <2>3
    <3>3. DOMAIN x.mem = DOMAIN z.mem
      BY <1>6 DEF Ok, Typed
    <3> QED BY <3>1, <3>2, <3>3 DEF Walk, Leaf, Has, Tab
  <2> QED BY <2>2, <2>3
<1>16. TlbOk(z)
  BY <1>6, <1>15 DEF Ok, TlbOk
<1>17. Ok(z, N, p2)
  BY <1>6, <1>12, <1>13, <1>14, <1>16 DEF Ok
<1>18. ASSUME NEW f, Plain(x, f) PROVE Plain(z, f) /\ z.mem[f] = x.mem[f]
  <2>1. f \in x.used /\ f \in 0 .. N - 1 /\ f > PT1 /\ f # t
    BY <1>18 DEF Plain, Ok, BaseOk
  <2>2. \A k \in 2 .. ENTRIES - 1 : Has(z, k) => Tab(z, k) # f
    <3> SUFFICES ASSUME NEW k \in 2 .. ENTRIES - 1, Has(z, k) PROVE Tab(z, k) # f
      OBVIOUS
    <3>1. CASE k = i
      BY <1>2, <1>7, <2>1, <3>1 DEF Tab
    <3>2. CASE k # i
      BY <1>7, <1>10, <1>18, <3>2 DEF Plain, Has, Tab
    <3> QED BY <3>1, <3>2
  <2>3. f # PT1 /\ f # KDIR
    BY <1>3, <2>1
  <2> QED BY <1>1, <1>6, <2>1, <2>2, <2>3 DEF Plain, TableRows
<1>19. Step(x, z, N, {}, {})
  <2>1. Good(z, N)
    BY <1>17 DEF Good
  <2>2. ASSUME NEW f, Loose(x, f) PROVE Loose(z, f)
    BY <1>15, <1>18, <2>2 DEF Loose
  <2> QED BY <1>6, <1>15, <1>18, <2>1, <2>2 DEF Step
<1>20. Has(z, i)
  BY <1>2, <1>7 DEF Has
<1> QED BY <1>6, <1>15, <1>17, <1>19, <1>20 DEF SameWalks, HasTable, p2

\* The page is entered, and its frame is its own.
LEMMA EnterOk ==
  ASSUME NEW N \in Int, NEW x, NEW pl, Ok(x, N, pl), Dims(N), ~x.fault, NEW q \in KPages,
         Has(x, q[1]), NEW u \in BOOLEAN, NEW f \in 0 .. N - 1, f \in x.used, f > PT1, pl[f] = q,
         NEW z, z = EnterPage(x, u, q, f)
  PROVE  Ok(z, N, pl) /\ Moves(x, z, N, q, f)
<1> DEFINE i == q[1]
           j == q[2]
           t == Tab(x, i)
           w == Entry(u, f)
           y == vmm_map_to_temp_window(x, t)
           a == Access(y, WINDOW)
           b == Store(y, WINDOW, j, w)
           c == vmm_unmap_temp_window(b)
           row == [x.mem[t] EXCEPT ![j] = w]
<1>1. z = paging_invalidate_page_cache(c, q)
  BY DEF EnterPage, Directory, Tab
<1>2. q = <<i, j>> /\ i \in 2 .. ENTRIES - 1 /\ j \in Index
  BY KPage
<1>3. t \in x.used /\ t \in 0 .. N - 1 /\ t > PT1 /\ t # PT1 /\ t # KDIR /\ Has(x, i)
  <2>1. t \in x.used /\ t \in 0 .. N - 1 /\ t > PT1
    BY WalkIs
  <2> QED BY <2>1, Frames
<1> HIDE DEF i, j
<1>4. w \in Words /\ w.present = TRUE /\ w.frame = f /\ w.tag = <<"entry">>
  <2>1. f \in Int
    OBVIOUS
  <2>2. IsEntry(w, u, f)
    BY <2>1, EntryFields
  <2> QED BY <2>2 DEF IsEntry
<1>5. Base(x, N)
  BY OkBase
<1> HIDE DEF w, t
<1>6. Shown(x, y, N, t)
  BY <1>3, <1>5, WindowMap
<1> HIDE DEF y
<1>7. Typed(y, N) /\ ~y.fault /\ Translate(y, WINDOW) = t /\ y.mem[t] = x.mem[t]
  BY <1>3, <1>6 DEF Shown
<1>8. Cached(y, a, N, WINDOW, t)
  <2>1. Cached(y, a, N, WINDOW, Translate(y, WINDOW))
    BY <1>3, <1>7, Accessed
  <2> QED BY <1>7, <2>1
<1>9. b = [a EXCEPT !.mem[t][j] = w]
  BY <1>7, <1>8 DEF Store, StoreFrame, Cached
<1>10. Wrote(a, b, N, t, row)
  <2>1. Typed(a, N) /\ a.mem = y.mem
    BY <1>8 DEF Cached
  <2>2. row = [a.mem[t] EXCEPT ![j] = w]
    BY <1>7, <2>1
  <2> HIDE DEF a, row
  <2>3. Wrote(a, [a EXCEPT !.mem[t][j] = w], N, t, [a.mem[t] EXCEPT ![j] = w])
    BY <1>2, <1>3, <1>4, <2>1, WordWritten
  <2> QED BY <1>9, <2>2, <2>3
<1> HIDE DEF b, row
<1>11. Through(x, c, N, t, row)
  BY <1>3, <1>5, <1>6, <1>10, WindowUsed
<1> HIDE DEF c
<1>12. Dropped(c, z, N, q)
  BY <1>1, <1>11, Invalidated DEF Through
<1>13. Entered(x, z, N, i, j, w)
  BY <1>2, <1>11, <1>12 DEF Through, Dropped, Entered, row, t
<1>14. Ref(x, pl, w, <<i, j>>)
  BY <1>2, <1>4 DEF Ref
<1> QED BY <1>2, <1>3, <1>4, <1>13, <1>14, EntryOk

\* The frame of an entry for page j below directory index i.
Cell(x, i, j) == x.mem[Tab(x, i)][j].frame

\* A directory index without a free page.
Full(x, N, pl, i) ==
  /\ Tab(x, i) \in PT1 + 1 .. N - 1 /\ pl[Tab(x, i)] = <<i, None>>
  /\ \A j \in Index : Cell(x, i, j) \in PT1 + 1 .. N - 1 /\ pl[Cell(x, i, j)] = <<i, j>>

LEMMA FullIs ==
  ASSUME NEW N \in Int, NEW x, NEW pl, Ok(x, N, pl), Dims(N), NEW i \in 2 .. ENTRIES - 1, FreeIn(x, i) = {}
  PROVE  Full(x, N, pl, i)
<1>1. Has(x, i) /\ \A j \in Index : x.mem[Tab(x, i)][j].present
  BY DEF FreeIn, Directory, Has, Tab
<1>2. Tab(x, i) \in x.used /\ Tab(x, i) > PT1 /\ pl[Tab(x, i)] = <<i, None>>
  BY <1>1 DEF Ok, DirOk, Ref, Has, Tab
<1>3. ASSUME NEW j \in Index
      PROVE  Cell(x, i, j) \in x.used /\ Cell(x, i, j) > PT1 /\ pl[Cell(x, i, j)] = <<i, j>>
  BY <1>1 DEF Ok, TabOk, Ref, Has, Tab, Cell
<1>4. PT1 \in Int /\ x.used \in SUBSET (0 .. N - 1)
  BY Frames DEF Ok, BaseOk
<1>5. \A f \in x.used : f > PT1 => f \in PT1 + 1 .. N - 1
  BY <1>4
<1> QED BY <1>2, <1>3, <1>5 DEF Full

\* There are fewer frames than pages to choose from below the words of the heap.
LEMMA SlotExists ==
  ASSUME NEW N \in Int, NEW x, NEW pl, Ok(x, N, pl), Dims(N)
  PROVE  \E i \in 2 .. HEAP - 1 : i \notin {USER_DIR, USER_DIR + 1} /\ FreeIn(x, i) # {}
<1> SUFFICES ASSUME \A i \in 2 .. HEAP - 1 : i \notin {USER_DIR, USER_DIR + 1} => FreeIn(x, i) = {}
             PROVE  FALSE
  OBVIOUS
<1>1. /\ ENTRIES \in Int /\ ENTRIES >= 10 /\ USER_DIR \in Int /\ USER_DIR >= 3 /\ USER_DIR <= ENTRIES - 2
      /\ PT1 \in Int /\ PT1 >= 3 /\ N <= 2 * ENTRIES - 1 /\ PT1 < N /\ HEAP = ENTRIES - 4
  BY DEF Dims, PT1, HEAP
<1> DEFINE T == PT1 + 1 .. N - 1
<1>2. IsFiniteSet(T) /\ Cardinality(T) <= 2 * ENTRIES - 5 /\ Cardinality(T) \in Int
  <2>1. PT1 + 1 \in Int /\ N - 1 \in Int
    BY <1>1
  <2>2. IsFiniteSet(T) /\ Cardinality(T) = IF PT1 + 1 > N - 1 THEN 0 ELSE N - 1 - (PT1 + 1) + 1
    BY <2>1, FS_Interval
  <2> QED BY <1>1, <2>2
<1>3. Full(x, N, pl, 2)
  <2>1. 2 \in 2 .. ENTRIES - 1 /\ 2 \in 2 .. HEAP - 1 /\ 2 \notin {USER_DIR, USER_DIR + 1}
    BY <1>1
  <2> QED BY <2>1, FullIs
<1>4. PICK c \in 2 .. HEAP - 1 : c \notin {USER_DIR, USER_DIR + 1} /\ c # 2
  <2>1. CASE USER_DIR = 3
    <3>1. 5 \in 2 .. HEAP - 1 /\ 5 \notin {USER_DIR, USER_DIR + 1} /\ 5 # 2
      BY <1>1, <2>1
    <3> QED BY <3>1
  <2>2. CASE USER_DIR # 3
    <3>1. 3 \in 2 .. HEAP - 1 /\ 3 \notin {USER_DIR, USER_DIR + 1} /\ 3 # 2
      BY <1>1, <2>2
    <3> QED BY <3>1
  <2> QED BY <2>1, <2>2
<1>5. Full(x, N, pl, c)
  <2>1. c \in 2 .. ENTRIES - 1
    BY <1>1
  <2> QED BY <1>4, <2>1, FullIs
<1> DEFINE S == 0 .. 2 * ENTRIES - 1
           F == [n \in S |-> IF n < ENTRIES THEN Cell(x, 2, n) ELSE Cell(x, c, n - ENTRIES)]
<1>6. \A n \in S : IF n < ENTRIES THEN n \in Index ELSE n - ENTRIES \in Index
  BY <1>1 DEF Index
<1>7. F \in [S -> T]
  BY <1>3, <1>5, <1>6 DEF Full
<1>8. IsFiniteSet(S) /\ Cardinality(S) = 2 * ENTRIES
  <2>1. 0 \in Int /\ 2 * ENTRIES - 1 \in Int
    BY <1>1
  <2>2. IsFiniteSet(S) /\ Cardinality(S) = IF 0 > 2 * ENTRIES - 1 THEN 0 ELSE 2 * ENTRIES - 1 - 0 + 1
    BY <2>1, FS_Interval
  <2> QED BY <1>1, <2>2
<1>9. Cardinality(T) < Cardinality(S)
  BY <1>1, <1>2, <1>8
<1>10. \A n \in S : /\ pl[F[n]][1] = IF n < ENTRIES THEN 2 ELSE c
                   /\ pl[F[n]][2] = IF n < ENTRIES THEN n ELSE n - ENTRIES
  BY <1>3, <1>5, <1>6 DEF Full
<1> HIDE DEF S, F, T
<1>11. PICK n \in S, m \in S : n # m /\ F[n] = F[m]
  BY <1>2, <1>7, <1>8, <1>9, FS_PigeonHole
<1>12. n \in Int /\ m \in Int
  BY <1>1 DEF S
<1> QED BY <1>1, <1>4, <1>10, <1>11, <1>12

LEMMA SlotFree ==
  ASSUME NEW N \in Int, NEW x, Good(x, N), Dims(N)
  PROVE  Slot(x) \in KPages /\ Slot(x)[1] < HEAP /\ Walk(x, KDIR, Slot(x)) = None
<1>1. PICK pl : Ok(x, N, pl)
  BY DEF Good
<1> DEFINE dirs == {i \in 2 .. ENTRIES - 1 : i \notin {USER_DIR, USER_DIR + 1} /\ FreeIn(x, i) # {}}
           d == Min(dirs)
           free == FreeIn(x, d)
           j == Min(free)
<1>2. \E i \in dirs : i < HEAP
  <2>1. PICK i \in 2 .. HEAP - 1 : i \notin {USER_DIR, USER_DIR + 1} /\ FreeIn(x, i) # {}
    BY <1>1, SlotExists
  <2>2. i < HEAP /\ i \in 2 .. ENTRIES - 1
    BY DEF Dims, HEAP
  <2> QED BY <2>1, <2>2
<1>3. Slot(x) = <<d, j>>
  BY <1>2 DEF Slot
<1>4. ENTRIES \in Int /\ 0 \in Index /\ Index = 0 .. ENTRIES - 1
  BY Frames DEF Dims, Index
<1>5. d \in dirs /\ \A i \in dirs : d <= i
  <2>1. IsFiniteSet(2 .. ENTRIES - 1)
    BY <1>4, FS_Interval
  <2>2. IsFiniteSet(dirs)
    <3>1. dirs \in SUBSET (2 .. ENTRIES - 1)
      OBVIOUS
    <3> HIDE DEF dirs
    <3> QED BY <2>1, <3>1, FS_Subset
  <2>3. dirs \in SUBSET Int
    BY <1>4
  <2> HIDE DEF dirs
  <2> QED BY <1>2, <2>2, <2>3, MinProperties
<1>6. d \in 2 .. ENTRIES - 1 /\ d < HEAP /\ free # {}
  <2>1. dirs \in SUBSET Int /\ HEAP \in Int
    BY <1>4 DEF HEAP
  <2>2. d < HEAP
    <3> HIDE DEF dirs, d
    <3>1. PICK i \in dirs : i < HEAP
      BY <1>2
    <3>2. d <= i /\ d \in Int /\ i \in Int
      BY <1>5, <2>1
    <3> QED BY <2>1, <3>1, <3>2
  <2> QED BY <1>5, <2>2
<1> HIDE DEF dirs, d
<1>7. free \in SUBSET Index
  BY <1>4 DEF FreeIn
<1>8. j \in free
  <2>1. IsFiniteSet(Index)
    BY <1>4, FS_Interval
  <2> HIDE DEF free
  <2>2. IsFiniteSet(free)
    BY <1>7, <2>1, FS_Subset
  <2>3. free \in SUBSET Int
    BY <1>4, <1>7
  <2> QED BY <1>6, <2>2, <2>3, MinProperties
<1> HIDE DEF j
<1>9. j \in Index
  BY <1>7, <1>8
<1> DEFINE q == <<d, j>>
<1>10. q \in KPages /\ q[1] = d /\ q[2] = j
  BY <1>6, <1>9 DEF KPages
<1> HIDE DEF q
<1>11. Walk(x, KDIR, q) = None
  BY <1>8, <1>10 DEF Walk, Leaf, FreeIn, Directory
<1> QED BY <1>3, <1>6, <1>10, <1>11 DEF q

LEMMA StepSame ==
  ASSUME NEW N, NEW x, Good(x, N), ~x.fault PROVE Step(x, x, N, {}, {})
<1>1. PICK pl : Ok(x, N, pl)
  BY DEF Good
<1>2. x.fault = FALSE
  BY <1>1 DEF Ok, Typed
<1> QED BY <1>2 DEF Step

LEMMA Allocated ==
  ASSUME NEW N \in Int, NEW x, NEW pl, Ok(x, N, pl), Dims(N)
  PROVE  \/ FreeFrames(x) = {} /\ pmm_allocate_frame(x) = 0
         \/ /\ pmm_allocate_frame(x) \in 0 .. N - 1 /\ pmm_allocate_frame(x) \notin x.used
            /\ pmm_allocate_frame(x) > PT1 /\ pmm_allocate_frame(x) # 0
<1> DEFINE free == FreeFrames(x)
<1>1. free \in SUBSET (0 .. N - 1) /\ \A f \in free : f \notin x.used
  BY DEF FreeFrames, Ok, Typed
<1>2. free # {} => Min(free) \in free
  <2>1. IsFiniteSet(0 .. N - 1) /\ 0 .. N - 1 \subseteq Int
    BY FS_Interval
  <2> HIDE DEF free
  <2>2. IsFiniteSet(free) /\ free \in SUBSET Int
    BY <1>1, <2>1, FS_Subset
  <2> QED BY <2>2, MinProperties
<1>3. 0 .. PT1 \subseteq x.used /\ PT1 \in Int /\ PT1 > 0
  <2>1. 0 .. PT1 \subseteq x.used
    BY DEF Ok, BaseOk
  <2>2. KDIR < PT1 /\ KDIR > 0 /\ PT1 \in Int /\ KDIR \in Int
    BY Frames
  <2> QED BY <2>1, <2>2
<1>4. CASE free = {}
  BY <1>4 DEF pmm_allocate_frame
<1>5. CASE free # {}
  <2>1. pmm_allocate_frame(x) = Min(free)
    BY <1>5 DEF pmm_allocate_frame
  <2> HIDE DEF free
  <2>2. pmm_allocate_frame(x) \in 0 .. N - 1 /\ pmm_allocate_frame(x) \notin x.used
    BY <1>1, <1>2, <1>5, <2>1
  <2> QED BY <1>3, <2>2
<1> QED BY <1>4, <1>5

\* A frame that is not in use is marked.
LEMMA MarkStep ==
  ASSUME NEW N \in Int, NEW x, NEW pl, Ok(x, N, pl), Dims(N), ~x.fault, NEW f \in 0 .. N - 1, f \notin x.used,
         NEW z, z = Mark(x, f)
  PROVE  Step(x, z, N, {}, {})
<1>1. MarkedIn(x, z, N, f)
  BY MarkIs DEF Ok
<1>2. z.fault = FALSE
  BY <1>1 DEF Ok, Typed, MarkedIn
<1>3. Follows(x, z, N)
  BY <1>1 DEF MarkedIn, Follows, Ok, BaseOk, TlbOk
<1>4. \A g : Plain(x, g) /\ g \notin {} => z.mem[g] = x.mem[g]
  BY <1>1 DEF MarkedIn
<1> QED BY <1>2, <1>3, <1>4, FollowsStep

\* A page that was not mapped gets a frame that was not in use.
LEMMA MovesStep ==
  ASSUME NEW N \in Int, NEW x, NEW y, NEW z, Step(x, y, N, {}, {}), NEW q \in KPages, NEW f,
         Good(z, N), Moves(y, z, N, q, f), f \notin x.used, Walk(x, KDIR, q) = None
  PROVE  Step(x, z, N, {}, {})
<1>1. ASSUME NEW g, Loose(x, g) PROVE Loose(z, g)
  <2>1. Loose(y, g) /\ g \in x.used
    BY <1>1 DEF Step, Loose, Plain
  <2> QED BY <2>1 DEF Loose, Moves
<1>2. ASSUME NEW r \in KPages, Walk(x, KDIR, r) # None PROVE Walk(z, KDIR, r) = Walk(x, KDIR, r)
  BY <1>2 DEF Step, Moves
<1> QED BY <1>1, <1>2 DEF Step, Moves

\* r has a page that was not mapped, in the frame f that was not in use.
GotPage(x, r, N, f) ==
  /\ Step(x, r.m, N, {}, {}) /\ r.page \in KPages /\ Walk(x, KDIR, r.page) = None
  /\ Walk(r.m, KDIR, r.page) = f /\ f # None /\ f \notin x.used

\* Or it has none, and there is no memory left.
NoPage(x, r, N) == Step(x, r.m, N, {}, {}) /\ r.page = NULL /\ FreeFrames(r.m) = {}

Answers(x, r, N) == NoPage(x, r, N) \/ \E f : GotPage(x, r, N, f)

LEMMA NewPageOk ==
  ASSUME NEW N \in Int, NEW x, Good(x, N), Dims(N), ~x.fault, NEW u \in BOOLEAN, NEW q \in KPages,
         q[1] < HEAP, Walk(x, KDIR, q) = None, NEW f, f = pmm_allocate_frame(x),
         NEW t, t = pmm_allocate_frame(Mark(x, f))
  PROVE  Answers(x, NewPage(x, u, q, f, t), N)
<1> DEFINE r == NewPage(x, u, q, f, t)
           i == q[1]
           m == Mark(x, f)
<1>1. PICK pl : Ok(x, N, pl)
  BY DEF Good
<1>2. q = <<q[1], q[2]>> /\ i \in 2 .. ENTRIES - 1 /\ q # NULL /\ q \in Int \X Int
  BY KPage DEF KPages
<1>3. CASE FreeFrames(x) = {} /\ f = 0
  <2>1. r = [m |-> x, page |-> NULL]
    BY <1>3 DEF NewPage
  <2>2. Step(x, x, N, {}, {})
    BY StepSame
  <2> QED BY <1>3, <2>1, <2>2 DEF Answers, NoPage
<1>4. CASE f \in 0 .. N - 1 /\ f \notin x.used /\ f > PT1 /\ f # 0
  <2> DEFINE p2 == [pl EXCEPT ![f] = q]
  <2>1. /\ Ok(m, N, p2) /\ m.used = x.used \cup {f} /\ m.mem = x.mem /\ m.fault = x.fault
        /\ SameWalks(x, m)
    BY <1>1, <1>2, <1>4, MarkOk
  <2>2. Step(x, m, N, {}, {})
    BY <1>1, <1>4, MarkStep
  <2>3. p2[f] = q
    <3>1. pl \in [0 .. N - 1 -> Int \X Int]
      BY <1>1 DEF Ok, BaseOk
    <3> QED BY <1>4, <3>1
  <2> HIDE DEF p2
  <2>4. Has(m, i) = Has(x, i) /\ Directory(x, i).present = Has(x, i) /\ f # None
    BY <1>4, <2>1 DEF Has, Directory, None
  <2>5. CASE Has(x, i)
    <3> DEFINE z == EnterPage(m, u, q, f)
    <3>1. r.m = z /\ r.page = q
      BY <1>2, <1>4, <2>4, <2>5 DEF NewPage
    <3> HIDE DEF m
    <3>2. Ok(z, N, p2) /\ Moves(m, z, N, q, f)
      BY <1>4, <2>1, <2>3, <2>4, <2>5, EnterOk
    <3> HIDE DEF z, r
    <3>3. Step(x, z, N, {}, {})
      <4>1. Good(z, N)
        BY <3>2 DEF Good
      <4> QED BY <1>4, <2>2, <3>2, <4>1, MovesStep
    <3>4. GotPage(x, r, N, f)
      BY <1>4, <2>4, <3>1, <3>2, <3>3 DEF GotPage, Moves
    <3> QED BY <3>4 DEF Answers, r
  <2>6. CASE ~Has(x, i)
    <3>1. \/ FreeFrames(m) = {} /\ t = 0
          \/ t \in 0 .. N - 1 /\ t \notin m.used /\ t # 0
      <4> HIDE DEF m
      <4>1. t = pmm_allocate_frame(m)
        BY DEF m
      <4> QED BY <2>1, <4>1, Allocated
    <3>2. CASE FreeFrames(m) = {} /\ t = 0
      <4>1. r = [m |-> m, page |-> NULL]
        BY <1>2, <1>4, <2>4, <2>6, <3>2 DEF NewPage
      <4> HIDE DEF m, r
      <4>2. NoPage(x, r, N)
        BY <2>2, <3>2, <4>1 DEF NoPage
      <4> QED BY <4>2 DEF Answers, r
    <3>3. CASE t \in 0 .. N - 1 /\ t \notin m.used /\ t # 0
      <4> DEFINE n == NewTable(m, i, u, t)
                 z == EnterPage(n, u, q, f)
                 p3 == [p2 EXCEPT ![t] = <<i, None>>]
      <4>1. r.m = z /\ r.page = q
        BY <1>2, <1>4, <2>4, <2>6, <3>3 DEF NewPage
      <4> HIDE DEF m, i
      <4>2. /\ Ok(n, N, p3) /\ Has(n, i) /\ n.used = m.used \cup {t}
            /\ SameWalks(m, n) /\ Step(m, n, N, {}, {})
        <5>1. Ok(m, N, p2) /\ ~m.fault /\ i \in 2 .. ENTRIES - 1 /\ i < HEAP /\ ~Has(m, i)
          BY <1>2, <2>1, <2>4, <2>6 DEF i
        <5>2. HasTable(m, n, N, p3, i, t)
          BY <3>3, <5>1, NewTableOk
        <5> QED BY <5>2 DEF HasTable
      <4>3. p3[f] = q
        <5>1. p2 \in [0 .. N - 1 -> Int \X Int]
          BY <2>1 DEF Ok, BaseOk
        <5>2. f # t
          BY <2>1, <3>3
        <5> QED BY <1>4, <2>3, <5>1, <5>2
      <4> HIDE DEF n, p3
      <4>4. Ok(z, N, p3) /\ Moves(n, z, N, q, f)
        <5>1. f \in n.used /\ ~n.fault /\ Has(n, q[1])
          BY <2>1, <4>2 DEF Step, i
        <5> QED BY <1>4, <4>2, <4>3, <5>1, EnterOk
      <4> HIDE DEF z, r
      <4>5. Step(x, n, N, {}, {})
        <5>1. Step(x, n, N, {} \cup {}, {} \cup {})
          BY <2>2, <4>2, StepTrans
        <5>2. {} \cup {} = {}
          OBVIOUS
        <5> QED BY <5>1, <5>2
      <4>6. Step(x, z, N, {}, {})
        <5>1. Good(z, N)
          BY <4>4 DEF Good
        <5> QED BY <1>4, <4>4, <4>5, <5>1, MovesStep
      <4>7. GotPage(x, r, N, f)
        BY <1>4, <2>4, <4>1, <4>4, <4>6 DEF GotPage, Moves
      <4> QED BY <4>7 DEF Answers, r
    <3> QED BY <3>1, <3>2, <3>3
  <2> QED BY <2>5, <2>6
<1> QED BY <1>1, <1>3, <1>4, Allocated

\* A page that may be asked for.
MayAsk(x, q) == q = NULL \/ (q \in KPages /\ q[1] < HEAP /\ Walk(x, KDIR, q) = None)

\* vmm_get_new_page gives a page of its own, or memory has run out.
LEMMA GetNewPageOk ==
  ASSUME NEW N \in Int, NEW x, Good(x, N), Dims(N), ~x.fault, NEW u \in BOOLEAN,
         NEW explicit, MayAsk(x, explicit)
  PROVE  Answers(x, vmm_get_new_page(x, u, explicit), N)
<1> DEFINE q == IF explicit # NULL THEN explicit ELSE Slot(x)
           f == pmm_allocate_frame(x)
           t == pmm_allocate_frame(Mark(x, f))
<1>1. q \in KPages /\ q[1] < HEAP /\ Walk(x, KDIR, q) = None
  BY SlotFree DEF MayAsk
<1>2. vmm_get_new_page(x, u, explicit) = NewPage(x, u, q, f, t)
  BY DEF vmm_get_new_page
<1> HIDE DEF q, f
<1>3. f = pmm_allocate_frame(x)
  BY DEF f
<1>4. t = pmm_allocate_frame(Mark(x, f))
  OBVIOUS
<1> HIDE DEF t
<1>5. Answers(x, NewPage(x, u, q, f, t), N)
  BY <1>1, <1>3, <1>4, NewPageOk
<1> QED BY <1>2, <1>5

LEMMA AnyPageOk ==
  ASSUME NEW N \in Int, NEW x, Good(x, N), Dims(N), ~x.fault
  PROVE  Answers(x, vmm_get_new_page(x, FALSE, NULL), N)
<1>1. FALSE \in BOOLEAN /\ MayAsk(x, NULL)
  BY DEF MayAsk
<1> QED BY <1>1, GetNewPageOk, Zenon

-----------------------------------------------------------------------------
(* vmm_map_frame.                                                          *)

\* Page q of the kernel is in frame f.
Mapped(x, q, f) == q \in KPages /\ Walk(x, KDIR, q) = f /\ f # None

LEMMA StepOn ==
  ASSUME NEW N, NEW x, NEW y, NEW z, NEW W, NEW Q, Step(x, y, N, {}, {}), Step(y, z, N, W, Q),
         \A f \in W : f \notin x.used, \A q \in Q : Walk(x, KDIR, q) = None
  PROVE  Step(x, z, N, {}, {})
<1>1. Step(x, z, N, W, Q)
  <2>1. Step(x, z, N, {} \cup W, {} \cup Q)
    BY StepTrans
  <2>2. {} \cup W = W /\ {} \cup Q = Q
    OBVIOUS
  <2> QED BY <2>1, <2>2
<1> QED BY <1>1, StepFresh

LEMMA MappedPlain ==
  ASSUME NEW N \in Int, NEW x, Good(x, N), Dims(N), NEW q, NEW f, Mapped(x, q, f)
  PROVE  /\ Plain(x, f) /\ f \in 0 .. N - 1 /\ f \in x.used /\ q \in KPages
         /\ Walk(x, KDIR, q) # None /\ Walk(x, KDIR, q) = f
BY PagePlain DEF Mapped, Plain

LEMMA GoodFields ==
  ASSUME NEW N \in Int, NEW x, Good(x, N), Dims(N)
  PROVE  /\ Typed(x, N) /\ x.mem[KDIR][0] = Entry(FALSE, PT0) /\ x.mem[KDIR][1] = Entry(FALSE, PT1)
         /\ x.used \in SUBSET (0 .. N - 1) /\ x.fault \in BOOLEAN
         /\ x.mem[PT0][0].present = FALSE /\ NULL \notin DOMAIN x.tlb
         /\ FreeFrames(x) = (0 .. N - 1) \ x.used
<1>1. PICK pl : Ok(x, N, pl)
  BY DEF Good
<1>2. NULL \notin DOMAIN x.tlb
  BY <1>1, KPage DEF Ok, TlbOk
<1> QED BY <1>1, <1>2 DEF Ok, BaseOk, Typed, FreeFrames

\* No frame gets free.
LEMMA StaysEmpty ==
  ASSUME NEW N \in Int, NEW x, NEW z, NEW W, NEW Q, Good(x, N), Dims(N), Step(x, z, N, W, Q),
         FreeFrames(x) = {}
  PROVE  FreeFrames(z) = {}
<1>1. Good(z, N) /\ x.used \subseteq z.used
  BY DEF Step
<1>2. FreeFrames(x) = (0 .. N - 1) \ x.used
  BY GoodFields
<1>3. FreeFrames(z) = (0 .. N - 1) \ z.used
  BY <1>1, GoodFields
<1> QED BY <1>1, <1>2, <1>3

\* Reading the directory in page q.
LEMMA PageRead ==
  ASSUME NEW N \in Int, NEW x, Good(x, N), Dims(N), ~x.fault, NEW q, NEW d, Mapped(x, q, d), NEW i
  PROVE  /\ Step(x, Access(x, q), N, {}, {}) /\ Access(x, q).used = x.used
         /\ Access(x, q).mem = x.mem /\ SameWalks(x, Access(x, q))
         /\ Load(x, q, i) = x.mem[d][i]
<1> DEFINE a == Access(x, q)
<1>1. PICK pl : Ok(x, N, pl)
  BY DEF Good
<1>2. q \in KPages /\ Walk(x, KDIR, q) = d /\ d # None /\ d \in 0 .. N - 1 /\ Plain(x, d)
  BY MappedPlain DEF Mapped
<1>3. Translate(x, q) = d
  BY <1>1, <1>2 DEF Translate, Ok, TlbOk
<1>4. Cached(x, a, N, q, d)
  <2>1. ~(q[1] < 2) /\ Typed(x, N) /\ Translate(x, q) \in 0 .. N - 1
    BY <1>1, <1>2, <1>3, KPage DEF Ok
  <2>2. Cached(x, a, N, q, Translate(x, q))
    BY <2>1, Accessed
  <2> QED BY <1>3, <2>2
<1>5. Load(x, q, i) = x.mem[d][i]
  BY <1>3, <1>4 DEF Load, LoadFrame, Cached
<1>6. Wrote(a, a, N, d, x.mem[d])
  BY <1>4 DEF Cached, Wrote
<1>7. Written(x, a, N, d, x.mem[d])
  BY <1>2, <1>6, PageWritten
<1> HIDE DEF a
<1>8. Step(x, a, N, {}, {}) /\ SameWalks(x, a) /\ a.used = x.used /\ a.mem = x.mem
  BY <1>4, <1>7 DEF Cached, Written, Step
<1> QED BY <1>5, <1>8 DEF a

\* A cached translation is dropped.
LEMMA DropStep ==
  ASSUME NEW N \in Int, NEW x, Good(x, N), Dims(N), ~x.fault, NEW q,
         NEW z, z = paging_invalidate_page_cache(x, q)
  PROVE  Step(x, z, N, {}, {}) /\ z.used = x.used /\ z.mem = x.mem /\ SameWalks(x, z)
<1>1. PICK pl : Ok(x, N, pl)
  BY DEF Good
<1>2. Dropped(x, z, N, q)
  BY <1>1, Invalidated DEF Ok
<1>4. Follows(x, z, N)
  BY <1>1, <1>2 DEF Dropped, Follows, Ok, BaseOk, TlbOk
<1>5. z.fault = FALSE /\ \A g : Plain(x, g) /\ g \notin {} => z.mem[g] = x.mem[g]
  BY <1>1, <1>2 DEF Dropped, Ok, Typed
<1>6. Step(x, z, N, {}, {}) /\ SameWalks(x, z)
  BY <1>1, <1>4, <1>5, FollowsStep
<1> QED BY <1>2, <1>6 DEF Dropped

\* A word is written through a physical address.
WroteWord(x, z, N, t, j, w) ==
  /\ Step(x, z, N, {t}, {}) /\ z.used = x.used /\ SameWalks(x, z)
  /\ z.mem[t] = [x.mem[t] EXCEPT ![j] = w]

LEMMA PhysicalWrite ==
  ASSUME NEW N \in Int, NEW x, Good(x, N), Dims(N), ~x.fault, NEW t, Plain(x, t), NEW j \in Index,
         NEW w \in Words, NEW z, z = [x EXCEPT !.mem[t][j] = w]
  PROVE  WroteWord(x, z, N, t, j, w)
<1>1. PICK pl : Ok(x, N, pl)
  BY DEF Good
<1>2. t \in 0 .. N - 1 /\ t > PT1 /\ t # KDIR /\ t # PT0
  <2>1. t \in 0 .. N - 1 /\ t > PT1
    BY <1>1 DEF Plain, Ok, BaseOk
  <2> QED BY <2>1, Frames
<1>3. Wrote(x, z, N, t, [x.mem[t] EXCEPT ![j] = w])
  BY <1>1, <1>2, WordWritten DEF Ok
<1>4. KDIR \in 0 .. N - 1 /\ PT0 \in 0 .. N - 1
  BY Frames
<1>5. \A i \in 2 .. ENTRIES - 1 : Has(x, i) => Tab(x, i) \in 0 .. N - 1 /\ Tab(x, i) # t
  BY <1>1 DEF Ok, BaseOk, DirOk, Ref, Has, Tab, Plain
<1>6. Follows(x, z, N)
  <2>1. Typed(z, N) /\ x.used \in SUBSET z.used /\ z.used \in SUBSET (0 .. N - 1)
    BY <1>1, <1>3 DEF Wrote, Ok, BaseOk
  <2>2. z.mem[KDIR] = x.mem[KDIR] /\ z.mem[PT0] = x.mem[PT0]
    BY <1>2, <1>3, <1>4 DEF Wrote
  <2>3. \A i \in 2 .. ENTRIES - 1 : Has(x, i) => z.mem[Tab(x, i)] = x.mem[Tab(x, i)]
    BY <1>3, <1>5 DEF Wrote
  <2>4. \A q \in DOMAIN z.tlb : q \in KPages /\ z.tlb[q] = Walk(x, KDIR, q)
    BY <1>1, <1>3 DEF Wrote, Ok, TlbOk
  <2> QED BY <2>1, <2>2, <2>3, <2>4 DEF Follows
<1>7. z.fault = FALSE
  BY <1>1, <1>3 DEF Wrote, Ok, Typed
<1>8. \A g : Plain(x, g) /\ g \notin {t} => z.mem[g] = x.mem[g]
  <2>1. \A g : Plain(x, g) => g \in 0 .. N - 1
    BY <1>1 DEF Plain, Ok, BaseOk
  <2> QED BY <1>3, <2>1 DEF Wrote
<1>9. Step(x, z, N, {t}, {}) /\ SameWalks(x, z)
  BY <1>1, <1>6, <1>7, <1>8, FollowsStep
<1> QED BY <1>3, <1>9 DEF Wrote, WroteWord

\* The page is mapped in the table t that the directory has.
InTable(x, z, N, t, page, u, f) ==
  /\ Step(x, z, N, {t}, {}) /\ z.used = x.used
  /\ z.mem[t] = [x.mem[t] EXCEPT ![page[2]] = Entry(u, f)]

LEMMA MapOld ==
  ASSUME NEW N \in Int, NEW x, Good(x, N), Dims(N), ~x.fault, NEW q, NEW d, Mapped(x, q, d),
         NEW page, page[2] \in Index, NEW u \in BOOLEAN, NEW f \in Int, NEW v \in BOOLEAN, NEW t,
         x.mem[d][page[1]] = Entry(v, t), Plain(x, t),
         NEW z, z = vmm_map_frame(x, q, page, f, u)
  PROVE  InTable(x, z, N, t, page, u, f)
<1> DEFINE a == Access(x, q)
           e == Load(x, q, page[1])
           w == Entry(u, f)
           b == [a EXCEPT !.mem[t][page[2]] = w]
<1>1. /\ Step(x, a, N, {}, {}) /\ a.used = x.used /\ a.mem = x.mem /\ SameWalks(x, a)
      /\ e = x.mem[d][page[1]]
  BY PageRead
<1>2. t \in Int
  <2>1. x.used \in SUBSET (0 .. N - 1)
    BY GoodFields
  <2> QED BY <2>1 DEF Plain
<1>3. e.present = TRUE /\ e.frame = t
  <2>1. IsEntry(Entry(v, t), v, t)
    BY <1>2, EntryFields
  <2> QED BY <1>1, <2>1 DEF IsEntry
<1>4. w \in Words
  <2>1. IsEntry(w, u, f)
    BY EntryFields
  <2> QED BY <2>1 DEF IsEntry
<1>5. Good(a, N) /\ ~a.fault /\ Plain(a, t)
  BY <1>1 DEF Step
<1>6. z = paging_invalidate_page_cache(b, page)
  BY <1>3, <1>5 DEF vmm_map_frame, MapUnder
<1> DEFINE j == page[2]
<1> HIDE DEF a, w
<1>7. /\ Step(a, b, N, {t}, {}) /\ b.used = a.used /\ SameWalks(a, b)
      /\ b.mem[t] = [a.mem[t] EXCEPT ![page[2]] = w]
  <2>1. j \in Index /\ b = [a EXCEPT !.mem[t][j] = w]
    OBVIOUS
  <2> HIDE DEF b, j
  <2>2. WroteWord(a, b, N, t, j, w)
    BY <1>4, <1>5, <2>1, PhysicalWrite
  <2> QED BY <2>2 DEF j, WroteWord
<1> HIDE DEF b
<1>8. Good(b, N) /\ ~b.fault
  BY <1>7 DEF Step
<1>9. Step(b, z, N, {}, {}) /\ z.used = b.used /\ z.mem = b.mem /\ SameWalks(b, z)
  BY <1>6, <1>8, DropStep
<1>10. Step(x, b, N, {} \cup {t}, {} \cup {})
  BY <1>1, <1>7, StepTrans
<1>11. Step(x, z, N, ({} \cup {t}) \cup {}, ({} \cup {}) \cup {})
  BY <1>9, <1>10, StepTrans
<1>12. ({} \cup {t}) \cup {} = {t} /\ ({} \cup {}) \cup {} = {}
  OBVIOUS
<1>13. Step(x, z, N, {t}, {})
  BY <1>11, <1>12
<1> QED BY <1>1, <1>7, <1>9, <1>13 DEF w, InTable

\* The page is mapped in a new table t, in the page tq of the kernel.
MadeTable(x, z, N, q, d, page, u, f, t, tq) ==
  /\ Step(x, z, N, {d}, {}) /\ Mapped(z, q, d) /\ Mapped(z, tq, t)
  /\ t \notin x.used
  /\ z.mem[d] = [x.mem[d] EXCEPT ![page[1]] = Entry(u, t)]
  /\ z.mem[t] = [[k \in Index |-> ZERO] EXCEPT ![page[2]] = Entry(u, f)]

\* There is no memory for the table: the page is not mapped.
NoTable(x, z, N) == Step(x, z, N, {}, {}) /\ FreeFrames(z) = {}

\* The machine when g has given page tq, in frame t, for the table.
LEMMA TableMade ==
  ASSUME NEW N \in Int, NEW x, Good(x, N), Dims(N), ~x.fault, NEW q, NEW d, Mapped(x, q, d),
         NEW page, page[1] \in Index, page[2] \in Index, NEW u \in BOOLEAN, NEW f \in Int,
         NEW g, NEW t, GotPage(x, g, N, t), NEW entry, entry = Entry(u, f),
         NEW z, z = MapInNewTable(g, q, page, entry)
  PROVE  MadeTable(x, z, N, q, d, page, u, f, t, g.page)
<1> DEFINE tq == g.page
           i == page[1]
           j == page[2]
           row == [k \in Index |-> ZERO]
           b == Fill(g.m, tq, ZERO)
           l == vmm_get_physical_address(b, tq)
           w == Entry(u, t)
           c == Store(l.m, q, i, w)
           e == Store(c, tq, j, entry)
<1>1. /\ Step(x, g.m, N, {}, {}) /\ tq \in KPages /\ Walk(x, KDIR, tq) = None
      /\ Walk(g.m, KDIR, tq) = t /\ t # None /\ t \notin x.used
  BY DEF GotPage
<1>2. Good(g.m, N) /\ ~g.m.fault /\ Walk(g.m, KDIR, q) = d /\ g.m.mem[d] = x.mem[d]
  <2>1. Plain(x, d)
    BY MappedPlain
  <2> QED BY <1>1, <2>1 DEF Step, Mapped
<1>3. q \in KPages /\ d # None /\ d # t /\ d \in 0 .. N - 1
  BY <1>1, MappedPlain DEF Mapped
<1>4. t \in 0 .. N - 1
  BY <1>1, <1>2, PagePlain
<1>5. entry.user = u /\ entry \in Words /\ w \in Words
  <2>1. t \in Int
    BY <1>4
  <2>2. IsEntry(w, u, t) /\ IsEntry(entry, u, f)
    BY <2>1, EntryFields
  <2> QED BY <2>2 DEF IsEntry
<1>6. tq # NULL
  BY <1>1, KPage
<1>7. Written(g.m, b, N, t, row)
  <2>1. ZERO \in Words /\ Walk(g.m, KDIR, tq) # None
    BY <1>1, ZeroFields
  <2>2. Written(g.m, Fill(g.m, tq, ZERO), N, Walk(g.m, KDIR, tq), [n \in Index |-> ZERO])
    BY <1>1, <1>2, <2>1, PageFilled
  <2> QED BY <1>1, <2>2
<1>8. /\ Good(b, N) /\ ~b.fault /\ Walk(b, KDIR, tq) = t /\ Walk(b, KDIR, q) = d
      /\ b.mem[t] = row /\ b.mem[d] = x.mem[d] /\ Plain(b, d) /\ Plain(b, t)
  <2>1. Plain(g.m, d) /\ Plain(g.m, t)
    BY <1>1, <1>2, <1>3, PagePlain
  <2> QED BY <1>1, <1>2, <1>3, <1>7, <2>1 DEF Written, Step, SameWalks
<1> HIDE DEF tq, b, row, i, j, w
<1>9. Found(b, l, N, t)
  BY <1>1, <1>8, PageFound
<1>10. /\ Good(l.m, N) /\ ~l.m.fault /\ Walk(l.m, KDIR, tq) = t /\ Walk(l.m, KDIR, q) = d
       /\ l.m.mem[t] = row /\ l.m.mem[d] = x.mem[d] /\ l.frame = t /\ Plain(l.m, d) /\ Plain(l.m, t)
  BY <1>1, <1>3, <1>8, <1>9 DEF Found, Step, SameWalks
<1> HIDE DEF l
<1>11. Written(l.m, c, N, d, [x.mem[d] EXCEPT ![i] = w])
  <2>1. i \in Index
    BY DEF i
  <2>2. Written(l.m, c, N, Walk(l.m, KDIR, q), [l.m.mem[Walk(l.m, KDIR, q)] EXCEPT ![i] = w])
    BY <1>3, <1>5, <1>10, <2>1, PageStored
  <2> QED BY <1>10, <2>2
<1>12. /\ Good(c, N) /\ ~c.fault /\ Walk(c, KDIR, tq) = t /\ Walk(c, KDIR, q) = d
       /\ c.mem[t] = row /\ c.mem[d] = [x.mem[d] EXCEPT ![i] = w] /\ Plain(c, d) /\ Plain(c, t)
  BY <1>1, <1>3, <1>10, <1>11 DEF Written, Step, SameWalks
<1> HIDE DEF c
<1>13. Written(c, e, N, t, [row EXCEPT ![j] = entry])
  <2>1. j \in Index
    BY DEF j
  <2>2. Written(c, e, N, Walk(c, KDIR, tq), [c.mem[Walk(c, KDIR, tq)] EXCEPT ![j] = entry])
    BY <1>1, <1>5, <1>12, <2>1, PageStored
  <2> QED BY <1>12, <2>2
<1>14. /\ Good(e, N) /\ ~e.fault /\ Walk(e, KDIR, tq) = t /\ Walk(e, KDIR, q) = d
       /\ e.mem[t] = [row EXCEPT ![j] = entry] /\ e.mem[d] = [x.mem[d] EXCEPT ![i] = w]
       /\ Plain(e, d) /\ Plain(e, t)
  BY <1>1, <1>3, <1>12, <1>13 DEF Written, Step, SameWalks
<1>15. z = paging_invalidate_page_cache(e, page)
  BY <1>5, <1>6, <1>10 DEF MapInNewTable, EnterTable, e, c, l, b, tq, i, j, w
<1> HIDE DEF e
<1>16. Step(e, z, N, {}, {}) /\ z.mem = e.mem /\ SameWalks(e, z)
  BY <1>14, <1>15, DropStep
<1>17. Step(x, l.m, N, {}, {})
  <2>1. Step(x, b, N, {}, {})
    <3>1. Step(g.m, b, N, {t}, {})
      BY <1>7 DEF Written
    <3> QED BY <1>1, <3>1, StepOn
  <2>2. Step(b, l.m, N, {}, {})
    BY <1>9 DEF Found
  <2> QED BY <2>1, <2>2, StepOn
<1>18. Step(x, z, N, {d}, {})
  <2>1. Step(l.m, c, N, {d}, {}) /\ Step(c, e, N, {t}, {})
    BY <1>11, <1>13 DEF Written
  <2>2. Step(x, z, N, (({} \cup {d}) \cup {t}) \cup {}, (({} \cup {}) \cup {}) \cup {})
    BY <1>16, <1>17, <2>1, StepTrans
  <2>3. (({} \cup {d}) \cup {t}) \cup {} = {d, t} /\ (({} \cup {}) \cup {}) \cup {} = {}
    OBVIOUS
  <2>4. Step(x, z, N, {d, t}, {})
    BY <2>2, <2>3
  <2> QED BY <1>1, <2>4 DEF Step, Plain
<1>19. Mapped(z, q, d) /\ Mapped(z, tq, t)
  BY <1>1, <1>3, <1>14, <1>16 DEF Mapped, SameWalks
<1> QED BY <1>1, <1>14, <1>16, <1>18, <1>19 DEF MadeTable, tq, i, j, w, row

LEMMA MapNew ==
  ASSUME NEW N \in Int, NEW x, Good(x, N), Dims(N), ~x.fault, NEW q, NEW d, Mapped(x, q, d),
         NEW page, page[1] \in Index, page[2] \in Index, NEW u \in BOOLEAN, NEW f \in Int,
         x.mem[d][page[1]] = ZERO, NEW z, z = vmm_map_frame(x, q, page, f, u)
  PROVE  NoTable(x, z, N) \/ \E t, tq : MadeTable(x, z, N, q, d, page, u, f, t, tq)
<1> DEFINE a == Access(x, q)
           e == Load(x, q, page[1])
           entry == Entry(u, f)
           g == vmm_get_new_page(a, FALSE, NULL)
<1>1. /\ Step(x, a, N, {}, {}) /\ a.used = x.used /\ a.mem = x.mem /\ SameWalks(x, a)
      /\ e = x.mem[d][page[1]]
  BY PageRead
<1>2. e.present = FALSE
  BY <1>1, ZeroFields
<1>3. Good(a, N) /\ ~a.fault /\ Mapped(a, q, d)
  BY <1>1 DEF Step, Mapped
<1>4. z = MapInNewTable(g, q, page, entry)
  BY <1>2, <1>3 DEF vmm_map_frame, MapUnder
<1> HIDE DEF a
<1>5. Answers(a, g, N)
  BY <1>3, AnyPageOk
<1> HIDE DEF g
<1>6. CASE NoPage(a, g, N)
  <2>1. z = g.m
    BY <1>4, <1>6 DEF NoPage, MapInNewTable
  <2>2. Step(a, z, N, {}, {}) /\ FreeFrames(z) = {}
    BY <1>6, <2>1 DEF NoPage
  <2> QED BY <1>1, <2>2, StepOn DEF NoTable
<1>7. ASSUME NEW t, GotPage(a, g, N, t)
      PROVE  MadeTable(x, z, N, q, d, page, u, f, t, g.page)
  <2> HIDE DEF entry
  <2>1. entry = Entry(u, f)
    BY DEF entry
  <2>2. MadeTable(a, z, N, q, d, page, u, f, t, g.page)
    BY <1>3, <1>4, <1>7, <2>1, TableMade
  <2>3. Step(x, z, N, {} \cup {d}, {} \cup {})
    BY <1>1, <2>2, StepTrans DEF MadeTable
  <2>4. {} \cup {d} = {d} /\ {} \cup {} = {}
    OBVIOUS
  <2>5. Step(x, z, N, {d}, {})
    BY <2>3, <2>4
  <2> QED BY <1>1, <2>2, <2>5 DEF MadeTable
<1> QED BY <1>5, <1>6, <1>7 DEF Answers

-----------------------------------------------------------------------------
(* create_pcb.                                                             *)

Row(w) == [i \in Index |-> w]

\* A directory that has the tables of the kernel, then a table t too; a table
\* that has the program in frame c, then a stack in frame s too.
EmptyDir == [[Row(ZERO) EXCEPT ![0] = Entry(FALSE, PT0)] EXCEPT ![1] = Entry(FALSE, PT1)]
SpaceDir(u, t) == [EmptyDir EXCEPT ![USER_DIR] = Entry(u, t)]
SpaceTab(u, c) == [Row(ZERO) EXCEPT ![0] = Entry(u, c)]
FullTab(u, c, s) == [SpaceTab(u, c) EXCEPT ![1] = Entry(u, s)]

\* The directory d of a new space, in page q of the kernel.
Started(x, y, N, q, d) ==
  /\ Step(x, y, N, {}, {}) /\ Mapped(y, q, d) /\ y.mem[d] = EmptyDir /\ d \notin x.used

LEMMA SpaceStarted ==
  ASSUME NEW N \in Int, NEW x, Good(x, N), Dims(N), ~x.fault, NEW g, NEW d, GotPage(x, g, N, d),
         NEW y, y = AddressSpace(g.m, g.page)
  PROVE  Started(x, y, N, g.page, d)
<1> DEFINE q == g.page
           e0 == Entry(FALSE, PT0)
           e1 == Entry(FALSE, PT1)
           a == Fill(g.m, q, ZERO)
           b == Store(a, q, 0, e0)
           c == Store(b, q, 1, e1)
<1>1. /\ Step(x, g.m, N, {}, {}) /\ q \in KPages /\ Walk(x, KDIR, q) = None
      /\ Walk(g.m, KDIR, q) = d /\ d # None /\ d \notin x.used
  BY DEF GotPage
<1>2. Good(g.m, N) /\ ~g.m.fault
  BY <1>1 DEF Step
<1>3. Directory(g.m, 0) = e0 /\ Directory(g.m, 1) = e1
  BY <1>2, GoodFields DEF Directory
<1>4. y = c
  BY <1>3 DEF AddressSpace
<1>5. e0 \in Words /\ e1 \in Words /\ 0 \in Index /\ 1 \in Index /\ ZERO \in Words
  <2>1. IsEntry(e0, FALSE, PT0) /\ IsEntry(e1, FALSE, PT1)
    BY Frames, EntryFields
  <2> QED BY <2>1, Frames, ZeroFields DEF IsEntry
<1> HIDE DEF q, e0, e1
<1>6. Written(g.m, a, N, d, Row(ZERO))
  <2>1. Written(g.m, a, N, Walk(g.m, KDIR, q), [i \in Index |-> ZERO])
    BY <1>1, <1>2, <1>5, PageFilled
  <2> QED BY <1>1, <2>1 DEF Row
<1>7. Good(a, N) /\ ~a.fault /\ Walk(a, KDIR, q) = d /\ a.mem[d] = Row(ZERO)
  BY <1>1, <1>6 DEF Written, Step, SameWalks
<1> HIDE DEF a
<1>8. Written(a, b, N, d, [Row(ZERO) EXCEPT ![0] = e0])
  <2>1. Written(a, b, N, Walk(a, KDIR, q), [a.mem[Walk(a, KDIR, q)] EXCEPT ![0] = e0])
    BY <1>1, <1>5, <1>7, PageStored
  <2> QED BY <1>7, <2>1
<1>9. Good(b, N) /\ ~b.fault /\ Walk(b, KDIR, q) = d /\ b.mem[d] = [Row(ZERO) EXCEPT ![0] = e0]
  BY <1>1, <1>7, <1>8 DEF Written, Step, SameWalks
<1> HIDE DEF b
<1>10. Written(b, c, N, d, EmptyDir)
  <2>1. Written(b, c, N, Walk(b, KDIR, q), [b.mem[Walk(b, KDIR, q)] EXCEPT ![1] = e1])
    BY <1>1, <1>5, <1>9, PageStored
  <2> QED BY <1>9, <2>1 DEF EmptyDir, e0, e1
<1> HIDE DEF c
<1>11. Step(x, c, N, {}, {})
  <2>1. Step(g.m, a, N, {d}, {}) /\ Step(a, b, N, {d}, {}) /\ Step(b, c, N, {d}, {})
    BY <1>6, <1>8, <1>10 DEF Written
  <2>2. \A f \in {d} : f \notin x.used
    BY <1>1
  <2>3. \A r \in {} : Walk(x, KDIR, r) = None
    OBVIOUS
  <2>4. Step(x, a, N, {}, {})
    BY <1>1, <2>1, <2>2, <2>3, StepOn
  <2>5. Step(x, b, N, {}, {})
    BY <2>1, <2>2, <2>3, <2>4, StepOn
  <2> QED BY <2>1, <2>2, <2>3, <2>5, StepOn
<1>12. Mapped(c, q, d) /\ c.mem[d] = EmptyDir
  BY <1>1, <1>9, <1>10 DEF Written, SameWalks, Mapped
<1> QED BY <1>1, <1>4, <1>11, <1>12 DEF Started, q

\* The space has no program: memory has run out.
Unloaded(x, z, N, q, d) == Started(x, z, N, q, d) /\ FreeFrames(z) = {}

\* The space has the table t, in page tq of the kernel, and a program in frame c.
Loaded(x, z, N, u, p, q, d, t, tq, c) ==
  /\ Step(x, z, N, {}, {}) /\ Mapped(z, q, d) /\ Mapped(z, tq, t) /\ Loose(z, c)
  /\ z.mem[d] = SpaceDir(u, t) /\ z.mem[t] = SpaceTab(u, c)
  /\ z.mem[c] = Row(Data(<<"code", p>>))
  /\ d \notin x.used /\ t \notin x.used /\ d # t

LEMMA CodePage ==
  ASSUME NEW N \in Int, Dims(N)
  PROVE  /\ CODE[1] = USER_DIR /\ CODE[2] = 0 /\ STACK[1] = USER_DIR /\ STACK[2] = 1
         /\ USER_DIR \in Index /\ 0 \in Index /\ 1 \in Index /\ USER_DIR # 0 /\ USER_DIR # 1
         /\ STACK # NULL
BY Frames DEF CODE, STACK, Dims, NULL

DirWordsAre(u, t) ==
  /\ EmptyDir[0] = Entry(FALSE, PT0) /\ EmptyDir[1] = Entry(FALSE, PT1)
  /\ \A i \in Index : i # 0 /\ i # 1 => EmptyDir[i] = ZERO
  /\ SpaceDir(u, t)[0] = Entry(FALSE, PT0) /\ SpaceDir(u, t)[1] = Entry(FALSE, PT1)
  /\ SpaceDir(u, t)[USER_DIR] = Entry(u, t)
  /\ \A i \in Index : i # 0 /\ i # 1 /\ i # USER_DIR => SpaceDir(u, t)[i] = ZERO

LEMMA DirWords ==
  ASSUME NEW N \in Int, Dims(N), NEW u, NEW t
  PROVE  DirWordsAre(u, t)
<1> DEFINE R == Row(ZERO)
           e0 == Entry(FALSE, PT0)
           e1 == Entry(FALSE, PT1)
           e == Entry(u, t)
           A == [R EXCEPT ![0] = e0]
           B == [A EXCEPT ![1] = e1]
           C == [B EXCEPT ![USER_DIR] = e]
<1>1. USER_DIR \in Index /\ 0 \in Index /\ 1 \in Index /\ USER_DIR # 0 /\ USER_DIR # 1
  BY CodePage
<1>2. DOMAIN R = Index /\ \A i \in Index : R[i] = ZERO
  BY DEF Row
<1>3. EmptyDir = B /\ SpaceDir(u, t) = C
  BY DEF EmptyDir, SpaceDir
<1> HIDE DEF R, e0, e1, e
<1>4. DOMAIN A = Index /\ A[0] = e0 /\ \A i \in Index : i # 0 => A[i] = ZERO
  BY <1>1, <1>2
<1> HIDE DEF A
<1>5. DOMAIN B = Index /\ B[1] = e1 /\ \A i \in Index : i # 1 => B[i] = A[i]
  BY <1>1, <1>4
<1> HIDE DEF B
<1>6. B[0] = e0 /\ \A i \in Index : i # 0 /\ i # 1 => B[i] = ZERO
  BY <1>1, <1>4, <1>5
<1>7. DOMAIN C = Index /\ C[USER_DIR] = e /\ \A i \in Index : i # USER_DIR => C[i] = B[i]
  BY <1>1, <1>5
<1> HIDE DEF C
<1>8. /\ C[0] = e0 /\ C[1] = e1
      /\ \A i \in Index : i # 0 /\ i # 1 /\ i # USER_DIR => C[i] = ZERO
  BY <1>1, <1>5, <1>6, <1>7
<1> QED BY <1>3, <1>5, <1>6, <1>7, <1>8 DEF DirWordsAre, e0, e1, e

LEMMA ProgramLoaded ==
  ASSUME NEW N \in Int, NEW x, Good(x, N), Dims(N), ~x.fault, NEW y, NEW q, NEW d, Started(x, y, N, q, d),
         NEW g, NEW c, GotPage(y, g, N, c), NEW p \in Procs, NEW u \in BOOLEAN,
         NEW v, v = LoadProgram(g, q, p, u)
  PROVE  /\ v.page = q
         /\ Unloaded(x, v.m, N, q, d) \/ \E t, tq : Loaded(x, v.m, N, u, p, q, d, t, tq, c)
<1> DEFINE cq == g.page
           w == Data(<<"code", p>>)
           a == Fill(g.m, cq, w)
           l == vmm_get_physical_address(a, cq)
           b == vmm_map_frame(l.m, q, CODE, l.frame, u)
           z == vmm_free_page(b, cq)
<1>1. /\ Step(y, g.m, N, {}, {}) /\ cq \in KPages /\ Walk(y, KDIR, cq) = None
      /\ Walk(g.m, KDIR, cq) = c /\ c # None /\ c \notin y.used
  BY DEF GotPage
<1>2. Step(x, y, N, {}, {}) /\ Mapped(y, q, d) /\ y.mem[d] = EmptyDir /\ d \notin x.used
  BY DEF Started
<1>3. Good(y, N) /\ ~y.fault
  BY <1>2 DEF Step
<1>4. Plain(y, d) /\ d \in y.used /\ q \in KPages /\ d # c /\ q # cq
  <2>1. Plain(y, d) /\ d \in y.used /\ q \in KPages
    BY <1>2, <1>3, MappedPlain
  <2> QED BY <1>1, <1>2, <2>1 DEF Mapped
<1>5. cq # NULL
  BY <1>1, KPage
<1>6. v.m = z /\ v.page = q
  BY <1>5 DEF LoadProgram, MapProgram
<1>7. w \in Words
  <2>1. <<"code", p>> \in Tags
    BY DEF Tags
  <2> QED BY <2>1, DataFields
<1>8. Good(g.m, N) /\ ~g.m.fault /\ Mapped(g.m, q, d) /\ g.m.mem[d] = EmptyDir /\ Plain(g.m, d)
  BY <1>1, <1>2, <1>4 DEF Step, Mapped
<1> HIDE DEF cq, w
<1>9. Written(g.m, a, N, c, Row(w))
  <2>1. Written(g.m, a, N, Walk(g.m, KDIR, cq), [i \in Index |-> w])
    BY <1>1, <1>7, <1>8, PageFilled
  <2> QED BY <1>1, <2>1 DEF Row
<1>10. /\ Good(a, N) /\ ~a.fault /\ Mapped(a, q, d) /\ a.mem[d] = EmptyDir /\ Plain(a, d)
       /\ Walk(a, KDIR, cq) = c /\ a.mem[c] = Row(w) /\ Step(g.m, a, N, {c}, {})
  BY <1>1, <1>4, <1>8, <1>9 DEF Written, Step, SameWalks, Mapped
<1> HIDE DEF a
<1>11. Found(a, l, N, c)
  BY <1>1, <1>10, PageFound
<1>12. Plain(a, c) /\ c \in 0 .. N - 1
  BY <1>1, <1>10, PagePlain
<1>13. /\ Good(l.m, N) /\ ~l.m.fault /\ Mapped(l.m, q, d) /\ l.m.mem[d] = EmptyDir /\ Plain(l.m, d)
       /\ Walk(l.m, KDIR, cq) = c /\ l.m.mem[c] = Row(w) /\ l.frame = c /\ Plain(l.m, c)
       /\ Step(a, l.m, N, {}, {})
  BY <1>1, <1>10, <1>11, <1>12 DEF Found, Step, SameWalks, Mapped
<1>14. b = vmm_map_frame(l.m, q, CODE, c, u)
  BY <1>13
<1> HIDE DEF l
<1>15. NoTable(l.m, b, N) \/ \E t, tq : MadeTable(l.m, b, N, q, d, CODE, u, c, t, tq)
  <2>1. CODE[1] \in Index /\ CODE[2] \in Index /\ l.m.mem[d][CODE[1]] = ZERO
    <3>1. DirWordsAre(u, d)
      BY DirWords
    <3> QED BY <1>13, <3>1, CodePage DEF DirWordsAre
  <2>2. c \in Int
    BY <1>12
  <2> QED BY <1>13, <1>14, <2>1, <2>2, MapNew
<1> HIDE DEF b
<1>16. Step(l.m, b, N, {d}, {})
  BY <1>15 DEF NoTable, MadeTable, Step
<1>17. Good(b, N) /\ ~b.fault /\ Mapped(b, q, d) /\ Walk(b, KDIR, cq) = c /\ b.mem[c] = Row(w)
  BY <1>1, <1>4, <1>13, <1>16 DEF Step, Mapped
<1>18. Freed(b, z, N, cq, c)
  <2>1. Freed(b, z, N, cq, Walk(b, KDIR, cq))
    BY <1>1, <1>17, PageFreed
  <2> QED BY <1>17, <2>1
<1> HIDE DEF z
<1>19. Step(x, z, N, {}, {})
  <2>1. c \notin x.used /\ Walk(x, KDIR, cq) = None
    BY <1>1, <1>2 DEF Step
  <2>2. /\ \A f \in {c} : f \notin x.used
        /\ \A f \in {d} : f \notin x.used
        /\ \A r \in {cq} : Walk(x, KDIR, r) = None
    BY <1>2, <2>1
  <2>3. Step(x, g.m, N, {}, {})
    BY <1>1, <1>2, StepOn
  <2>4. Step(x, a, N, {}, {})
    BY <1>10, <2>2, <2>3, StepOn
  <2>5. Step(x, l.m, N, {}, {})
    BY <1>13, <2>4, StepOn
  <2>6. Step(x, b, N, {}, {})
    BY <1>16, <2>2, <2>5, StepOn
  <2>7. Step(b, z, N, {}, {cq})
    BY <1>18 DEF Freed
  <2> QED BY <2>2, <2>6, <2>7, StepOn
<1>20. /\ Mapped(z, q, d) /\ Loose(z, c)
       /\ \A f : Plain(b, f) => z.mem[f] = b.mem[f]
  BY <1>4, <1>17, <1>18 DEF Freed, Mapped, Step
<1>21. z.mem[c] = Row(w) /\ z.mem[d] = b.mem[d]
  <2>1. Plain(b, c) /\ Plain(b, d)
    BY <1>13, <1>16 DEF Step
  <2> QED BY <1>17, <1>20, <2>1
<1>22. CASE NoTable(l.m, b, N)
  <2>1. b.mem[d] = EmptyDir
    BY <1>13, <1>22 DEF NoTable, Step
  <2>2. FreeFrames(z) = {}
    <3>1. Step(b, z, N, {}, {cq}) /\ FreeFrames(b) = {}
      BY <1>18, <1>22 DEF Freed, NoTable
    <3> QED BY <1>17, <3>1, StaysEmpty
  <2>3. Unloaded(x, z, N, q, d)
    BY <1>2, <1>19, <1>20, <1>21, <2>1, <2>2 DEF Unloaded, Started
  <2> QED BY <1>6, <2>3
<1>23. ASSUME NEW t, NEW tq, MadeTable(l.m, b, N, q, d, CODE, u, c, t, tq)
       PROVE  Loaded(x, z, N, u, p, q, d, t, tq, c)
  <2>1. t \notin l.m.used /\ Mapped(b, tq, t)
    BY <1>23 DEF MadeTable
  <2>2. t # d /\ t # c
    BY <1>13, <2>1 DEF Plain
  <2>3. tq # cq /\ tq \in KPages
    BY <1>17, <2>1, <2>2 DEF Mapped
  <2>4. Mapped(z, tq, t)
    BY <1>18, <2>1, <2>3 DEF Freed, Mapped
  <2>5. Plain(b, t)
    BY <1>17, <2>1, MappedPlain
  <2>6. z.mem[d] = SpaceDir(u, t)
    BY <1>13, <1>21, <1>23, CodePage DEF MadeTable, SpaceDir
  <2>7. z.mem[t] = SpaceTab(u, c)
    BY <1>20, <1>23, <2>5, CodePage DEF MadeTable, SpaceTab, Row
  <2>8. t \notin x.used
    <3>1. x.used \subseteq l.m.used
      BY <1>1, <1>2, <1>10, <1>13 DEF Step
    <3> QED BY <2>1, <3>1
  <2> QED BY <1>2, <1>19, <1>20, <1>21, <2>2, <2>4, <2>6, <2>7, <2>8 DEF Loaded, w
<1> QED BY <1>6, <1>15, <1>22, <1>23

\* The stack of process p is in frame s, which only the caller knows of.
MadeStack(x, r, N, p, s) ==
  /\ Step(x, r.m, N, {}, {}) /\ r.esp = STACK /\ r.frame = s /\ s \in Int /\ s \notin x.used
  /\ Loose(r.m, s) /\ r.m.mem[s] = Row(Data(<<"stack", p>>))

StackMissing(x, r, N) ==
  Step(x, r.m, N, {}, {}) /\ FreeFrames(r.m) = {} /\ r.frame = 0 /\ r.esp = NULL

LEMMA StackMade ==
  ASSUME NEW N \in Int, NEW x, Good(x, N), Dims(N), ~x.fault, NEW p \in Procs,
         NEW r, r = create_process_stack(x, p)
  PROVE  StackMissing(x, r, N) \/ \E s : MadeStack(x, r, N, p, s)
<1> DEFINE g == vmm_get_new_page(x, FALSE, NULL)
           q == g.page
           w == Data(<<"stack", p>>)
           a == Fill(g.m, q, w)
           z == vmm_free_page(a, q)
<1>1. Answers(x, g, N)
  BY AnyPageOk
<1>2. r = NewStack(g, p)
  BY DEF create_process_stack
<1> HIDE DEF g
<1>3. CASE NoPage(x, g, N)
  <2>1. r = NoStack(g.m)
    BY <1>2, <1>3 DEF NewStack, NoPage
  <2>2. StackMissing(x, r, N)
    BY <1>3, <2>1 DEF NoPage, StackMissing, NoStack
  <2> QED BY <2>2
<1>4. ASSUME NEW s, GotPage(x, g, N, s) PROVE MadeStack(x, r, N, p, s)
  <2>1. /\ Step(x, g.m, N, {}, {}) /\ q \in KPages /\ Walk(x, KDIR, q) = None
        /\ Walk(g.m, KDIR, q) = s /\ s # None /\ s \notin x.used
    BY <1>4 DEF GotPage
  <2>2. q # NULL
    BY <2>1, KPage
  <2>3. Good(g.m, N) /\ ~g.m.fault
    BY <2>1 DEF Step
  <2>4. w \in Words
    <3>1. <<"stack", p>> \in Tags
      BY DEF Tags
    <3> QED BY <3>1, DataFields
  <2>5. r.m = z /\ r.frame = FrameOf(a, q) /\ r.esp = STACK
    BY <1>2, <2>2 DEF NewStack, StackIn
  <2> HIDE DEF q, w
  <2>6. Written(g.m, a, N, s, Row(w))
    <3>1. Written(g.m, a, N, Walk(g.m, KDIR, q), [i \in Index |-> w])
      BY <2>1, <2>3, <2>4, PageFilled
    <3> QED BY <2>1, <3>1 DEF Row
  <2>7. /\ Good(a, N) /\ ~a.fault /\ Walk(a, KDIR, q) = s /\ a.mem[s] = Row(w)
        /\ Step(g.m, a, N, {s}, {})
    BY <2>1, <2>6 DEF Written, Step, SameWalks
  <2> HIDE DEF a
  <2>8. FrameOf(a, q) = s
    <3>1. PICK pl : Ok(a, N, pl)
      BY <2>7 DEF Good
    <3>2. Walk(a, KDIR, q) = IF Has(a, q[1]) /\ a.mem[Tab(a, q[1])][q[2]].present
                             THEN a.mem[Tab(a, q[1])][q[2]].frame ELSE None
      BY <2>1, <3>1, WalkIs
    <3> QED BY <2>1, <2>7, <3>2 DEF FrameOf, Directory, Tab
  <2>9. Freed(a, z, N, q, s)
    <3>1. Freed(a, z, N, q, Walk(a, KDIR, q))
      BY <2>1, <2>7, PageFreed
    <3> QED BY <2>7, <3>1
  <2> HIDE DEF z
  <2>10. Plain(a, s) /\ s \in 0 .. N - 1
    BY <2>1, <2>7, PagePlain
  <2>11. Loose(z, s) /\ z.mem[s] = Row(w) /\ Step(a, z, N, {}, {q})
    BY <2>7, <2>9, <2>10 DEF Freed, Step
  <2>12. Step(x, z, N, {}, {})
    <3>1. (\A f \in {s} : f \notin x.used) /\ (\A k \in {q} : Walk(x, KDIR, k) = None)
      BY <2>1
    <3>2. Step(x, a, N, {}, {})
      BY <2>1, <2>7, <3>1, StepOn
    <3> QED BY <2>11, <3>1, <3>2, StepOn
  <2>13. s \in Int
    BY <2>10
  <2> QED BY <2>1, <2>5, <2>8, <2>11, <2>12, <2>13 DEF MadeStack, w
<1> QED BY <1>1, <1>3, <1>4 DEF Answers

\* The address space of process p: the directory d and the table t are in pages
\* of the kernel, the program in frame c and the stack in frame s are not.
SpaceAt(x, p, d, t, c, s) ==
  /\ \E q : Mapped(x, q, d)
  /\ \E q : Mapped(x, q, t)
  /\ Loose(x, c) /\ Loose(x, s)
  /\ x.mem[d] = SpaceDir(TRUE, t) /\ x.mem[t] = FullTab(TRUE, c, s)
  /\ x.mem[c] = Row(Data(<<"code", p>>))
  /\ x.mem[s] \in {Row(Data(<<"stack", p>>)), Row(Data(<<"used", p>>))}

\* What create_pcb comes to: a fault, ...
Panics(x, r, N) ==
  /\ r.m.fault = TRUE
  /\ \E y : Step(x, y, N, {}, {}) /\ r.m = [y EXCEPT !.fault = TRUE]

\* ... no process, and no memory left, ...
Fails(x, r, N) ==
  /\ Step(x, r.m, N, {}, {}) /\ r.esp = NULL /\ FreeFrames(r.m) = {} /\ FreeFrames(x) # {}

\* ... or a process.
Creates(x, r, N, p, t, c, s) ==
  /\ Step(x, r.m, N, {}, {}) /\ r.esp # NULL /\ FreeFrames(x) # {}
  /\ SpaceAt(r.m, p, r.dir, t, c, s) /\ r.m.mem[s] = Row(Data(<<"stack", p>>))

\* Without an address space, mapping the stack faults.
LEMMA NullFaults ==
  ASSUME NEW N \in Int, NEW x, Good(x, N), Dims(N), ~x.fault, NEW f, NEW u
  PROVE  vmm_map_frame(x, NULL, STACK, f, u) = [x EXCEPT !.fault = TRUE]
<1>1. /\ Typed(x, N) /\ x.mem[KDIR][0] = Entry(FALSE, PT0) /\ x.mem[PT0][0].present = FALSE
      /\ NULL \notin DOMAIN x.tlb
  BY GoodFields
<1>2. IsEntry(Entry(FALSE, PT0), FALSE, PT0) /\ PT0 \in 0 .. N - 1
  BY Frames, EntryFields
<1>3. Translate(x, NULL) = None
  <2>1. NULL[1] = 0 /\ NULL[2] = 0
    BY DEF NULL
  <2>2. Walk(x, KDIR, NULL) = None
    BY <1>1, <1>2, <2>1 DEF Walk, Leaf, IsEntry
  <2> QED BY <1>1, <2>2 DEF Translate
<1>4. None \notin DOMAIN x.mem
  BY <1>1 DEF Typed, None
<1>5. Access(x, NULL) = [x EXCEPT !.fault = TRUE]
  BY <1>3, <1>4 DEF Access, AccessFrame
<1>6. [x EXCEPT !.fault = TRUE].fault
  <2>1. PICK b : b = TRUE
    OBVIOUS
  <2>2. [x EXCEPT !.fault = b] = Mach(x.used, x.mem, x.tlb, b)
    BY <1>1, MachExcept DEF Typed
  <2>3. [x EXCEPT !.fault = b].fault = b
    BY <2>2, MachFields
  <2> QED BY <2>1, <2>3
<1> QED BY <1>5, <1>6 DEF vmm_map_frame, MapUnder

\* The three outcomes of vmm_create_virtual_address_space.
NoSpace(x, v, N) == v.page = NULL /\ Step(x, v.m, N, {}, {})

LEMMA SpaceMade ==
  ASSUME NEW N \in Int, NEW x, Good(x, N), Dims(N), ~x.fault, NEW p \in Procs, NEW u \in BOOLEAN,
         NEW v, v = vmm_create_virtual_address_space(x, p, u)
  PROVE  \/ NoSpace(x, v, N)
         \/ \E d : Unloaded(x, v.m, N, v.page, d)
         \/ \E d, t, tq, c : Loaded(x, v.m, N, u, p, v.page, d, t, tq, c)
<1> DEFINE g == vmm_get_new_page(x, FALSE, NULL)
           q == g.page
           y == AddressSpace(g.m, q)
           h == vmm_get_new_page(y, FALSE, NULL)
<1>1. Answers(x, g, N)
  BY AnyPageOk
<1>2. v = NewSpace(g, p, u)
  BY DEF vmm_create_virtual_address_space
<1> HIDE DEF g
<1>3. CASE NoPage(x, g, N)
  <2>1. v = g
    BY <1>2, <1>3 DEF NewSpace, NoPage
  <2> QED BY <1>3, <2>1 DEF NoPage, NoSpace
<1>4. ASSUME NEW d, GotPage(x, g, N, d)
      PROVE  \/ NoSpace(x, v, N)
             \/ Unloaded(x, v.m, N, v.page, d)
             \/ \E t, tq, c : Loaded(x, v.m, N, u, p, v.page, d, t, tq, c)
  <2>1. q # NULL
    BY <1>4, KPage DEF GotPage
  <2>2. v = LoadProgram(h, q, p, u)
    BY <1>2, <2>1 DEF NewSpace
  <2>3. Started(x, y, N, q, d)
    BY <1>4, SpaceStarted
  <2> HIDE DEF y, q
  <2>4. Good(y, N) /\ ~y.fault
    BY <2>3 DEF Started, Step
  <2>5. Answers(y, h, N)
    BY <2>4, AnyPageOk
  <2> HIDE DEF h
  <2>6. CASE NoPage(y, h, N)
    <3>1. v = h
      BY <2>2, <2>6 DEF LoadProgram, NoPage
    <3>2. Step(x, h.m, N, {}, {})
      BY <2>3, <2>6, StepOn DEF Started, NoPage
    <3> QED BY <2>6, <3>1, <3>2 DEF NoPage, NoSpace
  <2>7. ASSUME NEW c, GotPage(y, h, N, c)
        PROVE  \/ Unloaded(x, v.m, N, v.page, d)
               \/ \E t, tq : Loaded(x, v.m, N, u, p, v.page, d, t, tq, c)
    <3>1. /\ v.page = q
          /\ Unloaded(x, v.m, N, q, d) \/ \E t, tq : Loaded(x, v.m, N, u, p, q, d, t, tq, c)
      BY <2>2, <2>3, <2>7, ProgramLoaded
    <3> QED BY <3>1
  <2> QED BY <2>5, <2>6, <2>7 DEF Answers
<1> QED BY <1>1, <1>3, <1>4 DEF Answers

\* There was a frame for a directory that is new.
LEMMA WasFree ==
  ASSUME NEW N \in Int, NEW x, NEW z, Good(x, N), Good(z, N), Dims(N), NEW q, NEW d, Mapped(z, q, d),
         d \notin x.used
  PROVE  FreeFrames(x) # {}
<1>1. d \in 0 .. N - 1
  BY MappedPlain
<1>2. FreeFrames(x) = (0 .. N - 1) \ x.used
  BY GoodFields
<1> QED BY <1>1, <1>2

\* The stack is mapped into a space without a table.
LEMMA CreateUnloaded ==
  ASSUME NEW N \in Int, NEW x, Good(x, N), Dims(N), ~x.fault, NEW p \in Procs, NEW u \in BOOLEAN,
         NEW v, NEW d, Unloaded(x, v.m, N, v.page, d), NEW r, r = WithStack(v, p, u)
  PROVE  Fails(x, r, N)
<1> DEFINE q == v.page
           a == vmm_get_physical_address(v.m, q)
           k == create_process_stack(a.m, p)
           z == vmm_map_frame(k.m, q, STACK, k.frame, u)
<1>1. /\ Step(x, v.m, N, {}, {}) /\ Mapped(v.m, q, d) /\ v.m.mem[d] = EmptyDir /\ d \notin x.used
      /\ FreeFrames(v.m) = {}
  BY DEF Unloaded, Started
<1>2. r = [m |-> z, dir |-> a.frame, esp |-> k.esp]
  BY DEF WithStack, AddStack, MapStack
<1> HIDE DEF q
<1>3. Good(v.m, N) /\ ~v.m.fault
  BY <1>1 DEF Step
<1>4. q \in KPages /\ Walk(v.m, KDIR, q) # None /\ Walk(v.m, KDIR, q) = d /\ Plain(v.m, d)
  BY <1>1, <1>3, MappedPlain
<1>5. Found(v.m, a, N, d)
  BY <1>3, <1>4, PageFound
<1> HIDE DEF a
<1>6. Step(v.m, a.m, N, {}, {}) /\ Good(a.m, N) /\ ~a.m.fault
  BY <1>5 DEF Found, Step
<1>7. FreeFrames(a.m) = {}
  BY <1>1, <1>3, <1>6, StaysEmpty
<1>8. StackMissing(a.m, k, N) \/ \E s : MadeStack(a.m, k, N, p, s)
  BY <1>6, StackMade
<1> HIDE DEF k
<1>9. ~\E s : MadeStack(a.m, k, N, p, s)
  <2> SUFFICES ASSUME NEW s, MadeStack(a.m, k, N, p, s) PROVE FALSE
    OBVIOUS
  <2>1. s \in k.m.used /\ Good(k.m, N) /\ s \notin a.m.used
    BY DEF MadeStack, Loose, Plain, Step
  <2>2. k.m.used \in SUBSET (0 .. N - 1)
    BY <2>1, GoodFields
  <2>3. FreeFrames(a.m) = (0 .. N - 1) \ a.m.used
    BY <1>6, GoodFields
  <2> QED BY <1>7, <2>1, <2>2, <2>3
<1>10. Step(a.m, k.m, N, {}, {}) /\ FreeFrames(k.m) = {} /\ k.frame = 0 /\ k.esp = NULL
  BY <1>8, <1>9 DEF StackMissing
<1>11. Good(k.m, N) /\ ~k.m.fault /\ Mapped(k.m, q, d) /\ k.m.mem[d] = EmptyDir
  BY <1>1, <1>4, <1>6, <1>10 DEF Step, Mapped
<1>12. NoTable(k.m, z, N) \/ \E t, tq : MadeTable(k.m, z, N, q, d, STACK, u, k.frame, t, tq)
  <2>1. STACK[1] \in Index /\ STACK[2] \in Index /\ k.m.mem[d][STACK[1]] = ZERO
    <3>1. DirWordsAre(u, d)
      BY DirWords
    <3> QED BY <1>11, <3>1, CodePage DEF DirWordsAre
  <2>2. k.frame \in Int
    BY <1>10
  <2> QED BY <1>11, <2>1, <2>2, MapNew
<1> HIDE DEF z
<1>13. ~\E t, tq : MadeTable(k.m, z, N, q, d, STACK, u, k.frame, t, tq)
  <2> SUFFICES ASSUME NEW t, NEW tq, MadeTable(k.m, z, N, q, d, STACK, u, k.frame, t, tq) PROVE FALSE
    OBVIOUS
  <2>1. Good(z, N) /\ Mapped(z, tq, t) /\ t \notin k.m.used
    BY DEF MadeTable, Step
  <2> QED BY <1>10, <1>11, <2>1, WasFree
<1>14. Step(k.m, z, N, {}, {}) /\ FreeFrames(z) = {}
  BY <1>12, <1>13 DEF NoTable
<1>15. Step(x, z, N, {}, {})
  <2>1. Step(x, a.m, N, {}, {})
    BY <1>1, <1>6, StepOn
  <2>2. Step(x, k.m, N, {}, {})
    BY <1>10, <2>1, StepOn
  <2> QED BY <1>14, <2>2, StepOn
<1>16. FreeFrames(x) # {}
  BY <1>1, <1>3, WasFree
<1> QED BY <1>2, <1>10, <1>14, <1>15, <1>16 DEF Fails

\* The stack is mapped into the table t.
LEMMA CreateLoaded ==
  ASSUME NEW N \in Int, NEW x, Good(x, N), Dims(N), ~x.fault, NEW p \in Procs, NEW u \in BOOLEAN, u = TRUE,
         NEW v, NEW d, NEW t, NEW tq, NEW c, Loaded(x, v.m, N, u, p, v.page, d, t, tq, c),
         NEW r, r = WithStack(v, p, u)
  PROVE  Fails(x, r, N) \/ \E s : Creates(x, r, N, p, t, c, s)
<1> DEFINE q == v.page
           a == vmm_get_physical_address(v.m, q)
           k == create_process_stack(a.m, p)
           z == vmm_map_frame(k.m, q, STACK, k.frame, u)
<1>1. /\ Step(x, v.m, N, {}, {}) /\ Mapped(v.m, q, d) /\ Mapped(v.m, tq, t) /\ Loose(v.m, c)
      /\ v.m.mem[d] = SpaceDir(u, t) /\ v.m.mem[t] = SpaceTab(u, c)
      /\ v.m.mem[c] = Row(Data(<<"code", p>>))
      /\ d \notin x.used /\ t \notin x.used /\ d # t
  BY DEF Loaded
<1>2. r = [m |-> z, dir |-> a.frame, esp |-> k.esp]
  BY DEF WithStack, AddStack, MapStack
<1> HIDE DEF q
<1>3. Good(v.m, N) /\ ~v.m.fault
  BY <1>1 DEF Step
<1>4. q \in KPages /\ Walk(v.m, KDIR, q) # None /\ Walk(v.m, KDIR, q) = d /\ Plain(v.m, d)
  BY <1>1, <1>3, MappedPlain
<1>5. Plain(v.m, t) /\ Plain(v.m, c)
  BY <1>1, <1>3, MappedPlain DEF Loose
<1>6. Found(v.m, a, N, d)
  BY <1>3, <1>4, PageFound
<1> HIDE DEF a
<1>7. Step(v.m, a.m, N, {}, {}) /\ Good(a.m, N) /\ ~a.m.fault /\ a.frame = d
  BY <1>6 DEF Found, Step
<1>8. StackMissing(a.m, k, N) \/ \E s : MadeStack(a.m, k, N, p, s)
  BY <1>7, StackMade
<1> HIDE DEF k
<1>9. Step(a.m, k.m, N, {}, {}) /\ k.frame \in Int
  BY <1>8 DEF StackMissing, MadeStack
<1>10. Step(v.m, k.m, N, {}, {})
  BY <1>7, <1>9, StepOn
<1>11. /\ Good(k.m, N) /\ ~k.m.fault /\ Mapped(k.m, q, d) /\ Mapped(k.m, tq, t) /\ Loose(k.m, c)
       /\ k.m.mem[d] = SpaceDir(u, t) /\ k.m.mem[t] = SpaceTab(u, c)
       /\ k.m.mem[c] = Row(Data(<<"code", p>>)) /\ Plain(k.m, d) /\ Plain(k.m, t) /\ Plain(k.m, c)
  BY <1>1, <1>4, <1>5, <1>10 DEF Step, Mapped
<1>12. /\ Step(k.m, z, N, {t}, {}) /\ z.used = k.m.used
       /\ z.mem[t] = [SpaceTab(u, c) EXCEPT ![1] = Entry(u, k.frame)]
  <2>1. STACK[2] \in Index /\ STACK[2] = 1 /\ k.m.mem[d][STACK[1]] = Entry(u, t)
    <3>1. DirWordsAre(u, t)
      BY DirWords
    <3> QED BY <1>11, <3>1, CodePage DEF DirWordsAre
  <2> DEFINE y == k.m
             f == k.frame
  <2>2. /\ z = vmm_map_frame(y, q, STACK, f, u) /\ f \in Int /\ Good(y, N) /\ ~y.fault
        /\ Mapped(y, q, d) /\ Plain(y, t) /\ y.mem[d][STACK[1]] = Entry(u, t)
    BY <1>9, <1>11, <2>1
  <2> HIDE DEF y, f, z
  <2>3. InTable(y, z, N, t, STACK, u, f)
    BY <2>1, <2>2, MapOld
  <2> QED BY <1>11, <2>1, <2>3 DEF y, f, InTable
<1> HIDE DEF z
<1>13. Step(x, z, N, {}, {})
  <2>1. Step(x, k.m, N, {}, {})
    BY <1>1, <1>10, StepOn
  <2>2. \A f \in {t} : f \notin x.used
    BY <1>1
  <2> QED BY <1>12, <2>1, <2>2, StepOn
<1>14. FreeFrames(x) # {}
  BY <1>1, <1>3, WasFree
<1>15. CASE StackMissing(a.m, k, N)
  <2>1. FreeFrames(z) = {}
    BY <1>11, <1>12, <1>15, StaysEmpty DEF StackMissing
  <2> QED BY <1>2, <1>13, <1>14, <1>15, <2>1 DEF Fails, StackMissing
<1>16. ASSUME NEW s, MadeStack(a.m, k, N, p, s) PROVE Creates(x, r, N, p, t, c, s)
  <2>1. /\ k.esp = STACK /\ k.frame = s /\ s \in Int /\ Loose(k.m, s)
        /\ k.m.mem[s] = Row(Data(<<"stack", p>>))
    BY <1>16 DEF MadeStack
  <2>2. c # t /\ s # t
    BY <1>11, <2>1 DEF Loose, Mapped
  <2>3. /\ z.mem[d] = SpaceDir(u, t) /\ z.mem[c] = Row(Data(<<"code", p>>))
        /\ z.mem[s] = Row(Data(<<"stack", p>>)) /\ Loose(z, c) /\ Loose(z, s)
    BY <1>1, <1>11, <1>12, <2>1, <2>2 DEF Step, Loose
  <2>4. Mapped(z, q, d) /\ Mapped(z, tq, t)
    BY <1>11, <1>12 DEF Step, Mapped
  <2>5. z.mem[t] = FullTab(u, c, s)
    BY <1>12, <2>1 DEF FullTab
  <2>6. SpaceAt(z, p, d, t, c, s)
    BY <2>3, <2>4, <2>5 DEF SpaceAt
  <2>7. r.m = z /\ r.dir = d /\ r.esp # NULL
    BY <1>2, <1>7, <2>1, CodePage
  <2> QED BY <1>13, <1>14, <2>3, <2>6, <2>7 DEF Creates
<1> QED BY <1>8, <1>15, <1>16

LEMMA CreateOk ==
  ASSUME NEW N \in Int, NEW x, Good(x, N), Dims(N), ~x.fault, NEW p \in Procs, NEW u \in BOOLEAN, u = TRUE,
         NEW r, r = create_pcb(x, p, u)
  PROVE  Panics(x, r, N) \/ Fails(x, r, N) \/ \E t, c, s : Creates(x, r, N, p, t, c, s)
<1> DEFINE v == vmm_create_virtual_address_space(x, p, u)
<1>1. r = WithStack(v, p, u)
  BY DEF create_pcb
<1>2. \/ NoSpace(x, v, N)
      \/ \E d : Unloaded(x, v.m, N, v.page, d)
      \/ \E d, t, tq, c : Loaded(x, v.m, N, u, p, v.page, d, t, tq, c)
  BY SpaceMade
<1> HIDE DEF v
<1>3. CASE NoSpace(x, v, N)
  <2> DEFINE a == vmm_get_physical_address(v.m, NULL)
             k == create_process_stack(a.m, p)
  <2>1. v.page = NULL /\ Step(x, v.m, N, {}, {}) /\ Good(v.m, N) /\ ~v.m.fault
    BY <1>3 DEF NoSpace, Step
  <2>2. Found(v.m, a, N, v.m.mem[PT0][0].frame)
    BY <2>1, NullFound
  <2>3. r.m = vmm_map_frame(k.m, NULL, STACK, k.frame, u)
    BY <1>1, <2>1 DEF WithStack, AddStack, MapStack
  <2> HIDE DEF a
  <2>4. Step(v.m, a.m, N, {}, {}) /\ Good(a.m, N) /\ ~a.m.fault
    BY <2>2 DEF Found, Step
  <2>5. StackMissing(a.m, k, N) \/ \E s : MadeStack(a.m, k, N, p, s)
    BY <2>4, StackMade
  <2> HIDE DEF k
  <2>6. Step(a.m, k.m, N, {}, {}) /\ Good(k.m, N) /\ ~k.m.fault
    BY <2>5 DEF StackMissing, MadeStack, Step
  <2>7. r.m = [k.m EXCEPT !.fault = TRUE]
    BY <2>3, <2>6, NullFaults
  <2>8. Step(x, k.m, N, {}, {})
    <3>1. Step(x, a.m, N, {}, {})
      BY <2>1, <2>4, StepOn
    <3> QED BY <2>6, <3>1, StepOn
  <2>9. r.m.fault = TRUE
    <3>1. PICK b : b = TRUE
      OBVIOUS
    <3>2. [k.m EXCEPT !.fault = b] = Mach(k.m.used, k.m.mem, k.m.tlb, b)
      BY <2>6, GoodFields, MachExcept DEF Typed
    <3>3. [k.m EXCEPT !.fault = b].fault = b
      BY <3>2, MachFields
    <3> QED BY <2>7, <3>1, <3>3
  <2> QED BY <2>7, <2>8, <2>9 DEF Panics
<1>4. ASSUME NEW d, Unloaded(x, v.m, N, v.page, d) PROVE Fails(x, r, N)
  BY <1>1, <1>4, CreateUnloaded
<1>5. ASSUME NEW d, NEW t, NEW tq, NEW c, Loaded(x, v.m, N, u, p, v.page, d, t, tq, c)
      PROVE  Fails(x, r, N) \/ \E s : Creates(x, r, N, p, t, c, s)
  BY <1>1, <1>5, CreateLoaded
<1> QED BY <1>2, <1>3, <1>4, <1>5

-----------------------------------------------------------------------------
(* What a step keeps of the processes and of the pages that callers hold.  *)

\* Caller k has page q, with its own words in it.
HeldAt(x, k, q) == \E f : Mapped(x, q, f) /\ x.mem[f] = Row(Data(<<"kernel", k>>))

\* The space is where it was, with the same words in its stack.
SpaceKept(x, z, p, d, t, c, s) == SpaceAt(z, p, d, t, c, s) /\ z.mem[s] = x.mem[s]

LEMMA SpaceStays ==
  ASSUME NEW N \in Int, NEW x, Good(x, N), Dims(N), NEW z, NEW W, NEW Q, Step(x, z, N, W, Q),
         NEW p, NEW d, NEW t, NEW c, NEW s, SpaceAt(x, p, d, t, c, s),
         d \notin W, t \notin W, c \notin W, s \notin W,
         \A q \in Q : Walk(x, KDIR, q) # d /\ Walk(x, KDIR, q) # t
  PROVE  SpaceKept(x, z, p, d, t, c, s)
<1>1. PICK q : Mapped(x, q, d)
  BY DEF SpaceAt
<1>2. PICK r : Mapped(x, r, t)
  BY DEF SpaceAt
<1>3. Plain(x, d) /\ Plain(x, t)
  BY <1>1, <1>2, MappedPlain
<1>4. Mapped(z, q, d) /\ Mapped(z, r, t)
  BY <1>1, <1>2 DEF Mapped, Step
<1>5. Loose(x, c) /\ Loose(x, s) /\ Plain(x, c) /\ Plain(x, s)
  BY DEF SpaceAt, Loose
<1>6. Loose(z, c) /\ Loose(z, s)
  BY <1>5 DEF Step
<1>7. z.mem[d] = x.mem[d] /\ z.mem[t] = x.mem[t] /\ z.mem[c] = x.mem[c] /\ z.mem[s] = x.mem[s]
  BY <1>3, <1>5 DEF Step
<1> QED BY <1>4, <1>6, <1>7 DEF SpaceAt, SpaceKept

LEMMA HeldStays ==
  ASSUME NEW N \in Int, NEW x, Good(x, N), Dims(N), NEW z, NEW W, NEW Q, Step(x, z, N, W, Q),
         NEW k, NEW q, HeldAt(x, k, q), q \notin Q, Walk(x, KDIR, q) \notin W
  PROVE  HeldAt(z, k, q)
<1>1. PICK f : Mapped(x, q, f) /\ x.mem[f] = Row(Data(<<"kernel", k>>))
  BY DEF HeldAt
<1>2. Plain(x, f)
  BY <1>1, MappedPlain
<1>3. Mapped(z, q, f) /\ z.mem[f] = x.mem[f]
  BY <1>1, <1>2 DEF Mapped, Step
<1> QED BY <1>1, <1>3 DEF HeldAt

\* All that was there in x is there in z.
Keeps(x, z, N) ==
  /\ Good(z, N)
  /\ FreeFrames(x) = {} => FreeFrames(z) = {}
  /\ \A p, d, t, c, s : SpaceAt(x, p, d, t, c, s) => SpaceKept(x, z, p, d, t, c, s)
  /\ \A k, q : HeldAt(x, k, q) => HeldAt(z, k, q)

LEMMA StepKeeps ==
  ASSUME NEW N \in Int, NEW x, Good(x, N), Dims(N), NEW z, Step(x, z, N, {}, {})
  PROVE  Keeps(x, z, N)
<1>1. Good(z, N)
  BY DEF Step
<1>2. FreeFrames(x) = {} => FreeFrames(z) = {}
  BY StaysEmpty
<1>3. ASSUME NEW p, NEW d, NEW t, NEW c, NEW s, SpaceAt(x, p, d, t, c, s)
      PROVE  SpaceKept(x, z, p, d, t, c, s)
  BY <1>3, SpaceStays
<1>4. ASSUME NEW k, NEW q, HeldAt(x, k, q) PROVE HeldAt(z, k, q)
  BY <1>4, HeldStays
<1> QED BY <1>1, <1>2, <1>3, <1>4 DEF Keeps

\* A fault changes nothing else.
LEMMA FaultKeeps ==
  ASSUME NEW N \in Int, NEW x, Good(x, N), Dims(N), NEW z, z = [x EXCEPT !.fault = TRUE]
  PROVE  Keeps(x, z, N)
<1>1. PICK pl : Ok(x, N, pl)
  BY DEF Good
<1>2. PICK b : b = TRUE
  OBVIOUS
<1>3. z = Mach(x.used, x.mem, x.tlb, b)
  BY <1>1, <1>2, MachExcept DEF Ok, Typed
<1>4. z.used = x.used /\ z.mem = x.mem /\ z.tlb = x.tlb /\ z.fault = b /\ IsMach(z)
  <2> DEFINE u == x.used
             m == x.mem
             t == x.tlb
  <2> HIDE DEF u, m, t
  <2>1. /\ Mach(u, m, t, b).used = u /\ Mach(u, m, t, b).mem = m
        /\ Mach(u, m, t, b).tlb = t /\ Mach(u, m, t, b).fault = b /\ IsMach(Mach(u, m, t, b))
    BY MachFields
  <2>2. z = Mach(u, m, t, b)
    BY <1>3 DEF u, m, t
  <2> QED BY <2>1, <2>2 DEF u, m, t
<1>5. \A d, q : Walk(z, d, q) = Walk(x, d, q)
  BY <1>4 DEF Walk, Leaf
<1>6. Ok(z, N, pl)
  <2>1. Typed(z, N)
    BY <1>1, <1>2, <1>4 DEF Ok, Typed
  <2>2. BaseOk(z, N, pl)
    BY <1>1, <1>4 DEF Ok, BaseOk
  <2>3. DirOk(z, pl) /\ TabOk(z, pl)
    <3>1. DirOk(x, pl) /\ TabOk(x, pl)
      BY <1>1 DEF Ok
    <3>2. \A w, key : Ref(x, pl, w, key) => Ref(z, pl, w, key)
      BY <1>4 DEF Ref
    <3>3. DirOk(z, pl)
      BY <1>4, <3>1, <3>2 DEF DirOk
    <3>4. TabOk(z, pl)
      BY <1>4, <3>1, <3>2 DEF TabOk
    <3> QED BY <3>3, <3>4
  <2>4. TlbOk(z)
    <3>1. TlbOk(x)
      BY <1>1 DEF Ok
    <3> SUFFICES ASSUME NEW q \in DOMAIN z.tlb PROVE q \in KPages /\ z.tlb[q] = Walk(z, KDIR, q)
      BY DEF TlbOk
    <3>2. q \in DOMAIN x.tlb /\ z.tlb[q] = x.tlb[q]
      BY <1>4
    <3>3. q \in KPages /\ x.tlb[q] = Walk(x, KDIR, q)
      BY <3>1, <3>2 DEF TlbOk
    <3>4. Walk(z, KDIR, q) = Walk(x, KDIR, q)
      BY <1>5
    <3> QED BY <3>2, <3>3, <3>4
  <2> QED BY <2>1, <2>2, <2>3, <2>4 DEF Ok
<1>7. Good(z, N) /\ FreeFrames(z) = FreeFrames(x)
  BY <1>4, <1>6 DEF Good, FreeFrames
<1>8. \A q, f : Mapped(x, q, f) => Mapped(z, q, f)
  BY <1>5 DEF Mapped
<1>9. \A f : Loose(x, f) => Loose(z, f)
  BY <1>4, <1>5 DEF Loose, Plain, Has, Tab
<1>10. ASSUME NEW p, NEW d, NEW t, NEW c, NEW s, SpaceAt(x, p, d, t, c, s)
       PROVE  SpaceKept(x, z, p, d, t, c, s)
  BY <1>4, <1>8, <1>9, <1>10 DEF SpaceAt, SpaceKept
<1>11. ASSUME NEW k, NEW q, HeldAt(x, k, q) PROVE HeldAt(z, k, q)
  BY <1>4, <1>8, <1>11 DEF HeldAt
<1> QED BY <1>7, <1>10, <1>11 DEF Keeps

LEMMA KeepsTrans ==
  ASSUME NEW N, NEW x, NEW y, NEW z, Keeps(x, y, N), Keeps(y, z, N)
  PROVE  Keeps(x, z, N)
BY DEF Keeps, SpaceKept

-----------------------------------------------------------------------------
(* The inductive invariant.                                                *)

SpacesOk(x, pc) ==
  \A p \in Procs : pc[p].state = "ready" => \E t, c, s : SpaceAt(x, p, pc[p].dir, t, c, s)

HeldOk(x, pg) == \A k \in DOMAIN pg : HeldAt(x, k, pg[k])

\* When a creation has failed, no memory is left and nothing follows it.
FailedLast(x, pc) ==
  \A i \in DOMAIN BOOT : pc[BOOT[i]].state = "failed" =>
    FreeFrames(x) = {} /\ \A j \in DOMAIN BOOT : j > i => pc[BOOT[j]].state = "none"

InOrder(pc) ==
  \A i, j \in DOMAIN BOOT : j < i /\ pc[BOOT[i]].state # "none" => pc[BOOT[j]].state # "none"

PcbType(pc) == pc \in [Procs -> [state : {"none", "failed", "ready"}, dir : Int]]

InvOf(x, pc, pg, N) ==
  Good(x, N) /\ PcbType(pc) /\ SpacesOk(x, pc) /\ HeldOk(x, pg) /\ FailedLast(x, pc) /\ InOrder(pc)

\* With the tables of the kernel in order, every process that is ready has its
\* address space and every caller its page.  They are not in order as long as
\* the header of kmalloc_init lies over the directory.
VmmInv == VmmInit \/ \E N \in MEMORIES : InvOf(machine, pcb, pages, N)

LEMMA KeepsInv ==
  ASSUME NEW N, NEW x, NEW z, NEW pc, NEW pg, Keeps(x, z, N), InvOf(x, pc, pg, N)
  PROVE  InvOf(z, pc, pg, N)
<1>1. SpacesOk(z, pc)
  BY DEF Keeps, InvOf, SpacesOk, SpaceKept
<1>2. HeldOk(z, pg)
  BY DEF Keeps, InvOf, HeldOk
<1>3. FailedLast(z, pc)
  BY DEF Keeps, InvOf, FailedLast
<1> QED BY <1>1, <1>2, <1>3 DEF Keeps, InvOf

\* paging_init.
LEMMA StartGood ==
  ASSUME NEW N \in Int, Dims(N)
  PROVE  Good(PagingInit(N), N) /\ PagingInit(N).fault = FALSE /\ PagingInit(N).tlb = <<>>
<1> DEFINE x == PagingInit(N)
           e == Entry(FALSE, 0)
           dir == [i \in Index |-> CASE i = 0 -> Entry(FALSE, PT0)
                                     [] i = 1 -> Entry(FALSE, PT1)
                                     [] OTHER -> ZERO]
           mm == [f \in 0 .. N - 1 |->
                CASE f = KDIR -> dir
                  [] f = PT0  -> Identity(0, e)
                  [] f = PT1  -> Identity(1, e)
                  [] OTHER    -> [i \in Index |-> JUNK]]
           pl == [f \in 0 .. N - 1 |-> <<0, 0>>]
<1>1. PICK b : b = FALSE
  OBVIOUS
<1>2. x = Mach(0 .. PT1, mm, <<>>, b)
  BY <1>1 DEF PagingInit, Mach
<1>3. x.used = 0 .. PT1 /\ x.mem = mm /\ x.tlb = <<>> /\ x.fault = b /\ IsMach(x)
  BY <1>2, MachFields
<1> HIDE DEF x
<1>4. IsEntry(e, FALSE, 0) /\ IsEntry(Entry(FALSE, PT0), FALSE, PT0) /\ IsEntry(Entry(FALSE, PT1), FALSE, PT1)
  <2>1. FALSE \in BOOLEAN /\ 0 \in Int /\ PT0 \in Int /\ PT1 \in Int
    BY Frames
  <2> QED BY <2>1, EntryFields, Zenon
<1>5. dir \in [Index -> Words] /\ dir[0] = Entry(FALSE, PT0) /\ dir[1] = Entry(FALSE, PT1)
      /\ \A i \in 2 .. ENTRIES - 1 : dir[i] = ZERO
  <2>1. 2 .. ENTRIES - 1 \subseteq Index
    BY DEF Index
  <2>2. Entry(FALSE, PT0) \in Words /\ Entry(FALSE, PT1) \in Words /\ ZERO \in Words
    BY <1>4, ZeroFields DEF IsEntry
  <2> DEFINE e0 == Entry(FALSE, PT0)
             e1 == Entry(FALSE, PT1)
  <2>3. dir = [i \in Index |-> IF i = 0 THEN e0 ELSE IF i = 1 THEN e1 ELSE ZERO]
    <3>1. ASSUME NEW i \in Index
          PROVE  (CASE i = 0 -> e0 [] i = 1 -> e1 [] OTHER -> ZERO)
                   = IF i = 0 THEN e0 ELSE IF i = 1 THEN e1 ELSE ZERO
      <4> HIDE DEF e0, e1
      <4> QED OBVIOUS
    <3> QED BY <3>1
  <2> HIDE DEF dir, e0, e1
  <2>4. e0 \in Words /\ e1 \in Words
    BY <2>2 DEF e0, e1
  <2>5. 0 \in Index /\ 1 \in Index
    BY Frames
  <2>6. dir \in [Index -> Words]
    BY <2>2, <2>3, <2>4
  <2>7. dir[0] = e0 /\ dir[1] = e1 /\ \A i \in 2 .. ENTRIES - 1 : dir[i] = ZERO
    BY <2>1, <2>3, <2>5
  <2> QED BY <2>6, <2>7 DEF e0, e1
<1>6. Identity(0, e) \in [Index -> Words] /\ Identity(1, e) \in [Index -> Words]
  <2>1. \A n \in Int : [e EXCEPT !.frame = n] \in Words
    BY <1>4 DEF IsEntry, Words
  <2>2. [e EXCEPT !.present = FALSE] \in Words
    BY <1>4 DEF IsEntry, Words
  <2>3. \A i \in Index : 0 * ENTRIES + i \in Int /\ 1 * ENTRIES + i \in Int
    BY DEF Index, Dims
  <2> HIDE DEF e
  <2> QED BY <2>1, <2>2, <2>3 DEF Identity
<1>7. Identity(0, e)[0].present = FALSE
  <2>1. Identity(0, e)[0] = [e EXCEPT !.present = FALSE]
    BY Frames DEF Identity
  <2>2. [e EXCEPT !.present = FALSE].present = FALSE
    BY DEF Entry, MemoryWord
  <2> QED BY <2>1, <2>2
<1>8. mm \in [0 .. N - 1 -> [Index -> Words]]
  <2>1. [i \in Index |-> JUNK] \in [Index -> Words]
    BY ZeroFields
  <2> HIDE DEF dir, e
  <2> QED BY <1>5, <1>6, <2>1
<1>9. mm[KDIR] = dir /\ mm[PT0] = Identity(0, e)
  <2> HIDE DEF dir, e
  <2> QED BY Frames
<1> HIDE DEF mm, dir, e
<1>10. Typed(x, N)
  BY <1>1, <1>3, <1>8 DEF Typed
<1>11. BaseOk(x, N, pl)
  <2>1. pl \in [0 .. N - 1 -> Int \X Int]
    OBVIOUS
  <2>2. 0 .. PT1 \in SUBSET (0 .. N - 1)
    BY Frames
  <2>3. \A i \in Index : i >= HEAP => i \in 2 .. ENTRIES - 1
    BY DEF Dims, HEAP, Index
  <2>4. \A i \in Index : i >= HEAP => dir[i].present = FALSE
    BY <1>5, <2>3, ZeroFields
  <2> QED BY <1>3, <1>5, <1>7, <1>9, <2>1, <2>2, <2>4 DEF BaseOk
<1>12. DirOk(x, pl) /\ TabOk(x, pl)
  BY <1>3, <1>5, <1>9, ZeroFields DEF DirOk, TabOk
<1>13. TlbOk(x)
  BY <1>3 DEF TlbOk
<1>14. Ok(x, N, pl)
  BY <1>10, <1>11, <1>12, <1>13 DEF Ok
<1> QED BY <1>1, <1>3, <1>14 DEF Good, x

-----------------------------------------------------------------------------
(* The heap over the tables.                                               *)

\* z is x with other words of the heap, none of which is present in the
\* directory or for page NULL.
HeapOver(x, z, N) ==
  /\ Typed(z, N) /\ z.used = x.used /\ z.tlb = x.tlb /\ z.fault = x.fault
  /\ \A i \in Index : i < HEAP => z.mem[KDIR][i] = x.mem[KDIR][i]
  /\ \A i \in Index : i >= HEAP => z.mem[KDIR][i].present = FALSE
  /\ z.mem[PT0][0].present = FALSE
  /\ \A g \in 0 .. N - 1 : g # KDIR /\ g # PT0 => z.mem[g] = x.mem[g]

LEMMA HeapFields ==
  ASSUME NEW odd \in BOOLEAN, NEW N \in Int, Dims(N)
  PROVE  HeapWord(odd) \in Words /\ HeapWord(odd).present = odd
<1>1. <<"heap">> \in Tags /\ KDIR \in Int
  BY Frames DEF Tags
<1> QED BY <1>1 DEF HeapWord, MemoryWord, Words

LEMMA HeapRows ==
  ASSUME NEW N \in Int, Dims(N), NEW x, Typed(x, N), NEW odd \in OddWords
  PROVE  HeapOver(x, HeapWritten(x, odd), N)
<1> DEFINE z == HeapWritten(x, odd)
           d == [i \in Index |-> IF i < HEAP THEN x.mem[KDIR][i] ELSE HeapWord(FALSE)]
           t == [i \in Index |-> IF i \in OVERLAID THEN HeapWord(i \in odd) ELSE x.mem[PT0][i]]
           y == [x EXCEPT !.mem[KDIR] = d]
<1>1. KDIR \in 0 .. N - 1 /\ PT0 \in 0 .. N - 1 /\ KDIR # PT0 /\ 0 \in Index
  BY Frames
<1>2. x.mem[KDIR] \in [Index -> Words] /\ x.mem[PT0] \in [Index -> Words]
  BY <1>1 DEF Typed
<1>3. \A b \in BOOLEAN : HeapWord(b) \in Words /\ HeapWord(b).present = b
  BY HeapFields
<1>4. d \in [Index -> Words] /\ \A i \in Index : i >= HEAP => d[i].present = FALSE
  <2>1. HeapWord(FALSE) \in Words /\ HeapWord(FALSE).present = FALSE
    BY <1>3
  <2>2. \A i \in Index : i >= HEAP => ~(i < HEAP)
    BY DEF Dims, HEAP, Index
  <2> QED BY <1>2, <2>1, <2>2
<1>5. t \in [Index -> Words] /\ t[0].present = FALSE
  <2>1. ASSUME NEW i \in Index PROVE HeapWord(i \in odd) \in Words
    <3>1. CASE i \in odd
      <4>1. (i \in odd) = TRUE
        BY <3>1
      <4> QED BY <1>3, <4>1
    <3>2. CASE i \notin odd
      <4>1. (i \in odd) = FALSE
        BY <3>2
      <4> QED BY <1>3, <4>1
    <3> QED BY <3>1, <3>2
  <2>2. t \in [Index -> Words]
    BY <1>2, <2>1
  <2>3. 0 \in OVERLAID /\ (0 \in odd) = FALSE
    BY VmmAssumption DEF OddWords
  <2>4. t[0] = HeapWord(FALSE)
    BY <1>1, <2>3
  <2> QED BY <1>3, <2>2, <2>4
<1>6. z = [y EXCEPT !.mem[PT0] = t]
  <2>1. y.mem[PT0] = x.mem[PT0]
    BY <1>1 DEF Typed
  <2> QED BY <2>1 DEF HeapWritten
<1>7. \A i \in Index : i < HEAP => d[i] = x.mem[KDIR][i]
  OBVIOUS
<1> HIDE DEF d, t, z
<1>8. Wrote(x, y, N, KDIR, d)
  BY <1>1, <1>4, RowWritten
<1> HIDE DEF y
<1>9. Wrote(y, z, N, PT0, t)
  BY <1>1, <1>5, <1>6, <1>8, RowWritten DEF Wrote
<1>10. z.mem[KDIR] = d /\ z.mem[PT0] = t
  BY <1>1, <1>8, <1>9 DEF Wrote
<1>11. \A g \in 0 .. N - 1 : g # KDIR /\ g # PT0 => z.mem[g] = x.mem[g]
  BY <1>8, <1>9 DEF Wrote
<1>12. Typed(z, N) /\ z.used = x.used /\ z.tlb = x.tlb /\ z.fault = x.fault
  BY <1>8, <1>9 DEF Wrote
<1> QED BY <1>4, <1>5, <1>7, <1>10, <1>11, <1>12 DEF HeapOver, z

\* The words of the heap are not of the kernel's tables: writing them changes no
\* page and no frame in use.
LEMMA HeapStep ==
  ASSUME NEW N \in Int, Dims(N), NEW x, Good(x, N), ~x.fault, NEW z, HeapOver(x, z, N)
  PROVE  Step(x, z, N, {}, {})
<1>1. PICK pl : Ok(x, N, pl)
  BY DEF Good
<1>2. /\ KDIR \in 0 .. N - 1 /\ PT0 \in 0 .. N - 1 /\ KDIR < PT1 /\ PT0 < PT1 /\ PT1 \in Int
      /\ KDIR \in Int /\ PT0 \in Int
  BY Frames
<1>3. Typed(z, N) /\ z.used = x.used /\ z.tlb = x.tlb /\ z.fault = FALSE
  BY <1>1 DEF HeapOver, Ok, Typed
<1>4. ASSUME NEW i \in 2 .. ENTRIES - 1
      PROVE  /\ z.mem[KDIR][i] = x.mem[KDIR][i] \/ (~Has(x, i) /\ ~Has(z, i))
             /\ Has(z, i) = Has(x, i) /\ (Has(x, i) => Tab(z, i) = Tab(x, i))
  <2>1. i \in Index /\ (i < HEAP \/ i >= HEAP)
    BY DEF Dims, HEAP, Index
  <2>2. CASE i < HEAP
    BY <2>1, <2>2 DEF HeapOver, Has, Tab
  <2>3. CASE i >= HEAP
    <3>1. x.mem[KDIR][i].present = FALSE /\ z.mem[KDIR][i].present = FALSE
      BY <1>1, <2>1, <2>3 DEF HeapOver, Ok, BaseOk
    <3> QED BY <3>1 DEF Has, Tab
  <2> QED BY <2>1, <2>2, <2>3
<1>5. ASSUME NEW f \in 0 .. N - 1, f > PT1 PROVE z.mem[f] = x.mem[f]
  <2>1. f # KDIR /\ f # PT0
    BY <1>2, <1>5
  <2> QED BY <2>1 DEF HeapOver
<1>6. ASSUME NEW i \in 2 .. ENTRIES - 1, Has(x, i)
      PROVE  /\ Tab(x, i) \in 0 .. N - 1 /\ Tab(x, i) > PT1
             /\ z.mem[Tab(x, i)] = x.mem[Tab(x, i)]
  <2>1. Tab(x, i) \in 0 .. N - 1 /\ Tab(x, i) > PT1
    BY <1>1, <1>6 DEF Ok, BaseOk, DirOk, Ref, Has, Tab
  <2> QED BY <1>5, <2>1
<1>7. ASSUME NEW q \in KPages PROVE Walk(z, KDIR, q) = Walk(x, KDIR, q)
  <2>1. q[1] \in 2 .. ENTRIES - 1
    BY KPage
  <2>2. DOMAIN z.mem = DOMAIN x.mem
    BY <1>1, <1>3 DEF Ok, Typed
  <2>3. CASE Has(x, q[1])
    <3>1. Has(z, q[1]) /\ Tab(z, q[1]) = Tab(x, q[1]) /\ z.mem[Tab(x, q[1])] = x.mem[Tab(x, q[1])]
      BY <1>4, <1>6, <2>1, <2>3
    <3> QED BY <2>2, <2>3, <3>1 DEF Walk, Leaf, Has, Tab
  <2>4. CASE ~Has(x, q[1])
    <3>1. ~Has(z, q[1])
      BY <1>4, <2>1, <2>4
    <3> QED BY <2>4, <3>1 DEF Walk, Leaf, Has
  <2> QED BY <2>3, <2>4
<1>8. BaseOk(z, N, pl)
  <2>1. /\ pl \in [0 .. N - 1 -> Int \X Int]
        /\ x.used \in SUBSET (0 .. N - 1) /\ 0 .. PT1 \subseteq x.used
        /\ x.mem[KDIR][0] = Entry(FALSE, PT0) /\ x.mem[KDIR][1] = Entry(FALSE, PT1)
    BY <1>1 DEF Ok, BaseOk
  <2>2. 0 \in Index /\ 1 \in Index /\ 0 < HEAP /\ 1 < HEAP
    BY DEF Dims, HEAP, Index
  <2>3. z.mem[KDIR][0] = x.mem[KDIR][0] /\ z.mem[KDIR][1] = x.mem[KDIR][1]
    BY <2>2 DEF HeapOver
  <2>4. /\ z.mem[PT0][0].present = FALSE
        /\ \A i \in Index : i >= HEAP => z.mem[KDIR][i].present = FALSE
    BY DEF HeapOver
  <2> QED BY <1>3, <2>1, <2>3, <2>4 DEF BaseOk
<1>9. DirOk(z, pl)
  <2> SUFFICES ASSUME NEW i \in 2 .. ENTRIES - 1, z.mem[KDIR][i].present
               PROVE  Ref(z, pl, z.mem[KDIR][i], <<i, None>>)
    BY DEF DirOk
  <2>1. z.mem[KDIR][i] = x.mem[KDIR][i]
    BY <1>4 DEF Has
  <2>2. Ref(x, pl, x.mem[KDIR][i], <<i, None>>)
    BY <1>1, <2>1 DEF Ok, DirOk
  <2> QED BY <1>3, <2>1, <2>2 DEF Ref
<1>10. TabOk(z, pl)
  <2> SUFFICES ASSUME NEW i \in 2 .. ENTRIES - 1, NEW j \in Index,
                      z.mem[KDIR][i].present, z.mem[z.mem[KDIR][i].frame][j].present
               PROVE  Ref(z, pl, z.mem[z.mem[KDIR][i].frame][j], <<i, j>>)
    BY DEF TabOk
  <2>1. Has(x, i) /\ z.mem[KDIR][i].frame = Tab(x, i)
    BY <1>4 DEF Has, Tab
  <2>2. z.mem[Tab(x, i)] = x.mem[Tab(x, i)]
    BY <1>6, <2>1
  <2>3. Ref(x, pl, x.mem[Tab(x, i)][j], <<i, j>>)
    BY <1>1, <2>1, <2>2 DEF Ok, TabOk, Has, Tab
  <2> QED BY <1>3, <2>1, <2>2, <2>3 DEF Ref
<1>11. TlbOk(z)
  BY <1>1, <1>3, <1>7 DEF Ok, TlbOk
<1>12. Good(z, N)
  BY <1>3, <1>8, <1>9, <1>10, <1>11 DEF Ok, Good
<1>13. ASSUME NEW f, Plain(x, f) PROVE Plain(z, f) /\ z.mem[f] = x.mem[f]
  <2>1. f \in 0 .. N - 1 /\ f > PT1
    BY <1>1, <1>13 DEF Plain, Ok, BaseOk
  <2>2. z.mem[f] = x.mem[f]
    BY <1>5, <2>1
  <2>3. Plain(z, f)
    BY <1>3, <1>4, <1>13 DEF Plain
  <2> QED BY <2>2, <2>3
<1>14. ASSUME NEW f, Loose(x, f) PROVE Loose(z, f)
  BY <1>7, <1>13, <1>14 DEF Loose
<1> QED BY <1>3, <1>7, <1>12, <1>13, <1>14 DEF Step

\* kmalloc_init: one word of the heap is present in the directory.
HeapBegun(x, k, N) ==
  /\ Typed(k, N) /\ k.used = x.used /\ k.tlb = x.tlb /\ k.fault = x.fault
  /\ \A i \in Index : i < HEAP => k.mem[KDIR][i] = x.mem[KDIR][i]
  /\ k.mem[KDIR][HEAP + 1].present = TRUE
  /\ \A g \in 0 .. N - 1 : g # KDIR => k.mem[g] = x.mem[g]

LEMMA KmallocIs ==
  ASSUME NEW N \in Int, Dims(N), NEW x, Typed(x, N)
  PROVE  HeapBegun(x, KmallocInit(x), N)
<1> DEFINE d == [i \in Index |-> IF i < HEAP \/ i = HEAP + 3 THEN x.mem[KDIR][i]
                                 ELSE HeapWord(i # HEAP + 2)]
           k == [x EXCEPT !.mem[KDIR] = d]
<1>1. KDIR \in 0 .. N - 1
  BY Frames
<1>2. x.mem[KDIR] \in [Index -> Words]
  BY <1>1 DEF Typed
<1>3. \A b \in BOOLEAN : HeapWord(b) \in Words /\ HeapWord(b).present = b
  BY HeapFields
<1>4. \A i \in Index : HeapWord(i # HEAP + 2) \in Words
  BY <1>3
<1>5. d \in [Index -> Words] /\ \A i \in Index : i < HEAP => d[i] = x.mem[KDIR][i]
  BY <1>2, <1>4
<1>6. d[HEAP + 1].present = TRUE
  <2>1. /\ HEAP + 1 \in Index /\ ~(HEAP + 1 < HEAP) /\ HEAP + 1 # HEAP + 3
        /\ (HEAP + 1 # HEAP + 2) = TRUE
    BY DEF Dims, HEAP, Index
  <2>2. d[HEAP + 1] = HeapWord(TRUE)
    BY <2>1
  <2> QED BY <1>3, <2>2
<1>7. k = KmallocInit(x)
  BY DEF KmallocInit
<1> HIDE DEF d
<1>8. Wrote(x, k, N, KDIR, d)
  BY <1>1, <1>5, RowWritten
<1> HIDE DEF k
<1> QED BY <1>1, <1>5, <1>6, <1>7, <1>8 DEF Wrote, HeapBegun

\* The lists of the scheduler take the header away again.
LEMMA ListsGood ==
  ASSUME NEW N \in Int, Dims(N), NEW odd \in OddWords
  PROVE  Good(HeapWritten(KmallocInit(PagingInit(N)), odd), N)
<1> DEFINE x == PagingInit(N)
           k == KmallocInit(x)
           z == HeapWritten(k, odd)
<1>1. Good(x, N) /\ x.fault = FALSE
  BY StartGood
<1>2. Typed(x, N)
  BY <1>1 DEF Good, Ok
<1> HIDE DEF x
<1>3. HeapBegun(x, k, N)
  BY <1>2, KmallocIs
<1> HIDE DEF k
<1>4. HeapOver(k, z, N)
  BY <1>3, HeapRows DEF HeapBegun
<1> HIDE DEF z
<1>5. HeapOver(x, z, N)
  BY <1>3, <1>4 DEF HeapBegun, HeapOver
<1>6. Step(x, z, N, {}, {})
  BY <1>1, <1>5, HeapStep
<1> QED BY <1>6 DEF Step, x, k, z

LEMMA InitListsStep ==
  ASSUME VmmInit, InitLists
  PROVE  \E N \in MEMORIES : InvOf(machine', pcb', pages', N)
<1>1. PICK N \in MEMORIES : machine = KmallocInit(PagingInit(N))
  BY DEF VmmInit
<1>2. PICK odd \in OddWords : machine' = HeapWritten(machine, odd)
  BY DEF InitLists
<1>3. Dims(N) /\ N \in Int
  BY DimsHold DEF Dims
<1>4. Good(machine', N)
  BY <1>1, <1>2, <1>3, ListsGood
<1>5. pcb' = pcb /\ pages' = pages /\ \A p \in Procs : pcb[p].state = "none"
  BY DEF VmmInit, InitLists
<1>6. PcbType(pcb) /\ SpacesOk(machine', pcb)
  BY <1>5 DEF VmmInit, PcbType, SpacesOk
<1>7. HeldOk(machine', pages)
  BY DEF VmmInit, HeldOk
<1>8. FailedLast(machine', pcb) /\ InOrder(pcb)
  BY <1>5 DEF FailedLast, InOrder, Procs
<1>9. InvOf(machine', pcb, pages, N)
  BY <1>4, <1>6, <1>7, <1>8 DEF InvOf
<1> QED BY <1>5, <1>9

\* Nothing else happens before the first kmalloc.
LEMMA InitSteps ==
  ASSUME VmmInit
  PROVE  ~Booted /\ ([VmmNext]_vmmVars => InitLists \/ UNCHANGED vmmVars)
<1>1. PICK N \in MEMORIES : machine = KmallocInit(PagingInit(N))
  BY DEF VmmInit
<1>2. Dims(N) /\ N \in Int
  BY DimsHold DEF Dims
<1>3. Typed(PagingInit(N), N)
  BY <1>2, StartGood DEF Good, Ok
<1>4. ~Booted
  BY <1>1, <1>2, <1>3, KmallocIs DEF HeapBegun, Booted
<1>5. ~running
  BY DEF VmmInit
<1> QED BY <1>4, <1>5
        DEF VmmNext, CreatePcb, Schedule, GetNewPage, FreePage, EnableInterrupts, RunProcess

LEMMA InvBooted ==
  ASSUME NEW N \in MEMORIES, InvOf(machine, pcb, pages, N)
  PROVE  Booted
<1>1. Dims(N) /\ N \in Int
  BY DimsHold DEF Dims
<1>2. HEAP + 1 \in Index /\ HEAP + 1 >= HEAP
  BY <1>1 DEF Dims, HEAP, Index
<1>3. machine.mem[KDIR][HEAP + 1].present = FALSE
  BY <1>2 DEF InvOf, Good, Ok, BaseOk
<1> QED BY <1>3 DEF Booted

LEMMA HeapKeeps ==
  ASSUME NEW N \in Int, Dims(N), NEW x, Good(x, N), ~x.fault, NEW odd \in OddWords
  PROVE  Keeps(x, HeapWritten(x, odd), N) /\ HeapWritten(x, odd).fault = x.fault
<1> DEFINE z == HeapWritten(x, odd)
<1>1. Typed(x, N)
  BY DEF Good, Ok
<1>2. HeapOver(x, z, N)
  BY <1>1, HeapRows
<1> HIDE DEF z
<1>3. Step(x, z, N, {}, {})
  BY <1>2, HeapStep
<1>4. Keeps(x, z, N)
  BY <1>3, StepKeeps
<1> QED BY <1>2, <1>4 DEF HeapOver, z

\* The scheduler, writing to the heap, keeps all that was there.
LEMMA ScheduleStep ==
  ASSUME NEW N \in MEMORIES, InvOf(machine, pcb, pages, N), Schedule
  PROVE  /\ InvOf(machine', pcb, pages, N) /\ Keeps(machine, machine', N)
         /\ pcb' = pcb /\ pages' = pages
<1>1. Dims(N) /\ N \in Int
  BY DimsHold DEF Dims
<1>2. PICK odd \in OddWords : machine' = HeapWritten(machine, odd)
  BY DEF Schedule
<1>3. ~machine.fault /\ pcb' = pcb /\ pages' = pages
  BY DEF Schedule
<1>4. Keeps(machine, machine', N)
  BY <1>1, <1>2, <1>3, HeapKeeps DEF InvOf
<1>5. InvOf(machine', pcb, pages, N)
  BY <1>4, KeepsInv
<1> QED BY <1>3, <1>4, <1>5

-----------------------------------------------------------------------------
(* Telling the frames of a space by what is in them.                       *)

\* The words of the frames of a space.
SpaceWords(x, p, d, t, c, s) ==
  /\ x.mem[d][0].tag = <<"entry">> /\ x.mem[d][0].user = FALSE
  /\ x.mem[d][1] = Entry(FALSE, PT1) /\ x.mem[d][0] = Entry(FALSE, PT0)
  /\ x.mem[d][USER_DIR] = Entry(TRUE, t)
  /\ \A i \in 2 .. ENTRIES - 1 : i # USER_DIR => x.mem[d][i] = ZERO
  /\ x.mem[t][0].tag = <<"entry">> /\ x.mem[t][0].user = TRUE
  /\ x.mem[t][0] = Entry(TRUE, c) /\ x.mem[t][1] = Entry(TRUE, s)
  /\ \A i \in Index : i # 0 /\ i # 1 => x.mem[t][i] = ZERO
  /\ x.mem[c][0].tag = <<"code", p>> /\ x.mem[s][0].tag \in {<<"stack", p>>, <<"used", p>>}
  /\ \A i \in Index : x.mem[c][i] = x.mem[c][0] /\ x.mem[s][i] = x.mem[s][0]

LEMMA SpaceIs ==
  ASSUME NEW N \in Int, NEW x, Good(x, N), Dims(N), NEW p, NEW d, NEW t, NEW c, NEW s,
         SpaceAt(x, p, d, t, c, s)
  PROVE  SpaceWords(x, p, d, t, c, s)
<1> DEFINE e0 == Entry(FALSE, PT0)
           et == Entry(TRUE, t)
           ec == Entry(TRUE, c)
           es == Entry(TRUE, s)
<1>0. 0 \in Index /\ 1 \in Index /\ USER_DIR \in Index /\ USER_DIR # 0 /\ USER_DIR # 1
  BY CodePage
<1>1. e0.tag = <<"entry">> /\ e0.user = FALSE /\ ec.tag = <<"entry">> /\ ec.user = TRUE
  BY DEF Entry, MemoryWord
<1>2. x.mem[d] = SpaceDir(TRUE, t) /\ x.mem[t] = FullTab(TRUE, c, s)
  BY DEF SpaceAt
<1>3. /\ SpaceDir(TRUE, t)[0] = e0 /\ SpaceDir(TRUE, t)[1] = Entry(FALSE, PT1)
      /\ SpaceDir(TRUE, t)[USER_DIR] = et
      /\ \A i \in Index : i # 0 /\ i # 1 /\ i # USER_DIR => SpaceDir(TRUE, t)[i] = ZERO
  <2>1. PICK u : u = TRUE
    OBVIOUS
  <2>2. DirWordsAre(u, t)
    BY DirWords
  <2> QED BY <2>1, <2>2 DEF DirWordsAre
<1>4. \A i \in 2 .. ENTRIES - 1 : i \in Index /\ i # 0 /\ i # 1
  BY DEF Index
<1>5. /\ FullTab(TRUE, c, s)[0] = ec /\ FullTab(TRUE, c, s)[1] = es
      /\ \A i \in Index : i # 0 /\ i # 1 => FullTab(TRUE, c, s)[i] = ZERO
  <2> DEFINE A == Row(ZERO)
             B == [A EXCEPT ![0] = ec]
             C == [B EXCEPT ![1] = es]
  <2>1. FullTab(TRUE, c, s) = C
    BY DEF FullTab, SpaceTab
  <2>2. DOMAIN A = Index /\ \A i \in Index : A[i] = ZERO
    BY DEF Row
  <2> HIDE DEF A, ec, es
  <2>3. DOMAIN B = Index /\ B[0] = ec /\ \A i \in Index : i # 0 => B[i] = ZERO
    BY <1>0, <2>2
  <2> HIDE DEF B
  <2>4. C[1] = es /\ \A i \in Index : i # 1 => C[i] = B[i]
    BY <1>0, <2>3
  <2> HIDE DEF C
  <2>5. C[0] = ec /\ C[1] = es /\ \A i \in Index : i # 0 /\ i # 1 => C[i] = ZERO
    BY <1>0, <2>3, <2>4
  <2> QED BY <2>1, <2>5
<1>6. /\ x.mem[c][0].tag = <<"code", p>> /\ \A i \in Index : x.mem[c][i] = x.mem[c][0]
  <2>1. x.mem[c] = Row(Data(<<"code", p>>))
    BY DEF SpaceAt
  <2>2. Data(<<"code", p>>).tag = <<"code", p>>
    BY DEF Data, MemoryWord
  <2> QED BY <1>0, <2>1, <2>2 DEF Row
<1>7. /\ x.mem[s][0].tag \in {<<"stack", p>>, <<"used", p>>}
      /\ \A i \in Index : x.mem[s][i] = x.mem[s][0]
  <2>1. PICK k \in {"stack", "used"} : x.mem[s] = Row(Data(<<k, p>>))
    BY DEF SpaceAt
  <2>2. Data(<<k, p>>).tag = <<k, p>>
    BY DEF Data, MemoryWord
  <2> QED BY <1>0, <2>1, <2>2 DEF Row
<1> QED BY <1>1, <1>2, <1>3, <1>4, <1>5, <1>6, <1>7 DEF SpaceWords

\* A frame of the space.
InSpace(f, d, t, c, s) == f = d \/ f = t \/ f = c \/ f = s

\* The frames of a space are four, and two spaces share none.
FourFrames(d, t, c, s) == d # t /\ d # c /\ d # s /\ t # c /\ t # s /\ c # s

LEMMA SpaceFrames ==
  ASSUME NEW N \in Int, NEW x, Good(x, N), Dims(N), NEW p, NEW d, NEW t, NEW c, NEW s,
         SpaceAt(x, p, d, t, c, s)
  PROVE  FourFrames(d, t, c, s)
<1>1. SpaceWords(x, p, d, t, c, s)
  BY SpaceIs
<1>2. /\ <<"entry">>[1] = "entry" /\ <<"code", p>>[1] = "code" /\ <<"stack", p>>[1] = "stack"
      /\ <<"used", p>>[1] = "used"
  OBVIOUS
<1>3. x.mem[d][0].tag[1] = "entry" /\ x.mem[t][0].tag[1] = "entry" /\ x.mem[c][0].tag[1] = "code"
  BY <1>1, <1>2 DEF SpaceWords
<1>4. x.mem[s][0].tag[1] \in {"stack", "used"} /\ x.mem[d][0].user # x.mem[t][0].user
  BY <1>1, <1>2 DEF SpaceWords
<1> QED BY <1>3, <1>4 DEF FourFrames

LEMMA SpacesApart ==
  ASSUME NEW N \in Int, NEW x, Good(x, N), Dims(N), NEW p, NEW d, NEW t, NEW c, NEW s,
         SpaceAt(x, p, d, t, c, s),
         NEW pp, NEW dd, NEW tt, NEW cc, NEW ss, SpaceAt(x, pp, dd, tt, cc, ss), p # pp
  PROVE  \A f : InSpace(f, d, t, c, s) => ~InSpace(f, dd, tt, cc, ss)
<1>1. SpaceWords(x, p, d, t, c, s) /\ SpaceWords(x, pp, dd, tt, cc, ss)
  BY SpaceIs
<1>2. /\ <<"entry">>[1] = "entry" /\ <<"code", p>>[1] = "code" /\ <<"stack", p>>[1] = "stack"
      /\ <<"used", p>>[1] = "used" /\ <<"code", pp>>[1] = "code" /\ <<"stack", pp>>[1] = "stack"
      /\ <<"used", pp>>[1] = "used"
      /\ <<"code", p>>[2] = p /\ <<"stack", p>>[2] = p
      /\ <<"used", p>>[2] = p /\ <<"code", pp>>[2] = pp /\ <<"stack", pp>>[2] = pp
      /\ <<"used", pp>>[2] = pp
  OBVIOUS
<1>3. c # cc /\ s # ss /\ c # ss /\ s # cc
  BY <1>1, <1>2 DEF SpaceWords
<1>4. t # tt
  <2>1. Entry(TRUE, c).frame = c /\ Entry(TRUE, cc).frame = cc
    BY DEF Entry, MemoryWord
  <2>2. x.mem[t][0] = Entry(TRUE, c) /\ x.mem[tt][0] = Entry(TRUE, cc)
    BY <1>1 DEF SpaceWords
  <2> QED BY <1>3, <2>1, <2>2
<1>5. d # dd
  <2>1. Entry(TRUE, t).frame = t /\ Entry(TRUE, tt).frame = tt
    BY DEF Entry, MemoryWord
  <2>2. x.mem[d][USER_DIR] = Entry(TRUE, t) /\ x.mem[dd][USER_DIR] = Entry(TRUE, tt)
    BY <1>1 DEF SpaceWords
  <2> QED BY <1>4, <2>1, <2>2
<1>6. d # tt /\ t # dd
  BY <1>1 DEF SpaceWords
<1>7. /\ x.mem[d][0].tag[1] = "entry" /\ x.mem[dd][0].tag[1] = "entry"
      /\ x.mem[t][0].tag[1] = "entry" /\ x.mem[tt][0].tag[1] = "entry"
  BY <1>1, <1>2 DEF SpaceWords
<1>8. /\ x.mem[c][0].tag[1] # "entry" /\ x.mem[cc][0].tag[1] # "entry"
  BY <1>1, <1>2 DEF SpaceWords
<1>9. /\ x.mem[s][0].tag[1] # "entry" /\ x.mem[ss][0].tag[1] # "entry"
  BY <1>1, <1>2 DEF SpaceWords
<1>10. /\ d # cc /\ d # ss /\ t # cc /\ t # ss
       /\ c # dd /\ s # dd /\ c # tt /\ s # tt
  BY <1>7, <1>8, <1>9
<1> QED BY <1>3, <1>4, <1>5, <1>6, <1>10 DEF InSpace

\* Nor is the page of a caller in a directory or a table.
LEMMA HeldApart ==
  ASSUME NEW N \in Int, NEW x, Good(x, N), Dims(N), NEW p, NEW d, NEW t, NEW c, NEW s,
         SpaceAt(x, p, d, t, c, s), NEW f, NEW k, x.mem[f] = Row(Data(<<"kernel", k>>))
  PROVE  f # d /\ f # t
<1>1. SpaceWords(x, p, d, t, c, s)
  BY SpaceIs
<1>2. 0 \in Index
  BY Frames
<1>3. Data(<<"kernel", k>>).tag = <<"kernel", k>> /\ <<"kernel", k>>[1] = "kernel"
  BY DEF Data, MemoryWord
<1>4. x.mem[f][0].tag[1] = "kernel"
  BY <1>2, <1>3 DEF Row
<1>5. <<"entry">>[1] = "entry"
  OBVIOUS
<1> QED BY <1>1, <1>4, <1>5 DEF SpaceWords

\* The pages of a space: its program and its stack.
SpacePages(x, d, c, s) ==
  /\ Walk(x, d, CODE) = c /\ Walk(x, d, STACK) = s
  /\ \A q \in KPages : q # CODE /\ q # STACK => Walk(x, d, q) = None

LEMMA SpaceWalks ==
  ASSUME NEW N \in Int, NEW x, Good(x, N), Dims(N), NEW p, NEW d, NEW t, NEW c, NEW s,
         SpaceAt(x, p, d, t, c, s)
  PROVE  SpacePages(x, d, c, s)
<1>1. SpaceWords(x, p, d, t, c, s)
  BY SpaceIs
<1>2. PICK r : Mapped(x, r, t)
  BY DEF SpaceAt
<1>3. t \in 0 .. N - 1 /\ DOMAIN x.mem = 0 .. N - 1
  BY <1>2, MappedPlain, GoodFields DEF Typed
<1>4. /\ Entry(TRUE, t).present /\ Entry(TRUE, t).frame = t
      /\ Entry(TRUE, c).present /\ Entry(TRUE, c).frame = c
      /\ Entry(TRUE, s).present /\ Entry(TRUE, s).frame = s
      /\ ~ZERO.present
  BY DEF Entry, ZERO, MemoryWord
<1> DEFINE et == Entry(TRUE, t)
           ec == Entry(TRUE, c)
           es == Entry(TRUE, s)
<1>5. x.mem[d][USER_DIR] = et /\ x.mem[t][0] = ec /\ x.mem[t][1] = es
  BY <1>1 DEF SpaceWords
<1>6. Walk(x, d, CODE) = c /\ Walk(x, d, STACK) = s
  <2>1. CODE[1] = USER_DIR /\ CODE[2] = 0 /\ STACK[1] = USER_DIR /\ STACK[2] = 1
    BY CodePage
  <2>2. Walk(x, d, CODE) = Leaf(x, et, 0) /\ Walk(x, d, STACK) = Leaf(x, et, 1)
    BY <1>5, <2>1 DEF Walk
  <2> HIDE DEF et, ec, es
  <2>3. /\ et.present /\ et.frame = t /\ ec.present /\ ec.frame = c /\ es.present /\ es.frame = s
    BY <1>4 DEF et, ec, es
  <2> QED BY <1>3, <1>5, <2>2, <2>3 DEF Leaf
<1>7. ASSUME NEW q \in KPages, q # CODE, q # STACK PROVE Walk(x, d, q) = None
  <2>1. q = <<q[1], q[2]>> /\ q[1] \in 2 .. ENTRIES - 1 /\ q[2] \in Index
    BY KPage
  <2>2. q[1] = USER_DIR => q[2] # 0 /\ q[2] # 1
    BY <1>7, <2>1 DEF CODE, STACK
  <2>3. q[1] # USER_DIR => x.mem[d][q[1]] = ZERO
    BY <1>1, <2>1 DEF SpaceWords
  <2>4. q[1] = USER_DIR => x.mem[d][q[1]] = Entry(TRUE, t) /\ x.mem[t][q[2]] = ZERO
    BY <1>1, <2>1, <2>2 DEF SpaceWords
  <2> QED BY <1>4, <2>3, <2>4 DEF Walk, Leaf
<1> QED BY <1>6, <1>7 DEF SpacePages

-----------------------------------------------------------------------------
(* The actions.                                                            *)

Status(state, dir) == [state |-> state, dir |-> dir]

\* Process p gets its address space, with directory d.
Created(z, pc, p, d) ==
  /\ p \in Procs /\ d \in Int /\ pc[p].state = "none"
  /\ \E t, c, s : SpaceAt(z, p, d, t, c, s) /\ z.mem[s] = Row(Data(<<"stack", p>>))

\* What CreatePcb makes of the table of processes.
Creation(z, pc, pc2) ==
  \/ pc2 = pc
  \/ \E p \in Procs : pc[p].state = "none" /\ pc2 = [pc EXCEPT ![p] = Status("failed", 0)]
  \/ \E p, d : Created(z, pc, p, d) /\ pc2 = [pc EXCEPT ![p] = Status("ready", d)]

\* The next process to be created.
NextIs(pc, i) ==
  /\ i \in DOMAIN BOOT /\ pc[BOOT[i]].state = "none"
  /\ \A j \in 1 .. i - 1 : pc[BOOT[j]].state # "none"

LEMMA BootOrder ==
  /\ \A i \in DOMAIN BOOT : i \in Int /\ i >= 1 /\ BOOT[i] \in Procs
  /\ \A i, j \in DOMAIN BOOT : j < i => j \in 1 .. i - 1
  /\ \A i, j \in DOMAIN BOOT : BOOT[i] = BOOT[j] => i = j
  /\ \A p \in Procs : \E i \in DOMAIN BOOT : BOOT[i] = p
  /\ DOMAIN BOOT = 1 .. Len(BOOT) /\ Len(BOOT) \in Nat
<1>1. BOOT \in Seq(Procs) /\ \A i, j \in DOMAIN BOOT : BOOT[i] = BOOT[j] => i = j
  BY VmmAssumption
<1>2. DOMAIN BOOT = 1 .. Len(BOOT) /\ Len(BOOT) \in Nat
  BY <1>1
<1>3. \A p \in Procs : \E i \in DOMAIN BOOT : BOOT[i] = p
  BY DEF Procs
<1>4. \A i \in DOMAIN BOOT : BOOT[i] \in Procs
  BY DEF Procs
<1> QED BY <1>1, <1>2, <1>3, <1>4

\* A process whose creation is over has a place in the table, in order.
Becomes(pc, pc2, i, st, d) == pc2 = [pc EXCEPT ![BOOT[i]] = Status(st, d)]

OrderKept(pc, pc2, i, st, d) ==
  /\ InOrder(pc2) /\ \A j \in DOMAIN BOOT : j > i => pc2[BOOT[j]].state = "none"
  /\ pc2[BOOT[i]] = Status(st, d) /\ \A q \in Procs : q # BOOT[i] => pc2[q] = pc[q]

LEMMA OrderStays ==
  ASSUME NEW pc, PcbType(pc), InOrder(pc), NEW i, NextIs(pc, i), NEW st, NEW d,
         NEW pc2, Becomes(pc, pc2, i, st, d), st # "none"
  PROVE  OrderKept(pc, pc2, i, st, d)
<1>1. BOOT[i] \in Procs /\ i \in DOMAIN BOOT
  BY BootOrder DEF NextIs
<1>2. pc2[BOOT[i]] = Status(st, d) /\ \A q \in Procs : q # BOOT[i] => pc2[q] = pc[q]
  BY <1>1 DEF PcbType, Becomes
<1>3. Status(st, d).state = st
  BY DEF Status
<1>4. ASSUME NEW j \in DOMAIN BOOT, j > i PROVE pc[BOOT[j]].state = "none" /\ pc2[BOOT[j]].state = "none"
  <2>1. BOOT[j] # BOOT[i] /\ BOOT[j] \in Procs /\ i < j
    BY <1>1, <1>4, BootOrder
  <2>2. pc[BOOT[j]].state = "none"
    BY <1>1, <2>1 DEF InOrder, NextIs
  <2> QED BY <1>2, <2>1, <2>2
<1>5. InOrder(pc2)
  <2> SUFFICES ASSUME NEW k \in DOMAIN BOOT, NEW j \in DOMAIN BOOT, j < k, pc2[BOOT[k]].state # "none"
               PROVE  pc2[BOOT[j]].state # "none"
    BY DEF InOrder
  <2>0. i \in Int /\ j \in Int /\ k \in Int /\ BOOT[j] \in Procs /\ BOOT[k] \in Procs
    BY <1>1, BootOrder
  <2>1. ~(k > i)
    BY <1>4
  <2>2. j < i /\ j \in 1 .. i - 1
    BY <1>1, <2>0, <2>1, BootOrder
  <2>3. pc[BOOT[j]].state # "none"
    BY <2>2 DEF NextIs
  <2>4. BOOT[j] # BOOT[i]
    BY <1>1, <2>0, <2>2, BootOrder
  <2> QED BY <1>2, <2>0, <2>3, <2>4
<1> QED BY <1>2, <1>4, <1>5 DEF OrderKept

\* No creation has failed as long as there is memory.
LEMMA ReadyInv ==
  ASSUME NEW N \in Int, NEW x, NEW z, NEW pc, NEW pg, NEW i, NEW d, NEW pc2, Keeps(x, z, N),
         InvOf(x, pc, pg, N), FreeFrames(x) # {}, NextIs(pc, i), Created(z, pc, BOOT[i], d),
         pc2 = [pc EXCEPT ![BOOT[i]] = Status("ready", d)]
  PROVE  InvOf(z, pc2, pg, N)
<1> DEFINE p == BOOT[i]
<1>1. InvOf(z, pc, pg, N)
  BY KeepsInv
<1>2. p \in Procs /\ i \in DOMAIN BOOT
  BY BootOrder DEF NextIs
<1>3. /\ InOrder(pc2) /\ pc2[p] = Status("ready", d) /\ \A q \in Procs : q # p => pc2[q] = pc[q]
  <2>1. PICK st : st = "ready"
    OBVIOUS
  <2>2. Becomes(pc, pc2, i, st, d) /\ st # "none" /\ PcbType(pc) /\ InOrder(pc)
    BY <2>1 DEF InvOf, Becomes
  <2>3. OrderKept(pc, pc2, i, st, d)
    BY <2>2, OrderStays
  <2> QED BY <2>1, <2>3 DEF OrderKept
<1>4. Status("ready", d).state = "ready" /\ Status("ready", d).dir = d
  BY DEF Status
<1>5. PcbType(pc2)
  <2>1. Status("ready", d) \in [state : {"none", "failed", "ready"}, dir : Int]
    BY DEF Status, Created
  <2> QED BY <1>2, <2>1 DEF InvOf, PcbType
<1>6. SpacesOk(z, pc2)
  <2> SUFFICES ASSUME NEW q \in Procs, pc2[q].state = "ready"
               PROVE  \E t, c, s : SpaceAt(z, q, pc2[q].dir, t, c, s)
    BY DEF SpacesOk
  <2>1. CASE q = p
    BY <1>3, <1>4, <2>1 DEF Created
  <2>2. CASE q # p
    BY <1>1, <1>3, <2>2 DEF InvOf, SpacesOk
  <2> QED BY <2>1, <2>2
<1>7. FailedLast(z, pc2)
  <2>1. \A j \in DOMAIN BOOT : pc[BOOT[j]].state # "failed"
    BY DEF InvOf, FailedLast
  <2>2. \A j \in DOMAIN BOOT : pc2[BOOT[j]].state # "failed"
    BY <1>3, <1>4, <2>1, BootOrder
  <2> QED BY <2>2 DEF FailedLast
<1> QED BY <1>1, <1>3, <1>5, <1>6, <1>7 DEF InvOf

LEMMA FailedInv ==
  ASSUME NEW N \in Int, NEW x, NEW z, NEW pc, NEW pg, NEW i, NEW pc2, Keeps(x, z, N),
         InvOf(x, pc, pg, N), FreeFrames(x) # {}, FreeFrames(z) = {}, NextIs(pc, i),
         pc2 = [pc EXCEPT ![BOOT[i]] = Status("failed", 0)]
  PROVE  InvOf(z, pc2, pg, N)
<1> DEFINE p == BOOT[i]
<1>1. InvOf(z, pc, pg, N)
  BY KeepsInv
<1>2. p \in Procs /\ i \in DOMAIN BOOT
  BY BootOrder DEF NextIs
<1>3. /\ InOrder(pc2) /\ pc2[p] = Status("failed", 0) /\ \A q \in Procs : q # p => pc2[q] = pc[q]
      /\ \A j \in DOMAIN BOOT : j > i => pc2[BOOT[j]].state = "none"
  <2>1. PICK st, d : st = "failed" /\ d = 0
    OBVIOUS
  <2>2. Becomes(pc, pc2, i, st, d) /\ st # "none" /\ PcbType(pc) /\ InOrder(pc)
    BY <2>1 DEF InvOf, Becomes
  <2>3. OrderKept(pc, pc2, i, st, d)
    BY <2>2, OrderStays
  <2> QED BY <2>1, <2>3 DEF OrderKept
<1>4. Status("failed", 0).state = "failed"
  BY DEF Status
<1>5. PcbType(pc2)
  <2>1. Status("failed", 0) \in [state : {"none", "failed", "ready"}, dir : Int]
    BY DEF Status
  <2> QED BY <1>2, <2>1 DEF InvOf, PcbType
<1>6. SpacesOk(z, pc2)
  <2> SUFFICES ASSUME NEW q \in Procs, pc2[q].state = "ready"
               PROVE  \E t, c, s : SpaceAt(z, q, pc2[q].dir, t, c, s)
    BY DEF SpacesOk
  <2>1. q # p
    BY <1>3, <1>4
  <2> QED BY <1>1, <1>3, <2>1 DEF InvOf, SpacesOk
<1>7. FailedLast(z, pc2)
  <2>1. \A j \in DOMAIN BOOT : pc[BOOT[j]].state # "failed"
    BY DEF InvOf, FailedLast
  <2>2. \A j \in DOMAIN BOOT : j # i => pc2[BOOT[j]].state # "failed"
    BY <1>2, <1>3, <2>1, BootOrder
  <2> QED BY <1>3, <2>2 DEF FailedLast
<1> QED BY <1>1, <1>3, <1>5, <1>6, <1>7 DEF InvOf

LEMMA PanicKeeps ==
  ASSUME NEW N \in Int, NEW x, Good(x, N), Dims(N), NEW r, Panics(x, r, N)
  PROVE  Keeps(x, r.m, N)
<1>1. PICK y : Step(x, y, N, {}, {}) /\ r.m = [y EXCEPT !.fault = TRUE]
  BY DEF Panics
<1>2. Keeps(x, y, N) /\ Good(y, N)
  BY <1>1, StepKeeps DEF Keeps
<1>3. Keeps(y, r.m, N)
  BY <1>1, <1>2, FaultKeeps
<1> QED BY <1>2, <1>3, KeepsTrans

\* What CreatePcb does to the machine x and the table pc.
CreateStep(x, z, pc, pc2, pg, N) ==
  InvOf(z, pc2, pg, N) /\ Keeps(x, z, N) /\ Creation(z, pc, pc2)

LEMMA CreateInv ==
  ASSUME NEW N \in Int, Dims(N), NEW x, NEW pc, NEW pg, InvOf(x, pc, pg, N), ~x.fault,
         NEW i, NextIs(pc, i), NEW u \in BOOLEAN, u = TRUE, NEW r, r = create_pcb(x, BOOT[i], u),
         NEW pc2,
         pc2 = [pc EXCEPT ![BOOT[i]] =
                  IF r.m.fault         THEN @
                  ELSE IF r.esp = NULL THEN [state |-> "failed", dir |-> 0]
                  ELSE [state |-> "ready", dir |-> r.dir]]
  PROVE  CreateStep(x, r.m, pc, pc2, pg, N)
<1> DEFINE p == BOOT[i]
           z == r.m
<1>1. p \in Procs /\ i \in DOMAIN BOOT /\ pc[p].state = "none"
  BY BootOrder DEF NextIs
<1>2. Good(x, N) /\ PcbType(pc)
  BY DEF InvOf
<1>3. Panics(x, r, N) \/ Fails(x, r, N) \/ \E t, c, s : Creates(x, r, N, p, t, c, s)
  BY <1>1, <1>2, CreateOk
<1>4. CASE Panics(x, r, N)
  <2>1. Keeps(x, z, N)
    BY <1>2, <1>4, PanicKeeps
  <2>2. pc2 = pc
    <3>1. r.m.fault
      BY <1>4 DEF Panics
    <3>2. pc2 = [pc EXCEPT ![BOOT[i]] = pc[BOOT[i]]]
      BY <3>1
    <3> QED BY <1>1, <1>2, <3>2 DEF PcbType
  <2>3. InvOf(z, pc, pg, N)
    BY <2>1, KeepsInv
  <2>4. InvOf(z, pc2, pg, N) /\ Creation(z, pc, pc2)
    BY <2>2, <2>3, Zenon DEF Creation
  <2> QED BY <2>1, <2>4 DEF CreateStep
<1>5. CASE Fails(x, r, N)
  <2>1. Keeps(x, z, N)
    BY <1>2, <1>5, StepKeeps DEF Fails
  <2>2. pc2 = [pc EXCEPT ![BOOT[i]] = Status("failed", 0)]
    BY <1>5 DEF Fails, Step, Status
  <2>3. FreeFrames(x) # {} /\ FreeFrames(z) = {}
    BY <1>5 DEF Fails
  <2>4. InvOf(z, pc2, pg, N)
    BY <2>1, <2>2, <2>3, FailedInv
  <2> QED BY <1>1, <2>1, <2>2, <2>4 DEF CreateStep, Creation
<1>6. ASSUME NEW t, NEW c, NEW s, Creates(x, r, N, p, t, c, s)
      PROVE  CreateStep(x, z, pc, pc2, pg, N)
  <2> DEFINE d == r.dir
  <2>1. Keeps(x, z, N)
    BY <1>2, <1>6, StepKeeps DEF Creates
  <2>2. pc2 = [pc EXCEPT ![BOOT[i]] = Status("ready", d)]
    BY <1>6 DEF Creates, Step, Status
  <2>3. FreeFrames(x) # {} /\ SpaceAt(z, p, d, t, c, s) /\ z.mem[s] = Row(Data(<<"stack", p>>))
    BY <1>6 DEF Creates
  <2>4. d \in Int
    <3>1. PICK q : Mapped(z, q, d)
      BY <2>3 DEF SpaceAt
    <3>2. d \in 0 .. N - 1
      BY <2>1, <3>1, MappedPlain DEF Keeps
    <3>3. \A e : e \in 0 .. N - 1 => e \in Int
      OBVIOUS
    <3> HIDE DEF d
    <3> QED BY <3>2, <3>3, Zenon
  <2>5. Created(z, pc, p, d)
    BY <1>1, <2>3, <2>4 DEF Created
  <2> HIDE DEF d
  <2>6. InvOf(z, pc2, pg, N)
    BY <2>1, <2>2, <2>3, <2>5, ReadyInv
  <2>7. \E pp, dd : Created(z, pc, pp, dd) /\ pc2 = [pc EXCEPT ![pp] = Status("ready", dd)]
    BY <2>2, <2>5
  <2>8. Creation(z, pc, pc2)
    BY <2>7 DEF Creation
  <2> QED BY <2>1, <2>6, <2>8 DEF CreateStep
<1> QED BY <1>3, <1>4, <1>5, <1>6

LEMMA CreatePcbStep ==
  ASSUME NEW N \in MEMORIES, InvOf(machine, pcb, pages, N), CreatePcb
  PROVE  CreateStep(machine, machine', pcb, pcb', pages', N) /\ pages' = pages
<1>1. Dims(N) /\ N \in Int
  BY DimsHold DEF Dims
<1>2. pages' = pages /\ ~machine.fault
  BY DEF CreatePcb
<1>3. PICK u \in BOOLEAN : u = TRUE
  OBVIOUS
<1>4. PICK i \in DOMAIN BOOT :
       /\ pcb[BOOT[i]].state = "none"
       /\ \A j \in 1 .. i - 1 : pcb[BOOT[j]].state # "none"
       /\ \E odd \in OddWords : \E r \in {create_pcb(HeapWritten(machine, odd), BOOT[i], TRUE)} :
            /\ machine' = r.m
            /\ pcb' = [pcb EXCEPT ![BOOT[i]] =
                         IF r.m.fault         THEN @
                         ELSE IF r.esp = NULL THEN [state |-> "failed", dir |-> 0]
                         ELSE [state |-> "ready", dir |-> r.dir]]
  BY DEF CreatePcb
<1>5. NextIs(pcb, i)
  BY <1>4 DEF NextIs
<1>6. PICK odd \in OddWords : \E r :
               /\ r = create_pcb(HeapWritten(machine, odd), BOOT[i], u) /\ machine' = r.m
               /\ pcb' = [pcb EXCEPT ![BOOT[i]] =
                            IF r.m.fault         THEN @
                            ELSE IF r.esp = NULL THEN [state |-> "failed", dir |-> 0]
                            ELSE [state |-> "ready", dir |-> r.dir]]
  BY <1>3, <1>4
<1> DEFINE y == HeapWritten(machine, odd)
<1>7. PICK r : /\ r = create_pcb(y, BOOT[i], u) /\ machine' = r.m
               /\ pcb' = [pcb EXCEPT ![BOOT[i]] =
                            IF r.m.fault         THEN @
                            ELSE IF r.esp = NULL THEN [state |-> "failed", dir |-> 0]
                            ELSE [state |-> "ready", dir |-> r.dir]]
  BY <1>6
<1>8. Keeps(machine, y, N) /\ ~y.fault
  BY <1>1, <1>2, HeapKeeps DEF InvOf
<1> HIDE DEF y
<1>9. InvOf(y, pcb, pages, N)
  BY <1>8, KeepsInv
<1>10. CreateStep(y, r.m, pcb, pcb', pages, N)
  BY <1>1, <1>3, <1>5, <1>7, <1>8, <1>9, CreateInv
<1>11. Keeps(machine, r.m, N)
  BY <1>8, <1>10, KeepsTrans DEF CreateStep
<1>12. CreateStep(machine, r.m, pcb, pcb', pages, N)
  BY <1>10, <1>11 DEF CreateStep
<1> QED BY <1>2, <1>7, <1>12

-----------------------------------------------------------------------------
\* A caller takes page q.
TakeStep(x, z, pc, pg, pg2, N, k) ==
  /\ InvOf(z, pc, pg2, N) /\ Keeps(x, z, N)
  /\ \/ pg2 = pg
     \/ \E q : HeldAt(z, k, q) /\ pg2 = With(pg, k, q)

LEMMA TakeInv ==
  ASSUME NEW N \in Int, Dims(N), NEW x, NEW pc, NEW pg, InvOf(x, pc, pg, N), ~x.fault,
         NEW k \in Callers, NEW explicit, MayAsk(x, explicit), NEW u \in BOOLEAN,
         NEW g, g = vmm_get_new_page(x, u, explicit), NEW z, NEW pg2,
         IF g.page = NULL THEN z = g.m /\ pg2 = pg
         ELSE /\ z = Fill(g.m, g.page, Data(<<"kernel", k>>))
              /\ pg2 = With(pg, k, g.page)
  PROVE  TakeStep(x, z, pc, pg, pg2, N, k)
<1>1. Good(x, N)
  BY DEF InvOf
<1>2. Answers(x, g, N)
  BY <1>1, GetNewPageOk
<1>3. CASE NoPage(x, g, N)
  <2>1. z = g.m /\ pg2 = pg
    BY <1>3 DEF NoPage
  <2>2. Keeps(x, z, N)
    BY <1>1, <1>3, <2>1, StepKeeps DEF NoPage
  <2>3. InvOf(z, pc, pg2, N)
    BY <2>1, <2>2, KeepsInv
  <2> QED BY <2>1, <2>2, <2>3 DEF TakeStep
<1>4. ASSUME NEW f, GotPage(x, g, N, f) PROVE TakeStep(x, z, pc, pg, pg2, N, k)
  <2> DEFINE q == g.page
             w == Data(<<"kernel", k>>)
  <2>1. /\ Step(x, g.m, N, {}, {}) /\ q \in KPages /\ Walk(g.m, KDIR, q) = f /\ f # None
        /\ f \notin x.used /\ Good(g.m, N) /\ ~g.m.fault
    BY <1>4 DEF GotPage, Step
  <2>2. q # NULL
    BY <2>1, KPage
  <2>3. w \in Words
    <3>1. <<"kernel", k>> \in Tags
      BY DEF Tags
    <3> QED BY <3>1, DataFields
  <2>4. z = Fill(g.m, q, w) /\ pg2 = With(pg, k, q)
    BY <2>2
  <2> HIDE DEF q, w
  <2>5. Written(g.m, z, N, f, Row(w))
    <3>1. Written(g.m, Fill(g.m, q, w), N, Walk(g.m, KDIR, q), [i \in Index |-> w])
      BY <2>1, <2>3, PageFilled
    <3> QED BY <2>1, <2>4, <3>1 DEF Row
  <2>6. Step(x, z, N, {}, {})
    <3>1. Step(g.m, z, N, {f}, {}) /\ (\A h \in {f} : h \notin x.used)
      BY <2>1, <2>5 DEF Written
    <3>2. \A h \in {} : Walk(x, KDIR, h) = None
      OBVIOUS
    <3> QED BY <2>1, <3>1, <3>2, StepOn
  <2>7. Keeps(x, z, N)
    BY <1>1, <2>6, StepKeeps
  <2>8. HeldAt(z, k, q)
    <3>1. Mapped(z, q, f) /\ z.mem[f] = Row(w)
      BY <2>1, <2>5 DEF Written, SameWalks, Mapped
    <3> QED BY <3>1 DEF HeldAt, w
  <2>9. InvOf(z, pc, pg, N)
    BY <2>7, KeepsInv
  <2>10. HeldOk(z, pg2)
    BY <2>4, <2>8, <2>9 DEF InvOf, HeldOk, With
  <2>11. InvOf(z, pc, pg2, N)
    BY <2>9, <2>10 DEF InvOf
  <2> QED BY <2>4, <2>7, <2>8, <2>11 DEF TakeStep
<1> QED BY <1>2, <1>3, <1>4 DEF Answers

LEMMA GetNewPageStep ==
  ASSUME NEW N \in MEMORIES, InvOf(machine, pcb, pages, N), NEW k \in Callers, GetNewPage(k)
  PROVE  /\ TakeStep(machine, machine', pcb', pages, pages', N, k) /\ pcb' = pcb
         /\ k \notin DOMAIN pages
<1>1. Dims(N) /\ N \in Int
  BY DimsHold DEF Dims
<1>2. pcb' = pcb /\ ~machine.fault /\ k \notin DOMAIN pages
  BY DEF GetNewPage
<1>3. PICK u \in BOOLEAN : u = FALSE
  OBVIOUS
<1>4. PICK explicit \in {NULL} \cup {q \in Explicit : Walk(machine, KDIR, q) = None} :
       \E g \in {vmm_get_new_page(machine, FALSE, explicit)} :
         IF g.page = NULL THEN machine' = g.m /\ UNCHANGED pages
         ELSE /\ machine' = Fill(g.m, g.page, Data(<<"kernel", k>>))
              /\ pages' = With(pages, k, g.page)
  BY DEF GetNewPage
<1>5. MayAsk(machine, explicit)
  <2>1. CASE explicit = NULL
    BY <2>1 DEF MayAsk
  <2>2. CASE explicit \in Explicit /\ Walk(machine, KDIR, explicit) = None
    <3>1. explicit \in (2 .. HEAP - 1) \X Index /\ HEAP \in Int /\ HEAP - 1 <= ENTRIES - 1
      BY <1>1, <2>2, VmmAssumption DEF HEAP, Dims
    <3>2. explicit \in KPages /\ explicit[1] < HEAP
      BY <1>1, <3>1 DEF KPages, Dims
    <3> QED BY <2>2, <3>2 DEF MayAsk
  <2> QED BY <1>4, <2>1, <2>2
<1>6. PICK g : /\ g = vmm_get_new_page(machine, u, explicit)
               /\ IF g.page = NULL THEN machine' = g.m /\ pages' = pages
                  ELSE /\ machine' = Fill(g.m, g.page, Data(<<"kernel", k>>))
                       /\ pages' = With(pages, k, g.page)
  BY <1>3, <1>4
<1>7. TakeStep(machine, machine', pcb, pages, pages', N, k)
  BY <1>1, <1>2, <1>5, <1>6, TakeInv
<1> QED BY <1>2, <1>7

-----------------------------------------------------------------------------
\* Caller k gives its page back.
GiveStep(x, z, pc, pg, pg2, N, k) ==
  /\ InvOf(z, pc, pg2, N) /\ pg2 = [j \in DOMAIN pg \ {k} |-> pg[j]]
  /\ \A p, d, t, c, s : SpaceAt(x, p, d, t, c, s) => SpaceKept(x, z, p, d, t, c, s)

LEMMA HeldOnce ==
  ASSUME NEW N \in Int, NEW x, Good(x, N), Dims(N), NEW j, NEW k, NEW q, HeldAt(x, j, q), HeldAt(x, k, q)
  PROVE  j = k
<1>1. PICK f : Mapped(x, q, f) /\ x.mem[f] = Row(Data(<<"kernel", j>>))
  BY DEF HeldAt
<1>2. PICK g : Mapped(x, q, g) /\ x.mem[g] = Row(Data(<<"kernel", k>>))
  BY DEF HeldAt
<1>3. f = g /\ 0 \in Index
  BY <1>1, <1>2, Frames DEF Mapped
<1>4. Data(<<"kernel", j>>).tag = <<"kernel", j>> /\ Data(<<"kernel", k>>).tag = <<"kernel", k>>
  BY DEF Data, MemoryWord
<1>5. x.mem[f][0].tag = <<"kernel", j>> /\ x.mem[f][0].tag = <<"kernel", k>>
  BY <1>1, <1>2, <1>3, <1>4 DEF Row
<1> QED BY <1>5

LEMMA GiveInv ==
  ASSUME NEW N \in Int, Dims(N), NEW x, NEW pc, NEW pg, InvOf(x, pc, pg, N), ~x.fault,
         NEW k \in DOMAIN pg, NEW z, z = vmm_free_page(x, pg[k]),
         NEW pg2, pg2 = [j \in DOMAIN pg \ {k} |-> pg[j]]
  PROVE  GiveStep(x, z, pc, pg, pg2, N, k)
<1> DEFINE q == pg[k]
<1>1. Good(x, N) /\ HeldAt(x, k, q)
  BY DEF InvOf, HeldOk
<1>2. PICK f : Mapped(x, q, f) /\ x.mem[f] = Row(Data(<<"kernel", k>>))
  BY <1>1 DEF HeldAt
<1>3. q \in KPages /\ Walk(x, KDIR, q) = f /\ Walk(x, KDIR, q) # None
  BY <1>2 DEF Mapped
<1> HIDE DEF q
<1>4. Freed(x, z, N, q, Walk(x, KDIR, q))
  <2>1. z = vmm_free_page(x, q)
    BY DEF q
  <2> QED BY <1>1, <1>3, <2>1, PageFreed
<1>5. Step(x, z, N, {}, {q}) /\ Good(z, N)
  BY <1>4 DEF Freed, Step
<1>6. ASSUME NEW p, NEW d, NEW t, NEW c, NEW s, SpaceAt(x, p, d, t, c, s)
      PROVE  SpaceKept(x, z, p, d, t, c, s)
  <2>1. f # d /\ f # t
    BY <1>1, <1>2, <1>6, HeldApart
  <2>2. \A r \in {q} : Walk(x, KDIR, r) # d /\ Walk(x, KDIR, r) # t
    BY <1>3, <2>1
  <2> QED BY <1>1, <1>5, <1>6, <2>2, SpaceStays
<1>7. HeldOk(z, pg2)
  <2> SUFFICES ASSUME NEW j \in DOMAIN pg2 PROVE HeldAt(z, j, pg2[j])
    BY DEF HeldOk
  <2> DEFINE r == pg[j]
  <2>1. j \in DOMAIN pg /\ j # k /\ pg2[j] = r
    OBVIOUS
  <2>2. HeldAt(x, j, r)
    BY <2>1 DEF InvOf, HeldOk
  <2> HIDE DEF r
  <2>3. r # q
    BY <1>1, <2>1, <2>2, HeldOnce
  <2>4. HeldAt(z, j, r)
    BY <1>1, <1>5, <2>2, <2>3, HeldStays
  <2> QED BY <2>1, <2>4
<1>8. SpacesOk(z, pc)
  BY <1>6 DEF InvOf, SpacesOk, SpaceKept
<1>9. FailedLast(z, pc)
  <2>1. FreeFrames(x) = {} => FreeFrames(z) = {}
    BY <1>1, <1>5, StaysEmpty
  <2> QED BY <2>1 DEF InvOf, FailedLast
<1>10. InvOf(z, pc, pg2, N)
  BY <1>5, <1>7, <1>8, <1>9 DEF InvOf
<1> QED BY <1>6, <1>10 DEF GiveStep

LEMMA FreePageStep ==
  ASSUME NEW N \in MEMORIES, InvOf(machine, pcb, pages, N), NEW k \in Callers, FreePage(k)
  PROVE  GiveStep(machine, machine', pcb', pages, pages', N, k) /\ pcb' = pcb /\ k \in DOMAIN pages
<1>1. Dims(N) /\ N \in Int
  BY DimsHold DEF Dims
<1>2. /\ pcb' = pcb /\ ~machine.fault /\ k \in DOMAIN pages /\ machine' = vmm_free_page(machine, pages[k])
      /\ pages' = [j \in DOMAIN pages \ {k} |-> pages[j]]
  BY DEF FreePage
<1>3. GiveStep(machine, machine', pcb, pages, pages', N, k)
  BY <1>1, <1>2, GiveInv
<1> QED BY <1>2, <1>3

-----------------------------------------------------------------------------
\* Process p writes to its stack.
RunStep(x, z, pc, pg, N, p) ==
  /\ InvOf(z, pc, pg, N)
  /\ \E t, c, s : /\ SpaceAt(z, p, pc[p].dir, t, c, s)
                  /\ z.mem[s] = Row(Data(<<"used", p>>))
                  /\ SpaceAt(x, p, pc[p].dir, t, c, s)
  /\ \A q, d, t, c, s : q # p /\ SpaceAt(x, q, d, t, c, s) => SpaceKept(x, z, q, d, t, c, s)
  /\ \A k, q : HeldAt(x, k, q) => HeldAt(z, k, q)

\* Loading CR3 forgets what was cached and nothing else.
LEMMA LoadStep ==
  ASSUME NEW N \in Int, NEW x, Good(x, N), Dims(N), ~x.fault, NEW y, y = LoadCr3(x)
  PROVE  Step(x, y, N, {}, {}) /\ y.mem = x.mem /\ y.used = x.used /\ SameWalks(x, y)
<1>1. PICK pl : Ok(x, N, pl)
  BY DEF Good
<1>2. PICK tl : tl = <<>>
  OBVIOUS
<1>3. DOMAIN tl = {}
  BY <1>2
<1>4. y = Mach(x.used, x.mem, tl, x.fault)
  BY <1>1, <1>2, MachExcept DEF LoadCr3, Ok, Typed
<1>5. y.used = x.used /\ y.mem = x.mem /\ y.tlb = tl /\ y.fault = x.fault /\ IsMach(y)
  <2> DEFINE u == x.used
             m == x.mem
             b == x.fault
  <2> HIDE DEF u, m, b
  <2>1. /\ Mach(u, m, tl, b).used = u /\ Mach(u, m, tl, b).mem = m
        /\ Mach(u, m, tl, b).tlb = tl /\ Mach(u, m, tl, b).fault = b /\ IsMach(Mach(u, m, tl, b))
    BY MachFields
  <2>2. y = Mach(u, m, tl, b)
    BY <1>4 DEF u, m, b
  <2> QED BY <2>1, <2>2 DEF u, m, b
<1>6. Typed(y, N) /\ y.fault = FALSE
  BY <1>1, <1>5 DEF Ok, Typed
<1>7. Follows(x, y, N)
  BY <1>1, <1>3, <1>5, <1>6 DEF Follows, Ok, BaseOk
<1>8. \A g : Plain(x, g) /\ g \notin {} => y.mem[g] = x.mem[g]
  BY <1>5
<1>9. Step(x, y, N, {}, {}) /\ SameWalks(x, y)
  BY <1>1, <1>6, <1>7, <1>8, FollowsStep
<1> QED BY <1>5, <1>9

\* Writing to a frame that is not a table of the kernel.
FilledWith(x, z, N, f, w) == Step(x, z, N, {f}, {}) /\ z.mem[f] = Row(w) /\ z.used = x.used

LEMMA FrameFilled ==
  ASSUME NEW N \in Int, NEW x, Good(x, N), Dims(N), ~x.fault, NEW f, Plain(x, f), NEW w \in Words,
         NEW z, z = FillFrame(x, f, w)
  PROVE  FilledWith(x, z, N, f, w)
<1>1. PICK pl : Ok(x, N, pl)
  BY DEF Good
<1>2. f \in 0 .. N - 1 /\ f > PT1 /\ f # KDIR /\ f # PT0
  <2>1. f \in 0 .. N - 1 /\ f > PT1
    BY <1>1 DEF Plain, Ok, BaseOk
  <2> QED BY <2>1, Frames
<1>3. Row(w) \in [Index -> Words]
  BY DEF Row
<1>4. Wrote(x, z, N, f, Row(w))
  <2>1. z = [x EXCEPT !.mem[f] = Row(w)]
    BY DEF FillFrame, Row
  <2>2. Typed(x, N)
    BY <1>1 DEF Ok
  <2> QED BY <1>2, <1>3, <2>1, <2>2, RowWritten
<1>5. KDIR \in 0 .. N - 1 /\ PT0 \in 0 .. N - 1
  BY Frames
<1>6. \A i \in 2 .. ENTRIES - 1 : Has(x, i) => Tab(x, i) \in 0 .. N - 1 /\ Tab(x, i) # f
  BY <1>1 DEF Ok, BaseOk, DirOk, Ref, Has, Tab, Plain
<1>7. Follows(x, z, N)
  <2>1. Typed(z, N) /\ x.used \in SUBSET z.used /\ z.used \in SUBSET (0 .. N - 1)
    BY <1>1, <1>4 DEF Wrote, Ok, BaseOk
  <2>2. z.mem[KDIR] = x.mem[KDIR] /\ z.mem[PT0] = x.mem[PT0]
    BY <1>2, <1>4, <1>5 DEF Wrote
  <2>3. \A i \in 2 .. ENTRIES - 1 : Has(x, i) => z.mem[Tab(x, i)] = x.mem[Tab(x, i)]
    BY <1>4, <1>6 DEF Wrote
  <2>4. \A q \in DOMAIN z.tlb : q \in KPages /\ z.tlb[q] = Walk(x, KDIR, q)
    BY <1>1, <1>4 DEF Wrote, Ok, TlbOk
  <2> QED BY <2>1, <2>2, <2>3, <2>4 DEF Follows
<1>8. z.fault = FALSE
  BY <1>1, <1>4 DEF Wrote, Ok, Typed
<1>9. \A g : Plain(x, g) /\ g \notin {f} => z.mem[g] = x.mem[g]
  <2>1. \A g : Plain(x, g) => g \in 0 .. N - 1
    BY <1>1 DEF Plain, Ok, BaseOk
  <2> QED BY <1>4, <2>1 DEF Wrote
<1>10. Step(x, z, N, {f}, {})
  BY <1>1, <1>7, <1>8, <1>9, FollowsStep
<1> QED BY <1>4, <1>10 DEF Wrote, FilledWith

LEMMA RunInv ==
  ASSUME NEW N \in Int, Dims(N), NEW x, NEW pc, NEW pg, InvOf(x, pc, pg, N), ~x.fault,
         NEW p \in Procs, pc[p].state = "ready", NEW f, f = Walk(x, pc[p].dir, STACK),
         NEW z, z = IF f \notin DOMAIN x.mem THEN [x EXCEPT !.fault = TRUE]
                    ELSE FillFrame(LoadCr3(x), f, Data(<<"used", p>>))
  PROVE  RunStep(x, z, pc, pg, N, p)
<1> DEFINE d == pc[p].dir
           w == Data(<<"used", p>>)
           y == LoadCr3(x)
<1>1. Good(x, N)
  BY DEF InvOf
<1>2. PICK t, c, s : SpaceAt(x, p, d, t, c, s)
  BY DEF InvOf, SpacesOk
<1> HIDE DEF d
<1>3. f = s
  <2>1. SpacePages(x, d, c, s)
    BY <1>1, <1>2, SpaceWalks
  <2> QED BY <2>1 DEF SpacePages, d
<1>4. Loose(x, s) /\ Plain(x, s) /\ FourFrames(d, t, c, s)
  BY <1>1, <1>2, SpaceFrames DEF SpaceAt, Loose
<1>5. z = FillFrame(y, s, w)
  <2>1. s \in DOMAIN x.mem
    <3>1. s \in x.used
      BY <1>4 DEF Plain
    <3>2. x.used \in SUBSET (0 .. N - 1) /\ DOMAIN x.mem = 0 .. N - 1
      BY <1>1, GoodFields DEF Typed
    <3> QED BY <3>1, <3>2
  <2> QED BY <1>3, <2>1
<1>6. w \in Words
  <2>1. <<"used", p>> \in Tags
    BY DEF Tags
  <2> QED BY <2>1, DataFields
<1>7. Step(x, y, N, {}, {}) /\ y.mem = x.mem
  BY <1>1, LoadStep
<1> HIDE DEF w, y
<1>8. Good(y, N) /\ ~y.fault /\ Plain(y, s)
  BY <1>4, <1>7 DEF Step
<1>9. Step(y, z, N, {s}, {}) /\ z.mem[s] = Row(w)
  <2>1. FilledWith(y, z, N, s, w)
    BY <1>5, <1>6, <1>8, FrameFilled
  <2> QED BY <2>1 DEF FilledWith
<1>10. Step(x, z, N, {s}, {}) /\ Good(z, N)
  <2>1. Step(x, z, N, {} \cup {s}, {} \cup {})
    BY <1>7, <1>9, StepTrans
  <2>2. {} \cup {s} = {s} /\ {} \cup {} = {}
    OBVIOUS
  <2> QED BY <2>1, <2>2 DEF Step
<1>11. SpaceAt(z, p, d, t, c, s)
  <2>1. PICK q : Mapped(x, q, d)
    BY <1>2 DEF SpaceAt
  <2>2. PICK r : Mapped(x, r, t)
    BY <1>2 DEF SpaceAt
  <2>3. Plain(x, d) /\ Plain(x, t) /\ Plain(x, c) /\ Loose(x, c)
    BY <1>1, <1>2, <2>1, <2>2, MappedPlain DEF SpaceAt, Loose
  <2>4. Mapped(z, q, d) /\ Mapped(z, r, t)
    BY <1>10, <2>1, <2>2 DEF Mapped, Step
  <2>5. Loose(z, c) /\ Loose(z, s)
    BY <1>4, <1>10, <2>3 DEF Step
  <2>6. z.mem[d] = x.mem[d] /\ z.mem[t] = x.mem[t] /\ z.mem[c] = x.mem[c]
    BY <1>4, <1>10, <2>3 DEF Step, FourFrames
  <2>7. x.mem[d] = SpaceDir(TRUE, t) /\ x.mem[t] = FullTab(TRUE, c, s) /\ x.mem[c] = Row(Data(<<"code", p>>))
    BY <1>2 DEF SpaceAt
  <2> QED BY <1>9, <2>4, <2>5, <2>6, <2>7 DEF SpaceAt, w
<1>12. ASSUME NEW q, NEW dd, NEW tt, NEW cc, NEW ss, q # p, SpaceAt(x, q, dd, tt, cc, ss)
       PROVE  SpaceKept(x, z, q, dd, tt, cc, ss)
  <2>1. \A g : InSpace(g, d, t, c, s) => ~InSpace(g, dd, tt, cc, ss)
    BY <1>1, <1>2, <1>12, SpacesApart
  <2>2. dd \notin {s} /\ tt \notin {s} /\ cc \notin {s} /\ ss \notin {s}
    BY <2>1 DEF InSpace
  <2>3. \A r \in {} : Walk(x, KDIR, r) # dd /\ Walk(x, KDIR, r) # tt
    OBVIOUS
  <2> QED BY <1>1, <1>10, <1>12, <2>2, <2>3, SpaceStays
<1>13. ASSUME NEW k, NEW q, HeldAt(x, k, q) PROVE HeldAt(z, k, q)
  <2>1. q \in KPages
    BY <1>13 DEF HeldAt, Mapped
  <2>2. Walk(x, KDIR, q) \notin {s} /\ q \notin {}
    BY <1>4, <2>1 DEF Loose
  <2> QED BY <1>1, <1>10, <1>13, <2>2, HeldStays
<1>14. SpacesOk(z, pc)
  <2> SUFFICES ASSUME NEW q \in Procs, pc[q].state = "ready"
               PROVE  \E t1, c1, s1 : SpaceAt(z, q, pc[q].dir, t1, c1, s1)
    BY DEF SpacesOk
  <2>1. CASE q = p
    BY <1>11, <2>1 DEF d
  <2>2. CASE q # p
    <3>1. PICK t1, c1, s1 : SpaceAt(x, q, pc[q].dir, t1, c1, s1)
      BY DEF InvOf, SpacesOk
    <3>2. SpaceKept(x, z, q, pc[q].dir, t1, c1, s1)
      BY <1>12, <2>2, <3>1
    <3> QED BY <3>2 DEF SpaceKept
  <2> QED BY <2>1, <2>2
<1>15. FailedLast(z, pc)
  <2>1. FreeFrames(x) = {} => FreeFrames(z) = {}
    BY <1>1, <1>10, StaysEmpty
  <2> QED BY <2>1 DEF InvOf, FailedLast
<1>16. HeldOk(z, pg)
  BY <1>13 DEF InvOf, HeldOk
<1>17. InvOf(z, pc, pg, N)
  BY <1>10, <1>14, <1>15, <1>16 DEF InvOf
<1>18. \E t1, c1, s1 : /\ SpaceAt(z, p, pc[p].dir, t1, c1, s1)
                       /\ z.mem[s1] = Row(Data(<<"used", p>>))
                       /\ SpaceAt(x, p, pc[p].dir, t1, c1, s1)
  BY <1>2, <1>9, <1>11 DEF d, w
<1> QED BY <1>12, <1>13, <1>17, <1>18 DEF RunStep

LEMMA RunProcessStep ==
  ASSUME NEW N \in MEMORIES, InvOf(machine, pcb, pages, N), NEW p \in Procs, RunProcess(p)
  PROVE  /\ RunStep(machine, machine', pcb', pages', N, p) /\ pcb' = pcb /\ pages' = pages
         /\ pcb[p].state = "ready"
<1>1. Dims(N) /\ N \in Int
  BY DimsHold DEF Dims
<1>2. PICK f : f = Walk(machine, pcb[p].dir, STACK)
  OBVIOUS
<1>3. /\ pcb' = pcb /\ pages' = pages /\ ~machine.fault /\ pcb[p].state = "ready"
      /\ machine' = IF f \notin DOMAIN machine.mem THEN [machine EXCEPT !.fault = TRUE]
                    ELSE FillFrame(LoadCr3(machine), f, Data(<<"used", p>>))
  BY <1>2 DEF RunProcess
<1>4. RunStep(machine, machine', pcb, pages, N, p)
  BY <1>1, <1>2, <1>3, RunInv
<1> QED BY <1>3, <1>4

LEMMA VmmStep == VmmInv /\ [VmmNext]_vmmVars => VmmInv'
<1> SUFFICES ASSUME VmmInv, [VmmNext]_vmmVars PROVE VmmInv'
  OBVIOUS
<1>0. CASE VmmInit
  <2>1. CASE InitLists
    <3>1. \E N \in MEMORIES : InvOf(machine', pcb', pages', N)
      BY <1>0, <2>1, InitListsStep
    <3> QED BY <3>1 DEF VmmInv
  <2>2. CASE UNCHANGED vmmVars
    BY <1>0, <2>2 DEF VmmInv, VmmInit, vmmVars
  <2> QED BY <1>0, <2>1, <2>2, InitSteps
<1> SUFFICES ASSUME ~VmmInit PROVE VmmInv'
  BY <1>0
<1>1. PICK N \in MEMORIES : InvOf(machine, pcb, pages, N)
  BY DEF VmmInv
<1> SUFFICES InvOf(machine', pcb', pages', N)
  BY DEF VmmInv
<1>2. CASE CreatePcb
  BY <1>1, <1>2, CreatePcbStep DEF CreateStep
<1>3. ASSUME NEW k \in Callers, GetNewPage(k) PROVE InvOf(machine', pcb', pages', N)
  BY <1>1, <1>3, GetNewPageStep DEF TakeStep
<1>4. ASSUME NEW k \in Callers, FreePage(k) PROVE InvOf(machine', pcb', pages', N)
  BY <1>1, <1>4, FreePageStep DEF GiveStep
<1>5. CASE EnableInterrupts
  BY <1>1, <1>5 DEF EnableInterrupts
<1>6. ASSUME NEW p \in Procs, RunProcess(p) PROVE InvOf(machine', pcb', pages', N)
  BY <1>1, <1>6, RunProcessStep DEF RunStep
<1>7. CASE UNCHANGED vmmVars
  BY <1>1, <1>7 DEF vmmVars
<1>8. CASE Schedule
  BY <1>1, <1>8, ScheduleStep
<1>9. ~InitLists
  BY <1>1, InvBooted DEF InitLists
<1> QED BY <1>2, <1>3, <1>4, <1>5, <1>6, <1>7, <1>8, <1>9 DEF VmmNext

\* paging_init, the memory manager, the creation of processes and kmalloc's heap
\* keep the tables in order from the first kmalloc on, in every memory, for any
\* number of processes and callers.
THEOREM VmmInvariant == VmmSpec => []VmmInv
<1>1. VmmInit => VmmInv
  BY DEF VmmInv
<1> QED BY <1>1, VmmStep, PTL DEF VmmSpec

\* A cached translation is never stale: every change of a used entry is followed
\* by an invlpg of its page.
THEOREM CacheCoherent == VmmSpec => []TlbCoherent
<1>1. VmmInv => TlbCoherent
  <2>1. ASSUME NEW N \in MEMORIES, InvOf(machine, pcb, pages, N) PROVE TlbCoherent
    BY <2>1 DEF InvOf, Good, Ok, TlbOk, TlbCoherent
  <2>2. ASSUME VmmInit PROVE TlbCoherent
    <3>1. PICK N \in MEMORIES : machine = KmallocInit(PagingInit(N))
      BY <2>2 DEF VmmInit
    <3>2. Dims(N) /\ N \in Int
      BY DimsHold DEF Dims
    <3>3. Typed(PagingInit(N), N) /\ PagingInit(N).tlb = <<>>
      BY <3>2, StartGood DEF Good, Ok
    <3>4. machine.tlb = <<>>
      BY <3>1, <3>2, <3>3, KmallocIs DEF HeapBegun
    <3> QED BY <3>4 DEF TlbCoherent
  <2> QED BY <2>1, <2>2 DEF VmmInv
<1> QED BY <1>1, VmmInvariant, PTL

\* Only the process created last can be missing: a create_pcb that returns NULL
\* has used up the memory, so the next one would fault.
THEOREM LastMissing == VmmSpec => []OnlyLastMissing
<1>1. VmmInv => OnlyLastMissing
  <2> SUFFICES ASSUME VmmInv, NEW i \in DOMAIN BOOT, pcb[BOOT[i]].state = "failed",
                      NEW j \in i + 1 .. Len(BOOT)
               PROVE  pcb[BOOT[j]].state = "none"
    BY DEF OnlyLastMissing
  <2>1. i \in Int /\ DOMAIN BOOT = 1 .. Len(BOOT) /\ i >= 1 /\ Len(BOOT) \in Nat
    BY BootOrder
  <2>2. j \in DOMAIN BOOT /\ j > i
    BY <2>1
  <2>3. BOOT[i] \in Procs
    BY DEF Procs
  <2>4. ~VmmInit
    BY <2>3 DEF VmmInit
  <2> QED BY <2>2, <2>4 DEF VmmInv, InvOf, FailedLast
<1> QED BY <1>1, VmmInvariant, PTL

-----------------------------------------------------------------------------
(* The words of the directories and tables in use.                         *)

\* A word that nobody wrote as an entry is not taken for one.
NoStray(x, w) == w.present => w.tag = <<"entry">> /\ w.frame \in x.used

LEMMA KernelUsed ==
  ASSUME NEW N \in Int, NEW x, Good(x, N), Dims(N)
  PROVE  PT0 \in x.used /\ PT1 \in x.used
<1>1. 0 .. PT1 \subseteq x.used
  BY DEF Good, Ok, BaseOk
<1>2. PT0 \in 0 .. PT1 /\ PT1 \in 0 .. PT1
  BY Frames
<1> QED BY <1>1, <1>2

LEMMA EntryStray ==
  ASSUME NEW x, NEW u, NEW f \in x.used
  PROVE  NoStray(x, Entry(u, f))
BY DEF NoStray, Entry, MemoryWord

LEMMA KernelWords ==
  ASSUME NEW N \in Int, NEW x, Good(x, N), Dims(N), NEW i \in Index
  PROVE  /\ NoStray(x, x.mem[KDIR][i])
         /\ \A k \in 2 .. ENTRIES - 1 : Has(x, k) => NoStray(x, x.mem[Tab(x, k)][i])
<1>1. PICK pl : Ok(x, N, pl)
  BY DEF Good
<1>2. \A k \in 2 .. ENTRIES - 1 : Has(x, k) => NoStray(x, x.mem[Tab(x, k)][i])
  BY <1>1 DEF Ok, TabOk, Ref, NoStray, Has, Tab
<1>3. CASE i \in 2 .. ENTRIES - 1
  BY <1>1, <1>2, <1>3 DEF Ok, DirOk, Ref, NoStray
<1>4. CASE i = 0 \/ i = 1
  <2>1. PICK f \in {PT0, PT1} : x.mem[KDIR][i] = Entry(FALSE, f)
    BY <1>4, GoodFields
  <2>2. Entry(FALSE, f).tag = <<"entry">> /\ Entry(FALSE, f).frame = f
    BY DEF Entry, MemoryWord
  <2>3. f \in x.used
    BY KernelUsed
  <2> QED BY <1>2, <2>1, <2>2, <2>3 DEF NoStray
<1>5. i \in 2 .. ENTRIES - 1 \/ i = 0 \/ i = 1
  BY DEF Index, Dims
<1> QED BY <1>3, <1>4, <1>5

LEMMA SpaceStray ==
  ASSUME NEW N \in Int, NEW x, Good(x, N), Dims(N), NEW p, NEW d, NEW t, NEW c, NEW s,
         SpaceAt(x, p, d, t, c, s), NEW i \in Index
  PROVE  NoStray(x, x.mem[d][i]) /\ NoStray(x, x.mem[t][i])
<1>1. SpaceWords(x, p, d, t, c, s)
  BY SpaceIs
<1>2. t \in x.used /\ c \in x.used /\ s \in x.used /\ PT0 \in x.used /\ PT1 \in x.used
  <2>1. PICK q : Mapped(x, q, t)
    BY DEF SpaceAt
  <2>2. t \in x.used
    BY <2>1, MappedPlain
  <2>3. c \in x.used /\ s \in x.used
    BY DEF SpaceAt, Loose, Plain
  <2>4. PT0 \in x.used /\ PT1 \in x.used
    BY KernelUsed
  <2> QED BY <2>2, <2>3, <2>4
<1> DEFINE e0 == Entry(FALSE, PT0)
           e1 == Entry(FALSE, PT1)
           et == Entry(TRUE, t)
           ec == Entry(TRUE, c)
           es == Entry(TRUE, s)
<1>3. /\ x.mem[d][0] = e0 /\ x.mem[d][1] = e1 /\ x.mem[d][USER_DIR] = et
      /\ \A k \in 2 .. ENTRIES - 1 : k # USER_DIR => x.mem[d][k] = ZERO
      /\ x.mem[t][0] = ec /\ x.mem[t][1] = es
      /\ \A k \in Index : k # 0 /\ k # 1 => x.mem[t][k] = ZERO
  BY <1>1 DEF SpaceWords
<1>4. NoStray(x, ZERO) /\ NoStray(x, e0) /\ NoStray(x, e1) /\ NoStray(x, et) /\ NoStray(x, ec) /\ NoStray(x, es)
  <2>1. NoStray(x, ZERO)
    BY ZeroFields DEF NoStray
  <2> QED BY <1>2, <2>1, EntryStray, Zenon
<1> HIDE DEF e0, e1, et, ec, es
<1>5. i = 0 \/ i = 1 \/ i \in 2 .. ENTRIES - 1
  BY DEF Index, Dims
<1>6. NoStray(x, x.mem[d][i])
  BY <1>3, <1>4, <1>5
<1>7. NoStray(x, x.mem[t][i])
  BY <1>3, <1>4
<1> QED BY <1>6, <1>7

\* The tables of a space.
LEMMA SpaceTables ==
  ASSUME NEW N \in Int, NEW x, Good(x, N), Dims(N), NEW p, NEW d, NEW t, NEW c, NEW s,
         SpaceAt(x, p, d, t, c, s)
  PROVE  {x.mem[d][i].frame : i \in {j \in 2 .. ENTRIES - 1 : x.mem[d][j].present}} = {t}
<1>1. SpaceWords(x, p, d, t, c, s)
  BY SpaceIs
<1>2. x.mem[d][USER_DIR].present /\ x.mem[d][USER_DIR].frame = t
  <2>1. Entry(TRUE, t).present /\ Entry(TRUE, t).frame = t
    BY DEF Entry, MemoryWord
  <2> QED BY <1>1, <2>1 DEF SpaceWords
<1>3. \A i \in 2 .. ENTRIES - 1 : i # USER_DIR => ~x.mem[d][i].present
  BY <1>1, ZeroFields DEF SpaceWords
<1>4. USER_DIR \in 2 .. ENTRIES - 1
  BY DEF Dims
<1> QED BY <1>2, <1>3, <1>4

\* From the first kmalloc on, no directory or table of vmm.c that the MMU may walk
\* has a present word nobody wrote as an entry: every frame that becomes one is
\* cleared first, and the words of the heap in the kernel directory stay not
\* present and are never taken for a table.
THEOREM NoStrayEntries == VmmSpec => []NoStrayEntry
<1>1. VmmInv => NoStrayEntry
  <2> SUFFICES ASSUME VmmInv, Booted, NEW dir \in {KDIR} \cup {pcb[p].dir : p \in Ready},
                      NEW f \in {dir} \cup TablesOf(dir), NEW i \in Index
               PROVE  NoStray(machine, machine.mem[f][i])
    BY DEF NoStrayEntry, NoStray
  <2>1. PICK N \in MEMORIES : InvOf(machine, pcb, pages, N)
    BY InitSteps DEF VmmInv
  <2>2. Dims(N) /\ N \in Int /\ Good(machine, N)
    BY <2>1, DimsHold DEF Dims, InvOf
  <2>3. CASE dir = KDIR
    <3>1. CASE f = KDIR
      BY <2>2, <3>1, KernelWords
    <3>2. CASE f # KDIR
      <4>1. PICK k \in 2 .. ENTRIES - 1 : machine.mem[KDIR][k].present /\ f = machine.mem[KDIR][k].frame
        BY <2>3, <3>2 DEF TablesOf
      <4>2. Has(machine, k) /\ f = Tab(machine, k)
        BY <4>1 DEF Has, Tab
      <4> QED BY <2>2, <4>2, KernelWords
    <3> QED BY <3>1, <3>2
  <2>4. CASE dir # KDIR
    <3>1. PICK p \in Procs : dir = pcb[p].dir /\ pcb[p].state = "ready"
      BY <2>4 DEF Ready
    <3>2. PICK t, c, s : SpaceAt(machine, p, dir, t, c, s)
      BY <2>1, <3>1 DEF InvOf, SpacesOk
    <3>3. TablesOf(dir) = {t}
      BY <2>2, <3>2, SpaceTables DEF TablesOf
    <3>4. NoStray(machine, machine.mem[dir][i]) /\ NoStray(machine, machine.mem[t][i])
      BY <2>2, <3>2, SpaceStray
    <3> QED BY <3>3, <3>4
  <2> QED BY <2>3, <2>4
<1> QED BY <1>1, VmmInvariant, PTL

\* The frames of a space, as FramesOf has them.
LEMMA SpaceFramesOf ==
  ASSUME NEW N \in Int, Good(machine, N), Dims(N), NEW p, NEW d, NEW t, NEW c, NEW s,
         SpaceAt(machine, p, d, t, c, s)
  PROVE  TablesOf(d) = {t} /\ PagesOf(d) = {CODE, STACK} /\ FramesOf(d) = {d, t, c, s}
<1>1. TablesOf(d) = {t}
  BY SpaceTables DEF TablesOf
<1>2. SpacePages(machine, d, c, s)
  BY SpaceWalks
<1>3. c # None /\ s # None
  <2>1. c \in machine.used /\ s \in machine.used /\ machine.used \in SUBSET (0 .. N - 1)
    BY GoodFields DEF SpaceAt, Loose, Plain
  <2> QED BY <2>1 DEF None
<1>4. CODE \in KPages /\ STACK \in KPages
  BY Frames DEF CODE, STACK, KPages, Dims
<1>5. PagesOf(d) = {CODE, STACK}
  <2>1. PagesOf(d) = {q \in KPages : Walk(machine, d, q) # None}
    BY DEF PagesOf, KPages
  <2> QED BY <1>2, <1>3, <1>4, <2>1 DEF SpacePages
<1>6. {Walk(machine, d, q) : q \in PagesOf(d)} = {c, s}
  BY <1>2, <1>5 DEF SpacePages
<1> QED BY <1>1, <1>5, <1>6 DEF FramesOf

\* What the kernel sees of a space.
LEMMA KernelSees ==
  ASSUME NEW N \in Int, Good(machine, N), Dims(N), NEW p, NEW d, NEW t, NEW c, NEW s,
         SpaceAt(machine, p, d, t, c, s)
  PROVE  /\ d \in FramesOf(KDIR) /\ t \in FramesOf(KDIR)
         /\ c \notin FramesOf(KDIR) /\ s \notin FramesOf(KDIR)
<1>0. PagesOf(KDIR) = {q \in KPages : Walk(machine, KDIR, q) # None}
  BY DEF PagesOf, KPages
<1>1. ASSUME NEW f, NEW q, Mapped(machine, q, f) PROVE f \in FramesOf(KDIR)
  BY <1>0, <1>1 DEF Mapped, FramesOf
<1>2. ASSUME NEW f, Loose(machine, f) PROVE f \notin FramesOf(KDIR)
  <2>1. f # KDIR
    <3>1. f > PT1 /\ f \in 0 .. N - 1
      BY <1>2, GoodFields DEF Loose, Plain
    <3> QED BY <3>1, Frames
  <2>2. f \notin TablesOf(KDIR)
    BY <1>2 DEF TablesOf, Loose, Plain, Has, Tab
  <2>3. \A q \in PagesOf(KDIR) : Walk(machine, KDIR, q) # f
    BY <1>0, <1>2 DEF Loose
  <2> QED BY <2>1, <2>2, <2>3 DEF FramesOf
<1> QED BY <1>1, <1>2 DEF SpaceAt

\* An address space is private: the frames of a process (its directory, table,
\* program and stack) belong to no other process, and to the kernel only where
\* create_pcb keeps them mapped, whatever vmm_get_new_page gives out later.
THEOREM SpacesPrivate == VmmSpec => []Private
<1>1. VmmInv => Private
  <2> SUFFICES ASSUME VmmInv, NEW p \in Ready
               PROVE  /\ PagesOf(pcb[p].dir) = {CODE, STACK}
                      /\ FramesOf(KDIR) \cap FramesOf(pcb[p].dir) = {pcb[p].dir} \cup TablesOf(pcb[p].dir)
                      /\ \A q \in Ready \ {p} : FramesOf(pcb[p].dir) \cap FramesOf(pcb[q].dir) = {}
    BY DEF Private
  <2>0. ~VmmInit
    BY DEF VmmInit, Ready
  <2>1. PICK N \in MEMORIES : InvOf(machine, pcb, pages, N)
    BY <2>0 DEF VmmInv
  <2>2. Dims(N) /\ N \in Int /\ Good(machine, N)
    BY <2>1, DimsHold DEF Dims, InvOf
  <2>3. \A q \in Ready : \E t, c, s : SpaceAt(machine, q, pcb[q].dir, t, c, s)
    BY <2>1 DEF InvOf, SpacesOk, Ready
  <2> DEFINE d == pcb[p].dir
  <2>4. PICK t, c, s : SpaceAt(machine, p, d, t, c, s)
    BY <2>3
  <2> HIDE DEF d
  <2>5. TablesOf(d) = {t} /\ PagesOf(d) = {CODE, STACK} /\ FramesOf(d) = {d, t, c, s}
    BY <2>2, <2>4, SpaceFramesOf
  <2>6. FramesOf(KDIR) \cap FramesOf(d) = {d} \cup TablesOf(d)
    <3>1. /\ d \in FramesOf(KDIR) /\ t \in FramesOf(KDIR)
          /\ c \notin FramesOf(KDIR) /\ s \notin FramesOf(KDIR)
      BY <2>2, <2>4, KernelSees
    <3> QED BY <2>5, <3>1
  <2>7. ASSUME NEW q \in Ready \ {p} PROVE FramesOf(d) \cap FramesOf(pcb[q].dir) = {}
    <3> DEFINE dd == pcb[q].dir
    <3>1. PICK tt, cc, ss : SpaceAt(machine, q, dd, tt, cc, ss)
      BY <2>3
    <3> HIDE DEF dd
    <3>2. FramesOf(dd) = {dd, tt, cc, ss}
      BY <2>2, <3>1, SpaceFramesOf
    <3>3. \A f : InSpace(f, d, t, c, s) => ~InSpace(f, dd, tt, cc, ss)
      BY <2>2, <2>4, <2>7, <3>1, SpacesApart
    <3>4. FramesOf(d) \cap FramesOf(dd) = {}
      BY <2>5, <3>2, <3>3 DEF InSpace
    <3> QED BY <3>4 DEF dd
  <2> QED BY <2>5, <2>6, <2>7 DEF d
<1> QED BY <1>1, VmmInvariant, PTL

-----------------------------------------------------------------------------
(* The refinement of Spaces.                                               *)

\* What is to be seen in the address space with directory d.
SpaceView(x, d) ==
  [code |-> Contents(x, d, CODE), stack |-> Contents(x, d, STACK), kernel |-> SeesKernel(x, d)]

View(p, tag) == [code |-> <<"code", p>>, stack |-> tag, kernel |-> TRUE]

LEMMA SpaceSeen ==
  ASSUME NEW N \in Int, NEW x, Good(x, N), Dims(N), NEW p, NEW d, NEW t, NEW c, NEW s,
         SpaceAt(x, p, d, t, c, s)
  PROVE  SpaceView(x, d) = View(p, x.mem[s][0].tag)
<1>1. SpaceWords(x, p, d, t, c, s) /\ SpacePages(x, d, c, s)
  BY SpaceIs, SpaceWalks
<1>2. c \in DOMAIN x.mem /\ s \in DOMAIN x.mem
  <2>1. c \in x.used /\ s \in x.used
    BY DEF SpaceAt, Loose, Plain
  <2>2. x.used \in SUBSET (0 .. N - 1) /\ DOMAIN x.mem = 0 .. N - 1
    BY GoodFields DEF Typed
  <2> QED BY <2>1, <2>2
<1>3. Contents(x, d, CODE) = <<"code", p>>
  <2>1. /\ Walk(x, d, CODE) = c /\ x.mem[c][0].tag = <<"code", p>>
        /\ \A i \in Index : x.mem[c][i] = x.mem[c][0]
    BY <1>1 DEF SpaceWords, SpacePages
  <2> QED BY <1>2, <2>1 DEF Contents
<1>4. Contents(x, d, STACK) = x.mem[s][0].tag
  <2>1. Walk(x, d, STACK) = s /\ \A i \in Index : x.mem[s][i] = x.mem[s][0]
    BY <1>1 DEF SpaceWords, SpacePages
  <2> QED BY <1>2, <2>1 DEF Contents
<1>5. SeesKernel(x, d) = TRUE
  <2> SUFFICES ASSUME NEW q \in {0, 1} \X Index PROVE Walk(x, d, q) = Walk(x, KDIR, q)
    BY DEF SeesKernel
  <2>1. q[1] = 0 \/ q[1] = 1
    OBVIOUS
  <2>2. x.mem[d][0] = x.mem[KDIR][0] /\ x.mem[d][1] = x.mem[KDIR][1]
    BY <1>1, GoodFields DEF SpaceWords
  <2>3. x.mem[d][q[1]] = x.mem[KDIR][q[1]]
    BY <2>1, <2>2
  <2> QED BY <2>3 DEF Walk
<1> QED BY <1>3, <1>4, <1>5 DEF SpaceView, View

LEMMA SpaceUnseen ==
  ASSUME NEW N \in Int, NEW x, NEW z, Good(x, N), Good(z, N), Dims(N), NEW p, NEW d, NEW t, NEW c, NEW s,
         SpaceAt(x, p, d, t, c, s), SpaceKept(x, z, p, d, t, c, s)
  PROVE  SpaceView(z, d) = SpaceView(x, d)
<1>1. SpaceAt(z, p, d, t, c, s) /\ z.mem[s] = x.mem[s]
  BY DEF SpaceKept
<1>2. SpaceView(z, d) = View(p, z.mem[s][0].tag)
  BY <1>1, SpaceSeen
<1>3. SpaceView(x, d) = View(p, x.mem[s][0].tag)
  BY SpaceSeen
<1> QED BY <1>1, <1>2, <1>3

LEMMA PageSeen ==
  ASSUME NEW N \in Int, NEW x, Good(x, N), Dims(N), NEW k, NEW q, HeldAt(x, k, q)
  PROVE  Contents(x, KDIR, q) = <<"kernel", k>>
<1>1. PICK f : Mapped(x, q, f) /\ x.mem[f] = Row(Data(<<"kernel", k>>))
  BY DEF HeldAt
<1>2. f \in DOMAIN x.mem /\ Walk(x, KDIR, q) = f /\ 0 \in Index
  <2>1. f \in 0 .. N - 1 /\ Walk(x, KDIR, q) = f
    BY <1>1, MappedPlain
  <2>2. Typed(x, N) /\ 0 \in Index
    BY GoodFields, Frames
  <2> QED BY <2>1, <2>2 DEF Typed
<1>3. Data(<<"kernel", k>>).tag = <<"kernel", k>>
  BY DEF Data, MemoryWord
<1>4. x.mem[f][0].tag = <<"kernel", k>> /\ \A i \in Index : x.mem[f][i] = x.mem[f][0]
  BY <1>1, <1>2, <1>3 DEF Row
<1> QED BY <1>2, <1>4 DEF Contents

\* The variables of Spaces.
ReadyIn(pc) == {p \in Procs : pc[p].state = "ready"}
SpacesView(x, pc) == [p \in ReadyIn(pc) |-> SpaceView(x, pc[p].dir)]
PagesView(x, pg) == [k \in DOMAIN pg |-> Contents(x, KDIR, pg[k])]

LEMMA SpacesSame ==
  ASSUME NEW N \in Int, NEW x, NEW z, NEW pc, NEW pg, NEW pg2, InvOf(x, pc, pg, N), InvOf(z, pc, pg2, N), Dims(N),
         \A p, d, t, c, s : SpaceAt(x, p, d, t, c, s) => SpaceKept(x, z, p, d, t, c, s)
  PROVE  SpacesView(z, pc) = SpacesView(x, pc)
<1>1. ASSUME NEW p \in ReadyIn(pc) PROVE SpaceView(z, pc[p].dir) = SpaceView(x, pc[p].dir)
  <2>1. PICK t, c, s : SpaceAt(x, p, pc[p].dir, t, c, s)
    BY DEF ReadyIn, InvOf, SpacesOk
  <2>2. SpaceKept(x, z, p, pc[p].dir, t, c, s) /\ Good(x, N) /\ Good(z, N)
    BY <2>1 DEF InvOf
  <2> QED BY <2>1, <2>2, SpaceUnseen
<1> QED BY <1>1 DEF SpacesView

LEMMA PagesSame ==
  ASSUME NEW N \in Int, NEW x, NEW z, Good(x, N), Good(z, N), Dims(N), NEW pg, HeldOk(x, pg), HeldOk(z, pg)
  PROVE  PagesView(z, pg) = PagesView(x, pg)
<1>1. ASSUME NEW k \in DOMAIN pg PROVE Contents(z, KDIR, pg[k]) = Contents(x, KDIR, pg[k])
  <2>1. HeldAt(x, k, pg[k]) /\ HeldAt(z, k, pg[k])
    BY DEF HeldOk
  <2>2. Contents(x, KDIR, pg[k]) = <<"kernel", k>>
    BY <2>1, PageSeen
  <2>3. Contents(z, KDIR, pg[k]) = <<"kernel", k>>
    BY <2>1, PageSeen
  <2> QED BY <2>2, <2>3
<1> QED BY <1>1 DEF PagesView

\* A process is created, or nothing is seen of the step.
CreateSeen(x, z, pc, pc2) ==
  \/ SpacesView(z, pc2) = SpacesView(x, pc)
  \/ \E p \in Procs : /\ p \notin ReadyIn(pc)
                      /\ SpacesView(z, pc2) = With(SpacesView(x, pc), p, View(p, <<"stack", p>>))

LEMMA CreateView ==
  ASSUME NEW N \in Int, Dims(N), NEW x, NEW z, NEW pc, NEW pc2, NEW pg, InvOf(x, pc, pg, N),
         CreateStep(x, z, pc, pc2, pg, N)
  PROVE  CreateSeen(x, z, pc, pc2)
<1>1. Keeps(x, z, N) /\ Creation(z, pc, pc2) /\ Good(z, N) /\ PcbType(pc)
  BY DEF CreateStep, InvOf, Keeps
<1>2. InvOf(z, pc, pg, N)
  BY <1>1, KeepsInv
<1>3. SpacesView(z, pc) = SpacesView(x, pc)
  <2>1. \A p, d, t, c, s : SpaceAt(x, p, d, t, c, s) => SpaceKept(x, z, p, d, t, c, s)
    BY <1>1 DEF Keeps
  <2> QED BY <1>2, <2>1, SpacesSame
<1>4. CASE pc2 = pc
  BY <1>3, <1>4 DEF CreateSeen
<1>5. ASSUME NEW p \in Procs, pc[p].state = "none", pc2 = [pc EXCEPT ![p] = Status("failed", 0)]
      PROVE  CreateSeen(x, z, pc, pc2)
  <2>1. Status("failed", 0).state = "failed"
    BY DEF Status
  <2>2. pc2[p].state = "failed" /\ \A q \in Procs : q # p => pc2[q] = pc[q]
    BY <1>1, <1>5, <2>1 DEF PcbType
  <2>3. ReadyIn(pc2) = ReadyIn(pc) /\ p \notin ReadyIn(pc)
    BY <1>5, <2>2 DEF ReadyIn
  <2>4. \A q \in ReadyIn(pc) : pc2[q] = pc[q]
    BY <2>2, <2>3 DEF ReadyIn
  <2>5. SpacesView(z, pc2) = SpacesView(z, pc)
    BY <2>3, <2>4 DEF SpacesView
  <2> QED BY <1>3, <2>5 DEF CreateSeen
<1>6. ASSUME NEW p, NEW d, Created(z, pc, p, d), pc2 = [pc EXCEPT ![p] = Status("ready", d)]
      PROVE  CreateSeen(x, z, pc, pc2)
  <2>1. Status("ready", d).state = "ready" /\ Status("ready", d).dir = d
    BY DEF Status
  <2>2. p \in Procs /\ pc[p].state = "none"
    BY <1>6 DEF Created
  <2>3. pc2[p].state = "ready" /\ pc2[p].dir = d /\ \A q \in Procs : q # p => pc2[q] = pc[q]
    BY <1>1, <1>6, <2>1, <2>2 DEF PcbType
  <2>4. ReadyIn(pc2) = ReadyIn(pc) \cup {p} /\ p \notin ReadyIn(pc)
    BY <2>2, <2>3 DEF ReadyIn
  <2>5. \A q \in ReadyIn(pc) : pc2[q] = pc[q] /\ q # p
    BY <2>3, <2>4 DEF ReadyIn
  <2>6. PICK t, c, s : SpaceAt(z, p, d, t, c, s) /\ z.mem[s] = Row(Data(<<"stack", p>>))
    BY <1>6 DEF Created
  <2>7. SpaceView(z, d) = View(p, <<"stack", p>>)
    <3>1. SpaceView(z, d) = View(p, z.mem[s][0].tag)
      BY <1>1, <2>6, SpaceSeen
    <3>2. Data(<<"stack", p>>).tag = <<"stack", p>> /\ 0 \in Index
      BY Frames DEF Data, MemoryWord
    <3>3. z.mem[s][0].tag = <<"stack", p>>
      BY <2>6, <3>2 DEF Row
    <3> QED BY <3>1, <3>3
  <2>8. SpacesView(z, pc2) = With(SpacesView(z, pc), p, View(p, <<"stack", p>>))
    BY <2>3, <2>4, <2>5, <2>7 DEF SpacesView, With
  <2>9. SpacesView(z, pc2) = With(SpacesView(x, pc), p, View(p, <<"stack", p>>))
    BY <1>3, <2>8
  <2> QED BY <2>2, <2>4, <2>9 DEF CreateSeen
<1> QED BY <1>1, <1>4, <1>5, <1>6 DEF Creation

LEMMA TakeView ==
  ASSUME NEW N \in Int, Dims(N), NEW x, NEW z, NEW pc, NEW pg, NEW pg2, NEW k, InvOf(x, pc, pg, N),
         TakeStep(x, z, pc, pg, pg2, N, k)
  PROVE  /\ SpacesView(z, pc) = SpacesView(x, pc)
         /\ \/ PagesView(z, pg2) = PagesView(x, pg)
            \/ PagesView(z, pg2) = With(PagesView(x, pg), k, <<"kernel", k>>)
<1>1. Keeps(x, z, N) /\ Good(x, N) /\ Good(z, N) /\ InvOf(z, pc, pg2, N)
  BY DEF TakeStep, InvOf
<1>2. InvOf(z, pc, pg, N)
  BY <1>1, KeepsInv
<1>3. SpacesView(z, pc) = SpacesView(x, pc)
  <2>1. \A p, d, t, c, s : SpaceAt(x, p, d, t, c, s) => SpaceKept(x, z, p, d, t, c, s)
    BY <1>1 DEF Keeps
  <2> QED BY <1>2, <2>1, SpacesSame
<1>4. PagesView(z, pg) = PagesView(x, pg)
  <2>1. HeldOk(x, pg) /\ HeldOk(z, pg)
    BY <1>2 DEF InvOf
  <2> QED BY <1>1, <2>1, PagesSame
<1>5. ASSUME NEW q, HeldAt(z, k, q), pg2 = With(pg, k, q)
      PROVE  PagesView(z, pg2) = With(PagesView(z, pg), k, <<"kernel", k>>)
  <2>1. Contents(z, KDIR, q) = <<"kernel", k>>
    BY <1>1, <1>5, PageSeen
  <2> DEFINE v == <<"kernel", k>>
  <2>2. DOMAIN pg2 = DOMAIN pg \cup {k} /\ pg2[k] = q /\ \A j \in DOMAIN pg : j # k => pg2[j] = pg[j]
    BY <1>5 DEF With
  <2> HIDE DEF v
  <2>3. PagesView(z, pg2) = With(PagesView(z, pg), k, v)
    BY <2>1, <2>2 DEF With, PagesView, v
  <2> QED BY <2>3 DEF v
<1>6. pg2 = pg \/ \E q : HeldAt(z, k, q) /\ pg2 = With(pg, k, q)
  BY DEF TakeStep
<1> QED BY <1>3, <1>4, <1>5, <1>6

\* The page of caller k is gone.
GiveSeen(x, z, pc, pg, pg2, k) ==
  /\ SpacesView(z, pc) = SpacesView(x, pc)
  /\ PagesView(z, pg2) = [j \in DOMAIN pg \ {k} |-> PagesView(x, pg)[j]]

LEMMA GiveView ==
  ASSUME NEW N \in Int, Dims(N), NEW x, NEW z, NEW pc, NEW pg, NEW pg2, NEW k, InvOf(x, pc, pg, N),
         GiveStep(x, z, pc, pg, pg2, N, k)
  PROVE  GiveSeen(x, z, pc, pg, pg2, k)
<1>1. /\ InvOf(z, pc, pg2, N) /\ pg2 = [j \in DOMAIN pg \ {k} |-> pg[j]] /\ Good(x, N) /\ Good(z, N)
      /\ \A p, d, t, c, s : SpaceAt(x, p, d, t, c, s) => SpaceKept(x, z, p, d, t, c, s)
  BY DEF GiveStep, InvOf
<1>2. SpacesView(z, pc) = SpacesView(x, pc)
  BY <1>1, SpacesSame
<1>3. DOMAIN pg2 = DOMAIN pg \ {k} /\ \A j \in DOMAIN pg2 : pg2[j] = pg[j] /\ j \in DOMAIN pg
  BY <1>1
<1>4. HeldOk(x, pg2) /\ HeldOk(z, pg2)
  BY <1>1, <1>3 DEF InvOf, HeldOk
<1>5. PagesView(z, pg2) = PagesView(x, pg2)
  BY <1>1, <1>4, PagesSame
<1>6. PagesView(x, pg2) = [j \in DOMAIN pg \ {k} |-> PagesView(x, pg)[j]]
  BY <1>3 DEF PagesView
<1> QED BY <1>2, <1>5, <1>6 DEF GiveSeen

LEMMA RunView ==
  ASSUME NEW N \in Int, Dims(N), NEW x, NEW z, NEW pc, NEW pg, NEW p \in ReadyIn(pc), InvOf(x, pc, pg, N),
         RunStep(x, z, pc, pg, N, p)
  PROVE  /\ PagesView(z, pg) = PagesView(x, pg)
         /\ SpacesView(z, pc) = [SpacesView(x, pc) EXCEPT ![p].stack = <<"used", p>>]
<1>1. InvOf(z, pc, pg, N) /\ Good(x, N) /\ Good(z, N) /\ HeldOk(x, pg) /\ HeldOk(z, pg)
  BY DEF RunStep, InvOf
<1>2. PagesView(z, pg) = PagesView(x, pg)
  BY <1>1, PagesSame
<1>3. ASSUME NEW q \in ReadyIn(pc), q # p PROVE SpaceView(z, pc[q].dir) = SpaceView(x, pc[q].dir)
  <2>1. PICK t, c, s : SpaceAt(x, q, pc[q].dir, t, c, s)
    BY DEF ReadyIn, InvOf, SpacesOk
  <2>2. SpaceKept(x, z, q, pc[q].dir, t, c, s)
    BY <1>3, <2>1 DEF RunStep
  <2> QED BY <1>1, <2>1, <2>2, SpaceUnseen
<1> DEFINE d == pc[p].dir
           tag == <<"used", p>>
<1>4. PICK t, c, s : /\ SpaceAt(z, p, d, t, c, s) /\ z.mem[s] = Row(Data(tag))
                     /\ SpaceAt(x, p, d, t, c, s)
  BY DEF RunStep
<1>5. SpaceView(z, d) = View(p, tag)
  <2>1. SpaceView(z, d) = View(p, z.mem[s][0].tag)
    BY <1>1, <1>4, SpaceSeen
  <2>2. Data(tag).tag = tag /\ 0 \in Index
    BY Frames DEF Data, MemoryWord
  <2>3. z.mem[s][0].tag = tag
    BY <1>4, <2>2 DEF Row
  <2> QED BY <2>1, <2>3
<1>6. SpaceView(x, d) = View(p, x.mem[s][0].tag)
  BY <1>1, <1>4, SpaceSeen
<1>7. [SpaceView(x, d) EXCEPT !.stack = tag] = View(p, tag)
  <2> DEFINE old == x.mem[s][0].tag
  <2> HIDE DEF old, tag
  <2>1. \A a, b, e, g : [[code |-> a, stack |-> b, kernel |-> e] EXCEPT !.stack = g]
                          = [code |-> a, stack |-> g, kernel |-> e]
    OBVIOUS
  <2>2. PICK e : e = TRUE
    OBVIOUS
  <2>3. /\ View(p, old) = [code |-> <<"code", p>>, stack |-> old, kernel |-> e]
        /\ View(p, tag) = [code |-> <<"code", p>>, stack |-> tag, kernel |-> e]
    BY <2>2 DEF View
  <2> QED BY <1>6, <2>1, <2>3 DEF old
<1>8. SpacesView(z, pc) = [SpacesView(x, pc) EXCEPT ![p] = SpaceView(z, d)]
  BY <1>3 DEF SpacesView
<1>9. [SpacesView(x, pc) EXCEPT ![p].stack = tag] = [SpacesView(x, pc) EXCEPT ![p] = [SpaceView(x, d) EXCEPT !.stack = tag]]
  <2>1. SpacesView(x, pc)[p] = SpaceView(x, d)
    BY DEF SpacesView
  <2> QED BY <2>1
<1> QED BY <1>2, <1>5, <1>7, <1>8, <1>9

LEMMA SpacesStart == VmmInit => Promise!Init
<1> SUFFICES ASSUME VmmInit PROVE Promise!Init
  OBVIOUS
<1>1. \A p \in Procs : pcb[p].state = "none"
  BY DEF VmmInit
<1>2. Ready = {} /\ DOMAIN pages = {}
  BY <1>1 DEF VmmInit, Ready
<1> QED BY <1>2 DEF Promise!Init

\* Before the first kmalloc there is nothing to be seen.
LEMMA SpacesBegin ==
  ASSUME VmmInit, [VmmNext]_vmmVars PROVE UNCHANGED Promise!vars
<1>1. pcb' = pcb /\ pages' = pages
  BY InitSteps DEF InitLists, vmmVars
<1>2. \A p \in Procs : pcb[p].state = "none"
  BY DEF VmmInit
<1>3. Ready = {} /\ Ready' = {} /\ DOMAIN pages = {}
  BY <1>1, <1>2 DEF VmmInit, Ready
<1> QED BY <1>1, <1>3 DEF Promise!vars

LEMMA SpacesStep == VmmInv /\ [VmmNext]_vmmVars => [Promise!Next]_(Promise!vars)
<1> SUFFICES ASSUME VmmInv, ~VmmInit, [VmmNext]_vmmVars PROVE [Promise!Next]_(Promise!vars)
  BY SpacesBegin
<1> DEFINE sp == [p \in Ready |-> [code   |-> Contents(machine, pcb[p].dir, CODE),
                                   stack  |-> Contents(machine, pcb[p].dir, STACK),
                                   kernel |-> SeesKernel(machine, pcb[p].dir)]]
           pp == [k \in DOMAIN pages |-> Contents(machine, KDIR, pages[k])]
<1>0. PICK N \in MEMORIES : InvOf(machine, pcb, pages, N)
  BY DEF VmmInv
<1>1. Dims(N) /\ N \in Int
  BY DimsHold DEF Dims
<1>2. /\ sp = SpacesView(machine, pcb) /\ pp = PagesView(machine, pages) /\ DOMAIN sp = ReadyIn(pcb)
      /\ DOMAIN pp = DOMAIN pages
  BY DEF SpacesView, PagesView, SpaceView, Ready, ReadyIn
<1>3. sp' = SpacesView(machine', pcb') /\ pp' = PagesView(machine', pages')
  BY DEF SpacesView, PagesView, SpaceView, Ready, ReadyIn
<1>4. sp' = sp /\ pp' = pp => UNCHANGED Promise!vars
  BY DEF Promise!vars
<1>5. /\ Promise!vars = <<sp, pp>>
      /\ Promise!Next = (\/ \E p \in Procs : Promise!Create(p) \/ Promise!Run(p)
                         \/ \E k \in Callers : Promise!Take(k) \/ Promise!Give(k))
  BY DEF Promise!vars, Promise!Next
<1>6. /\ \A p : Promise!Create(p) <=>
           p \notin DOMAIN sp /\ sp' = With(sp, p, View(p, <<"stack", p>>)) /\ pp' = pp
      /\ \A p : Promise!Run(p) <=>
           p \in DOMAIN sp /\ sp' = [sp EXCEPT ![p].stack = <<"used", p>>] /\ pp' = pp
  BY DEF Promise!Create, Promise!Run, Promise!With, With, Promise!Fresh, View
<1>7. /\ \A k : Promise!Take(k) <=>
           k \notin DOMAIN pp /\ pp' = With(pp, k, <<"kernel", k>>) /\ sp' = sp
      /\ \A k : Promise!Give(k) <=>
           k \in DOMAIN pp /\ pp' = [j \in DOMAIN pp \ {k} |-> pp[j]] /\ sp' = sp
  BY DEF Promise!Take, Promise!Give, Promise!With, With
<1> HIDE DEF sp, pp
<1>8. CASE CreatePcb
  <2>1. CreateStep(machine, machine', pcb, pcb', pages', N) /\ pages' = pages
    BY <1>0, <1>8, CreatePcbStep
  <2>2. CreateSeen(machine, machine', pcb, pcb')
    BY <1>0, <1>1, <2>1, CreateView
  <2>3. pp' = pp
    <3>1. /\ Good(machine, N) /\ Good(machine', N) /\ HeldOk(machine, pages) /\ HeldOk(machine', pages)
      BY <1>0, <2>1 DEF InvOf, CreateStep
    <3>2. PagesView(machine', pages) = PagesView(machine, pages)
      BY <1>1, <3>1, PagesSame
    <3> QED BY <1>2, <1>3, <2>1, <3>2
  <2>4. CASE sp' = sp
    BY <1>4, <2>3, <2>4
  <2>5. CASE sp' # sp
    <3>1. PICK p \in Procs : p \notin DOMAIN sp /\ sp' = With(sp, p, View(p, <<"stack", p>>))
      BY <1>2, <1>3, <2>2, <2>5 DEF CreateSeen
    <3>2. Promise!Create(p)
      BY <1>6, <2>3, <3>1
    <3> QED BY <1>5, <3>2
  <2> QED BY <2>4, <2>5
<1>9. ASSUME NEW k \in Callers, GetNewPage(k) PROVE [Promise!Next]_(Promise!vars)
  <2>1. /\ TakeStep(machine, machine', pcb', pages, pages', N, k) /\ pcb' = pcb
        /\ k \notin DOMAIN pages
    BY <1>0, <1>9, GetNewPageStep
  <2>2. TakeStep(machine, machine', pcb, pages, pages', N, k)
    BY <2>1
  <2>3. /\ SpacesView(machine', pcb) = SpacesView(machine, pcb)
        /\ \/ PagesView(machine', pages') = PagesView(machine, pages)
           \/ PagesView(machine', pages') = With(PagesView(machine, pages), k, <<"kernel", k>>)
    BY <1>0, <1>1, <2>2, TakeView
  <2>4. sp' = sp /\ (pp' = pp \/ pp' = With(pp, k, <<"kernel", k>>)) /\ k \notin DOMAIN pp
    BY <1>2, <1>3, <2>1, <2>3
  <2>5. (sp' = sp /\ pp' = pp) \/ Promise!Take(k)
    BY <1>7, <2>4
  <2> QED BY <1>4, <1>5, <2>5
<1>10. ASSUME NEW k \in Callers, FreePage(k) PROVE [Promise!Next]_(Promise!vars)
  <2>1. GiveStep(machine, machine', pcb', pages, pages', N, k) /\ pcb' = pcb /\ k \in DOMAIN pages
    BY <1>0, <1>10, FreePageStep
  <2>2. GiveStep(machine, machine', pcb, pages, pages', N, k)
    BY <2>1
  <2>3. GiveSeen(machine, machine', pcb, pages, pages', k)
    BY <1>0, <1>1, <2>2, GiveView
  <2>4. sp' = sp /\ pp' = [j \in DOMAIN pp \ {k} |-> pp[j]] /\ k \in DOMAIN pp
    BY <1>2, <1>3, <2>1, <2>3 DEF GiveSeen
  <2>5. Promise!Give(k)
    BY <1>7, <2>4
  <2> QED BY <1>5, <2>5
<1>11. CASE EnableInterrupts
  <2>1. sp' = sp /\ pp' = pp
    BY <1>2, <1>3, <1>11 DEF EnableInterrupts
  <2> QED BY <1>4, <2>1
<1>12. ASSUME NEW p \in Procs, RunProcess(p) PROVE [Promise!Next]_(Promise!vars)
  <2>1. /\ RunStep(machine, machine', pcb', pages', N, p) /\ pcb' = pcb /\ pages' = pages
        /\ pcb[p].state = "ready"
    BY <1>0, <1>12, RunProcessStep
  <2>2. RunStep(machine, machine', pcb, pages, N, p) /\ p \in ReadyIn(pcb)
    BY <2>1 DEF ReadyIn
  <2>3. /\ PagesView(machine', pages) = PagesView(machine, pages)
        /\ SpacesView(machine', pcb) = [SpacesView(machine, pcb) EXCEPT ![p].stack = <<"used", p>>]
    BY <1>0, <1>1, <2>2, RunView
  <2>4. pp' = pp /\ sp' = [sp EXCEPT ![p].stack = <<"used", p>>] /\ p \in DOMAIN sp
    BY <1>2, <1>3, <2>1, <2>2, <2>3
  <2>5. Promise!Run(p)
    BY <1>6, <2>4
  <2> QED BY <1>5, <2>5
<1>13. CASE UNCHANGED vmmVars
  <2>1. sp' = sp /\ pp' = pp
    BY <1>2, <1>3, <1>13 DEF vmmVars
  <2> QED BY <1>4, <2>1
<1>14. CASE Schedule
  <2>1. /\ InvOf(machine', pcb, pages, N) /\ Keeps(machine, machine', N)
        /\ pcb' = pcb /\ pages' = pages
    BY <1>0, <1>14, ScheduleStep
  <2>2. SpacesView(machine', pcb) = SpacesView(machine, pcb)
    <3>1. \A p, d, t, c, s : SpaceAt(machine, p, d, t, c, s) => SpaceKept(machine, machine', p, d, t, c, s)
      BY <2>1 DEF Keeps
    <3> QED BY <1>0, <1>1, <2>1, <3>1, SpacesSame
  <2>3. PagesView(machine', pages) = PagesView(machine, pages)
    <3>1. /\ Good(machine, N) /\ Good(machine', N) /\ HeldOk(machine, pages) /\ HeldOk(machine', pages)
      BY <1>0, <2>1 DEF InvOf
    <3> QED BY <1>1, <3>1, PagesSame
  <2>4. sp' = sp /\ pp' = pp
    BY <1>2, <1>3, <2>1, <2>2, <2>3
  <2> QED BY <1>4, <2>4
<1>15. ~InitLists
  BY <1>0, InvBooted DEF InitLists
<1> QED BY <1>8, <1>9, <1>10, <1>11, <1>12, <1>13, <1>14, <1>15 DEF VmmNext

\* The memory manager keeps the promise of Spaces: every step of kernel_main, of a
\* caller and of a process is a step of Spaces or changes nothing that a process
\* or a caller can see through its own page tables.
THEOREM SpacesImplemented == VmmSpec => ImplementsSpaces
BY VmmInvariant, SpacesStart, SpacesStep, PTL DEF VmmSpec, ImplementsSpaces, Promise!Spec

=============================================================================
