----------------------------- MODULE HeapProofs -----------------------------
(***************************************************************************)
(* Theorems about the heap, for any number and size of pages, blocks and   *)
(* frames and requests of any size.                                        *)
(***************************************************************************)
EXTENDS Heap, FiniteSetTheorems, SequenceTheorems, TLAPS

Arena == [desc : 0..DESC_CNT, cnt : Nat, large : BOOLEAN]
LargeArena(n) == [desc |-> 0, cnt |-> n, large |-> TRUE]

HeapType ==
  /\ vbits \in [Bytes -> Byte] /\ frames \subseteq Frame
  /\ pte \in [Page -> [frame : Frame, p : BOOLEAN]]
  /\ arena \in [Page -> Arena]
  /\ free \in [Desc -> Seq(Page \X Nat)] /\ live \subseteq Page \X Nat

(* The pages present are those of the arenas, which do not overlap.        *)
PagesOK ==
  /\ \A p \in Page :
       /\ p < Size => (Present(p) <=> Used(vbits, p))
       /\ Present(p) <=> \E r \in Page : p \in Extent(r)
       /\ arena[p] # NoArena => p \in Extent(p) /\ Extent(p) \subseteq Page
       /\ arena[p] # NoArena => (arena[p].large <=> arena[p].desc = 0)
  /\ \A r, s \in Page : r # s => Extent(r) \cap Extent(s) = {}

FramesOK ==
  /\ \A p, q \in Page : Present(p) /\ Present(q) /\ pte[p].frame = pte[q].frame => p = q
  /\ \A f \in Frame : f \in frames <=> \E p \in Page : Present(p) /\ pte[p].frame = f

ListsOK ==
  \A d \in Desc :
    /\ \A i, j \in DOMAIN free[d] : free[d][i] = free[d][j] => i = j
    /\ \A i \in DOMAIN free[d] : LET b == free[d][i] IN
         b \notin live /\ b \in Blocks(b[1], d) /\ arena[b[1]].desc = d

LiveOK ==
  \A b \in live :
    /\ arena[b[1]] # NoArena
    /\ IF arena[b[1]].desc = 0 THEN b[2] = 0 ELSE b \in Blocks(b[1], arena[b[1]].desc)

(* Every block of an arena is in use or in the list, and the counter       *)
(* counts the latter; one at least is in use.                              *)
CountsOK ==
  \A p \in Page, d \in Desc : arena[p].desc = d =>
    /\ \A b \in Blocks(p, d) : b \in live \/ InList(free[d], b)
    /\ arena[p].cnt = Cardinality(FreeBlocks(p, d))
    /\ \E b \in live : b[1] = p

HeapInv == HeapType /\ PagesOK /\ FramesOK /\ ListsOK /\ LiveOK /\ CountsOK
-----------------------------------------------------------------------------
(* bitmap_scan and bitmap_set for one bit: the place of a bit is a byte    *)
(* and a position in it, and the other way round.                          *)
LEMMA Place ==
  ASSUME NEW n \in Nat, n > 0, NEW p \in Nat
  PROVE  p \div n \in 0..p /\ p % n \in 0..(n - 1) /\ p = (p \div n) * n + (p % n)
<1>1. p \div n \in Nat /\ p % n \in 0..(n - 1)
  OBVIOUS
<1>2. p = n * (p \div n) + (p % n)
  OBVIOUS
<1>3. p \div n <= p
  OBVIOUS
<1> QED
  BY <1>1, <1>2, <1>3

LEMMA PlaceBack ==
  ASSUME NEW n \in Nat, n > 0, NEW i \in Nat, NEW k \in 0..(n - 1)
  PROVE  (i * n + k) \div n = i /\ (i * n + k) % n = k
OBVIOUS

LEMMA Shape ==
  /\ W \in Nat /\ W > 0 /\ btmp_bytes_len \in Nat /\ btmp_bytes_len > 0
  /\ Size \in Nat /\ btmp_bytes_len <= Size
<1>1. W \in Nat /\ W > 0 /\ btmp_bytes_len \in Nat /\ btmp_bytes_len > 0
  BY BitmapAssumption DEF BitmapAssumption
<1>2. btmp_bytes_len * W \in Nat /\ btmp_bytes_len <= btmp_bytes_len * W
  BY <1>1
<1> QED
  BY <1>1, <1>2 DEF Size

LEMMA LeastOK ==
  ASSUME NEW S \in SUBSET Nat, S # {}
  PROVE  Least(S) \in S /\ \A y \in S : Least(S) <= y
<1> DEFINE Below(x) == 0 .. (x - 1)
           T == {Below(x) : x \in S}
           R == StrictSubsetOrdering(Nat)
<1>1. T # {} /\ T \subseteq FiniteSubsetsOf(Nat)
  <2>1. ASSUME NEW x \in S PROVE Below(x) \subseteq Nat /\ IsFiniteSet(Below(x))
    <3>1. x - 1 \in Int /\ 0 \in Int
      OBVIOUS
    <3> QED
      BY <3>1, FS_Interval
  <2> HIDE DEF Below
  <2> QED
    BY <2>1 DEF FiniteSubsetsOf
<1>2. PICK m \in T : \A n \in T : ~(<<n, m>> \in R)
  <2> HIDE DEF T, R
  <2> QED
    BY <1>1, FS_StrictSubsetOrderingWellFounded, WFMin DEF R
<1>3. PICK x \in S : m = Below(x)
  BY <1>2
<1>4. \A y \in S : x <= y
  <2> SUFFICES ASSUME NEW y \in S, y < x PROVE FALSE
    OBVIOUS
  <2>1. Below(y) \subseteq Below(x) /\ y \in Below(x) /\ y \notin Below(y) /\ Below(x) \subseteq Nat
    OBVIOUS
  <2> HIDE DEF Below
  <2>2. <<Below(y), Below(x)>> \in StrictSubsetOrdering(Nat)
    BY <2>1 DEF StrictSubsetOrdering
  <2> QED
    BY <1>2, <1>3, <2>2
<1> QED
  BY <1>4 DEF Least

LEMMA ScanOK ==
  ASSUME NEW b \in [Bytes -> Byte], ~Full(b)
  PROVE  FirstFree(b) \in 0..(Size - 1) /\ ~Used(b, FirstFree(b))
<1>1. PICK i : i = Least(NotFull(b))
  OBVIOUS
<1>2. i \in 0..(btmp_bytes_len - 1) /\ b[i] # 0..(W - 1)
  <2>1. NotFull(b) \in SUBSET Nat /\ NotFull(b) # {}
    BY Shape DEF NotFull, Full
  <2> QED
    BY <1>1, <2>1, LeastOK DEF NotFull
<1>3. PICK k : k = Least(0..(W - 1) \ b[i])
  OBVIOUS
<1>4. k \in 0..(W - 1) /\ k \notin b[i]
  <2>1. i \in Bytes
    BY <1>2, Shape DEF Bytes
  <2>2. b[i] \subseteq 0..(W - 1)
    BY <2>1 DEF Byte
  <2>3. PICK free1 : free1 = (0..(W - 1)) \ b[i]
    OBVIOUS
  <2>4. free1 # {}
    BY <1>2, <2>2, <2>3
  <2>5. free1 \subseteq 0..(W - 1) /\ 0..(W - 1) \subseteq Nat
    BY <2>3
  <2> QED
    BY <1>3, <2>3, <2>4, <2>5, LeastOK
<1>5. FirstFree(b) = i * W + k
  BY <1>1, <1>3 DEF FirstFree
<1>6. (i * W + k) \div W = i /\ (i * W + k) % W = k
  BY <1>2, <1>4, Shape, PlaceBack
<1>7. i * W + k \in 0..(btmp_bytes_len * W - 1)
  BY <1>2, <1>4, Shape
<1> QED
  BY <1>4, <1>5, <1>6, <1>7 DEF Used, Size

LEMMA SetOK ==
  ASSUME NEW b \in [Bytes -> Byte], NEW S
  PROVE  /\ bitmap_set(b, S, 1) \in [Bytes -> Byte] /\ bitmap_set(b, S, 0) \in [Bytes -> Byte]
         /\ \A q \in Page : Used(bitmap_set(b, S, 1), q) <=> q \in S \/ Used(b, q)
         /\ \A q \in Page : Used(bitmap_set(b, S, 0), q) <=> q \notin S /\ Used(b, q)
<1>1. bitmap_set(b, S, 1) \in [Bytes -> Byte] /\ bitmap_set(b, S, 0) \in [Bytes -> Byte]
  BY DEF bitmap_set, Bits, Byte
<1>2. ASSUME NEW q \in Page
      PROVE  /\ Used(bitmap_set(b, S, 1), q) <=> q \in S \/ Used(b, q)
             /\ Used(bitmap_set(b, S, 0), q) <=> q \notin S /\ Used(b, q)
  <2>1. PICK n, k : n = q \div W /\ k = q % W
    OBVIOUS
  <2>2. q \in Nat /\ n \in 0..q /\ k \in 0..(W - 1) /\ q = n * W + k
    BY <2>1, Place, Shape DEF Page
  <2>3. n \in Bytes
    BY <2>2, Shape DEF Page, Bytes
  <2>4. k \in Bits(S, n) <=> q \in S
    BY <2>2 DEF Bits
  <2>5. bitmap_set(b, S, 1)[n] = b[n] \cup Bits(S, n) /\ bitmap_set(b, S, 0)[n] = b[n] \ Bits(S, n)
    BY <2>3 DEF bitmap_set
  <2> QED
    BY <2>1, <2>4, <2>5 DEF Used
<1> QED
  BY <1>1, <1>2

-----------------------------------------------------------------------------
(* The n-th element of a finite set of numbers: there is one for each n    *)
(* below the number of elements, and each element is one.                  *)
Below(S, x) == Cardinality({y \in S : y < x})

LEMMA BelowOK ==
  ASSUME NEW S \in SUBSET Nat, IsFiniteSet(S)
  PROVE  /\ \A x \in S : Below(S, x) \in 0..(Cardinality(S) - 1)
         /\ \A x, y \in S : Below(S, x) = Below(S, y) => x = y
         /\ \A n \in 0..(Cardinality(S) - 1) : \E x \in S : Below(S, x) = n
<1> DEFINE B(x) == {y \in S : y < x}
<1>1. Cardinality(S) \in Nat
  BY FS_CardinalityType
<1>2. ASSUME NEW x \in S PROVE IsFiniteSet(B(x)) /\ Below(S, x) \in 0..(Cardinality(S) - 1)
  <2>1. B(x) \subseteq S /\ x \notin B(x)
    OBVIOUS
  <2>2. Below(S, x) = Cardinality(B(x))
    BY DEF Below
  <2> HIDE DEF B
  <2>3. IsFiniteSet(B(x)) /\ Cardinality(B(x)) <= Cardinality(S) /\ Cardinality(B(x)) # Cardinality(S)
    BY <2>1, FS_Subset
  <2>4. Cardinality(B(x)) \in Nat
    BY <2>3, FS_CardinalityType
  <2> QED
    BY <1>1, <2>2, <2>3, <2>4
<1>3. ASSUME NEW x \in S, NEW y \in S, x < y PROVE Below(S, x) # Below(S, y)
  <2>0. x \in Nat /\ y \in Nat
    OBVIOUS
  <2>1. x \in B(y) /\ x \notin B(x) /\ \A z \in S : z < x => z < y
    BY <1>3, <2>0
  <2>3. B(x) \subseteq B(y)
    BY <2>1
  <2>2. Below(S, x) = Cardinality(B(x)) /\ Below(S, y) = Cardinality(B(y))
    BY DEF Below
  <2> HIDE DEF B
  <2>4. IsFiniteSet(B(y)) /\ B(x) # B(y)
    BY <1>2, <2>1
  <2> QED
    BY <2>2, <2>3, <2>4, FS_Subset
<1>4. \A x, y \in S : Below(S, x) = Below(S, y) => x = y
  BY <1>3
<1>5. \A n \in 0..(Cardinality(S) - 1) : \E x \in S : Below(S, x) = n
  <2> DEFINE T == 0..(Cardinality(S) - 1)
             c == [x \in S |-> Below(S, x)]
  <2>1. c \in Injection(S, T)
    BY <1>2, <1>4 DEF Injection, IsInjective
  <2>2. IsFiniteSet(T) /\ Cardinality(T) = Cardinality(S)
    <3>1. PICK n \in Nat : n = Cardinality(S)
      BY <1>1
    <3>2. 0 \in Int /\ n - 1 \in Int /\ (IF 0 > n - 1 THEN 0 ELSE n - 1 - 0 + 1) = n
      BY <3>1
    <3> QED
      BY <3>1, <3>2, FS_Interval
  <2>3. c \in Surjection(S, T)
    <3> HIDE DEF T, c
    <3> QED
      BY <2>1, <2>2, FS_Injection
  <2> QED
    BY <2>3 DEF Surjection
<1> QED
  BY <1>2, <1>4, <1>5

LEMMA NthOK ==
  ASSUME NEW S \in SUBSET Nat, IsFiniteSet(S)
  PROVE  /\ \A n \in 0..(Cardinality(S) - 1) : Nth(S, n) \in S /\ Below(S, Nth(S, n)) = n
         /\ \A x \in S : Nth(S, Below(S, x)) = x
<1>1. ASSUME NEW n \in 0..(Cardinality(S) - 1) PROVE Nth(S, n) \in S /\ Below(S, Nth(S, n)) = n
  <2>1. \E x \in S : Below(S, x) = n
    BY BelowOK
  <2> QED
    BY <2>1 DEF Nth, Below
<1>2. ASSUME NEW x \in S PROVE Nth(S, Below(S, x)) = x
  <2>1. PICK n \in 0..(Cardinality(S) - 1) : n = Below(S, x)
    BY BelowOK
  <2>2. Nth(S, n) \in S /\ Below(S, Nth(S, n)) = Below(S, x)
    BY <1>1, <2>1
  <2>3. \A y, z \in S : Below(S, y) = Below(S, z) => y = z
    BY BelowOK
  <2>4. Nth(S, n) = x
    BY <2>2, <2>3
  <2> QED
    BY <2>1, <2>4
<1> QED
  BY <1>1, <1>2

(* The blocks of an arena.                                                 *)
LEMMA BlocksOK ==
  ASSUME NEW p, NEW d \in Desc
  PROVE  /\ blocks_per_arena(d) \in Nat \ {0}
         /\ IsFiniteSet(Blocks(p, d)) /\ Cardinality(Blocks(p, d)) = blocks_per_arena(d)
         /\ BlockSeq(p, d) \in Seq(Blocks(p, d)) /\ Len(BlockSeq(p, d)) = blocks_per_arena(d)
         /\ \A b : b \in Blocks(p, d) <=> \E i \in 1..blocks_per_arena(d) : b = BlockSeq(p, d)[i]
         /\ \A i, j \in 1..blocks_per_arena(d) : BlockSeq(p, d)[i] = BlockSeq(p, d)[j] => i = j
<1>1. PICK n : n = blocks_per_arena(d)
  OBVIOUS
<1>2. n \in Nat \ {0}
  <2>1. PICK s, t : s = block_size(d) /\ t = PG_SIZE - ARENA
    OBVIOUS
  <2>2. s \in 1..t /\ PG_SIZE \in Nat /\ ARENA \in Nat
    BY <2>1, HeapAssumption DEF HeapAssumption
  <2>3. t \in Int
    BY <2>1, <2>2
  <2>4. t \div s \in Nat /\ t \div s # 0
    BY <2>2, <2>3
  <2> QED
    BY <1>1, <2>1, <2>4 DEF blocks_per_arena
<1> DEFINE f == [i \in 1..n |-> <<p, i - 1>>]
           T == {<<p, i>> : i \in 0..(n - 1)}
<1>3. f = BlockSeq(p, d) /\ T = Blocks(p, d)
  BY <1>1 DEF BlockSeq, Blocks
<1>4. f \in [1..n -> T] /\ \A i, j \in 1..n : f[i] = f[j] => i = j
  BY <1>2
<1>5. ASSUME NEW b \in T PROVE \E i \in 1..n : b = f[i]
  <2>1. PICK i \in 0..(n - 1) : b = <<p, i>>
    BY <1>5
  <2>2. i + 1 \in 1..n /\ f[i + 1] = <<p, i>>
    BY <1>2, <2>1
  <2> QED
    BY <2>1, <2>2
<1>6. f \in Bijection(1..n, T)
  BY <1>4, <1>5 DEF Bijection, Injection, IsInjective, Surjection
<1> HIDE DEF f, T
<1>7. IsFiniteSet(T) /\ Cardinality(T) = n
  <2>1. IsFiniteSet(1..n) /\ Cardinality(1..n) = n
    BY <1>2, FS_Interval
  <2>2. ExistsBijection(1..n, T)
    BY <1>6 DEF ExistsBijection
  <2> QED
    BY <2>1, <2>2, FS_Bijection
<1>8. f \in Seq(T) /\ Len(f) = n
  BY <1>2, <1>4
<1> QED
  BY <1>1, <1>2, <1>3, <1>4, <1>5, <1>7, <1>8

(* What is left of a list without duplicates when the blocks of an arena   *)
(* are taken out.                                                          *)
LEMMA RemoveArenaOK ==
  ASSUME NEW S, NEW q \in Seq(S), \A i, j \in DOMAIN q : q[i] = q[j] => i = j, NEW p,
         NEW r, r = RemoveArena(q, p)
  PROVE  /\ r \in Seq(S)
         /\ \A i, j \in DOMAIN r : r[i] = r[j] => i = j
         /\ \A b : InList(r, b) <=> InList(q, b) /\ b[1] # p
<1> DEFINE K == {k \in DOMAIN q : q[k][1] # p}
<1>1. K \in SUBSET Nat /\ IsFiniteSet(K) /\ K \subseteq DOMAIN q
  <2>1. DOMAIN q = 1..Len(q) /\ Len(q) \in Nat
    OBVIOUS
  <2>2. IsFiniteSet(1..Len(q)) /\ K \subseteq 1..Len(q) /\ 1..Len(q) \subseteq Nat
    BY <2>1, FS_Interval
  <2> HIDE DEF K
  <2> QED
    BY <2>1, <2>2, FS_Subset
<1>2. PICK n : n = Cardinality(K)
  OBVIOUS
<1>3. r = [i \in 1..n |-> q[Nth(K, i - 1)]]
  BY <1>2 DEF RemoveArena
<1>4. \A k : k \in K <=> k \in DOMAIN q /\ q[k][1] # p
  OBVIOUS
<1> HIDE DEF K
<1>5. n \in Nat
  BY <1>1, <1>2, FS_CardinalityType
<1>6. ASSUME NEW i \in 1..n PROVE Nth(K, i - 1) \in K /\ Below(K, Nth(K, i - 1)) = i - 1
  <2>1. i - 1 \in 0..(n - 1)
    BY <1>5
  <2> QED
    BY <1>1, <1>2, <2>1, NthOK
<1>7. DOMAIN r = 1..n /\ r \in [1..n -> S]
  <2>1. ASSUME NEW i \in 1..n PROVE q[Nth(K, i - 1)] \in S
    <3>1. Nth(K, i - 1) \in DOMAIN q
      BY <1>1, <1>6
    <3> QED
      BY <3>1
  <2> QED
    BY <1>3, <2>1
<1>8. r \in Seq(S)
  BY <1>5, <1>7
<1>9. ASSUME NEW i \in 1..n, NEW j \in 1..n, r[i] = r[j] PROVE i = j
  <2>1. Nth(K, i - 1) = Nth(K, j - 1)
    BY <1>1, <1>3, <1>6, <1>9
  <2>2. i - 1 = j - 1
    BY <1>6, <2>1
  <2> QED
    BY <1>5, <2>2
<1>10. ASSUME NEW b, InList(q, b), b[1] # p PROVE InList(r, b)
  <2>1. PICK k \in DOMAIN q : q[k] = b
    BY <1>10 DEF InList
  <2>2. k \in K
    BY <1>4, <1>10, <2>1
  <2>3. Below(K, k) \in 0..(n - 1) /\ Nth(K, Below(K, k)) = k
    BY <1>1, <1>2, <2>2, BelowOK, NthOK
  <2>4. Below(K, k) + 1 \in 1..n /\ (Below(K, k) + 1) - 1 = Below(K, k)
    BY <1>5, <2>3
  <2>5. r[Below(K, k) + 1] = b
    BY <1>3, <2>1, <2>3, <2>4
  <2> QED
    BY <1>7, <2>4, <2>5 DEF InList
<1>11. ASSUME NEW b, InList(r, b) PROVE InList(q, b) /\ b[1] # p
  <2>1. PICK i \in 1..n : r[i] = b
    BY <1>7, <1>11 DEF InList
  <2>2. b = q[Nth(K, i - 1)]
    BY <1>3, <2>1
  <2> QED
    BY <1>4, <1>6, <2>2 DEF InList
<1> QED
  BY <1>7, <1>8, <1>9, <1>10, <1>11
-----------------------------------------------------------------------------
(* Taking the head of a list, and putting an element at its end.           *)
LEMMA TailOK ==
  ASSUME NEW S, NEW q \in Seq(S), q # <<>>, \A i, j \in DOMAIN q : q[i] = q[j] => i = j
  PROVE  /\ Head(q) \in S /\ InList(q, Head(q)) /\ Tail(q) \in Seq(S)
         /\ \A i, j \in DOMAIN Tail(q) : Tail(q)[i] = Tail(q)[j] => i = j
         /\ \A b : InList(Tail(q), b) <=> InList(q, b) /\ b # Head(q)
<1>1. /\ Len(q) \in Nat /\ Len(q) > 0 /\ DOMAIN q = 1..Len(q) /\ Head(q) = q[1] /\ 1 \in DOMAIN q
      /\ DOMAIN Tail(q) = 1..(Len(q) - 1) /\ \A i \in 1..(Len(q) - 1) : Tail(q)[i] = q[i + 1]
      /\ Tail(q) \in Seq(S)
  OBVIOUS
<1>2. ASSUME NEW b, InList(Tail(q), b) PROVE InList(q, b) /\ b # Head(q)
  <2>1. PICK i \in 1..(Len(q) - 1) : b = q[i + 1]
    BY <1>1, <1>2 DEF InList
  <2>2. i + 1 \in DOMAIN q /\ i + 1 # 1
    BY <1>1
  <2> QED
    BY <1>1, <2>1, <2>2 DEF InList
<1>3. ASSUME NEW b, InList(q, b), b # Head(q) PROVE InList(Tail(q), b)
  <2>1. PICK i \in 1..Len(q) : b = q[i]
    BY <1>1, <1>3 DEF InList
  <2>2. i - 1 \in 1..(Len(q) - 1) /\ (i - 1) + 1 = i
    BY <1>1, <1>3, <2>1
  <2> QED
    BY <1>1, <2>1, <2>2 DEF InList
<1>4. ASSUME NEW i \in 1..(Len(q) - 1), NEW j \in 1..(Len(q) - 1), q[i + 1] = q[j + 1] PROVE i = j
  <2>1. i + 1 \in DOMAIN q /\ j + 1 \in DOMAIN q
    BY <1>1
  <2>2. i + 1 = j + 1
    BY <1>4, <2>1
  <2> QED
    BY <2>2
<1>5. InList(q, Head(q)) /\ Head(q) \in S
  BY <1>1 DEF InList
<1> QED
  BY <1>1, <1>2, <1>3, <1>4, <1>5

LEMMA AppendOK ==
  ASSUME NEW S, NEW q \in Seq(S), NEW b \in S, ~InList(q, b),
         \A i, j \in DOMAIN q : q[i] = q[j] => i = j
  PROVE  /\ Append(q, b) \in Seq(S)
         /\ \A i, j \in DOMAIN Append(q, b) : Append(q, b)[i] = Append(q, b)[j] => i = j
         /\ \A c : InList(Append(q, b), c) <=> InList(q, c) \/ c = b
<1>1. PICK s : s = Append(q, b)
  OBVIOUS
<1>2. /\ Len(q) \in Nat /\ DOMAIN q = 1..Len(q) /\ DOMAIN s = 1..(Len(q) + 1) /\ s \in Seq(S)
      /\ \A i \in 1..Len(q) : s[i] = q[i] 
      /\ s[Len(q) + 1] = b
  BY <1>1
<1>3. \A i \in 1..Len(q) : q[i] # b
  BY <1>2 DEF InList
<1>4. \A i \in DOMAIN s : i \in 1..Len(q) \/ i = Len(q) + 1
  BY <1>2
<1>5. \A i \in 1..Len(q) : i \in DOMAIN s
  BY <1>2
<1>6. Len(q) + 1 \in DOMAIN s
  BY <1>2
<1>7. \A i, j \in DOMAIN s : s[i] = s[j] => i = j
  BY <1>2, <1>3, <1>4
<1>8. \A c : InList(s, c) <=> InList(q, c) \/ c = b
  BY <1>2, <1>4, <1>5, <1>6 DEF InList
<1> QED
  BY <1>1, <1>2, <1>7, <1>8

(* The lists of the invariant, by their elements.                          *)
LEMMA Lists ==
  ASSUME HeapType, ListsOK, NEW d \in Desc
  PROVE  /\ free[d] \in Seq(Page \X Nat)
         /\ \A i, j \in DOMAIN free[d] : free[d][i] = free[d][j] => i = j
         /\ \A b : InList(free[d], b) => /\ b \notin live /\ b \in Blocks(b[1], d)
                                         /\ arena[b[1]].desc = d /\ b[1] \in Page
<1>1. free[d] \in Seq(Page \X Nat)
  BY DEF HeapType
<1>2. ASSUME NEW b, InList(free[d], b)
      PROVE  b \notin live /\ b \in Blocks(b[1], d) /\ arena[b[1]].desc = d /\ b[1] \in Page
  <2>1. PICK i \in DOMAIN free[d] : free[d][i] = b
    BY <1>2 DEF InList
  <2>2. b \in Page \X Nat
    BY <1>1, <2>1
  <2> QED
    BY <2>1, <2>2 DEF ListsOK
<1> QED
  BY <1>1, <1>2 DEF ListsOK

LEMMA ListsBack ==
  ASSUME \A d \in Desc :
           /\ \A i, j \in DOMAIN free'[d] : free'[d][i] = free'[d][j] => i = j
           /\ \A b : InList(free'[d], b) => b \notin live' /\ b \in Blocks(b[1], d) /\ arena'[b[1]].desc = d
  PROVE  ListsOK'
<1> SUFFICES ASSUME NEW d \in Desc, NEW i \in DOMAIN free'[d]
             PROVE  LET b == free'[d][i] IN
                    b \notin live' /\ b \in Blocks(b[1], d) /\ arena'[b[1]].desc = d
  BY DEF ListsOK
<1>1. InList(free'[d], free'[d][i])
  BY DEF InList
<1> QED
  BY <1>1

LEMMA Kinds ==
  ASSUME HeapType, PagesOK, NEW p \in Page
  PROVE  /\ arena[p].desc \in {0} \cup Desc /\ 0 \notin Desc /\ arena[p].cnt \in Nat
         /\ arena[p] # NoArena => Present(p)
         /\ arena[p].desc # 0 => arena[p] # NoArena
<1>1. arena[p] \in Arena
  BY DEF HeapType
<1>2. DESC_CNT \in Nat
  BY HeapAssumption DEF HeapAssumption
<1>3. arena[p] # NoArena => Present(p)
  BY DEF PagesOK
<1> QED
  BY <1>1, <1>2, <1>3 DEF NoArena, Desc, Arena
-----------------------------------------------------------------------------
LEMMA FramesFinite == IsFiniteSet(FreeFrames) /\ FreeFrames \in SUBSET Nat
<1>1. PICK n : n = FrameLen * W - 1
  OBVIOUS
<1>2. n \in Int
  BY <1>1, Shape, HeapAssumption DEF HeapAssumption
<1>3. IsFiniteSet(0..n) /\ 0..n \subseteq Nat
  BY <1>2, FS_Interval
<1>4. FreeFrames \subseteq 0..n
  BY <1>1 DEF FreeFrames, Frame
<1> QED
  BY <1>3, <1>4, FS_Subset

(* What vaddr_get returns: pages of the table, perhaps in use.  One page   *)
(* alone is free and has no entry, so that only the lack of a frame can    *)
(* stop its allocation.                                                    *)
LEMMA ManyPages ==
  ASSUME HeapType, ~Full(vbits), NEW n \in Nat \ {0}, NEW r, r = vaddr_get(n), r # -1
  PROVE  r \in Page /\ r..(r + n - 1) \subseteq Page
<1>1. FirstFree(vbits) \in 0..(Size - 1)
  BY ScanOK DEF HeapType
<1>2. CASE n = 1
  <2>1. r = FirstFree(vbits)
    BY <1>2 DEF vaddr_get, bitmap_scan
  <2> QED
    BY <1>1, <1>2, <2>1, Shape DEF Page
<1>3. CASE n # 1
  <2>1. PICK E : E = RunEnds(vbits, n)
    OBVIOUS
  <2>2. E # {} /\ r = Least(E) - n + 1
    BY <1>3, <2>1 DEF vaddr_get, bitmap_scan
  <2>3. \A e \in E : e \in Nat /\ e <= Size /\ e - n + 1 >= 0
    BY <1>1, <2>1, Shape DEF RunEnds
  <2>4. Least(E) \in E
    BY <2>2, <2>3, LeastOK
  <2>5. PICK e \in Nat : e <= Size /\ e - n + 1 >= 0 /\ r = e - n + 1
    BY <2>2, <2>3, <2>4
  <2> QED
    BY <2>5, Shape DEF Page
<1> QED
  BY <1>2, <1>3

LEMMA OnePage ==
  ASSUME HeapType, PagesOK, ~Full(vbits), NEW r, r = vaddr_get(1)
  PROVE  /\ r \in Page /\ r..(r + 1 - 1) = {r} /\ r # -1
         /\ FailsAt(r, 1) => FreeFrames = {}
<1>1. r = FirstFree(vbits)
  BY DEF vaddr_get, bitmap_scan
<1>2. r \in 0..(Size - 1) /\ ~Used(vbits, r)
  BY <1>1, ScanOK DEF HeapType
<1>3. r \in Page /\ r < Size /\ r..(r + 1 - 1) = {r} /\ r # -1
  BY <1>2, Shape DEF Page
<1>4. ~Present(r)
  BY <1>2, <1>3 DEF PagesOK
<1>5. ASSUME FailsAt(r, 1) PROVE FreeFrames = {}
  <2>1. Cardinality(FreeFrames) < 1
    BY <1>3, <1>4, <1>5 DEF FailsAt
  <2>2. IsFiniteSet(FreeFrames)
    BY FramesFinite
  <2>3. Cardinality(FreeFrames) = 0
    BY <2>1, <2>2, FS_CardinalityType
  <2> QED
    BY <2>2, <2>3, FS_EmptySet
<1> QED
  BY <1>3, <1>5

(* malloc_page and the head of the arena: pages without entries become one *)
(* arena, each with a frame of its own.                                    *)
LEMMA TakePages ==
  ASSUME HeapType, PagesOK, FramesOK, NEW n \in Nat \ {0}, NEW r \in Page,
         r..(r + n - 1) \subseteq Page, ~FailsAt(r, n), malloc_page(r, n),
         NEW a \in Arena, IF a.large THEN a.desc = 0 /\ a.cnt = n ELSE a.desc # 0 /\ n = 1,
         arena' = [arena EXCEPT ![r] = a]
  PROVE  /\ vbits' \in [Bytes -> Byte] /\ frames' \subseteq Frame
         /\ pte' \in [Page -> [frame : Frame, p : BOOLEAN]] /\ arena' \in [Page -> Arena]
         /\ arena[r] = NoArena /\ arena'[r] = a /\ \A p \in Page : p # r => arena'[p] = arena[p]
         /\ PagesOK' /\ FramesOK'
<1>1. PICK R : R = r..(r + n - 1)
  OBVIOUS
<1>2. R \subseteq Page /\ r \in R /\ \A p \in R : ~Present(p)
  <2>1. r \in Int
    BY Shape DEF Page
  <2> QED
    BY <1>1, <2>1 DEF FailsAt
<1>3. \A p \in R : arena[p] = NoArena
  BY <1>2, Kinds
<1>4. PICK new : new = [i \in 0..(n - 1) |-> NthFree(i)]
  OBVIOUS
<1>5. /\ \A i \in 0..(n - 1) : new[i] \in Frame \ frames
      /\ \A i, j \in 0..(n - 1) : new[i] = new[j] => i = j
  <2>1. IsFiniteSet(FreeFrames) /\ FreeFrames \in SUBSET Nat
    BY FramesFinite
  <2>2. ~(Cardinality(FreeFrames) < n) /\ Cardinality(FreeFrames) \in Nat
    BY <2>1, FS_CardinalityType DEF FailsAt
  <2>3. ASSUME NEW i \in 0..(n - 1)
        PROVE  new[i] \in FreeFrames /\ Below(FreeFrames, new[i]) = i
    <3>1. i \in 0..(Cardinality(FreeFrames) - 1)
      BY <2>2
    <3>2. Nth(FreeFrames, i) \in FreeFrames /\ Below(FreeFrames, Nth(FreeFrames, i)) = i
      BY <2>1, <3>1, NthOK
    <3> QED
      BY <1>4, <3>2 DEF NthFree
  <2> QED
    BY <2>3 DEF FreeFrames
<1>6. /\ vbits' = bitmap_set(vbits, R, 1) /\ frames' = frames \cup {new[i] : i \in 0..(n - 1)}
      /\ pte' = [p \in Page |-> IF p \in R THEN [frame |-> new[p - r], p |-> TRUE] ELSE pte[p]]
  BY <1>1, <1>4 DEF malloc_page
<1>7. \A p \in R : p - r \in 0..(n - 1)
  BY <1>1, Shape DEF Page
<1>8. \A i \in 0..(n - 1) : r + i \in R /\ (r + i) - r = i
  BY <1>1, Shape DEF Page
<1>9. \A p \in R : p \in Page /\ pte'[p].p /\ pte'[p].frame = new[p - r]
  BY <1>2, <1>6
<1>10. \A p \in Page : p \notin R => pte'[p] = pte[p]
  BY <1>6
<1>11. pte' \in [Page -> [frame : Frame, p : BOOLEAN]] /\ frames' \subseteq Frame
  BY <1>5, <1>6, <1>7 DEF HeapType
<1>12. vbits' \in [Bytes -> Byte] /\ \A q \in Page : Used(vbits', q) <=> q \in R \/ Used(vbits, q)
  BY <1>6, SetOK DEF HeapType
<1>13. /\ arena' \in [Page -> Arena] /\ arena'[r] = a
       /\ \A p \in Page : p # r => arena'[p] = arena[p]
  BY DEF HeapType
<1>14. a # NoArena
  BY DEF NoArena
<1>15. Extent(r)' = R /\ \A p \in Page : p # r => Extent(p)' = Extent(p)
  <2>1. \A p \in Page : p # r => Extent(p)' = Extent(p)
    BY <1>13 DEF Extent
  <2>2. CASE a.large
    BY <1>1, <1>13, <1>14, <2>2 DEF Extent
  <2>3. CASE ~a.large
    <3>1. R = {r}
      BY <1>1, <2>3, Shape DEF Page
    <3> QED
      BY <1>13, <1>14, <2>3, <3>1 DEF Extent
  <2> QED
    BY <2>1, <2>2, <2>3
<1>16. \A p \in Page : Present(p)' <=> p \in R \/ Present(p)
  BY <1>9, <1>10 DEF Present
<1>17. Extent(r) = {} /\ \A p \in Page : Extent(p) \cap R = {}
  <2>1. Extent(r) = {}
    BY <1>2, <1>3 DEF Extent
  <2>2. \A p, q \in Page : q \in Extent(p) => Present(q)
    BY DEF PagesOK
  <2> QED
    BY <1>2, <2>1, <2>2
<1>18. PagesOK'
  <2>1. ASSUME NEW p \in Page
        PROVE  /\ p < Size => (Present(p)' <=> Used(vbits', p))
               /\ Present(p)' <=> \E q \in Page : p \in Extent(q)'
               /\ arena'[p] # NoArena => p \in Extent(p)' /\ Extent(p)' \subseteq Page
               /\ arena'[p] # NoArena => (arena'[p].large <=> arena'[p].desc = 0)
    <3>1. p < Size => (Present(p) <=> Used(vbits, p))
      BY DEF PagesOK
    <3>2. Present(p) <=> \E q \in Page : p \in Extent(q)
      BY DEF PagesOK
    <3>3. /\ arena[p] # NoArena => p \in Extent(p) /\ Extent(p) \subseteq Page
          /\ arena[p] # NoArena => (arena[p].large <=> arena[p].desc = 0)
      BY DEF PagesOK
    <3>4. p < Size => (Present(p)' <=> Used(vbits', p))
      BY <1>12, <1>16, <3>1
    <3>5. Present(p)' <=> \E q \in Page : p \in Extent(q)'
      BY <1>15, <1>16, <1>17, <3>2
    <3>6. arena'[p] # NoArena => p \in Extent(p)' /\ Extent(p)' \subseteq Page
      BY <1>2, <1>13, <1>15, <3>3
    <3>7. arena'[p] # NoArena => (arena'[p].large <=> arena'[p].desc = 0)
      BY <1>13, <3>3
    <3> QED
      BY <3>4, <3>5, <3>6, <3>7
  <2>2. \A p, q \in Page : p # q => Extent(p)' \cap Extent(q)' = {}
    <3>1. \A p, q \in Page : p # q => Extent(p) \cap Extent(q) = {}
      BY DEF PagesOK
    <3> QED
      BY <1>15, <1>17, <3>1
  <2> QED
    BY <2>1, <2>2 DEF PagesOK
<1>19. FramesOK'
  <2>1. \A p \in Page : pte[p].p => pte[p].frame \in frames
    BY DEF FramesOK, Present, HeapType
  <2>2. \A p, q \in R : pte'[p].frame = pte'[q].frame => p = q
    <3>1. ASSUME NEW p \in R, NEW q \in R, pte'[p].frame = pte'[q].frame PROVE p = q
      <4>1. p - r = q - r
        BY <1>5, <1>7, <1>9, <3>1
      <4> QED
        BY <1>2, <4>1, Shape DEF Page
    <3> QED
      BY <3>1
  <2>3. \A p \in R : pte'[p].frame \notin frames
    BY <1>5, <1>7, <1>9
  <2>4. \A p, q \in Page : pte'[p].p /\ pte'[q].p /\ pte'[p].frame = pte'[q].frame => p = q
    BY <1>10, <2>1, <2>2, <2>3 DEF FramesOK, Present
  <2>5. \A g : g \in frames' <=> g \in frames \/ \E p \in R : pte'[p].frame = g
    BY <1>6, <1>7, <1>8, <1>9
  <2>6. \A g \in Frame : g \in frames <=> \E p \in Page : p \notin R /\ pte[p].p /\ pte[p].frame = g
    BY <1>2 DEF FramesOK, Present
  <2>7. \A g \in Frame : g \in frames' <=> \E p \in Page : pte'[p].p /\ pte'[p].frame = g
    BY <1>9, <1>10, <2>5, <2>6
  <2> QED
    BY <2>4, <2>7 DEF FramesOK, Present
<1> QED
  BY <1>2, <1>3, <1>11, <1>12, <1>13, <1>18, <1>19

(* mfree_page of all pages of an arena.                                    *)
LEMMA GivePages ==
  ASSUME HeapType, PagesOK, FramesOK, NEW r \in Page, arena[r] # NoArena, NEW n,
         Extent(r) = r..(r + n - 1), mfree_page(r, n), arena' = [arena EXCEPT ![r] = NoArena]
  PROVE  /\ vbits' \in [Bytes -> Byte] /\ frames' \subseteq Frame
         /\ pte' \in [Page -> [frame : Frame, p : BOOLEAN]] /\ arena' \in [Page -> Arena]
         /\ arena'[r] = NoArena /\ \A p \in Page : p # r => arena'[p] = arena[p]
         /\ PagesOK' /\ FramesOK'
<1>1. PICK R : R = r..(r + n - 1)
  OBVIOUS
<1>2. R = Extent(r) /\ R \subseteq Page /\ \A p \in R : Present(p)
  BY <1>1 DEF PagesOK
<1>3. /\ vbits' = bitmap_set(vbits, R, 0) /\ frames' = frames \ {pte[p].frame : p \in R}
      /\ pte' = [p \in Page |-> IF p \in R THEN [pte[p] EXCEPT !.p = FALSE] ELSE pte[p]]
  BY <1>1 DEF mfree_page
<1>4. \A p \in Page : p \notin R => pte'[p] = pte[p]
  BY <1>3
<1>5. ASSUME NEW p \in R PROVE pte'[p] \in [frame : Frame, p : BOOLEAN] /\ pte'[p].p = FALSE
  <2>1. PICK x : x = pte[p]
    OBVIOUS
  <2>2. x \in [frame : Frame, p : BOOLEAN] /\ p \in Page
    BY <1>2, <2>1 DEF HeapType
  <2>3. pte'[p] = [x EXCEPT !.p = FALSE]
    BY <1>3, <2>1, <2>2
  <2>4. [x EXCEPT !.p = FALSE] \in [frame : Frame, p : BOOLEAN] /\ [x EXCEPT !.p = FALSE].p = FALSE
    BY <2>2
  <2> QED
    BY <2>3, <2>4
<1>6. pte' \in [Page -> [frame : Frame, p : BOOLEAN]] /\ frames' \subseteq Frame
  <2>1. pte \in [Page -> [frame : Frame, p : BOOLEAN]] /\ frames \subseteq Frame
    BY DEF HeapType
  <2>2. \A p \in Page : pte'[p] \in [frame : Frame, p : BOOLEAN]
    BY <1>4, <1>5, <2>1
  <2>3. pte' = [p \in Page |-> pte'[p]]
    BY <1>3
  <2> QED
    BY <1>3, <2>1, <2>2, <2>3
<1>7. vbits' \in [Bytes -> Byte] /\ \A q \in Page : Used(vbits', q) <=> q \notin R /\ Used(vbits, q)
  BY <1>3, SetOK DEF HeapType
<1>8. NoArena \in Arena
  BY HeapAssumption DEF HeapAssumption, NoArena, Arena
<1>9. /\ arena' \in [Page -> Arena] /\ arena'[r] = NoArena
      /\ \A p \in Page : p # r => arena'[p] = arena[p]
  BY <1>8 DEF HeapType
<1>10. Extent(r)' = {} /\ \A p \in Page : p # r => Extent(p)' = Extent(p)
  BY <1>9 DEF Extent
<1>11. \A p \in Page : Present(p)' <=> p \notin R /\ Present(p)
  BY <1>4, <1>5 DEF Present
<1>12. \A p \in Page : p # r => Extent(p) \cap R = {}
  BY <1>2 DEF PagesOK
<1>13. PagesOK'
  <2>1. ASSUME NEW p \in Page
        PROVE  /\ p < Size => (Present(p)' <=> Used(vbits', p))
               /\ Present(p)' <=> \E q \in Page : p \in Extent(q)'
               /\ arena'[p] # NoArena => p \in Extent(p)' /\ Extent(p)' \subseteq Page
               /\ arena'[p] # NoArena => (arena'[p].large <=> arena'[p].desc = 0)
    <3>1. p < Size => (Present(p) <=> Used(vbits, p))
      BY DEF PagesOK
    <3>2. Present(p) <=> \E q \in Page : p \in Extent(q)
      BY DEF PagesOK
    <3>3. /\ arena[p] # NoArena => p \in Extent(p) /\ Extent(p) \subseteq Page
          /\ arena[p] # NoArena => (arena[p].large <=> arena[p].desc = 0)
      BY DEF PagesOK
    <3>4. p < Size => (Present(p)' <=> Used(vbits', p))
      BY <1>7, <1>11, <3>1
    <3>5. Present(p)' <=> \E q \in Page : p \in Extent(q)'
      BY <1>2, <1>10, <1>11, <1>12, <3>2
    <3>6. arena'[p] # NoArena => p \in Extent(p)' /\ Extent(p)' \subseteq Page
      BY <1>9, <1>10, <3>3
    <3>7. arena'[p] # NoArena => (arena'[p].large <=> arena'[p].desc = 0)
      BY <1>9, <3>3
    <3> QED
      BY <3>4, <3>5, <3>6, <3>7
  <2>2. \A p, q \in Page : p # q => Extent(p)' \cap Extent(q)' = {}
    <3>1. \A p, q \in Page : p # q => Extent(p) \cap Extent(q) = {}
      BY DEF PagesOK
    <3> QED
      BY <1>10, <3>1
  <2> QED
    BY <2>1, <2>2 DEF PagesOK
<1>14. FramesOK'
  <2>1. \A p, q \in Page : pte'[p].p /\ pte'[q].p /\ pte'[p].frame = pte'[q].frame => p = q
    BY <1>4, <1>5 DEF FramesOK, Present
  <2>2. \A p \in Page, q \in R : p \notin R /\ pte[p].p => pte[p].frame # pte[q].frame
    BY <1>2 DEF FramesOK, Present
  <2>3. \A g \in Frame : g \in frames <=> \E p \in Page : pte[p].p /\ pte[p].frame = g
    BY DEF FramesOK, Present
  <2>4. \A g : g \in frames' <=> g \in frames /\ \A q \in R : pte[q].frame # g
    BY <1>3
  <2>5. ASSUME NEW g \in Frame, g \in frames' PROVE \E p \in Page : pte'[p].p /\ pte'[p].frame = g
    <3>1. g \in frames /\ \A q \in R : pte[q].frame # g
      BY <2>4, <2>5
    <3>2. PICK p \in Page : pte[p].p /\ pte[p].frame = g
      BY <2>3, <3>1
    <3> QED
      BY <1>4, <3>1, <3>2
  <2>6. ASSUME NEW p \in Page, pte'[p].p PROVE pte'[p].frame \in frames'
    <3>1. p \notin R /\ pte[p].p /\ pte'[p].frame = pte[p].frame
      BY <1>4, <1>5, <2>6
    <3>2. pte[p].frame \in frames
      BY <2>3, <3>1 DEF HeapType
    <3>3. \A q \in R : pte[q].frame # pte[p].frame
      BY <2>2, <3>1
    <3> QED
      BY <2>4, <3>1, <3>2, <3>3
  <2> QED
    BY <2>1, <2>5, <2>6 DEF FramesOK, Present
<1> QED
  BY <1>6, <1>7, <1>9, <1>13, <1>14

(* A counter moves and the pages stay.                                     *)
LEMMA PagesKept ==
  ASSUME HeapType, PagesOK, FramesOK, UNCHANGED <<vbits, frames, pte>>, NEW p \in Page,
         arena[p].desc # 0, arena'[p].desc = arena[p].desc, arena'[p].large = arena[p].large,
         \A q \in Page : q # p => arena'[q] = arena[q]
  PROVE  PagesOK' /\ FramesOK'
<1>1. arena[p] # NoArena /\ arena'[p] # NoArena
  BY DEF NoArena
<1>2. ~arena[p].large
  BY <1>1 DEF PagesOK
<1>3. \A q \in Page : Extent(q)' = Extent(q)
  BY <1>1, <1>2 DEF Extent
<1>4. \A q \in Page : arena'[q] # NoArena => (arena'[q].large <=> arena'[q].desc = 0)
  BY <1>1 DEF PagesOK
<1>5. \A q \in Page : arena'[q] # NoArena => arena[q] # NoArena
  BY <1>1
<1>6. PagesOK'
  BY <1>3, <1>4, <1>5 DEF PagesOK, Present
<1> QED
  BY <1>6 DEF FramesOK, Present
-----------------------------------------------------------------------------
(* The blocks in use, by their arenas.                                     *)
LEMMA Lives ==
  ASSUME HeapType, LiveOK, NEW b \in live
  PROVE  /\ b \in Page \X Nat /\ b[1] \in Page /\ b = <<b[1], b[2]>> /\ arena[b[1]] # NoArena
         /\ arena[b[1]].desc = 0 => b[2] = 0
         /\ arena[b[1]].desc # 0 => b \in Blocks(b[1], arena[b[1]].desc)
BY DEF HeapType, LiveOK

(* The counters of the arenas whose list and blocks a step leaves alone.   *)
LEMMA CountStays ==
  ASSUME CountsOK, NEW p \in Page, NEW d \in Desc, arena'[p] = arena[p], arena[p].desc = d,
         \A b \in live : b[1] = p => b \in live',
         \A b : b[1] = p => (InList(free'[d], b) <=> InList(free[d], b))
  PROVE  /\ \A b \in Blocks(p, d) : b \in live' \/ InList(free'[d], b)
         /\ arena'[p].cnt = Cardinality(FreeBlocks(p, d)')
         /\ \E b \in live' : b[1] = p
<1>1. \A b \in Blocks(p, d) : b[1] = p
  BY DEF Blocks
<1>2. /\ \A b \in Blocks(p, d) : b \in live \/ InList(free[d], b)
      /\ arena[p].cnt = Cardinality(FreeBlocks(p, d))
      /\ \E b \in live : b[1] = p
  BY DEF CountsOK
<1>3. FreeBlocks(p, d)' = FreeBlocks(p, d)
  BY <1>1 DEF FreeBlocks
<1> QED
  BY <1>1, <1>2, <1>3

(* A step that changes nothing but panic.                                  *)
LEMMA HeapSame ==
  ASSUME HeapInv, UNCHANGED <<vbits, frames, pte, arena, free, live>>
  PROVE  HeapInv'
<1>1. HeapType' /\ PagesOK' /\ FramesOK'
  BY DEF HeapInv, HeapType, PagesOK, FramesOK, Present, Extent
<1>2. ListsOK' /\ LiveOK'
  BY DEF HeapInv, ListsOK, LiveOK
<1>3. CountsOK'
  BY DEF HeapInv, CountsOK, FreeBlocks
<1> QED
  BY <1>1, <1>2, <1>3 DEF HeapInv

LEMMA InvOfLarge ==
  ASSUME HeapInv, NEW r \in Page, NEW n \in Nat \ {0}, arena[r] = NoArena,
         arena'[r] = LargeArena(n),
         \A p \in Page : p # r => arena'[p] = arena[p],
         live' = live \cup {<<r, 0>>}, free' = free
  PROVE  ListsOK' /\ LiveOK' /\ CountsOK'
<1> USE DEF HeapInv
<1>1. NoArena.desc = 0 /\ LargeArena(n).desc = 0 /\ LargeArena(n) # NoArena /\ 0 \notin Desc
  BY DEF NoArena, LargeArena, Desc
<1>2. ListsOK'
  <2>1. ASSUME NEW d \in Desc, NEW b, InList(free'[d], b)
        PROVE  b \notin live' /\ b \in Blocks(b[1], d) /\ arena'[b[1]].desc = d
    <3>1. b \notin live /\ b \in Blocks(b[1], d) /\ arena[b[1]].desc = d /\ b[1] \in Page
      BY <2>1, Lists
    <3>2. b[1] # r
      BY <1>1, <3>1
    <3> QED
      BY <3>1, <3>2
  <2>2. \A d \in Desc : \A i, j \in DOMAIN free'[d] : free'[d][i] = free'[d][j] => i = j
    BY Lists
  <2> QED
    BY <2>1, <2>2, ListsBack
<1>3. LiveOK'
  <2>1. ASSUME NEW b \in live'
        PROVE  /\ arena'[b[1]] # NoArena
               /\ IF arena'[b[1]].desc = 0 THEN b[2] = 0 ELSE b \in Blocks(b[1], arena'[b[1]].desc)
    <3>1. CASE b \in live
      <4>1. b[1] \in Page /\ b[1] # r
        BY <3>1, Lives
      <4> QED
        BY <3>1, <4>1, Lives
    <3>2. CASE b = <<r, 0>>
      BY <1>1, <3>2
    <3> QED
      BY <3>1, <3>2
  <2> QED
    BY <2>1 DEF LiveOK
<1>4. CountsOK'
  <2>1. ASSUME NEW p \in Page, NEW d \in Desc, arena'[p].desc = d
        PROVE  /\ \A b \in Blocks(p, d) : b \in live' \/ InList(free'[d], b)
               /\ arena'[p].cnt = Cardinality(FreeBlocks(p, d)')
               /\ \E b \in live' : b[1] = p
    <3>1. p # r
      BY <1>1, <2>1
    <3>2. arena'[p] = arena[p] /\ arena[p].desc = d
      BY <2>1, <3>1
    <3> QED
      BY <3>2, CountStays
  <2> QED
    BY <2>1 DEF CountsOK, FreeBlocks
<1> QED
  BY <1>2, <1>3, <1>4

LEMMA LargeNeeds ==
  ASSUME NEW size \in AskFor, MallocLarge(size)
  PROVE  Roll(size + ARENA, PG_SIZE) \in Nat \ {0}
<1>1. size \in Nat /\ ARENA \in Nat /\ PG_SIZE \in Nat \ {0} /\ DESC_CNT \in Nat \ {0}
  BY HeapAssumption DEF HeapAssumption
<1>2. block_size(DESC_CNT) >= 1 /\ block_size(DESC_CNT) \in Nat
  <2>1. DESC_CNT \in Desc
    BY <1>1 DEF Desc
  <2> QED
    BY <2>1, HeapAssumption DEF HeapAssumption
<1>3. size >= 1
  BY <1>1, <1>2 DEF MallocLarge
<1>4. PICK m : m = size + ARENA + PG_SIZE - 1
  OBVIOUS
<1>5. m \in Nat /\ m >= PG_SIZE
  BY <1>1, <1>3, <1>4
<1>6. m \div PG_SIZE \in Nat /\ m \div PG_SIZE # 0
  BY <1>1, <1>5
<1> QED
  BY <1>4, <1>6 DEF Roll

LEMMA StepMallocLarge ==
  ASSUME HeapInv, NEW size \in AskFor, MallocLarge(size)
  PROVE  HeapInv'
<1> USE DEF HeapInv
<1>1. PICK n : n = Roll(size + ARENA, PG_SIZE)
  OBVIOUS
<1>2. PICK r : r = vaddr_get(n)
  OBVIOUS
<1>3. CASE Panics("page") \/ Panics("range")
  BY <1>3, HeapSame DEF Panics
<1>4. CASE ReturnsNULL
  BY <1>4, HeapSame DEF ReturnsNULL, heapVars
<1>5. CASE ~Panics("page") /\ ~Panics("range") /\ ~ReturnsNULL
  <2>1. /\ ~Full(vbits) /\ r # -1 /\ ~FailsAt(r, n) /\ malloc_page(r, n)
        /\ live' = live \cup {<<r, 0>>} /\ free' = free
        /\ arena' = [arena EXCEPT ![r] = LargeArena(n)]
    BY <1>1, <1>2, <1>5 DEF MallocLarge, LargeArena
  <2>2. n \in Nat \ {0}
    BY <1>1, LargeNeeds
  <2>3. r \in Page /\ r..(r + n - 1) \subseteq Page
    BY <1>2, <2>1, <2>2, ManyPages
  <2>4. PICK a : a = LargeArena(n)
    OBVIOUS
  <2>5. a \in Arena /\ a.large /\ a.desc = 0 /\ a.cnt = n
    BY <2>2, <2>4, HeapAssumption DEF HeapAssumption, LargeArena, Arena
  <2>6. /\ vbits' \in [Bytes -> Byte] /\ frames' \subseteq Frame
        /\ pte' \in [Page -> [frame : Frame, p : BOOLEAN]] /\ arena' \in [Page -> Arena]
        /\ arena[r] = NoArena /\ arena'[r] = a /\ \A p \in Page : p # r => arena'[p] = arena[p]
        /\ PagesOK' /\ FramesOK'
    <3>1. IF a.large THEN a.desc = 0 /\ a.cnt = n ELSE a.desc # 0 /\ n = 1
      BY <2>5
    <3>2. arena' = [arena EXCEPT ![r] = a] /\ a \in Arena
      BY <2>1, <2>4, <2>5
    <3>3. malloc_page(r, n) /\ ~FailsAt(r, n)
      BY <2>1
    <3> QED
      BY <2>2, <2>3, <3>1, <3>2, <3>3, TakePages
  <2>7. ListsOK' /\ LiveOK' /\ CountsOK'
    BY <2>1, <2>2, <2>3, <2>4, <2>6, InvOfLarge
  <2>8. HeapType'
    <3>1. live' \subseteq Page \X Nat
      BY <2>1, <2>3 DEF HeapType
    <3> QED
      BY <2>1, <2>6, <3>1 DEF HeapType
  <2> QED
    BY <2>6, <2>7, <2>8
<1> QED
  BY <1>3, <1>4, <1>5
-----------------------------------------------------------------------------
(* The descriptor that sys_malloc takes a block from.                      *)
LEMMA DescForOK ==
  ASSUME NEW size, size \in 1..block_size(DESC_CNT)
  PROVE  DescFor(size) \in Desc
<1>1. DESC_CNT \in Nat \ {0}
  BY HeapAssumption DEF HeapAssumption
<1>2. DESC_CNT \in Desc /\ Desc \subseteq Nat
  BY <1>1 DEF Desc
<1>3. size <= block_size(DESC_CNT)
  BY <1>2, HeapAssumption DEF HeapAssumption
<1>4. PICK S : S = {d \in Desc : size <= block_size(d)}
  OBVIOUS
<1>5. S \in SUBSET Nat /\ S # {} /\ S \subseteq Desc
  BY <1>2, <1>3, <1>4
<1>6. Least(S) \in S
  BY <1>5, LeastOK
<1> QED
  BY <1>4, <1>5, <1>6 DEF DescFor

(* A block leaves the free_list and is in use.                             *)
LEMMA StepMallocBlock ==
  ASSUME HeapInv, NEW size \in AskFor, MallocBlock(size)
  PROVE  HeapInv'
<1> USE DEF HeapInv
<1>1. PICK d : d = DescFor(size)
  OBVIOUS
<1>2. d \in Desc
  BY <1>1, DescForOK DEF MallocBlock
<1>3. PICK b : b = Head(free[d])
  OBVIOUS
<1>4. PICK p : p = b[1]
  OBVIOUS
<1>5. /\ free[d] # <<>> /\ free' = [free EXCEPT ![d] = Tail(@)]
      /\ arena' = [arena EXCEPT ![p].cnt = @ - 1] /\ live' = live \cup {b}
      /\ UNCHANGED <<vbits, frames, pte, panic>>
  BY <1>1, <1>3, <1>4 DEF MallocBlock
<1>6. /\ free[d] \in Seq(Page \X Nat) /\ \A i, j \in DOMAIN free[d] : free[d][i] = free[d][j] => i = j
  BY <1>2, Lists
<1>7. /\ b \in Page \X Nat /\ InList(free[d], b) /\ Tail(free[d]) \in Seq(Page \X Nat)
      /\ \A i, j \in DOMAIN Tail(free[d]) : Tail(free[d])[i] = Tail(free[d])[j] => i = j
      /\ \A c : InList(Tail(free[d]), c) <=> InList(free[d], c) /\ c # b
  BY <1>3, <1>5, <1>6, TailOK
<1>8. p \in Page /\ b \notin live /\ b \in Blocks(p, d) /\ arena[p].desc = d
  BY <1>2, <1>4, <1>7, Lists
<1>9. /\ free'[d] = Tail(free[d]) /\ \A e \in Desc : e # d => free'[e] = free[e]
      /\ free' \in [Desc -> Seq(Page \X Nat)]
  <2>1. free \in [Desc -> Seq(Page \X Nat)]
    BY DEF HeapType
  <2> QED
    BY <1>2, <1>5, <1>7, <2>1
<1>10. /\ arena[p].cnt = Cardinality(FreeBlocks(p, d)) /\ IsFiniteSet(FreeBlocks(p, d))
       /\ b \in FreeBlocks(p, d) /\ arena[p].cnt - 1 \in Nat
  <2>0. arena[p].cnt = Cardinality(FreeBlocks(p, d))
    BY <1>2, <1>8 DEF CountsOK
  <2>1. b \in FreeBlocks(p, d)
    BY <1>7, <1>8 DEF FreeBlocks
  <2>2. FreeBlocks(p, d) \in SUBSET Blocks(p, d) /\ IsFiniteSet(Blocks(p, d))
    BY <1>2, BlocksOK DEF FreeBlocks
  <2>3. IsFiniteSet(FreeBlocks(p, d))
    BY <2>2, FS_Subset
  <2>4. Cardinality(FreeBlocks(p, d)) \in Nat /\ Cardinality(FreeBlocks(p, d)) # 0
    BY <2>1, <2>3, FS_CardinalityType, FS_EmptySet
  <2> QED
    BY <2>0, <2>1, <2>3, <2>4
<1>11. /\ arena' \in [Page -> Arena]
       /\ \A q \in Page : q # p => arena'[q] = arena[q]
       /\ arena'[p].desc = d /\ arena'[p].large = arena[p].large /\ arena'[p].cnt = arena[p].cnt - 1
       /\ arena'[p] # NoArena /\ arena[p] # NoArena
  <2>1. arena \in [Page -> Arena]
    BY DEF HeapType
  <2>2. arena'[p] = [arena[p] EXCEPT !.cnt = @ - 1]
    BY <1>5, <1>8, <2>1
  <2>3. arena[p] \in [desc : 0..DESC_CNT, cnt : Nat, large : BOOLEAN]
    BY <1>8, <2>1 DEF Arena
  <2>4. arena'[p] = [desc |-> arena[p].desc, cnt |-> arena[p].cnt - 1, large |-> arena[p].large]
    BY <2>2, <2>3
  <2>5. d # 0 /\ NoArena.desc = 0
    BY <1>2 DEF Desc, NoArena
  <2> QED
    BY <1>5, <1>8, <1>10, <2>1, <2>3, <2>4, <2>5 DEF Arena
<1>12. HeapType'
  BY <1>5, <1>7, <1>9, <1>11 DEF HeapType
<1>13. PagesOK' /\ FramesOK'
  <2>1. d # 0
    BY <1>2 DEF Desc
  <2> QED
    BY <1>5, <1>8, <1>11, <2>1, PagesKept
<1>14. ListsOK'
  <2>1. ASSUME NEW e \in Desc
        PROVE  /\ \A i, j \in DOMAIN free'[e] : free'[e][i] = free'[e][j] => i = j
               /\ \A c : InList(free'[e], c) =>
                    c \notin live' /\ c \in Blocks(c[1], e) /\ arena'[c[1]].desc = e
    <3>1. \A i, j \in DOMAIN free'[e] : free'[e][i] = free'[e][j] => i = j
      BY <1>7, <1>9, Lists
    <3>2. ASSUME NEW c, InList(free'[e], c)
          PROVE  c \notin live' /\ c \in Blocks(c[1], e) /\ arena'[c[1]].desc = e
      <4>1. InList(free[e], c) /\ (e = d => c # b)
        BY <1>7, <1>9, <3>2
      <4>2. c \notin live /\ c \in Blocks(c[1], e) /\ arena[c[1]].desc = e /\ c[1] \in Page
        BY <4>1, Lists
      <4>3. c # b
        BY <1>4, <1>8, <4>1, <4>2
      <4> QED
        BY <1>5, <1>8, <1>11, <4>2, <4>3
    <3> QED
      BY <3>1, <3>2
  <2> QED
    BY <2>1, ListsBack
<1>15. LiveOK'
  <2>1. ASSUME NEW c \in live'
        PROVE  /\ arena'[c[1]] # NoArena
               /\ IF arena'[c[1]].desc = 0 THEN c[2] = 0 ELSE c \in Blocks(c[1], arena'[c[1]].desc)
    <3>1. CASE c \in live
      <4>1. c[1] \in Page /\ arena'[c[1]].desc = arena[c[1]].desc /\ arena'[c[1]] # NoArena
        BY <1>8, <1>11, <3>1, Lives
      <4> QED
        BY <3>1, <4>1, Lives
    <3>2. CASE c = b
      <4>1. d # 0
        BY <1>2 DEF Desc
      <4> QED
        BY <1>4, <1>8, <1>11, <3>2, <4>1
    <3> QED
      BY <1>5, <3>1, <3>2
  <2> QED
    BY <2>1 DEF LiveOK
<1>16. CountsOK'
  <2>1. ASSUME NEW q \in Page, NEW e \in Desc, arena'[q].desc = e
        PROVE  /\ \A c \in Blocks(q, e) : c \in live' \/ InList(free'[e], c)
               /\ arena'[q].cnt = Cardinality(FreeBlocks(q, e)')
               /\ \E c \in live' : c[1] = q
    <3>1. CASE q = p
      <4>1. e = d
        BY <1>11, <2>1, <3>1
      <4>2. \A c \in Blocks(p, d) : c \in live' \/ InList(free'[d], c)
        BY <1>2, <1>5, <1>7, <1>8, <1>9 DEF CountsOK
      <4>3. FreeBlocks(p, d)' = FreeBlocks(p, d) \ {b}
        BY <1>7, <1>9 DEF FreeBlocks
      <4>4. Cardinality(FreeBlocks(p, d)') = Cardinality(FreeBlocks(p, d)) - 1
        BY <1>10, <4>3, FS_RemoveElement
      <4> QED
        BY <1>4, <1>5, <1>10, <1>11, <3>1, <4>1, <4>2, <4>4
    <3>2. CASE q # p
      <4>1. arena'[q] = arena[q] /\ arena[q].desc = e
        BY <1>11, <2>1, <3>2
      <4>2. \A c : c[1] = q => (InList(free'[e], c) <=> InList(free[e], c))
        BY <1>4, <1>7, <1>9, <3>2
      <4> QED
        BY <1>5, <4>1, <4>2, CountStays
    <3> QED
      BY <3>1, <3>2
  <2> QED
    BY <2>1 DEF CountsOK, FreeBlocks
<1> QED
  BY <1>12, <1>13, <1>14, <1>15, <1>16

(* A page becomes an arena: its first block is in use, the others are in   *)
(* the list, which was empty.                                              *)
LEMMA InvOfArena ==
  ASSUME HeapInv, NEW d \in Desc, NEW r \in Page, arena[r] = NoArena, free[d] = <<>>,
         arena'[r] = [desc |-> d, cnt |-> blocks_per_arena(d) - 1, large |-> FALSE],
         \A p \in Page : p # r => arena'[p] = arena[p],
         live' = live \cup {<<r, 0>>}, free' = [free EXCEPT ![d] = Tail(BlockSeq(r, d))]
  PROVE  free' \in [Desc -> Seq(Page \X Nat)] /\ ListsOK' /\ LiveOK' /\ CountsOK'
<1> USE DEF HeapInv
<1> DEFINE s == BlockSeq(r, d)
           n == blocks_per_arena(d)
<1>1. /\ n \in Nat \ {0} /\ IsFiniteSet(Blocks(r, d)) /\ Cardinality(Blocks(r, d)) = n
      /\ s \in Seq(Blocks(r, d)) /\ Len(s) = n
      /\ \A b : b \in Blocks(r, d) <=> \E i \in 1..n : b = s[i]
      /\ \A i, j \in 1..n : s[i] = s[j] => i = j
  BY BlocksOK
<1>2. Blocks(r, d) \subseteq Page \X Nat /\ <<r, 0>> \in Blocks(r, d) /\ s[1] = <<r, 0>>
      /\ \A b \in Blocks(r, d) : b[1] = r
  BY <1>1 DEF Blocks, BlockSeq
<1> HIDE DEF s, n
<1>3. /\ s # <<>> /\ DOMAIN s = 1..n /\ Head(s) = <<r, 0>>
      /\ \A b : InList(s, b) <=> b \in Blocks(r, d)
  <2>1. s # <<>> /\ DOMAIN s = 1..n
    BY <1>1
  <2>2. Head(s) = <<r, 0>>
    BY <1>1, <1>2, <2>1
  <2>3. \A b : InList(s, b) <=> b \in Blocks(r, d)
    BY <1>1, <2>1 DEF InList
  <2> QED
    BY <2>1, <2>2, <2>3
<1>4. /\ Tail(s) \in Seq(Blocks(r, d))
      /\ \A i, j \in DOMAIN Tail(s) : Tail(s)[i] = Tail(s)[j] => i = j
      /\ \A b : InList(Tail(s), b) <=> b \in Blocks(r, d) /\ b # <<r, 0>>
  <2>1. \A i, j \in DOMAIN s : s[i] = s[j] => i = j
    BY <1>1, <1>3
  <2>2. s \in Seq(Blocks(r, d)) /\ s # <<>>
    BY <1>1, <1>3
  <2>3. /\ Tail(s) \in Seq(Blocks(r, d))
        /\ \A i, j \in DOMAIN Tail(s) : Tail(s)[i] = Tail(s)[j] => i = j
        /\ \A b : InList(Tail(s), b) <=> InList(s, b) /\ b # Head(s)
    BY <2>1, <2>2, TailOK
  <2> QED
    BY <1>3, <2>3
<1>5. Tail(s) \in Seq(Page \X Nat)
  BY <1>2, <1>4
<1>6. /\ free'[d] = Tail(s) /\ \A e \in Desc : e # d => free'[e] = free[e]
      /\ free' \in [Desc -> Seq(Page \X Nat)]
  <2>1. free \in [Desc -> Seq(Page \X Nat)]
    BY DEF HeapType
  <2> QED
    BY <1>5, <2>1 DEF s
<1>7. /\ d # 0 /\ NoArena.desc = 0 /\ 0 \notin Desc
      /\ arena'[r].desc = d /\ arena'[r].cnt = n - 1 /\ arena'[r] # NoArena
  BY DEF Desc, NoArena, n
<1>8. \A b : ~InList(free[d], b)
  BY DEF InList
<1>9. \A b \in live : b[1] # r
  BY Lives
<1>10. ListsOK'
  <2>1. ASSUME NEW e \in Desc
        PROVE  /\ \A i, j \in DOMAIN free'[e] : free'[e][i] = free'[e][j] => i = j
               /\ \A c : InList(free'[e], c) =>
                    c \notin live' /\ c \in Blocks(c[1], e) /\ arena'[c[1]].desc = e
    <3>1. \A i, j \in DOMAIN free'[e] : free'[e][i] = free'[e][j] => i = j
      <4>1. \A i, j \in DOMAIN free[e] : free[e][i] = free[e][j] => i = j
        BY Lists
      <4>2. CASE e = d
        <5>1. PICK t : t = Tail(s)
          OBVIOUS
        <5>2. \A i, j \in DOMAIN t : t[i] = t[j] => i = j
          BY <1>4, <5>1, Zenon
        <5>3. free'[e] = t
          BY <1>6, <4>2, <5>1
        <5> QED
          BY <5>2, <5>3, Zenon
      <4>3. CASE e # d
        BY <1>6, <4>1, <4>3
      <4> QED
        BY <4>2, <4>3
    <3>2. ASSUME NEW c, InList(free'[e], c)
          PROVE  c \notin live' /\ c \in Blocks(c[1], e) /\ arena'[c[1]].desc = e
      <4>1. CASE e = d
        <5>1. c \in Blocks(r, d) /\ c # <<r, 0>> /\ c[1] = r
          BY <1>2, <1>4, <1>6, <3>2, <4>1
        <5> QED
          BY <1>7, <1>9, <4>1, <5>1
      <4>2. CASE e # d
        <5>1. InList(free[e], c)
          BY <1>6, <3>2, <4>2
        <5>2. c \notin live /\ c \in Blocks(c[1], e) /\ arena[c[1]].desc = e /\ c[1] \in Page
          BY <5>1, Lists
        <5>3. c[1] # r
          BY <1>7, <5>2
        <5> QED
          BY <5>2, <5>3
      <4> QED
        BY <4>1, <4>2
    <3> QED
      BY <3>1, <3>2
  <2> QED
    BY <2>1, ListsBack
<1>11. LiveOK'
  <2>1. ASSUME NEW c \in live'
        PROVE  /\ arena'[c[1]] # NoArena
               /\ IF arena'[c[1]].desc = 0 THEN c[2] = 0 ELSE c \in Blocks(c[1], arena'[c[1]].desc)
    <3>1. CASE c \in live
      <4>1. c[1] \in Page /\ c[1] # r
        BY <1>9, <3>1, Lives
      <4> QED
        BY <3>1, <4>1, Lives
    <3>2. CASE c = <<r, 0>>
      BY <1>2, <1>7, <3>2
    <3> QED
      BY <3>1, <3>2
  <2> QED
    BY <2>1 DEF LiveOK
<1>12. CountsOK'
  <2>1. ASSUME NEW q \in Page, NEW e \in Desc, arena'[q].desc = e
        PROVE  /\ \A c \in Blocks(q, e) : c \in live' \/ InList(free'[e], c)
               /\ arena'[q].cnt = Cardinality(FreeBlocks(q, e)')
               /\ \E c \in live' : c[1] = q
    <3>1. CASE q = r
      <4>1. e = d
        BY <1>7, <2>1, <3>1
      <4>2. \A c \in Blocks(r, d) : c \in live' \/ InList(free'[d], c)
        BY <1>4, <1>6
      <4>3. FreeBlocks(r, d)' = Blocks(r, d) \ {<<r, 0>>}
        BY <1>4, <1>6 DEF FreeBlocks
      <4>4. Cardinality(FreeBlocks(r, d)') = n - 1
        <5>1. <<r, 0>> \in Blocks(r, d) /\ IsFiniteSet(Blocks(r, d)) /\ Cardinality(Blocks(r, d)) = n
          BY <1>1, <1>2
        <5>2. PICK B : B = Blocks(r, d) /\ FreeBlocks(r, d)' = B \ {<<r, 0>>}
          BY <4>3
        <5>3. Cardinality(B \ {<<r, 0>>}) = Cardinality(B) - 1
          BY <5>1, <5>2, FS_RemoveElement
        <5> QED
          BY <5>1, <5>2, <5>3
      <4> QED
        BY <1>2, <1>7, <3>1, <4>1, <4>2, <4>4
    <3>2. CASE q # r
      <4>1. arena'[q] = arena[q] /\ arena[q].desc = e
        BY <2>1, <3>2
      <4>2. \A c : c[1] = q => (InList(free'[e], c) <=> InList(free[e], c))
        BY <1>2, <1>4, <1>6, <1>8, <3>2
      <4> QED
        BY <4>1, <4>2, CountStays
    <3> QED
      BY <3>1, <3>2
  <2> QED
    BY <2>1 DEF CountsOK, FreeBlocks
<1> QED
  BY <1>6, <1>10, <1>11, <1>12

LEMMA StepMallocNewArena ==
  ASSUME HeapInv, NEW size \in AskFor, MallocNewArena(size)
  PROVE  HeapInv'
<1> USE DEF HeapInv
<1>1. PICK d : d = DescFor(size)
  OBVIOUS
<1>2. d \in Desc
  BY <1>1, DescForOK DEF MallocNewArena
<1>3. PICK r : r = vaddr_get(1)
  OBVIOUS
<1>4. CASE Panics("page")
  BY <1>4, HeapSame DEF Panics
<1>5. CASE ~Panics("page")
  <2>1. PICK a : a = [desc |-> d, cnt |-> blocks_per_arena(d) - 1, large |-> FALSE]
    OBVIOUS
  <2>2. /\ ~Full(vbits) /\ ~FailsAt(r, 1) /\ malloc_page(r, 1)
        /\ live' = live \cup {<<r, 0>>} /\ free[d] = <<>>
        /\ free' = [free EXCEPT ![d] = Tail(BlockSeq(r, d))] /\ arena' = [arena EXCEPT ![r] = a]
    BY <1>1, <1>3, <1>5, <2>1 DEF MallocNewArena
  <2>3. r \in Page /\ r..(r + 1 - 1) \subseteq Page
    BY <1>3, <2>2, OnePage
  <2>4. a \in Arena /\ a.desc # 0 /\ ~a.large
    <3>1. blocks_per_arena(d) \in Nat \ {0}
      BY <1>2, BlocksOK
    <3>2. blocks_per_arena(d) - 1 \in Nat
      BY <3>1
    <3>3. d \in 0..DESC_CNT /\ d # 0
      BY <1>2, HeapAssumption DEF Desc, HeapAssumption
    <3> QED
      BY <2>1, <3>2, <3>3 DEF Arena
  <2>5. /\ vbits' \in [Bytes -> Byte] /\ frames' \subseteq Frame
        /\ pte' \in [Page -> [frame : Frame, p : BOOLEAN]] /\ arena' \in [Page -> Arena]
        /\ arena[r] = NoArena /\ arena'[r] = a /\ \A p \in Page : p # r => arena'[p] = arena[p]
        /\ PagesOK' /\ FramesOK'
    <3>1. 1 \in Nat \ {0}
      OBVIOUS
    <3> QED
      BY <2>2, <2>3, <2>4, <3>1, TakePages
  <2>6. free' \in [Desc -> Seq(Page \X Nat)] /\ ListsOK' /\ LiveOK' /\ CountsOK'
    BY <1>2, <2>1, <2>2, <2>3, <2>5, InvOfArena
  <2>7. HeapType'
    <3>1. live' \subseteq Page \X Nat
      BY <2>2, <2>3 DEF HeapType
    <3> QED
      BY <2>5, <2>6, <3>1 DEF HeapType
  <2> QED
    BY <2>5, <2>6, <2>7
<1> QED
  BY <1>4, <1>5
-----------------------------------------------------------------------------
(* A large allocation has its page to itself.                              *)
LEMMA StepFreeLarge ==
  ASSUME HeapInv, NEW b \in live, FreeLarge(b)
  PROVE  HeapInv'
<1> USE DEF HeapInv
<1>1. PICK p : p = b[1]
  OBVIOUS
<1>2. p \in Page /\ arena[p] # NoArena /\ b = <<p, b[2]>> /\ (arena[p].desc = 0 => b[2] = 0)
  BY <1>1, Lives
<1>3. arena[p].desc = 0 /\ b = <<p, 0>>
  <2>1. arena[p].desc = 0
    BY <1>1 DEF FreeLarge
  <2>2. b[2] = 0
    BY <1>2, <2>1
  <2> QED
    BY <1>2, <2>1, <2>2
<1>4. PICK n : n = arena[p].cnt
  OBVIOUS
<1>5. /\ mfree_page(p, n) /\ arena' = [arena EXCEPT ![p] = NoArena]
      /\ live' = live \ {b} /\ free' = free /\ arena[p].large
  BY <1>1, <1>4 DEF FreeLarge
<1>16. Extent(p) = p..(p + n - 1)
  BY <1>2, <1>4, <1>5 DEF Extent
<1>6. /\ vbits' \in [Bytes -> Byte] /\ frames' \subseteq Frame
      /\ pte' \in [Page -> [frame : Frame, p : BOOLEAN]] /\ arena' \in [Page -> Arena]
      /\ arena'[p] = NoArena /\ \A q \in Page : q # p => arena'[q] = arena[q]
      /\ PagesOK' /\ FramesOK'
  BY <1>2, <1>5, <1>16, GivePages
<1>7. HeapType'
  BY <1>5, <1>6 DEF HeapType
<1>8. 0 \notin Desc /\ NoArena.desc = 0
  BY DEF Desc, NoArena
<1>9. ListsOK'
  <2>1. ASSUME NEW d \in Desc, NEW c, InList(free'[d], c)
        PROVE  c \notin live' /\ c \in Blocks(c[1], d) /\ arena'[c[1]].desc = d
    <3>1. c \notin live /\ c \in Blocks(c[1], d) /\ arena[c[1]].desc = d /\ c[1] \in Page
      BY <1>5, <2>1, Lists
    <3>2. c[1] # p
      BY <1>3, <1>8, <3>1
    <3> QED
      BY <1>5, <1>6, <3>1, <3>2
  <2>2. \A d \in Desc : \A i, j \in DOMAIN free'[d] : free'[d][i] = free'[d][j] => i = j
    BY <1>5, Lists
  <2> QED
    BY <2>1, <2>2, ListsBack
<1>10. LiveOK'
  <2>1. ASSUME NEW c \in live'
        PROVE  /\ arena'[c[1]] # NoArena
               /\ IF arena'[c[1]].desc = 0 THEN c[2] = 0 ELSE c \in Blocks(c[1], arena'[c[1]].desc)
    <3>1. c \in live /\ c # b
      BY <1>5
    <3>2. c[1] \in Page /\ c = <<c[1], c[2]>> /\ (arena[c[1]].desc = 0 => c[2] = 0)
      BY <3>1, Lives
    <3>3. c[1] # p
      BY <1>3, <3>1, <3>2
    <3> QED
      BY <1>6, <3>1, <3>2, <3>3, Lives
  <2> QED
    BY <2>1 DEF LiveOK
<1>11. CountsOK'
  <2>1. ASSUME NEW q \in Page, NEW d \in Desc, arena'[q].desc = d
        PROVE  /\ \A c \in Blocks(q, d) : c \in live' \/ InList(free'[d], c)
               /\ arena'[q].cnt = Cardinality(FreeBlocks(q, d)')
               /\ \E c \in live' : c[1] = q
    <3>1. q # p
      BY <1>6, <1>8, <2>1
    <3>2. arena'[q] = arena[q] /\ arena[q].desc = d
      BY <1>6, <2>1, <3>1
    <3> QED
      BY <1>1, <1>5, <3>1, <3>2, CountStays
  <2> QED
    BY <2>1 DEF CountsOK, FreeBlocks
<1> QED
  BY <1>6, <1>7, <1>9, <1>10, <1>11

(* What sys_free of a block finds: the block's arena counts the blocks of  *)
(* it that are in the list, this one not among them.                       *)
Freed(b, p, d, q) ==
         /\ p \in Page /\ d \in Desc /\ b \in Page \X Nat /\ b \in Blocks(p, d) /\ Present(p)
         /\ q \in Seq(Page \X Nat) /\ \A i, j \in DOMAIN q : q[i] = q[j] => i = j
         /\ \A c : InList(q, c) <=> InList(free[d], c) \/ c = b
         /\ b \notin FreeBlocks(p, d) /\ IsFiniteSet(FreeBlocks(p, d))
         /\ arena[p].cnt = Cardinality(FreeBlocks(p, d)) /\ arena[p].cnt \in Nat
         /\ Cardinality(FreeBlocks(p, d) \cup {b}) = arena[p].cnt + 1
         /\ FreeBlocks(p, d) \cup {b} \subseteq Blocks(p, d)
         /\ arena[p].cnt + 1 = blocks_per_arena(d) <=> FreeBlocks(p, d) \cup {b} = Blocks(p, d)

LEMMA FreedBlock ==
  ASSUME HeapInv, NEW b \in live, arena[b[1]].desc # 0
  PROVE  Freed(b, b[1], arena[b[1]].desc, Append(free[arena[b[1]].desc], b))
<1> USE DEF HeapInv
<1>p. PICK p : p = b[1]
  OBVIOUS
<1>d. PICK d : d = arena[p].desc
  OBVIOUS
<1>q. PICK q : q = Append(free[d], b)
  OBVIOUS
<1>0. p = b[1] /\ d = arena[p].desc /\ d # 0 /\ q = Append(free[d], b)
  BY <1>p, <1>d, <1>q
<1>1. p \in Page /\ b \in Page \X Nat /\ b \in Blocks(p, d)
  BY <1>0, Lives
<1>2. d \in Desc /\ Present(p) /\ arena[p].cnt \in Nat
  BY <1>0, <1>1, Kinds
<1>3. /\ free[d] \in Seq(Page \X Nat) /\ \A i, j \in DOMAIN free[d] : free[d][i] = free[d][j] => i = j
      /\ ~InList(free[d], b)
  BY <1>2, Lists
<1>4. /\ q \in Seq(Page \X Nat) /\ \A i, j \in DOMAIN q : q[i] = q[j] => i = j
      /\ \A c : InList(q, c) <=> InList(free[d], c) \/ c = b
  <2>1. PICK f : f = free[d]
    OBVIOUS
  <2>2. f \in Seq(Page \X Nat) /\ ~InList(f, b) /\ q = Append(f, b)
    BY <1>0, <1>3, <2>1
  <2>3. \A i, j \in DOMAIN f : f[i] = f[j] => i = j
    BY <1>3, <2>1, Zenon
  <2>4. /\ Append(f, b) \in Seq(Page \X Nat)
        /\ \A i, j \in DOMAIN Append(f, b) : Append(f, b)[i] = Append(f, b)[j] => i = j
        /\ \A c : InList(Append(f, b), c) <=> InList(f, c) \/ c = b
    BY <1>1, <2>2, <2>3, AppendOK
  <2> QED
    BY <2>1, <2>2, <2>4, Zenon
<1>5. PICK F : F = FreeBlocks(p, d)
  OBVIOUS
<1>6. PICK B : B = Blocks(p, d)
  OBVIOUS
<1>7. IsFiniteSet(B) /\ Cardinality(B) = blocks_per_arena(d)
  BY <1>2, <1>6, BlocksOK
<1>8. b \notin F /\ F \subseteq B
  BY <1>0, <1>3, <1>5, <1>6 DEF FreeBlocks
<1>9. IsFiniteSet(F)
  BY <1>7, <1>8, FS_Subset
<1>10. arena[p].cnt = Cardinality(F)
  BY <1>0, <1>1, <1>2, <1>5 DEF CountsOK
<1>11. IsFiniteSet(F \cup {b}) /\ Cardinality(F \cup {b}) = arena[p].cnt + 1
  BY <1>8, <1>9, <1>10, FS_AddElement
<1>12. F \cup {b} \subseteq B
  BY <1>1, <1>6, <1>8
<1>13. arena[p].cnt + 1 = blocks_per_arena(d) <=> F \cup {b} = B
  BY <1>7, <1>11, <1>12, FS_Subset
<1> QED
  BY <1>0, <1>1, <1>2, <1>4, <1>5, <1>6, <1>8, <1>9, <1>10, <1>11, <1>12, <1>13 DEF Freed
LEMMA FreeKeepsArena ==
  ASSUME HeapInv, NEW b \in live, FreeBlock(b), arena[b[1]].cnt + 1 # blocks_per_arena(arena[b[1]].desc)
  PROVE  HeapInv'
<1> USE DEF HeapInv
<1>1. PICK p : p = b[1]
  OBVIOUS
<1>2. PICK d : d = arena[p].desc
  OBVIOUS
<1>3. PICK q : q = Append(free[d], b)
  OBVIOUS
<1>4. /\ d # 0 /\ free' = [free EXCEPT ![d] = q] /\ arena' = [arena EXCEPT ![p].cnt = @ + 1]
      /\ live' = live \ {b} /\ UNCHANGED <<vbits, frames, pte, panic>>
  BY <1>1, <1>2, <1>3 DEF FreeBlock
<1>5. PICK n : n = arena[p].cnt
  OBVIOUS
<1>0. Freed(b, p, d, q)
  BY <1>1, <1>2, <1>3, <1>4, FreedBlock
<1>6. /\ p \in Page /\ d \in Desc /\ b \in Page \X Nat /\ b \in Blocks(p, d) /\ Present(p)
      /\ q \in Seq(Page \X Nat) /\ \A i, j \in DOMAIN q : q[i] = q[j] => i = j
      /\ \A c : InList(q, c) <=> InList(free[d], c) \/ c = b
  BY <1>0 DEF Freed
<1>7. /\ n \in Nat /\ Cardinality(FreeBlocks(p, d) \cup {b}) = n + 1
      /\ FreeBlocks(p, d) \cup {b} \subseteq Blocks(p, d)
      /\ FreeBlocks(p, d) \cup {b} # Blocks(p, d)
  <2>1. n + 1 # blocks_per_arena(d)
    BY <1>1, <1>2, <1>5
  <2> QED
    BY <1>0, <1>5, <2>1 DEF Freed
<1>8. /\ free'[d] = q /\ \A e \in Desc : e # d => free'[e] = free[e]
      /\ free' \in [Desc -> Seq(Page \X Nat)]
  <2>1. free \in [Desc -> Seq(Page \X Nat)]
    BY DEF HeapType
  <2> QED
    BY <1>4, <1>6, <2>1
<1>9. /\ arena' \in [Page -> Arena]
      /\ \A x \in Page : x # p => arena'[x] = arena[x]
      /\ arena'[p].desc = d /\ arena'[p].large = arena[p].large /\ arena'[p].cnt = n + 1
      /\ arena'[p] # NoArena /\ arena[p] # NoArena
  <2>1. arena \in [Page -> Arena]
    BY DEF HeapType
  <2>2. arena'[p] = [arena[p] EXCEPT !.cnt = @ + 1]
    BY <1>4, <1>6, <2>1
  <2>3. arena[p] \in [desc : 0..DESC_CNT, cnt : Nat, large : BOOLEAN]
    BY <1>6, <2>1 DEF Arena
  <2>4. arena'[p] = [desc |-> d, cnt |-> n + 1, large |-> arena[p].large]
    BY <1>2, <1>5, <2>2, <2>3
  <2>5. NoArena.desc = 0
    BY DEF NoArena
  <2>6. arena'[p] \in Arena
    BY <1>2, <1>7, <2>3, <2>4 DEF Arena
  <2>7. \A x \in Page : x # p => arena'[x] = arena[x]
    BY <1>4, <2>1
  <2>8. arena' \in [Page -> Arena]
    BY <1>4, <2>1, <2>6, <2>7
  <2>9. arena'[p].desc = d /\ arena'[p].large = arena[p].large /\ arena'[p].cnt = n + 1
    BY <2>4
  <2>10. arena'[p] # NoArena /\ arena[p] # NoArena
    BY <1>2, <1>4, <2>5, <2>9
  <2> QED
    BY <2>7, <2>8, <2>9, <2>10
<1>10. HeapType'
  BY <1>4, <1>8, <1>9 DEF HeapType
<1>11. PagesOK' /\ FramesOK'
  BY <1>2, <1>4, <1>6, <1>9, PagesKept
<1>12. ListsOK'
  <2>1. ASSUME NEW e \in Desc
        PROVE  /\ \A i, j \in DOMAIN free'[e] : free'[e][i] = free'[e][j] => i = j
               /\ \A c : InList(free'[e], c) =>
                    c \notin live' /\ c \in Blocks(c[1], e) /\ arena'[c[1]].desc = e
    <3>1. \A i, j \in DOMAIN free'[e] : free'[e][i] = free'[e][j] => i = j
      BY <1>6, <1>8, Lists
    <3>2. ASSUME NEW c, InList(free'[e], c)
          PROVE  c \notin live' /\ c \in Blocks(c[1], e) /\ arena'[c[1]].desc = e
      <4>1. InList(free[e], c) \/ (e = d /\ c = b)
        BY <1>6, <1>8, <3>2
      <4>2. CASE InList(free[e], c)
        <5>1. c \notin live /\ c \in Blocks(c[1], e) /\ arena[c[1]].desc = e /\ c[1] \in Page
          BY <4>2, Lists
        <5> QED
          BY <1>2, <1>4, <1>9, <5>1
      <4>3. CASE e = d /\ c = b
        BY <1>1, <1>4, <1>6, <1>9, <4>3
      <4> QED
        BY <4>1, <4>2, <4>3
    <3> QED
      BY <3>1, <3>2
  <2> QED
    BY <2>1, ListsBack
<1>13. LiveOK'
  <2>1. ASSUME NEW c \in live'
        PROVE  /\ arena'[c[1]] # NoArena
               /\ IF arena'[c[1]].desc = 0 THEN c[2] = 0 ELSE c \in Blocks(c[1], arena'[c[1]].desc)
    <3>1. c \in live
      BY <1>4
    <3>2. c[1] \in Page /\ arena'[c[1]].desc = arena[c[1]].desc /\ arena'[c[1]] # NoArena
      BY <1>2, <1>9, <3>1, Lives
    <3> QED
      BY <3>1, <3>2, Lives
  <2> QED
    BY <2>1 DEF LiveOK
<1>14. CountsOK'
  <2>1. ASSUME NEW x \in Page, NEW e \in Desc, arena'[x].desc = e
        PROVE  /\ \A c \in Blocks(x, e) : c \in live' \/ InList(free'[e], c)
               /\ arena'[x].cnt = Cardinality(FreeBlocks(x, e)')
               /\ \E c \in live' : c[1] = x
    <3>1. CASE x = p
      <4>1. e = d
        BY <1>9, <2>1, <3>1
      <4>2. \A c \in Blocks(p, d) : c \in live \/ InList(free[d], c)
        BY <1>2, <1>6 DEF CountsOK
      <4>3. \A c \in Blocks(p, d) : c \in live' \/ InList(free'[d], c)
        BY <1>4, <1>6, <1>8, <4>2
      <4>4. FreeBlocks(p, d)' = FreeBlocks(p, d) \cup {b}
        BY <1>6, <1>8 DEF FreeBlocks
      <4>5. PICK c \in Blocks(p, d) : c \notin FreeBlocks(p, d) \cup {b}
        BY <1>7
      <4>6. c \in live' /\ c[1] = p
        <5>1. c[1] = p
          BY DEF Blocks
        <5>2. ~InList(free[d], c) /\ c # b
          BY <4>5 DEF FreeBlocks
        <5> QED
          BY <1>4, <4>2, <5>1, <5>2
      <4>7. arena'[p].cnt = Cardinality(FreeBlocks(p, d)')
        BY <1>7, <1>9, <4>4
      <4> QED
        BY <3>1, <4>1, <4>3, <4>6, <4>7
    <3>2. CASE x # p
      <4>1. arena'[x] = arena[x] /\ arena[x].desc = e
        BY <1>9, <2>1, <3>2
      <4>2. \A c : c[1] = x => (InList(free'[e], c) <=> InList(free[e], c))
        BY <1>1, <1>6, <1>8, <3>2
      <4>3. \A c \in live : c[1] = x => c \in live'
        BY <1>1, <1>4, <3>2
      <4> QED
        BY <4>1, <4>2, <4>3, CountStays
    <3> QED
      BY <3>1, <3>2
  <2> QED
    BY <2>1 DEF CountsOK, FreeBlocks
<1> QED
  BY <1>10, <1>11, <1>12, <1>13, <1>14

(* The last block of an arena: all of the blocks are found in the list.    *)
LEMMA FreeGivesArena ==
  ASSUME HeapInv, NEW b \in live, FreeBlock(b), arena[b[1]].cnt + 1 = blocks_per_arena(arena[b[1]].desc)
  PROVE  HeapInv' /\ panic' = panic
<1> USE DEF HeapInv
<1>1. PICK p : p = b[1]
  OBVIOUS
<1>2. PICK d : d = arena[p].desc
  OBVIOUS
<1>3. PICK q : q = Append(free[d], b)
  OBVIOUS
<1>4. d # 0
  BY <1>1, <1>2 DEF FreeBlock
<1>0. Freed(b, p, d, q)
  BY <1>1, <1>2, <1>3, <1>4, FreedBlock
<1>5. /\ p \in Page /\ d \in Desc /\ b \in Page \X Nat /\ b \in Blocks(p, d) /\ Present(p)
      /\ q \in Seq(Page \X Nat) /\ \A i, j \in DOMAIN q : q[i] = q[j] => i = j
      /\ \A c : InList(q, c) <=> InList(free[d], c) \/ c = b
  BY <1>0 DEF Freed
<1>6. FreeBlocks(p, d) \cup {b} = Blocks(p, d)
  <2>1. arena[p].cnt + 1 = blocks_per_arena(d)
    BY <1>1, <1>2
  <2> QED
    BY <1>0, <2>1 DEF Freed
<1>7. \A c \in Blocks(p, d) : InList(q, c)
  BY <1>5, <1>6 DEF FreeBlocks
<1>8. PICK s : s = RemoveArena(q, p)
  OBVIOUS
<1>9. /\ free' = [free EXCEPT ![d] = s] /\ mfree_page(p, 1)
      /\ arena' = [arena EXCEPT ![p] = NoArena] /\ live' = live \ {b} /\ panic' = panic
  BY <1>1, <1>2, <1>3, <1>7, <1>8 DEF FreeBlock
<1>10. /\ s \in Seq(Page \X Nat) /\ \A i, j \in DOMAIN s : s[i] = s[j] => i = j
       /\ \A c : InList(s, c) <=> InList(q, c) /\ c[1] # p
  BY <1>5, <1>8, RemoveArenaOK
<1>11. \A c : InList(s, c) <=> InList(free[d], c) /\ c[1] # p
  BY <1>1, <1>5, <1>10
<1>12. /\ free'[d] = s /\ \A e \in Desc : e # d => free'[e] = free[e]
       /\ free' \in [Desc -> Seq(Page \X Nat)]
  <2>1. free \in [Desc -> Seq(Page \X Nat)]
    BY DEF HeapType
  <2> QED
    BY <1>5, <1>9, <1>10, <2>1
<1>13. /\ vbits' \in [Bytes -> Byte] /\ frames' \subseteq Frame
       /\ pte' \in [Page -> [frame : Frame, p : BOOLEAN]]
       /\ arena' \in [Page -> Arena]
       /\ arena'[p] = NoArena /\ \A x \in Page : x # p => arena'[x] = arena[x]
       /\ PagesOK' /\ FramesOK'
  <2>1. arena[p] # NoArena
    BY <1>2, <1>4 DEF NoArena
  <2>2. Extent(p) = p..(p + 1 - 1)
    <3>1. p..(p + 1 - 1) = {p} /\ ~arena[p].large
      BY <1>2, <1>4, <1>5, <2>1, Shape DEF Page, PagesOK
    <3> QED
      BY <2>1, <3>1 DEF Extent
  <2> QED
    BY <1>5, <1>9, <2>1, <2>2, GivePages
<1>14. HeapType'
  BY <1>9, <1>12, <1>13 DEF HeapType
<1>15. 0 \notin Desc /\ NoArena.desc = 0
  BY DEF Desc, NoArena
<1>16. ListsOK'
  <2>1. ASSUME NEW e \in Desc
        PROVE  /\ \A i, j \in DOMAIN free'[e] : free'[e][i] = free'[e][j] => i = j
               /\ \A c : InList(free'[e], c) =>
                    c \notin live' /\ c \in Blocks(c[1], e) /\ arena'[c[1]].desc = e
    <3>1. \A i, j \in DOMAIN free'[e] : free'[e][i] = free'[e][j] => i = j
      BY <1>10, <1>12, Lists
    <3>2. ASSUME NEW c, InList(free'[e], c)
          PROVE  c \notin live' /\ c \in Blocks(c[1], e) /\ arena'[c[1]].desc = e
      <4>1. InList(free[e], c) /\ (e = d => c[1] # p)
        BY <1>11, <1>12, <3>2
      <4>2. c \notin live /\ c \in Blocks(c[1], e) /\ arena[c[1]].desc = e /\ c[1] \in Page
        BY <4>1, Lists
      <4>3. c[1] # p
        BY <1>2, <4>1, <4>2
      <4> QED
        BY <1>9, <1>13, <4>2, <4>3
    <3> QED
      BY <3>1, <3>2
  <2> QED
    BY <2>1, ListsBack
<1>17. \A c \in live' : c \in live /\ c[1] # p
  <2>1. SUFFICES ASSUME NEW c \in live, c # b, c[1] = p PROVE FALSE
    BY <1>9
  <2>2. c \in Blocks(p, d)
    BY <1>2, <1>4, <2>1, Lives
  <2>3. InList(free[d], c)
    BY <1>5, <1>7, <2>1, <2>2
  <2> QED
    BY <1>5, <2>3, Lists
<1>18. LiveOK'
  <2>1. ASSUME NEW c \in live'
        PROVE  /\ arena'[c[1]] # NoArena
               /\ IF arena'[c[1]].desc = 0 THEN c[2] = 0 ELSE c \in Blocks(c[1], arena'[c[1]].desc)
    <3>1. c \in live /\ c[1] # p
      BY <1>17
    <3>2. arena'[c[1]] = arena[c[1]]
      BY <1>13, <3>1, Lives
    <3> QED
      BY <3>1, <3>2, Lives
  <2> QED
    BY <2>1 DEF LiveOK
<1>19. CountsOK'
  <2>1. ASSUME NEW x \in Page, NEW e \in Desc, arena'[x].desc = e
        PROVE  /\ \A c \in Blocks(x, e) : c \in live' \/ InList(free'[e], c)
               /\ arena'[x].cnt = Cardinality(FreeBlocks(x, e)')
               /\ \E c \in live' : c[1] = x
    <3>1. x # p
      BY <1>13, <1>15, <2>1
    <3>2. arena'[x] = arena[x] /\ arena[x].desc = e
      BY <1>13, <2>1, <3>1
    <3>3. \A c : c[1] = x => (InList(free'[e], c) <=> InList(free[e], c))
      BY <1>11, <1>12, <3>1
    <3>4. \A c \in live : c[1] = x => c \in live'
      BY <1>1, <1>9, <3>1
    <3> QED
      BY <3>2, <3>3, <3>4, CountStays
  <2> QED
    BY <2>1 DEF CountsOK, FreeBlocks
<1> QED
  BY <1>9, <1>13, <1>14, <1>16, <1>18, <1>19
-----------------------------------------------------------------------------
LEMMA HeapInvInit ==
  ASSUME HeapInit
  PROVE  HeapInv
<1>1. PICK junk \in Byte : vbits = bitmap_init([i \in Bytes |-> junk])
  BY DEF HeapInit
<1>2. /\ frames = {} /\ pte = [p \in Page |-> [frame |-> 0, p |-> FALSE]]
      /\ arena = [p \in Page |-> NoArena] /\ free = [d \in Desc |-> <<>>]
      /\ live = {} /\ panic = "none"
  BY DEF HeapInit
<1>3. vbits \in [Bytes -> Byte] /\ \A i \in 0..(btmp_bytes_len - 1) : vbits[i] = {}
  <2>1. {} \in Byte
    BY DEF Byte
  <2>2. \A i \in 0..(btmp_bytes_len - 1) : i \in Bytes /\ i < btmp_bytes_len
    BY Shape DEF Bytes
  <2> QED
    BY <1>1, <2>1, <2>2 DEF bitmap_init
<1>4. \A p \in Page : p < Size => ~Used(vbits, p)
  <2>1. SUFFICES ASSUME NEW p \in Page, p < Size PROVE ~Used(vbits, p)
    OBVIOUS
  <2>2. PICK n, k : n = p \div W /\ k = p % W
    OBVIOUS
  <2>3. p \in Nat /\ n \in Nat /\ k \in 0..(W - 1) /\ p = n * W + k
    BY <2>2, Place, Shape DEF Page
  <2>4. n < btmp_bytes_len
    <3>1. SUFFICES ASSUME n >= btmp_bytes_len PROVE FALSE
      BY <2>3, Shape
    <3>2. PICK m \in Nat : n = btmp_bytes_len + m
      <4>1. n - btmp_bytes_len \in Nat /\ n = btmp_bytes_len + (n - btmp_bytes_len)
        BY <2>3, <3>1, Shape
      <4> QED
        BY <4>1
    <3>3. m * W \in Nat /\ n * W = btmp_bytes_len * W + m * W
      BY <3>2, Shape
    <3> QED
      BY <2>1, <2>3, <3>3, Shape DEF Size
  <2>5. n \in 0..(btmp_bytes_len - 1)
    BY <2>3, <2>4, Shape
  <2> QED
    BY <1>3, <2>2, <2>5 DEF Used
<1>5. HeapType
  <2>1. 0 \in Frame
    <3>1. PICK n : n = FrameLen * W
      OBVIOUS
    <3>2. n \in Nat \ {0}
      BY <3>1, Shape, HeapAssumption DEF HeapAssumption
    <3> QED
      BY <3>1, <3>2 DEF Frame
  <2>2. NoArena \in [desc : 0..DESC_CNT, cnt : Nat, large : BOOLEAN]
    BY HeapAssumption DEF HeapAssumption, NoArena
  <2>3. <<>> \in Seq(Page \X Nat)
    OBVIOUS
  <2> QED
    BY <1>2, <1>3, <2>1, <2>2, <2>3 DEF HeapType, Arena
<1>6. PagesOK
  BY <1>2, <1>4 DEF PagesOK, Present, Extent
<1>7. FramesOK
  BY <1>2 DEF FramesOK, Present
<1>8. ListsOK /\ LiveOK /\ CountsOK
  BY <1>2 DEF ListsOK, LiveOK, CountsOK, NoArena, Desc
<1> QED
  BY <1>5, <1>6, <1>7, <1>8 DEF HeapInv

LEMMA HeapInvNext ==
  ASSUME HeapInv, [HeapNext]_heapVars
  PROVE  HeapInv'
<1>1. CASE UNCHANGED heapVars
  BY <1>1, HeapSame DEF heapVars
<1>2. ASSUME NEW size \in AskFor, MallocLarge(size) PROVE HeapInv'
  BY <1>2, StepMallocLarge
<1>3. ASSUME NEW size \in AskFor, MallocBlock(size) PROVE HeapInv'
  BY <1>3, StepMallocBlock
<1>4. ASSUME NEW size \in AskFor, MallocNewArena(size) PROVE HeapInv'
  BY <1>4, StepMallocNewArena
<1>5. ASSUME NEW size \in AskFor, MallocNothing(size) PROVE HeapInv'
  BY <1>5, HeapSame DEF MallocNothing, ReturnsNULL, heapVars
<1>6. ASSUME NEW b \in live, FreeLarge(b) PROVE HeapInv'
  BY <1>6, StepFreeLarge
<1>7. ASSUME NEW b \in live, FreeBlock(b) PROVE HeapInv'
  BY <1>7, FreeKeepsArena, FreeGivesArena
<1> QED
  BY <1>1, <1>2, <1>3, <1>4, <1>5, <1>6, <1>7 DEF HeapNext

(* The ASSERTs: those of the bitmap_scans, of page_table_add and of        *)
(* elem_find.  For one page the first is that of a full bitmap, the last   *)
(* never fails.                                                            *)
LEMMA PanicNext ==
  ASSUME HeapInv, PanicsOnlyWhenFull, [HeapNext]_heapVars
  PROVE  PanicsOnlyWhenFull'
<1> USE DEF HeapInv
<1>1. ASSUME Panics("page"), Full(vbits) \/ FreeFrames = {} PROVE PanicsOnlyWhenFull'
  BY <1>1 DEF Panics, PanicsOnlyWhenFull, Full, NotFull, FreeFrames
<1>2. ASSUME Panics("range") \/ panic' = "none" PROVE PanicsOnlyWhenFull'
  BY <1>2 DEF Panics, PanicsOnlyWhenFull
<1>3. CASE UNCHANGED heapVars
  BY <1>3 DEF PanicsOnlyWhenFull, heapVars, Full, NotFull, FreeFrames
<1>4. CASE HeapNext
  <2>1. panic = "none"
    BY <1>4 DEF HeapNext
  <2>2. ASSUME NEW size \in AskFor, MallocLarge(size) PROVE PanicsOnlyWhenFull'
    <3>1. PICK n : n = Roll(size + ARENA, PG_SIZE)
      OBVIOUS
    <3>2. CASE n = 1
      <4>1. ~Full(vbits) => vaddr_get(1) # -1 /\ (FailsAt(vaddr_get(1), 1) => FreeFrames = {})
        BY OnePage
      <4>2. \/ Panics("page") /\ (Full(vbits) \/ FailsAt(vaddr_get(1), 1))
            \/ panic' = "none"
        BY <2>1, <2>2, <3>1, <3>2, <4>1 DEF MallocLarge, malloc_page
      <4> QED
        BY <1>1, <1>2, <4>1, <4>2
    <3>3. CASE n # 1
      <4>1. Panics("range") \/ panic' = "none"
        BY <2>1, <2>2, <3>1, <3>3 DEF MallocLarge, malloc_page, ReturnsNULL, heapVars
      <4> QED
        BY <1>2, <4>1
    <3> QED
      BY <3>2, <3>3
  <2>3. ASSUME NEW size \in AskFor, MallocBlock(size) PROVE PanicsOnlyWhenFull'
    BY <1>2, <2>1, <2>3 DEF MallocBlock
  <2>4. ASSUME NEW size \in AskFor, MallocNewArena(size) PROVE PanicsOnlyWhenFull'
    <3>1. ~Full(vbits) => (FailsAt(vaddr_get(1), 1) => FreeFrames = {})
      BY OnePage
    <3>2. \/ Panics("page") /\ (Full(vbits) \/ FailsAt(vaddr_get(1), 1))
          \/ panic' = "none"
      BY <2>1, <2>4 DEF MallocNewArena, malloc_page
    <3> QED
      BY <1>1, <1>2, <3>1, <3>2
  <2>5. ASSUME NEW size \in AskFor, MallocNothing(size) PROVE PanicsOnlyWhenFull'
    BY <1>3, <2>5 DEF MallocNothing, ReturnsNULL
  <2>6. ASSUME NEW b \in live, FreeLarge(b) PROVE PanicsOnlyWhenFull'
    BY <1>2, <2>1, <2>6 DEF FreeLarge
  <2>7. ASSUME NEW b \in live, FreeBlock(b) PROVE PanicsOnlyWhenFull'
    <3>1. CASE arena[b[1]].cnt + 1 = blocks_per_arena(arena[b[1]].desc)
      <4>1. panic' = panic
        BY <2>7, <3>1, FreeGivesArena
      <4> QED
        BY <1>2, <2>1, <4>1
    <3>2. CASE arena[b[1]].cnt + 1 # blocks_per_arena(arena[b[1]].desc)
      BY <1>2, <2>1, <2>7, <3>2 DEF FreeBlock
    <3> QED
      BY <3>1, <3>2
  <2> QED
    BY <1>4, <2>2, <2>3, <2>4, <2>5, <2>6, <2>7 DEF HeapNext
<1> QED
  BY <1>3, <1>4

(* The invariant, for requests of any size.                                *)
THEOREM HeapInvariant == HeapSpec => []HeapInv
<1>1. HeapInit => HeapInv
  BY HeapInvInit
<1>2. HeapInv /\ [HeapNext]_heapVars => HeapInv'
  BY HeapInvNext
<1> QED
  BY <1>1, <1>2, PTL DEF HeapSpec

(* A block that sys_malloc hands out is in no free_list and is handed out  *)
(* to nobody else, and sys_free finds the arena that it came from.         *)
THEOREM HeapLiveBlocksApart == HeapSpec => []LiveBlocksApart
<1>1. HeapInv => LiveBlocksApart
  <2> SUFFICES ASSUME HeapInv PROVE LiveBlocksApart
    OBVIOUS
  <2>1. ASSUME NEW d \in Desc, NEW i \in DOMAIN free[d], NEW j \in DOMAIN free[d]
        PROVE  /\ free[d][i] = free[d][j] => i = j
               /\ free[d][i] \notin live /\ arena[free[d][i][1]].desc = d
    <3>1. ListsOK
      BY DEF HeapInv
    <3> QED
      BY <3>1 DEF ListsOK
  <2>2. ASSUME NEW b \in live
        PROVE  /\ arena[b[1]] # NoArena
               /\ arena[b[1]].desc # 0 => b \in Blocks(b[1], arena[b[1]].desc)
               /\ arena[b[1]].desc = 0 => b[2] = 0
    BY Lives DEF HeapInv
  <2> QED
    BY <2>1, <2>2 DEF LiveBlocksApart
<1> QED
  BY <1>1, HeapInvariant, PTL

(* a->cnt is the number of free blocks, so that sys_free gives a page back *)
(* with its last block and not before.                                     *)
THEOREM HeapArenaCounts == HeapSpec => []ArenaCounts
<1>1. HeapInv => ArenaCounts
  <2> SUFFICES ASSUME HeapInv, NEW p \in Page, NEW d, d = arena[p].desc, d # 0
               PROVE  /\ arena[p].cnt = Cardinality(FreeBlocks(p, d))
                      /\ arena[p].cnt + Cardinality(LiveBlocks(p)) = blocks_per_arena(d)
                      /\ LiveBlocks(p) # {}
    BY DEF ArenaCounts
  <2>1. d \in Desc
    BY Kinds DEF HeapInv
  <2>2. /\ \A b \in Blocks(p, d) : b \in live \/ InList(free[d], b)
        /\ arena[p].cnt = Cardinality(FreeBlocks(p, d)) /\ \E b \in live : b[1] = p
    BY <2>1 DEF HeapInv, CountsOK
  <2>3. PICK L, F, B : L = LiveBlocks(p) /\ F = FreeBlocks(p, d) /\ B = Blocks(p, d)
    OBVIOUS
  <2>4. F \subseteq B /\ L \subseteq B /\ L \cup F = B /\ L \cap F = {}
    <3>1. F \subseteq B
      BY <2>3 DEF FreeBlocks
    <3>2. \A b \in L : b \in live /\ b[1] = p
      BY <2>3 DEF LiveBlocks
    <3>3. L \subseteq B
      BY <2>3, <3>2, Lives DEF HeapInv
    <3>4. \A b \in B : b \in L \/ b \in F
      BY <2>2, <2>3 DEF LiveBlocks, FreeBlocks, Blocks
    <3>5. \A b \in F : b \notin live
      BY <2>1, <2>3, Lists DEF HeapInv, FreeBlocks
    <3> QED
      BY <3>1, <3>2, <3>3, <3>4, <3>5
  <2>5. IsFiniteSet(B) /\ Cardinality(B) = blocks_per_arena(d)
    BY <2>1, <2>3, BlocksOK
  <2>6. IsFiniteSet(L) /\ IsFiniteSet(F)
    BY <2>4, <2>5, FS_Subset
  <2>7. Cardinality(B) = Cardinality(L) + Cardinality(F) - Cardinality({})
    BY <2>4, <2>6, FS_Union
  <2>8. Cardinality(L) \in Nat /\ Cardinality(F) \in Nat /\ Cardinality({}) = 0
    BY <2>6, FS_CardinalityType, FS_EmptySet
  <2>9. L # {}
    BY <2>2, <2>3 DEF LiveBlocks
  <2> QED
    BY <2>2, <2>3, <2>5, <2>7, <2>8, <2>9
<1> QED
  BY <1>1, HeapInvariant, PTL

(* The bitmap of the virtual pool, the page table and the frames of the    *)
(* physical pool agree after every sys_malloc and sys_free.                *)
THEOREM HeapPagesMatch == HeapSpec => []PagesMatch
<1>1. HeapInv => PagesMatch
  <2> SUFFICES ASSUME HeapInv PROVE PagesMatch
    OBVIOUS
  <2>2. \A p \in 0..(Size - 1) : Used(vbits, p) <=> Present(p)
    <3>1. \A p \in 0..(Size - 1) : p \in Page /\ p < Size
      BY Shape DEF Page
    <3> QED
      BY <3>1 DEF HeapInv, PagesOK
  <2>3. \A p \in Page : Present(p) <=> \E r \in Page : p \in Extent(r)
    BY DEF HeapInv, PagesOK
  <2>4. \A r, s \in Page : r # s => Extent(r) \cap Extent(s) = {}
    BY DEF HeapInv, PagesOK
  <2>5. \A p, q \in Page : Present(p) /\ Present(q) /\ pte[p].frame = pte[q].frame => p = q
    BY DEF HeapInv, FramesOK
  <2>6. frames = {pte[p].frame : p \in {q \in Page : Present(q)}}
    <3>1. frames \subseteq Frame /\ \A p \in Page : pte[p].frame \in Frame
      BY DEF HeapInv, HeapType
    <3>2. \A f \in Frame : f \in frames <=> \E p \in Page : Present(p) /\ pte[p].frame = f
      BY DEF HeapInv, FramesOK
    <3> QED
      BY <3>1, <3>2
  <2> QED
    BY <2>2, <2>3, <2>4, <2>5, <2>6 DEF PagesMatch
<1> QED
  BY <1>1, HeapInvariant, PTL

(* A request that fits a page fails an ASSERT only when a bitmap is full,  *)
(* whatever was asked for before it: page_table_add finds no entry         *)
(* present.  sys_free finds all blocks of an arena in the free_list.       *)
THEOREM HeapPanicsOnlyWhenFull == HeapSpec => []PanicsOnlyWhenFull
<1>1. HeapInit => PanicsOnlyWhenFull
  BY DEF HeapInit, PanicsOnlyWhenFull
<1>2. HeapInv /\ PanicsOnlyWhenFull /\ [HeapNext]_heapVars => PanicsOnlyWhenFull'
  BY PanicNext
<1> QED
  BY <1>1, <1>2, HeapInvariant, PTL DEF HeapSpec
=============================================================================
