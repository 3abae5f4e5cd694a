---------------------------- MODULE FileIOProofs ----------------------------
(***************************************************************************)
(* Theorems about the blocks and the bytes of files, for any number of     *)
(* files, any size of a sector, any number of direct addresses and of      *)
(* addresses in the table, any partition and any counts and offsets.       *)
(*                                                                         *)
(* The inductive invariant treats the address of the table like that of a  *)
(* block: Addr(f, p) for p in Place.  No address serves for two places of  *)
(* a file or for two files (Apart, Owned); a file that has any block has   *)
(* all those up to the one it grows into (Shaped), so a write always finds *)
(* the sector its only chunk goes to; and then every byte stays in place.  *)
(***************************************************************************)
EXTENDS FileIO, FiniteSetTheorems, TLAPS

Place == -1..(MAX_BLOCKS - 1)   \* -1 is TABLE
Addr(f, p) == IF p = TABLE THEN inode[f].i_sectors[DIRECT] ELSE BlockAt(f, p)

FileType ==
  /\ inode \in [File -> [i_size : Nat, i_sectors : [0..DIRECT -> 0..NB]]]
  /\ tab \in [Block -> [0..(INDIRECT - 1) -> 0..NB]]
  /\ data = [b \in Block |-> [k \in 0..(BLOCK_SIZE - 1) |-> data[b][k]]]
  /\ bitmap \in SUBSET Block
  /\ pos \in [File -> Int]

(* file_write creates the first block of a file before anything else, and  *)
(* allocates a block for the place behind the last byte.                   *)
Shaped ==
  \A f \in File :
    /\ has(f) <= MAX_BLOCKS
    /\ Addr(f, 0) = 0 => inode[f] = NoInode
    /\ Addr(f, 0) # 0 => \A p \in 0..(has(f) - 1) : Addr(f, p) # 0

Apart ==
  \A f \in File : \A p, q \in Place : Addr(f, p) = Addr(f, q) /\ Addr(f, p) # 0 => p = q

Owned ==
  /\ \A f \in File : \A p \in Place : Addr(f, p) \in bitmap \cup {0}
  /\ \A f, g \in File : \A p, q \in Place :
       Addr(f, p) = Addr(g, q) /\ Addr(f, p) # 0 => f = g

BlocksInv == FileType /\ Shaped /\ Apart /\ Owned
FileInv   == BlocksInv /\ BytesInPlace
-----------------------------------------------------------------------------
LEMMA Constants ==
  /\ BLOCK_SIZE \in Nat /\ BLOCK_SIZE > 0 /\ NB \in Nat /\ NB > 0
  /\ DIRECT \in Nat /\ DIRECT > 0 /\ INDIRECT \in Nat /\ INDIRECT > 0
  /\ MAX_BLOCKS \in Nat /\ MAX_BLOCKS = DIRECT + INDIRECT
  /\ Count \subseteq Nat
BY FileIOAssumption DEF FileIOAssumption, MAX_BLOCKS

LEMMA Places ==
  /\ \A p : p \in Place <=> p \in Int /\ -1 <= p /\ p < MAX_BLOCKS
  /\ TABLE = -1 /\ 0 \in Place /\ TABLE \in Place
BY Constants DEF Place, TABLE

LEMMA AddrType ==
  ASSUME FileType, NEW f \in File, NEW p \in Place
  PROVE  Addr(f, p) \in 0..NB
<1>1. PICK i \in [i_size : Nat, i_sectors : [0..DIRECT -> 0..NB]] : i = inode[f]
  BY DEF FileType
<1>2. i.i_sectors \in [0..DIRECT -> 0..NB]
  OBVIOUS
<1>3. i.i_sectors[DIRECT] \in 0..NB /\ (p >= 0 /\ p < DIRECT => i.i_sectors[p] \in 0..NB)
  BY <1>2, Constants, Places
<1>4. \A b \in Block : \A k \in 0..(INDIRECT - 1) : tab[b][k] \in 0..NB
  BY DEF FileType
<1>5. i.i_sectors[DIRECT] # 0 /\ p >= DIRECT => tab[i.i_sectors[DIRECT]][p - DIRECT] \in 0..NB
  <2>1. PICK d \in 0..NB : d = i.i_sectors[DIRECT]
    BY <1>3
  <2>2. p \in Int /\ (p >= DIRECT => p - DIRECT \in 0..(INDIRECT - 1))
    BY Constants, Places
  <2>3. d # 0 => d \in Block
    BY Constants DEF Block
  <2> QED
    BY <1>4, <2>1, <2>2, <2>3
<1>6. 0 \in 0..NB /\ p \in Int /\ (p # TABLE => p >= 0)
  BY Constants, Places
<1> QED
  BY <1>1, <1>3, <1>5, <1>6, Constants DEF Addr, BlockAt

LEMMA Sizes ==
  ASSUME FileType, NEW f \in File, NEW count \in Nat
  PROVE  /\ inode[f].i_size \in Nat
         /\ has(f) \in Nat /\ has(f) > 0 /\ has(f) - 1 = inode[f].i_size \div BLOCK_SIZE
         /\ will(f, count) \in Nat /\ has(f) <= will(f, count)
<1>1. PICK s \in Nat : s = inode[f].i_size
  BY DEF FileType
<1>2. s \div BLOCK_SIZE \in Nat /\ (s + count) \div BLOCK_SIZE \in Nat
  BY Constants
<1>3. s \div BLOCK_SIZE <= (s + count) \div BLOCK_SIZE
  BY Constants
<1> QED
  BY <1>1, <1>2, <1>3 DEF has, will
-----------------------------------------------------------------------------
(* block_bitmap_alloc: the n-th free block for the n-th call.              *)
Below(S, x) == Cardinality({y \in S : y < x})

LEMMA BelowOK ==
  ASSUME NEW S \in SUBSET Nat, IsFiniteSet(S)
  PROVE  /\ \A x \in S : Below(S, x) \in 0..(Cardinality(S) - 1)
         /\ \A x, y \in S : Below(S, x) = Below(S, y) => x = y
         /\ \A n \in 0..(Cardinality(S) - 1) : \E x \in S : Below(S, x) = n
<1> DEFINE B(x) == {y \in S : y < x}
<1>1. Cardinality(S) \in Nat
  BY FS_CardinalityType
<1>2. ASSUME NEW x \in S PROVE IsFiniteSet(B(x)) /\ Below(S, x) \in 0..(Cardinality(S) - 1)
  <2>1. B(x) \subseteq S /\ x \notin B(x)
    OBVIOUS
  <2>2. Below(S, x) = Cardinality(B(x))
    BY DEF Below
  <2> HIDE DEF B
  <2>3. IsFiniteSet(B(x)) /\ Cardinality(B(x)) <= Cardinality(S) /\ Cardinality(B(x)) # Cardinality(S)
    BY <2>1, FS_Subset
  <2>4. Cardinality(B(x)) \in Nat
    BY <2>3, FS_CardinalityType
  <2> QED
    BY <1>1, <2>2, <2>3, <2>4
<1>3. ASSUME NEW x \in S, NEW y \in S, x < y PROVE Below(S, x) # Below(S, y)
  <2>0. x \in Nat /\ y \in Nat
    OBVIOUS
  <2>1. x \in B(y) /\ x \notin B(x) /\ \A z \in S : z < x => z < y
    BY <1>3, <2>0
  <2>3. B(x) \subseteq B(y)
    BY <2>1
  <2>2. Below(S, x) = Cardinality(B(x)) /\ Below(S, y) = Cardinality(B(y))
    BY DEF Below
  <2> HIDE DEF B
  <2>4. IsFiniteSet(B(y)) /\ B(x) # B(y)
    BY <1>2, <2>1
  <2> QED
    BY <2>2, <2>3, <2>4, FS_Subset
<1>4. \A x, y \in S : Below(S, x) = Below(S, y) => x = y
  BY <1>3
<1>5. \A n \in 0..(Cardinality(S) - 1) : \E x \in S : Below(S, x) = n
  <2> DEFINE T == 0..(Cardinality(S) - 1)
             c == [x \in S |-> Below(S, x)]
  <2>1. c \in Injection(S, T)
    BY <1>2, <1>4 DEF Injection, IsInjective
  <2>2. IsFiniteSet(T) /\ Cardinality(T) = Cardinality(S)
    <3>1. PICK n \in Nat : n = Cardinality(S)
      BY <1>1
    <3>2. 0 \in Int /\ n - 1 \in Int /\ (IF 0 > n - 1 THEN 0 ELSE n - 1 - 0 + 1) = n
      BY <3>1
    <3> QED
      BY <3>1, <3>2, FS_Interval
  <2>3. c \in Surjection(S, T)
    <3> HIDE DEF T, c
    <3> QED
      BY <2>1, <2>2, FS_Injection
  <2> QED
    BY <2>3 DEF Surjection
<1> QED
  BY <1>2, <1>4, <1>5

LEMMA FreeFinite ==
  IsFiniteSet(FreeBlocks) /\ FreeBlocks \in SUBSET Nat /\ FreeBlocks \subseteq Block
  /\ 0 \notin FreeBlocks /\ FreeBlocks \cap bitmap = {}
<1>1. IsFiniteSet(1..NB)
  BY Constants, FS_Interval
<1>2. FreeBlocks \subseteq 1..NB
  BY DEF FreeBlocks, Block
<1> QED
  BY <1>1, <1>2, FS_Subset, Constants DEF FreeBlocks, Block

LEMMA NthFreeOK ==
  /\ \A n \in 1..Cardinality(FreeBlocks) : NthFree(n) \in FreeBlocks
  /\ \A m, n \in 1..Cardinality(FreeBlocks) : NthFree(m) = NthFree(n) => m = n
<1>0. Cardinality(FreeBlocks) \in Nat
  BY FreeFinite, FS_CardinalityType
<1>1. ASSUME NEW n \in 1..Cardinality(FreeBlocks)
      PROVE  NthFree(n) \in FreeBlocks /\ Below(FreeBlocks, NthFree(n)) = n - 1
  <2>1. n - 1 \in 0..(Cardinality(FreeBlocks) - 1)
    BY <1>0
  <2>2. \E x \in FreeBlocks : Below(FreeBlocks, x) = n - 1
    BY <2>1, FreeFinite, BelowOK
  <2> QED
    BY <2>2 DEF NthFree, Below
<1>2. ASSUME NEW m \in 1..Cardinality(FreeBlocks), NEW n \in 1..Cardinality(FreeBlocks),
             NthFree(m) = NthFree(n)
      PROVE  m = n
  <2>1. Below(FreeBlocks, NthFree(m)) = m - 1 /\ Below(FreeBlocks, NthFree(n)) = n - 1
    BY <1>1
  <2>2. m - 1 = n - 1
    BY <1>2, <2>1
  <2> QED
    BY <1>0, <2>2
<1> QED
  BY <1>1, <1>2

-----------------------------------------------------------------------------
(* What a write wants: each place once.                                    *)
IsWanted(f, count, p) ==
  \/ p = 0 /\ Addr(f, 0) = 0
  \/ p = TABLE /\ Crosses(f, count)
  \/ p \in has(f)..(will(f, count) - 1)

LEMMA Concat ==
  ASSUME NEW a \in Seq(Int), NEW b \in Seq(Int), NEW x \in Nat, NEW y \in Nat,
         x = Len(a), y = Len(b)
  PROVE  /\ a \o b \in Seq(Int) /\ Len(a \o b) = x + y
         /\ \A n \in 1..x : (a \o b)[n] = a[n]
         /\ \A n \in 1..y : (a \o b)[x + n] = b[n]
<1>1. PICK c : c = a \o b
  OBVIOUS
<1>2. c \in Seq(Int) /\ Len(c) = x + y
  BY <1>1
<1>3. \A n \in 1..x : c[n] = a[n]
  BY <1>1
<1>4. ASSUME NEW n \in 1..y PROVE c[x + n] = b[n]
  <2>1. PICK m : m = x + n
    OBVIOUS
  <2>2. m \in Nat /\ m >= 1 /\ m <= x + y /\ m > x /\ m - x = n
    BY <2>1
  <2>3. c[m] = b[m - x]
    BY <1>1, <2>2
  <2> QED
    BY <2>1, <2>2, <2>3
<1> QED
  BY <1>1, <1>2, <1>3, <1>4

LEMMA WantedOK ==
  ASSUME FileType, NEW f \in File, NEW count \in Nat
  PROVE  /\ Wanted(f, count) \in Seq(Int)
         /\ \A p : IsWanted(f, count, p) <=>
                   \E n \in DOMAIN Wanted(f, count) : Wanted(f, count)[n] = p
         /\ \A m, n \in DOMAIN Wanted(f, count) :
              Wanted(f, count)[m] = Wanted(f, count)[n] => m = n
<1>1. PICK h \in Nat : h = has(f) /\ h > 0
  BY Sizes
<1>2. PICK w \in Nat : w = will(f, count) /\ h <= w
  BY <1>1, Sizes
<1>3. PICK a : a = IF inode[f].i_sectors[0] = 0 THEN <<0>> ELSE <<>>
  OBVIOUS
<1>4. PICK b : b = IF Crosses(f, count) THEN <<TABLE>> ELSE <<>>
  OBVIOUS
<1>5. PICK c : c = [k \in 1..(w - h) |-> h + k - 1]
  OBVIOUS
<1>6. Wanted(f, count) = a \o b \o c
  BY <1>1, <1>2, <1>3, <1>4, <1>5 DEF Wanted
<1>7. /\ a \in Seq(Int) /\ Len(a) \in {0, 1} /\ \A n \in 1..Len(a) : a[n] = 0
      /\ Len(a) = 1 <=> inode[f].i_sectors[0] = 0
  BY <1>3
<1>8. /\ b \in Seq(Int) /\ Len(b) \in {0, 1} /\ \A n \in 1..Len(b) : b[n] = -1
      /\ Len(b) = 1 <=> Crosses(f, count)
  BY <1>4 DEF TABLE
<1>9. c \in Seq(Int) /\ Len(c) = w - h /\ \A n \in 1..Len(c) : c[n] = h + n - 1
  <2>1. w - h \in Nat
    BY <1>2
  <2>2. c \in [1..(w - h) -> Int]
    BY <1>5, <2>1
  <2> QED
    BY <1>5, <2>1, <2>2
<1>10. Addr(f, 0) = inode[f].i_sectors[0] /\ TABLE = -1
  BY Constants DEF Addr, BlockAt, TABLE
<1>11. PICK s : s = a \o b \o c
  OBVIOUS
<1>12. PICK x, y, z \in Nat : x = Len(a) /\ y = Len(b) /\ z = Len(c)
  BY <1>7, <1>8, <1>9
<1>13. /\ s \in Seq(Int) /\ Len(s) = x + y + z
       /\ \A n \in 1..x : s[n] = 0
       /\ \A n \in 1..y : s[x + n] = -1
       /\ \A n \in 1..z : s[x + y + n] = h + n - 1
  <2>1. PICK r : r = a \o b
    OBVIOUS
  <2>2. PICK v \in Nat : v = x + y
    BY <1>12
  <2>3. a \in Seq(Int) /\ b \in Seq(Int) /\ c \in Seq(Int)
    BY <1>7, <1>8, <1>9
  <2>4. /\ r \in Seq(Int) /\ Len(r) = v
        /\ \A n \in 1..x : r[n] = a[n]
        /\ \A n \in 1..y : r[x + n] = b[n]
    BY <1>12, <2>1, <2>2, <2>3, Concat
  <2>5. s = r \o c
    BY <1>11, <2>1
  <2>6. /\ s \in Seq(Int) /\ Len(s) = v + z
        /\ \A n \in 1..v : s[n] = r[n]
        /\ \A n \in 1..z : s[v + n] = c[n]
    <3>1. v \in Nat /\ z \in Nat /\ v = Len(r) /\ z = Len(c) /\ r \in Seq(Int)
      BY <1>12, <2>4
    <3> QED
      BY <3>1, <2>3, <2>5, Concat
  <2>7. \A n \in 1..x : s[n] = 0
    BY <1>7, <1>12, <2>2, <2>4, <2>6
  <2>8. \A n \in 1..y : s[x + n] = -1
    <3>1. \A n \in 1..y : x + n \in 1..v
      BY <1>12, <2>2
    <3>2. \A n \in 1..y : b[n] = -1
      BY <1>8, <1>12
    <3> QED
      BY <2>4, <2>6, <3>1, <3>2
  <2>9. \A n \in 1..z : s[v + n] = h + n - 1
    BY <1>9, <1>12, <2>6
  <2> QED
    BY <2>2, <2>6, <2>7, <2>8, <2>9
<1>14. x \in {0, 1} /\ y \in {0, 1} /\ z = w - h
  BY <1>7, <1>8, <1>9, <1>12
<1>18. (x = 1 <=> Addr(f, 0) = 0) /\ (y = 1 <=> Crosses(f, count))
  BY <1>7, <1>8, <1>10, <1>12
<1>17. DOMAIN s = 1..(x + y + z)
  BY <1>13
<1>20. ASSUME NEW n \in 1..(x + y + z)
       PROVE  \/ n = 1 /\ x = 1 /\ s[n] = 0
              \/ n = x + 1 /\ y = 1 /\ s[n] = -1
              \/ n > x + y /\ s[n] = h + (n - x - y) - 1 /\ s[n] \in h..(w - 1)
  <2>1. CASE n <= x
    <3>1. x = 1 /\ n = 1 /\ n \in 1..x
      BY <2>1, <1>12, <1>14
    <3> QED
      BY <3>1, <1>13
  <2>2. CASE n = x + 1 /\ y = 1
    BY <2>2, <1>12, <1>13, <1>14
  <2>3. CASE n > x + y
    <3>1. PICK m : m = n - x - y
      OBVIOUS
    <3>2. m \in 1..z /\ x + y + m = n
      BY <2>3, <3>1, <1>12
    <3>3. s[n] = h + m - 1
      BY <1>13, <3>2
    <3>4. h + m - 1 \in h..(w - 1)
      BY <3>2, <1>2, <1>14
    <3> QED
      BY <2>3, <3>1, <3>3, <3>4
  <2> QED
    BY <1>12, <1>14, <2>1, <2>2, <2>3
<1>19. \A m, n \in 1..(x + y + z) : s[m] = s[n] => m = n
  <2>1. ASSUME NEW m \in 1..(x + y + z), NEW n \in 1..(x + y + z), s[m] = s[n] PROVE m = n
    <3>1. m \in Nat /\ n \in Nat /\ \A i \in h..(w - 1) : i > 0 /\ i \in Nat
      BY <1>1, <1>2, <1>12
    <3>2. PICK i \in Int : i = s[m]
      BY <1>20, <3>1
    <3>3. \/ m = 1 /\ i = 0
          \/ m = x + 1 /\ i = -1
          \/ m = i - h + 1 + x + y /\ i > 0
      <4>1. \/ m = 1 /\ i = 0
            \/ m = x + 1 /\ i = -1
            \/ i = h + (m - x - y) - 1 /\ i \in h..(w - 1)
        BY <1>20, <3>2
      <4>2. i = h + (m - x - y) - 1 => m = i - h + 1 + x + y
        BY <3>1
      <4> QED
        BY <3>1, <4>1, <4>2
    <3>4. \/ n = 1 /\ i = 0
          \/ n = x + 1 /\ i = -1
          \/ n = i - h + 1 + x + y /\ i > 0
      <4>1. \/ n = 1 /\ i = 0
            \/ n = x + 1 /\ i = -1
            \/ i = h + (n - x - y) - 1 /\ i \in h..(w - 1)
        BY <2>1, <1>20, <3>2
      <4>2. i = h + (n - x - y) - 1 => n = i - h + 1 + x + y
        BY <3>1
      <4> QED
        BY <3>1, <4>1, <4>2
    <3> QED
      BY <3>3, <3>4
  <2> QED
    BY <2>1
<1>15. ASSUME NEW p, IsWanted(f, count, p) PROVE \E n \in 1..(x + y + z) : s[n] = p
  <2>1. CASE p = 0 /\ Addr(f, 0) = 0
    <3>1. 1 \in 1..(x + y + z) /\ s[1] = 0
      BY <2>1, <1>13, <1>14, <1>18, <1>12
    <3> QED
      BY <2>1, <3>1
  <2>2. CASE p = TABLE /\ Crosses(f, count)
    <3>1. y = 1 /\ 1 \in 1..y
      BY <2>2, <1>18
    <3>2. x + 1 \in 1..(x + y + z) /\ s[x + 1] = -1
      BY <3>1, <1>13, <1>12
    <3> QED
      BY <2>2, <3>2, <1>10
  <2>3. CASE p \in h..(w - 1)
    <3>1. PICK m : m = p - h + 1
      OBVIOUS
    <3>2. m \in 1..z /\ h + m - 1 = p
      BY <2>3, <3>1, <1>2, <1>14
    <3>3. s[x + y + m] = p /\ x + y + m \in 1..(x + y + z)
      BY <3>2, <1>12, <1>13
    <3> QED
      BY <3>3
  <2> QED
    BY <1>15, <1>1, <1>2, <2>1, <2>2, <2>3 DEF IsWanted
<1>16. ASSUME NEW n \in 1..(x + y + z) PROVE IsWanted(f, count, s[n])
  <2>1. \/ x = 1 /\ s[n] = 0
        \/ y = 1 /\ s[n] = -1
        \/ s[n] \in h..(w - 1)
    BY <1>20
  <2> QED
    BY <2>1, <1>1, <1>2, <1>10, <1>18 DEF IsWanted
<1> QED
  <2>1. PICK u : u = Wanted(f, count)
    OBVIOUS
  <2>2. u = s
    BY <1>6, <1>11, <2>1
  <2> QED
    BY <1>13, <1>15, <1>16, <1>17, <1>19, <2>1, <2>2

(* What file_write has allocated when it comes to the data.                *)
Allowed(f, count) ==
  /\ will(f, count) <= MAX_BLOCKS /\ WriteAsserts(f, count)
  /\ Len(Wanted(f, count)) <= Cardinality(FreeBlocks)

NewAddr(f, count, p) == New(f, count, p, Addr(f, p))

Taken(f, count) == {NthFree(n) : n \in DOMAIN Wanted(f, count)}

LEMMA NewOK ==
  ASSUME FileType, NEW f \in File, NEW count \in Nat, Allowed(f, count)
  PROVE  /\ Taken(f, count) \subseteq FreeBlocks
         /\ \A p : IsWanted(f, count, p) => NewAddr(f, count, p) \in Taken(f, count)
         /\ \A p : ~IsWanted(f, count, p) => NewAddr(f, count, p) = Addr(f, p)
         /\ \A p, q : IsWanted(f, count, p) /\ IsWanted(f, count, q)
                      /\ NewAddr(f, count, p) = NewAddr(f, count, q) => p = q
<1>1. PICK w : w = Wanted(f, count)
  OBVIOUS
<1>2. /\ w \in Seq(Int)
      /\ \A p : IsWanted(f, count, p) <=> \E n \in DOMAIN w : w[n] = p
  BY <1>1, WantedOK
<1>3. \A m, n \in DOMAIN w : w[m] = w[n] => m = n
  BY <1>1, WantedOK
<1>4. \A n \in DOMAIN w : n \in 1..Cardinality(FreeBlocks)
  <2>1. Len(w) \in Nat /\ DOMAIN w = 1..Len(w) /\ Len(w) <= Cardinality(FreeBlocks)
    BY <1>1, <1>2 DEF Allowed
  <2>2. Cardinality(FreeBlocks) \in Nat
    BY FreeFinite, FS_CardinalityType
  <2> QED
    BY <2>1, <2>2
<1>5. Taken(f, count) \subseteq FreeBlocks
  BY <1>1, <1>4, NthFreeOK DEF Taken
<1>6. ASSUME NEW p, IsWanted(f, count, p)
      PROVE  \E n \in DOMAIN w : w[n] = p /\ NewAddr(f, count, p) = NthFree(n)
  <2>1. \E n \in DOMAIN w : w[n] = p
    BY <1>2, <1>6
  <2>2. PICK n : n = CHOOSE m \in DOMAIN w : w[m] = p
    OBVIOUS
  <2>3. n \in DOMAIN w /\ w[n] = p
    BY <2>1, <2>2
  <2>4. NewAddr(f, count, p) = NthFree(n)
    BY <1>1, <2>1, <2>2 DEF NewAddr, New
  <2> QED
    BY <2>3, <2>4
<1>7. ASSUME NEW p, ~IsWanted(f, count, p) PROVE NewAddr(f, count, p) = Addr(f, p)
  BY <1>1, <1>2, <1>7 DEF NewAddr, New
<1>8. ASSUME NEW p, NEW q, IsWanted(f, count, p), IsWanted(f, count, q),
             NewAddr(f, count, p) = NewAddr(f, count, q)
      PROVE  p = q
  <2>1. PICK m \in DOMAIN w : w[m] = p /\ NewAddr(f, count, p) = NthFree(m)
    BY <1>6, <1>8
  <2>2. PICK n \in DOMAIN w : w[n] = q /\ NewAddr(f, count, q) = NthFree(n)
    BY <1>6, <1>8
  <2>3. m = n
    BY <1>4, <1>8, <2>1, <2>2, NthFreeOK
  <2> QED
    BY <2>1, <2>2, <2>3
<1>9. \A p : IsWanted(f, count, p) => NewAddr(f, count, p) \in Taken(f, count)
  BY <1>1, <1>6 DEF Taken
<1> QED
  BY <1>5, <1>7, <1>8, <1>9

LEMMA NewType ==
  ASSUME FileType, NEW f \in File, NEW count \in Nat, Allowed(f, count), NEW p \in Place
  PROVE  /\ NewAddr(f, count, p) \in 0..NB
         /\ Addr(f, p) # 0 \/ IsWanted(f, count, p) => NewAddr(f, count, p) # 0
<1>1. Addr(f, p) \in 0..NB
  BY AddrType
<1>2. \A b \in FreeBlocks : b \in 0..NB /\ b # 0
  BY FreeFinite, Constants DEF Block
<1>3. CASE IsWanted(f, count, p)
  BY <1>2, <1>3, NewOK
<1>4. CASE ~IsWanted(f, count, p)
  BY <1>1, <1>4, NewOK
<1> QED
  BY <1>3, <1>4
-----------------------------------------------------------------------------
(* The place of a byte, and the bytes of the only chunk of a write.        *)
LEMMA PlaceOf ==
  ASSUME NEW n \in Nat, n > 0, NEW p \in Nat
  PROVE  /\ p \div n \in Nat /\ p % n \in 0..(n - 1) /\ p = n * (p \div n) + (p % n)
         /\ p \div n <= p
OBVIOUS

LEMMA PlaceBack ==
  ASSUME NEW n \in Nat, n > 0, NEW i \in Nat, NEW k \in 0..(n - 1), NEW p, p = n * i + k
  PROVE  p \div n = i /\ p % n = k
OBVIOUS

LEMMA MinOfTwo ==
  ASSUME NEW a \in Nat, NEW b \in Nat
  PROVE  Min({a, b}) = IF a <= b THEN a ELSE b
<1>1. PICK m \in Nat : m = IF a <= b THEN a ELSE b
  OBVIOUS
<1>2. m \in {a, b} /\ \A y \in {a, b} : m <= y
  BY <1>1
<1>3. \A x \in {a, b} : (\A y \in {a, b} : x <= y) => x = m
  BY <1>1
<1>4. Min({a, b}) = m
  BY <1>2, <1>3 DEF Min
<1> QED
  BY <1>1, <1>4

(* The chunk begins where the file ends and stays in its last sector.      *)
LEMMA ChunkOK ==
  ASSUME FileType, NEW f \in File, NEW count \in Nat
  PROVE  \E m \in Nat, off \in 0..(BLOCK_SIZE - 1) :
           /\ off = inode[f].i_size % BLOCK_SIZE
           /\ m <= count /\ off + m <= BLOCK_SIZE
           /\ Chunk(f, count) = off..(off + m - 1) /\ Cardinality(Chunk(f, count)) = m
<1>1. PICK s \in Nat : s = inode[f].i_size
  BY Sizes
<1>2. PICK off \in 0..(BLOCK_SIZE - 1) : off = s % BLOCK_SIZE
  BY Constants, PlaceOf
<1>3. off \in Nat /\ BLOCK_SIZE - off \in Nat
  BY <1>2, Constants
<1>4. PICK m \in Nat : m = Min({count, BLOCK_SIZE - off}) /\ m <= count /\ off + m <= BLOCK_SIZE
  <2>1. PICK r \in Nat : r = BLOCK_SIZE - off
    BY <1>3
  <2>2. Min({count, r}) = IF count <= r THEN count ELSE r
    BY MinOfTwo
  <2>3. PICK m \in Nat : m = Min({count, r}) /\ m <= count /\ m <= r
    BY <2>2
  <2>4. off + m <= BLOCK_SIZE
    BY <1>3, <2>1, <2>3, Constants
  <2> QED
    BY <2>1, <2>3, <2>4
<1>5. Chunk(f, count) = off..(off + m - 1)
  BY <1>1, <1>2, <1>4 DEF Chunk
<1>6. Cardinality(off..(off + m - 1)) = m
  <2>1. PICK e \in Int : e = off + m - 1
    BY <1>3
  <2>2. Cardinality(off..e) = IF off > e THEN 0 ELSE e - off + 1
    BY <1>3, <2>1, FS_Interval
  <2>3. (IF off > e THEN 0 ELSE e - off + 1) = m
    BY <1>3, <2>1
  <2> QED
    BY <2>1, <2>2, <2>3
<1> QED
  BY <1>1, <1>2, <1>4, <1>5, <1>6
-----------------------------------------------------------------------------
(* file_write, told by the addresses of the places of the file.            *)
NewSectors(f, count) ==
  [k \in 0..DIRECT |-> IF k = DIRECT THEN NewAddr(f, count, TABLE) ELSE NewAddr(f, count, k)]

NewTable(f, count) == [k \in 0..(INDIRECT - 1) |-> NewAddr(f, count, DIRECT + k)]

LEMMA StoreTold ==
  ASSUME FileType, NEW f \in File, NEW count \in Nat, has(f) <= MAX_BLOCKS, Store(f, count)
  PROVE  /\ bitmap' = bitmap \cup Taken(f, count)
         /\ inode' = [inode EXCEPT ![f] =
                        [i_size |-> inode[f].i_size + Cardinality(Chunk(f, count)),
                         i_sectors |-> NewSectors(f, count)]]
         /\ tab' = IF NewAddr(f, count, TABLE) = 0 THEN tab
                   ELSE [tab EXCEPT ![NewAddr(f, count, TABLE)] = NewTable(f, count)]
         /\ data' = [data EXCEPT ![NewAddr(f, count, has(f) - 1)] =
                       [k \in DOMAIN @ |->
                          IF k \in Chunk(f, count)
                          THEN Stamp(f, inode[f].i_size - (inode[f].i_size % BLOCK_SIZE) + k)
                          ELSE @[k]]]
         /\ pos' = [pos EXCEPT ![f] =
                      ((inode[f].i_size + Cardinality(Chunk(f, count))) - 1) % WORD]
<1>1. PICK t : t = New(f, count, TABLE, inode[f].i_sectors[DIRECT])
  OBVIOUS
<1>2. PICK nb : nb = all_blocks(f, count)
  OBVIOUS
<1>3. PICK chunk : chunk = Chunk(f, count)
  OBVIOUS
<1>4. t = NewAddr(f, count, TABLE)
  BY <1>1 DEF NewAddr, Addr
<1>5. ASSUME NEW k \in 0..(MAX_BLOCKS - 1) PROVE nb[k] = NewAddr(f, count, k)
  <2>1. k # TABLE
    BY Constants DEF TABLE
  <2> QED
    BY <1>2, <2>1 DEF all_blocks, NewAddr, Addr
<1>6. has(f) - 1 \in 0..(MAX_BLOCKS - 1)
  BY Constants, Sizes
<1>7. nb[has(f) - 1] = NewAddr(f, count, has(f) - 1)
  BY <1>5, <1>6
<1>8. [k \in 0..DIRECT |-> IF k = DIRECT THEN t ELSE nb[k]] = NewSectors(f, count)
  <2>1. \A k \in 0..DIRECT : k # DIRECT => k \in 0..(MAX_BLOCKS - 1)
    BY Constants
  <2> QED
    BY <1>4, <1>5, <2>1 DEF NewSectors
<1>9. [k \in 0..(INDIRECT - 1) |-> nb[DIRECT + k]] = NewTable(f, count)
  <2>1. \A k \in 0..(INDIRECT - 1) : DIRECT + k \in 0..(MAX_BLOCKS - 1)
    BY Constants
  <2> QED
    BY <1>5, <2>1 DEF NewTable
<1>10. bitmap' = bitmap \cup Taken(f, count)
  BY DEF Store, Taken
<1>11. inode' = [inode EXCEPT ![f] =
          [i_size |-> inode[f].i_size + Cardinality(chunk),
           i_sectors |-> [k \in 0..DIRECT |-> IF k = DIRECT THEN t ELSE nb[k]]]]
  BY <1>1, <1>2, <1>3 DEF Store
<1>12. tab' = IF t = 0 THEN tab
              ELSE [tab EXCEPT ![t] = [k \in 0..(INDIRECT - 1) |-> nb[DIRECT + k]]]
  BY <1>1, <1>2 DEF Store
<1>13. data' = [data EXCEPT ![nb[has(f) - 1]] =
          [k \in DOMAIN @ |->
             IF k \in chunk
             THEN Stamp(f, inode[f].i_size - (inode[f].i_size % BLOCK_SIZE) + k) ELSE @[k]]]
  BY <1>2, <1>3 DEF Store
<1>14. pos' = [pos EXCEPT ![f] =
                 ((inode[f].i_size + Cardinality(Chunk(f, count))) - 1) % WORD]
  BY DEF Store
<1>15. inode' = [inode EXCEPT ![f] =
                        [i_size |-> inode[f].i_size + Cardinality(Chunk(f, count)),
                         i_sectors |-> NewSectors(f, count)]]
  BY <1>3, <1>8, <1>11
<1>16. tab' = IF NewAddr(f, count, TABLE) = 0 THEN tab
              ELSE [tab EXCEPT ![NewAddr(f, count, TABLE)] = NewTable(f, count)]
  BY <1>4, <1>9, <1>12
<1>17. data' = [data EXCEPT ![NewAddr(f, count, has(f) - 1)] =
                  [k \in DOMAIN @ |->
                     IF k \in Chunk(f, count)
                     THEN Stamp(f, inode[f].i_size - (inode[f].i_size % BLOCK_SIZE) + k)
                     ELSE @[k]]]
  BY <1>3, <1>7, <1>13
<1> QED
  BY <1>3, <1>10, <1>14, <1>15, <1>16, <1>17

(* The addresses after the write: those of the file are the new ones...    *)
LEMMA StoreAddr ==
  ASSUME FileType, NEW f \in File, NEW count \in Nat, has(f) <= MAX_BLOCKS,
         Allowed(f, count), Store(f, count), NEW p \in Place
  PROVE  Addr(f, p)' = NewAddr(f, count, p)
<1>1. PICK t : t = NewAddr(f, count, TABLE)
  OBVIOUS
<1>2. PICK s : s = NewSectors(f, count)
  OBVIOUS
<1>3. inode'[f].i_sectors = s
  <2>1. f \in DOMAIN inode
    BY DEF FileType
  <2>2. PICK r : r = [i_size |-> inode[f].i_size + Cardinality(Chunk(f, count)), i_sectors |-> s]
    OBVIOUS
  <2>3. inode' = [inode EXCEPT ![f] = r]
    BY <1>2, <2>2, StoreTold
  <2>4. inode'[f] = r /\ r.i_sectors = s
    BY <2>1, <2>2, <2>3
  <2> QED
    BY <2>4
<1>4. tab' = IF t = 0 THEN tab ELSE [tab EXCEPT ![t] = NewTable(f, count)]
  BY <1>1, StoreTold
<1>5. s[DIRECT] = t
  BY <1>1, <1>2, Constants DEF NewSectors
<1>6. CASE p = TABLE
  BY <1>1, <1>3, <1>5, <1>6 DEF Addr
<1>7. CASE p \in 0..(DIRECT - 1)
  <2>1. p # TABLE /\ p < DIRECT /\ p # DIRECT /\ p \in 0..DIRECT
    BY <1>7, Constants, Places
  <2>2. s[p] = NewAddr(f, count, p)
    BY <1>2, <2>1 DEF NewSectors
  <2> QED
    BY <1>3, <2>1, <2>2 DEF Addr, BlockAt
<1>8. CASE p >= DIRECT
  <2>1. p # TABLE /\ ~(p < DIRECT) /\ p - DIRECT \in 0..(INDIRECT - 1) /\ DIRECT + (p - DIRECT) = p
    BY <1>8, Constants, Places
  <2>2. CASE t # 0
    <3>1. t \in Block
      <4>1. t \in 0..NB
        BY <1>1, NewType, Places
      <4> QED
        BY <2>2, <4>1 DEF Block
    <3>2. t \in DOMAIN tab
      BY <3>1 DEF FileType
    <3>3. tab'[t] = NewTable(f, count)
      BY <1>4, <2>2, <3>2
    <3>4. tab'[t][p - DIRECT] = NewAddr(f, count, p)
      BY <2>1, <3>3 DEF NewTable
    <3> QED
      BY <1>3, <1>5, <2>1, <2>2, <3>4 DEF Addr, BlockAt
  <2>3. CASE t = 0
    <3>1. Addr(f, p)' = 0
      BY <1>3, <1>5, <2>1, <2>3 DEF Addr, BlockAt
    <3>2. Addr(f, TABLE) = 0 /\ ~Crosses(f, count)
      <4>1. ~(Addr(f, TABLE) # 0 \/ IsWanted(f, count, TABLE))
        BY <1>1, <2>3, NewType, Places
      <4> QED
        BY <4>1 DEF IsWanted
    <3>3. inode[f].i_sectors[DIRECT] = 0
      BY <3>2 DEF Addr
    <3>4. Addr(f, p) = 0
      BY <2>1, <3>3 DEF Addr, BlockAt
    <3>5. ~IsWanted(f, count, p)
      <4>1. SUFFICES ASSUME p \in has(f)..(will(f, count) - 1) PROVE FALSE
        BY <1>8, <2>1, Constants DEF IsWanted
      <4>2. will(f, count) > DIRECT
        BY <1>8, <4>1, Constants, Places, Sizes
      <4>3. has(f) <= DIRECT
        BY <3>3, <4>2 DEF Allowed, WriteAsserts
      <4> QED
        BY <3>2, <4>2, <4>3 DEF Crosses
    <3>6. NewAddr(f, count, p) = 0
      BY <3>4, <3>5, NewOK
    <3> QED
      BY <3>1, <3>6
  <2> QED
    BY <2>2, <2>3
<1> QED
  BY <1>6, <1>7, <1>8, Constants, Places

(* ... and those of the other files are what they were: the table written  *)
(* is the file's own or was free.                                          *)
LEMMA StoreOthers ==
  ASSUME FileType, Owned, NEW f \in File, NEW count \in Nat, has(f) <= MAX_BLOCKS,
         Allowed(f, count), Store(f, count), NEW g \in File, g # f, NEW p \in Place
  PROVE  inode'[g] = inode[g] /\ Addr(g, p)' = Addr(g, p)
<1>1. PICK t : t = NewAddr(f, count, TABLE)
  OBVIOUS
<1>2. inode'[g] = inode[g]
  <2>1. PICK r : inode' = [inode EXCEPT ![f] = r]
    BY StoreTold
  <2>2. g \in DOMAIN inode
    BY DEF FileType
  <2> QED
    BY <2>1, <2>2
<1>3. PICK d : d = inode[g].i_sectors[DIRECT]
  OBVIOUS
<1>4. d \in 0..NB /\ d = Addr(g, TABLE)
  BY <1>3, AddrType, Places DEF Addr
<1>5. d # 0 => tab'[d] = tab[d]
  <2>1. SUFFICES ASSUME d # 0 PROVE tab'[d] = tab[d]
    OBVIOUS
  <2>2. d \in DOMAIN tab
    BY <1>4, <2>1, Constants DEF FileType, Block
  <2>3. d # t
    <3>1. d \in bitmap
      BY <1>4, <2>1, Places DEF Owned
    <3>2. CASE IsWanted(f, count, TABLE)
      BY <1>1, <3>1, <3>2, NewOK, FreeFinite
    <3>3. CASE ~IsWanted(f, count, TABLE)
      <4>1. t = Addr(f, TABLE)
        BY <1>1, <3>3, NewOK
      <4> QED
        BY <1>4, <2>1, <4>1, Places DEF Owned
    <3> QED
      BY <3>2, <3>3
  <2>4. PICK u : u = NewTable(f, count)
    OBVIOUS
  <2>5. tab' = IF t = 0 THEN tab ELSE [tab EXCEPT ![t] = u]
    BY <1>1, <2>4, StoreTold
  <2> QED
    BY <2>2, <2>3, <2>5
<1> QED
  BY <1>2, <1>3, <1>5 DEF Addr, BlockAt

LEMMA StoreType ==
  ASSUME FileType, NEW f \in File, NEW count \in Nat, has(f) <= MAX_BLOCKS,
         Allowed(f, count), Store(f, count)
  PROVE  FileType' /\ inode'[f].i_size = inode[f].i_size + Cardinality(Chunk(f, count))
<1>0. PICK m \in Nat : m = Cardinality(Chunk(f, count))
  BY ChunkOK
<1>1. PICK s : s = NewSectors(f, count)
  OBVIOUS
<1>2. \A k \in 0..DIRECT : k \in Place
  BY Constants, Places
<1>3. s \in [0..DIRECT -> 0..NB]
  BY <1>1, <1>2, NewType, Places DEF NewSectors
<1>4. PICK i \in Nat : i = inode[f].i_size
  BY Sizes
<1>5. PICK r : r = [i_size |-> i + m, i_sectors |-> s]
  OBVIOUS
<1>6. r \in [i_size : Nat, i_sectors : [0..DIRECT -> 0..NB]] /\ r.i_size = i + m
  BY <1>3, <1>5
<1>7. inode' = [inode EXCEPT ![f] = r]
  BY <1>0, <1>1, <1>4, <1>5, StoreTold
<1>8. /\ inode' \in [File -> [i_size : Nat, i_sectors : [0..DIRECT -> 0..NB]]]
      /\ inode'[f] = r
  BY <1>6, <1>7 DEF FileType
<1>9. tab' \in [Block -> [0..(INDIRECT - 1) -> 0..NB]]
  <2>1. NewTable(f, count) \in [0..(INDIRECT - 1) -> 0..NB]
    <3>1. \A k \in 0..(INDIRECT - 1) : DIRECT + k \in Place
      BY Constants, Places
    <3> QED
      BY <3>1, NewType DEF NewTable
  <2>2. PICK u \in [0..(INDIRECT - 1) -> 0..NB] : u = NewTable(f, count)
    BY <2>1
  <2>3. PICK t : t = NewAddr(f, count, TABLE)
    OBVIOUS
  <2>4. tab' = IF t = 0 THEN tab ELSE [tab EXCEPT ![t] = u]
    BY <2>2, <2>3, StoreTold
  <2> QED
    BY <2>4 DEF FileType
<1>10. data' = [b \in Block |-> [k \in 0..(BLOCK_SIZE - 1) |-> data'[b][k]]]
  <2>6. PICK lba : lba = NewAddr(f, count, has(f) - 1)
    OBVIOUS
  <2>7. PICK base : base = inode[f].i_size - (inode[f].i_size % BLOCK_SIZE)
    OBVIOUS
  <2>8. PICK chunk : chunk = Chunk(f, count)
    OBVIOUS
  <2>1. data' = [data EXCEPT ![lba] =
                   [k \in DOMAIN @ |-> IF k \in chunk THEN Stamp(f, base + k) ELSE @[k]]]
    BY <2>6, <2>7, <2>8, StoreTold
  <2>2. DOMAIN data = Block /\ \A b \in Block : data[b] = [k \in 0..(BLOCK_SIZE - 1) |-> data[b][k]]
    BY DEF FileType
  <2>3. DOMAIN data' = Block
    BY <2>1, <2>2
  <2>4. ASSUME NEW b \in Block PROVE data'[b] = [k \in 0..(BLOCK_SIZE - 1) |-> data'[b][k]]
    <3>1. CASE b = lba
      <4>1. data'[b] = [k \in DOMAIN data[b] |->
                          IF k \in chunk THEN Stamp(f, base + k) ELSE data[b][k]]
        BY <2>1, <2>2, <3>1
      <4>2. DOMAIN data[b] = 0..(BLOCK_SIZE - 1)
        BY <2>2
      <4> QED
        BY <4>1, <4>2
    <3>2. CASE b # lba
      <4>1. data'[b] = data[b]
        BY <2>1, <2>2, <3>2
      <4> QED
        BY <2>2, <4>1
    <3> QED
      BY <3>1, <3>2
  <2>5. data' = [b \in Block |-> data'[b]]
    BY <2>1, <2>2
  <2> QED
    BY <2>4, <2>5
<1>11. bitmap' \in SUBSET Block
  <2>1. Taken(f, count) \subseteq Block
    BY NewOK, FreeFinite
  <2>2. bitmap' = bitmap \cup Taken(f, count)
    BY StoreTold
  <2> QED
    BY <2>1, <2>2 DEF FileType
<1>12. pos' \in [File -> Int]
  <2>1. PICK e \in Int : e = (i + m) - 1
    OBVIOUS
  <2>2. PICK z \in Int : z = e % WORD
    BY FileIOAssumption, Constants DEF FileIOAssumption
  <2>3. pos' = [pos EXCEPT ![f] = z]
    BY <1>0, <1>4, <2>1, <2>2, StoreTold
  <2> QED
    BY <2>3 DEF FileType
<1> QED
  BY <1>0, <1>4, <1>6, <1>8, <1>9, <1>10, <1>11, <1>12 DEF FileType

(* The blocks after a write.                                               *)
LEMMA StoreApart ==
  ASSUME BlocksInv, NEW f \in File, NEW count \in Nat, has(f) <= MAX_BLOCKS,
         Allowed(f, count), Store(f, count)
  PROVE  Apart' /\ Owned'
<1>1. FileType /\ Apart /\ Owned
  BY DEF BlocksInv
<1>2. /\ \A p \in Place : Addr(f, p)' = NewAddr(f, count, p)
      /\ \A g \in File \ {f} : \A p \in Place : Addr(g, p)' = Addr(g, p)
  BY <1>1, StoreAddr, StoreOthers
<1>3. \A p : IsWanted(f, count, p) => NewAddr(f, count, p) \in FreeBlocks
  BY <1>1, NewOK
<1>4. \A p : ~IsWanted(f, count, p) => NewAddr(f, count, p) = Addr(f, p)
  BY <1>1, NewOK
<1>5. \A p, q : IsWanted(f, count, p) /\ IsWanted(f, count, q)
                /\ NewAddr(f, count, p) = NewAddr(f, count, q) => p = q
  BY <1>1, NewOK
<1>6. \A g \in File : \A p \in Place : Addr(g, p) \notin FreeBlocks
  BY <1>1, FreeFinite DEF Owned
<1>7. ASSUME NEW g \in File PROVE \A p, q \in Place : Addr(g, p)' = Addr(g, q)' /\ Addr(g, p)' # 0 => p = q
  <2>1. CASE g = f
    <3>1. ASSUME NEW p \in Place, NEW q \in Place,
                 NewAddr(f, count, p) = NewAddr(f, count, q), NewAddr(f, count, p) # 0
          PROVE  p = q
      <4>1. CASE IsWanted(f, count, p) /\ IsWanted(f, count, q)
        BY <3>1, <4>1, <1>5
      <4>2. CASE ~IsWanted(f, count, p) /\ ~IsWanted(f, count, q)
        BY <3>1, <4>2, <1>4, <1>1 DEF Apart
      <4>3. CASE IsWanted(f, count, p) /\ ~IsWanted(f, count, q)
        BY <3>1, <4>3, <1>3, <1>4, <1>6
      <4>4. CASE ~IsWanted(f, count, p) /\ IsWanted(f, count, q)
        BY <3>1, <4>4, <1>3, <1>4, <1>6
      <4> QED
        BY <4>1, <4>2, <4>3, <4>4
    <3> QED
      BY <2>1, <3>1, <1>2
  <2>2. CASE g # f
    BY <2>2, <1>1, <1>2 DEF Apart
  <2> QED
    BY <2>1, <2>2
<1>8. ASSUME NEW p \in Place, NEW g \in File, g # f, NEW q \in Place,
             NewAddr(f, count, p) = Addr(g, q), Addr(g, q) # 0
      PROVE  FALSE
  <2>1. CASE IsWanted(f, count, p)
    BY <1>8, <2>1, <1>3, <1>6
  <2>2. CASE ~IsWanted(f, count, p)
    BY <1>8, <2>2, <1>4, <1>1 DEF Owned
  <2> QED
    BY <2>1, <2>2
<1>9. ASSUME NEW g \in File, NEW h \in File, NEW p \in Place, NEW q \in Place,
             Addr(g, p)' = Addr(h, q)', Addr(g, p)' # 0
      PROVE  g = h
  <2>1. CASE g = f /\ h # f
    BY <2>1, <1>2, <1>8, <1>9
  <2>2. CASE g # f /\ h = f
    BY <2>2, <1>2, <1>8, <1>9
  <2>3. CASE g # f /\ h # f
    BY <2>3, <1>1, <1>2, <1>9 DEF Owned
  <2> QED
    BY <2>1, <2>2, <2>3
<1>10. ASSUME NEW g \in File, NEW p \in Place PROVE Addr(g, p)' \in bitmap' \cup {0}
  <2>1. bitmap' = bitmap \cup Taken(f, count)
    BY <1>1, StoreTold
  <2>2. CASE g = f /\ IsWanted(f, count, p)
    BY <2>1, <2>2, <1>1, <1>2, NewOK
  <2>3. CASE g = f /\ ~IsWanted(f, count, p)
    BY <2>1, <2>3, <1>1, <1>2, <1>4 DEF Owned
  <2>4. CASE g # f
    BY <2>1, <2>4, <1>1, <1>2 DEF Owned
  <2> QED
    BY <2>2, <2>3, <2>4
<1>11. Apart'
  BY <1>7 DEF Apart
<1>12. Owned'
  BY <1>9, <1>10 DEF Owned
<1> QED
  BY <1>11, <1>12

LEMMA StoreShaped ==
  ASSUME BlocksInv, NEW f \in File, NEW count \in Nat,
         Allowed(f, count), Store(f, count)
  PROVE  Shaped'
<1>1. FileType /\ Shaped /\ Owned /\ has(f) <= MAX_BLOCKS
  BY DEF BlocksInv, Shaped
<1>2. /\ \A p \in Place : Addr(f, p)' = NewAddr(f, count, p)
      /\ \A g \in File \ {f} : inode'[g] = inode[g] /\ \A p \in Place : Addr(g, p)' = Addr(g, p)
  BY <1>1, StoreAddr, StoreOthers, Places
<1>3. PICK h \in Nat : h = has(f) /\ h > 0
  BY <1>1, Sizes
<1>4. PICK w \in Nat : w = will(f, count) /\ h <= w /\ w <= MAX_BLOCKS
  BY <1>1, <1>3, Sizes DEF Allowed
<1>5. PICK n : n = has(f)'
  OBVIOUS
<1>6. n \in Nat /\ n <= w
  <2>1. PICK i \in Nat : i = inode[f].i_size
    BY <1>1, Sizes
  <2>2. PICK m \in Nat : m = Cardinality(Chunk(f, count)) /\ m <= count
    BY <1>1, ChunkOK
  <2>3. inode'[f].i_size = i + m
    BY <1>1, <2>1, <2>2, StoreType
  <2>4. n = (i + m) \div BLOCK_SIZE + 1 /\ w = (i + count) \div BLOCK_SIZE + 1
    BY <1>4, <1>5, <2>1, <2>3 DEF has, will
  <2>5. (i + m) \div BLOCK_SIZE <= (i + count) \div BLOCK_SIZE
    BY <2>2, Constants
  <2>6. PICK u, v \in Nat : u = (i + m) \div BLOCK_SIZE /\ v = (i + count) \div BLOCK_SIZE
    BY Constants
  <2>7. n = u + 1 /\ w = v + 1 /\ u <= v
    BY <2>4, <2>5, <2>6
  <2> QED
    BY <2>6, <2>7
<1>7. ASSUME NEW p \in 0..(n - 1) PROVE NewAddr(f, count, p) # 0
  <2>1. p \in Place
    BY <1>4, <1>6, Constants, Places
  <2>2. CASE p >= h
    <3>1. IsWanted(f, count, p)
      BY <2>2, <1>3, <1>4, <1>6 DEF IsWanted
    <3> QED
      BY <3>1, <2>1, <1>1, NewType
  <2>3. CASE p < h /\ Addr(f, 0) # 0
    <3>1. Addr(f, p) # 0
      BY <2>3, <1>1, <1>3, <1>6 DEF Shaped
    <3> QED
      BY <3>1, <2>1, <1>1, NewType
  <2>4. CASE p < h /\ Addr(f, 0) = 0
    <3>1. inode[f] = NoInode
      BY <2>4, <1>1 DEF Shaped
    <3>2. inode[f].i_size = 0
      BY <3>1 DEF NoInode
    <3>3. h = 1
      BY <3>2, <1>3, Constants DEF has
    <3>4. p = 0
      BY <2>4, <3>3, <1>6
    <3>5. IsWanted(f, count, p)
      BY <2>4, <3>4 DEF IsWanted
    <3> QED
      BY <3>5, <2>1, <1>1, NewType
  <2> QED
    BY <1>3, <1>6, <2>2, <2>3, <2>4
<1>8. NewAddr(f, count, 0) # 0
  <2>1. Addr(f, 0) # 0 \/ IsWanted(f, count, 0)
    BY DEF IsWanted
  <2> QED
    BY <2>1, <1>1, NewType, Places
<1>9. \A p \in 0..(n - 1) : p \in Place
  BY <1>4, <1>6, Constants, Places
<1>10. ASSUME NEW g \in File
       PROVE  /\ has(g)' <= MAX_BLOCKS
              /\ Addr(g, 0)' = 0 => inode'[g] = NoInode
              /\ Addr(g, 0)' # 0 => \A p \in 0..(has(g)' - 1) : Addr(g, p)' # 0
  <2>1. CASE g = f
    <3>1. Addr(g, 0)' # 0
      BY <2>1, <1>2, <1>8, Places
    <3>2. \A p \in 0..(has(g)' - 1) : Addr(g, p)' # 0
      BY <2>1, <1>2, <1>5, <1>7, <1>9
    <3>3. has(g)' <= MAX_BLOCKS
      BY <2>1, <1>4, <1>5, <1>6, Constants
    <3> QED
      BY <3>1, <3>2, <3>3
  <2>2. CASE g # f
    <3>1. inode'[g] = inode[g] /\ has(g)' = has(g)
      BY <2>2, <1>2 DEF has
    <3>2. has(g) <= MAX_BLOCKS /\ has(g) \in Nat
      BY <1>1, Sizes DEF Shaped
    <3>3. \A p \in 0..(has(g) - 1) : p \in Place
      BY <3>2, Places, Constants
    <3>4. Addr(g, 0)' = Addr(g, 0) /\ \A p \in 0..(has(g) - 1) : Addr(g, p)' = Addr(g, p)
      BY <2>2, <3>3, <1>2, Places
    <3> QED
      BY <3>1, <3>2, <3>4, <1>1 DEF Shaped
  <2> QED
    BY <2>1, <2>2
<1> QED
  BY <1>10 DEF Shaped

-----------------------------------------------------------------------------
(* Where the bytes go.                                                     *)
LEMMA SameSector ==
  ASSUME NEW n \in Nat, n > 0, NEW i \in Nat, NEW m \in Nat, (i % n) + m <= n,
         NEW k \in Nat, i <= k, k < i + m
  PROVE  k \div n = i \div n /\ k % n = (i % n) + (k - i) /\ (i - (i % n)) + (k % n) = k
<1>1. PICK d \in Nat : d = i \div n
  OBVIOUS
<1>2. PICK r \in 0..(n - 1) : r = i % n
  OBVIOUS
<1>3. i = n * d + r
  BY <1>1, <1>2, PlaceOf
<1>4. PICK s : s = r + (k - i)
  OBVIOUS
<1>5. s \in 0..(n - 1) /\ k - i = s - r
  BY <1>2, <1>4
<1>6. PICK x \in Nat : x = n * d
  BY <1>1
<1>7. k = n * d + s
  BY <1>2, <1>3, <1>5, <1>6
<1>8. k \div n = d /\ k % n = s
  BY <1>1, <1>5, <1>7, PlaceBack
<1>9. (i - r) + s = k
  BY <1>2, <1>3, <1>5, <1>6, <1>7
<1> QED
  BY <1>1, <1>2, <1>4, <1>8, <1>9

LEMMA EarlierByte ==
  ASSUME NEW n \in Nat, n > 0, NEW i \in Nat, NEW k \in Nat, k < i
  PROVE  k \div n < i \div n \/ (k \div n = i \div n /\ k % n < i % n)
<1>1. PICK d, r \in Nat : d = i \div n /\ r = i % n
  OBVIOUS
<1>2. PICK e, s \in Nat : e = k \div n /\ s = k % n
  OBVIOUS
<1>3. e <= d
  BY <1>1, <1>2
<1>4. i = n * d + r /\ k = n * e + s
  BY <1>1, <1>2, PlaceOf
<1>5. e = d => s < r
  <2>1. PICK x \in Nat : x = n * d
    BY <1>1
  <2> QED
    BY <1>4, <2>1, <1>1, <1>2
<1> QED
  BY <1>1, <1>2, <1>3, <1>5

LEMMA StoreData ==
  ASSUME FileType, Shaped, NEW f \in File, NEW count \in Nat, Allowed(f, count),
         Store(f, count), NEW lba, lba = NewAddr(f, count, has(f) - 1)
  PROVE  /\ lba \in Block /\ has(f) - 1 \in Place
         /\ \A b \in Block : b # lba => data'[b] = data[b]
         /\ \A x \in 0..(BLOCK_SIZE - 1) :
              data'[lba][x] =
                IF x \in Chunk(f, count)
                THEN Stamp(f, inode[f].i_size - (inode[f].i_size % BLOCK_SIZE) + x)
                ELSE data[lba][x]
<1>1. PICK h \in Nat : h = has(f) /\ h > 0
  BY Sizes
<1>2. h <= MAX_BLOCKS /\ has(f) <= MAX_BLOCKS
  BY <1>1 DEF Shaped
<1>3. h - 1 \in Place
  BY <1>1, <1>2, Constants, Places
<1>4. Addr(f, h - 1) # 0 \/ IsWanted(f, count, h - 1)
  <2>1. CASE Addr(f, 0) # 0
    BY <2>1, <1>1 DEF Shaped
  <2>2. CASE Addr(f, 0) = 0
    <3>1. inode[f].i_size = 0
      BY <2>2 DEF Shaped, NoInode
    <3>2. h - 1 = 0
      BY <3>1, <1>1, Constants DEF has
    <3> QED
      BY <2>2, <3>2 DEF IsWanted
  <2> QED
    BY <2>1, <2>2
<1>5. lba \in 0..NB /\ lba # 0
  BY <1>1, <1>3, <1>4, NewType
<1>6. lba \in Block
  BY <1>5, Constants DEF Block
<1>7. PICK base : base = inode[f].i_size - (inode[f].i_size % BLOCK_SIZE)
  OBVIOUS
<1>8. PICK chunk : chunk = Chunk(f, count)
  OBVIOUS
<1>9. data' = [data EXCEPT ![lba] =
                 [k \in DOMAIN @ |-> IF k \in chunk THEN Stamp(f, base + k) ELSE @[k]]]
  BY <1>2, <1>7, <1>8, StoreTold
<1>10. DOMAIN data = Block /\ DOMAIN data[lba] = 0..(BLOCK_SIZE - 1)
  BY <1>6 DEF FileType
<1>11. data'[lba] = [k \in DOMAIN data[lba] |->
                       IF k \in chunk THEN Stamp(f, base + k) ELSE data[lba][k]]
  BY <1>6, <1>9, <1>10
<1>12. \A b \in Block : b # lba => data'[b] = data[b]
  BY <1>9, <1>10
<1>13. \A x \in 0..(BLOCK_SIZE - 1) :
         data'[lba][x] = IF x \in chunk THEN Stamp(f, base + x) ELSE data[lba][x]
  BY <1>10, <1>11
<1> QED
  BY <1>1, <1>3, <1>6, <1>7, <1>8, <1>12, <1>13

LEMMA StoreBytes ==
  ASSUME FileInv, NEW f \in File, NEW count \in Nat, Allowed(f, count), Store(f, count)
  PROVE  BytesInPlace'
<1>1. FileType /\ Shaped /\ Apart /\ Owned /\ has(f) <= MAX_BLOCKS /\ BlocksInv
  BY DEF FileInv, BlocksInv, Shaped
<1>2. FileType' /\ Shaped' /\ Apart' /\ Owned'
  BY <1>1, StoreType, StoreShaped, StoreApart
<1>3. /\ \A p \in Place : Addr(f, p)' = NewAddr(f, count, p)
      /\ \A g \in File \ {f} : inode'[g] = inode[g] /\ \A p \in Place : Addr(g, p)' = Addr(g, p)
  BY <1>1, StoreAddr, StoreOthers, Places
<1>4. PICK h \in Nat : h = has(f) /\ h > 0 /\ h - 1 = inode[f].i_size \div BLOCK_SIZE
  BY <1>1, Sizes
<1>5. PICK lba : lba = NewAddr(f, count, has(f) - 1)
  OBVIOUS
<1>6. PICK i \in Nat : i = inode[f].i_size
  BY <1>1, Sizes
<1>7. PICK m \in Nat : /\ m <= count /\ (i % BLOCK_SIZE) + m <= BLOCK_SIZE
                       /\ Chunk(f, count) = (i % BLOCK_SIZE)..((i % BLOCK_SIZE) + m - 1)
                       /\ m = Cardinality(Chunk(f, count))
  BY <1>1, <1>6, ChunkOK
<1>8. PICK base : base = i - (i % BLOCK_SIZE)
  OBVIOUS
<1>9. PICK off \in Nat : off = i % BLOCK_SIZE
  BY <1>6, Constants, PlaceOf
<1>10. /\ lba \in Block /\ h - 1 \in Place
       /\ \A b \in Block : b # lba => data'[b] = data[b]
       /\ \A x \in 0..(BLOCK_SIZE - 1) :
            data'[lba][x] = IF x \in off..(off + m - 1) THEN Stamp(f, base + x) ELSE data[lba][x]
  <2>1. PICK chunk : chunk = Chunk(f, count) /\ chunk = off..(off + m - 1)
    BY <1>7, <1>9
  <2>2. base = inode[f].i_size - (inode[f].i_size % BLOCK_SIZE)
    BY <1>6, <1>8
  <2>3. \A x \in 0..(BLOCK_SIZE - 1) :
          data'[lba][x] = IF x \in chunk THEN Stamp(f, base + x) ELSE data[lba][x]
    <3>1. \A x \in 0..(BLOCK_SIZE - 1) :
            data'[lba][x] =
              IF x \in Chunk(f, count)
              THEN Stamp(f, inode[f].i_size - (inode[f].i_size % BLOCK_SIZE) + x)
              ELSE data[lba][x]
      BY <1>1, <1>5, StoreData
    <3> QED
      BY <3>1, <2>1, <2>2
  <2>4. lba \in Block /\ h - 1 \in Place /\ \A b \in Block : b # lba => data'[b] = data[b]
    BY <1>1, <1>4, <1>5, StoreData
  <2> QED
    BY <2>1, <2>3, <2>4
<1>11. inode'[f].i_size = i + m
  BY <1>1, <1>6, <1>7, StoreType
<1>12. lba = Addr(f, h - 1)' /\ lba # 0
  BY <1>3, <1>4, <1>5, <1>10, Constants DEF Block
<1>13. ASSUME NEW g \in File, NEW k \in 0..(inode'[g].i_size - 1)
       PROVE  LET b == BlockAt(g, k \div BLOCK_SIZE)'
              IN  b # 0 /\ data'[b][k % BLOCK_SIZE] = Stamp(g, k)
  <2>1. PICK z \in Nat : z = inode'[g].i_size
    BY <1>2 DEF FileType
  <2>2. k \in Nat /\ k < z
    BY <2>1
  <2>3. PICK j \in Nat : j = k \div BLOCK_SIZE
    BY <2>2, Constants, PlaceOf
  <2>4. PICK x \in 0..(BLOCK_SIZE - 1) : x = k % BLOCK_SIZE
    BY <2>2, Constants, PlaceOf
  <2>5. Addr(g, 0)' # 0
    <3>1. SUFFICES ASSUME Addr(g, 0)' = 0 PROVE FALSE
      OBVIOUS
    <3>2. inode'[g] = NoInode
      BY <3>1, <1>2 DEF Shaped
    <3> QED
      BY <3>2, <2>1, <2>2 DEF NoInode
  <2>6. PICK n \in Nat : n = has(g)' /\ j < n /\ n <= MAX_BLOCKS
    <3>1. PICK d \in Nat : d = z \div BLOCK_SIZE
      BY <2>1, Constants, PlaceOf
    <3>2. has(g)' = d + 1
      BY <2>1, <3>1 DEF has
    <3>3. j <= d
      BY <2>2, <2>3, <3>1, Constants, EarlierByte
    <3>4. has(g)' <= MAX_BLOCKS
      BY <1>2 DEF Shaped
    <3> QED
      BY <3>2, <3>3, <3>4
  <2>7. j \in Place /\ j # TABLE /\ j \in 0..(n - 1)
    BY <2>3, <2>6, Constants, Places
  <2>8. PICK b : b = Addr(g, j)'
    OBVIOUS
  <2>9. b = BlockAt(g, k \div BLOCK_SIZE)'
    BY <2>3, <2>7, <2>8 DEF Addr
  <2>10. b # 0
    BY <2>5, <2>6, <2>7, <2>8, <1>2 DEF Shaped
  <2>11. CASE g # f
    <3>1. b = Addr(g, j) /\ z = inode[g].i_size
      BY <2>1, <2>7, <2>8, <2>11, <1>3
    <3>2. b \in Block
      BY <2>7, <2>10, <3>1, <1>1, AddrType, Constants DEF Block
    <3>3. b # lba
      BY <2>7, <2>8, <2>10, <2>11, <1>2, <1>10, <1>12 DEF Owned
    <3>4. data'[b] = data[b]
      BY <3>2, <3>3, <1>10
    <3>5. data[b][x] = Stamp(g, k)
      <4>1. b = BlockAt(g, k \div BLOCK_SIZE)
        BY <2>3, <2>7, <3>1 DEF Addr
      <4>2. k \in 0..(inode[g].i_size - 1)
        BY <2>1, <3>1
      <4> QED
        BY <2>4, <4>1, <4>2 DEF FileInv, BytesInPlace
    <3> QED
      BY <2>4, <2>9, <2>10, <3>4, <3>5
  <2>12. CASE g = f /\ k < i
    <3>1. Addr(f, 0) # 0
      <4>1. SUFFICES ASSUME Addr(f, 0) = 0 PROVE FALSE
        OBVIOUS
      <4>2. inode[f] = NoInode
        BY <4>1, <1>1 DEF Shaped
      <4> QED
        BY <4>2, <1>6, <2>2, <2>12 DEF NoInode
    <3>2. j < h - 1 \/ (j = h - 1 /\ x < off)
      BY <2>2, <2>3, <2>4, <2>12, <1>4, <1>6, <1>9, Constants, EarlierByte
    <3>3. ~IsWanted(f, count, j)
      BY <2>3, <2>7, <3>1, <3>2, <1>4 DEF IsWanted
    <3>4. b = Addr(f, j)
      BY <2>7, <2>8, <2>12, <3>3, <1>1, <1>3, NewOK
    <3>5. b \in Block
      BY <2>7, <2>10, <3>4, <1>1, AddrType, Constants DEF Block
    <3>6. data'[b][x] = data[b][x]
      <4>1. CASE j < h - 1
        <5>1. b # lba
          BY <2>7, <2>8, <2>10, <2>12, <4>1, <1>2, <1>10, <1>12 DEF Apart
        <5> QED
          BY <3>5, <5>1, <1>10
      <4>2. CASE j = h - 1 /\ x < off
        <5>1. b = lba
          BY <2>8, <2>12, <4>2, <1>12
        <5>2. x \notin off..(off + m - 1)
          BY <4>2, <1>9
        <5> QED
          BY <5>1, <5>2, <1>10
      <4> QED
        BY <3>2, <4>1, <4>2
    <3>7. data[b][x] = Stamp(f, k)
      <4>1. b = BlockAt(f, k \div BLOCK_SIZE)
        BY <2>3, <2>7, <3>4 DEF Addr
      <4>2. k \in 0..(inode[f].i_size - 1)
        BY <2>2, <2>12, <1>6
      <4> QED
        BY <2>4, <4>1, <4>2 DEF FileInv, BytesInPlace
    <3> QED
      BY <2>4, <2>9, <2>10, <2>12, <3>6, <3>7
  <2>13. CASE g = f /\ i <= k
    <3>1. k < i + m
      BY <2>1, <2>2, <2>13, <1>11
    <3>2. j = h - 1 /\ x = off + (k - i) /\ base + x = k
      <4>1. BLOCK_SIZE \in Nat /\ BLOCK_SIZE > 0 /\ (i % BLOCK_SIZE) + m <= BLOCK_SIZE /\ i <= k
        BY <1>7, <2>13, Constants
      <4>2. /\ k \div BLOCK_SIZE = i \div BLOCK_SIZE /\ k % BLOCK_SIZE = (i % BLOCK_SIZE) + (k - i)
            /\ (i - (i % BLOCK_SIZE)) + (k % BLOCK_SIZE) = k
        BY <4>1, <2>2, <3>1, SameSector
      <4>3. h - 1 = i \div BLOCK_SIZE
        BY <1>4, <1>6
      <4> QED
        BY <4>2, <4>3, <2>3, <2>4, <1>8, <1>9
    <3>3. x \in off..(off + m - 1)
      BY <2>2, <2>4, <2>13, <3>1, <3>2, <1>9
    <3>4. data'[lba][x] = Stamp(f, k)
      BY <2>4, <3>2, <3>3, <1>10
    <3>5. b = lba
      BY <2>8, <2>13, <3>2, <1>12
    <3> QED
      BY <2>4, <2>9, <2>10, <2>13, <3>4, <3>5
  <2> QED
    BY <2>2, <2>11, <2>12, <2>13, <1>6
<1> QED
  BY <1>13 DEF BytesInPlace

LEMMA WriteOK ==
  ASSUME FileInv, NEW f \in File, NEW count \in Nat, Allowed(f, count), Store(f, count)
  PROVE  FileInv'
<1>1. FileType /\ Shaped /\ BlocksInv /\ has(f) <= MAX_BLOCKS
  BY DEF FileInv, BlocksInv, Shaped
<1>2. FileType' /\ Shaped' /\ Apart' /\ Owned'
  BY <1>1, StoreType, StoreShaped, StoreApart
<1> QED
  BY <1>2, StoreBytes DEF FileInv, BlocksInv
-----------------------------------------------------------------------------
(* inode_release of a deleted file.                                        *)
LEMMA BlocksOfOK ==
  ASSUME FileType, NEW f \in File
  PROVE  BlocksOf(f) = {Addr(f, p) : p \in Place} \ {0}
<1>1. \A p : p \in Place <=> p = TABLE \/ p \in 0..(MAX_BLOCKS - 1)
  BY Places, Constants
<1>2. Addr(f, TABLE) = inode[f].i_sectors[DIRECT]
  BY DEF Addr
<1>3. \A k \in 0..(MAX_BLOCKS - 1) : Addr(f, k) = BlockAt(f, k)
  <2>1. \A k \in 0..(MAX_BLOCKS - 1) : k # TABLE
    BY Constants DEF TABLE
  <2> QED
    BY <2>1 DEF Addr
<1>4. {Addr(f, p) : p \in Place} =
        {BlockAt(f, k) : k \in 0..(MAX_BLOCKS - 1)} \cup {inode[f].i_sectors[DIRECT]}
  BY <1>1, <1>2, <1>3
<1> QED
  BY <1>4 DEF BlocksOf

LEMMA UnlinkOK ==
  ASSUME FileInv, NEW f \in File, Unlink(f)
  PROVE  FileInv'
<1>1. FileType /\ Shaped /\ Apart /\ Owned /\ BytesInPlace
  BY DEF FileInv, BlocksInv
<1>2. PICK gone : gone = BlocksOf(f)
  OBVIOUS
<1>3. gone = {Addr(f, p) : p \in Place} \ {0}
  BY <1>1, <1>2, BlocksOfOK
<1>4. /\ bitmap' = bitmap \ gone
      /\ inode' = [inode EXCEPT ![f] = NoInode]
      /\ tab' = [b \in Block |-> IF b \in gone THEN EmptyTable ELSE tab[b]]
      /\ data' = [b \in Block |-> IF b \in gone THEN EmptyBlock ELSE data[b]]
      /\ pos' = pos
  BY <1>2 DEF Unlink
<1>5. PICK no : no = NoInode
  OBVIOUS
<1>6. /\ no \in [i_size : Nat, i_sectors : [0..DIRECT -> 0..NB]]
      /\ no.i_size = 0 /\ \A k \in 0..DIRECT : no.i_sectors[k] = 0
  BY <1>5, Constants DEF NoInode
<1>7. inode'[f] = no /\ \A g \in File \ {f} : inode'[g] = inode[g]
  BY <1>1, <1>4, <1>5 DEF FileType
<1>8. FileType'
  <2>1. inode' \in [File -> [i_size : Nat, i_sectors : [0..DIRECT -> 0..NB]]]
    BY <1>1, <1>4, <1>5, <1>6 DEF FileType
  <2>2. tab' \in [Block -> [0..(INDIRECT - 1) -> 0..NB]]
    <3>0. 0 \in 0..NB
      BY Constants
    <3>1. EmptyTable \in [0..(INDIRECT - 1) -> 0..NB]
      BY <3>0 DEF EmptyTable
    <3> QED
      BY <3>1, <1>1, <1>4 DEF FileType
  <2>3. data' = [b \in Block |-> [k \in 0..(BLOCK_SIZE - 1) |-> data'[b][k]]]
    <3>1. \A b \in Block : data'[b] = IF b \in gone THEN EmptyBlock ELSE data[b]
      BY <1>4
    <3>2. ASSUME NEW b \in Block PROVE data'[b] = [k \in 0..(BLOCK_SIZE - 1) |-> data'[b][k]]
      <4>1. CASE b \in gone
        BY <3>1, <4>1 DEF EmptyBlock
      <4>2. CASE b \notin gone
        BY <3>1, <4>2, <1>1 DEF FileType
      <4> QED
        BY <4>1, <4>2
    <3>3. data' = [b \in Block |-> data'[b]]
      BY <1>4
    <3> QED
      BY <3>2, <3>3
  <2> QED
    BY <2>1, <2>2, <2>3, <1>1, <1>4 DEF FileType
<1>9. ASSUME NEW p \in Place PROVE Addr(f, p)' = 0
  <2>1. no.i_sectors[DIRECT] = 0 /\ (p # TABLE /\ p < DIRECT => no.i_sectors[p] = 0)
    BY <1>6, Constants, Places
  <2> QED
    BY <1>7, <2>1 DEF Addr, BlockAt
<1>10. ASSUME NEW g \in File, g # f, NEW p \in Place PROVE Addr(g, p) \notin gone
  BY <1>1, <1>3, <1>10 DEF Owned
<1>11. ASSUME NEW g \in File, g # f, NEW p \in Place PROVE Addr(g, p)' = Addr(g, p)
  <2>1. PICK d : d = inode[g].i_sectors[DIRECT]
    OBVIOUS
  <2>2. d = Addr(g, TABLE) /\ d \in 0..NB
    BY <2>1, <1>1, AddrType, Places DEF Addr
  <2>3. d # 0 => tab'[d] = tab[d]
    BY <2>2, <1>4, <1>10, <1>11, Constants, Places DEF Block
  <2> QED
    BY <2>1, <2>3, <1>7, <1>11 DEF Addr, BlockAt
<1>12. Apart'
  BY <1>1, <1>9, <1>11 DEF Apart
<1>13. Owned'
  <2>1. ASSUME NEW g \in File, NEW p \in Place PROVE Addr(g, p)' \in bitmap' \cup {0}
    BY <1>1, <1>4, <1>9, <1>10, <1>11 DEF Owned
  <2>2. ASSUME NEW g \in File, NEW h \in File, NEW p \in Place, NEW q \in Place,
               Addr(g, p)' = Addr(h, q)', Addr(g, p)' # 0
        PROVE  g = h
    BY <2>2, <1>1, <1>9, <1>11 DEF Owned
  <2> QED
    BY <2>1, <2>2 DEF Owned
<1>14. ASSUME NEW g \in File
       PROVE  /\ has(g)' <= MAX_BLOCKS
              /\ Addr(g, 0)' = 0 => inode'[g] = NoInode
              /\ Addr(g, 0)' # 0 => \A p \in 0..(has(g)' - 1) : Addr(g, p)' # 0
  <2>1. CASE g = f
    <3>1. has(g)' = 1
      BY <2>1, <1>6, <1>7, Constants DEF has
    <3> QED
      BY <2>1, <3>1, <1>5, <1>7, <1>9, Constants, Places
  <2>2. CASE g # f
    <3>1. inode'[g] = inode[g] /\ has(g)' = has(g)
      BY <2>2, <1>7 DEF has
    <3>2. has(g) <= MAX_BLOCKS /\ has(g) \in Nat
      BY <1>1, Sizes DEF Shaped
    <3>3. \A p \in 0..(has(g) - 1) : p \in Place
      BY <3>2, Places, Constants
    <3>4. Addr(g, 0)' = Addr(g, 0) /\ \A p \in 0..(has(g) - 1) : Addr(g, p)' = Addr(g, p)
      BY <2>2, <3>3, <1>11, Places
    <3> QED
      BY <3>1, <3>2, <3>4, <1>1 DEF Shaped
  <2> QED
    BY <2>1, <2>2
<1>15. Shaped'
  BY <1>14 DEF Shaped
<1>16. ASSUME NEW g \in File, NEW k \in 0..(inode'[g].i_size - 1)
       PROVE  LET b == BlockAt(g, k \div BLOCK_SIZE)'
              IN  b # 0 /\ data'[b][k % BLOCK_SIZE] = Stamp(g, k)
  <2>1. g # f
    <3>1. SUFFICES ASSUME g = f PROVE FALSE
      OBVIOUS
    <3>2. inode'[g].i_size = 0
      BY <3>1, <1>6, <1>7
    <3> QED
      BY <3>2
  <2>2. PICK z \in Nat : z = inode[g].i_size /\ z = inode'[g].i_size
    BY <2>1, <1>1, <1>7, Sizes
  <2>3. k \in Nat /\ k < z
    BY <2>2
  <2>4. PICK j \in Nat : j = k \div BLOCK_SIZE
    BY <2>3, Constants, PlaceOf
  <2>5. j \in Place /\ j # TABLE
    <3>1. PICK h \in Nat : h = has(g) /\ h - 1 = z \div BLOCK_SIZE /\ h <= MAX_BLOCKS
      BY <2>2, <1>1, Sizes DEF Shaped
    <3>2. j <= h - 1
      BY <2>3, <2>4, <3>1, Constants, EarlierByte
    <3> QED
      BY <3>1, <3>2, Constants, Places
  <2>6. PICK b : b = Addr(g, j)
    OBVIOUS
  <2>7. b = BlockAt(g, k \div BLOCK_SIZE) /\ b = BlockAt(g, k \div BLOCK_SIZE)'
    BY <2>1, <2>4, <2>5, <2>6, <1>11 DEF Addr
  <2>8. b # 0 /\ data[b][k % BLOCK_SIZE] = Stamp(g, k)
    BY <2>2, <2>7, <1>1 DEF BytesInPlace
  <2>9. b \in Block /\ b \notin gone
    BY <2>1, <2>5, <2>6, <2>8, <1>1, <1>10, AddrType, Constants DEF Block
  <2>10. data'[b] = data[b]
    BY <2>9, <1>4
  <2> QED
    BY <2>7, <2>8, <2>10
<1>17. BytesInPlace'
  BY <1>16 DEF BytesInPlace
<1> QED
  BY <1>8, <1>12, <1>13, <1>15, <1>17 DEF FileInv, BlocksInv
-----------------------------------------------------------------------------
(* The calls that write nothing.                                           *)
LEMMA SameFiles ==
  ASSUME FileInv, inode' = inode, tab' = tab, data' = data, bitmap' = bitmap,
         pos' \in [File -> Int]
  PROVE  FileInv'
<1>1. \A f \in File : \A p : Addr(f, p)' = Addr(f, p)
  BY DEF Addr, BlockAt
<1>2. \A f \in File : has(f)' = has(f)
  BY DEF has
<1>3. FileType'
  BY DEF FileInv, BlocksInv, FileType
<1>4. Shaped'
  BY <1>1, <1>2 DEF FileInv, BlocksInv, Shaped
<1>5. Apart'
  BY <1>1 DEF FileInv, BlocksInv, Apart
<1>6. Owned'
  BY <1>1 DEF FileInv, BlocksInv, Owned
<1>7. BytesInPlace'
  BY DEF FileInv, BytesInPlace, BlockAt
<1> QED
  BY <1>3, <1>4, <1>5, <1>6, <1>7 DEF FileInv, BlocksInv

LEMMA FileInvInit == IOInit => FileInv
<1> SUFFICES ASSUME IOInit PROVE FileInv
  OBVIOUS
<1>0. 0 \in 0..NB
  BY Constants
<1>1. PICK no : no = NoInode
  OBVIOUS
<1>2. /\ no \in [i_size : Nat, i_sectors : [0..DIRECT -> 0..NB]]
      /\ no.i_size = 0 /\ \A k \in 0..DIRECT : no.i_sectors[k] = 0
  BY <1>0, <1>1, Constants DEF NoInode
<1>3. /\ inode = [f \in File |-> no] /\ tab = [b \in Block |-> EmptyTable]
      /\ data = [b \in Block |-> EmptyBlock] /\ bitmap = {} /\ pos = [f \in File |-> None]
  BY <1>1 DEF IOInit
<1>4. FileType
  <2>1. EmptyTable \in [0..(INDIRECT - 1) -> 0..NB]
    BY <1>0 DEF EmptyTable
  <2>2. tab \in [Block -> [0..(INDIRECT - 1) -> 0..NB]]
    BY <2>1, <1>3
  <2>3. data = [b \in Block |-> [k \in 0..(BLOCK_SIZE - 1) |-> data[b][k]]]
    <3>1. EmptyBlock = [k \in 0..(BLOCK_SIZE - 1) |-> EmptyBlock[k]]
      BY DEF EmptyBlock
    <3>2. PICK e : e = EmptyBlock
      OBVIOUS
    <3> QED
      BY <3>1, <3>2, <1>3
  <2>4. None \in Int
    BY DEF None
  <2> QED
    BY <2>2, <2>3, <2>4, <1>2, <1>3 DEF FileType
<1>5. ASSUME NEW f \in File, NEW p \in Place PROVE Addr(f, p) = 0
  <2>1. inode[f] = no
    BY <1>3
  <2>2. no.i_sectors[DIRECT] = 0 /\ (p # TABLE /\ p < DIRECT => no.i_sectors[p] = 0)
    BY <1>2, Constants, Places
  <2> QED
    BY <2>1, <2>2 DEF Addr, BlockAt
<1>6. \A f \in File : inode[f] = NoInode /\ inode[f].i_size = 0 /\ has(f) = 1
  BY <1>1, <1>2, <1>3, Constants DEF has
<1>7. Shaped
  BY <1>5, <1>6, Constants, Places DEF Shaped
<1>8. Apart /\ Owned
  BY <1>5 DEF Apart, Owned
<1>9. BytesInPlace
  BY <1>6 DEF BytesInPlace
<1> QED
  BY <1>4, <1>7, <1>8, <1>9 DEF FileInv, BlocksInv

LEMMA FileInvNext == FileInv /\ [IONext]_ioVars => FileInv'
<1> SUFFICES ASSUME FileInv, [IONext]_ioVars PROVE FileInv'
  OBVIOUS
<1>1. pos \in [File -> Int] /\ FileType
  BY DEF FileInv, BlocksInv, FileType
<1>2. CASE UNCHANGED ioVars
  BY <1>1, <1>2, SameFiles DEF ioVars
<1>3. ASSUME NEW f \in File, Open(f) PROVE FileInv'
  BY <1>1, <1>3, SameFiles DEF Open
<1>4. ASSUME NEW f \in File, Close(f) PROVE FileInv'
  <2>1. None \in Int
    BY DEF None
  <2> QED
    BY <2>1, <1>1, <1>4, SameFiles DEF Close
<1>5. ASSUME NEW f \in File, Unlink(f) PROVE FileInv'
  BY <1>5, UnlinkOK
<1>6. ASSUME NEW f \in File, NEW count \in Count, Write(f, count) PROVE FileInv'
  <2>1. count \in Nat
    BY Constants
  <2>2. ASSUME NEW why, Halt(why) PROVE FileInv'
    BY <1>1, <2>2, SameFiles DEF Halt
  <2>3. ASSUME ~(will(f, count) > MAX_BLOCKS), WriteAsserts(f, count),
               ~(Len(Wanted(f, count)) > Cardinality(FreeBlocks)), Store(f, count)
        PROVE  FileInv'
    <3>1. will(f, count) <= MAX_BLOCKS
      BY <1>1, <2>1, <2>3, Sizes, Constants
    <3>2. Len(Wanted(f, count)) <= Cardinality(FreeBlocks)
      <4>1. Len(Wanted(f, count)) \in Nat
        BY <1>1, <2>1, WantedOK
      <4>2. Cardinality(FreeBlocks) \in Nat
        BY FreeFinite, FS_CardinalityType
      <4> QED
        BY <4>1, <4>2, <2>3
    <3> QED
      BY <3>1, <3>2, <2>1, <2>3, WriteOK DEF Allowed
  <2> QED
    BY <1>6, <2>2, <2>3 DEF Write
<1>7. ASSUME NEW f \in File, NEW count \in Count, Read(f, count) PROVE FileInv'
  <2>1. CASE Halt("index") \/ Halt("overrun")
    BY <1>1, <2>1, SameFiles DEF Halt
  <2>2. CASE /\ pos' = [pos EXCEPT ![f] = pos[f] + ReadSize(f, pos[f], count)]
             /\ UNCHANGED <<inode, tab, data, bitmap, panic>>
    <3>1. ReadSize(f, pos[f], count) \in Int
      <4>1. PICK i \in Nat : i = inode[f].i_size
        BY <1>1, Sizes
      <4>2. PICK w \in Nat : w = WORD /\ w > 0
        BY FileIOAssumption, Constants DEF FileIOAssumption
      <4>3. pos[f] \in Int /\ count \in Int
        BY <1>1, Constants
      <4>4. (i - pos[f]) % w \in Int
        BY <4>2, <4>3
      <4> QED
        BY <4>1, <4>2, <4>3, <4>4 DEF ReadSize
    <3>2. PICK z \in Int : z = pos[f] + ReadSize(f, pos[f], count)
      BY <3>1, <1>1
    <3> QED
      BY <3>2, <2>2, <1>1, SameFiles
  <2> QED
    BY <1>7, <2>1, <2>2 DEF Read
<1>8. ASSUME NEW f \in File, NEW offset \in Offset, NEW whence \in {"SEEK_SET", "SEEK_CUR", "SEEK_END"},
             sys_lseek(f, offset, whence)
      PROVE  FileInv'
  <2>1. PICK z : /\ z \in 0..(inode[f].i_size - 1) /\ pos' = [pos EXCEPT ![f] = z]
                 /\ UNCHANGED <<inode, tab, data, bitmap, panic>>
    BY <1>8, Zenon DEF sys_lseek
  <2>2. z \in Int
    BY <2>1
  <2>3. pos' \in [File -> Int]
    BY <2>1, <2>2, <1>1
  <2> QED
    BY <2>1, <2>3, SameFiles
<1> QED
  BY <1>2, <1>3, <1>4, <1>5, <1>6, <1>7, <1>8 DEF IONext
-----------------------------------------------------------------------------
(* The inductive invariant of files, blocks and bytes.                     *)
THEOREM FileInvariant == IOSpec => []FileInv
<1>1. IOInit => FileInv
  BY FileInvInit
<1>2. FileInv /\ [IONext]_ioVars => FileInv'
  BY FileInvNext
<1> QED
  BY <1>1, <1>2, PTL DEF IOSpec

(* Every byte that i_size counts is on the disk in its place, for any      *)
(* sizes of sector, inode and table: file_write hits no other file, sector *)
(* or offset.                                                              *)
THEOREM FileBytesInPlace == IOSpec => []BytesInPlace
<1>1. FileInv => BytesInPlace
  BY DEF FileInv
<1> QED
  BY <1>1, FileInvariant, PTL

LEMMA OwnedOnce == FileInv => BlocksOwnedOnce
<1> SUFFICES ASSUME FileInv PROVE BlocksOwnedOnce
  OBVIOUS
<1>1. FileType /\ Shaped /\ Apart /\ Owned
  BY DEF FileInv, BlocksInv
<1>2. \A f \in File : BlocksOf(f) = {Addr(f, p) : p \in Place} \ {0}
  BY <1>1, BlocksOfOK
<1>3. \A f \in File : BlocksOf(f) \subseteq bitmap
  BY <1>1, <1>2 DEF Owned
<1>4. \A f, g \in File : f # g => BlocksOf(f) \cap BlocksOf(g) = {}
  BY <1>1, <1>2 DEF Owned
<1>5. ASSUME NEW f \in File, NEW k \in 0..(MAX_BLOCKS - 1)
      PROVE  k \in Place /\ BlockAt(f, k) = Addr(f, k) /\ k # TABLE
  BY Constants, Places DEF Addr
<1>6. \A f \in File : inode[f].i_sectors[DIRECT] = Addr(f, TABLE)
  BY DEF Addr
<1>7. ASSUME NEW f \in File, BlocksOf(f) # {} PROVE \A k \in 0..(has(f) - 1) : BlockAt(f, k) # 0
  <2>1. PICK p \in Place : Addr(f, p) # 0
    BY <1>2, <1>7
  <2>2. Addr(f, 0) # 0
    <3>1. SUFFICES ASSUME Addr(f, 0) = 0 PROVE FALSE
      OBVIOUS
    <3>2. PICK no : no = NoInode
      OBVIOUS
    <3>3. \A k \in 0..DIRECT : no.i_sectors[k] = 0
      BY <3>2 DEF NoInode
    <3>4. inode[f] = no
      BY <3>1, <3>2, <1>1 DEF Shaped
    <3>5. no.i_sectors[DIRECT] = 0 /\ (p # TABLE /\ p < DIRECT => no.i_sectors[p] = 0)
      BY <3>3, Constants, Places
    <3> QED
      BY <2>1, <3>4, <3>5 DEF Addr, BlockAt
  <2>3. \A k \in 0..(has(f) - 1) : k \in 0..(MAX_BLOCKS - 1)
    BY <1>1, Sizes, Constants DEF Shaped
  <2> QED
    BY <2>2, <2>3, <1>1, <1>5 DEF Shaped
<1>8. \A f \in File : \A k, l \in 0..(MAX_BLOCKS - 1) :
        BlockAt(f, k) = BlockAt(f, l) /\ k # l => BlockAt(f, k) = 0
  BY <1>1, <1>5 DEF Apart
<1>9. \A f \in File : \A k \in 0..(MAX_BLOCKS - 1) :
        BlockAt(f, k) = inode[f].i_sectors[DIRECT] => BlockAt(f, k) = 0
  BY <1>1, <1>5, <1>6, Places DEF Apart
<1> QED
  BY <1>3, <1>4, <1>7, <1>8, <1>9 DEF BlocksOwnedOnce

(* No address serves two purposes, and every block up to the one a file    *)
(* grows into is there, for any partition and any number of files: what    *)
(* block_bitmap_alloc hands out and inode_release gives back never overlap.*)
THEOREM FileBlocksOwnedOnce == IOSpec => []BlocksOwnedOnce
BY OwnedOnce, FileInvariant, PTL
-----------------------------------------------------------------------------
(* file_read: the bytes of one sector that are read are a run of those     *)
(* BytesInPlace is about.                                                  *)
LEMMA ReadOneSector ==
  ASSUME FileInv, NEW f \in File, NEW count \in Count, NEW p,
         p \in 0..(inode[f].i_size - 1), p + count < WORD, Start(p) = End(f, p, count)
  PROVE  LET r == file_read(f, p, count)
         IN  /\ Len(r) = Min({count, inode[f].i_size - p})
             /\ \A k \in DOMAIN r : r[k] = Stamp(f, p + k - 1)
<1>1. FileType /\ Shaped /\ BytesInPlace
  BY DEF FileInv, BlocksInv
<1>2. PICK i \in Nat : i = inode[f].i_size
  BY <1>1, Sizes
<1>3. PICK c \in Nat : c = count
  BY Constants
<1>4. p \in Nat /\ p < i
  BY <1>2
<1>5. PICK w \in Nat : w = WORD /\ w > i
  <2>1. PICK h \in Nat : h = has(f) /\ h - 1 = i \div BLOCK_SIZE /\ h <= MAX_BLOCKS
    BY <1>1, <1>2, Sizes DEF Shaped
  <2>2. PICK m \in Nat : m = MAX_BLOCKS
    BY Constants
  <2>3. PICK b \in Nat : b = BLOCK_SIZE /\ b > 0
    BY Constants
  <2>4. i = b * (i \div b) + (i % b) /\ i % b < b
    BY <2>3, PlaceOf
  <2>5. i < b * m
    <3>1. PICK d \in Nat : d = i \div b
      BY <2>3
    <3>2. d + 1 <= m
      BY <2>1, <2>2, <2>3, <3>1
    <3>3. b * (d + 1) <= b * m
      BY <2>3, <3>2
    <3>4. b * (d + 1) = b * d + b
      BY <2>3
    <3> QED
      BY <2>3, <2>4, <3>1, <3>3, <3>4
  <2>6. WORD \in Nat /\ WORD > 2 * b * m
    BY <2>2, <2>3, FileIOAssumption DEF FileIOAssumption, MAX_BLOCKS
  <2>7. 2 * b * m >= b * m
    BY <2>2, <2>3
  <2> QED
    BY <2>5, <2>6, <2>7, <2>2, <2>3
<1>6. PICK size \in Nat : /\ size = ReadSize(f, p, count) /\ p + size <= i
                          /\ size = Min({c, i - p})
  <2>1. PICK q \in Nat : q = i - p
    BY <1>4
  <2>2. (p + c) % w = p + c /\ (i - p) % w = q
    BY <1>3, <1>4, <1>5, <2>1
  <2>3. ReadSize(f, p, count) = IF p + c > i THEN q ELSE c
    BY <1>2, <1>3, <1>5, <2>2 DEF ReadSize
  <2>4. Min({c, q}) = IF c <= q THEN c ELSE q
    BY MinOfTwo
  <2>5. (IF p + c > i THEN q ELSE c) = (IF c <= q THEN c ELSE q)
    BY <1>4, <2>1
  <2>6. PICK r \in Nat : r = IF c <= q THEN c ELSE q
    BY <2>1
  <2>7. p + r <= i
    BY <1>4, <2>1, <2>6
  <2> QED
    BY <2>1, <2>3, <2>4, <2>5, <2>6, <2>7
<1>7. PICK s \in Nat : s = p \div BLOCK_SIZE
  BY <1>4, Constants, PlaceOf
<1>8. PICK off \in 0..(BLOCK_SIZE - 1) : off = p % BLOCK_SIZE /\ off = ReadOff(f, p, count)
  BY <1>4, Constants, PlaceOf DEF ReadOff
<1>9. End(f, p, count) = s /\ (p + size) \div BLOCK_SIZE = s
  <2>1. (p + size) % w = p + size
    BY <1>4, <1>5, <1>6
  <2> QED
    BY <1>5, <1>6, <1>7, <2>1 DEF Start, End
<1>10. off + size < BLOCK_SIZE
  <2>1. PICK b \in Nat : b = BLOCK_SIZE /\ b > 0
    BY Constants
  <2>2. p = b * s + off
    BY <1>4, <1>7, <1>8, <2>1, PlaceOf
  <2>3. PICK e \in Nat : e = (p + size) % b /\ e < b
    BY <1>4, <2>1, PlaceOf
  <2>4. p + size = b * s + e
    <3>1. p + size \in Nat
      BY <1>4
    <3>2. p + size = b * ((p + size) \div b) + ((p + size) % b)
      BY <3>1, <2>1, PlaceOf
    <3> QED
      BY <3>2, <1>9, <2>1, <2>3
  <2>5. PICK x \in Nat : x = b * s
    BY <2>1
  <2> QED
    BY <2>1, <2>2, <2>3, <2>4, <2>5, <1>8
<1>11. s <= MAX_BLOCKS - 1 /\ s \in Nat
  <2>1. PICK h \in Nat : h = has(f) /\ h - 1 = i \div BLOCK_SIZE /\ h <= MAX_BLOCKS
    BY <1>1, <1>2, Sizes DEF Shaped
  <2>2. s <= i \div BLOCK_SIZE
    BY <1>4, <1>7, Constants, EarlierByte
  <2>3. i \div BLOCK_SIZE \in Nat
    BY Constants, PlaceOf
  <2> QED
    BY <2>1, <2>2, <2>3, Constants
<1>12. ReadBlocks(f, p, count, Start(p)) = BlockAt(f, s)
  <2>1. Start(p) = s
    BY <1>7 DEF Start
  <2> QED
    BY <2>1, <1>9, Constants DEF ReadBlocks
<1>13. Min({size, BLOCK_SIZE - off}) = size
  <2>1. PICK q \in Nat : q = BLOCK_SIZE - off /\ size <= q
    BY <1>8, <1>10, Constants
  <2>2. Min({size, q}) = IF size <= q THEN size ELSE q
    BY MinOfTwo
  <2> QED
    BY <2>1, <2>2
<1>14. PICK b : b = BlockAt(f, s)
  OBVIOUS
<1>15. ASSUME NEW k \in 1..size
       PROVE  b # 0 /\ data[b][off + k - 1] = Stamp(f, p + k - 1)
  <2>1. PICK y : y = p + (k - 1)
    OBVIOUS
  <2>2. y \in Nat /\ p <= y /\ y < p + size /\ y < i
    BY <2>1, <1>4, <1>6
  <2>3. BLOCK_SIZE \in Nat /\ BLOCK_SIZE > 0 /\ (p % BLOCK_SIZE) + size <= BLOCK_SIZE
    BY <1>8, <1>10, Constants
  <2>4. y \div BLOCK_SIZE = p \div BLOCK_SIZE /\ y % BLOCK_SIZE = (p % BLOCK_SIZE) + (y - p)
    BY <2>2, <2>3, <1>4, SameSector
  <2>5. y \div BLOCK_SIZE = s /\ y % BLOCK_SIZE = off + (k - 1)
    BY <2>1, <2>4, <1>4, <1>7, <1>8
  <2>6. y \in 0..(inode[f].i_size - 1)
    BY <2>2, <1>2
  <2>7. b # 0 /\ data[b][y % BLOCK_SIZE] = Stamp(f, y)
    BY <2>5, <2>6, <1>1, <1>14 DEF BytesInPlace
  <2> QED
    BY <2>1, <2>5, <2>7
<1>16. PICK r : r = file_read(f, p, count)
  OBVIOUS
<1>17. r = [k \in 1..size |-> IF b = 0 THEN Junk ELSE data[b][off + k - 1]]
  BY <1>6, <1>8, <1>12, <1>13, <1>14, <1>16 DEF file_read
<1>18. Len(r) = size /\ DOMAIN r = 1..size
  BY <1>17
<1>19. \A k \in DOMAIN r : r[k] = Stamp(f, p + k - 1)
  BY <1>15, <1>17, <1>18
<1> QED
  BY <1>2, <1>3, <1>6, <1>16, <1>18, <1>19

(* A read inside a sector delivers the bytes of the file from fd_pos on,   *)
(* wherever earlier calls have left fd_pos.                                *)
THEOREM FileReads == IOSpec => []ReadsTheFile
<1>1. FileInv => ReadsTheFile
  <2> SUFFICES ASSUME FileInv, NEW f \in File, NEW count \in Count,
                      pos[f] \in 0..(inode[f].i_size - 1), pos[f] + count < WORD,
                      Start(pos[f]) = End(f, pos[f], count)
               PROVE  LET r == file_read(f, pos[f], count)
                      IN  /\ Len(r) = Min({count, inode[f].i_size - pos[f]})
                          /\ \A k \in DOMAIN r : r[k] = Stamp(f, pos[f] + k - 1)
    BY DEF ReadsTheFile
  <2>1. PICK p : p = pos[f]
    OBVIOUS
  <2>2. p \in 0..(inode[f].i_size - 1) /\ p + count < WORD /\ Start(p) = End(f, p, count)
    BY <2>1
  <2>3. LET r == file_read(f, p, count)
        IN  /\ Len(r) = Min({count, inode[f].i_size - p})
            /\ \A k \in DOMAIN r : r[k] = Stamp(f, p + k - 1)
    BY <2>2, ReadOneSector
  <2> QED
    BY <2>1, <2>3
<1> QED
  BY <1>1, FileInvariant, PTL
=============================================================================
