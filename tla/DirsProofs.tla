----------------------------- MODULE DirsProofs -----------------------------
(***************************************************************************)
(* What the directories of module Dirs keep, whatever is typed and opened: *)
(* the tree of names, the blocks, the listings and the agreement of disk   *)
(* and memory.  All of it holds until a call damages the file system in    *)
(* one of the three ways of Damage, for every size of the partition.       *)
(*                                                                         *)
(* A state is seen through At, the entry at each place of each inode, and  *)
(* Addr, its blocks.  First what each step on the disk does to that view   *)
(* (an entry put in, one taken out, an inode made or released), then that  *)
(* the tree survives it, then search_file and the paths, then the calls,   *)
(* and last the properties.                                                *)
(***************************************************************************)
EXTENDS Dirs, FiniteSetTheorems, SequenceTheorems, TLAPS

(* The view of an inode that the tree is about.  Its addresses: the direct *)
(* sectors, the one sector behind the table, the table.  Its entries by    *)
(* place, Free where there is no sector.                                   *)
Inode(s, i)   == s.inode_table[i]
Table         == DIRECT + 1
Addr(s, i, k) ==
  IF k < DIRECT THEN Inode(s, i).i_sectors[k]
  ELSE IF k = Table \/ Inode(s, i).i_sectors[DIRECT] = 0 THEN Inode(s, i).i_sectors[DIRECT]
  ELSE s.tab[Inode(s, i).i_sectors[DIRECT]][0]
Place         == (0..DIRECT) \X (1..PER_SEC)
At(s, i, p)   == IF Addr(s, i, p[1]) = 0 THEN Free ELSE s.blk[Addr(s, i, p[1])][p[2]]
IsDir(s, i)   == Addr(s, i, 0) # 0
Kind(s, i)    == IF IsDir(s, i) THEN "directory" ELSE "regular"
Filled(s, d)  == {p \in Place : At(s, d, p) # Free}
Linked(s, d)  == {p \in Filled(s, d) : At(s, d, p).filename \notin {".", ".."}}

(* The file system is what the code takes it for.                          *)
Address == 0..(NB + 1)
InodeOK(x) ==
  /\ x = [i_size |-> x.i_size, i_sectors |-> x.i_sectors]
  /\ x.i_size \in Int /\ x.i_sectors \in [0..DIRECT -> Address]
FsRec(s) == s = [inode_bitmap |-> s.inode_bitmap, block_bitmap |-> s.block_bitmap,
                 disk_ibits |-> s.disk_ibits, disk_bbits |-> s.disk_bbits,
                 inode_table |-> s.inode_table, blk |-> s.blk, tab |-> s.tab,
                 open |-> s.open, file_table |-> s.file_table, mem |-> s.mem]
IsFs(s) ==
  /\ FsRec(s)
  /\ s.inode_bitmap \subseteq Ino /\ s.block_bitmap \subseteq Block /\ s.file_table \subseteq Ino
  /\ s.inode_table = [i \in Ino |-> s.inode_table[i]] /\ s.mem = [i \in Ino |-> s.mem[i]]
  /\ s.open \in [Ino -> Nat]
  /\ s.tab \in [Block -> [0..(INDIRECT - 1) -> Address]]
  /\ s.blk = [b \in Block |-> s.blk[b]]
  /\ \A b \in Block : s.blk[b] = [j \in 1..PER_SEC |-> s.blk[b][j]]
  /\ \A i \in Ino : InodeOK(s.inode_table[i])
(* The first sector of the block bitmap is on the disk, and the number of  *)
(* every inode is one that inode_sync keeps all of.                        *)
Stored(s) ==
  /\ \A b \in Block : b <= SEC_BITS => (b \in s.disk_bbits <=> b \in s.block_bitmap)
  /\ \A i \in s.inode_bitmap : i < WRAP
(* Every open inode in memory is the one on the disk.                      *)
MemOK(s) == \A i \in Ino : s.open[i] > 0 => s.mem[i] = s.inode_table[i]

(* Every block belongs to one inode, and the bitmap says so.               *)
Blocks(s) ==
  /\ \A i, j \in Ino, k, l \in 0..Table :
       Addr(s, i, k) = Addr(s, j, l) /\ Addr(s, i, k) # 0 => i = j /\ k = l
  /\ \A b \in Block : b \in s.block_bitmap <=> \E i \in Ino, k \in 0..Table : Addr(s, i, k) = b
(* A table has one address, that of a sector with an entry.                *)
Tables(s) == \A i \in Ino : Addr(s, i, Table) # 0 =>
  /\ Addr(s, i, DIRECT) # 0 /\ \E j \in 1..PER_SEC : At(s, i, <<DIRECT, j>>) # Free
  /\ \A k \in 1..(INDIRECT - 1) : s.tab[Addr(s, i, Table)][k] = 0

Kinds(s) ==
  /\ 0 \in s.inode_bitmap /\ IsDir(s, 0)
  /\ \A i \in Ino : ~IsDir(s, i) => Inode(s, i) = NoInode
  /\ \A i \in Ino : IsDir(s, i) => i \in s.inode_bitmap

Above(s, d, c) ==
  IsDir(s, c) /\ At(s, d, <<0, 2>>) = Ent("..", c, "directory") /\ (d = 0 => c = 0)
Dots(s) == \A d \in Ino : IsDir(s, d) =>
  At(s, d, <<0, 1>>) = Ent(".", d, "directory") /\ \E c \in Ino : Above(s, d, c)

Entries(s) == \A d \in Ino : \A p \in Place :
  \/ At(s, d, p) = Free
  \/ IsDir(s, d) /\ p \in {<<0, 1>>, <<0, 2>>}
  \/ \E i \in s.inode_bitmap \ {0} : \E name :
       name \notin {"", ".", ".."} /\ At(s, d, p) = Ent(name, i, Kind(s, i))

Tree(s) ==
  /\ \A i \in s.inode_bitmap \ {0} : \E d \in Ino : \E p \in Linked(s, d) : At(s, d, p).i_no = i
  /\ \A c, d \in Ino : \A p \in Linked(s, c), q \in Linked(s, d) :
       At(s, c, p).i_no = At(s, d, q).i_no => c = d /\ p = q
  /\ \A d \in Ino : \A p, q \in Filled(s, d) : At(s, d, p).filename = At(s, d, q).filename => p = q
  /\ \A d \in Ino : \A p \in Linked(s, d) :
       IsDir(s, At(s, d, p).i_no) => At(s, At(s, d, p).i_no, <<0, 2>>).i_no = d

Sizes(s) == \A d \in Ino : Inode(s, d).i_size = Cardinality(Filled(s, d))

ClosedIn(s, C) ==
  0 \in C /\ \A d \in C : \A p \in Linked(s, d) : At(s, d, p).f_type = "directory" => At(s, d, p).i_no \in C
Reached(s) == \A C \in SUBSET Ino : ClosedIn(s, C) => \A d \in Ino : IsDir(s, d) => d \in C

(* Open are the root, the files that a program has open, and directories   *)
(* that sys_open has left so.                                              *)
Opens(s) ==
  /\ s.open[0] > 0
  /\ \A i \in Ino : s.open[i] > 0 => i \in s.file_table \/ IsDir(s, i)
  /\ \A i \in s.file_table : i \in s.inode_bitmap /\ ~IsDir(s, i) /\ s.open[i] = 1
  /\ Stored(s)

TreeInv(s) == Kinds(s) /\ Dots(s) /\ Entries(s) /\ Tree(s) /\ Sizes(s) /\ Reached(s)
DirsInv(s) == IsFs(s) /\ MemOK(s) /\ Blocks(s) /\ Tables(s) /\ TreeInv(s) /\ Opens(s)
-----------------------------------------------------------------------------
(* bitmap_scan and the search for room take the first index: Min of a      *)
(* nonempty set of numbers.                                                *)
LEMMA LeastNat ==
  ASSUME NEW S \in SUBSET Nat, S # {}
  PROVE  Min(S) \in S /\ \A y \in S : Min(S) <= y
<1> DEFINE B(x) == 0 .. (x - 1)
           T == {B(x) : x \in S}
           R == StrictSubsetOrdering(Nat)
<1>1. T # {} /\ T \subseteq FiniteSubsetsOf(Nat)
  <2>1. ASSUME NEW x \in S PROVE B(x) \subseteq Nat /\ IsFiniteSet(B(x))
    <3>1. x - 1 \in Int /\ 0 \in Int
      OBVIOUS
    <3> QED
      BY <3>1, FS_Interval
  <2> HIDE DEF B
  <2> QED
    BY <2>1 DEF FiniteSubsetsOf
<1>2. PICK m \in T : \A n \in T : ~(<<n, m>> \in R)
  <2> HIDE DEF T, R
  <2> QED
    BY <1>1, FS_StrictSubsetOrderingWellFounded, WFMin DEF R
<1>3. PICK x \in S : m = B(x)
  BY <1>2
<1>4. \A y \in S : x <= y
  <2> SUFFICES ASSUME NEW y \in S, y < x PROVE FALSE
    OBVIOUS
  <2>1. B(y) \subseteq B(x) /\ y \in B(x) /\ y \notin B(y) /\ B(x) \subseteq Nat
    OBVIOUS
  <2> HIDE DEF B
  <2>2. <<B(y), B(x)>> \in StrictSubsetOrdering(Nat)
    BY <2>1 DEF StrictSubsetOrdering
  <2> QED
    BY <1>2, <1>3, <2>2
<1> QED
  BY <1>4 DEF Min

(* What follows from the sizes of the partition and of an inode.           *)
LEMMA Bounds ==
  /\ NI \in Nat /\ Ino \subseteq Nat /\ 0 \in Ino /\ Ino = 0..(NI - 1)
  /\ NB \in Nat /\ Block \subseteq Nat /\ 0 \notin Block /\ Block \cup {0} = Address
  /\ DIRECT \in Nat /\ DIRECT > 0 /\ INDIRECT \in Nat /\ INDIRECT > 0
  /\ PER_SEC \in Nat /\ PER_SEC > 1 /\ 1 \in 1..PER_SEC /\ 2 \in 1..PER_SEC
  /\ Table = DIRECT + 1 /\ \A k \in 0..DIRECT : k \in 0..Table
  /\ 0 \in 0..DIRECT /\ DIRECT \in 0..DIRECT /\ Table \in 0..Table /\ Table \notin 0..DIRECT
  /\ 0 \in 0..(INDIRECT - 1) /\ 0 \in Address /\ Place = (0..DIRECT) \X (1..PER_SEC)
  /\ SEC_BITS \in Nat \ {0} /\ BYTE \in Nat \ {0} /\ WRAP \in Nat \ {0}
<1>1. /\ NI \in Nat \ {0} /\ NB \in Nat \ {0} /\ DIRECT \in Nat \ {0} /\ INDIRECT \in Nat \ {0}
      /\ PER_SEC \in Nat \ {0, 1}
      /\ SEC_BITS \in Nat \ {0} /\ BYTE \in Nat \ {0} /\ WRAP \in Nat \ {0}
  <2>1. {NI, NB, DIRECT, INDIRECT, SEC_BITS, BYTE, WRAP} \subseteq Nat \ {0} /\ PER_SEC \in Nat \ {0, 1}
    BY DirsAssumption, Zenon DEF DirsAssumption
  <2> QED
    BY ONLY <2>1
<1>2. NI \in Nat /\ NI > 0 /\ PER_SEC \in Nat /\ PER_SEC > 1
  BY <1>1
<1>3. NI \in Nat /\ Ino \subseteq Nat /\ 0 \in Ino /\ Ino = 0..(NI - 1)
  BY <1>2 DEF Ino
<1>4. NB \in Nat /\ Block \subseteq Nat /\ 0 \notin Block /\ Block \cup {0} = Address
  BY <1>1 DEF Block, Address
<1>5. DIRECT \in Nat /\ DIRECT > 0 /\ INDIRECT \in Nat /\ INDIRECT > 0
  BY <1>1
<1>6. /\ Table = DIRECT + 1 /\ \A k \in 0..DIRECT : k \in 0..Table
      /\ 0 \in 0..DIRECT /\ DIRECT \in 0..DIRECT /\ Table \in 0..Table /\ Table \notin 0..DIRECT
  BY <1>5 DEF Table
<1>7. 1 \in 1..PER_SEC /\ 2 \in 1..PER_SEC /\ 0 \in 0..(INDIRECT - 1) /\ 0 \in Address
  BY <1>2, <1>4, <1>5
<1> QED
  BY <1>1, <1>2, <1>3, <1>4, <1>5, <1>6, <1>7 DEF Place

(* The first index with room.                                              *)
LEMMA RoomOK ==
  ASSUME NEW s, NEW d \in Ino
  PROVE  /\ RoomAt(s, d) \in 0..DIRECT /\ HasRoom(s, d, RoomAt(s, d))
         /\ \A k \in 0..DIRECT : HasRoom(s, d, k) => RoomAt(s, d) <= k
<1> DEFINE S == {k \in 0..DIRECT : HasRoom(s, d, k)}
<1>1. S \in SUBSET Nat /\ DIRECT \in S
  BY Bounds DEF HasRoom
<1>2. RoomAt(s, d) = Min(S)
  BY DEF RoomAt
<1> HIDE DEF S
<1>3. Min(S) \in S /\ \A y \in S : Min(S) <= y
  BY <1>1, LeastNat
<1> USE DEF S
<1> QED
  BY <1>2, <1>3

LEMMA FreeFinite ==
  ASSUME NEW s
  PROVE  IsFiniteSet(FreeBlocks(s)) /\ FreeBlocks(s) \in SUBSET Nat /\ FreeBlocks(s) \subseteq Block
<1>1. IsFiniteSet(Block)
  BY Bounds, FS_Interval DEF Block
<1> QED
  BY <1>1, Bounds, FS_Subset DEF FreeBlocks

(* The first free block, and the first but one.                            *)
LEMMA OneFree ==
  ASSUME NEW s, Cardinality(FreeBlocks(s)) >= 1
  PROVE  Min(FreeBlocks(s)) \in FreeBlocks(s)
<1>1. FreeBlocks(s) # {}
  BY FS_EmptySet
<1> QED
  BY <1>1, FreeFinite, LeastNat

(* The two blocks that sync_dir_entry takes for a table are different      *)
(* ones.                                                                   *)
LEMMA TwoFree ==
  ASSUME NEW s, Cardinality(FreeBlocks(s)) >= 2
  PROVE  /\ Min(FreeBlocks(s)) \in FreeBlocks(s)
         /\ Min(FreeBlocks(s) \ {Min(FreeBlocks(s))}) \in FreeBlocks(s) \ {Min(FreeBlocks(s))}
<1>1. Cardinality(FreeBlocks(s)) \in Nat
  BY FreeFinite, FS_CardinalityType
<1>2. PICK t : t = Min(FreeBlocks(s))
  OBVIOUS
<1>3. t \in FreeBlocks(s)
  BY <1>1, <1>2, OneFree
<1>4. PICK F : F = FreeBlocks(s) \ {t}
  OBVIOUS
<1>5. Cardinality(F) = Cardinality(FreeBlocks(s)) - 1
  BY <1>3, <1>4, FreeFinite, FS_RemoveElement
<1>6. F # {}
  <2>1. Cardinality(F) # 0
    BY <1>1, <1>5
  <2> QED
    BY <2>1, FS_EmptySet
<1>7. F \in SUBSET Nat
  BY <1>4, FreeFinite
<1>8. Min(F) \in F
  BY <1>6, <1>7, LeastNat
<1> QED
  BY <1>2, <1>3, <1>4, <1>8

(* The sector of a bit in a bitmap.                                        *)
LEMMA FirstSector ==
  ASSUME NEW b \in Block
  PROVE  off_sec(b - 1) = 0 <=> b <= SEC_BITS
<1>1. PICK n \in Nat : n = b - 1
  BY DEF Block
<1>2. SEC_BITS \in Nat \ {0} /\ b \in Nat
  BY Bounds
<1>3. n < SEC_BITS => n \div SEC_BITS = 0
  BY ONLY n \in Nat, <1>2
<1>4. n \div SEC_BITS = 0 => n < SEC_BITS
  BY ONLY n \in Nat, <1>2
<1> QED
  BY <1>1, <1>2, <1>3, <1>4 DEF off_sec

(* In the first sector, bitmap_sync starts at the byte where it should.    *)
LEMMA FirstWritten ==
  ASSUME NEW b \in Block, b <= SEC_BITS, NEW B
  PROVE  Written(B, b - 1) <=> b \in B
<1>1. off_sec(b - 1) = 0
  BY FirstSector
<1>2. b - 1 - 0 * (SEC_BITS - BYTE) = b - 1 /\ (b - 1) + 1 = b
  BY Bounds
<1> QED
  BY <1>1, <1>2 DEF Written, MemBit

(* A bitmap_sync after a change of the bit of b alone.                     *)
LEMMA SyncStores ==
  ASSUME NEW s, NEW r, NEW b \in Block, Stored(s), r.inode_bitmap = s.inode_bitmap,
         \A c \in Block \ {b} : c \in r.block_bitmap <=> c \in s.block_bitmap,
         r.disk_bbits = {c \in Block : IF off_sec(c - 1) = off_sec(b - 1)
                                       THEN Written(r.block_bitmap, c - 1) ELSE c \in s.disk_bbits}
  PROVE  Stored(r)
<1>1. SUFFICES ASSUME NEW c \in Block, c <= SEC_BITS
               PROVE  c \in r.disk_bbits <=> c \in r.block_bitmap
  BY DEF Stored
<1>2. off_sec(c - 1) = 0
  BY <1>1, FirstSector
<1>3. CASE off_sec(b - 1) = 0
  BY <1>1, <1>2, <1>3, FirstWritten
<1>4. CASE off_sec(b - 1) # 0
  <2>1. c # b
    BY <1>1, <1>4, FirstSector
  <2> QED
    BY <1>1, <1>2, <1>4, <2>1 DEF Stored
<1> QED
  BY <1>3, <1>4

(* TakeBlock gives the block t away that Min names in the same state.      *)
TakenFrom(s, r, t) ==
  /\ r = [s EXCEPT !.block_bitmap = s.block_bitmap \cup {t}, !.disk_bbits = r.disk_bbits]
  /\ Stored(s) => Stored(r)
LEMMA TakeIs ==
  ASSUME NEW s, NEW b \in Block, FsRec(s), b = Min(FreeBlocks(s))
  PROVE  TakenFrom(s, TakeBlock(s), b)
<1>1. PICK B : B = s.block_bitmap \cup {b}
  OBVIOUS
<1>2. PICK D : D = {c \in Block : IF off_sec(c - 1) = off_sec(b - 1)
                                  THEN Written(B, c - 1) ELSE c \in s.disk_bbits}
  OBVIOUS
<1>3. PICK o : o = [s EXCEPT !.block_bitmap = B]
  OBVIOUS
<1>4. o.block_bitmap = B /\ o.disk_bbits = s.disk_bbits
  BY <1>3 DEF FsRec
<1>5. PICK r : r = TakeBlock(s)
  OBVIOUS
<1>6. r = SyncBlockBits([s EXCEPT !.block_bitmap = @ \cup {b}], b)
  BY <1>5, Zenon DEF TakeBlock
<1>7. r = SyncBlockBits(o, b)
  BY <1>1, <1>3, <1>6
<1>8. r = [o EXCEPT !.disk_bbits = D]
  BY <1>2, <1>4, <1>7 DEF SyncBlockBits
<1>9. r = [s EXCEPT !.block_bitmap = B, !.disk_bbits = D]
  BY <1>3, <1>8 DEF FsRec
<1>10. r.block_bitmap = B /\ r.disk_bbits = D /\ r.inode_bitmap = s.inode_bitmap
  BY <1>9 DEF FsRec
<1>11. Stored(s) => Stored(r)
  BY <1>1, <1>2, <1>10, SyncStores
<1>12. r = [s EXCEPT !.block_bitmap = s.block_bitmap \cup {b}, !.disk_bbits = r.disk_bbits]
  BY ONLY <1>1, <1>9, <1>10
<1> QED
  BY <1>5, <1>11, <1>12 DEF TakenFrom

(* bitmap_sync of the inode bitmap changes that bitmap on the disk only.   *)
LEMMA BitsAre ==
  ASSUME NEW s, FsRec(s), NEW i, NEW r, r = SyncInodeBits(s, i)
  PROVE  r = [s EXCEPT !.disk_ibits = r.disk_ibits]
<1>1. PICK D : D = {j \in Ino : IF off_sec(j) = off_sec(i)
                                THEN Written(s.block_bitmap, j) ELSE j \in s.disk_ibits}
  OBVIOUS
<1>2. r = [s EXCEPT !.disk_ibits = D]
  BY <1>1 DEF SyncInodeBits
<1>3. r.disk_ibits = D
  BY <1>2 DEF FsRec
<1> QED
  BY ONLY <1>2, <1>3

(* inode_sync, of an inode whose number it keeps all of.                   *)
LEMMA SyncAt ==
  ASSUME NEW s, NEW i \in Ino, NEW x, i < WRAP
  PROVE  inode_sync(s, i, x) = [s EXCEPT !.inode_table[i] = x]
<1>1. i % WRAP = i
  <2>1. i \in Nat /\ WRAP \in Nat \ {0}
    BY Bounds
  <2> QED
    BY ONLY <2>1, i < WRAP
<1> QED
  BY <1>1 DEF inode_sync
-----------------------------------------------------------------------------
(* Blocks and their addresses.                                             *)
LEMMA AddrType ==
  ASSUME NEW s, IsFs(s), NEW i \in Ino, NEW k \in 0..Table
  PROVE  Addr(s, i, k) \in Address /\ (Addr(s, i, k) # 0 => Addr(s, i, k) \in Block)
<1>1. InodeOK(Inode(s, i)) /\ s.tab \in [Block -> [0..(INDIRECT - 1) -> Address]]
  BY DEF IsFs, Inode
<1>2. \A n \in 0..DIRECT : Inode(s, i).i_sectors[n] \in Address
  BY <1>1 DEF InodeOK
<1>3. \A b \in Address : b # 0 => b \in Block
  BY Bounds
<1>4. k < DIRECT => k \in 0..DIRECT
  BY Bounds
<1>5. \A b \in Block : s.tab[b][0] \in Address
  <2>1. 0 \in 0..(INDIRECT - 1)
    BY Bounds
  <2> QED
    BY <1>1, <2>1
<1>6. Inode(s, i).i_sectors[DIRECT] \in Address
  BY <1>2, Bounds
<1>7. Addr(s, i, k) \in Address
  BY <1>2, <1>3, <1>4, <1>5, <1>6 DEF Addr
<1> QED
  BY <1>3, <1>7

(* The addresses of an inode hang on the inode and on its table.           *)
LEMMA AddrSame ==
  ASSUME NEW s, NEW r, NEW i \in Ino, Inode(r, i) = Inode(s, i),
         Inode(s, i).i_sectors[DIRECT] # 0 =>
           r.tab[Inode(s, i).i_sectors[DIRECT]] = s.tab[Inode(s, i).i_sectors[DIRECT]]
  PROVE  \A k \in 0..Table : Addr(r, i, k) = Addr(s, i, k)
BY DEF Addr

(* The addresses of an inode, case by case.                                *)
LEMMA AddrIs ==
  ASSUME NEW s, NEW i \in Ino
  PROVE  /\ \A k \in 0..DIRECT : k # DIRECT => Addr(s, i, k) = Inode(s, i).i_sectors[k]
         /\ Addr(s, i, Table) = Inode(s, i).i_sectors[DIRECT]
         /\ Addr(s, i, DIRECT) = IF Addr(s, i, Table) = 0 THEN 0 ELSE s.tab[Addr(s, i, Table)][0]
<1>1. \A k \in 0..DIRECT : k # DIRECT => k < DIRECT
  BY Bounds
<1>2. ~(Table < DIRECT) /\ ~(DIRECT < DIRECT) /\ DIRECT # Table
  BY Bounds
<1> QED
  BY <1>1, <1>2 DEF Addr

(* A cleared inode has no block and no entry.                              *)
LEMMA NoInodeAddr ==
  ASSUME NEW s, NEW i \in Ino, Inode(s, i) = NoInode
  PROVE  /\ \A k \in 0..Table : Addr(s, i, k) = 0
         /\ \A p \in Place : At(s, i, p) = Free
<1>1. \A k \in 0..DIRECT : Inode(s, i).i_sectors[k] = 0
  BY DEF NoInode, NoSectors
<1>2. \A k \in 0..Table : Addr(s, i, k) = 0
  <2>1. \A k \in 0..Table : k \in 0..DIRECT \/ k = Table
    BY Bounds
  <2> QED
    BY <1>1, <2>1, AddrIs, Bounds
<1>3. \A p \in Place : p[1] \in 0..Table
  BY Bounds DEF Place
<1> QED
  BY <1>2, <1>3 DEF At

(* An inode gets fresh blocks for addresses that it did not have.          *)
LEMMA BlocksGrow ==
  ASSUME NEW s, NEW r, NEW d \in Ino, NEW K \in SUBSET (0..Table), NEW G \in [K -> FreeBlocks(s)],
         IsFs(s), Blocks(s),
         \A k, l \in K : G[k] = G[l] => k = l,
         \A k \in K : Addr(s, d, k) = 0,
         \A i \in Ino, k \in 0..Table : Addr(r, i, k) = IF i = d /\ k \in K THEN G[k] ELSE Addr(s, i, k),
         r.block_bitmap = s.block_bitmap \cup {G[k] : k \in K}
  PROVE  Blocks(r)
<1>1. \A i \in Ino, k \in 0..Table : Addr(s, i, k) # 0 => Addr(s, i, k) \in s.block_bitmap
  <2> SUFFICES ASSUME NEW i \in Ino, NEW k \in 0..Table, Addr(s, i, k) # 0
               PROVE  Addr(s, i, k) \in s.block_bitmap
    OBVIOUS
  <2>1. Addr(s, i, k) \in Block
    BY AddrType
  <2> QED
    BY <2>1 DEF Blocks
<1>2. \A k \in K : G[k] \in Block /\ G[k] \notin s.block_bitmap
  BY DEF FreeBlocks
<1>3. \A i \in Ino, k \in 0..Table, l \in K : Addr(s, i, k) # G[l]
  BY <1>1, <1>2, Bounds
<1>4. ASSUME NEW i \in Ino, NEW j \in Ino, NEW k \in 0..Table, NEW l \in 0..Table,
             Addr(r, i, k) = Addr(r, j, l), Addr(r, i, k) # 0
      PROVE  i = j /\ k = l
  <2>1. Addr(s, i, k) = Addr(s, j, l) /\ Addr(s, i, k) # 0 => i = j /\ k = l
    BY DEF Blocks
  <2>2. CASE i = d /\ k \in K /\ j = d /\ l \in K
    BY <1>4, <2>2
  <2>3. CASE i = d /\ k \in K /\ ~(j = d /\ l \in K)
    BY <1>3, <1>4, <2>3
  <2>4. CASE ~(i = d /\ k \in K) /\ j = d /\ l \in K
    BY <1>3, <1>4, <2>4
  <2>5. CASE ~(i = d /\ k \in K) /\ ~(j = d /\ l \in K)
    BY <1>4, <2>1, <2>5
  <2> QED
    BY <2>2, <2>3, <2>4, <2>5
<1>5. ASSUME NEW b \in Block
      PROVE  b \in r.block_bitmap <=> \E i \in Ino, k \in 0..Table : Addr(r, i, k) = b
  <2>1. b \in s.block_bitmap <=> \E i \in Ino, k \in 0..Table : Addr(s, i, k) = b
    BY DEF Blocks
  <2>2. b # 0
    BY Bounds
  <2>3. ASSUME b \in s.block_bitmap PROVE \E i \in Ino, k \in 0..Table : Addr(r, i, k) = b
    <3>1. PICK i \in Ino, k \in 0..Table : Addr(s, i, k) = b
      BY <2>1, <2>3
    <3>2. ~(i = d /\ k \in K)
      BY <2>2, <3>1
    <3> QED
      BY <3>1, <3>2
  <2>4. ASSUME NEW k \in K, b = G[k] PROVE \E i \in Ino, l \in 0..Table : Addr(r, i, l) = b
    BY <2>4
  <2>5. ASSUME NEW i \in Ino, NEW k \in 0..Table, Addr(r, i, k) = b PROVE b \in r.block_bitmap
    <3>1. CASE i = d /\ k \in K
      BY <2>5, <3>1
    <3>2. CASE ~(i = d /\ k \in K)
      BY <2>1, <2>5, <3>2
    <3> QED
      BY <3>1, <3>2
  <2> QED
    BY <2>3, <2>4, <2>5
<1> QED
  BY <1>4, <1>5 DEF Blocks

(* An inode gives some of its blocks back.                                 *)
LEMMA BlocksShrink ==
  ASSUME NEW s, NEW r, NEW d \in Ino, NEW K \in SUBSET (0..Table), IsFs(s), Blocks(s),
         \A i \in Ino, k \in 0..Table : Addr(r, i, k) = IF i = d /\ k \in K THEN 0 ELSE Addr(s, i, k),
         r.block_bitmap = s.block_bitmap \ {Addr(s, d, k) : k \in K}
  PROVE  Blocks(r)
<1>1. ASSUME NEW i \in Ino, NEW j \in Ino, NEW k \in 0..Table, NEW l \in 0..Table,
             Addr(r, i, k) = Addr(r, j, l), Addr(r, i, k) # 0
      PROVE  i = j /\ k = l
  BY <1>1 DEF Blocks
<1>2. ASSUME NEW b \in Block
      PROVE  b \in r.block_bitmap <=> \E i \in Ino, k \in 0..Table : Addr(r, i, k) = b
  <2>1. b \in s.block_bitmap <=> \E i \in Ino, k \in 0..Table : Addr(s, i, k) = b
    BY DEF Blocks
  <2>2. b # 0
    BY Bounds
  <2>3. ASSUME b \in r.block_bitmap PROVE \E i \in Ino, k \in 0..Table : Addr(r, i, k) = b
    <3>1. PICK i \in Ino, k \in 0..Table : Addr(s, i, k) = b
      BY <2>1, <2>3
    <3>2. ~(i = d /\ k \in K)
      BY <2>3, <3>1
    <3> QED
      BY <3>1, <3>2
  <2>4. ASSUME NEW i \in Ino, NEW k \in 0..Table, Addr(r, i, k) = b PROVE b \in r.block_bitmap
    <3>1. ~(i = d /\ k \in K) /\ Addr(s, i, k) = b
      BY <2>2, <2>4
    <3>2. b \in s.block_bitmap
      BY <2>1, <3>1
    <3>3. ASSUME NEW l \in K, Addr(s, d, l) = b PROVE FALSE
      <4>1. Addr(s, d, l) = Addr(s, i, k) /\ Addr(s, d, l) # 0 => d = i /\ l = k
        BY DEF Blocks
      <4> QED
        BY <2>2, <3>1, <3>3, <4>1
    <3> QED
      BY <3>2, <3>3
  <2> QED
    BY <2>3, <2>4
<1> QED
  BY <1>1, <1>2 DEF Blocks

(* A block that an inode has is not a free one.                            *)
LEMMA Taken ==
  ASSUME NEW s, IsFs(s), Blocks(s), NEW i \in Ino, NEW k \in 0..Table, Addr(s, i, k) # 0
  PROVE  Addr(s, i, k) \in s.block_bitmap /\ Addr(s, i, k) \notin FreeBlocks(s)
<1>1. Addr(s, i, k) \in Block
  BY AddrType
<1> QED
  BY <1>1 DEF Blocks, FreeBlocks

LEMMA PlaceIs ==
  /\ \A p \in Place : p = <<p[1], p[2]>> /\ p[1] \in 0..DIRECT /\ p[1] \in 0..Table /\ p[2] \in 1..PER_SEC
  /\ \A k \in 0..DIRECT, j \in 1..PER_SEC : <<k, j>> \in Place
BY Bounds DEF Place

(* A new directory: DotSector in a fresh block.                            *)
LEMMA NewDirKeeps ==
  ASSUME NEW s, NEW m, NEW i \in Ino, NEW d, NEW t \in FreeBlocks(s),
         IsFs(s), Blocks(s), Tables(s), Inode(s, i) = NoInode,
         m.inode_table = [s.inode_table EXCEPT ![i] = DirInode(t)],
         m.blk = [s.blk EXCEPT ![t] = DotSector(i, d)], m.tab = s.tab,
         m.block_bitmap = s.block_bitmap \cup {t}
  PROVE  /\ Blocks(m) /\ Tables(m) /\ IsDir(m, i) /\ Inode(m, i).i_size = 2
         /\ \A c \in Ino \ {i} : /\ Inode(m, c) = Inode(s, c) /\ IsDir(m, c) = IsDir(s, c)
                                 /\ \A k \in 0..Table : Addr(m, c, k) = Addr(s, c, k)
                                 /\ \A q \in Place : At(m, c, q) = At(s, c, q)
         /\ \A q \in Place : At(m, i, q) = IF q = <<0, 1>> THEN Ent(".", i, "directory")
                                           ELSE IF q = <<0, 2>> THEN Ent("..", d, "directory") ELSE Free
<1>1. t \in Block /\ t # 0
  BY Bounds DEF FreeBlocks
<1>2. Inode(m, i) = DirInode(t) /\ \A c \in Ino \ {i} : Inode(m, c) = Inode(s, c)
  BY DEF IsFs, Inode
<1>3. Inode(m, i).i_size = 2 /\ Inode(m, i).i_sectors = [NoSectors EXCEPT ![0] = t]
  BY <1>2 DEF DirInode
<1>4. Inode(m, i).i_sectors[0] = t /\ \A k \in 0..DIRECT : k # 0 => Inode(m, i).i_sectors[k] = 0
  BY <1>3, Bounds DEF NoSectors
<1>5. \A c \in Ino \ {i}, k \in 0..Table : Addr(m, c, k) = Addr(s, c, k)
  BY <1>2, AddrSame
<1>6. \A k \in 0..Table : Addr(m, i, k) = IF k = 0 THEN t ELSE 0
  <2>1. DIRECT # 0
    BY Bounds
  <2>2. Addr(m, i, Table) = 0
    BY <1>4, <2>1, AddrIs, Bounds
  <2>3. Addr(m, i, DIRECT) = 0
    BY <2>2, AddrIs
  <2>4. \A k \in 0..Table : k = Table \/ k \in 0..DIRECT
    BY Bounds
  <2>5. \A k \in 0..DIRECT : k # DIRECT => Addr(m, i, k) = Inode(m, i).i_sectors[k]
    BY AddrIs
  <2>6. Table # 0 /\ 0 # DIRECT
    BY Bounds
  <2> QED
    BY <1>4, <2>2, <2>3, <2>4, <2>5, <2>6
<1>7. \A k \in 0..Table : Addr(s, i, k) = 0
  BY NoInodeAddr
<1>8. Blocks(m)
  <2>1. PICK K : K = {0}
    OBVIOUS
  <2>2. PICK G : G = [k \in K |-> t]
    OBVIOUS
  <2>3. K \in SUBSET (0..Table) /\ G \in [K -> FreeBlocks(s)]
    BY <2>1, <2>2, Bounds
  <2>4. \A k, l \in K : G[k] = G[l] => k = l
    BY <2>1
  <2>5. \A k \in K : Addr(s, i, k) = 0
    BY <1>7, <2>3
  <2>6. \A c \in Ino, k \in 0..Table : Addr(m, c, k) = IF c = i /\ k \in K THEN G[k] ELSE Addr(s, c, k)
    BY <1>5, <1>6, <1>7, <2>1, <2>2
  <2>7. m.block_bitmap = s.block_bitmap \cup {G[k] : k \in K}
    BY <2>1, <2>2
  <2> QED
    BY <2>3, <2>4, <2>5, <2>6, <2>7, BlocksGrow
<1>9. \A b \in Block : b # t => m.blk[b] = s.blk[b]
  BY DEF IsFs
<1>10. m.blk[t] = DotSector(i, d)
  BY <1>1 DEF IsFs
<1>11. \A c \in Ino \ {i}, q \in Place : At(m, c, q) = At(s, c, q)
  <2> SUFFICES ASSUME NEW c \in Ino \ {i}, NEW q \in Place PROVE At(m, c, q) = At(s, c, q)
    OBVIOUS
  <2>1. q[1] \in 0..Table
    BY PlaceIs
  <2>2. Addr(s, c, q[1]) # 0 => Addr(s, c, q[1]) \in Block /\ Addr(s, c, q[1]) # t
    BY <2>1, Taken, AddrType
  <2>3. Addr(m, c, q[1]) = Addr(s, c, q[1])
    BY <1>5, <2>1
  <2>4. Addr(s, c, q[1]) # 0 => m.blk[Addr(s, c, q[1])] = s.blk[Addr(s, c, q[1])]
    BY <1>9, <2>2
  <2> QED
    BY <2>3, <2>4 DEF At
<1>12. \A q \in Place : At(m, i, q) = IF q = <<0, 1>> THEN Ent(".", i, "directory")
                                      ELSE IF q = <<0, 2>> THEN Ent("..", d, "directory") ELSE Free
  <2> SUFFICES ASSUME NEW q \in Place
               PROVE  At(m, i, q) = IF q = <<0, 1>> THEN Ent(".", i, "directory")
                                    ELSE IF q = <<0, 2>> THEN Ent("..", d, "directory") ELSE Free
    OBVIOUS
  <2>1. q = <<q[1], q[2]>> /\ q[1] \in 0..Table /\ q[2] \in 1..PER_SEC
    BY PlaceIs
  <2>2. DotSector(i, d)[q[2]] = IF q[2] = 1 THEN Ent(".", i, "directory")
                                ELSE IF q[2] = 2 THEN Ent("..", d, "directory") ELSE Free
    BY <2>1, Bounds DEF DotSector, EmptySector
  <2>3. CASE q[1] = 0
    <3>1. At(m, i, q) = DotSector(i, d)[q[2]]
      BY <1>1, <1>6, <1>10, <2>1, <2>3 DEF At
    <3>2. (q = <<0, 1>> <=> q[2] = 1) /\ (q = <<0, 2>> <=> q[2] = 2)
      BY <2>1, <2>3
    <3> QED
      BY <2>2, <3>1, <3>2
  <2>4. CASE q[1] # 0
    <3>1. At(m, i, q) = Free
      BY <1>6, <2>1, <2>4 DEF At
    <3>2. q # <<0, 1>> /\ q # <<0, 2>>
      BY <2>1, <2>4
    <3> QED
      BY <3>1, <3>2
  <2> QED
    BY <2>3, <2>4
<1>13. Tables(m)
  <2> SUFFICES ASSUME NEW c \in Ino, Addr(m, c, Table) # 0
               PROVE  /\ Addr(m, c, DIRECT) # 0 /\ \E j \in 1..PER_SEC : At(m, c, <<DIRECT, j>>) # Free
                      /\ \A k \in 1..(INDIRECT - 1) : m.tab[Addr(m, c, Table)][k] = 0
    BY DEF Tables
  <2>1. Table # 0 /\ Table \in 0..Table /\ DIRECT \in 0..Table
    BY Bounds
  <2>2. c \in Ino \ {i}
    BY <1>6, <2>1
  <2>3. Addr(s, c, Table) # 0 /\ Addr(m, c, Table) = Addr(s, c, Table) /\ Addr(m, c, DIRECT) = Addr(s, c, DIRECT)
    BY <1>5, <2>1, <2>2
  <2>4. \A j \in 1..PER_SEC : At(m, c, <<DIRECT, j>>) = At(s, c, <<DIRECT, j>>)
    BY <1>11, <2>2, PlaceIs, Bounds
  <2> QED
    BY <2>2, <2>3, <2>4 DEF Tables
<1>14. IsDir(m, i) /\ \A c \in Ino \ {i} : IsDir(m, c) = IsDir(s, c)
  BY <1>1, <1>5, <1>6, Bounds DEF IsDir
<1> QED
  BY <1>2, <1>3, <1>5, <1>8, <1>11, <1>12, <1>13, <1>14
-----------------------------------------------------------------------------
(* The inode d is changed to y, on the disk.                               *)
NewInode(s, r, d, y) == r.inode_table = [s.inode_table EXCEPT ![d] = y]

(* What sync_dir_entry does to m, which it makes r: the entry goes to a    *)
(* free place of a direct sector, or to a new direct sector, or to a new   *)
(* sector behind a new table.                                              *)
Alone(e) == [EmptySector EXCEPT ![1] = e]
Direct   == 0..(DIRECT - 1)
Full(m, x) ==
  \A k \in Direct : x.i_sectors[k] # 0 /\ \A j \in 1..PER_SEC : m.blk[x.i_sectors[k]][j] # Free

NewEntry(m, r, b, j, e) == r.blk = [m.blk EXCEPT ![b][j] = e]
NewSector(m, r, t, e)   == r.blk = [m.blk EXCEPT ![t] = Alone(e)]
NewAddr(x, y, k, t)     == y.i_sectors = [x.i_sectors EXCEPT ![k] = t]

PutFree(m, r, x, y, e) ==
  \E k \in Direct, j \in 1..PER_SEC :
    /\ x.i_sectors[k] # 0 /\ m.blk[x.i_sectors[k]][j] = Free
    /\ y.i_sectors = x.i_sectors /\ NewEntry(m, r, x.i_sectors[k], j, e)
    /\ r.tab = m.tab /\ r.block_bitmap = m.block_bitmap
PutSector(m, r, x, y, e) ==
  \E k \in Direct, t \in FreeBlocks(m) :
    /\ x.i_sectors[k] = 0 /\ NewAddr(x, y, k, t) /\ NewSector(m, r, t, e)
    /\ r.tab = m.tab /\ r.block_bitmap = m.block_bitmap \cup {t}
PutTable(m, r, x, y, e) ==
  \E t, u \in FreeBlocks(m) :
    /\ t # u /\ Full(m, x) /\ NewAddr(x, y, DIRECT, t) /\ NewSector(m, r, u, e)
    /\ r.tab = [m.tab EXCEPT ![t] = [EmptyTable EXCEPT ![0] = u]]
    /\ r.block_bitmap = m.block_bitmap \cup {t, u}
Put(m, r, x, y, e) ==
  /\ y.i_size = x.i_size + 1
  /\ PutFree(m, r, x, y, e) \/ PutSector(m, r, x, y, e) \/ PutTable(m, r, x, y, e)

LEMMA DirectIs ==
  /\ \A k \in Direct : k \in 0..DIRECT /\ k \in 0..Table /\ k # DIRECT /\ k # Table
  /\ \A k \in 0..DIRECT : k = DIRECT \/ k \in Direct
  /\ \A k \in 0..Table : k = DIRECT \/ k = Table \/ k \in Direct
  /\ DIRECT \in 0..Table /\ DIRECT # Table /\ 0 \in Direct
BY Bounds DEF Direct

(* An entry alone in a fresh sector.                                       *)
LEMMA PutFresh ==
  ASSUME NEW s, NEW r, NEW d \in Ino, NEW e, NEW t \in FreeBlocks(s), NEW k \in 0..DIRECT,
         IsFs(s), Blocks(s), Addr(s, d, k) = 0, Addr(r, d, k) = t,
         NewSector(s, r, t, e),
         \A c \in Ino, l \in 0..DIRECT : ~(c = d /\ l = k) => Addr(r, c, l) = Addr(s, c, l)
  PROVE  /\ At(s, d, <<k, 1>>) = Free /\ <<k, 1>> \in Place
         /\ \A c \in Ino, q \in Place : At(r, c, q) = IF c = d /\ q = <<k, 1>> THEN e ELSE At(s, c, q)
<1>1. At(s, d, <<k, 1>>) = Free /\ <<k, 1>> \in Place
  BY PlaceIs, Bounds DEF At
<1>2. t \in Block /\ t # 0
  BY Bounds DEF FreeBlocks
<1>3. r.blk[t] = Alone(e) /\ \A b \in Block : b # t => r.blk[b] = s.blk[b]
  BY <1>2 DEF IsFs, NewSector
<1>4. ASSUME NEW c \in Ino, NEW q \in Place
      PROVE  At(r, c, q) = IF c = d /\ q = <<k, 1>> THEN e ELSE At(s, c, q)
  <2>1. q = <<q[1], q[2]>> /\ q[1] \in 0..DIRECT /\ q[1] \in 0..Table /\ q[2] \in 1..PER_SEC
    BY PlaceIs
  <2>2. CASE c = d /\ q[1] = k
    <3>1. Alone(e)[q[2]] = IF q[2] = 1 THEN e ELSE Free
      BY <2>1, Bounds DEF Alone, EmptySector
    <3>2. At(r, c, q) = Alone(e)[q[2]] /\ At(s, c, q) = Free
      BY <1>2, <1>3, <2>2 DEF At
    <3>3. q = <<k, 1>> <=> q[2] = 1
      BY <2>1, <2>2
    <3> QED
      BY <2>2, <3>1, <3>2, <3>3
  <2>3. CASE ~(c = d /\ q[1] = k)
    <3>1. Addr(r, c, q[1]) = Addr(s, c, q[1])
      BY <2>1, <2>3
    <3>2. Addr(s, c, q[1]) # 0 => Addr(s, c, q[1]) \in Block /\ Addr(s, c, q[1]) # t
      BY <2>1, Taken, AddrType
    <3>3. At(r, c, q) = At(s, c, q)
      BY <1>3, <3>1, <3>2 DEF At
    <3>4. ~(c = d /\ q = <<k, 1>>)
      BY <2>1, <2>3
    <3> QED
      BY <3>3, <3>4
  <2> QED
    BY <2>2, <2>3
<1> QED
  BY <1>1, <1>4

(* What is common to the three ways: d has grown by an entry.              *)
Added(s, r, d, e) ==
  \E p \in Place : At(s, d, p) = Free /\
    \A c \in Ino, q \in Place : At(r, c, q) = IF c = d /\ q = p THEN e ELSE At(s, c, q)

(* An entry takes the place of another.                                    *)
LEMMA SetEntry ==
  ASSUME NEW s, NEW r, NEW d \in Ino, NEW e, NEW y, NEW k \in 0..DIRECT, NEW j \in 1..PER_SEC,
         IsFs(s), Blocks(s), NewInode(s, r, d, y),
         Addr(s, d, k) # 0, y.i_sectors = Inode(s, d).i_sectors,
         NewEntry(s, r, Addr(s, d, k), j, e), r.tab = s.tab, r.block_bitmap = s.block_bitmap
  PROVE  /\ Blocks(r) /\ \A c \in Ino, l \in 0..Table : Addr(r, c, l) = Addr(s, c, l)
         /\ \A c \in Ino, q \in Place : At(r, c, q) = IF c = d /\ q = <<k, j>> THEN e ELSE At(s, c, q)
<1>2. Inode(r, d) = y /\ \A c \in Ino \ {d} : Inode(r, c) = Inode(s, c)
  BY DEF IsFs, Inode, NewInode
<1>3. \A c \in Ino, l \in 0..Table : Addr(r, c, l) = Addr(s, c, l)
  <2>1. \A l \in 0..Table : Addr(r, d, l) = Addr(s, d, l)
    BY <1>2 DEF Addr
  <2>2. \A c \in Ino \ {d}, l \in 0..Table : Addr(r, c, l) = Addr(s, c, l)
    BY <1>2, AddrSame
  <2> QED
    BY <2>1, <2>2
<1>4. Blocks(r)
  BY <1>3 DEF Blocks
<1>5. PICK b : b = Addr(s, d, k)
  OBVIOUS
<1>6. b # 0 /\ b \in Block /\ k \in 0..Table
  BY <1>5, AddrType, Bounds
<1>7. s.blk[b] = [n \in 1..PER_SEC |-> s.blk[b][n]] /\ s.blk = [a \in Block |-> s.blk[a]]
  BY <1>6 DEF IsFs
<1>8. /\ \A a \in Block : a # b => r.blk[a] = s.blk[a]
      /\ \A n \in 1..PER_SEC : r.blk[b][n] = IF n = j THEN e ELSE s.blk[b][n]
  <2>1. r.blk = [s.blk EXCEPT ![b] = [s.blk[b] EXCEPT ![j] = e]]
    BY <1>5 DEF NewEntry
  <2>2. r.blk[b] = [s.blk[b] EXCEPT ![j] = e] /\ \A a \in Block : a # b => r.blk[a] = s.blk[a]
    BY <1>6, <1>7, <2>1
  <2>3. \A n \in 1..PER_SEC : [s.blk[b] EXCEPT ![j] = e][n] = IF n = j THEN e ELSE s.blk[b][n]
    BY <1>7
  <2> QED
    BY <2>2, <2>3
<1>10. ASSUME NEW c \in Ino, NEW q \in Place
       PROVE  At(r, c, q) = IF c = d /\ q = <<k, j>> THEN e ELSE At(s, c, q)
  <2>1. q = <<q[1], q[2]>> /\ q[1] \in 0..DIRECT /\ q[1] \in 0..Table /\ q[2] \in 1..PER_SEC
    BY PlaceIs
  <2>2. Addr(r, c, q[1]) = Addr(s, c, q[1])
    BY <1>3, <2>1
  <2>3. CASE c = d /\ q[1] = k
    <3>1. q = <<k, j>> <=> q[2] = j
      BY <2>1, <2>3
    <3>2. At(r, c, q) = r.blk[b][q[2]] /\ At(s, c, q) = s.blk[b][q[2]]
      BY <1>5, <1>6, <2>2, <2>3 DEF At
    <3> QED
      BY <1>8, <2>1, <2>3, <3>1, <3>2
  <2>4. CASE ~(c = d /\ q[1] = k)
    <3>1. q # <<k, j>> \/ c # d
      BY <2>1, <2>4
    <3>2. Addr(s, c, q[1]) # 0 => Addr(s, c, q[1]) # b
      <4>1. Addr(s, c, q[1]) = Addr(s, d, k) /\ Addr(s, c, q[1]) # 0 => c = d /\ q[1] = k
        BY <1>6, <2>1 DEF Blocks
      <4> QED
        BY <1>5, <2>4, <4>1
    <3>3. Addr(s, c, q[1]) # 0 => Addr(s, c, q[1]) \in Block
      BY <2>1, AddrType
    <3>4. At(r, c, q) = At(s, c, q)
      BY <1>8, <2>2, <3>2, <3>3 DEF At
    <3> QED
      BY <3>1, <3>4
  <2> QED
    BY <2>3, <2>4
<1> QED
  BY <1>3, <1>4, <1>10

(* An entry in a free place of a sector that is there.                     *)
LEMMA PutFreeKeeps ==
  ASSUME NEW s, NEW r, NEW d \in Ino, NEW e, NEW y, e # Free,
         IsFs(s), Blocks(s), Tables(s), NewInode(s, r, d, y),
         PutFree(s, r, Inode(s, d), y, e)
  PROVE  /\ Blocks(r) /\ Tables(r) /\ Added(s, r, d, e)
         /\ \A c \in Ino : c # d \/ IsDir(s, c) => IsDir(r, c) = IsDir(s, c)
<1>1. PICK k \in Direct, j \in 1..PER_SEC :
        /\ Inode(s, d).i_sectors[k] # 0 /\ s.blk[Inode(s, d).i_sectors[k]][j] = Free
        /\ y.i_sectors = Inode(s, d).i_sectors
        /\ NewEntry(s, r, Inode(s, d).i_sectors[k], j, e)
        /\ r.tab = s.tab /\ r.block_bitmap = s.block_bitmap
  BY DEF PutFree
<1>2. k \in 0..DIRECT /\ Addr(s, d, k) = Inode(s, d).i_sectors[k]
  BY AddrIs, DirectIs
<1>3. /\ Addr(s, d, k) # 0 /\ NewEntry(s, r, Addr(s, d, k), j, e)
      /\ <<k, j>> \in Place /\ At(s, d, <<k, j>>) = Free
  BY <1>1, <1>2, PlaceIs DEF At
<1>4. /\ Blocks(r) /\ \A c \in Ino, l \in 0..Table : Addr(r, c, l) = Addr(s, c, l)
      /\ \A c \in Ino, q \in Place : At(r, c, q) = IF c = d /\ q = <<k, j>> THEN e ELSE At(s, c, q)
  BY <1>1, <1>2, <1>3, SetEntry
<1>5. Added(s, r, d, e)
  BY <1>3, <1>4 DEF Added
<1>6. Tables(r)
  <2> SUFFICES ASSUME NEW c \in Ino, Addr(r, c, Table) # 0
               PROVE  /\ Addr(r, c, DIRECT) # 0 /\ \E n \in 1..PER_SEC : At(r, c, <<DIRECT, n>>) # Free
                      /\ \A n \in 1..(INDIRECT - 1) : r.tab[Addr(r, c, Table)][n] = 0
    BY DEF Tables
  <2>1. Addr(r, c, Table) = Addr(s, c, Table) /\ Addr(r, c, DIRECT) = Addr(s, c, DIRECT)
    BY <1>4, DirectIs, Bounds
  <2>2. \A n \in 1..PER_SEC : At(s, c, <<DIRECT, n>>) # Free => At(r, c, <<DIRECT, n>>) # Free
    BY <1>4, PlaceIs, Bounds
  <2>3. \E n \in 1..PER_SEC : At(s, c, <<DIRECT, n>>) # Free
    BY <2>1 DEF Tables
  <2> QED
    BY <1>1, <2>1, <2>2, <2>3 DEF Tables
<1>7. \A c \in Ino : IsDir(r, c) = IsDir(s, c)
  BY <1>4, Bounds DEF IsDir
<1> QED
  BY <1>4, <1>5, <1>6, <1>7

(* An entry alone in a fresh direct sector.                                *)
LEMMA PutSectorKeeps ==
  ASSUME NEW s, NEW r, NEW d \in Ino, NEW e, NEW y, e # Free,
         IsFs(s), Blocks(s), Tables(s), NewInode(s, r, d, y),
         PutSector(s, r, Inode(s, d), y, e)
  PROVE  /\ Blocks(r) /\ Tables(r) /\ Added(s, r, d, e)
         /\ \A c \in Ino : c # d \/ IsDir(s, c) => IsDir(r, c) = IsDir(s, c)
<1>1. PICK k \in Direct, t \in FreeBlocks(s) :
        /\ Inode(s, d).i_sectors[k] = 0 /\ NewAddr(Inode(s, d), y, k, t) /\ NewSector(s, r, t, e)
        /\ r.tab = s.tab /\ r.block_bitmap = s.block_bitmap \cup {t}
  BY DEF PutSector
<1>2. Inode(r, d) = y /\ \A c \in Ino \ {d} : Inode(r, c) = Inode(s, c)
  BY DEF IsFs, Inode, NewInode
<1>3. k \in 0..DIRECT /\ k \in 0..Table /\ k # DIRECT /\ k # Table
  BY DirectIs
<1>4. InodeOK(Inode(s, d))
  BY DEF IsFs, Inode
<1>5. \A l \in 0..DIRECT : y.i_sectors[l] = IF l = k THEN t ELSE Inode(s, d).i_sectors[l]
  BY <1>1, <1>3, <1>4 DEF InodeOK, NewAddr
<1>6. Addr(s, d, k) = 0 /\ Addr(r, d, k) = t
  <2>1. Addr(s, d, k) = Inode(s, d).i_sectors[k] /\ Addr(r, d, k) = Inode(r, d).i_sectors[k]
    BY <1>3, AddrIs
  <2> QED
    BY <1>1, <1>2, <1>3, <1>5, <2>1
<1>7. \A l \in 0..Table : l # k => Addr(r, d, l) = Addr(s, d, l)
  <2>1. Addr(r, d, Table) = Addr(s, d, Table)
    BY <1>2, <1>3, <1>5, AddrIs, Bounds
  <2>2. Addr(r, d, DIRECT) = Addr(s, d, DIRECT)
    BY <1>1, <2>1, AddrIs
  <2>3. \A l \in Direct : l # k => Addr(r, d, l) = Addr(s, d, l)
    BY <1>2, <1>5, AddrIs, DirectIs
  <2> QED
    BY <2>1, <2>2, <2>3, DirectIs
<1>8. \A c \in Ino \ {d}, l \in 0..Table : Addr(r, c, l) = Addr(s, c, l)
  BY <1>1, <1>2, AddrSame
<1>9. Blocks(r)
  <2>1. PICK K : K = {k}
    OBVIOUS
  <2>2. PICK G : G = [l \in K |-> t]
    OBVIOUS
  <2>3. K \in SUBSET (0..Table) /\ G \in [K -> FreeBlocks(s)]
    BY <1>3, <2>1, <2>2
  <2>4. \A l, m \in K : G[l] = G[m] => l = m
    BY <2>1
  <2>5. \A l \in K : Addr(s, d, l) = 0
    BY <1>6, <2>1
  <2>6. \A c \in Ino, l \in 0..Table : Addr(r, c, l) = IF c = d /\ l \in K THEN G[l] ELSE Addr(s, c, l)
    BY <1>6, <1>7, <1>8, <2>1, <2>2
  <2>7. r.block_bitmap = s.block_bitmap \cup {G[l] : l \in K}
    BY <1>1, <2>1, <2>2
  <2> QED
    BY <2>3, <2>4, <2>5, <2>6, <2>7, BlocksGrow
<1>10. /\ At(s, d, <<k, 1>>) = Free /\ <<k, 1>> \in Place
       /\ \A c \in Ino, q \in Place : At(r, c, q) = IF c = d /\ q = <<k, 1>> THEN e ELSE At(s, c, q)
  <2>1. \A c \in Ino, l \in 0..DIRECT : ~(c = d /\ l = k) => Addr(r, c, l) = Addr(s, c, l)
    BY <1>7, <1>8, Bounds
  <2>2. NewSector(s, r, t, e) /\ t \in FreeBlocks(s) /\ k \in 0..DIRECT
    BY <1>1, <1>3
  <2> QED
    BY <1>6, <2>1, <2>2, PutFresh
<1>11. Added(s, r, d, e)
  BY <1>10 DEF Added
<1>12. Tables(r)
  <2> SUFFICES ASSUME NEW c \in Ino, Addr(r, c, Table) # 0
               PROVE  /\ Addr(r, c, DIRECT) # 0 /\ \E n \in 1..PER_SEC : At(r, c, <<DIRECT, n>>) # Free
                      /\ \A n \in 1..(INDIRECT - 1) : r.tab[Addr(r, c, Table)][n] = 0
    BY DEF Tables
  <2>1. Addr(r, c, Table) = Addr(s, c, Table) /\ Addr(r, c, DIRECT) = Addr(s, c, DIRECT)
    BY <1>3, <1>7, <1>8, DirectIs, Bounds
  <2>2. \A n \in 1..PER_SEC : At(s, c, <<DIRECT, n>>) # Free => At(r, c, <<DIRECT, n>>) # Free
    BY <1>10, PlaceIs, Bounds
  <2>3. \E n \in 1..PER_SEC : At(s, c, <<DIRECT, n>>) # Free
    BY <2>1 DEF Tables
  <2> QED
    BY <1>1, <2>1, <2>2, <2>3 DEF Tables
<1>13. \A c \in Ino : c # d \/ IsDir(s, c) => IsDir(r, c) = IsDir(s, c)
  BY <1>6, <1>7, <1>8, Bounds DEF IsDir
<1> QED
  BY <1>9, <1>11, <1>12, <1>13

(* An entry alone in a fresh sector behind a fresh table, of a directory   *)
(* that has no table yet.                                                  *)
LEMMA PutTableKeeps ==
  ASSUME NEW s, NEW r, NEW d \in Ino, NEW e, NEW y, e # Free,
         IsFs(s), Blocks(s), Tables(s), NewInode(s, r, d, y),
         PutTable(s, r, Inode(s, d), y, e), Addr(s, d, Table) = 0
  PROVE  /\ Blocks(r) /\ Tables(r) /\ Added(s, r, d, e)
         /\ \A c \in Ino : c # d \/ IsDir(s, c) => IsDir(r, c) = IsDir(s, c)
<1>1. PICK t \in FreeBlocks(s), u \in FreeBlocks(s) :
        /\ t # u /\ NewAddr(Inode(s, d), y, DIRECT, t) /\ NewSector(s, r, u, e)
        /\ r.tab = [s.tab EXCEPT ![t] = [EmptyTable EXCEPT ![0] = u]]
        /\ r.block_bitmap = s.block_bitmap \cup {t, u}
  BY DEF PutTable
<1>2. Inode(r, d) = y /\ \A c \in Ino \ {d} : Inode(r, c) = Inode(s, c)
  BY DEF IsFs, Inode, NewInode
<1>3. t \in Block /\ t # 0 /\ u \in Block /\ u # 0 /\ DIRECT \in 0..DIRECT /\ Table \in 0..Table
  BY Bounds DEF FreeBlocks
<1>4. InodeOK(Inode(s, d))
  BY DEF IsFs, Inode
<1>5. \A l \in 0..DIRECT : y.i_sectors[l] = IF l = DIRECT THEN t ELSE Inode(s, d).i_sectors[l]
  BY <1>1, <1>3, <1>4 DEF InodeOK, NewAddr
<1>6. r.tab[t] = [EmptyTable EXCEPT ![0] = u] /\ \A b \in Block : b # t => r.tab[b] = s.tab[b]
  BY <1>1, <1>3 DEF IsFs
<1>7. r.tab[t][0] = u /\ \A k \in 1..(INDIRECT - 1) : r.tab[t][k] = 0
  <2>1. \A k \in 1..(INDIRECT - 1) : k \in 0..(INDIRECT - 1) /\ k # 0
    BY Bounds
  <2> QED
    BY <1>6, <2>1, Bounds DEF EmptyTable
<1>8. Addr(s, d, DIRECT) = 0 /\ Addr(r, d, Table) = t /\ Addr(r, d, DIRECT) = u
  BY <1>2, <1>3, <1>5, <1>7, AddrIs
<1>9. \A l \in Direct : Addr(r, d, l) = Addr(s, d, l)
  BY <1>2, <1>5, AddrIs, DirectIs
<1>10. \A c \in Ino \ {d}, l \in 0..Table : Addr(r, c, l) = Addr(s, c, l)
  <2> SUFFICES ASSUME NEW c \in Ino \ {d} PROVE \A l \in 0..Table : Addr(r, c, l) = Addr(s, c, l)
    OBVIOUS
  <2>1. Inode(s, c).i_sectors[DIRECT] = Addr(s, c, Table)
    BY AddrIs
  <2>2. Addr(s, c, Table) # 0 => Addr(s, c, Table) \in Block /\ Addr(s, c, Table) # t
    BY <1>3, Taken, AddrType
  <2> QED
    BY <1>2, <1>6, <2>1, <2>2, AddrSame
<1>11. Blocks(r)
  <2>1. PICK K : K = {DIRECT, Table}
    OBVIOUS
  <2>2. PICK G : G = [l \in K |-> IF l = DIRECT THEN u ELSE t]
    OBVIOUS
  <2>3. K \in SUBSET (0..Table) /\ G \in [K -> FreeBlocks(s)]
    BY <2>1, <2>2, DirectIs, Bounds
  <2>4. \A l, m \in K : G[l] = G[m] => l = m
    BY <1>1, <2>1, <2>2
  <2>5. \A l \in K : Addr(s, d, l) = 0
    BY <1>8, <2>1
  <2>6. \A c \in Ino, l \in 0..Table : Addr(r, c, l) = IF c = d /\ l \in K THEN G[l] ELSE Addr(s, c, l)
    BY <1>8, <1>9, <1>10, <2>1, <2>2, DirectIs
  <2>7. r.block_bitmap = s.block_bitmap \cup {G[l] : l \in K}
    BY <1>1, <2>1, <2>2, DirectIs
  <2> QED
    BY <2>3, <2>4, <2>5, <2>6, <2>7, BlocksGrow
<1>12. /\ At(s, d, <<DIRECT, 1>>) = Free /\ <<DIRECT, 1>> \in Place
       /\ \A c \in Ino, q \in Place : At(r, c, q) = IF c = d /\ q = <<DIRECT, 1>> THEN e ELSE At(s, c, q)
  <2>1. \A c \in Ino, l \in 0..DIRECT : ~(c = d /\ l = DIRECT) => Addr(r, c, l) = Addr(s, c, l)
    BY <1>9, <1>10, DirectIs, Bounds
  <2>2. NewSector(s, r, u, e) /\ u \in FreeBlocks(s)
    BY <1>1
  <2>3. Addr(s, d, DIRECT) = 0 /\ Addr(r, d, DIRECT) = u
    BY <1>8
  <2> QED
    BY <1>3, <2>1, <2>2, <2>3, PutFresh
<1>13. Added(s, r, d, e)
  BY <1>12 DEF Added
<1>14. Tables(r)
  <2> SUFFICES ASSUME NEW c \in Ino, Addr(r, c, Table) # 0
               PROVE  /\ Addr(r, c, DIRECT) # 0 /\ \E n \in 1..PER_SEC : At(r, c, <<DIRECT, n>>) # Free
                      /\ \A n \in 1..(INDIRECT - 1) : r.tab[Addr(r, c, Table)][n] = 0
    BY DEF Tables
  <2>1. CASE c = d
    <3>1. At(r, d, <<DIRECT, 1>>) = e
      BY <1>12
    <3> QED
      BY <1>3, <1>7, <1>8, <2>1, <3>1, Bounds
  <2>2. CASE c # d
    <3>1. Addr(r, c, Table) = Addr(s, c, Table) /\ Addr(r, c, DIRECT) = Addr(s, c, DIRECT)
      BY <1>10, <2>2, DirectIs, Bounds
    <3>2. \A n \in 1..PER_SEC : At(r, c, <<DIRECT, n>>) = At(s, c, <<DIRECT, n>>)
      BY <1>12, <2>2, PlaceIs, Bounds
    <3>3. \E n \in 1..PER_SEC : At(s, c, <<DIRECT, n>>) # Free
      BY <3>1 DEF Tables
    <3>4. Addr(s, c, Table) \in Block /\ Addr(s, c, Table) # t
      BY <1>3, <3>1, Taken, AddrType
    <3>5. \A n \in 1..(INDIRECT - 1) : s.tab[Addr(s, c, Table)][n] = 0
      BY <3>1 DEF Tables
    <3> QED
      BY <1>6, <3>1, <3>2, <3>3, <3>4, <3>5 DEF Tables
  <2> QED
    BY <2>1, <2>2
<1>15. \A c \in Ino : c # d \/ IsDir(s, c) => IsDir(r, c) = IsDir(s, c)
  BY <1>9, <1>10, DirectIs, Bounds DEF IsDir
<1> QED
  BY <1>11, <1>13, <1>14, <1>15

(* The directory d has become larger by the entry e.                       *)
Larger(s, r, d, e) ==
  /\ Blocks(r) /\ Tables(r) /\ Added(s, r, d, e)
  /\ \A c \in Ino : c # d \/ IsDir(s, c) => IsDir(r, c) = IsDir(s, c)
  /\ Inode(r, d).i_size = Inode(s, d).i_size + 1
  /\ \A c \in Ino \ {d} : Inode(r, c) = Inode(s, c)

(* Whichever way it goes.                                                  *)
LEMMA PutKeeps ==
  ASSUME NEW s, NEW r, NEW d \in Ino, NEW e, NEW y, e # Free,
         IsFs(s), Blocks(s), Tables(s), NewInode(s, r, d, y),
         Put(s, r, Inode(s, d), y, e), Full(s, Inode(s, d)) => Addr(s, d, Table) = 0
  PROVE  Larger(s, r, d, e)
<1>1. Inode(r, d) = y /\ \A c \in Ino \ {d} : Inode(r, c) = Inode(s, c)
  BY DEF IsFs, Inode, NewInode
<1>2. Inode(r, d).i_size = Inode(s, d).i_size + 1
  BY <1>1 DEF Put
<1>3. CASE PutFree(s, r, Inode(s, d), y, e)
  BY <1>1, <1>2, <1>3, PutFreeKeeps DEF Larger
<1>4. CASE PutSector(s, r, Inode(s, d), y, e)
  BY <1>1, <1>2, <1>4, PutSectorKeeps DEF Larger
<1>5. CASE PutTable(s, r, Inode(s, d), y, e)
  <2>1. Addr(s, d, Table) = 0
    BY <1>5 DEF PutTable
  <2> QED
    BY <1>1, <1>2, <1>5, <2>1, PutTableKeeps DEF Larger
<1> QED
  BY <1>3, <1>4, <1>5 DEF Put
-----------------------------------------------------------------------------
(* What the code reads is the view.                                        *)
LEMMA ViewIs ==
  ASSUME NEW s, IsFs(s), MemOK(s), Tables(s), NEW i \in Ino
  PROVE  /\ InodeOf(s, i) = Inode(s, i)
         /\ \A k \in 0..DIRECT : k \in Index /\ all_blocks(s, Inode(s, i), k) = Addr(s, i, k)
         /\ \A k \in Index : k \notin 0..DIRECT => all_blocks(s, Inode(s, i), k) = 0
<1>1. InodeOf(s, i) = Inode(s, i)
  <2>1. s.open[i] \in Nat
    BY DEF IsFs
  <2> QED
    BY <2>1 DEF InodeOf, MemOK, Inode
<1>2. Inode(s, i).i_sectors[DIRECT] = Addr(s, i, Table)
  BY AddrIs
<1>3. \A k \in Direct : k \in Index /\ k < DIRECT
  BY Bounds DEF Direct, Index
<1>4. \A k \in Direct : all_blocks(s, Inode(s, i), k) = Addr(s, i, k)
  BY <1>3, AddrIs, DirectIs DEF all_blocks
<1>5. DIRECT \in Index /\ ~(DIRECT < DIRECT) /\ DIRECT - DIRECT = 0
  BY Bounds DEF Index
<1>6. all_blocks(s, Inode(s, i), DIRECT) = Addr(s, i, DIRECT)
  BY <1>2, <1>5, AddrIs DEF all_blocks
<1>7. ASSUME NEW k \in Index, k \notin 0..DIRECT PROVE all_blocks(s, Inode(s, i), k) = 0
  <2>1. ~(k < DIRECT) /\ k - DIRECT \in 1..(INDIRECT - 1)
    BY <1>7, Bounds DEF Index
  <2>2. Addr(s, i, Table) # 0 => s.tab[Addr(s, i, Table)][k - DIRECT] = 0
    BY <2>1 DEF Tables
  <2> QED
    BY <1>2, <2>1, <2>2 DEF all_blocks
<1>8. \A k \in 0..DIRECT : k \in Index /\ all_blocks(s, Inode(s, i), k) = Addr(s, i, k)
  BY <1>3, <1>4, <1>5, <1>6, DirectIs
<1> QED
  BY <1>1, <1>7, <1>8

(* The places that search_dir_entry, dir_read and delete_dir_entry go      *)
(* through.                                                                *)
LEMMA PlacesAre ==
  ASSUME NEW s, IsFs(s), MemOK(s), Tables(s), NEW i \in Ino
  PROVE  /\ Places(s, i) = {p \in Place : Addr(s, i, p[1]) # 0}
         /\ \A p \in Places(s, i) : EntryAt(s, i, p) = At(s, i, p)
<1> DEFINE P == {k \in Index : all_blocks(s, Inode(s, i), k) # 0}
           A == {k \in 0..DIRECT : Addr(s, i, k) # 0}
<1>1. P = A
  BY ViewIs
<1>2. Places(s, i) = P \X (1..PER_SEC)
  BY ViewIs DEF Places
<1>3. A \X (1..PER_SEC) = {p \in Place : Addr(s, i, p[1]) # 0}
  BY DEF Place
<1>4. Places(s, i) = {p \in Place : Addr(s, i, p[1]) # 0}
  BY <1>1, <1>2, <1>3
<1>5. \A p \in Place : all_blocks(s, Inode(s, i), p[1]) = Addr(s, i, p[1])
  BY ViewIs, PlaceIs
<1>6. \A p \in Places(s, i) : EntryAt(s, i, p) = At(s, i, p)
  BY <1>4, <1>5, ViewIs DEF EntryAt, At
<1> QED
  BY <1>4, <1>6

LEMMA EntIs ==
  ASSUME NEW name, NEW i, NEW type
  PROVE  /\ Ent(name, i, type).filename = name /\ Ent(name, i, type).i_no = i
         /\ Ent(name, i, type).f_type = type
BY DEF Ent

(* An entry is one of the two dots or names an inode.                      *)
LEMMA EntryIs ==
  ASSUME NEW s, Dots(s), Entries(s), NEW d \in Ino, NEW p \in Place, At(s, d, p) # Free
  PROVE  /\ At(s, d, p).filename # "" /\ At(s, d, p).f_type \in {"directory", "regular"}
         /\ p \in Linked(s, d) <=> ~(IsDir(s, d) /\ p \in {<<0, 1>>, <<0, 2>>})
         /\ p \in Linked(s, d) => /\ At(s, d, p).i_no \in s.inode_bitmap \ {0}
                                  /\ At(s, d, p).f_type = Kind(s, At(s, d, p).i_no)
         /\ At(s, d, p).filename = "." => p = <<0, 1>>
<1>1. CASE IsDir(s, d) /\ p \in {<<0, 1>>, <<0, 2>>}
  <2>1. At(s, d, <<0, 1>>) = Ent(".", d, "directory")
    BY <1>1 DEF Dots
  <2>2. PICK c \in Ino : Above(s, d, c)
    BY <1>1 DEF Dots
  <2> USE DEF Above
  <2>3. At(s, d, p).filename \in {".", ".."} /\ At(s, d, p).f_type = "directory"
    BY <1>1, <2>1, <2>2 DEF Ent
  <2>4. At(s, d, p).filename = "." => p = <<0, 1>>
    BY <1>1, <2>2 DEF Ent
  <2> QED
    BY <1>1, <2>3, <2>4 DEF Linked
<1>2. CASE ~(IsDir(s, d) /\ p \in {<<0, 1>>, <<0, 2>>})
  <2>1. PICK i \in s.inode_bitmap \ {0} : \E name :
          name \notin {"", ".", ".."} /\ At(s, d, p) = Ent(name, i, Kind(s, i))
    BY <1>2 DEF Entries
  <2>2. /\ At(s, d, p).filename \notin {"", ".", ".."}
        /\ At(s, d, p).i_no = i /\ At(s, d, p).f_type = Kind(s, i)
    <3>1. PICK name : name \notin {"", ".", ".."} /\ At(s, d, p) = Ent(name, i, Kind(s, i))
      BY <2>1
    <3>2. PICK k : k = Kind(s, i)
      OBVIOUS
    <3>3. PICK e : e = At(s, d, p)
      OBVIOUS
    <3>4. e = Ent(name, i, k)
      BY <3>1, <3>2, <3>3
    <3>5. e.filename = name /\ e.i_no = i /\ e.f_type = k
      BY <3>4, EntIs
    <3> QED
      BY <3>1, <3>2, <3>3, <3>5
  <2>3. Kind(s, i) \in {"directory", "regular"}
    BY DEF Kind
  <2>4. p \in Linked(s, d)
    BY <2>1, <2>2 DEF Linked, Filled
  <2> QED
    BY <1>2, <2>1, <2>2, <2>3, <2>4
<1> QED
  BY <1>1, <1>2

(* The entries that they see there are those of the view.                  *)
LEMMA EntrySets ==
  ASSUME NEW s, IsFs(s), MemOK(s), Tables(s), Dots(s), Entries(s), NEW d \in Ino
  PROVE  /\ Filled(s, d) \subseteq Places(s, d) /\ Places(s, d) \subseteq Place
         /\ \A p \in Places(s, d) : EntryAt(s, d, p) = At(s, d, p)
         /\ Used(s, d) = Filled(s, d) /\ Real(s, d) = Linked(s, d)
         /\ \A i : Hits(s, d, i) = {p \in Linked(s, d) : At(s, d, p).i_no = i}
<1>1. /\ Places(s, d) = {p \in Place : Addr(s, d, p[1]) # 0}
      /\ \A p \in Places(s, d) : EntryAt(s, d, p) = At(s, d, p)
  BY PlacesAre
<1>2. \A p \in Place : At(s, d, p) # Free => Addr(s, d, p[1]) # 0
  BY DEF At
<1>3. Filled(s, d) \subseteq Places(s, d) /\ Places(s, d) \subseteq Place
  BY <1>1, <1>2 DEF Filled
<1>4. Free.f_type = "unknown" /\ Free.filename = ""
  BY DEF Free
<1>5. \A p \in Filled(s, d) : At(s, d, p).f_type # "unknown"
  BY EntryIs DEF Filled
<1>6. \A p \in Place : p \notin Filled(s, d) => At(s, d, p) = Free
  BY DEF Filled
<1>7. Used(s, d) = Filled(s, d)
  BY <1>1, <1>3, <1>4, <1>5, <1>6 DEF Used
<1>8. Real(s, d) = Linked(s, d)
  BY <1>1, <1>3, <1>7 DEF Real, Linked
<1>9. Linked(s, d) \subseteq Places(s, d)
  BY <1>3 DEF Linked
<1>10. \A i : Hits(s, d, i) = {p \in Linked(s, d) : At(s, d, p).i_no = i}
  BY <1>1, <1>8, <1>9 DEF Hits
<1> QED
  BY <1>1, <1>3, <1>7, <1>8, <1>10

(* What search_dir_entry compares equal to a name.                         *)
LEMMA NamedIs ==
  ASSUME NEW s, IsFs(s), MemOK(s), Tables(s), Dots(s), Entries(s), NEW d \in Ino, NEW name, name # ""
  PROVE  \A q : q \in Named(s, d, name) <=> q \in Filled(s, d) /\ At(s, d, q).filename = name
<1>1. /\ Places(s, d) = {p \in Place : Addr(s, d, p[1]) # 0}
      /\ \A p \in Places(s, d) : EntryAt(s, d, p) = At(s, d, p)
  BY PlacesAre
<1>2. Filled(s, d) \subseteq Places(s, d)
  BY EntrySets
<1>3. Free.filename = ""
  BY DEF Free
<1>4. \A p \in Place : p \notin Filled(s, d) => At(s, d, p) = Free
  BY DEF Filled
<1> QED
  BY <1>1, <1>2, <1>3, <1>4 DEF Named
-----------------------------------------------------------------------------
(* delete_dir_entry.                                                       *)
LEMMA PlaceFinite == IsFiniteSet(Place) /\ \A S \in SUBSET Place : IsFiniteSet(S)
<1>1. IsFiniteSet(0..DIRECT) /\ IsFiniteSet(1..PER_SEC)
  <2>1. DIRECT \in Int /\ PER_SEC \in Int /\ 0 \in Int /\ 1 \in Int
    BY Bounds
  <2> QED
    BY ONLY <2>1, FS_Interval
<1>2. IsFiniteSet(Place)
  BY <1>1, FS_Product DEF Place
<1> QED
  BY <1>2, FS_Subset

(* The first place of one place.                                           *)
LEMMA FirstPlaceOne ==
  ASSUME NEW p
  PROVE  FirstPlace({p}) = p
BY DEF FirstPlace

(* The sectors B are given back.                                           *)
Cleared(s, r, B) ==
  /\ r.block_bitmap = s.block_bitmap \ B
  /\ r.blk = [b \in Block |-> IF b \in B THEN EmptySector ELSE s.blk[b]]
  /\ r.tab = [b \in Block |-> IF b \in B THEN EmptyTable ELSE s.tab[b]]

(* What giving the blocks of a sequence back leaves alone.                 *)
LEMMA ClearIs ==
  ASSUME NEW s, FsRec(s), NEW v, DOMAIN v \subseteq Nat, NEW B, B = {v[n] : n \in DOMAIN v} \ {0}
  PROVE  LET r == ClearBlocks(s, v)
         IN  /\ FsRec(r) /\ Cleared(s, r, B) /\ (Stored(s) => Stored(r))
             /\ r.inode_bitmap = s.inode_bitmap /\ r.disk_ibits = s.disk_ibits
             /\ r.inode_table = s.inode_table /\ r.mem = s.mem
             /\ r.open = s.open /\ r.file_table = s.file_table
<1>1. PICK X : X = [b \in Block |-> IF b \in B THEN EmptySector ELSE s.blk[b]]
  OBVIOUS
<1>2. PICK Y : Y = [b \in Block |-> IF b \in B THEN EmptyTable ELSE s.tab[b]]
  OBVIOUS
<1>3. PICK Z : Z = s.block_bitmap \ B
  OBVIOUS
<1> DEFINE Syncs(c) == {n \in DOMAIN v : v[n] # 0 /\ off_sec(v[n] - 1) = off_sec(c - 1)}
           by(c) == {v[m] : m \in {l \in DOMAIN v : \E n \in Syncs(c) : l <= n}}
<1>4. PICK D : D = {c \in Block : IF Syncs(c) = {} THEN c \in s.disk_bbits
                                  ELSE Written(s.block_bitmap \ by(c), c - 1)}
  OBVIOUS
<1>5. PICK r : r = ClearBlocks(s, v)
  OBVIOUS
<1>6. r = [s EXCEPT !.block_bitmap = s.block_bitmap \ B,
                    !.blk = [b \in Block |-> IF b \in B THEN EmptySector ELSE s.blk[b]],
                    !.tab = [b \in Block |-> IF b \in B THEN EmptyTable ELSE s.tab[b]],
                    !.disk_bbits = {c \in Block : IF Syncs(c) = {} THEN c \in s.disk_bbits
                                                  ELSE Written(s.block_bitmap \ by(c), c - 1)}]
  BY <1>5, Zenon DEF ClearBlocks
<1>7. r = [s EXCEPT !.block_bitmap = Z, !.blk = X, !.tab = Y, !.disk_bbits = D]
  BY <1>1, <1>2, <1>3, <1>4, <1>6, Zenon
<1>8. /\ FsRec(r) /\ r.block_bitmap = Z /\ r.blk = X /\ r.tab = Y /\ r.disk_bbits = D
      /\ r.inode_bitmap = s.inode_bitmap /\ r.disk_ibits = s.disk_ibits
      /\ r.inode_table = s.inode_table /\ r.mem = s.mem
      /\ r.open = s.open /\ r.file_table = s.file_table
  BY ONLY FsRec(s), <1>7 DEF FsRec
<1>9. Cleared(s, r, B)
  BY <1>1, <1>2, <1>3, <1>8 DEF Cleared
<1>10. ASSUME Stored(s) PROVE Stored(r)
  <2>1. SUFFICES ASSUME NEW c \in Block, c <= SEC_BITS
                 PROVE  c \in D <=> c \in Z
    BY <1>8, <1>10 DEF Stored
  <2>2. off_sec(c - 1) = 0 /\ c # 0
    BY <2>1, FirstSector, Bounds
  <2>3. CASE Syncs(c) = {}
    <3>1. \A n \in DOMAIN v : v[n] # c
      BY <2>2, <2>3
    <3>2. c \notin B
      BY <3>1
    <3>3. c \in D <=> c \in s.disk_bbits
      BY <1>4, <2>3
    <3> QED
      BY <1>3, <1>10, <2>1, <3>2, <3>3 DEF Stored
  <2>4. CASE Syncs(c) # {}
    <3>1. c \in D <=> Written(s.block_bitmap \ by(c), c - 1)
      BY <1>4, <2>4
    <3>2. PICK W : W = s.block_bitmap \ by(c)
      OBVIOUS
    <3>3. c \in D <=> c \in W
      BY <2>1, <3>1, <3>2, FirstWritten
    <3>4. c \in by(c) => c \in B
      BY <2>2
    <3>5. c \in B => c \in by(c)
      <4>1. SUFFICES ASSUME NEW n \in DOMAIN v, v[n] = c PROVE c \in by(c)
        OBVIOUS
      <4>2. n \in Syncs(c)
        BY <2>2, <4>1
      <4>3. n <= n
        OBVIOUS
      <4> QED
        BY <4>1, <4>2, <4>3
    <3> QED
      BY <1>3, <3>2, <3>3, <3>4, <3>5
  <2> QED
    BY <2>3, <2>4
<1> QED
  BY <1>5, <1>8, <1>9, <1>10

(* The entry at p was not alone in its sector; or it was, and the sector   *)
(* goes, and the table with it.                                            *)
Beside(s, d, p) ==
  \/ \E q \in Linked(s, d) : q # p /\ q[1] = p[1]
  \/ \E j \in 1..PER_SEC : At(s, d, <<p[1], j>>).filename = "."
CutEntry(s, r, d, p, y) ==
  /\ Beside(s, d, p) /\ y.i_sectors = Inode(s, d).i_sectors
  /\ r.blk = [s.blk EXCEPT ![Addr(s, d, p[1])][p[2]] = Free]
  /\ r.tab = s.tab /\ r.block_bitmap = s.block_bitmap
CutSector(s, r, d, p, y) ==
  /\ ~Beside(s, d, p) /\ p[1] \in Direct
  /\ y.i_sectors = [Inode(s, d).i_sectors EXCEPT ![p[1]] = 0]
  /\ Cleared(s, r, {Addr(s, d, p[1])})
CutTable(s, r, d, p, y) ==
  /\ ~Beside(s, d, p) /\ p[1] = DIRECT
  /\ y.i_sectors = [Inode(s, d).i_sectors EXCEPT ![DIRECT] = 0]
  /\ Cleared(s, r, {Addr(s, d, DIRECT), Addr(s, d, Table)})
Cut(s, r, d, p, y) ==
  /\ y = [i_size |-> Inode(s, d).i_size - 1, i_sectors |-> y.i_sectors]
  /\ CutEntry(s, r, d, p, y) \/ CutSector(s, r, d, p, y) \/ CutTable(s, r, d, p, y)

(* Nothing but the sectors, the bitmap and the inode d has changed.        *)
OnlyInode(s, r, d, y) ==
  /\ FsRec(r)
  /\ r.inode_bitmap = s.inode_bitmap /\ r.disk_ibits = s.disk_ibits
  /\ r.open = s.open /\ r.file_table = s.file_table
  /\ r.mem = [s.mem EXCEPT ![d] = y] /\ NewInode(s, r, d, y)
  /\ (Stored(s) => Stored(r))

(* delete_dir_entry takes one entry out, whichever of its four branches    *)
(* runs.                                                                   *)
LEMMA DeleteIs ==
  ASSUME NEW s, NEW d \in Ino, NEW p \in Linked(s, d),
         IsFs(s), MemOK(s), Tables(s), Dots(s), Entries(s), Tree(s), s.open[d] > 0, d < WRAP
  PROVE  \E y : /\ Cut(s, delete_dir_entry(s, d, At(s, d, p).i_no), d, p, y)
                /\ OnlyInode(s, delete_dir_entry(s, d, At(s, d, p).i_no), d, y)
<1>1. PICK i : i = At(s, d, p).i_no
  OBVIOUS
<1>2. Hits(s, d, i) = {p}
  <2>1. \A n : Hits(s, d, n) = {q \in Linked(s, d) : At(s, d, q).i_no = n}
    BY EntrySets
  <2>2. \A q \in Linked(s, d) : At(s, d, q).i_no = i => q = p
    BY <1>1 DEF Tree
  <2> QED
    BY <1>1, <2>1, <2>2
<1>3. FirstPlace(Hits(s, d, i)) = p
  BY <1>2, FirstPlaceOne
<1>4. p \in Place /\ p[1] \in 0..DIRECT /\ p[2] \in 1..PER_SEC /\ At(s, d, p) # Free
  BY PlaceIs DEF Linked, Filled
<1>5. s.mem[d] = Inode(s, d)
  BY DEF MemOK, Inode
<1>6. PICK x : x = Inode(s, d)
  OBVIOUS
<1>7. PICK k : k = p[1]
  OBVIOUS
<1>8. PICK b : b = Addr(s, d, k)
  OBVIOUS
<1>9. PICK t : t = Addr(s, d, Table)
  OBVIOUS
<1>10. all_blocks(s, s.mem[d], k) = b /\ s.mem[d].i_sectors[DIRECT] = t
  BY <1>4, <1>5, <1>7, <1>8, <1>9, ViewIs, AddrIs
<1>11. \A m \in Index : m >= DIRECT /\ m # DIRECT => all_blocks(s, s.mem[d], m) = 0
  <2>1. \A m \in Index : m >= DIRECT /\ m # DIRECT => m \notin 0..DIRECT
    BY Bounds DEF Index
  <2> QED
    BY <1>5, <2>1, ViewIs
<1>12. b # 0 /\ b \in Block
  BY <1>4, <1>7, <1>8, AddrType, Bounds DEF At
<1>13. \A j \in 1..PER_SEC : At(s, d, <<k, j>>) = s.blk[b][j]
  BY <1>4, <1>7, <1>8, <1>12 DEF At
<1> DEFINE R == {q \in Real(s, d) : q[1] = k}
           alone == Cardinality(R) = 1 /\ \A j \in 1..PER_SEC : s.blk[b][j].filename # "."
<1>14. alone <=> ~Beside(s, d, p)
  <2>1. R = {q \in Linked(s, d) : q[1] = p[1]} /\ p \in R
    BY <1>7, EntrySets
  <2>2. IsFiniteSet(R)
    BY <2>1, PlaceFinite DEF Linked, Filled
  <2> HIDE DEF R
  <2>3. Cardinality(R) = 1 <=> R = {p}
    BY <2>1, <2>2, FS_Singleton
  <2>4. R = {p} <=> ~ \E q \in Linked(s, d) : q # p /\ q[1] = p[1]
    BY <2>1
  <2> QED
    BY <1>7, <1>13, <2>3, <2>4 DEF Beside
<1> HIDE DEF R
<1>15. PICK r : r = delete_dir_entry(s, d, i)
  OBVIOUS
<1>16. FsRec(s) /\ InodeOK(x) /\ s.mem[d] = x
  BY <1>5, <1>6 DEF IsFs, Inode
<1>17. PICK less : less = [x EXCEPT !.i_size = @ - 1]
  OBVIOUS
<1>18. less = [i_size |-> x.i_size - 1, i_sectors |-> x.i_sectors]
  BY <1>16, <1>17 DEF InodeOK
<1> DEFINE Sync(q, inode) == inode_sync([q EXCEPT !.mem[d] = inode], d, inode)
<1>19. r = IF ~alone THEN Sync([s EXCEPT !.blk[b][p[2]] = Free], less)
           ELSE IF k < DIRECT THEN Sync(ClearBlocks(s, <<b>>), [less EXCEPT !.i_sectors[k] = 0])
           ELSE Sync(ClearBlocks(s, <<b, t>>), [less EXCEPT !.i_sectors[DIRECT] = 0])
  <2>1. ~(k < DIRECT) => k = DIRECT
    BY <1>4, <1>7, Bounds
  <2>2. ~(k < DIRECT) => \A m \in Index : m >= DIRECT /\ m # k => all_blocks(s, s.mem[d], m) = 0
    BY <1>11, <2>1
  <2>3. \/ /\ ~alone /\ delete_dir_entry(s, d, i) = Sync([s EXCEPT !.blk[b][p[2]] = Free], less)
        \/ /\ alone /\ k < DIRECT
           /\ delete_dir_entry(s, d, i) = Sync(ClearBlocks(s, <<b>>), [less EXCEPT !.i_sectors[k] = 0])
        \/ /\ alone /\ ~(k < DIRECT)
           /\ delete_dir_entry(s, d, i) = Sync(ClearBlocks(s, <<b, t>>), [less EXCEPT !.i_sectors[DIRECT] = 0])
    BY <1>2, <1>3, <1>7, <1>10, <1>16, <1>17, <2>2, Zenon DEF delete_dir_entry, R
  <2> QED
    BY <1>15, <2>3
<1>20. CASE ~alone
  <2>1. r = Sync([s EXCEPT !.blk[b][p[2]] = Free], less)
    BY <1>19, <1>20
  <2>2. PICK a : a = [[s EXCEPT !.blk[b][p[2]] = Free] EXCEPT !.mem[d] = less]
    OBVIOUS
  <2>3. r = [a EXCEPT !.inode_table[d] = less]
    <3>1. r = inode_sync(a, d, less)
      BY <2>1, <2>2
    <3> QED
      BY ONLY <3>1, d \in Ino, d < WRAP, SyncAt
  <2>4. OnlyInode(s, r, d, less)
    BY <1>16, <2>2, <2>3 DEF FsRec, OnlyInode, NewInode, Stored
  <2>5. /\ r.blk = [s.blk EXCEPT ![b][p[2]] = Free]
        /\ r.tab = s.tab /\ r.block_bitmap = s.block_bitmap
    BY <1>16, <2>2, <2>3 DEF FsRec
  <2>6. CutEntry(s, r, d, p, less)
    BY <1>6, <1>7, <1>8, <1>14, <1>18, <1>20, <2>5 DEF CutEntry
  <2>7. less = [i_size |-> Inode(s, d).i_size - 1, i_sectors |-> less.i_sectors]
    BY <1>6, <1>18
  <2> QED
    BY <1>1, <1>15, <2>4, <2>6, <2>7 DEF Cut
<1>21. CASE alone /\ k < DIRECT
  <2>1. PICK y : y = [less EXCEPT !.i_sectors[k] = 0]
    OBVIOUS
  <2>2. y = [i_size |-> x.i_size - 1, i_sectors |-> [x.i_sectors EXCEPT ![k] = 0]]
    BY <1>18, <2>1
  <2>3. PICK q : q = ClearBlocks(s, <<b>>)
    OBVIOUS
  <2>4. r = Sync(q, y)
    BY <1>19, <1>21, <2>1, <2>3
  <2>5. /\ FsRec(q) /\ Cleared(s, q, {b}) /\ (Stored(s) => Stored(q))
        /\ q.inode_bitmap = s.inode_bitmap /\ q.disk_ibits = s.disk_ibits
        /\ q.inode_table = s.inode_table /\ q.mem = s.mem
        /\ q.open = s.open /\ q.file_table = s.file_table
    <3>1. PICK v : v = <<b>>
      OBVIOUS
    <3>2. DOMAIN v \subseteq Nat /\ {b} = {v[n] : n \in DOMAIN v} \ {0}
      BY <1>12, <3>1
    <3> QED
      BY <1>16, <2>3, <3>1, <3>2, ClearIs
  <2>6. OnlyInode(s, r, d, y) /\ r.blk = q.blk /\ r.tab = q.tab /\ r.block_bitmap = q.block_bitmap
    BY <2>4, <2>5, SyncAt DEF FsRec, OnlyInode, NewInode, Stored
  <2>7. Cleared(s, r, {b})
    BY <2>5, <2>6 DEF Cleared
  <2>8. k \in Direct
    BY <1>4, <1>7, <1>21, Bounds DEF Direct
  <2>9. CutSector(s, r, d, p, y)
    BY <1>6, <1>7, <1>8, <1>14, <1>21, <2>2, <2>7, <2>8 DEF CutSector
  <2> QED
    BY <1>1, <1>6, <1>15, <2>2, <2>6, <2>9 DEF Cut
<1>22. CASE alone /\ ~(k < DIRECT)
  <2>1. PICK y : y = [less EXCEPT !.i_sectors[DIRECT] = 0]
    OBVIOUS
  <2>2. y = [i_size |-> x.i_size - 1, i_sectors |-> [x.i_sectors EXCEPT ![DIRECT] = 0]]
    BY <1>18, <2>1
  <2>3. PICK q : q = ClearBlocks(s, <<b, t>>)
    OBVIOUS
  <2>4. r = Sync(q, y)
    BY <1>19, <1>22, <2>1, <2>3
  <2>5. /\ FsRec(q) /\ Cleared(s, q, {b, t}) /\ (Stored(s) => Stored(q))
        /\ q.inode_bitmap = s.inode_bitmap /\ q.disk_ibits = s.disk_ibits
        /\ q.inode_table = s.inode_table /\ q.mem = s.mem
        /\ q.open = s.open /\ q.file_table = s.file_table
    <3>1. PICK v : v = <<b, t>>
      OBVIOUS
    <3>2. DOMAIN v \subseteq Nat /\ {b, t} = {v[n] : n \in DOMAIN v} \ {0}
      <4>1. t # 0
        BY <1>4, <1>7, <1>8, <1>9, <1>12, <1>22, AddrIs, Bounds
      <4>2. DOMAIN v = 1..2 /\ v[1] = b /\ v[2] = t
        BY <3>1
      <4> QED
        BY <1>12, <4>1, <4>2
    <3> QED
      BY <1>16, <2>3, <3>1, <3>2, ClearIs
  <2>6. OnlyInode(s, r, d, y) /\ r.blk = q.blk /\ r.tab = q.tab /\ r.block_bitmap = q.block_bitmap
    BY <2>4, <2>5, SyncAt DEF FsRec, OnlyInode, NewInode, Stored
  <2>7. Cleared(s, r, {b, t})
    BY <2>5, <2>6 DEF Cleared
  <2>8. k = DIRECT
    BY <1>4, <1>7, <1>22, Bounds
  <2>9. CutTable(s, r, d, p, y)
    BY <1>6, <1>7, <1>8, <1>9, <1>14, <1>22, <2>2, <2>7, <2>8 DEF CutTable
  <2> QED
    BY <1>1, <1>6, <1>15, <2>2, <2>6, <2>9 DEF Cut
<1> QED
  BY <1>20, <1>21, <1>22

(* What is beside an entry, and what is not.                               *)
LEMMA BesideIs ==
  ASSUME NEW s, NEW d \in Ino, NEW p \in Linked(s, d), Dots(s), Entries(s), IsDir(s, d)
  PROVE  /\ p \in Place /\ p[1] \in 0..DIRECT /\ p[2] \in 1..PER_SEC /\ At(s, d, p) # Free /\ p = <<p[1], p[2]>>
         /\ Addr(s, d, p[1]) # 0
         /\ ~Beside(s, d, p) => p[1] # 0 /\ \A j \in 1..PER_SEC : j # p[2] => At(s, d, <<p[1], j>>) = Free
         /\ Beside(s, d, p) /\ p[1] = DIRECT =>
              \E j \in 1..PER_SEC : j # p[2] /\ At(s, d, <<DIRECT, j>>) # Free
<1>1. p \in Place /\ p[1] \in 0..DIRECT /\ p[2] \in 1..PER_SEC /\ At(s, d, p) # Free /\ p = <<p[1], p[2]>>
  BY PlaceIs DEF Linked, Filled
<1>2. Addr(s, d, p[1]) # 0
  BY <1>1 DEF At
<1>3. At(s, d, <<0, 1>>).filename = "."
  BY EntIs DEF Dots
<1>4. ASSUME ~Beside(s, d, p)
      PROVE  p[1] # 0 /\ \A j \in 1..PER_SEC : j # p[2] => At(s, d, <<p[1], j>>) = Free
  <2>1. p[1] # 0
    BY <1>3, <1>4, Bounds DEF Beside
  <2>2. ASSUME NEW j \in 1..PER_SEC, j # p[2], At(s, d, <<p[1], j>>) # Free PROVE FALSE
    <3>1. PICK q : q = <<p[1], j>>
      OBVIOUS
    <3>2. q \in Place /\ q[1] = p[1] /\ q # p /\ q \notin {<<0, 1>>, <<0, 2>>}
      BY <1>1, <2>1, <2>2, <3>1, PlaceIs
    <3>3. q \in Linked(s, d)
      BY <2>2, <3>1, <3>2, EntryIs
    <3> QED
      BY <1>4, <3>2, <3>3 DEF Beside
  <2> QED
    BY <2>1, <2>2
<1>5. ASSUME Beside(s, d, p), p[1] = DIRECT
      PROVE  \E j \in 1..PER_SEC : j # p[2] /\ At(s, d, <<DIRECT, j>>) # Free
  <2>1. CASE \E q \in Linked(s, d) : q # p /\ q[1] = p[1]
    <3>1. PICK q \in Linked(s, d) : q # p /\ q[1] = p[1]
      BY <2>1
    <3>2. q \in Place /\ At(s, d, q) # Free /\ q = <<DIRECT, q[2]>> /\ q[2] \in 1..PER_SEC /\ q[2] # p[2]
      BY <1>1, <1>5, <3>1, PlaceIs DEF Linked, Filled
    <3> QED
      BY <3>2
  <2>2. CASE \E j \in 1..PER_SEC : At(s, d, <<p[1], j>>).filename = "."
    <3>1. PICK j \in 1..PER_SEC : At(s, d, <<DIRECT, j>>).filename = "."
      BY <1>5, <2>2
    <3>2. At(s, d, <<DIRECT, j>>) # Free /\ <<DIRECT, j>> \in Place
      <4>1. Free.filename = ""
        BY DEF Free
      <4>2. <<DIRECT, j>> \in Place
        BY PlaceIs, Bounds
      <4> QED
        BY <3>1, <4>1, <4>2
    <3>3. <<DIRECT, j>> = <<0, 1>>
      BY <3>1, <3>2, EntryIs
    <3>4. DIRECT = 0
      BY <3>3
    <3> QED
      BY <3>4, Bounds
  <2> QED
    BY <1>5, <2>1, <2>2 DEF Beside
<1> QED
  BY <1>1, <1>2, <1>4, <1>5

AddrsOf(s, d, K, B) == \A b : b \in B <=> \E k \in K : b = Addr(s, d, k)

(* The tables and the sectors of the others are not among those cleared.   *)
LEMMA ClearedElse ==
  ASSUME NEW s, NEW r, NEW d \in Ino, NEW K \in SUBSET (0..Table), NEW B, IsFs(s), Blocks(s),
         Cleared(s, r, B), AddrsOf(s, d, K, B)
  PROVE  \A c \in Ino, k \in 0..Table : Addr(s, c, k) # 0 /\ ~(c = d /\ k \in K) =>
           /\ r.blk[Addr(s, c, k)] = s.blk[Addr(s, c, k)]
           /\ r.tab[Addr(s, c, k)] = s.tab[Addr(s, c, k)]
<1> SUFFICES ASSUME NEW c \in Ino, NEW k \in 0..Table, Addr(s, c, k) # 0, ~(c = d /\ k \in K)
             PROVE  /\ r.blk[Addr(s, c, k)] = s.blk[Addr(s, c, k)]
                    /\ r.tab[Addr(s, c, k)] = s.tab[Addr(s, c, k)]
  OBVIOUS
<1>1. Addr(s, c, k) \in Block
  BY AddrType
<1>2. \A l \in K : Addr(s, d, l) # Addr(s, c, k)
  BY DEF Blocks
<1>3. Addr(s, c, k) \notin B
  BY <1>2 DEF AddrsOf
<1> QED
  BY <1>1, <1>3 DEF Cleared

(* What the entry was in is gone, and everything else is as it was.        *)
LEMMA CutSectors ==
  ASSUME NEW s, NEW r, NEW d \in Ino, NEW p \in Place, NEW K \in SUBSET (0..Table), NEW B, IsFs(s), Blocks(s),
         Cleared(s, r, B), AddrsOf(s, d, K, B), p[1] \in K, K \cap (0..DIRECT) = {p[1]},
         \A j \in 1..PER_SEC : j # p[2] => At(s, d, <<p[1], j>>) = Free,
         \A c \in Ino, k \in 0..Table : Addr(r, c, k) = IF c = d /\ k \in K THEN 0 ELSE Addr(s, c, k)
  PROVE  /\ Blocks(r)
         /\ \A c \in Ino, q \in Place : At(r, c, q) = IF c = d /\ q = p THEN Free ELSE At(s, c, q)
<1>1. Blocks(r)
  <2>1. B = {Addr(s, d, k) : k \in K}
    BY DEF AddrsOf
  <2>2. r.block_bitmap = s.block_bitmap \ {Addr(s, d, k) : k \in K}
    BY <2>1 DEF Cleared
  <2> QED
    BY <2>2, BlocksShrink
<1>2. ASSUME NEW c \in Ino, NEW q \in Place
      PROVE  At(r, c, q) = IF c = d /\ q = p THEN Free ELSE At(s, c, q)
  <2>1. /\ q = <<q[1], q[2]>> /\ q[1] \in 0..DIRECT /\ q[1] \in 0..Table /\ q[2] \in 1..PER_SEC
        /\ p = <<p[1], p[2]>>
    BY PlaceIs
  <2>2. CASE c = d /\ q[1] = p[1]
    <3>1. At(r, c, q) = Free
      BY <2>1, <2>2 DEF At
    <3>2. q # p => At(s, c, q) = Free
      BY <2>1, <2>2
    <3> QED
      BY <2>2, <3>1, <3>2
  <2>3. CASE ~(c = d /\ q[1] = p[1])
    <3>1. ~(c = d /\ q = p) /\ ~(c = d /\ q[1] \in K)
      BY <2>1, <2>3
    <3>2. Addr(r, c, q[1]) = Addr(s, c, q[1])
      BY <2>1, <3>1
    <3>3. Addr(s, c, q[1]) # 0 => r.blk[Addr(s, c, q[1])] = s.blk[Addr(s, c, q[1])]
      BY <2>1, <3>1, ClearedElse
    <3>4. At(r, c, q) = At(s, c, q)
      BY <3>2, <3>3 DEF At
    <3> QED
      BY <3>1, <3>4
  <2> QED
    BY <2>2, <2>3
<1> QED
  BY <1>1, <1>2

(* The other inodes keep their addresses.                                  *)
LEMMA CutOthers ==
  ASSUME NEW s, NEW r, NEW d \in Ino, NEW y, NEW K \in SUBSET (0..Table), NEW B, IsFs(s), Blocks(s),
         Cleared(s, r, B), AddrsOf(s, d, K, B), NewInode(s, r, d, y)
  PROVE  /\ Inode(r, d) = y /\ \A c \in Ino \ {d} : Inode(r, c) = Inode(s, c)
         /\ \A c \in Ino, k \in 0..Table : c # d => Addr(r, c, k) = Addr(s, c, k)
         /\ \A c \in Ino \ {d} :
              Addr(s, c, Table) # 0 => r.tab[Addr(s, c, Table)] = s.tab[Addr(s, c, Table)]
<1>1. Inode(r, d) = y /\ \A c \in Ino \ {d} : Inode(r, c) = Inode(s, c)
  BY DEF IsFs, Inode, NewInode
<1>2. ASSUME NEW c \in Ino \ {d}
      PROVE  /\ \A k \in 0..Table : Addr(r, c, k) = Addr(s, c, k)
             /\ Addr(s, c, Table) # 0 => r.tab[Addr(s, c, Table)] = s.tab[Addr(s, c, Table)]
  <2>1. Inode(s, c).i_sectors[DIRECT] = Addr(s, c, Table)
    BY AddrIs
  <2>2. ASSUME Addr(s, c, Table) # 0 PROVE r.tab[Addr(s, c, Table)] = s.tab[Addr(s, c, Table)]
    <3>1. Table \in 0..Table /\ c \in Ino /\ c # d
      BY Bounds
    <3>2. \A n \in Ino, l \in 0..Table : Addr(s, n, l) # 0 /\ ~(n = d /\ l \in K) =>
            /\ r.blk[Addr(s, n, l)] = s.blk[Addr(s, n, l)]
            /\ r.tab[Addr(s, n, l)] = s.tab[Addr(s, n, l)]
      BY ClearedElse
    <3> QED
      BY <2>2, <3>1, <3>2
  <2> QED
    BY <1>1, <2>1, <2>2, AddrSame
<1> QED
  BY <1>1, <1>2

(* Every branch of delete_dir_entry frees the blocks it drops and leaves   *)
(* the other entries where they were.                                      *)
LEMMA CutKeeps ==
  ASSUME NEW s, NEW r, NEW d \in Ino, NEW p \in Linked(s, d), NEW y,
         IsFs(s), Blocks(s), Tables(s), Dots(s), Entries(s), IsDir(s, d),
         Cut(s, r, d, p, y), NewInode(s, r, d, y)
  PROVE  /\ Blocks(r) /\ Tables(r)
         /\ \A c \in Ino : IsDir(r, c) = IsDir(s, c)
         /\ \A c \in Ino, q \in Place : At(r, c, q) = IF c = d /\ q = p THEN Free ELSE At(s, c, q)
         /\ Inode(r, d).i_size = Inode(s, d).i_size - 1
         /\ \A c \in Ino \ {d} : Inode(r, c) = Inode(s, c)
<1>1. /\ p \in Place /\ p[1] \in 0..DIRECT /\ p[2] \in 1..PER_SEC /\ At(s, d, p) # Free /\ p = <<p[1], p[2]>>
      /\ Addr(s, d, p[1]) # 0
      /\ ~Beside(s, d, p) => p[1] # 0 /\ \A j \in 1..PER_SEC : j # p[2] => At(s, d, <<p[1], j>>) = Free
      /\ Beside(s, d, p) /\ p[1] = DIRECT =>
           \E j \in 1..PER_SEC : j # p[2] /\ At(s, d, <<DIRECT, j>>) # Free
  BY BesideIs
<1>2. Inode(r, d) = y /\ \A c \in Ino \ {d} : Inode(r, c) = Inode(s, c)
  BY DEF IsFs, Inode, NewInode
<1>3. Inode(r, d).i_size = Inode(s, d).i_size - 1
  BY <1>2 DEF Cut
<1>4. InodeOK(Inode(s, d))
  BY DEF IsFs, Inode
<1>5. CASE CutEntry(s, r, d, p, y)
  <2>1. /\ Blocks(r) /\ \A c \in Ino, l \in 0..Table : Addr(r, c, l) = Addr(s, c, l)
        /\ \A c \in Ino, q \in Place : At(r, c, q) = IF c = d /\ q = p THEN Free ELSE At(s, c, q)
    <3>1. /\ y.i_sectors = Inode(s, d).i_sectors /\ r.tab = s.tab /\ r.block_bitmap = s.block_bitmap
          /\ r.blk = [s.blk EXCEPT ![Addr(s, d, p[1])][p[2]] = Free]
      BY <1>5 DEF CutEntry
    <3>2. PICK e : e = Free
      OBVIOUS
    <3>3. PICK k \in 0..DIRECT, j \in 1..PER_SEC : k = p[1] /\ j = p[2]
      BY <1>1
    <3>4. Addr(s, d, k) # 0 /\ NewEntry(s, r, Addr(s, d, k), j, e)
      BY <1>1, <3>1, <3>2, <3>3 DEF NewEntry
    <3>5. /\ Blocks(r) /\ \A c \in Ino, l \in 0..Table : Addr(r, c, l) = Addr(s, c, l)
          /\ \A c \in Ino, q \in Place : At(r, c, q) = IF c = d /\ q = <<k, j>> THEN e ELSE At(s, c, q)
      <4>1. y.i_sectors = Inode(s, d).i_sectors /\ r.tab = s.tab /\ r.block_bitmap = s.block_bitmap
        BY <3>1
      <4>2. k \in 0..DIRECT /\ j \in 1..PER_SEC
        BY <3>3
      <4> QED
        BY <3>4, <4>1, <4>2, SetEntry
    <3> QED
      BY <1>1, <3>2, <3>3, <3>5
  <2>2. \A c \in Ino : IsDir(r, c) = IsDir(s, c)
    BY <2>1, Bounds DEF IsDir
  <2>3. Tables(r)
    <3> SUFFICES ASSUME NEW c \in Ino, Addr(r, c, Table) # 0
                 PROVE  /\ Addr(r, c, DIRECT) # 0 /\ \E n \in 1..PER_SEC : At(r, c, <<DIRECT, n>>) # Free
                        /\ \A n \in 1..(INDIRECT - 1) : r.tab[Addr(r, c, Table)][n] = 0
      BY DEF Tables
    <3>1. Addr(r, c, Table) = Addr(s, c, Table) /\ Addr(r, c, DIRECT) = Addr(s, c, DIRECT)
      BY <2>1, DirectIs, Bounds
    <3>2. PICK n \in 1..PER_SEC : At(s, c, <<DIRECT, n>>) # Free /\ ~(c = d /\ <<DIRECT, n>> = p)
      <4>1. \E n \in 1..PER_SEC : At(s, c, <<DIRECT, n>>) # Free
        BY <3>1 DEF Tables
      <4>2. CASE c = d /\ p[1] = DIRECT
        <5>1. PICK n \in 1..PER_SEC : n # p[2] /\ At(s, d, <<DIRECT, n>>) # Free
          BY <1>1, <1>5, <4>2 DEF CutEntry
        <5>2. <<DIRECT, n>> # p
          BY <1>1, <5>1
        <5> QED
          BY <4>2, <5>1, <5>2
      <4>3. CASE ~(c = d /\ p[1] = DIRECT)
        BY <1>1, <4>1, <4>3
      <4> QED
        BY <4>2, <4>3
    <3>3. At(r, c, <<DIRECT, n>>) # Free
      BY <2>1, <3>2, PlaceIs, Bounds
    <3>4. r.tab = s.tab
      BY <1>5 DEF CutEntry
    <3> QED
      BY <3>1, <3>3, <3>4 DEF Tables
  <2> QED
    BY <1>2, <1>3, <2>1, <2>2, <2>3
<1>6. CASE CutSector(s, r, d, p, y)
  <2>1. PICK k : k = p[1]
    OBVIOUS
  <2>2. PICK K : K = {k}
    OBVIOUS
  <2>3. /\ k \in Direct /\ k \in 0..DIRECT /\ k # DIRECT /\ k # Table /\ k # 0 /\ K \in SUBSET (0..Table)
        /\ \A j \in 1..PER_SEC : j # p[2] => At(s, d, <<p[1], j>>) = Free
    BY <1>1, <1>6, <2>1, <2>2, DirectIs DEF CutSector
  <2>4. PICK B : Cleared(s, r, B) /\ AddrsOf(s, d, K, B)
    BY <1>6, <2>1, <2>2 DEF CutSector, AddrsOf
  <2>5. \A c \in Ino, l \in 0..Table : c # d => Addr(r, c, l) = Addr(s, c, l)
    <3>1. K \in SUBSET (0..Table)
      BY <2>3
    <3>2. /\ Inode(r, d) = y /\ \A c \in Ino \ {d} : Inode(r, c) = Inode(s, c)
          /\ \A c \in Ino, l \in 0..Table : c # d => Addr(r, c, l) = Addr(s, c, l)
          /\ \A c \in Ino \ {d} :
               Addr(s, c, Table) # 0 => r.tab[Addr(s, c, Table)] = s.tab[Addr(s, c, Table)]
      BY <2>4, <3>1, CutOthers
    <3> QED
      BY <3>2
  <2>6. \A l \in 0..DIRECT : y.i_sectors[l] = IF l = k THEN 0 ELSE Inode(s, d).i_sectors[l]
    BY <1>4, <1>6, <2>1, <2>3 DEF CutSector, InodeOK
  <2>7. Addr(r, d, Table) = Addr(s, d, Table)
    BY <1>2, <2>3, <2>6, AddrIs, Bounds
  <2>8. Addr(s, d, Table) # 0 => r.tab[Addr(s, d, Table)] = s.tab[Addr(s, d, Table)]
    <3>1. Table \in 0..Table /\ Table \notin K
      BY <2>2, <2>3, Bounds
    <3>2. \A n \in Ino, l \in 0..Table : Addr(s, n, l) # 0 /\ ~(n = d /\ l \in K) =>
            /\ r.blk[Addr(s, n, l)] = s.blk[Addr(s, n, l)]
            /\ r.tab[Addr(s, n, l)] = s.tab[Addr(s, n, l)]
      BY <2>3, <2>4, ClearedElse
    <3> QED
      BY <3>1, <3>2
  <2>9. Addr(r, d, DIRECT) = Addr(s, d, DIRECT)
    BY <2>7, <2>8, AddrIs
  <2>10. \A l \in Direct : Addr(r, d, l) = IF l = k THEN 0 ELSE Addr(s, d, l)
    BY <1>2, <2>6, AddrIs, DirectIs
  <2>11. \A c \in Ino, l \in 0..Table : Addr(r, c, l) = IF c = d /\ l \in K THEN 0 ELSE Addr(s, c, l)
    BY <2>2, <2>3, <2>5, <2>7, <2>9, <2>10, DirectIs
  <2>12. /\ Blocks(r)
         /\ \A c \in Ino, q \in Place : At(r, c, q) = IF c = d /\ q = p THEN Free ELSE At(s, c, q)
    <3>1. p[1] \in K /\ K \cap (0..DIRECT) = {p[1]}
      BY <2>1, <2>2, <2>3
    <3> QED
      BY <1>1, <2>3, <2>4, <2>11, <3>1, CutSectors
  <2>13. \A c \in Ino : IsDir(r, c) = IsDir(s, c)
    BY <2>2, <2>3, <2>11, Bounds DEF IsDir
  <2>14. Tables(r)
    <3> SUFFICES ASSUME NEW c \in Ino, Addr(r, c, Table) # 0
                 PROVE  /\ Addr(r, c, DIRECT) # 0 /\ \E n \in 1..PER_SEC : At(r, c, <<DIRECT, n>>) # Free
                        /\ \A n \in 1..(INDIRECT - 1) : r.tab[Addr(r, c, Table)][n] = 0
      BY DEF Tables
    <3>1. Addr(r, c, Table) = Addr(s, c, Table) /\ Addr(r, c, DIRECT) = Addr(s, c, DIRECT)
      BY <2>2, <2>3, <2>11, DirectIs, Bounds
    <3>2. \A n \in 1..PER_SEC : At(r, c, <<DIRECT, n>>) = At(s, c, <<DIRECT, n>>)
      <4>1. \A n \in 1..PER_SEC : <<DIRECT, n>> # p /\ <<DIRECT, n>> \in Place
        BY <1>1, <2>1, <2>3, PlaceIs, Bounds
      <4> QED
        BY <2>12, <4>1
    <3>3. r.tab[Addr(s, c, Table)] = s.tab[Addr(s, c, Table)]
      <4>1. c # d => r.tab[Addr(s, c, Table)] = s.tab[Addr(s, c, Table)]
        <5>1. K \in SUBSET (0..Table)
          BY <2>3
        <5>2. \A n \in Ino \ {d} : Addr(s, n, Table) # 0 => r.tab[Addr(s, n, Table)] = s.tab[Addr(s, n, Table)]
          BY <2>4, <5>1, CutOthers
        <5> QED
          BY <3>1, <5>2
      <4> QED
        BY <2>8, <3>1, <4>1
    <3> QED
      BY <3>1, <3>2, <3>3 DEF Tables
  <2> QED
    BY <1>2, <1>3, <2>12, <2>13, <2>14
<1>7. CASE CutTable(s, r, d, p, y)
  <2>1. PICK K : K = {DIRECT, Table}
    OBVIOUS
  <2>2. /\ p[1] = DIRECT /\ K \in SUBSET (0..Table)
        /\ \A j \in 1..PER_SEC : j # p[2] => At(s, d, <<p[1], j>>) = Free
    BY <1>1, <1>7, <2>1, DirectIs, Bounds DEF CutTable
  <2>3. PICK B : Cleared(s, r, B) /\ AddrsOf(s, d, K, B)
    BY <1>7, <2>1 DEF CutTable, AddrsOf
  <2>4. \A c \in Ino, l \in 0..Table : c # d => Addr(r, c, l) = Addr(s, c, l)
    <3>1. K \in SUBSET (0..Table)
      BY <2>2
    <3>2. /\ Inode(r, d) = y /\ \A c \in Ino \ {d} : Inode(r, c) = Inode(s, c)
          /\ \A c \in Ino, k \in 0..Table : c # d => Addr(r, c, k) = Addr(s, c, k)
          /\ \A c \in Ino \ {d} :
               Addr(s, c, Table) # 0 => r.tab[Addr(s, c, Table)] = s.tab[Addr(s, c, Table)]
      BY <2>3, <3>1, CutOthers
    <3> QED
      BY <3>2
  <2>5. \A l \in 0..DIRECT : y.i_sectors[l] = IF l = DIRECT THEN 0 ELSE Inode(s, d).i_sectors[l]
    BY <1>4, <1>7, Bounds DEF CutTable, InodeOK
  <2>6. Addr(r, d, Table) = 0
    BY <1>2, <2>5, AddrIs, Bounds
  <2>7. Addr(r, d, DIRECT) = 0
    BY <2>6, AddrIs
  <2>8. \A l \in Direct : Addr(r, d, l) = Addr(s, d, l)
    BY <1>2, <2>5, AddrIs, DirectIs
  <2>9. \A c \in Ino, l \in 0..Table : Addr(r, c, l) = IF c = d /\ l \in K THEN 0 ELSE Addr(s, c, l)
    BY <2>1, <2>4, <2>6, <2>7, <2>8, DirectIs
  <2>10. /\ Blocks(r)
         /\ \A c \in Ino, q \in Place : At(r, c, q) = IF c = d /\ q = p THEN Free ELSE At(s, c, q)
    <3>1. p[1] \in K /\ K \cap (0..DIRECT) = {p[1]}
      BY <2>1, <2>2, Bounds
    <3>2. p \in Place /\ K \in SUBSET (0..Table) /\ \A j \in 1..PER_SEC : j # p[2] => At(s, d, <<p[1], j>>) = Free
      BY <1>1, <2>2
    <3> QED
      BY <2>3, <2>9, <3>1, <3>2, CutSectors
  <2>11. \A c \in Ino : IsDir(r, c) = IsDir(s, c)
    BY <2>1, <2>9, DirectIs, Bounds DEF IsDir
  <2>12. Tables(r)
    <3> SUFFICES ASSUME NEW c \in Ino, Addr(r, c, Table) # 0
                 PROVE  /\ Addr(r, c, DIRECT) # 0 /\ \E n \in 1..PER_SEC : At(r, c, <<DIRECT, n>>) # Free
                        /\ \A n \in 1..(INDIRECT - 1) : r.tab[Addr(r, c, Table)][n] = 0
      BY DEF Tables
    <3>1. c # d
      BY <2>6
    <3>2. Addr(r, c, Table) = Addr(s, c, Table) /\ Addr(r, c, DIRECT) = Addr(s, c, DIRECT)
      BY <2>4, <3>1, DirectIs, Bounds
    <3>3. \A n \in 1..PER_SEC : At(r, c, <<DIRECT, n>>) = At(s, c, <<DIRECT, n>>)
      BY <2>10, <3>1, PlaceIs, Bounds
    <3>4. r.tab[Addr(s, c, Table)] = s.tab[Addr(s, c, Table)]
      <4>1. K \in SUBSET (0..Table)
        BY <2>2
      <4>2. \A n \in Ino \ {d} : Addr(s, n, Table) # 0 => r.tab[Addr(s, n, Table)] = s.tab[Addr(s, n, Table)]
        BY <2>3, <4>1, CutOthers
      <4> QED
        BY <3>1, <3>2, <4>2
    <3> QED
      BY <3>2, <3>3, <3>4 DEF Tables
  <2> QED
    BY <1>2, <1>3, <2>10, <2>11, <2>12
<1> QED
  BY <1>5, <1>6, <1>7 DEF Cut
-----------------------------------------------------------------------------
(* sync_dir_entry, and inode_sync of the directory.                        *)
AddEntry(s, d, e) == LET r == sync_dir_entry(s, d, e) IN inode_sync(r, d, r.mem[d])

LEMMA SyncFree ==
  ASSUME NEW s, NEW d \in Ino, NEW e, NEW x, IsFs(s), x = s.mem[d], InodeOK(x), d < WRAP,
         RoomAt(s, d) < DIRECT, x.i_sectors[RoomAt(s, d)] # 0
  PROVE  \E y : /\ Put(s, AddEntry(s, d, e), x, y, e) /\ InodeOK(y)
                /\ OnlyInode(s, AddEntry(s, d, e), d, y)
<1>1. PICK k : k = RoomAt(s, d)
  OBVIOUS
<1>2. PICK b : b = x.i_sectors[k]
  OBVIOUS
<1>3. k \in Direct /\ HasRoom(s, d, k)
  BY <1>1, RoomOK, Bounds DEF Direct
<1>4. PICK j : j = Min({n \in 1..PER_SEC : s.blk[b][n] = Free})
  OBVIOUS
<1>5. j \in 1..PER_SEC /\ s.blk[b][j] = Free
  <2>1. \E n \in 1..PER_SEC : s.blk[b][n] = Free
    BY <1>1, <1>2, <1>3, DirectIs DEF HasRoom
  <2>2. {n \in 1..PER_SEC : s.blk[b][n] = Free} \in SUBSET Nat
    BY Bounds
  <2>3. PICK S : S = {n \in 1..PER_SEC : s.blk[b][n] = Free}
    OBVIOUS
  <2>4. S \in SUBSET Nat /\ S # {}
    BY <2>1, <2>2, <2>3
  <2>5. Min(S) \in S
    BY ONLY <2>4, LeastNat
  <2> QED
    BY ONLY <1>4, <2>3, <2>5
<1>6. PICK y : y = [x EXCEPT !.i_size = @ + 1]
  OBVIOUS
<1>7. y = [i_size |-> x.i_size + 1, i_sectors |-> x.i_sectors]
  BY <1>6 DEF InodeOK
<1>8. InodeOK(y)
  BY <1>7 DEF InodeOK
<1>9. FsRec(s) /\ s.mem = [i \in Ino |-> s.mem[i]] /\ s.mem[d] = x
  BY DEF IsFs
<1>10. PICK r : r = [s EXCEPT !.mem = [s.mem EXCEPT ![d] = y], !.blk = [s.blk EXCEPT ![b][j] = e]]
  OBVIOUS
<1>11. sync_dir_entry(s, d, e) = [[s EXCEPT !.mem[d].i_size = @ + 1] EXCEPT !.blk[b][j] = e]
  BY <1>1, <1>2, <1>4, Zenon DEF sync_dir_entry
<1>12. [s EXCEPT !.mem[d].i_size = @ + 1] = [s EXCEPT !.mem = [s.mem EXCEPT ![d] = y]]
  BY <1>6, Zenon
<1>13. sync_dir_entry(s, d, e) = r
  BY <1>9, <1>10, <1>11, <1>12 DEF FsRec
<1>14. /\ FsRec(r) /\ r.mem[d] = y /\ r.mem = [s.mem EXCEPT ![d] = y]
       /\ r.blk = [s.blk EXCEPT ![b][j] = e] /\ r.tab = s.tab /\ r.inode_table = s.inode_table
       /\ r.inode_bitmap = s.inode_bitmap /\ r.disk_ibits = s.disk_ibits
       /\ r.open = s.open /\ r.file_table = s.file_table
       /\ r.block_bitmap = s.block_bitmap /\ r.disk_bbits = s.disk_bbits
  BY <1>9, <1>10 DEF FsRec
<1>15. PICK q : q = AddEntry(s, d, e)
  OBVIOUS
<1>16. q = [r EXCEPT !.inode_table[d] = y]
  <2>1. q = inode_sync(r, d, y)
    BY <1>13, <1>14, <1>15 DEF AddEntry
  <2> QED
    BY ONLY <2>1, d \in Ino, d < WRAP, SyncAt
<1>17. OnlyInode(s, q, d, y) /\ q.blk = r.blk /\ q.tab = r.tab /\ q.block_bitmap = r.block_bitmap
  BY <1>14, <1>16 DEF FsRec, OnlyInode, NewInode, Stored
<1>18. NewEntry(s, q, b, j, e) /\ q.tab = s.tab /\ q.block_bitmap = s.block_bitmap
  BY <1>14, <1>17 DEF NewEntry
<1>19. PutFree(s, q, x, y, e)
  <2>1. b # 0 /\ y.i_sectors = x.i_sectors
    BY <1>1, <1>2, <1>7
  <2> QED
    BY <1>2, <1>3, <1>5, <1>18, <2>1 DEF PutFree
<1> QED
  BY <1>7, <1>8, <1>15, <1>17, <1>19 DEF Put

LEMMA SyncSector ==
  ASSUME NEW s, NEW d \in Ino, NEW e, NEW x, IsFs(s), x = s.mem[d], InodeOK(x), d < WRAP,
         RoomAt(s, d) < DIRECT, x.i_sectors[RoomAt(s, d)] = 0, Cardinality(FreeBlocks(s)) >= 1
  PROVE  \E y : /\ Put(s, AddEntry(s, d, e), x, y, e) /\ InodeOK(y)
                /\ OnlyInode(s, AddEntry(s, d, e), d, y)
<1>1. PICK k : k = RoomAt(s, d)
  OBVIOUS
<1>2. PICK t : t = Min(FreeBlocks(s))
  OBVIOUS
<1>3. k \in Direct /\ t \in FreeBlocks(s) /\ t \in Address /\ t \in Block
  <2>1. k \in Direct
    BY <1>1, RoomOK, Bounds DEF Direct
  <2>2. t \in FreeBlocks(s)
    BY <1>2, OneFree
  <2> QED
    BY <2>1, <2>2, Bounds DEF FreeBlocks
<1>4. PICK y : y = [x EXCEPT !.i_size = @ + 1, !.i_sectors[k] = t]
  OBVIOUS
<1>5. y = [i_size |-> x.i_size + 1, i_sectors |-> [x.i_sectors EXCEPT ![k] = t]]
  BY <1>4 DEF InodeOK
<1>6. InodeOK(y)
  <2>1. [x.i_sectors EXCEPT ![k] = t] \in [0..DIRECT -> Address]
    BY <1>3, DirectIs DEF InodeOK
  <2> QED
    BY <1>5, <2>1 DEF InodeOK
<1>7. FsRec(s) /\ s.mem = [i \in Ino |-> s.mem[i]] /\ s.mem[d] = x
  BY DEF IsFs
<1>8. PICK r : r = [s EXCEPT !.mem = [s.mem EXCEPT ![d] = y], !.blk = [s.blk EXCEPT ![t] = Alone(e)]]
  OBVIOUS
<1>9. sync_dir_entry(s, d, e)
        = TakeBlock([[s EXCEPT !.mem[d].i_size = @ + 1]
                       EXCEPT !.mem[d].i_sectors[k] = t, !.blk[t] = [EmptySector EXCEPT ![1] = e]])
  BY <1>1, <1>2, Zenon DEF sync_dir_entry
<1>10. [[s EXCEPT !.mem[d].i_size = @ + 1]
          EXCEPT !.mem[d].i_sectors[k] = t, !.blk[t] = [EmptySector EXCEPT ![1] = e]] = r
  <2>1. PICK z : z = [x EXCEPT !.i_size = @ + 1]
    OBVIOUS
  <2>2. PICK M : M = [s.mem EXCEPT ![d] = z]
    OBVIOUS
  <2>3. [s EXCEPT !.mem[d].i_size = @ + 1] = [s EXCEPT !.mem = M]
    BY <2>1, <2>2, Zenon
  <2>4. M[d] = z /\ z = [i_size |-> x.i_size + 1, i_sectors |-> x.i_sectors]
    BY <1>7, <2>1, <2>2 DEF InodeOK
  <2>5. [M[d] EXCEPT !.i_sectors[k] = t] = y
    BY <1>5, <2>4
  <2>6. [M EXCEPT ![d].i_sectors[k] = t] = [M EXCEPT ![d] = y]
    BY <2>5
  <2>7. [M EXCEPT ![d] = y] = [s.mem EXCEPT ![d] = y]
    BY <1>7, <2>2
  <2>8. [[s EXCEPT !.mem = M] EXCEPT !.mem[d].i_sectors[k] = t, !.blk[t] = [EmptySector EXCEPT ![1] = e]]
          = [s EXCEPT !.mem = [M EXCEPT ![d].i_sectors[k] = t], !.blk = [s.blk EXCEPT ![t] = Alone(e)]]
    BY <1>7 DEF FsRec, Alone
  <2> QED
    BY <1>8, <2>3, <2>6, <2>7, <2>8
<1>11. /\ FsRec(r) /\ r.mem[d] = y /\ r.mem = [s.mem EXCEPT ![d] = y]
       /\ r.blk = [s.blk EXCEPT ![t] = Alone(e)] /\ r.tab = s.tab /\ r.inode_table = s.inode_table
       /\ r.inode_bitmap = s.inode_bitmap /\ r.disk_ibits = s.disk_ibits
       /\ r.open = s.open /\ r.file_table = s.file_table
       /\ r.block_bitmap = s.block_bitmap /\ r.disk_bbits = s.disk_bbits
  BY <1>7, <1>8 DEF FsRec
<1>12. FreeBlocks(r) = FreeBlocks(s)
  BY <1>11 DEF FreeBlocks
<1>13. PICK u : u = TakeBlock(r)
  OBVIOUS
<1>14. /\ u = [r EXCEPT !.block_bitmap = s.block_bitmap \cup {t}, !.disk_bbits = u.disk_bbits]
       /\ Stored(r) => Stored(u)
  <2>1. FsRec(r)
    BY <1>11
  <2>2. r.block_bitmap = s.block_bitmap /\ Min(FreeBlocks(r)) = t /\ t \in Block
    BY <1>2, <1>3, <1>11, <1>12
  <2>3. TakenFrom(r, u, t)
    BY ONLY <1>13, <2>1, <2>2, TakeIs
  <2> QED
    BY ONLY <2>2, <2>3 DEF TakenFrom
<1>15. PICK q : q = AddEntry(s, d, e)
  OBVIOUS
<1>16. u.mem[d] = y
  BY <1>11, <1>14 DEF FsRec
<1>17. q = [u EXCEPT !.inode_table[d] = y]
  <2>1. q = inode_sync(u, d, y)
    BY <1>9, <1>10, <1>13, <1>15, <1>16, Zenon DEF AddEntry
  <2> QED
    BY ONLY <2>1, d \in Ino, d < WRAP, SyncAt
<1>18. OnlyInode(s, q, d, y) /\ q.blk = r.blk /\ q.tab = r.tab /\ q.block_bitmap = s.block_bitmap \cup {t}
  <2>1. Stored(s) => Stored(r)
    BY ONLY <1>11 DEF Stored
  <2>2. /\ FsRec(u) /\ u.mem = r.mem /\ u.blk = r.blk /\ u.tab = r.tab /\ u.inode_table = r.inode_table
        /\ u.inode_bitmap = r.inode_bitmap /\ u.disk_ibits = r.disk_ibits
        /\ u.open = r.open /\ u.file_table = r.file_table /\ u.block_bitmap = s.block_bitmap \cup {t}
    BY ONLY <1>11, <1>14 DEF FsRec
  <2>3. /\ FsRec(q) /\ q.mem = u.mem /\ q.blk = u.blk /\ q.tab = u.tab
        /\ q.inode_table = [u.inode_table EXCEPT ![d] = y]
        /\ q.inode_bitmap = u.inode_bitmap /\ q.disk_ibits = u.disk_ibits
        /\ q.open = u.open /\ q.file_table = u.file_table
        /\ q.block_bitmap = u.block_bitmap /\ q.disk_bbits = u.disk_bbits
    BY ONLY <1>17, <2>2 DEF FsRec
  <2>4. Stored(u) => Stored(q)
    BY ONLY <2>3 DEF Stored
  <2> QED
    BY <1>11, <1>14, <2>1, <2>2, <2>3, <2>4 DEF OnlyInode, NewInode
<1>19. PutSector(s, q, x, y, e)
  <2>1. NewSector(s, q, t, e) /\ NewAddr(x, y, k, t) /\ q.tab = s.tab
    BY <1>5, <1>11, <1>18 DEF NewSector, NewAddr
  <2>2. x.i_sectors[k] = 0 /\ q.block_bitmap = s.block_bitmap \cup {t}
    BY <1>1, <1>18
  <2> QED
    BY <1>3, <2>1, <2>2 DEF PutSector
<1> QED
  BY <1>5, <1>6, <1>15, <1>18, <1>19 DEF Put

LEMMA SyncTable ==
  ASSUME NEW s, NEW d \in Ino, NEW e, NEW x, IsFs(s), x = s.mem[d], InodeOK(x), d < WRAP,
         RoomAt(s, d) = DIRECT, Cardinality(FreeBlocks(s)) >= 2
  PROVE  \E y : /\ Put(s, AddEntry(s, d, e), x, y, e) /\ InodeOK(y)
                /\ OnlyInode(s, AddEntry(s, d, e), d, y)
<1>1. PICK t : t = Min(FreeBlocks(s))
  OBVIOUS
<1>2. PICK u : u = Min(FreeBlocks(s) \ {t})
  OBVIOUS
<1>3. t \in FreeBlocks(s) /\ u \in FreeBlocks(s) /\ t # u
  <2>1. t \in FreeBlocks(s) /\ u \in FreeBlocks(s) \ {t}
    BY <1>1, <1>2, TwoFree
  <2> QED
    BY <2>1
<1>4. t \in Address /\ t \in Block /\ u \in Block
  BY <1>3, Bounds DEF FreeBlocks
<1>5. Full(s, x)
  <2>1. \A k \in Direct : k \in 0..DIRECT /\ ~(DIRECT <= k)
    BY Bounds DEF Direct
  <2>2. \A k \in Direct : ~HasRoom(s, d, k)
    BY <2>1, RoomOK
  <2> QED
    BY <2>2 DEF HasRoom, Full
<1>6. PICK y : y = [x EXCEPT !.i_size = @ + 1, !.i_sectors[DIRECT] = t]
  OBVIOUS
<1>7. y = [i_size |-> x.i_size + 1, i_sectors |-> [x.i_sectors EXCEPT ![DIRECT] = t]]
  BY <1>6 DEF InodeOK
<1>8. InodeOK(y)
  <2>1. [x.i_sectors EXCEPT ![DIRECT] = t] \in [0..DIRECT -> Address]
    BY <1>4 DEF InodeOK
  <2> QED
    BY <1>7, <2>1 DEF InodeOK
<1>9. FsRec(s) /\ s.mem = [i \in Ino |-> s.mem[i]] /\ s.mem[d] = x
  BY DEF IsFs
<1>10. PICK T : T = [s.tab EXCEPT ![t] = [EmptyTable EXCEPT ![0] = u]]
  OBVIOUS
<1>11. PICK r : r = [s EXCEPT !.mem = [s.mem EXCEPT ![d] = y], !.tab = T,
                              !.blk = [s.blk EXCEPT ![u] = Alone(e)]]
  OBVIOUS
<1>12. sync_dir_entry(s, d, e)
         = TakeBlock(TakeBlock([[s EXCEPT !.mem[d].i_size = @ + 1]
                                  EXCEPT !.mem[d].i_sectors[DIRECT] = t,
                                         !.tab[t] = [EmptyTable EXCEPT ![0] = u],
                                         !.blk[u] = [EmptySector EXCEPT ![1] = e]]))
  <2>1. ~(RoomAt(s, d) < DIRECT)
    BY Bounds
  <2> QED
    BY <1>1, <1>2, <2>1, Zenon DEF sync_dir_entry
<1>13. [[s EXCEPT !.mem[d].i_size = @ + 1]
          EXCEPT !.mem[d].i_sectors[DIRECT] = t, !.tab[t] = [EmptyTable EXCEPT ![0] = u],
                 !.blk[u] = [EmptySector EXCEPT ![1] = e]] = r
  <2>1. PICK z : z = [x EXCEPT !.i_size = @ + 1]
    OBVIOUS
  <2>2. PICK M : M = [s.mem EXCEPT ![d] = z]
    OBVIOUS
  <2>3. [s EXCEPT !.mem[d].i_size = @ + 1] = [s EXCEPT !.mem = M]
    BY <2>1, <2>2, Zenon
  <2>4. M[d] = z /\ z = [i_size |-> x.i_size + 1, i_sectors |-> x.i_sectors]
    BY <1>9, <2>1, <2>2 DEF InodeOK
  <2>5. [M[d] EXCEPT !.i_sectors[DIRECT] = t] = y
    BY <1>7, <2>4
  <2>6. [M EXCEPT ![d].i_sectors[DIRECT] = t] = [M EXCEPT ![d] = y]
    BY <2>5
  <2>7. [M EXCEPT ![d] = y] = [s.mem EXCEPT ![d] = y]
    BY <1>9, <2>2
  <2>8. [[s EXCEPT !.mem = M]
           EXCEPT !.mem[d].i_sectors[DIRECT] = t, !.tab[t] = [EmptyTable EXCEPT ![0] = u],
                  !.blk[u] = [EmptySector EXCEPT ![1] = e]]
          = [s EXCEPT !.mem = [M EXCEPT ![d].i_sectors[DIRECT] = t], !.tab = T,
                      !.blk = [s.blk EXCEPT ![u] = Alone(e)]]
    BY <1>9, <1>10 DEF FsRec, Alone
  <2> QED
    BY <1>11, <2>3, <2>6, <2>7, <2>8
<1>14. /\ FsRec(r) /\ r.mem[d] = y /\ r.mem = [s.mem EXCEPT ![d] = y]
       /\ r.blk = [s.blk EXCEPT ![u] = Alone(e)] /\ r.tab = T /\ r.inode_table = s.inode_table
       /\ r.inode_bitmap = s.inode_bitmap /\ r.disk_ibits = s.disk_ibits
       /\ r.open = s.open /\ r.file_table = s.file_table
       /\ r.block_bitmap = s.block_bitmap /\ r.disk_bbits = s.disk_bbits
  BY <1>9, <1>11 DEF FsRec
<1>15. FreeBlocks(r) = FreeBlocks(s)
  BY <1>14 DEF FreeBlocks
<1>16. PICK v : v = TakeBlock(r)
  OBVIOUS
<1>17. /\ v = [r EXCEPT !.block_bitmap = s.block_bitmap \cup {t}, !.disk_bbits = v.disk_bbits]
       /\ Stored(r) => Stored(v)
  <2>1. FsRec(r) /\ r.block_bitmap = s.block_bitmap /\ Min(FreeBlocks(r)) = t
    BY <1>1, <1>14, <1>15
  <2>2. TakenFrom(r, v, t)
    BY ONLY <1>4, <1>16, <2>1, TakeIs
  <2> QED
    BY ONLY <2>1, <2>2 DEF TakenFrom
<1>18. FsRec(v) /\ v.block_bitmap = s.block_bitmap \cup {t}
  BY <1>14, <1>17 DEF FsRec
<1>19. FreeBlocks(v) = FreeBlocks(s) \ {t}
  BY <1>18 DEF FreeBlocks
<1>20. PICK B : B = s.block_bitmap \cup {t, u}
  OBVIOUS
<1>21. PICK w : w = TakeBlock(v)
  OBVIOUS
<1>22. PICK D : D = w.disk_bbits
  OBVIOUS
<1>23. w = [v EXCEPT !.block_bitmap = B, !.disk_bbits = D] /\ (Stored(v) => Stored(w))
  <2>1. FsRec(v) /\ Min(FreeBlocks(v)) = u
    BY <1>2, <1>18, <1>19
  <2>2. TakenFrom(v, w, u)
    BY ONLY <1>4, <1>21, <2>1, TakeIs
  <2>3. v.block_bitmap \cup {u} = B
    BY <1>18, <1>20
  <2> QED
    BY ONLY <1>22, <2>2, <2>3 DEF TakenFrom
<1>24. /\ FsRec(w) /\ w.mem[d] = y /\ w.mem = [s.mem EXCEPT ![d] = y]
       /\ w.blk = r.blk /\ w.tab = T /\ w.inode_table = s.inode_table
       /\ w.inode_bitmap = s.inode_bitmap /\ w.disk_ibits = s.disk_ibits
       /\ w.open = s.open /\ w.file_table = s.file_table
       /\ w.block_bitmap = B /\ w.disk_bbits = D
  <2>1. w = [v EXCEPT !.block_bitmap = B, !.disk_bbits = D]
    BY <1>23
  <2>2. /\ FsRec(v) /\ v.mem = r.mem /\ v.blk = r.blk /\ v.tab = r.tab /\ v.inode_table = r.inode_table
        /\ v.inode_bitmap = r.inode_bitmap /\ v.disk_ibits = r.disk_ibits
        /\ v.open = r.open /\ v.file_table = r.file_table
    BY ONLY <1>14, <1>17 DEF FsRec
  <2>3. /\ FsRec(w) /\ w.mem = v.mem /\ w.blk = v.blk /\ w.tab = v.tab /\ w.inode_table = v.inode_table
        /\ w.inode_bitmap = v.inode_bitmap /\ w.disk_ibits = v.disk_ibits
        /\ w.open = v.open /\ w.file_table = v.file_table /\ w.block_bitmap = B /\ w.disk_bbits = D
    BY ONLY <2>1, <2>2 DEF FsRec
  <2> QED
    BY ONLY <1>14, <2>2, <2>3
<1>25. PICK q : q = AddEntry(s, d, e)
  OBVIOUS
<1>26. q = [w EXCEPT !.inode_table[d] = y]
  <2>1. q = inode_sync(w, d, y)
    BY <1>12, <1>13, <1>16, <1>21, <1>24, <1>25, Zenon DEF AddEntry
  <2> QED
    BY ONLY <2>1, d \in Ino, d < WRAP, SyncAt
<1>27. OnlyInode(s, q, d, y) /\ q.blk = r.blk /\ q.tab = T /\ q.block_bitmap = B
  <2>1. Stored(s) => Stored(w)
    <3>1. Stored(s) => Stored(r)
      BY ONLY <1>14 DEF Stored
    <3> QED
      BY <1>17, <1>23, <3>1
  <2>2. /\ FsRec(q) /\ q.mem = w.mem /\ q.blk = w.blk /\ q.tab = w.tab
        /\ q.inode_table = [w.inode_table EXCEPT ![d] = y]
        /\ q.inode_bitmap = w.inode_bitmap /\ q.disk_ibits = w.disk_ibits
        /\ q.open = w.open /\ q.file_table = w.file_table
        /\ q.block_bitmap = w.block_bitmap /\ q.disk_bbits = w.disk_bbits
    BY ONLY <1>24, <1>26 DEF FsRec
  <2>3. Stored(w) => Stored(q)
    BY ONLY <2>2 DEF Stored
  <2> QED
    BY <1>24, <2>1, <2>2, <2>3 DEF OnlyInode, NewInode
<1>28. PutTable(s, q, x, y, e)
  <2>1. NewSector(s, q, u, e) /\ NewAddr(x, y, DIRECT, t)
    BY <1>7, <1>14, <1>27 DEF NewSector, NewAddr
  <2> QED
    BY <1>3, <1>5, <1>10, <1>20, <1>27, <2>1 DEF PutTable
<1> QED
  BY <1>7, <1>8, <1>25, <1>27, <1>28 DEF Put

(* sync_dir_entry puts one entry in, whichever of its three branches runs. *)
LEMMA SyncIs ==
  ASSUME NEW s, NEW d \in Ino, NEW e, NEW x, IsFs(s), x = s.mem[d], InodeOK(x), d < WRAP,
         Cardinality(FreeBlocks(s)) >= BlocksNeeded(s, d)
  PROVE  \E y : /\ Put(s, AddEntry(s, d, e), x, y, e) /\ InodeOK(y)
                /\ OnlyInode(s, AddEntry(s, d, e), d, y)
<1>1. RoomAt(s, d) < DIRECT \/ RoomAt(s, d) = DIRECT
  BY RoomOK, Bounds
<1>2. CASE RoomAt(s, d) = DIRECT
  <2>1. BlocksNeeded(s, d) = 2
    BY <1>2 DEF BlocksNeeded
  <2> QED
    BY <1>2, <2>1, SyncTable
<1>3. CASE RoomAt(s, d) < DIRECT /\ x.i_sectors[RoomAt(s, d)] = 0
  <2>1. BlocksNeeded(s, d) = 1
    BY <1>3, Bounds DEF BlocksNeeded
  <2> QED
    BY <1>3, <2>1, SyncSector
<1>4. CASE RoomAt(s, d) < DIRECT /\ x.i_sectors[RoomAt(s, d)] # 0
  BY <1>4, SyncFree
<1> QED
  BY <1>1, <1>2, <1>3, <1>4
-----------------------------------------------------------------------------
(* inode_release, of an inode whose blocks can only be those of the view.  *)
LEMMA BlocksOfIs ==
  ASSUME NEW s, IsFs(s), MemOK(s), Tables(s), NEW i \in Ino
  PROVE  BlocksOf(s, Inode(s, i)) = {Addr(s, i, k) : k \in 0..Table} \ {0}
<1> DEFINE A == {Addr(s, i, k) : k \in 0..Table} \ {0}
           X == {all_blocks(s, Inode(s, i), k) : k \in Index}
<1>1. Inode(s, i).i_sectors[DIRECT] = Addr(s, i, Table) /\ Table \in 0..Table
  BY AddrIs, Bounds
<1>2. \A k \in 0..DIRECT : k \in Index /\ k \in 0..Table /\ all_blocks(s, Inode(s, i), k) = Addr(s, i, k)
  BY ViewIs, Bounds
<1>3. \A k \in Index : k \notin 0..DIRECT => all_blocks(s, Inode(s, i), k) = 0
  BY ViewIs
<1>4. \A k \in 0..Table : k \in 0..DIRECT \/ k = Table
  BY Bounds
<1>5. BlocksOf(s, Inode(s, i)) = (X \cup {Addr(s, i, Table)}) \ {0}
  BY <1>1 DEF BlocksOf
<1>6. ASSUME NEW b, b # 0 PROVE b \in X \cup {Addr(s, i, Table)} <=> b \in {Addr(s, i, k) : k \in 0..Table}
  <2>1. b \in X => \E k \in 0..DIRECT : b = Addr(s, i, k)
    BY <1>2, <1>3, <1>6
  <2>2. (\E k \in 0..DIRECT : b = Addr(s, i, k)) => b \in X
    BY <1>2
  <2>3. b \in {Addr(s, i, k) : k \in 0..Table} <=> b = Addr(s, i, Table) \/ \E k \in 0..DIRECT : b = Addr(s, i, k)
    BY <1>1, <1>2, <1>4
  <2> QED
    BY <2>1, <2>2, <2>3
<1> QED
  BY <1>5, <1>6

(* inode_release gives the blocks of the inode back, the table first.      *)
LEMMA GivenIs ==
  ASSUME NEW s, NEW x
  PROVE  /\ DOMAIN Given(s, x) \subseteq Nat
         /\ {Given(s, x)[n] : n \in DOMAIN Given(s, x)} \ {0} = BlocksOf(s, x)
<1> DEFINE N == 1..(DIRECT + INDIRECT + 1)
<1>1. PICK g : g = Given(s, x)
  OBVIOUS
<1>2. DOMAIN g = N /\ \A n \in N : g[n] = IF n = 1 THEN x.i_sectors[DIRECT] ELSE all_blocks(s, x, n - 2)
  BY <1>1 DEF Given
<1>3. DIRECT \in Nat /\ DIRECT > 0 /\ INDIRECT \in Nat
  BY Bounds
<1>4. N \subseteq Nat /\ 1 \in N /\ (\A n \in N : n # 1 => n - 2 \in Index)
      /\ \A k \in Index : k + 2 \in N /\ k + 2 # 1 /\ (k + 2) - 2 = k
  BY <1>3 DEF Index
<1> HIDE DEF N
<1>5. \A b : b \in {g[n] : n \in N} <=> b \in {all_blocks(s, x, k) : k \in Index} \cup {x.i_sectors[DIRECT]}
  <2>1. ASSUME NEW b, b \in {g[n] : n \in N}
        PROVE  b \in {all_blocks(s, x, k) : k \in Index} \cup {x.i_sectors[DIRECT]}
    <3>1. PICK n \in N : b = g[n]
      BY <2>1
    <3>2. n # 1 => n - 2 \in Index
      BY <1>4
    <3> QED
      BY <1>2, <3>1, <3>2
  <2>2. ASSUME NEW k \in Index PROVE all_blocks(s, x, k) \in {g[n] : n \in N}
    <3>1. PICK n : n = k + 2
      OBVIOUS
    <3>2. n \in N /\ n # 1 /\ n - 2 = k
      BY <1>4, <3>1
    <3>3. g[n] = all_blocks(s, x, k)
      BY <1>2, <3>2
    <3> QED
      BY <3>2, <3>3
  <2>3. x.i_sectors[DIRECT] \in {g[n] : n \in N}
    BY <1>2, <1>4
  <2> QED
    BY <2>1, <2>2, <2>3
<1>6. {g[n] : n \in N} = {all_blocks(s, x, k) : k \in Index} \cup {x.i_sectors[DIRECT]}
  BY <1>5
<1>7. BlocksOf(s, x) = {g[n] : n \in N} \ {0}
  BY <1>6 DEF BlocksOf
<1>8. DOMAIN g = N /\ DOMAIN g \subseteq Nat
  BY <1>2, <1>4
<1>9. {g[n] : n \in DOMAIN g} \ {0} = BlocksOf(s, x)
  BY ONLY <1>7, <1>8
<1> QED
  BY ONLY <1>1, <1>8, <1>9

(* All that the inode i had is gone.                                       *)
Released(s, r, i) ==
  /\ FsRec(r) /\ NewInode(s, r, i, NoInode)
  /\ Cleared(s, r, {Addr(s, i, k) : k \in 0..Table} \ {0})
  /\ r.inode_bitmap = s.inode_bitmap \ {i}
  /\ r.open = s.open /\ r.file_table = s.file_table
  /\ r.mem = [j \in Ino |-> r.mem[j]] /\ \A j \in Ino \ {i} : r.mem[j] = s.mem[j]
  /\ (Stored(s) => Stored(r))

(* inode_release gives every block of the inode back and clears its bit.   *)
LEMMA ReleaseIs ==
  ASSUME NEW s, IsFs(s), MemOK(s), Tables(s), NEW i \in Ino
  PROVE  Released(s, inode_release(s, i), i)
<1>1. PICK x : x = Inode(s, i)
  OBVIOUS
<1>2. PICK B : B = BlocksOf(s, x)
  OBVIOUS
<1>3. FsRec(s) /\ s.mem = [j \in Ino |-> s.mem[j]] /\ s.open \in [Ino -> Nat]
  BY DEF IsFs
<1>4. PICK n \in Nat : n = s.open[i]
  BY <1>3
<1>5. PICK o : o = inode_open(s, i)
  OBVIOUS
<1>6. PICK M : M = [s.mem EXCEPT ![i] = x]
  OBVIOUS
<1>7. M[i] = x /\ M = [j \in Ino |-> M[j]] /\ \A j \in Ino \ {i} : M[j] = s.mem[j]
  BY <1>3, <1>6
<1>8. o = [s EXCEPT !.open = [s.open EXCEPT ![i] = n + 1], !.mem = M]
  <2>1. (IF s.open[i] = 0 THEN s.inode_table[i] ELSE s.mem[i]) = x
    BY <1>1, <1>4 DEF MemOK, Inode
  <2>2. o = [s EXCEPT !.open[i] = s.open[i] + 1,
                      !.mem[i] = IF s.open[i] = 0 THEN s.inode_table[i] ELSE s.mem[i]]
    BY <1>5, Zenon DEF inode_open
  <2>3. [s EXCEPT !.open[i] = n + 1, !.mem[i] = x]
          = [s EXCEPT !.open = [s.open EXCEPT ![i] = n + 1], !.mem = [s.mem EXCEPT ![i] = x]]
    BY <1>3 DEF FsRec
  <2> QED
    BY <1>4, <1>6, <2>1, <2>2, <2>3
<1>9. /\ FsRec(o) /\ o.open = [s.open EXCEPT ![i] = n + 1] /\ o.mem = M
      /\ o.inode_bitmap = s.inode_bitmap /\ o.block_bitmap = s.block_bitmap
      /\ o.disk_ibits = s.disk_ibits /\ o.disk_bbits = s.disk_bbits
      /\ o.inode_table = s.inode_table /\ o.blk = s.blk /\ o.tab = s.tab /\ o.file_table = s.file_table
  BY <1>3, <1>8 DEF FsRec
<1>10. Given(o, o.mem[i]) = Given(s, x)
  <2>1. o.mem[i] = x
    BY <1>7, <1>9
  <2>2. \A k : all_blocks(o, x, k) = all_blocks(s, x, k)
    BY <1>9 DEF all_blocks
  <2>3. Given(o, x) = Given(s, x)
    BY <2>2 DEF Given
  <2> QED
    BY <2>1, <2>3
<1>11. PICK b : b = ClearBlocks(o, Given(o, o.mem[i]))
  OBVIOUS
<1>12. /\ FsRec(b) /\ Cleared(s, b, B) /\ b.open = o.open /\ b.mem = M
       /\ b.inode_bitmap = s.inode_bitmap /\ b.inode_table = s.inode_table
       /\ b.file_table = s.file_table
       /\ (Stored(s) => Stored(b))
  <2>1. PICK v : v = Given(s, x)
    OBVIOUS
  <2>2. DOMAIN v \subseteq Nat /\ B = {v[k] : k \in DOMAIN v} \ {0}
    BY <1>2, <2>1, GivenIs
  <2>3. b = ClearBlocks(o, v) /\ FsRec(o)
    BY <1>9, <1>10, <1>11, <2>1
  <2>4. /\ FsRec(b) /\ Cleared(o, b, B) /\ (Stored(o) => Stored(b))
        /\ b.inode_bitmap = o.inode_bitmap /\ b.inode_table = o.inode_table /\ b.mem = o.mem
        /\ b.open = o.open /\ b.file_table = o.file_table
    BY ONLY <2>2, <2>3, ClearIs
  <2>5. Stored(s) => Stored(o)
    BY ONLY <1>9 DEF Stored
  <2>6. Cleared(s, b, B)
    BY ONLY <1>9, <2>4 DEF Cleared
  <2> QED
    BY ONLY <1>9, <2>4, <2>5, <2>6
<1>13. PICK I : I = s.inode_bitmap \ {i}
  OBVIOUS
<1>14. PICK c : c = SyncInodeBits([b EXCEPT !.inode_bitmap = @ \ {i}], i)
  OBVIOUS
<1>15. c = [b EXCEPT !.inode_bitmap = I, !.disk_ibits = c.disk_ibits]
  <2>1. [b EXCEPT !.inode_bitmap = @ \ {i}] = [b EXCEPT !.inode_bitmap = I]
    BY <1>12, <1>13
  <2>2. PICK a : a = [b EXCEPT !.inode_bitmap = I]
    OBVIOUS
  <2>3. FsRec(a)
    BY <1>12, <2>2 DEF FsRec
  <2>4. c = [a EXCEPT !.disk_ibits = c.disk_ibits]
    <3>1. c = SyncInodeBits(a, i)
      BY <1>14, <2>1, <2>2
    <3> QED
      BY ONLY <2>3, <3>1, BitsAre
  <2> QED
    BY <1>12, <2>2, <2>4 DEF FsRec
<1>16. PICK T : T = [s.inode_table EXCEPT ![i] = NoInode]
  OBVIOUS
<1>17. PICK e : e = inode_delete(c, i)
  OBVIOUS
<1>18. /\ FsRec(e) /\ e.inode_table = T /\ e.inode_bitmap = I /\ e.block_bitmap = b.block_bitmap
       /\ e.disk_bbits = b.disk_bbits /\ e.blk = b.blk /\ e.tab = b.tab
       /\ e.open = o.open /\ e.mem = M /\ e.file_table = s.file_table
  BY <1>12, <1>15, <1>16, <1>17 DEF FsRec, inode_delete
<1>19. PICK r : r = inode_release(s, i)
  OBVIOUS
<1>20. r = inode_close(e, i)
  BY <1>5, <1>11, <1>14, <1>17, <1>19, Zenon DEF inode_release
<1>21. PICK m : m = IF e.open[i] = 1 THEN NoInode ELSE e.mem[i]
  OBVIOUS
<1>22. r = [e EXCEPT !.open = [e.open EXCEPT ![i] = e.open[i] - 1], !.mem = [e.mem EXCEPT ![i] = m]]
  <2>1. r = [e EXCEPT !.open[i] = e.open[i] - 1, !.mem[i] = IF e.open[i] = 1 THEN NoInode ELSE e.mem[i]]
    BY <1>20, Zenon DEF inode_close
  <2>2. r = [e EXCEPT !.open[i] = e.open[i] - 1, !.mem[i] = m]
    BY <1>21, <2>1, Zenon
  <2> QED
    BY <1>18, <2>2 DEF FsRec
<1>23. [e.open EXCEPT ![i] = e.open[i] - 1] = s.open
  <2>1. e.open[i] = n + 1
    BY <1>3, <1>9, <1>18
  <2>2. (n + 1) - 1 = n
    BY <1>4
  <2> QED
    BY <1>3, <1>4, <1>9, <1>18, <2>1, <2>2
<1>24. /\ FsRec(r) /\ r.inode_table = T /\ r.inode_bitmap = I /\ r.block_bitmap = b.block_bitmap
       /\ r.disk_bbits = b.disk_bbits /\ r.blk = b.blk /\ r.tab = b.tab
       /\ r.open = s.open /\ r.mem = [M EXCEPT ![i] = m] /\ r.file_table = s.file_table
  BY <1>18, <1>22, <1>23 DEF FsRec
<1>25. r.mem = [j \in Ino |-> r.mem[j]] /\ \A j \in Ino \ {i} : r.mem[j] = s.mem[j]
  BY <1>7, <1>24
<1>26. Cleared(s, r, B)
  BY <1>12, <1>24 DEF Cleared
<1>27. B = {Addr(s, i, k) : k \in 0..Table} \ {0}
  BY <1>1, <1>2, BlocksOfIs
<1>28. NewInode(s, r, i, NoInode)
  BY <1>16, <1>24 DEF NewInode
<1>29. Cleared(s, r, {Addr(s, i, k) : k \in 0..Table} \ {0})
  BY <1>26, <1>27
<1>30. Stored(s) => Stored(r)
  BY <1>12, <1>13, <1>24 DEF Stored
<1> QED
  BY <1>13, <1>19, <1>24, <1>25, <1>28, <1>29, <1>30 DEF Released

(* An inode whose blocks are gone has no entries, and nobody else is       *)
(* touched.                                                                *)
LEMMA ReleaseKeeps ==
  ASSUME NEW s, NEW r, NEW i \in Ino, IsFs(s), Blocks(s), Tables(s), Released(s, r, i)
  PROVE  /\ Blocks(r) /\ Tables(r) /\ Inode(r, i) = NoInode
         /\ \A c \in Ino \ {i} : Inode(r, c) = Inode(s, c)
         /\ \A c \in Ino : IsDir(r, c) <=> c # i /\ IsDir(s, c)
         /\ \A c \in Ino, q \in Place : At(r, c, q) = IF c = i THEN Free ELSE At(s, c, q)
<1>1. PICK K : K = {k \in 0..Table : Addr(s, i, k) # 0}
  OBVIOUS
<1>2. PICK B : B = {Addr(s, i, k) : k \in 0..Table} \ {0}
  OBVIOUS
<1>3. K \in SUBSET (0..Table) /\ AddrsOf(s, i, K, B) /\ Cleared(s, r, B) /\ NewInode(s, r, i, NoInode)
  BY <1>1, <1>2 DEF AddrsOf, Released
<1>4. /\ Inode(r, i) = NoInode /\ \A c \in Ino \ {i} : Inode(r, c) = Inode(s, c)
      /\ \A c \in Ino, k \in 0..Table : c # i => Addr(r, c, k) = Addr(s, c, k)
      /\ \A c \in Ino \ {i} :
           Addr(s, c, Table) # 0 => r.tab[Addr(s, c, Table)] = s.tab[Addr(s, c, Table)]
  BY <1>3, CutOthers
<1>5. /\ \A k \in 0..Table : Addr(r, i, k) = 0
      /\ \A q \in Place : At(r, i, q) = Free
  BY <1>4, NoInodeAddr
<1>6. \A c \in Ino, k \in 0..Table : Addr(r, c, k) = IF c = i /\ k \in K THEN 0 ELSE Addr(s, c, k)
  BY <1>1, <1>4, <1>5
<1>7. Blocks(r)
  <2>1. r.block_bitmap = s.block_bitmap \ {Addr(s, i, k) : k \in K}
    <3>1. B = {Addr(s, i, k) : k \in K}
      BY <1>3 DEF AddrsOf
    <3> QED
      BY <1>3, <3>1 DEF Cleared
  <2> QED
    BY <1>3, <1>6, <2>1, BlocksShrink
<1>8. \A n \in Ino, l \in 0..Table : Addr(s, n, l) # 0 /\ ~(n = i /\ l \in K) =>
        /\ r.blk[Addr(s, n, l)] = s.blk[Addr(s, n, l)]
        /\ r.tab[Addr(s, n, l)] = s.tab[Addr(s, n, l)]
  BY <1>3, ClearedElse
<1>9. \A c \in Ino \ {i}, q \in Place : At(r, c, q) = At(s, c, q)
  <2> SUFFICES ASSUME NEW c \in Ino \ {i}, NEW q \in Place PROVE At(r, c, q) = At(s, c, q)
    OBVIOUS
  <2>1. q[1] \in 0..Table
    BY PlaceIs
  <2>2. Addr(r, c, q[1]) = Addr(s, c, q[1])
    BY <1>4, <2>1
  <2>3. Addr(s, c, q[1]) # 0 => r.blk[Addr(s, c, q[1])] = s.blk[Addr(s, c, q[1])]
    BY <1>8, <2>1
  <2> QED
    BY <2>2, <2>3 DEF At
<1>10. Tables(r)
  <2> SUFFICES ASSUME NEW c \in Ino, Addr(r, c, Table) # 0
               PROVE  /\ Addr(r, c, DIRECT) # 0 /\ \E n \in 1..PER_SEC : At(r, c, <<DIRECT, n>>) # Free
                      /\ \A n \in 1..(INDIRECT - 1) : r.tab[Addr(r, c, Table)][n] = 0
    BY DEF Tables
  <2>1. c # i
    BY <1>5, Bounds
  <2>2. Addr(r, c, Table) = Addr(s, c, Table) /\ Addr(r, c, DIRECT) = Addr(s, c, DIRECT)
    BY <1>4, <2>1, DirectIs, Bounds
  <2>3. \A n \in 1..PER_SEC : At(r, c, <<DIRECT, n>>) = At(s, c, <<DIRECT, n>>)
    BY <1>9, <2>1, PlaceIs, Bounds
  <2>4. r.tab[Addr(s, c, Table)] = s.tab[Addr(s, c, Table)]
    BY <1>4, <2>1, <2>2
  <2> QED
    BY <2>2, <2>3, <2>4 DEF Tables
<1>11. \A c \in Ino : IsDir(r, c) <=> c # i /\ IsDir(s, c)
  BY <1>4, <1>5, Bounds DEF IsDir
<1> QED
  BY <1>4, <1>5, <1>7, <1>9, <1>10, <1>11
-----------------------------------------------------------------------------
(* The tree, when an inode i comes, named by the entry e at p in d.        *)
Grown(s, r, d, i, p, e) ==
  /\ i \in Ino \ s.inode_bitmap /\ r.inode_bitmap = s.inode_bitmap \cup {i}
  /\ d \in Ino /\ IsDir(s, d) /\ p \in Place /\ At(s, d, p) = Free
  /\ e.filename \notin {"", ".", ".."} /\ e = Ent(e.filename, i, Kind(r, i))
  /\ \A q \in Place : At(s, d, q).filename # e.filename
  /\ \A c \in Ino \ {i} : IsDir(r, c) = IsDir(s, c)
  /\ \A c \in Ino \ {i, d} : Inode(r, c) = Inode(s, c)
  /\ Inode(r, d).i_size = Inode(s, d).i_size + 1
  /\ IF IsDir(r, i) THEN Inode(r, i).i_size = 2 ELSE Inode(r, i) = NoInode
  /\ \A c \in Ino \ {i}, q \in Place : At(r, c, q) = IF c = d /\ q = p THEN e ELSE At(s, c, q)
  /\ IsDir(r, i) => \A q \in Place :
       At(r, i, q) = IF q = <<0, 1>> THEN Ent(".", i, "directory")
                     ELSE IF q = <<0, 2>> THEN Ent("..", d, "directory") ELSE Free

LEMMA DotPlaces == <<0, 1>> \in Place /\ <<0, 2>> \in Place /\ <<0, 1>> # <<0, 2>>
BY PlaceIs, Bounds

LEMMA DotEntry ==
  ASSUME NEW c, NEW name \in {".", ".."}
  PROVE  Ent(name, c, "directory") # Free
BY DEF Ent, Free

LEMMA DotIs ==
  ASSUME NEW s, Dots(s), NEW d \in Ino, IsDir(s, d)
  PROVE  /\ At(s, d, <<0, 1>>) = Ent(".", d, "directory") /\ At(s, d, <<0, 1>>) # Free
         /\ At(s, d, <<0, 2>>) # Free /\ At(s, d, <<0, 2>>).filename = ".."
         /\ At(s, d, <<0, 2>>).i_no \in Ino /\ IsDir(s, At(s, d, <<0, 2>>).i_no)
         /\ d = 0 => At(s, d, <<0, 2>>).i_no = 0
         /\ At(s, d, <<0, 2>>) = Ent("..", At(s, d, <<0, 2>>).i_no, "directory")
<1>0. PICK c \in Ino : Above(s, d, c)
  BY DEF Dots
<1>1. /\ IsDir(s, c) /\ At(s, d, <<0, 2>>) = Ent("..", c, "directory")
      /\ d = 0 => c = 0
  BY <1>0 DEF Above
<1>2. PICK e : e = Ent("..", c, "directory")
  OBVIOUS
<1>3. e.filename = ".." /\ e.i_no = c /\ e # Free
  BY <1>2, EntIs, DotEntry
<1>4. At(s, d, <<0, 1>>) = Ent(".", d, "directory") /\ Ent(".", d, "directory") # Free
  BY DotEntry DEF Dots
<1> QED
  BY <1>1, <1>2, <1>3, <1>4

(* What Grown says of the entries.                                         *)
LEMMA GrownSets ==
  ASSUME NEW s, NEW r, NEW d, NEW i, NEW p, NEW e,
         Kinds(s), Dots(s), Entries(s), Grown(s, r, d, i, p, e)
  PROVE  /\ i # 0 /\ i # d /\ e # Free /\ e.i_no = i /\ e.f_type = Kind(r, i)
         /\ p \in Place /\ p \notin Filled(s, d) /\ p \notin Linked(s, d)
         /\ \A c \in Ino \ {i, d} : Filled(r, c) = Filled(s, c) /\ Linked(r, c) = Linked(s, c)
         /\ Filled(r, d) = Filled(s, d) \cup {p} /\ Linked(r, d) = Linked(s, d) \cup {p}
         /\ Filled(r, i) = (IF IsDir(r, i) THEN {<<0, 1>>, <<0, 2>>} ELSE {}) /\ Linked(r, i) = {}
         /\ \A c \in Ino \ {i}, q \in Place : ~(c = d /\ q = p) => At(r, c, q) = At(s, c, q)
         /\ At(r, d, p) = e
<1> USE DEF Grown
<1>1. i # 0 /\ i # d
  BY DEF Kinds
<1>2. e.i_no = i /\ e.f_type = Kind(r, i)
  <2>1. PICK k : k = Kind(r, i)
    OBVIOUS
  <2>2. PICK n : n = e.filename
    OBVIOUS
  <2>3. e = Ent(n, i, k)
    BY <2>1, <2>2
  <2>4. e.i_no = i /\ e.f_type = k
    BY ONLY <2>3, EntIs
  <2> QED
    BY <2>1, <2>4
<1>3. e # Free
  <2>1. Free.filename = ""
    BY DEF Free
  <2> QED
    BY <2>1
<1>4. p \in Place /\ p \notin Filled(s, d) /\ p \notin Linked(s, d)
  BY DEF Filled, Linked
<1>5. At(r, d, p) = e
  BY <1>1
<1>6. \A c \in Ino \ {i}, q \in Place : ~(c = d /\ q = p) => At(r, c, q) = At(s, c, q)
  OBVIOUS
<1> HIDE DEF Grown
<1>7. \A c \in Ino \ {i, d} : Filled(r, c) = Filled(s, c) /\ Linked(r, c) = Linked(s, c)
  BY <1>6 DEF Filled, Linked
<1>8. d \in Ino \ {i}
  BY <1>1 DEF Grown
<1>9. Filled(r, d) = Filled(s, d) \cup {p}
  BY <1>3, <1>4, <1>5, <1>6, <1>8 DEF Filled
<1>10. e.filename \notin {".", ".."}
  BY DEF Grown
<1>11. Linked(r, d) = Linked(s, d) \cup {p}
  <2>1. \A q \in Filled(s, d) : At(r, d, q) = At(s, d, q)
    BY <1>4, <1>6, <1>8 DEF Filled
  <2> QED
    BY <1>5, <1>9, <1>10, <2>1 DEF Linked
<1>12. Filled(r, i) = (IF IsDir(r, i) THEN {<<0, 1>>, <<0, 2>>} ELSE {}) /\ Linked(r, i) = {}
  <2>1. CASE IsDir(r, i)
    <3>1. \A q \in Place : At(r, i, q) = IF q = <<0, 1>> THEN Ent(".", i, "directory")
                     ELSE IF q = <<0, 2>> THEN Ent("..", d, "directory") ELSE Free
      BY <2>1 DEF Grown
    <3>2. PICK x : x = Ent(".", i, "directory")
      OBVIOUS
    <3>3. PICK y : y = Ent("..", d, "directory")
      OBVIOUS
    <3>4. x # Free /\ y # Free /\ x.filename = "." /\ y.filename = ".."
      BY <3>2, <3>3, DotEntry, EntIs
    <3>5. Filled(r, i) = {<<0, 1>>, <<0, 2>>}
      BY <3>1, <3>2, <3>3, <3>4, DotPlaces DEF Filled
    <3>6. At(r, i, <<0, 1>>) = x /\ At(r, i, <<0, 2>>) = y
      BY <3>1, <3>2, <3>3, DotPlaces
    <3> QED
      BY <2>1, <3>4, <3>5, <3>6 DEF Linked
  <2>2. CASE ~IsDir(r, i)
    <3>1. i \in Ino /\ Inode(r, i) = NoInode
      BY <2>2 DEF Grown
    <3>2. \A q \in Place : At(r, i, q) = Free
      BY <3>1, NoInodeAddr
    <3> QED
      BY <2>2, <3>2 DEF Filled, Linked
  <2> QED
    BY <2>1, <2>2
<1> QED
  BY <1>1, <1>2, <1>3, <1>4, <1>5, <1>6, <1>7, <1>9, <1>11, <1>12

(* The new inode i had nothing, and no entry of s named it.                *)
LEMMA GrownFresh ==
  ASSUME NEW s, NEW r, NEW d, NEW i, NEW p, NEW e, s.inode_bitmap \subseteq Ino,
         Kinds(s), Dots(s), Entries(s), Grown(s, r, d, i, p, e)
  PROVE  /\ i \in Ino /\ d \in Ino /\ IsDir(s, d) /\ ~IsDir(s, i) /\ Filled(s, i) = {} /\ Linked(s, i) = {}
         /\ \A c \in Ino, q \in Place : q \in Filled(s, c) => c # i /\ At(r, c, q) = At(s, c, q) /\ q \in Filled(r, c)
         /\ \A c \in Ino, q \in Place : q \in Linked(s, c) => /\ At(s, c, q).i_no \in s.inode_bitmap \ {0}
                                                              /\ At(s, c, q).i_no # i /\ At(s, c, q).i_no \in Ino
         /\ \A c \in Ino : IsDir(s, c) => c # i /\ IsDir(r, c)
<1>1. i \in Ino /\ d \in Ino /\ IsDir(s, d) /\ ~IsDir(s, i) /\ i \notin s.inode_bitmap
  BY DEF Grown, Kinds
<1>2. Inode(s, i) = NoInode
  BY <1>1 DEF Kinds
<1>3. Filled(s, i) = {} /\ Linked(s, i) = {}
  BY <1>1, <1>2, NoInodeAddr DEF Filled, Linked
<1>4. /\ p \notin Filled(s, d)
      /\ \A c \in Ino \ {i}, q \in Place : ~(c = d /\ q = p) => At(r, c, q) = At(s, c, q)
  BY GrownSets
<1>5. \A c \in Ino, q \in Place : q \in Filled(s, c) => c # i /\ At(r, c, q) = At(s, c, q) /\ q \in Filled(r, c)
  BY <1>3, <1>4 DEF Filled
<1>6. \A c \in Ino, q \in Place : q \in Linked(s, c) => /\ At(s, c, q).i_no \in s.inode_bitmap \ {0}
                                                        /\ At(s, c, q).i_no # i /\ At(s, c, q).i_no \in Ino
  <2>1. TAKE c \in Ino, q \in Place
  <2>2. SUFFICES ASSUME q \in Linked(s, c) PROVE At(s, c, q).i_no \in s.inode_bitmap \ {0}
    BY <1>1
  <2>3. At(s, c, q) # Free
    BY <2>2 DEF Linked, Filled
  <2> QED
    BY <2>2, <2>3, EntryIs
<1>7. \A c \in Ino : IsDir(s, c) => c # i /\ IsDir(r, c)
  BY <1>1 DEF Grown
<1> QED
  BY <1>1, <1>3, <1>5, <1>6, <1>7

LEMMA GrownNodes ==
  ASSUME NEW s, NEW r, NEW d, NEW i, NEW p, NEW e, s.inode_bitmap \subseteq Ino,
         Kinds(s), Dots(s), Entries(s), Grown(s, r, d, i, p, e)
  PROVE  Kinds(r) /\ Dots(r) /\ Entries(r)
<1>1. /\ i \in Ino /\ d \in Ino /\ IsDir(s, d) /\ ~IsDir(s, i) /\ Filled(s, i) = {} /\ Linked(s, i) = {}
      /\ \A c \in Ino, q \in Place : q \in Filled(s, c) => c # i /\ At(r, c, q) = At(s, c, q) /\ q \in Filled(r, c)
      /\ \A c \in Ino, q \in Place : q \in Linked(s, c) => /\ At(s, c, q).i_no \in s.inode_bitmap \ {0}
                                                           /\ At(s, c, q).i_no # i /\ At(s, c, q).i_no \in Ino
      /\ \A c \in Ino : IsDir(s, c) => c # i /\ IsDir(r, c)
  BY GrownFresh
<1>2. /\ i # 0 /\ i # d /\ e # Free /\ e.i_no = i /\ e.f_type = Kind(r, i)
      /\ p \in Place /\ p \notin Filled(s, d) /\ p \notin Linked(s, d)
      /\ \A c \in Ino \ {i, d} : Filled(r, c) = Filled(s, c) /\ Linked(r, c) = Linked(s, c)
      /\ Filled(r, d) = Filled(s, d) \cup {p} /\ Linked(r, d) = Linked(s, d) \cup {p}
      /\ Filled(r, i) = (IF IsDir(r, i) THEN {<<0, 1>>, <<0, 2>>} ELSE {}) /\ Linked(r, i) = {}
      /\ \A c \in Ino \ {i}, q \in Place : ~(c = d /\ q = p) => At(r, c, q) = At(s, c, q)
      /\ At(r, d, p) = e
  BY GrownSets
<1>3. /\ i \notin s.inode_bitmap /\ r.inode_bitmap = s.inode_bitmap \cup {i}
      /\ \A c \in Ino \ {i} : IsDir(r, c) = IsDir(s, c)
      /\ \A c \in Ino \ {i, d} : Inode(r, c) = Inode(s, c)
      /\ ~IsDir(r, i) => Inode(r, i) = NoInode
  BY DEF Grown
<1>4. 0 \in Ino
  BY Bounds
<1>5. Kinds(r)
  <2>1. /\ 0 \in s.inode_bitmap /\ IsDir(s, 0)
        /\ \A c \in Ino : ~IsDir(s, c) => Inode(s, c) = NoInode
        /\ \A c \in Ino : IsDir(s, c) => c \in s.inode_bitmap
    BY DEF Kinds
  <2>2. \A c \in Ino : ~IsDir(r, c) => Inode(r, c) = NoInode
    BY <1>1, <1>3, <2>1
  <2>3. \A c \in Ino : IsDir(r, c) => c \in r.inode_bitmap
    BY <1>3, <2>1
  <2> QED
    BY <1>1, <1>3, <1>4, <2>1, <2>2, <2>3 DEF Kinds
<1>6. Dots(r)
  <2>1. SUFFICES ASSUME NEW c \in Ino, IsDir(r, c)
                 PROVE  At(r, c, <<0, 1>>) = Ent(".", c, "directory") /\ \E x \in Ino : Above(r, c, x)
    BY DEF Dots
  <2>2. CASE c = i
    <3>1. /\ At(r, i, <<0, 1>>) = Ent(".", i, "directory")
          /\ At(r, i, <<0, 2>>) = Ent("..", d, "directory")
      <4>1. \A q \in Place : At(r, i, q) = IF q = <<0, 1>> THEN Ent(".", i, "directory")
                                           ELSE IF q = <<0, 2>> THEN Ent("..", d, "directory") ELSE Free
        BY <2>1, <2>2 DEF Grown
      <4> QED
        BY <4>1, DotPlaces
    <3>2. Above(r, i, d)
      BY <1>1, <1>2, <3>1 DEF Above
    <3> QED
      BY <1>1, <2>2, <3>1, <3>2
  <2>3. CASE c # i
    <3>1. IsDir(s, c)
      BY <1>3, <2>1, <2>3
    <3>2. At(s, c, <<0, 1>>) = Ent(".", c, "directory")
      BY <3>1, DotIs
    <3>3. PICK x \in Ino : Above(s, c, x)
      BY <3>1 DEF Dots
    <3>4. <<0, 1>> \in Filled(s, c) /\ <<0, 2>> \in Filled(s, c)
      <4>1. At(s, c, <<0, 1>>) # Free /\ At(s, c, <<0, 2>>) # Free
        BY <3>1, DotIs
      <4> QED
        BY <4>1, DotPlaces DEF Filled
    <3>5. At(r, c, <<0, 1>>) = At(s, c, <<0, 1>>) /\ At(r, c, <<0, 2>>) = At(s, c, <<0, 2>>)
      BY <1>1, <3>4, DotPlaces
    <3>6. Above(r, c, x)
      BY <1>1, <3>3, <3>5 DEF Above
    <3> QED
      BY <3>2, <3>5, <3>6
  <2> QED
    BY <2>2, <2>3
<1>7. Entries(r)
  <2>1. SUFFICES ASSUME NEW c \in Ino, NEW q \in Place, At(r, c, q) # Free,
                        ~(IsDir(r, c) /\ q \in {<<0, 1>>, <<0, 2>>})
                 PROVE  \E j \in r.inode_bitmap \ {0} : \E name :
                          name \notin {"", ".", ".."} /\ At(r, c, q) = Ent(name, j, Kind(r, j))
    BY DEF Entries
  <2>2. q \in Filled(r, c)
    BY <2>1 DEF Filled
  <2>3. c # i
    BY <1>2, <2>1, <2>2
  <2>4. CASE c = d /\ q = p
    <3>1. e.filename \notin {"", ".", ".."} /\ e = Ent(e.filename, i, Kind(r, i))
      BY DEF Grown
    <3> QED
      BY <1>1, <1>2, <1>3, <2>4, <3>1
  <2>5. CASE ~(c = d /\ q = p)
    <3>1. At(r, c, q) = At(s, c, q)
      BY <1>2, <2>3, <2>5
    <3>2. ~(IsDir(s, c) /\ q \in {<<0, 1>>, <<0, 2>>})
      BY <1>3, <2>1, <2>3
    <3>3. PICK j \in s.inode_bitmap \ {0} : \E name :
            name \notin {"", ".", ".."} /\ At(s, c, q) = Ent(name, j, Kind(s, j))
      BY <2>1, <3>1, <3>2 DEF Entries
    <3>4. Kind(r, j) = Kind(s, j) /\ j \in r.inode_bitmap \ {0}
      BY <1>3, <3>3 DEF Kind
    <3> QED
      BY <3>1, <3>3, <3>4
  <2> QED
    BY <2>4, <2>5
<1> QED
  BY <1>5, <1>6, <1>7

LEMMA GrownTree ==
  ASSUME NEW s, NEW r, NEW d, NEW i, NEW p, NEW e, s.inode_bitmap \subseteq Ino,
         Kinds(s), Dots(s), Entries(s), Tree(s), Grown(s, r, d, i, p, e)
  PROVE  Tree(r)
<1>1. /\ i \in Ino /\ d \in Ino /\ IsDir(s, d) /\ ~IsDir(s, i) /\ Filled(s, i) = {} /\ Linked(s, i) = {}
      /\ \A c \in Ino, q \in Place : q \in Filled(s, c) => c # i /\ At(r, c, q) = At(s, c, q) /\ q \in Filled(r, c)
      /\ \A c \in Ino, q \in Place : q \in Linked(s, c) => /\ At(s, c, q).i_no \in s.inode_bitmap \ {0}
                                                           /\ At(s, c, q).i_no # i /\ At(s, c, q).i_no \in Ino
      /\ \A c \in Ino : IsDir(s, c) => c # i /\ IsDir(r, c)
  BY GrownFresh
<1>2. /\ i # 0 /\ i # d /\ e # Free /\ e.i_no = i /\ e.f_type = Kind(r, i)
      /\ p \in Place /\ p \notin Filled(s, d) /\ p \notin Linked(s, d)
      /\ \A c \in Ino \ {i, d} : Filled(r, c) = Filled(s, c) /\ Linked(r, c) = Linked(s, c)
      /\ Filled(r, d) = Filled(s, d) \cup {p} /\ Linked(r, d) = Linked(s, d) \cup {p}
      /\ Filled(r, i) = (IF IsDir(r, i) THEN {<<0, 1>>, <<0, 2>>} ELSE {}) /\ Linked(r, i) = {}
      /\ \A c \in Ino \ {i}, q \in Place : ~(c = d /\ q = p) => At(r, c, q) = At(s, c, q)
      /\ At(r, d, p) = e
  BY GrownSets
<1>3. /\ i \notin s.inode_bitmap /\ r.inode_bitmap = s.inode_bitmap \cup {i}
      /\ \A c \in Ino \ {i} : IsDir(r, c) = IsDir(s, c)
      /\ \A q \in Place : At(s, d, q).filename # e.filename
  BY DEF Grown
<1>4. \A c : Linked(s, c) \subseteq Filled(s, c) /\ Filled(s, c) \subseteq Place
             /\ Linked(r, c) \subseteq Filled(r, c) /\ Filled(r, c) \subseteq Place
  BY DEF Linked, Filled
<1>5. \A c \in Ino : \A q \in Linked(r, c) :
        c # i /\ q \in Place /\ ((c = d /\ q = p) \/ (q \in Linked(s, c) /\ At(r, c, q) = At(s, c, q)))
  BY <1>1, <1>2, <1>4
<1>6. \A c \in Ino : \A q \in Linked(s, c) : q \in Linked(r, c) /\ At(r, c, q) = At(s, c, q)
  BY <1>1, <1>2, <1>4
<1>7. \A j \in r.inode_bitmap \ {0} : \E c \in Ino : \E q \in Linked(r, c) : At(r, c, q).i_no = j
  <2>1. \A j \in s.inode_bitmap \ {0} : \E c \in Ino : \E q \in Linked(s, c) : At(s, c, q).i_no = j
    BY DEF Tree
  <2> QED
    BY <1>1, <1>2, <1>3, <1>6, <2>1
<1>8. \A c, x \in Ino : \A q \in Linked(r, c), t \in Linked(r, x) :
        At(r, c, q).i_no = At(r, x, t).i_no => c = x /\ q = t
  <2>1. \A c, x \in Ino : \A q \in Linked(s, c), t \in Linked(s, x) :
          At(s, c, q).i_no = At(s, x, t).i_no => c = x /\ q = t
    BY DEF Tree
  <2> QED
    BY <1>1, <1>2, <1>5, <2>1
<1>9. \A c \in Ino : \A q, t \in Filled(r, c) : At(r, c, q).filename = At(r, c, t).filename => q = t
  <2>1. \A c \in Ino : \A q, t \in Filled(s, c) : At(s, c, q).filename = At(s, c, t).filename => q = t
    BY DEF Tree
  <2>2. TAKE c \in Ino
  <2>3. TAKE q, t \in Filled(r, c)
  <2>4. CASE c = i
    <3>1. CASE IsDir(r, i)
      <4>1. q \in {<<0, 1>>, <<0, 2>>} /\ t \in {<<0, 1>>, <<0, 2>>}
        BY <1>2, <2>3, <2>4, <3>1
      <4>2. At(r, i, <<0, 1>>) = Ent(".", i, "directory") /\ At(r, i, <<0, 2>>) = Ent("..", d, "directory")
        <5>1. \A x \in Place : At(r, i, x) = IF x = <<0, 1>> THEN Ent(".", i, "directory")
                                             ELSE IF x = <<0, 2>> THEN Ent("..", d, "directory") ELSE Free
          BY <3>1 DEF Grown
        <5> QED
          BY <5>1, DotPlaces
      <4>3. At(r, i, <<0, 1>>).filename = "." /\ At(r, i, <<0, 2>>).filename = ".."
        BY <4>2, EntIs
      <4> QED
        BY <2>4, <4>1, <4>3
    <3>2. CASE ~IsDir(r, i)
      BY <1>2, <2>3, <2>4, <3>2
    <3> QED
      BY <3>1, <3>2
  <2>5. CASE c = d
    BY <1>1, <1>2, <1>3, <1>4, <2>1, <2>3, <2>5
  <2>6. CASE c # i /\ c # d
    <3>1. q \in Filled(s, c) /\ t \in Filled(s, c)
      BY <1>2, <2>3, <2>6
    <3> QED
      BY <1>1, <1>4, <2>1, <3>1
  <2> QED
    BY <2>4, <2>5, <2>6
<1>10. \A c \in Ino : \A q \in Linked(r, c) :
         IsDir(r, At(r, c, q).i_no) => At(r, At(r, c, q).i_no, <<0, 2>>).i_no = c
  <2>1. TAKE c \in Ino
  <2>2. TAKE q \in Linked(r, c)
  <2>3. SUFFICES ASSUME IsDir(r, At(r, c, q).i_no) PROVE At(r, At(r, c, q).i_no, <<0, 2>>).i_no = c
    OBVIOUS
  <2>4. CASE c = d /\ q = p
    <3>1. At(r, c, q).i_no = i
      BY <1>2, <2>4
    <3>2. At(r, i, <<0, 2>>) = Ent("..", d, "directory")
      <4>1. \A x \in Place : At(r, i, x) = IF x = <<0, 1>> THEN Ent(".", i, "directory")
                                           ELSE IF x = <<0, 2>> THEN Ent("..", d, "directory") ELSE Free
        BY <2>3, <3>1 DEF Grown
      <4> QED
        BY <4>1, DotPlaces
    <3>3. At(r, i, <<0, 2>>).i_no = d
      BY <3>2, EntIs
    <3> QED
      BY <2>4, <3>1, <3>3
  <2>5. CASE q \in Linked(s, c) /\ At(r, c, q) = At(s, c, q)
    <3>1. PICK j : j = At(s, c, q).i_no
      OBVIOUS
    <3>2. j \in Ino /\ j # i
      BY <1>1, <1>4, <2>5, <3>1
    <3>3. IsDir(s, j)
      BY <1>3, <2>3, <2>5, <3>1, <3>2
    <3>4. At(s, j, <<0, 2>>).i_no = c
      BY <2>5, <3>1, <3>3 DEF Tree
    <3>5. At(s, j, <<0, 2>>) # Free
      BY <3>2, <3>3, DotIs
    <3>6. At(r, j, <<0, 2>>) = At(s, j, <<0, 2>>)
      BY <1>1, <3>2, <3>5, DotPlaces DEF Filled
    <3> QED
      BY <2>5, <3>1, <3>4, <3>6
  <2> QED
    BY <1>5, <2>2, <2>4, <2>5
<1> QED
  BY <1>7, <1>8, <1>9, <1>10 DEF Tree

(* The tree with one more leaf is a tree.                                  *)
LEMMA GrownKeeps ==
  ASSUME NEW s, NEW r, NEW d, NEW i, NEW p, NEW e, s.inode_bitmap \subseteq Ino,
         TreeInv(s), Grown(s, r, d, i, p, e)
  PROVE  TreeInv(r)
<1>0. Kinds(s) /\ Dots(s) /\ Entries(s) /\ Tree(s) /\ Sizes(s) /\ Reached(s)
  BY DEF TreeInv
<1>1. /\ i \in Ino /\ d \in Ino /\ IsDir(s, d) /\ ~IsDir(s, i) /\ Filled(s, i) = {} /\ Linked(s, i) = {}
      /\ \A c \in Ino, q \in Place : q \in Filled(s, c) => c # i /\ At(r, c, q) = At(s, c, q) /\ q \in Filled(r, c)
      /\ \A c \in Ino, q \in Place : q \in Linked(s, c) => /\ At(s, c, q).i_no \in s.inode_bitmap \ {0}
                                                           /\ At(s, c, q).i_no # i /\ At(s, c, q).i_no \in Ino
      /\ \A c \in Ino : IsDir(s, c) => c # i /\ IsDir(r, c)
  BY <1>0, GrownFresh
<1>2. /\ i # 0 /\ i # d /\ e # Free /\ e.i_no = i /\ e.f_type = Kind(r, i)
      /\ p \in Place /\ p \notin Filled(s, d) /\ p \notin Linked(s, d)
      /\ \A c \in Ino \ {i, d} : Filled(r, c) = Filled(s, c) /\ Linked(r, c) = Linked(s, c)
      /\ Filled(r, d) = Filled(s, d) \cup {p} /\ Linked(r, d) = Linked(s, d) \cup {p}
      /\ Filled(r, i) = (IF IsDir(r, i) THEN {<<0, 1>>, <<0, 2>>} ELSE {}) /\ Linked(r, i) = {}
      /\ \A c \in Ino \ {i}, q \in Place : ~(c = d /\ q = p) => At(r, c, q) = At(s, c, q)
      /\ At(r, d, p) = e
  BY <1>0, GrownSets
<1>3. Kinds(r) /\ Dots(r) /\ Entries(r)
  BY <1>0, GrownNodes
<1>4. Tree(r)
  BY <1>0, GrownTree
<1>5. Sizes(r)
  <2>1. SUFFICES ASSUME NEW c \in Ino PROVE Inode(r, c).i_size = Cardinality(Filled(r, c))
    BY DEF Sizes
  <2>2. \A x \in Ino : Inode(s, x).i_size = Cardinality(Filled(s, x))
    BY <1>0 DEF Sizes
  <2>3. CASE c = i /\ IsDir(r, i)
    <3>1. Inode(r, i).i_size = 2
      BY <2>3 DEF Grown
    <3>2. Cardinality({<<0, 1>>, <<0, 2>>}) = 2
      <4>1. {<<0, 1>>, <<0, 2>>} = {<<0, 1>>} \cup {<<0, 2>>} /\ <<0, 2>> \notin {<<0, 1>>}
        BY DotPlaces
      <4>2. Cardinality({<<0, 1>>}) = 1 /\ IsFiniteSet({<<0, 1>>})
        BY FS_Singleton
      <4>3. Cardinality({<<0, 1>>} \cup {<<0, 2>>}) = Cardinality({<<0, 1>>}) + 1
        BY <4>1, <4>2, FS_AddElement
      <4> QED
        BY <4>1, <4>2, <4>3
    <3> QED
      BY <1>2, <2>3, <3>1, <3>2
  <2>4. CASE c = i /\ ~IsDir(r, i)
    <3>1. Inode(r, i) = NoInode
      BY <2>4 DEF Grown
    <3>2. Inode(r, i).i_size = 0
      BY <3>1 DEF NoInode
    <3> QED
      BY <1>2, <2>4, <3>2, FS_EmptySet
  <2>5. CASE c = d
    <3>1. Inode(r, d).i_size = Inode(s, d).i_size + 1
      BY DEF Grown
    <3>2. IsFiniteSet(Filled(s, d))
      BY PlaceFinite DEF Filled
    <3>3. Cardinality(Filled(s, d) \cup {p}) = Cardinality(Filled(s, d)) + 1
      BY <1>2, <3>2, FS_AddElement
    <3> QED
      BY <1>2, <2>2, <2>5, <3>1, <3>3
  <2>6. CASE c # i /\ c # d
    <3>1. Inode(r, c) = Inode(s, c)
      BY <2>6 DEF Grown
    <3> QED
      BY <1>2, <2>2, <2>6, <3>1
  <2> QED
    BY <2>3, <2>4, <2>5, <2>6
<1>6. Reached(r)
  <2>1. SUFFICES ASSUME NEW C \in SUBSET Ino, ClosedIn(r, C), NEW c \in Ino, IsDir(r, c)
                 PROVE  c \in C
    BY DEF Reached
  <2>2. ClosedIn(s, C)
    <3>1. 0 \in C
      BY <2>1 DEF ClosedIn
    <3>2. ASSUME NEW x \in C, NEW q \in Linked(s, x), At(s, x, q).f_type = "directory"
          PROVE  At(s, x, q).i_no \in C
      <4>1. q \in Place /\ q \in Filled(s, x)
        BY <3>2 DEF Linked, Filled
      <4>2. x # i /\ At(r, x, q) = At(s, x, q)
        BY <1>1, <3>2, <4>1
      <4>3. q \in Linked(r, x)
        BY <1>2, <3>2, <4>2
      <4> QED
        BY <2>1, <3>2, <4>2, <4>3 DEF ClosedIn
    <3> QED
      BY <3>1, <3>2 DEF ClosedIn
  <2>3. \A x \in Ino : IsDir(s, x) => x \in C
    BY <1>0, <2>2 DEF Reached
  <2>4. CASE c = i
    <3>1. d \in C /\ p \in Linked(r, d)
      BY <1>1, <1>2, <2>3
    <3>2. e.f_type = "directory"
      BY <1>2, <2>1, <2>4 DEF Kind
    <3> QED
      BY <1>2, <2>1, <2>4, <3>1, <3>2 DEF ClosedIn
  <2>5. CASE c # i
    <3>1. IsDir(s, c)
      BY <2>1, <2>5 DEF Grown
    <3> QED
      BY <2>3, <3>1
  <2> QED
    BY <2>4, <2>5
<1> QED
  BY <1>3, <1>4, <1>5, <1>6 DEF TreeInv
-----------------------------------------------------------------------------
(* The tree, when the inode i goes, which nothing hangs on, and its name.  *)
Shrunk(s, r, d, i, p) ==
  /\ d \in Ino /\ i \in Ino /\ IsDir(s, d) /\ p \in Linked(s, d) /\ At(s, d, p).i_no = i /\ Linked(s, i) = {}
  /\ r.inode_bitmap = s.inode_bitmap \ {i}
  /\ \A c \in Ino : IsDir(r, c) <=> c # i /\ IsDir(s, c)
  /\ Inode(r, i) = NoInode /\ Inode(r, d).i_size = Inode(s, d).i_size - 1
  /\ \A c \in Ino \ {i, d} : Inode(r, c) = Inode(s, c)
  /\ \A c \in Ino, q \in Place : At(r, c, q) = IF c = i \/ (c = d /\ q = p) THEN Free ELSE At(s, c, q)

LEMMA ShrunkSets ==
  ASSUME NEW s, NEW r, NEW d, NEW i, NEW p, Kinds(s), Dots(s), Entries(s), Tree(s), Shrunk(s, r, d, i, p)
  PROVE  /\ d \in Ino /\ i \in Ino /\ i # d /\ i # 0 /\ p \in Place /\ p \in Filled(s, d) /\ IsDir(s, d)
         /\ p # <<0, 1>> /\ p # <<0, 2>> /\ Filled(r, i) = {} /\ Linked(r, i) = {}
         /\ \A c \in Ino \ {i, d} : Filled(r, c) = Filled(s, c)
         /\ Filled(r, d) = Filled(s, d) \ {p}
         /\ \A c \in Ino, q \in Place : q \in Filled(r, c) => /\ c # i /\ ~(c = d /\ q = p) /\ q \in Filled(s, c)
                                                              /\ At(r, c, q) = At(s, c, q)
         /\ \A c \in Ino, q \in Place : q \in Linked(r, c) => q \in Linked(s, c) /\ q \in Filled(r, c)
         /\ \A c \in Ino, q \in Place : q \in Linked(s, c) /\ ~(c = d /\ q = p) =>
              c # i /\ q \in Linked(r, c) /\ At(s, c, q).i_no # i
<1>1. /\ d \in Ino /\ i \in Ino /\ IsDir(s, d) /\ p \in Linked(s, d) /\ At(s, d, p).i_no = i /\ Linked(s, i) = {}
      /\ \A c \in Ino, q \in Place : At(r, c, q) = IF c = i \/ (c = d /\ q = p) THEN Free ELSE At(s, c, q)
  BY DEF Shrunk
<1>2. i # d /\ p \in Place /\ p \in Filled(s, d) /\ At(s, d, p) # Free
  BY <1>1 DEF Linked, Filled
<1>3. i # 0 /\ p # <<0, 1>> /\ p # <<0, 2>>
  <2>1. /\ p \in Linked(s, d) <=> ~(IsDir(s, d) /\ p \in {<<0, 1>>, <<0, 2>>})
        /\ p \in Linked(s, d) => At(s, d, p).i_no \in s.inode_bitmap \ {0}
    BY <1>1, <1>2, EntryIs
  <2> QED
    BY <1>1, <2>1
<1>4. Filled(r, i) = {} /\ Linked(r, i) = {}
  BY <1>1 DEF Filled, Linked
<1>5. \A c \in Ino \ {i, d} : Filled(r, c) = Filled(s, c)
  BY <1>1 DEF Filled
<1>6. Filled(r, d) = Filled(s, d) \ {p}
  BY <1>1, <1>2 DEF Filled
<1>7. \A c \in Ino, q \in Place : q \in Filled(r, c) => /\ c # i /\ ~(c = d /\ q = p) /\ q \in Filled(s, c)
                                                        /\ At(r, c, q) = At(s, c, q)
  BY <1>1 DEF Filled
<1>8. \A c \in Ino, q \in Place : q \in Linked(r, c) => q \in Linked(s, c) /\ q \in Filled(r, c)
  BY <1>7 DEF Linked
<1>9. \A c \in Ino, q \in Place : q \in Linked(s, c) /\ ~(c = d /\ q = p) =>
        c # i /\ q \in Linked(r, c) /\ At(s, c, q).i_no # i
  <2>1. TAKE c \in Ino, q \in Place
  <2>2. SUFFICES ASSUME q \in Linked(s, c), ~(c = d /\ q = p)
                 PROVE  c # i /\ q \in Linked(r, c) /\ At(s, c, q).i_no # i
    OBVIOUS
  <2>3. c # i
    BY <1>1, <2>2
  <2>4. q \in Linked(r, c)
    BY <1>1, <2>2, <2>3 DEF Linked, Filled
  <2>5. At(s, c, q).i_no # i
    BY <1>1, <2>2 DEF Tree
  <2> QED
    BY <2>3, <2>4, <2>5
<1> QED
  BY <1>1, <1>2, <1>3, <1>4, <1>5, <1>6, <1>7, <1>8, <1>9

LEMMA ShrunkNodes ==
  ASSUME NEW s, NEW r, NEW d, NEW i, NEW p, s.inode_bitmap \subseteq Ino,
         Kinds(s), Dots(s), Entries(s), Tree(s), Shrunk(s, r, d, i, p)
  PROVE  Kinds(r) /\ Dots(r) /\ Entries(r)
<1>1. /\ d \in Ino /\ i \in Ino /\ i # d /\ i # 0 /\ p \in Place /\ p \in Filled(s, d) /\ IsDir(s, d)
      /\ p # <<0, 1>> /\ p # <<0, 2>> /\ Filled(r, i) = {} /\ Linked(r, i) = {}
      /\ \A c \in Ino \ {i, d} : Filled(r, c) = Filled(s, c)
      /\ Filled(r, d) = Filled(s, d) \ {p}
      /\ \A c \in Ino, q \in Place : q \in Filled(r, c) => /\ c # i /\ ~(c = d /\ q = p) /\ q \in Filled(s, c)
                                                           /\ At(r, c, q) = At(s, c, q)
      /\ \A c \in Ino, q \in Place : q \in Linked(r, c) => q \in Linked(s, c) /\ q \in Filled(r, c)
      /\ \A c \in Ino, q \in Place : q \in Linked(s, c) /\ ~(c = d /\ q = p) =>
           c # i /\ q \in Linked(r, c) /\ At(s, c, q).i_no # i
  BY ShrunkSets
<1>2. /\ r.inode_bitmap = s.inode_bitmap \ {i}
      /\ \A c \in Ino : IsDir(r, c) <=> c # i /\ IsDir(s, c)
      /\ Inode(r, i) = NoInode
      /\ \A c \in Ino \ {i, d} : Inode(r, c) = Inode(s, c)
      /\ \A c \in Ino, q \in Place : At(r, c, q) = IF c = i \/ (c = d /\ q = p) THEN Free ELSE At(s, c, q)
  BY DEF Shrunk
<1>3. 0 \in Ino
  BY Bounds
<1>4. Kinds(r)
  <2>1. /\ 0 \in s.inode_bitmap /\ IsDir(s, 0)
        /\ \A c \in Ino : ~IsDir(s, c) => Inode(s, c) = NoInode
        /\ \A c \in Ino : IsDir(s, c) => c \in s.inode_bitmap
    BY DEF Kinds
  <2>2. \A c \in Ino : ~IsDir(r, c) => Inode(r, c) = NoInode
    BY <1>1, <1>2, <2>1
  <2>3. \A c \in Ino : IsDir(r, c) => c \in r.inode_bitmap
    BY <1>2, <2>1
  <2> QED
    BY <1>1, <1>2, <1>3, <2>1, <2>2, <2>3 DEF Kinds
<1>5. Dots(r)
  <2>1. SUFFICES ASSUME NEW c \in Ino, IsDir(r, c)
                 PROVE  At(r, c, <<0, 1>>) = Ent(".", c, "directory") /\ \E x \in Ino : Above(r, c, x)
    BY DEF Dots
  <2>2. c # i /\ IsDir(s, c)
    BY <1>2, <2>1
  <2>3. At(s, c, <<0, 1>>) = Ent(".", c, "directory")
    BY <2>2, DotIs
  <2>4. PICK x \in Ino : Above(s, c, x)
    BY <2>2 DEF Dots
  <2>5. At(r, c, <<0, 1>>) = At(s, c, <<0, 1>>) /\ At(r, c, <<0, 2>>) = At(s, c, <<0, 2>>)
    BY <1>1, <1>2, <2>2, DotPlaces
  <2>6. x # i
    <3>1. CASE c = 0
      BY <1>1, <2>4, <3>1 DEF Above
    <3>2. CASE c # 0
      <4>1. c \in s.inode_bitmap \ {0}
        BY <2>2, <3>2 DEF Kinds
      <4>2. PICK y \in Ino : \E q \in Linked(s, y) : At(s, y, q).i_no = c
        BY <4>1 DEF Tree
      <4>3. PICK q \in Linked(s, y) : At(s, y, q).i_no = c
        BY <4>2
      <4>4. At(s, c, <<0, 2>>).i_no = y
        BY <2>2, <4>3 DEF Tree
      <4>5. At(s, c, <<0, 2>>).i_no = x
        <5>1. At(s, c, <<0, 2>>) = Ent("..", x, "directory")
          BY <2>4 DEF Above
        <5> QED
          BY <5>1, EntIs
      <4>6. Linked(s, i) = {}
        BY DEF Shrunk
      <4> QED
        BY <4>3, <4>4, <4>5, <4>6
    <3> QED
      BY <3>1, <3>2
  <2>7. Above(r, c, x)
    BY <1>2, <2>4, <2>5, <2>6 DEF Above
  <2> QED
    BY <2>3, <2>5, <2>7
<1>6. Entries(r)
  <2>1. SUFFICES ASSUME NEW c \in Ino, NEW q \in Place, At(r, c, q) # Free,
                        ~(IsDir(r, c) /\ q \in {<<0, 1>>, <<0, 2>>})
                 PROVE  \E j \in r.inode_bitmap \ {0} : \E name :
                          name \notin {"", ".", ".."} /\ At(r, c, q) = Ent(name, j, Kind(r, j))
    BY DEF Entries
  <2>2. c # i /\ ~(c = d /\ q = p) /\ At(r, c, q) = At(s, c, q)
    BY <1>2, <2>1
  <2>3. ~(IsDir(s, c) /\ q \in {<<0, 1>>, <<0, 2>>})
    BY <1>2, <2>1, <2>2
  <2>4. PICK j \in s.inode_bitmap \ {0} : \E name :
          name \notin {"", ".", ".."} /\ At(s, c, q) = Ent(name, j, Kind(s, j))
    BY <2>1, <2>2, <2>3 DEF Entries
  <2>5. q \in Linked(s, c)
    <3>1. At(s, c, q) # Free
      BY <2>1, <2>2
    <3> QED
      BY <2>3, <3>1, EntryIs
  <2>6. j # i
    <3>1. At(s, c, q).i_no = j
      <4>1. PICK k : k = Kind(s, j)
        OBVIOUS
      <4>2. PICK x : x = At(s, c, q)
        OBVIOUS
      <4>3. PICK n : x = Ent(n, j, k)
        BY <2>4, <4>1, <4>2
      <4>4. x.i_no = j
        BY <4>3, EntIs
      <4> QED
        BY <4>2, <4>4
    <3> QED
      BY <1>1, <2>2, <2>5, <3>1
  <2>7. Kind(r, j) = Kind(s, j) /\ j \in r.inode_bitmap \ {0}
    BY <1>2, <2>4, <2>6 DEF Kind
  <2> QED
    BY <2>2, <2>4, <2>7
<1> QED
  BY <1>4, <1>5, <1>6

(* The tree without a leaf is a tree.                                      *)
LEMMA ShrunkKeeps ==
  ASSUME NEW s, NEW r, NEW d, NEW i, NEW p, s.inode_bitmap \subseteq Ino, TreeInv(s), Shrunk(s, r, d, i, p)
  PROVE  TreeInv(r)
<1>0. Kinds(s) /\ Dots(s) /\ Entries(s) /\ Tree(s) /\ Sizes(s) /\ Reached(s)
  BY DEF TreeInv
<1>1. /\ d \in Ino /\ i \in Ino /\ i # d /\ i # 0 /\ p \in Place /\ p \in Filled(s, d) /\ IsDir(s, d)
      /\ p # <<0, 1>> /\ p # <<0, 2>> /\ Filled(r, i) = {} /\ Linked(r, i) = {}
      /\ \A c \in Ino \ {i, d} : Filled(r, c) = Filled(s, c)
      /\ Filled(r, d) = Filled(s, d) \ {p}
      /\ \A c \in Ino, q \in Place : q \in Filled(r, c) => /\ c # i /\ ~(c = d /\ q = p) /\ q \in Filled(s, c)
                                                           /\ At(r, c, q) = At(s, c, q)
      /\ \A c \in Ino, q \in Place : q \in Linked(r, c) => q \in Linked(s, c) /\ q \in Filled(r, c)
      /\ \A c \in Ino, q \in Place : q \in Linked(s, c) /\ ~(c = d /\ q = p) =>
           c # i /\ q \in Linked(r, c) /\ At(s, c, q).i_no # i
  BY <1>0, ShrunkSets
<1>2. /\ r.inode_bitmap = s.inode_bitmap \ {i} /\ At(s, d, p).i_no = i /\ Linked(s, i) = {} /\ p \in Linked(s, d)
      /\ \A c \in Ino : IsDir(r, c) <=> c # i /\ IsDir(s, c)
      /\ Inode(r, i) = NoInode
      /\ Inode(r, d).i_size = Inode(s, d).i_size - 1
      /\ \A c \in Ino \ {i, d} : Inode(r, c) = Inode(s, c)
      /\ \A c \in Ino, q \in Place : At(r, c, q) = IF c = i \/ (c = d /\ q = p) THEN Free ELSE At(s, c, q)
  BY DEF Shrunk
<1>3. Kinds(r) /\ Dots(r) /\ Entries(r)
  BY <1>0, ShrunkNodes
<1>4. \A c : /\ Linked(s, c) \subseteq Filled(s, c) /\ Filled(s, c) \subseteq Place
             /\ Linked(r, c) \subseteq Filled(r, c) /\ Filled(r, c) \subseteq Place
  BY DEF Linked, Filled
<1>5. Tree(r)
  <2>1. \A j \in r.inode_bitmap \ {0} : \E c \in Ino : \E q \in Linked(r, c) : At(r, c, q).i_no = j
    <3>1. TAKE j \in r.inode_bitmap \ {0}
    <3>2. j \in s.inode_bitmap \ {0} /\ j # i
      BY <1>2, <3>1
    <3>3. PICK c \in Ino : \E q \in Linked(s, c) : At(s, c, q).i_no = j
      BY <1>0, <3>2 DEF Tree
    <3>4. PICK q \in Linked(s, c) : At(s, c, q).i_no = j
      BY <3>3
    <3>5. q \in Place /\ ~(c = d /\ q = p)
      BY <1>2, <1>4, <3>2, <3>4
    <3>6. q \in Linked(r, c) /\ c # i
      BY <1>1, <3>4, <3>5
    <3>7. At(r, c, q) = At(s, c, q)
      BY <1>2, <3>5, <3>6
    <3> QED
      BY <3>4, <3>6, <3>7
  <2>2. \A c, x \in Ino : \A q \in Linked(r, c), t \in Linked(r, x) :
          At(r, c, q).i_no = At(r, x, t).i_no => c = x /\ q = t
    <3>1. \A c, x \in Ino : \A q \in Linked(s, c), t \in Linked(s, x) :
            At(s, c, q).i_no = At(s, x, t).i_no => c = x /\ q = t
      BY <1>0 DEF Tree
    <3> QED
      BY <1>1, <1>4, <3>1
  <2>3. \A c \in Ino : \A q, t \in Filled(r, c) : At(r, c, q).filename = At(r, c, t).filename => q = t
    <3>1. \A c \in Ino : \A q, t \in Filled(s, c) : At(s, c, q).filename = At(s, c, t).filename => q = t
      BY <1>0 DEF Tree
    <3> QED
      BY <1>1, <1>4, <3>1
  <2>4. \A c \in Ino : \A q \in Linked(r, c) :
          IsDir(r, At(r, c, q).i_no) => At(r, At(r, c, q).i_no, <<0, 2>>).i_no = c
    <3>1. TAKE c \in Ino
    <3>2. TAKE q \in Linked(r, c)
    <3>3. SUFFICES ASSUME IsDir(r, At(r, c, q).i_no) PROVE At(r, At(r, c, q).i_no, <<0, 2>>).i_no = c
      OBVIOUS
    <3>4. /\ q \in Place /\ q \in Linked(s, c) /\ At(r, c, q) = At(s, c, q) /\ ~(c = d /\ q = p)
      BY <1>1, <1>4, <3>2
    <3>5. PICK j : j = At(s, c, q).i_no
      OBVIOUS
    <3>6. j \in Ino /\ j # i
      <4>1. At(s, c, q) # Free
        BY <3>4 DEF Linked, Filled
      <4>2. j \in s.inode_bitmap
        BY <1>0, <3>4, <3>5, <4>1, EntryIs
      <4> QED
        BY <1>1, <3>4, <3>5, <4>2
    <3>7. IsDir(s, j)
      BY <1>2, <3>3, <3>4, <3>5, <3>6
    <3>8. At(s, j, <<0, 2>>).i_no = c
      BY <1>0, <3>4, <3>5, <3>7 DEF Tree
    <3>9. At(r, j, <<0, 2>>) = At(s, j, <<0, 2>>)
      BY <1>1, <1>2, <3>6, DotPlaces
    <3> QED
      BY <3>4, <3>5, <3>8, <3>9
  <2> QED
    BY <2>1, <2>2, <2>3, <2>4 DEF Tree
<1>6. Sizes(r)
  <2>1. SUFFICES ASSUME NEW c \in Ino PROVE Inode(r, c).i_size = Cardinality(Filled(r, c))
    BY DEF Sizes
  <2>2. \A x \in Ino : Inode(s, x).i_size = Cardinality(Filled(s, x))
    BY <1>0 DEF Sizes
  <2>3. CASE c = i
    <3>1. Inode(r, i).i_size = 0
      BY <1>2 DEF NoInode
    <3> QED
      BY <1>1, <2>3, <3>1, FS_EmptySet
  <2>4. CASE c = d
    <3>1. IsFiniteSet(Filled(s, d))
      BY PlaceFinite DEF Filled
    <3>2. Cardinality(Filled(s, d) \ {p}) = Cardinality(Filled(s, d)) - 1
      BY <1>1, <3>1, FS_RemoveElement
    <3> QED
      BY <1>1, <1>2, <2>2, <2>4, <3>2
  <2>5. CASE c # i /\ c # d
    BY <1>1, <1>2, <2>2, <2>5
  <2> QED
    BY <2>3, <2>4, <2>5
<1>7. Reached(r)
  <2>1. SUFFICES ASSUME NEW C \in SUBSET Ino, ClosedIn(r, C), NEW c \in Ino, IsDir(r, c)
                 PROVE  c \in C
    BY DEF Reached
  <2>2. ClosedIn(s, C \cup {i})
    <3>1. 0 \in C
      BY <2>1 DEF ClosedIn
    <3>2. ASSUME NEW x \in C \cup {i}, NEW q \in Linked(s, x), At(s, x, q).f_type = "directory"
          PROVE  At(s, x, q).i_no \in C \cup {i}
      <4>1. q \in Place /\ x \in Ino /\ x # i /\ x \in C
        BY <1>1, <1>2, <1>4, <3>2
      <4>2. CASE x = d /\ q = p
        BY <1>2, <4>2
      <4>3. CASE ~(x = d /\ q = p)
        <5>1. q \in Linked(r, x) /\ At(r, x, q) = At(s, x, q)
          BY <1>1, <1>2, <3>2, <4>1, <4>3
        <5> QED
          BY <2>1, <3>2, <4>1, <5>1 DEF ClosedIn
      <4> QED
        BY <4>2, <4>3
    <3> QED
      BY <3>1, <3>2 DEF ClosedIn
  <2>3. C \cup {i} \in SUBSET Ino
    BY <1>1
  <2>4. \A x \in Ino : IsDir(s, x) => x \in C \cup {i}
    BY <1>0, <2>2, <2>3 DEF Reached
  <2> QED
    BY <1>2, <2>1, <2>4
<1> QED
  BY <1>3, <1>5, <1>6, <1>7 DEF TreeInv
-----------------------------------------------------------------------------
(* A call does no harm to the table of d: if the entry goes behind it, d   *)
(* has none yet.                                                           *)
Spare(s, d) == RoomAt(s, d) = DIRECT => s.mem[d].i_sectors[DIRECT] = 0

LEMMA NotFull ==
  ASSUME NEW s, NEW d \in Ino, s.mem[d] = Inode(s, d), Spare(s, d), Full(s, Inode(s, d))
  PROVE  Addr(s, d, Table) = 0
<1>1. PICK k : k = RoomAt(s, d)
  OBVIOUS
<1>2. k \in 0..DIRECT /\ HasRoom(s, d, k)
  BY <1>1, RoomOK
<1>3. k = DIRECT
  <2>1. k # DIRECT => k \in Direct
    BY <1>2, DirectIs
  <2> QED
    BY <1>2, <2>1 DEF HasRoom, Full
<1>4. Inode(s, d).i_sectors[DIRECT] = 0
  BY <1>1, <1>3 DEF Spare
<1> QED
  BY <1>4, AddrIs

(* The list of open inodes.                                                *)
SameDisk(s, r) ==
  /\ r.inode_bitmap = s.inode_bitmap /\ r.block_bitmap = s.block_bitmap
  /\ r.disk_ibits = s.disk_ibits /\ r.disk_bbits = s.disk_bbits
  /\ r.inode_table = s.inode_table /\ r.blk = s.blk /\ r.tab = s.tab /\ r.file_table = s.file_table

(* A state with the same blocks and inodes has the same view.              *)
LEMMA SameView ==
  ASSUME NEW s, NEW r, r.inode_table = s.inode_table, r.blk = s.blk, r.tab = s.tab
  PROVE  /\ \A i : Inode(r, i) = Inode(s, i) /\ IsDir(r, i) = IsDir(s, i) /\ Kind(r, i) = Kind(s, i)
         /\ \A i, k : Addr(r, i, k) = Addr(s, i, k)
         /\ \A i, p : At(r, i, p) = At(s, i, p)
         /\ \A i : Filled(r, i) = Filled(s, i) /\ Linked(r, i) = Linked(s, i)
<1>1. \A i : Inode(r, i) = Inode(s, i)
  BY DEF Inode
<1>2. \A i, k : Addr(r, i, k) = Addr(s, i, k)
  BY <1>1 DEF Addr
<1>3. \A i : IsDir(r, i) = IsDir(s, i) /\ Kind(r, i) = Kind(s, i)
  BY <1>2 DEF IsDir, Kind
<1>4. \A i, p : At(r, i, p) = At(s, i, p)
  BY <1>2 DEF At
<1>5. \A i : Filled(r, i) = Filled(s, i) /\ Linked(r, i) = Linked(s, i)
  BY <1>4 DEF Filled, Linked
<1> QED
  BY <1>1, <1>2, <1>3, <1>4, <1>5

LEMMA SameTree ==
  ASSUME NEW s, NEW r, r.inode_table = s.inode_table, r.blk = s.blk, r.tab = s.tab,
         r.inode_bitmap = s.inode_bitmap, TreeInv(s)
  PROVE  TreeInv(r)
<1>1. /\ \A i : Inode(r, i) = Inode(s, i) /\ IsDir(r, i) = IsDir(s, i) /\ Kind(r, i) = Kind(s, i)
      /\ \A i, k : Addr(r, i, k) = Addr(s, i, k)
      /\ \A i, p : At(r, i, p) = At(s, i, p)
      /\ \A i : Filled(r, i) = Filled(s, i) /\ Linked(r, i) = Linked(s, i)
  BY SameView
<1>2. Kinds(s) => Kinds(r)
  BY <1>1 DEF Kinds
<1>3. Dots(s) => Dots(r)
  BY <1>1 DEF Dots, Above
<1>4. Entries(s) => Entries(r)
  <2>1. SUFFICES ASSUME Entries(s), NEW c \in Ino, NEW q \in Place, At(r, c, q) # Free,
                        ~(IsDir(r, c) /\ q \in {<<0, 1>>, <<0, 2>>})
                 PROVE  \E j \in r.inode_bitmap \ {0} : \E name :
                          name \notin {"", ".", ".."} /\ At(r, c, q) = Ent(name, j, Kind(r, j))
    BY DEF Entries
  <2>2. At(r, c, q) = At(s, c, q) /\ IsDir(r, c) = IsDir(s, c)
    BY <1>1
  <2>3. PICK j \in s.inode_bitmap \ {0} : \E name :
          name \notin {"", ".", ".."} /\ At(s, c, q) = Ent(name, j, Kind(s, j))
    BY <2>1, <2>2 DEF Entries
  <2>4. Kind(r, j) = Kind(s, j)
    BY <1>1
  <2> QED
    BY <2>2, <2>3, <2>4
<1>5. Tree(s) => Tree(r)
  <2>1. ASSUME Tree(s) PROVE Tree(r)
    <3>1. \A j \in r.inode_bitmap \ {0} : \E c \in Ino : \E q \in Linked(r, c) : At(r, c, q).i_no = j
      BY <1>1, <2>1 DEF Tree
    <3>2. \A c, x \in Ino : \A q \in Linked(r, c), t \in Linked(r, x) :
            At(r, c, q).i_no = At(r, x, t).i_no => c = x /\ q = t
      BY <1>1, <2>1 DEF Tree
    <3>3. \A c \in Ino : \A q, t \in Filled(r, c) : At(r, c, q).filename = At(r, c, t).filename => q = t
      BY <1>1, <2>1 DEF Tree
    <3>4. \A c \in Ino : \A q \in Linked(r, c) :
            IsDir(r, At(r, c, q).i_no) => At(r, At(r, c, q).i_no, <<0, 2>>).i_no = c
      BY <1>1, <2>1 DEF Tree
    <3> QED
      BY <3>1, <3>2, <3>3, <3>4 DEF Tree
  <2> QED
    BY <2>1
<1>6. Sizes(s) => Sizes(r)
  BY <1>1 DEF Sizes
<1>7. Reached(s) => Reached(r)
  BY <1>1 DEF Reached, ClosedIn
<1> QED
  BY <1>2, <1>3, <1>4, <1>5, <1>6, <1>7 DEF TreeInv

LEMMA SameBlocks ==
  ASSUME NEW s, NEW r, r.inode_table = s.inode_table, r.blk = s.blk, r.tab = s.tab,
         r.block_bitmap = s.block_bitmap, Blocks(s), Tables(s)
  PROVE  Blocks(r) /\ Tables(r)
<1>1. /\ \A i, k : Addr(r, i, k) = Addr(s, i, k)
      /\ \A i, p : At(r, i, p) = At(s, i, p)
  BY SameView
<1>2. Blocks(r)
  BY <1>1 DEF Blocks
<1>3. Tables(r)
  BY <1>1 DEF Tables
<1> QED
  BY <1>2, <1>3

LEMMA SameDiskFs ==
  ASSUME NEW s, NEW r, IsFs(s), FsRec(r), SameDisk(s, r), r.open \in [Ino -> Nat], r.mem = [j \in Ino |-> r.mem[j]]
  PROVE  IsFs(r)
<1>1. /\ r.inode_bitmap = s.inode_bitmap /\ r.block_bitmap = s.block_bitmap /\ r.file_table = s.file_table
      /\ r.inode_table = s.inode_table /\ r.blk = s.blk /\ r.tab = s.tab
  BY DEF SameDisk
<1> QED
  BY <1>1 DEF IsFs

(* inode_open, field by field.                                             *)
LEMMA OpenIs ==
  ASSUME NEW s, NEW i \in Ino, IsFs(s), MemOK(s)
  PROVE  LET r == inode_open(s, i)
         IN  /\ IsFs(r) /\ MemOK(r) /\ SameDisk(s, r)
             /\ r.open = [s.open EXCEPT ![i] = @ + 1] /\ r.mem[i] = s.inode_table[i]
<1>1. PICK o : o = s.open[i] + 1
  OBVIOUS
<1>2. PICK m : m = IF s.open[i] = 0 THEN s.inode_table[i] ELSE s.mem[i]
  OBVIOUS
<1>3. PICK r : r = inode_open(s, i)
  OBVIOUS
<1>4. FsRec(s) /\ s.open \in [Ino -> Nat] /\ s.mem = [j \in Ino |-> s.mem[j]]
  BY DEF IsFs
<1>5. /\ FsRec(r) /\ SameDisk(s, r) /\ r.open = [s.open EXCEPT ![i] = o] /\ r.mem = [s.mem EXCEPT ![i] = m]
  <2>1. r = [s EXCEPT !.open[i] = @ + 1, !.mem[i] = IF s.open[i] = 0 THEN s.inode_table[i] ELSE @]
    BY <1>3 DEF inode_open
  <2>2. r = [s EXCEPT !.open[i] = o, !.mem[i] = m]
    BY <1>1, <1>2, <1>4, <2>1 DEF FsRec
  <2> QED
    BY <1>4, <2>2 DEF FsRec, SameDisk
<1>6. m = s.inode_table[i]
  BY <1>2, <1>4 DEF MemOK
<1>7. r.open \in [Ino -> Nat] /\ r.mem = [j \in Ino |-> r.mem[j]]
  BY <1>1, <1>4, <1>5
<1>8. IsFs(r)
  BY ONLY <1>5, <1>7, IsFs(s), SameDiskFs
<1>9. MemOK(r)
  <2>1. SUFFICES ASSUME NEW j \in Ino, r.open[j] > 0 PROVE r.mem[j] = r.inode_table[j]
    BY DEF MemOK
  <2>2. r.inode_table = s.inode_table
    BY <1>5 DEF SameDisk
  <2>3. CASE j = i
    BY <1>4, <1>5, <1>6, <2>2, <2>3
  <2>4. CASE j # i
    BY <1>4, <1>5, <2>1, <2>2, <2>4 DEF MemOK
  <2> QED
    BY <2>3, <2>4
<1>10. r.mem[i] = s.inode_table[i] /\ r.open = [s.open EXCEPT ![i] = @ + 1]
  BY <1>1, <1>4, <1>5, <1>6
<1> QED
  BY <1>3, <1>5, <1>8, <1>9, <1>10

(* inode_close, field by field.                                            *)
LEMMA CloseIs ==
  ASSUME NEW s, NEW i \in Ino, IsFs(s), \A j \in Ino \ {i} : s.open[j] > 0 => s.mem[j] = s.inode_table[j],
         s.open[i] > 0, s.open[i] = 1 \/ s.mem[i] = s.inode_table[i]
  PROVE  LET r == inode_close(s, i)
         IN  IsFs(r) /\ MemOK(r) /\ SameDisk(s, r) /\ r.open = [s.open EXCEPT ![i] = @ - 1]
<1>1. PICK o : o = s.open[i] - 1
  OBVIOUS
<1>2. PICK m : m = IF s.open[i] = 1 THEN NoInode ELSE s.mem[i]
  OBVIOUS
<1>3. PICK r : r = inode_close(s, i)
  OBVIOUS
<1>4. FsRec(s) /\ s.open \in [Ino -> Nat] /\ s.mem = [j \in Ino |-> s.mem[j]]
  BY DEF IsFs
<1>5. /\ FsRec(r) /\ SameDisk(s, r) /\ r.open = [s.open EXCEPT ![i] = o] /\ r.mem = [s.mem EXCEPT ![i] = m]
  <2>1. r = [s EXCEPT !.open[i] = @ - 1, !.mem[i] = IF s.open[i] = 1 THEN NoInode ELSE @]
    BY <1>3 DEF inode_close
  <2>2. r = [s EXCEPT !.open[i] = o, !.mem[i] = m]
    BY <1>1, <1>2, <1>4, <2>1 DEF FsRec
  <2> QED
    BY <1>4, <2>2 DEF FsRec, SameDisk
<1>6. o \in Nat /\ (o > 0 => m = s.inode_table[i])
  BY <1>1, <1>2, <1>4
<1>7. r.open \in [Ino -> Nat] /\ r.mem = [j \in Ino |-> r.mem[j]]
  BY <1>4, <1>5, <1>6
<1>8. IsFs(r)
  BY ONLY <1>5, <1>7, IsFs(s), SameDiskFs
<1>9. MemOK(r)
  <2>1. SUFFICES ASSUME NEW j \in Ino, r.open[j] > 0 PROVE r.mem[j] = r.inode_table[j]
    BY DEF MemOK
  <2>2. r.inode_table = s.inode_table
    BY <1>5 DEF SameDisk
  <2>3. CASE j = i
    BY <1>4, <1>5, <1>6, <2>1, <2>2, <2>3
  <2>4. CASE j # i
    BY <1>4, <1>5, <2>1, <2>2, <2>4
  <2> QED
    BY <2>3, <2>4
<1>10. r.open = [s.open EXCEPT ![i] = @ - 1]
  BY <1>1, <1>4, <1>5
<1> QED
  BY <1>3, <1>5, <1>8, <1>9, <1>10
-----------------------------------------------------------------------------
(* What the calls make of a file system is one.                            *)
BlkOK(blk) ==
  blk = [b \in Block |-> blk[b]] /\ \A b \in Block : blk[b] = [j \in 1..PER_SEC |-> blk[b][j]]
TabOK(tab) == tab \in [Block -> [0..(INDIRECT - 1) -> Address]]

LEMMA FsParts ==
  ASSUME NEW s, IsFs(s)
  PROVE  BlkOK(s.blk) /\ TabOK(s.tab) /\ s.block_bitmap \subseteq Block
BY DEF IsFs, BlkOK, TabOK

LEMMA OnlyFs ==
  ASSUME NEW s, NEW r, NEW d \in Ino, NEW y, IsFs(s), OnlyInode(s, r, d, y), InodeOK(y),
         r.block_bitmap \subseteq Block, BlkOK(r.blk), TabOK(r.tab)
  PROVE  IsFs(r) /\ (MemOK(s) => MemOK(r))
<1>1. /\ s.inode_bitmap \subseteq Ino /\ s.file_table \subseteq Ino
      /\ s.inode_table = [i \in Ino |-> s.inode_table[i]] /\ s.mem = [i \in Ino |-> s.mem[i]]
      /\ s.open \in [Ino -> Nat] /\ \A i \in Ino : InodeOK(s.inode_table[i])
  BY DEF IsFs
<1>2. /\ FsRec(r) /\ r.inode_bitmap = s.inode_bitmap
      /\ r.open = s.open /\ r.file_table = s.file_table
      /\ r.mem = [s.mem EXCEPT ![d] = y] /\ r.inode_table = [s.inode_table EXCEPT ![d] = y]
  BY DEF OnlyInode, NewInode
<1>3. r.inode_table = [i \in Ino |-> r.inode_table[i]] /\ r.mem = [i \in Ino |-> r.mem[i]]
  BY <1>1, <1>2
<1>4. r.inode_table[d] = y /\ r.mem[d] = y
      /\ \A i \in Ino \ {d} : r.inode_table[i] = s.inode_table[i] /\ r.mem[i] = s.mem[i]
  BY <1>1, <1>2
<1>5. \A i \in Ino : InodeOK(r.inode_table[i])
  BY <1>1, <1>4
<1>6. MemOK(s) => MemOK(r)
  BY <1>2, <1>4 DEF MemOK
<1>7. /\ r.inode_bitmap \subseteq Ino /\ r.file_table \subseteq Ino /\ r.open \in [Ino -> Nat]
  BY <1>1, <1>2
<1> HIDE DEF InodeOK, FsRec
<1>8. FsRec(r)
  BY <1>2
<1> QED
  BY ONLY <1>3, <1>5, <1>6, <1>7, <1>8, r.block_bitmap \subseteq Block, BlkOK(r.blk), TabOK(r.tab) DEF IsFs, BlkOK, TabOK

(* Two ways in which a sector changes.                                     *)
LEMMA SectorOK ==
  ASSUME NEW blk, BlkOK(blk), NEW b, NEW j, NEW e, NEW c, c = [n \in 1..PER_SEC |-> c[n]]
  PROVE  BlkOK([blk EXCEPT ![b][j] = e]) /\ BlkOK([blk EXCEPT ![b] = c])
<1>1. blk = [n \in Block |-> blk[n]] /\ \A n \in Block : blk[n] = [k \in 1..PER_SEC |-> blk[n][k]]
  BY DEF BlkOK
<1>2. BlkOK([blk EXCEPT ![b] = c])
  <2>1. PICK x : x = [blk EXCEPT ![b] = c]
    OBVIOUS
  <2>2. x = [n \in Block |-> IF n = b THEN c ELSE blk[n]]
    BY <1>1, <2>1
  <2>3. x = [n \in Block |-> x[n]] /\ \A n \in Block : x[n] = IF n = b THEN c ELSE blk[n]
    BY <2>2
  <2>4. \A n \in Block : x[n] = [k \in 1..PER_SEC |-> x[n][k]]
    BY <1>1, <2>3
  <2> QED
    BY <2>1, <2>3, <2>4 DEF BlkOK
<1>3. BlkOK([blk EXCEPT ![b][j] = e])
  <2>1. PICK x : x = [blk EXCEPT ![b][j] = e]
    OBVIOUS
  <2>2. x = [n \in Block |-> IF n = b THEN [blk[b] EXCEPT ![j] = e] ELSE blk[n]]
    BY <1>1, <2>1
  <2>3. x = [n \in Block |-> x[n]] /\ \A n \in Block : x[n] = IF n = b THEN [blk[b] EXCEPT ![j] = e] ELSE blk[n]
    BY <2>2
  <2>4. b \in Block => [blk[b] EXCEPT ![j] = e] = [k \in 1..PER_SEC |-> [blk[b] EXCEPT ![j] = e][k]]
    BY <1>1
  <2>5. \A n \in Block : x[n] = [k \in 1..PER_SEC |-> x[n][k]]
    <3>1. ASSUME NEW n \in Block PROVE x[n] = [k \in 1..PER_SEC |-> x[n][k]]
      <4>1. CASE n = b
        BY ONLY <2>3, <2>4, <3>1, <4>1
      <4>2. CASE n # b
        <5>1. x[n] = blk[n]
          BY ONLY <2>3, <3>1, <4>2
        <5>2. blk[n] = [k \in 1..PER_SEC |-> blk[n][k]]
          BY <1>1, <3>1
        <5> QED
          BY ONLY <5>1, <5>2
      <4> QED
        BY <4>1, <4>2
    <3> QED
      BY ONLY <3>1
  <2> QED
    BY <2>1, <2>3, <2>5 DEF BlkOK
<1> QED
  BY <1>2, <1>3

LEMMA EmptiesOK ==
  /\ \A e : Alone(e) = [n \in 1..PER_SEC |-> Alone(e)[n]]
  /\ \A i, d : DotSector(i, d) = [n \in 1..PER_SEC |-> DotSector(i, d)[n]]
  /\ EmptySector = [n \in 1..PER_SEC |-> EmptySector[n]]
  /\ EmptyTable \in [0..(INDIRECT - 1) -> Address]
  /\ \A u \in Block : [EmptyTable EXCEPT ![0] = u] \in [0..(INDIRECT - 1) -> Address]
<1>1. EmptySector = [n \in 1..PER_SEC |-> EmptySector[n]]
  BY DEF EmptySector
<1>2. EmptyTable \in [0..(INDIRECT - 1) -> Address]
  BY Bounds DEF EmptyTable
<1>3. \A u \in Block : u \in Address
  BY Bounds
<1>4. \A u \in Block : [EmptyTable EXCEPT ![0] = u] \in [0..(INDIRECT - 1) -> Address]
  BY <1>2, <1>3
<1>5. \A e : Alone(e) = [n \in 1..PER_SEC |-> Alone(e)[n]]
  BY <1>1 DEF Alone
<1>6. \A i, d : DotSector(i, d) = [n \in 1..PER_SEC |-> DotSector(i, d)[n]]
  BY <1>1 DEF DotSector
<1> QED
  BY <1>1, <1>2, <1>4, <1>5, <1>6

LEMMA PutFs ==
  ASSUME NEW s, NEW r, NEW d \in Ino, NEW x, NEW y, NEW e, IsFs(s), OnlyInode(s, r, d, y), InodeOK(y),
         Put(s, r, x, y, e)
  PROVE  IsFs(r) /\ (MemOK(s) => MemOK(r))
<1>1. BlkOK(s.blk) /\ TabOK(s.tab) /\ s.block_bitmap \subseteq Block
  BY FsParts
<1>2. \A t \in FreeBlocks(s) : t \in Block
  BY DEF FreeBlocks
<1>3. r.block_bitmap \subseteq Block /\ BlkOK(r.blk) /\ TabOK(r.tab)
  <2>1. CASE PutFree(s, r, x, y, e)
    <3>1. PICK b, j : NewEntry(s, r, b, j, e)
      BY <2>1 DEF PutFree
    <3>2. r.tab = s.tab /\ r.block_bitmap = s.block_bitmap
      BY <2>1 DEF PutFree
    <3>3. BlkOK([s.blk EXCEPT ![b][j] = e])
      BY <1>1, EmptiesOK, SectorOK
    <3> QED
      BY <1>1, <3>1, <3>2, <3>3 DEF NewEntry
  <2>2. CASE PutSector(s, r, x, y, e)
    <3>1. PICK t \in FreeBlocks(s) : /\ NewSector(s, r, t, e) /\ r.tab = s.tab
                                     /\ r.block_bitmap = s.block_bitmap \cup {t}
      BY <2>2 DEF PutSector
    <3>2. BlkOK([s.blk EXCEPT ![t] = Alone(e)])
      BY <1>1, EmptiesOK, SectorOK
    <3> QED
      BY <1>1, <1>2, <3>1, <3>2 DEF NewSector
  <2>3. CASE PutTable(s, r, x, y, e)
    <3>1. PICK t, u \in FreeBlocks(s) :
            /\ NewSector(s, r, u, e) /\ r.tab = [s.tab EXCEPT ![t] = [EmptyTable EXCEPT ![0] = u]]
            /\ r.block_bitmap = s.block_bitmap \cup {t, u}
      BY <2>3 DEF PutTable
    <3>2. BlkOK([s.blk EXCEPT ![u] = Alone(e)])
      BY <1>1, EmptiesOK, SectorOK
    <3>3. PICK z : z = [EmptyTable EXCEPT ![0] = u]
      OBVIOUS
    <3>4. z \in [0..(INDIRECT - 1) -> Address]
      BY <1>2, <3>3, EmptiesOK
    <3>5. TabOK([s.tab EXCEPT ![t] = z])
      BY <1>1, <3>4 DEF TabOK
    <3> QED
      BY <1>1, <1>2, <3>1, <3>2, <3>3, <3>5 DEF NewSector
  <2> QED
    BY <2>1, <2>2, <2>3 DEF Put
<1> QED
  BY <1>3, OnlyFs

LEMMA ClearedOK ==
  ASSUME NEW s, NEW r, NEW B, IsFs(s), Cleared(s, r, B)
  PROVE  r.block_bitmap \subseteq Block /\ BlkOK(r.blk) /\ TabOK(r.tab)
<1>1. BlkOK(s.blk) /\ TabOK(s.tab) /\ s.block_bitmap \subseteq Block
  BY FsParts
<1>2. \A b \in Block : s.blk[b] = [j \in 1..PER_SEC |-> s.blk[b][j]]
  BY <1>1 DEF BlkOK
<1>3. /\ r.blk = [b \in Block |-> IF b \in B THEN EmptySector ELSE s.blk[b]]
      /\ r.tab = [b \in Block |-> IF b \in B THEN EmptyTable ELSE s.tab[b]]
      /\ r.block_bitmap = s.block_bitmap \ B
  BY DEF Cleared
<1>4. EmptySector = [n \in 1..PER_SEC |-> EmptySector[n]] /\ EmptyTable \in [0..(INDIRECT - 1) -> Address]
  BY EmptiesOK
<1>5. \A b \in Block : r.blk[b] = IF b \in B THEN EmptySector ELSE s.blk[b]
  BY <1>3
<1>6. \A b \in Block : r.blk[b] = [j \in 1..PER_SEC |-> r.blk[b][j]]
  BY <1>2, <1>4, <1>5
<1>7. r.blk = [b \in Block |-> r.blk[b]]
  BY <1>3
<1>8. TabOK(r.tab)
  BY <1>1, <1>3, <1>4 DEF TabOK
<1> QED
  BY <1>1, <1>3, <1>6, <1>7, <1>8 DEF BlkOK

LEMMA CutFs ==
  ASSUME NEW s, NEW r, NEW d \in Ino, NEW p \in Place, NEW y, IsFs(s), OnlyInode(s, r, d, y), Cut(s, r, d, p, y)
  PROVE  IsFs(r) /\ (MemOK(s) => MemOK(r))
<1>1. BlkOK(s.blk) /\ TabOK(s.tab) /\ s.block_bitmap \subseteq Block
  BY FsParts
<1>2. r.block_bitmap \subseteq Block /\ BlkOK(r.blk) /\ TabOK(r.tab)
  <2>1. CASE CutEntry(s, r, d, p, y)
    <3>1. /\ r.blk = [s.blk EXCEPT ![Addr(s, d, p[1])][p[2]] = Free]
          /\ r.tab = s.tab /\ r.block_bitmap = s.block_bitmap
      BY <2>1 DEF CutEntry
    <3>2. PICK b : b = Addr(s, d, p[1])
      OBVIOUS
    <3>3. PICK j : j = p[2]
      OBVIOUS
    <3>4. PICK f : f = Free
      OBVIOUS
    <3>5. BlkOK([s.blk EXCEPT ![b][j] = f])
      BY <1>1, EmptiesOK, SectorOK
    <3> QED
      BY <1>1, <3>1, <3>2, <3>3, <3>4, <3>5
  <2>2. CASE CutSector(s, r, d, p, y)
    <3>1. PICK B : Cleared(s, r, B)
      BY <2>2 DEF CutSector
    <3> QED
      BY <3>1, ClearedOK
  <2>3. CASE CutTable(s, r, d, p, y)
    <3>1. PICK B : Cleared(s, r, B)
      BY <2>3 DEF CutTable
    <3> QED
      BY <3>1, ClearedOK
  <2> QED
    BY <2>1, <2>2, <2>3 DEF Cut
<1>3. InodeOK(y)
  <2>1. y = [i_size |-> Inode(s, d).i_size - 1, i_sectors |-> y.i_sectors]
    BY DEF Cut
  <2>2. Inode(s, d).i_size \in Int /\ Inode(s, d).i_sectors \in [0..DIRECT -> Address]
    BY DEF IsFs, InodeOK, Inode
  <2>3. PICK n : n = Inode(s, d).i_size - 1
    OBVIOUS
  <2>4. n \in Int /\ y = [i_size |-> n, i_sectors |-> y.i_sectors]
    BY <2>1, <2>2, <2>3
  <2>5. y.i_size \in Int /\ y = [i_size |-> y.i_size, i_sectors |-> y.i_sectors]
    BY <2>4
  <2>6. y.i_sectors \in [0..DIRECT -> Address]
    <3>1. CASE CutEntry(s, r, d, p, y)
      BY <2>2, <3>1 DEF CutEntry
    <3>2. CASE CutSector(s, r, d, p, y)
      BY <2>2, <3>2, Bounds DEF CutSector
    <3>3. CASE CutTable(s, r, d, p, y)
      BY <2>2, <3>3, Bounds DEF CutTable
    <3> QED
      BY <3>1, <3>2, <3>3 DEF Cut
  <2> QED
    BY <2>5, <2>6 DEF InodeOK
<1> QED
  BY <1>2, <1>3, OnlyFs

LEMMA NoInodeOK == InodeOK(NoInode)
<1>1. NoSectors \in [0..DIRECT -> Address]
  BY Bounds DEF NoSectors
<1> QED
  BY <1>1 DEF InodeOK, NoInode

LEMMA ReleasedFs ==
  ASSUME NEW s, NEW r, NEW i \in Ino, IsFs(s), Released(s, r, i)
  PROVE  /\ IsFs(r) /\ \A j \in Ino \ {i} : r.mem[j] = s.mem[j] /\ r.inode_table[j] = s.inode_table[j]
<1>1. /\ s.inode_bitmap \subseteq Ino /\ s.file_table \subseteq Ino
      /\ s.inode_table = [j \in Ino |-> s.inode_table[j]]
      /\ s.open \in [Ino -> Nat] /\ \A j \in Ino : InodeOK(s.inode_table[j])
  BY DEF IsFs
<1>2. /\ FsRec(r) /\ r.inode_bitmap = s.inode_bitmap \ {i} /\ r.open = s.open /\ r.file_table = s.file_table
      /\ r.mem = [j \in Ino |-> r.mem[j]] /\ \A j \in Ino \ {i} : r.mem[j] = s.mem[j]
  BY DEF Released
<1>3. r.inode_table = [s.inode_table EXCEPT ![i] = NoInode]
  BY DEF Released, NewInode
<1>4. PICK B : Cleared(s, r, B)
  BY DEF Released
<1>5. r.block_bitmap \subseteq Block /\ BlkOK(r.blk) /\ TabOK(r.tab)
  BY <1>4, ClearedOK
<1>6. /\ r.inode_table = [j \in Ino |-> r.inode_table[j]] /\ r.inode_table[i] = NoInode
      /\ \A j \in Ino \ {i} : r.inode_table[j] = s.inode_table[j]
  BY <1>1, <1>3
<1>7. \A j \in Ino : InodeOK(r.inode_table[j])
  BY <1>1, <1>6, NoInodeOK
<1>8. r.inode_bitmap \subseteq Ino /\ r.file_table \subseteq Ino /\ r.open \in [Ino -> Nat]
  BY <1>1, <1>2
<1>9. IsFs(r)
  BY ONLY <1>2, <1>5, <1>6, <1>7, <1>8 DEF IsFs, BlkOK, TabOK
<1> QED
  BY <1>2, <1>6, <1>9
-----------------------------------------------------------------------------
(* The steps that take a name and its inode away, and those that make one. *)
Sound(s) ==
  IsFs(s) /\ MemOK(s) /\ Blocks(s) /\ Tables(s) /\ TreeInv(s) /\ Stored(s)

(* dir_remove, and what sys_unlink does for a file: the entry, then the    *)
(* inode.                                                                  *)
LEMMA RemoveKeeps ==
  ASSUME NEW s, NEW d \in Ino, NEW p \in Linked(s, d), NEW i, i = At(s, d, p).i_no,
         Sound(s), IsDir(s, d), s.open[d] > 0, Linked(s, i) = {}
  PROVE  LET r == dir_remove(s, d, i)
         IN  /\ IsFs(r) /\ Blocks(r) /\ Tables(r) /\ TreeInv(r) /\ Stored(r)
             /\ r.open = s.open /\ r.file_table = s.file_table /\ r.inode_bitmap = s.inode_bitmap \ {i}
             /\ \A j \in Ino \ {i} : r.open[j] > 0 => r.mem[j] = r.inode_table[j]
             /\ \A c \in Ino : IsDir(r, c) <=> c # i /\ IsDir(s, c)
<1>1. IsFs(s) /\ MemOK(s) /\ Blocks(s) /\ Tables(s) /\ TreeInv(s) /\ Stored(s)
  BY DEF Sound
<1>2. Kinds(s) /\ Dots(s) /\ Entries(s) /\ Tree(s) /\ Sizes(s) /\ Reached(s)
  BY <1>1 DEF TreeInv
<1>3. p \in Place /\ At(s, d, p) # Free /\ i # d
  BY DEF Linked, Filled
<1>4. s.inode_bitmap \subseteq Ino
  BY <1>1 DEF IsFs
<1>5. i \in Ino
  <2>1. At(s, d, p).i_no \in s.inode_bitmap \ {0}
    BY <1>2, <1>3, EntryIs
  <2> QED
    BY <1>4, <2>1
<1>6. PICK a : a = delete_dir_entry(s, d, i)
  OBVIOUS
<1>7. PICK y : Cut(s, a, d, p, y) /\ OnlyInode(s, a, d, y)
  <2>1. \E y : /\ Cut(s, delete_dir_entry(s, d, At(s, d, p).i_no), d, p, y)
               /\ OnlyInode(s, delete_dir_entry(s, d, At(s, d, p).i_no), d, y)
    <3>1. d < WRAP
      BY <1>1, <1>2 DEF Kinds, Stored
    <3> QED
      BY <1>1, <1>2, <3>1, DeleteIs
  <2> QED
    BY <1>6, <2>1
<1>8. NewInode(s, a, d, y)
  BY <1>7 DEF OnlyInode
<1>9. /\ Blocks(a) /\ Tables(a)
      /\ \A c \in Ino : IsDir(a, c) = IsDir(s, c)
      /\ \A c \in Ino, q \in Place : At(a, c, q) = IF c = d /\ q = p THEN Free ELSE At(s, c, q)
      /\ Inode(a, d).i_size = Inode(s, d).i_size - 1
      /\ \A c \in Ino \ {d} : Inode(a, c) = Inode(s, c)
  <2>1. Cut(s, a, d, p, y)
    BY <1>7
  <2> QED
    BY <1>1, <1>2, <1>8, <2>1, CutKeeps
<1>10. IsFs(a) /\ MemOK(a)
  BY <1>1, <1>3, <1>7, CutFs
<1>11. /\ a.inode_bitmap = s.inode_bitmap /\ a.open = s.open /\ a.file_table = s.file_table
       /\ Stored(a)
  BY <1>1, <1>7 DEF OnlyInode
<1>12. PICK r : r = inode_release(a, i)
  OBVIOUS
<1>13. Released(a, r, i)
  BY <1>5, <1>9, <1>10, <1>12, ReleaseIs
<1>14. /\ Blocks(r) /\ Tables(r) /\ Inode(r, i) = NoInode
       /\ \A c \in Ino \ {i} : Inode(r, c) = Inode(a, c)
       /\ \A c \in Ino : IsDir(r, c) <=> c # i /\ IsDir(a, c)
       /\ \A c \in Ino, q \in Place : At(r, c, q) = IF c = i THEN Free ELSE At(a, c, q)
  BY <1>5, <1>9, <1>10, <1>13, ReleaseKeeps
<1>15. IsFs(r) /\ \A j \in Ino \ {i} : r.mem[j] = a.mem[j] /\ r.inode_table[j] = a.inode_table[j]
  BY <1>5, <1>10, <1>13, ReleasedFs
<1>16. /\ r.open = s.open /\ r.file_table = s.file_table /\ r.inode_bitmap = s.inode_bitmap \ {i}
       /\ Stored(r)
  BY <1>11, <1>13 DEF Released
<1>17. \A j \in Ino \ {i} : r.open[j] > 0 => r.mem[j] = r.inode_table[j]
  BY <1>10, <1>11, <1>15, <1>16 DEF MemOK
<1>18. \A c \in Ino : IsDir(r, c) <=> c # i /\ IsDir(s, c)
  BY <1>9, <1>14
<1>19. Shrunk(s, r, d, i, p)
  <2>1. Inode(r, d).i_size = Inode(s, d).i_size - 1
    BY <1>3, <1>9, <1>14
  <2>2. \A c \in Ino \ {i, d} : Inode(r, c) = Inode(s, c)
    BY <1>9, <1>14
  <2>3. \A c \in Ino, q \in Place : At(r, c, q) = IF c = i \/ (c = d /\ q = p) THEN Free ELSE At(s, c, q)
    BY <1>9, <1>14
  <2> QED
    BY <1>5, <1>14, <1>16, <1>18, <2>1, <2>2, <2>3 DEF Shrunk
<1>20. TreeInv(r)
  BY <1>1, <1>4, <1>19, ShrunkKeeps
<1>21. dir_remove(s, d, i) = r
  BY <1>6, <1>12 DEF dir_remove
<1> QED
  BY <1>14, <1>15, <1>16, <1>17, <1>18, <1>20, <1>21

(* Where the next entry goes hangs on the inode and on its direct sectors. *)
LEMMA NeededSame ==
  ASSUME NEW s, NEW r, NEW d, r.mem[d] = s.mem[d],
         \A k \in Direct : s.mem[d].i_sectors[k] # 0 =>
           r.blk[s.mem[d].i_sectors[k]] = s.blk[s.mem[d].i_sectors[k]]
  PROVE  RoomAt(r, d) = RoomAt(s, d) /\ BlocksNeeded(r, d) = BlocksNeeded(s, d)
<1>1. \A k \in 0..DIRECT : k # DIRECT => k \in Direct
  BY DirectIs
<1>2. \A k \in 0..DIRECT : HasRoom(r, d, k) <=> HasRoom(s, d, k)
  BY <1>1 DEF HasRoom
<1>3. {k \in 0..DIRECT : HasRoom(r, d, k)} = {k \in 0..DIRECT : HasRoom(s, d, k)}
  BY <1>2
<1>4. RoomAt(r, d) = RoomAt(s, d)
  BY <1>3 DEF RoomAt
<1> QED
  BY <1>4 DEF BlocksNeeded

LEMMA SameFs ==
  ASSUME NEW s, NEW r, IsFs(s), FsRec(r), r.inode_bitmap \subseteq Ino, r.block_bitmap \subseteq Block,
         r.file_table \subseteq Ino, r.inode_table = s.inode_table, r.blk = s.blk, r.tab = s.tab,
         r.open \in [Ino -> Nat], r.mem = [j \in Ino |-> r.mem[j]]
  PROVE  IsFs(r)
<1> HIDE DEF FsRec, InodeOK
<1> QED
  BY DEF IsFs

(* The first free inode.                                                   *)
LEMMA FreeInode ==
  ASSUME NEW s, FreeInodes(s) # {}
  PROVE  Min(FreeInodes(s)) \in Ino \ s.inode_bitmap
<1>1. FreeInodes(s) \in SUBSET Nat
  BY Bounds DEF FreeInodes
<1>2. Min(FreeInodes(s)) \in FreeInodes(s)
  BY <1>1, LeastNat
<1> QED
  BY <1>2 DEF FreeInodes

(* file_create: the inode i, the entry in d, and the file is open.         *)
FileMade(s, r, i) ==
  /\ Sound(r) /\ r.open = [s.open EXCEPT ![i] = 1] /\ r.file_table = s.file_table \cup {i}
  /\ i \in r.inode_bitmap /\ ~IsDir(r, i) /\ i \in Ino /\ i # 0
  /\ s.inode_bitmap \subseteq r.inode_bitmap /\ \A c \in Ino : IsDir(r, c) = IsDir(s, c)
(* file_create, when it does no harm.                                      *)
LEMMA CreateKeeps ==
  ASSUME NEW s, NEW d \in Ino, NEW name, NEW i, i = Min(FreeInodes(s)), FreeInodes(s) # {},
         Sound(s), IsDir(s, d), s.open[d] > 0, s.open[i] = 0, name \notin {"", ".", ".."},
         \A q \in Place : At(s, d, q).filename # name,
         Cardinality(FreeBlocks(s)) >= BlocksNeeded(s, d), Spare(s, d), i < WRAP
  PROVE  FileMade(s, file_create(s, d, name), i)
<1>1. IsFs(s) /\ MemOK(s) /\ Blocks(s) /\ Tables(s) /\ TreeInv(s) /\ Stored(s)
  BY DEF Sound
<1>2. Kinds(s) /\ Dots(s) /\ Entries(s) /\ Tree(s) /\ Sizes(s) /\ Reached(s)
  BY <1>1 DEF TreeInv
<1>3. i \in Ino \ s.inode_bitmap
  BY FreeInode
<1>4. PICK e : e = Ent(name, i, "regular")
  OBVIOUS
<1>5. e.filename = name /\ e # Free
  <2>1. Free.filename = ""
    BY DEF Free
  <2>2. e.filename = name
    BY ONLY <1>4, EntIs
  <2> QED
    BY <2>1, <2>2
<1>6. PICK s1 : s1 = [s EXCEPT !.inode_bitmap = @ \cup {i}]
  OBVIOUS
<1>7. /\ FsRec(s1) /\ s1.inode_bitmap = s.inode_bitmap \cup {i} /\ s1.block_bitmap = s.block_bitmap
      /\ s1.disk_ibits = s.disk_ibits /\ s1.disk_bbits = s.disk_bbits
      /\ s1.inode_table = s.inode_table /\ s1.blk = s.blk /\ s1.tab = s.tab
      /\ s1.open = s.open /\ s1.file_table = s.file_table /\ s1.mem = s.mem
  <2>1. FsRec(s)
    BY <1>1 DEF IsFs
  <2> QED
    BY <1>6, <2>1 DEF FsRec
<1>8. IsFs(s1) /\ MemOK(s1)
  <2>1. s1.inode_bitmap \subseteq Ino
    BY <1>1, <1>3, <1>7 DEF IsFs
  <2>2. /\ s.block_bitmap \subseteq Block /\ s.file_table \subseteq Ino
        /\ s.open \in [Ino -> Nat] /\ s.mem = [j \in Ino |-> s.mem[j]]
    BY <1>1 DEF IsFs
  <2>3. IsFs(s1)
    BY ONLY <1>1, <1>7, <2>1, <2>2, SameFs
  <2> QED
    BY <1>1, <1>7, <2>3 DEF MemOK
<1>9. Blocks(s1) /\ Tables(s1)
  BY <1>1, <1>7, SameBlocks
<1>10. PICK x : x = s.mem[d]
  OBVIOUS
<1>11. x = Inode(s, d) /\ InodeOK(x) /\ x = s1.mem[d] /\ x = Inode(s1, d)
  <2>1. x = Inode(s, d)
    BY <1>1, <1>10 DEF MemOK, Inode
  <2>2. InodeOK(x)
    BY <1>1, <2>1 DEF IsFs, Inode
  <2> QED
    BY <1>7, <1>10, <2>1, <2>2 DEF Inode
<1>12. Cardinality(FreeBlocks(s1)) >= BlocksNeeded(s1, d)
  <2>1. FreeBlocks(s1) = FreeBlocks(s)
    BY <1>7 DEF FreeBlocks
  <2>2. BlocksNeeded(s1, d) = BlocksNeeded(s, d)
    BY <1>7, NeededSame
  <2> QED
    BY <2>1, <2>2
<1>13. PICK a : a = AddEntry(s1, d, e)
  OBVIOUS
<1>14. PICK y : Put(s1, a, x, y, e) /\ InodeOK(y) /\ OnlyInode(s1, a, d, y)
  <2>1. \E y : /\ Put(s1, AddEntry(s1, d, e), x, y, e) /\ InodeOK(y)
               /\ OnlyInode(s1, AddEntry(s1, d, e), d, y)
    <3>1. d < WRAP
      BY <1>1, <1>2 DEF Kinds, Stored
    <3> QED
      BY <1>8, <1>11, <1>12, <3>1, SyncIs
  <2> QED
    BY <1>13, <2>1
<1>15. IsFs(a) /\ MemOK(a)
  BY <1>8, <1>14, PutFs
<1>16. /\ a.inode_bitmap = s.inode_bitmap \cup {i} /\ a.open = s.open /\ a.file_table = s.file_table
       /\ Stored(a) /\ a.inode_table = [c \in Ino |-> a.inode_table[c]]
       /\ a.mem = [c \in Ino |-> a.mem[c]] /\ FsRec(a)
  <2>1. Stored(s1)
    BY <1>1, <1>7 DEF Stored
  <2> QED
    BY <1>7, <1>14, <1>15, <2>1 DEF OnlyInode, IsFs
<1>17. IsDir(s, d) /\ ~IsDir(s, i) /\ i # d /\ i # 0 /\ Inode(s, i) = NoInode
  BY <1>2, <1>3 DEF Kinds
<1>18. Inode(a, i) = NoInode
  <2>1. a.inode_table = [s1.inode_table EXCEPT ![d] = y]
    BY <1>14 DEF OnlyInode, NewInode
  <2>2. s1.inode_table = [c \in Ino |-> s1.inode_table[c]]
    BY <1>8 DEF IsFs
  <2>3. a.inode_table[i] = s1.inode_table[i]
    BY ONLY <1>3, <1>17, <2>1, <2>2
  <2> QED
    BY <1>7, <1>17, <2>3 DEF Inode
<1>19. PICK r : r = file_create(s, d, name)
  OBVIOUS
<1>20. /\ FsRec(r) /\ r.inode_bitmap = a.inode_bitmap /\ r.block_bitmap = a.block_bitmap
       /\ r.disk_bbits = a.disk_bbits /\ r.inode_table = a.inode_table /\ r.blk = a.blk /\ r.tab = a.tab
       /\ r.open = [s.open EXCEPT ![i] = 1] /\ r.mem = [a.mem EXCEPT ![i] = NoInode]
       /\ r.file_table = s.file_table \cup {i}
  <2>1. a.inode_table[i] = NoInode
    BY <1>18 DEF Inode
  <2>2. r = [SyncInodeBits(inode_sync(a, i, NoInode), i)
               EXCEPT !.open[i] = 1, !.mem[i] = NoInode, !.file_table = @ \cup {i}]
    <3>1. a = LET m == sync_dir_entry(s1, d, e) IN inode_sync(m, d, m.mem[d])
      BY <1>13 DEF AddEntry
    <3> QED
      BY <1>4, <1>6, <1>19, <3>1 DEF file_create
  <2>3. PICK c : c = inode_sync(a, i, NoInode)
    OBVIOUS
  <2>4. c = a
    <3>1. c = [a EXCEPT !.inode_table[i] = NoInode]
      <4>1. i \in Ino
        BY <1>3
      <4> QED
        BY ONLY <2>3, <4>1, i < WRAP, SyncAt
    <3>2. [a.inode_table EXCEPT ![i] = NoInode] = a.inode_table
      BY <1>16, <2>1
    <3>3. c = [a EXCEPT !.inode_table = [a.inode_table EXCEPT ![i] = NoInode]]
      BY <1>16, <3>1 DEF FsRec
    <3> QED
      BY <1>16, <3>2, <3>3 DEF FsRec
  <2>5. PICK g : g = SyncInodeBits(a, i)
    OBVIOUS
  <2>6. /\ FsRec(g) /\ g.inode_bitmap = a.inode_bitmap /\ g.block_bitmap = a.block_bitmap
        /\ g.disk_bbits = a.disk_bbits /\ g.inode_table = a.inode_table /\ g.blk = a.blk /\ g.tab = a.tab
        /\ g.open = a.open /\ g.mem = a.mem /\ g.file_table = a.file_table
    <3>1. g = [a EXCEPT !.disk_ibits = g.disk_ibits]
      <4>1. FsRec(a)
        BY <1>16
      <4> QED
        BY ONLY <2>5, <4>1, BitsAre
    <3> QED
      BY <1>16, <3>1 DEF FsRec
  <2>7. r = [g EXCEPT !.open[i] = 1, !.mem[i] = NoInode, !.file_table = @ \cup {i}]
    BY <2>2, <2>3, <2>4, <2>5
  <2>8. /\ FsRec(r) /\ r.inode_bitmap = g.inode_bitmap /\ r.block_bitmap = g.block_bitmap
        /\ r.disk_bbits = g.disk_bbits /\ r.inode_table = g.inode_table /\ r.blk = g.blk /\ r.tab = g.tab
        /\ r.open = [g.open EXCEPT ![i] = 1] /\ r.mem = [g.mem EXCEPT ![i] = NoInode]
        /\ r.file_table = g.file_table \cup {i}
    BY <2>6, <2>7 DEF FsRec
  <2> QED
    BY ONLY <1>16, <2>1, <2>6, <2>8
<1>21. IsFs(r) /\ MemOK(r)
  <2>0. r.open = [a.open EXCEPT ![i] = 1]
    BY <1>16, <1>20
  <2>1. /\ a.inode_bitmap \subseteq Ino /\ a.block_bitmap \subseteq Block /\ a.file_table \subseteq Ino
        /\ a.open \in [Ino -> Nat]
    BY <1>15 DEF IsFs
  <2>2. r.open \in [Ino -> Nat]
    <3>1. PICK o : o = a.open
      OBVIOUS
    <3>2. o \in [Ino -> Nat]
      BY <2>1, <3>1
    <3>3. [o EXCEPT ![i] = 1] \in [Ino -> Nat]
      BY ONLY <3>2
    <3> QED
      BY ONLY <2>0, <3>1, <3>3
  <2>3. r.mem = [c \in Ino |-> r.mem[c]] /\ r.mem[i] = NoInode /\ \A c \in Ino \ {i} : r.mem[c] = a.mem[c]
    BY <1>3, <1>16, <1>20
  <2>4. r.file_table \subseteq Ino
    BY <1>3, <1>16, <1>20, <2>1
  <2>5. FsRec(r) /\ r.inode_bitmap = a.inode_bitmap /\ r.block_bitmap = a.block_bitmap
        /\ r.inode_table = a.inode_table /\ r.blk = a.blk /\ r.tab = a.tab
    BY <1>20
  <2>6. IsFs(r)
    BY ONLY <1>15, <2>1, <2>2, <2>3, <2>4, <2>5, SameFs
  <2>7. \A c \in Ino \ {i} : r.open[c] = a.open[c]
    BY <2>0, <2>1
  <2>8. MemOK(r)
    BY <1>15, <1>18, <2>3, <2>5, <2>7 DEF MemOK, Inode
  <2> QED
    BY <2>6, <2>8
<1>22. Full(s1, Inode(s1, d)) => Addr(s1, d, Table) = 0
  <2>1. Spare(s1, d)
    <3>1. s1.mem[d] = s.mem[d] /\ s1.blk = s.blk
      BY <1>7
    <3>2. RoomAt(s1, d) = RoomAt(s, d)
      BY ONLY <3>1, NeededSame
    <3> QED
      BY ONLY <3>1, <3>2, Spare(s, d) DEF Spare
  <2> QED
    BY <1>11, <2>1, NotFull
<1>23. /\ Blocks(a) /\ Tables(a) /\ Added(s1, a, d, e)
       /\ \A c \in Ino : c # d \/ IsDir(s1, c) => IsDir(a, c) = IsDir(s1, c)
       /\ Inode(a, d).i_size = Inode(s1, d).i_size + 1
       /\ \A c \in Ino \ {d} : Inode(a, c) = Inode(s1, c)
  <2>1. NewInode(s1, a, d, y)
    BY <1>14 DEF OnlyInode
  <2>2. Put(s1, a, Inode(s1, d), y, e)
    BY <1>11, <1>14
  <2>3. IsFs(s1)
    BY <1>8
  <2>4. Blocks(s1)
    BY <1>9
  <2>5. Tables(s1)
    BY <1>9
  <2>6. e # Free
    BY <1>5
  <2>7. Larger(s1, a, d, e)
    BY ONLY d \in Ino, <1>22, <2>1, <2>2, <2>3, <2>4, <2>5, <2>6, PutKeeps
  <2> QED
    BY <2>7 DEF Larger
<1>24. Blocks(r) /\ Tables(r)
  BY <1>23, <1>20, SameBlocks
<1>25. /\ \A c : Inode(r, c) = Inode(a, c) /\ IsDir(r, c) = IsDir(a, c) /\ Kind(r, c) = Kind(a, c)
       /\ \A c, q : At(r, c, q) = At(a, c, q)
  <2>1. r.inode_table = a.inode_table
    BY <1>20
  <2>2. r.blk = a.blk
    BY <1>20
  <2>3. r.tab = a.tab
    BY <1>20
  <2>4. \A c : Inode(r, c) = Inode(a, c) /\ IsDir(r, c) = IsDir(a, c) /\ Kind(r, c) = Kind(a, c)
    BY ONLY <2>1, <2>2, <2>3, SameView
  <2>5. \A c, q : At(r, c, q) = At(a, c, q)
    BY ONLY <2>1, <2>2, <2>3, SameView
  <2> QED
    BY <2>4, <2>5
<1>26. /\ \A c : Inode(s1, c) = Inode(s, c) /\ IsDir(s1, c) = IsDir(s, c) /\ Kind(s1, c) = Kind(s, c)
       /\ \A c, q : At(s1, c, q) = At(s, c, q)
  BY <1>7, SameView
<1>27. \A c \in Ino : IsDir(r, c) = IsDir(s, c)
  BY <1>23, <1>17, <1>25, <1>26
<1>28. PICK p \in Place : At(s, d, p) = Free /\
         \A c \in Ino, q \in Place : At(r, c, q) = IF c = d /\ q = p THEN e ELSE At(s, c, q)
  <2>1. PICK p \in Place : At(s1, d, p) = Free /\
          \A c \in Ino, q \in Place : At(a, c, q) = IF c = d /\ q = p THEN e ELSE At(s1, c, q)
    BY <1>23 DEF Added
  <2>2. \A c, q : At(r, c, q) = At(a, c, q)
    BY <1>25
  <2>3. \A c, q : At(s1, c, q) = At(s, c, q)
    BY <1>26
  <2>4. At(s, d, p) = Free
    BY ONLY <2>1, <2>3
  <2>5. ASSUME NEW c \in Ino, NEW q \in Place PROVE At(r, c, q) = IF c = d /\ q = p THEN e ELSE At(s, c, q)
    <3>1. At(a, c, q) = IF c = d /\ q = p THEN e ELSE At(s1, c, q)
      BY <2>1
    <3> QED
      BY ONLY <3>1, <2>2, <2>3
  <2> QED
    BY <2>4, <2>5
<1>29. Grown(s, r, d, i, p, e)
  <2>1. Kind(r, i) = "regular"
    BY <1>3, <1>17, <1>27 DEF Kind
  <2>2. i \in Ino \ s.inode_bitmap /\ r.inode_bitmap = s.inode_bitmap \cup {i}
    BY <1>3, <1>16, <1>20
  <2>3. e.filename \notin {"", ".", ".."} /\ e = Ent(e.filename, i, Kind(r, i))
    BY <1>4, <1>5, <2>1
  <2>4. \A q \in Place : At(s, d, q).filename # e.filename
    BY <1>5
  <2>5. \A c \in Ino \ {i, d} : Inode(r, c) = Inode(s, c)
    BY <1>23, <1>25, <1>26
  <2>6. Inode(r, d).i_size = Inode(s, d).i_size + 1
    BY <1>23, <1>25, <1>26
  <2>7. Inode(r, i) = NoInode /\ ~IsDir(r, i)
    BY <1>3, <1>17, <1>18, <1>25, <1>27
  <2>8. \A c \in Ino \ {i} : IsDir(r, c) = IsDir(s, c)
    BY <1>27
  <2>9. \A c \in Ino \ {i}, q \in Place : At(r, c, q) = IF c = d /\ q = p THEN e ELSE At(s, c, q)
    BY <1>28
  <2> QED
    BY <1>17, <1>28, <2>2, <2>3, <2>4, <2>5, <2>6, <2>7, <2>8, <2>9 DEF Grown
<1>30. TreeInv(r)
  <2>1. s.inode_bitmap \subseteq Ino
    BY <1>1 DEF IsFs
  <2> QED
    BY <1>1, <1>29, <2>1, GrownKeeps
<1>31. Sound(r)
  <2>1. Stored(r)
    BY <1>16, <1>20 DEF Stored
  <2> QED
    BY <1>21, <1>24, <1>30, <2>1 DEF Sound
<1>32. /\ i \in r.inode_bitmap /\ ~IsDir(r, i) /\ i \in Ino /\ i # 0
       /\ s.inode_bitmap \subseteq r.inode_bitmap
  BY <1>3, <1>16, <1>17, <1>20, <1>27
<1> QED
  BY <1>19, <1>20, <1>27, <1>31, <1>32 DEF FileMade

(* The parts of a file system.                                             *)
LEMMA FsFrom ==
  ASSUME NEW r, FsRec(r), r.inode_bitmap \subseteq Ino, r.block_bitmap \subseteq Block, r.file_table \subseteq Ino,
         r.inode_table = [j \in Ino |-> r.inode_table[j]], r.mem = [j \in Ino |-> r.mem[j]],
         r.open \in [Ino -> Nat], \A j \in Ino : InodeOK(r.inode_table[j]), BlkOK(r.blk), TabOK(r.tab)
  PROVE  IsFs(r)
<1> HIDE DEF FsRec, InodeOK
<1> QED
  BY DEF IsFs, BlkOK, TabOK

LEMMA FsTo ==
  ASSUME NEW r, IsFs(r)
  PROVE  /\ FsRec(r) /\ r.inode_bitmap \subseteq Ino /\ r.block_bitmap \subseteq Block /\ r.file_table \subseteq Ino
         /\ r.inode_table = [j \in Ino |-> r.inode_table[j]] /\ r.mem = [j \in Ino |-> r.mem[j]]
         /\ r.open \in [Ino -> Nat] /\ (\A j \in Ino : InodeOK(r.inode_table[j])) /\ BlkOK(r.blk) /\ TabOK(r.tab)
BY DEF IsFs, BlkOK, TabOK

LEMMA DirInodeOK ==
  ASSUME NEW b \in Block
  PROVE  InodeOK(DirInode(b))
<1>1. NoSectors \in [0..DIRECT -> Address] /\ b \in Address
  BY Bounds DEF NoSectors
<1>2. PICK z : z = [NoSectors EXCEPT ![0] = b]
  OBVIOUS
<1>3. z \in [0..DIRECT -> Address]
  BY ONLY <1>1, <1>2
<1>4. DirInode(b) = [i_size |-> 2, i_sectors |-> z]
  BY <1>2 DEF DirInode
<1> QED
  BY <1>3, <1>4 DEF InodeOK

LEMMA PutSame ==
  ASSUME NEW m, NEW a, NEW n, NEW r, NEW x, NEW y, NEW e, Put(m, a, x, y, e),
         n.blk = m.blk, n.tab = m.tab, n.block_bitmap = m.block_bitmap,
         r.blk = a.blk, r.tab = a.tab, r.block_bitmap = a.block_bitmap
  PROVE  Put(n, r, x, y, e)
<1>1. FreeBlocks(n) = FreeBlocks(m)
  BY DEF FreeBlocks
<1>2. PutFree(m, a, x, y, e) => PutFree(n, r, x, y, e)
  BY DEF PutFree, NewEntry
<1>3. PutSector(m, a, x, y, e) => PutSector(n, r, x, y, e)
  BY <1>1 DEF PutSector, NewSector
<1>4. PutTable(m, a, x, y, e) => PutTable(n, r, x, y, e)
  <2>1. SUFFICES ASSUME PutTable(m, a, x, y, e) PROVE PutTable(n, r, x, y, e)
    OBVIOUS
  <2>2. PICK t, u \in FreeBlocks(m) :
          /\ t # u /\ Full(m, x) /\ NewAddr(x, y, DIRECT, t) /\ NewSector(m, a, u, e)
          /\ a.tab = [m.tab EXCEPT ![t] = [EmptyTable EXCEPT ![0] = u]]
          /\ a.block_bitmap = m.block_bitmap \cup {t, u}
    BY <2>1 DEF PutTable
  <2>3. Full(n, x)
    BY <2>2 DEF Full
  <2>4. NewSector(n, r, u, e)
    BY <2>2 DEF NewSector
  <2>5. r.tab = [n.tab EXCEPT ![t] = [EmptyTable EXCEPT ![0] = u]]
    BY <2>2
  <2>6. r.block_bitmap = n.block_bitmap \cup {t, u}
    BY <2>2
  <2> QED
    BY <1>1, <2>2, <2>3, <2>4, <2>5, <2>6 DEF PutTable
<1> QED
  BY <1>2, <1>3, <1>4 DEF Put

(* MakeDir, up to the entry: the inode, the block, the first sector.       *)
DirMade(s, m, i, d, b) ==
  m = [TakeBlock([s EXCEPT !.inode_bitmap = @ \cup {i}]) EXCEPT !.blk[b] = DotSector(i, d)]

MadeFs(s, m, i, d, b) ==
  /\ IsFs(m)
  /\ m.inode_bitmap = s.inode_bitmap \cup {i} /\ m.block_bitmap = s.block_bitmap \cup {b}
  /\ (Stored(s) => Stored(m)) /\ m.inode_table = s.inode_table
  /\ m.blk = [s.blk EXCEPT ![b] = DotSector(i, d)] /\ m.tab = s.tab
  /\ m.open = s.open /\ m.file_table = s.file_table /\ m.mem = s.mem
LEMMA DirMadeIs ==
  ASSUME NEW s, IsFs(s), NEW i \in Ino, i < WRAP, NEW d, NEW b, b = Min(FreeBlocks(s)), b \in FreeBlocks(s),
         NEW m, DirMade(s, m, i, d, b)
  PROVE  MadeFs(s, m, i, d, b)
<1>1. FsRec(s) /\ b \in Block
  BY DEF IsFs, FreeBlocks
<1>2. PICK s1 : s1 = [s EXCEPT !.inode_bitmap = @ \cup {i}]
  OBVIOUS
<1>3. /\ FsRec(s1) /\ s1.inode_bitmap = s.inode_bitmap \cup {i} /\ s1.block_bitmap = s.block_bitmap
      /\ s1.disk_bbits = s.disk_bbits /\ s1.inode_table = s.inode_table /\ s1.blk = s.blk /\ s1.tab = s.tab
      /\ s1.open = s.open /\ s1.file_table = s.file_table /\ s1.mem = s.mem
  BY <1>1, <1>2 DEF FsRec
<1>4. Min(FreeBlocks(s1)) = b
  BY <1>3 DEF FreeBlocks
<1>5. PICK g : g = TakeBlock(s1)
  OBVIOUS
<1>6. PICK B : B = s1.block_bitmap \cup {b}
  OBVIOUS
<1>7. g = [s1 EXCEPT !.block_bitmap = B, !.disk_bbits = g.disk_bbits] /\ (Stored(s1) => Stored(g))
  <2>1. TakenFrom(s1, g, b)
    BY ONLY <1>1, <1>3, <1>4, <1>5, TakeIs
  <2> QED
    BY ONLY <1>6, <2>1 DEF TakenFrom
<1>8. /\ FsRec(g) /\ g.inode_bitmap = s1.inode_bitmap /\ g.block_bitmap = B
      /\ g.inode_table = s1.inode_table /\ g.blk = s1.blk /\ g.tab = s1.tab
      /\ g.open = s1.open /\ g.file_table = s1.file_table /\ g.mem = s1.mem
  BY <1>3, <1>7 DEF FsRec
<1>9. PICK D : D = DotSector(i, d)
  OBVIOUS
<1>10. m = [g EXCEPT !.blk[b] = D]
  BY <1>2, <1>5, <1>9 DEF DirMade
<1>11. /\ FsRec(m) /\ m.inode_bitmap = g.inode_bitmap /\ m.block_bitmap = B /\ m.disk_bbits = g.disk_bbits
       /\ m.inode_table = g.inode_table /\ m.blk = [g.blk EXCEPT ![b] = D] /\ m.tab = g.tab
       /\ m.open = g.open /\ m.file_table = g.file_table /\ m.mem = g.mem
  BY <1>8, <1>10 DEF FsRec
<1>12. /\ FsRec(m) /\ m.inode_bitmap = s.inode_bitmap \cup {i} /\ m.block_bitmap = s.block_bitmap \cup {b}
       /\ (Stored(s) => Stored(m)) /\ m.inode_table = s.inode_table
       /\ m.blk = [s.blk EXCEPT ![b] = D] /\ m.tab = s.tab
       /\ m.open = s.open /\ m.file_table = s.file_table /\ m.mem = s.mem
  <2>1. Stored(s) => Stored(s1)
    BY ONLY <1>3, i < WRAP DEF Stored
  <2>2. Stored(g) => Stored(m)
    BY ONLY <1>8, <1>11 DEF Stored
  <2> QED
    BY ONLY <1>3, <1>6, <1>7, <1>8, <1>11, <2>1, <2>2
<1>13. IsFs(m)
  <2>1. /\ s.inode_bitmap \subseteq Ino /\ s.block_bitmap \subseteq Block /\ s.file_table \subseteq Ino
        /\ s.inode_table = [j \in Ino |-> s.inode_table[j]] /\ s.mem = [j \in Ino |-> s.mem[j]]
        /\ s.open \in [Ino -> Nat] /\ (\A j \in Ino : InodeOK(s.inode_table[j])) /\ BlkOK(s.blk) /\ TabOK(s.tab)
    BY FsTo
  <2>2. BlkOK([s.blk EXCEPT ![b] = D])
    <3>1. D = [n \in 1..PER_SEC |-> D[n]]
      BY <1>9, EmptiesOK
    <3> QED
      BY <2>1, <3>1, SectorOK
  <2>3. m.inode_bitmap \subseteq Ino /\ m.block_bitmap \subseteq Block
    BY <1>1, <1>12, <2>1
  <2>4. BlkOK(m.blk)
    BY <1>12, <2>2
  <2> HIDE DEF InodeOK, FsRec
  <2> QED
    BY ONLY <1>12, <2>1, <2>3, <2>4, FsFrom
<1> QED
  BY ONLY <1>9, <1>12, <1>13 DEF MadeFs
-----------------------------------------------------------------------------

(* MakeDir: the inode i, its first sector, the entry in d.                 *)
DirAdded(s, r, i) ==
  /\ Sound(r) /\ r.open = s.open /\ r.file_table = s.file_table
  /\ s.inode_bitmap \subseteq r.inode_bitmap /\ i \in Ino \ s.inode_bitmap
  /\ \A c \in Ino : IsDir(r, c) <=> c = i \/ IsDir(s, c)
(* The steps of sys_mkdir that allocate and write, when they do no harm.   *)
LEMMA MakeDirKeeps ==
  ASSUME NEW s, NEW d \in Ino, NEW name, NEW i, i = Min(FreeInodes(s)), FreeInodes(s) # {},
         Sound(s), IsDir(s, d), s.open[d] > 0, s.open[i] = 0, name \notin {"", ".", ".."},
         \A q \in Place : At(s, d, q).filename # name,
         Cardinality(FreeBlocks(s)) >= 1 + BlocksNeeded(s, d), Spare(s, d), i < WRAP
  PROVE  DirAdded(s, MakeDir(s, d, name), i)
<1>1. IsFs(s) /\ MemOK(s) /\ Blocks(s) /\ Tables(s) /\ TreeInv(s) /\ Stored(s)
  BY DEF Sound
<1>2. Kinds(s) /\ Dots(s) /\ Entries(s) /\ Tree(s) /\ Sizes(s) /\ Reached(s)
  BY <1>1 DEF TreeInv
<1>3. i \in Ino \ s.inode_bitmap
  BY FreeInode
<1>4. PICK e : e = Ent(name, i, "directory")
  OBVIOUS
<1>5. e.filename = name /\ e # Free
  <2>1. Free.filename = ""
    BY DEF Free
  <2>2. e.filename = name
    BY ONLY <1>4, EntIs
  <2> QED
    BY <2>1, <2>2
<1>6. ~IsDir(s, i) /\ i # d /\ i # 0 /\ Inode(s, i) = NoInode
  BY <1>2, <1>3 DEF Kinds
<1>7. PICK b : b = Min(FreeBlocks(s))
  OBVIOUS
<1>8. BlocksNeeded(s, d) \in Nat
  BY DEF BlocksNeeded
<1>9. IsFiniteSet(FreeBlocks(s)) /\ Cardinality(FreeBlocks(s)) \in Nat /\ FreeBlocks(s) \subseteq Block
  BY FreeFinite, FS_CardinalityType
<1>10. b \in FreeBlocks(s) /\ b \in Block
  <2>1. Cardinality(FreeBlocks(s)) >= 1
    <3>1. PICK n : n = BlocksNeeded(s, d)
      OBVIOUS
    <3>2. PICK c : c = Cardinality(FreeBlocks(s))
      OBVIOUS
    <3>3. c >= 1 + n /\ n \in Nat /\ c \in Nat
      BY <1>8, <1>9, <3>1, <3>2
    <3> QED
      BY ONLY <3>2, <3>3
  <2>2. Min(FreeBlocks(s)) \in FreeBlocks(s)
    BY ONLY <2>1, OneFree
  <2> QED
    BY <1>7, <1>9, <2>2
<1>11. PICK m : m = [TakeBlock([s EXCEPT !.inode_bitmap = @ \cup {i}]) EXCEPT !.blk[b] = DotSector(i, d)]
  OBVIOUS
<1>12. /\ IsFs(m)
       /\ m.inode_bitmap = s.inode_bitmap \cup {i} /\ m.block_bitmap = s.block_bitmap \cup {b}
       /\ Stored(m) /\ m.inode_table = s.inode_table
       /\ m.blk = [s.blk EXCEPT ![b] = DotSector(i, d)] /\ m.tab = s.tab
       /\ m.open = s.open /\ m.file_table = s.file_table /\ m.mem = s.mem
  <2>1. IsFs(s)
    BY <1>1
  <2>2. i \in Ino
    BY <1>3
  <2>3. DirMade(s, m, i, d, b)
    BY <1>11 DEF DirMade
  <2>4. b \in FreeBlocks(s)
    BY <1>10
  <2>5. MadeFs(s, m, i, d, b)
    BY ONLY <1>7, <2>1, <2>2, <2>3, <2>4, i < WRAP, DirMadeIs
  <2> QED
    BY ONLY <1>1, <2>5 DEF MadeFs
<1>13. MemOK(m)
  BY <1>1, <1>12 DEF MemOK
<1>14. PICK x : x = s.mem[d]
  OBVIOUS
<1>15. x = Inode(s, d) /\ InodeOK(x) /\ x = m.mem[d]
  <2>1. x = Inode(s, d)
    BY <1>1, <1>14 DEF MemOK, Inode
  <2>2. InodeOK(x)
    BY <1>1, <2>1 DEF IsFs, Inode
  <2> QED
    BY <1>12, <1>14, <2>1, <2>2
<1>16. \A k \in Direct : x.i_sectors[k] # 0 => x.i_sectors[k] # b /\ m.blk[x.i_sectors[k]] = s.blk[x.i_sectors[k]]
  <2>1. SUFFICES ASSUME NEW k \in Direct, x.i_sectors[k] # 0
                 PROVE  x.i_sectors[k] # b /\ m.blk[x.i_sectors[k]] = s.blk[x.i_sectors[k]]
    OBVIOUS
  <2>2. k \in 0..DIRECT /\ k \in 0..Table /\ k # DIRECT
    BY DirectIs
  <2>3. Addr(s, d, k) = x.i_sectors[k]
    <3>1. \A n \in 0..DIRECT : n # DIRECT => Addr(s, d, n) = Inode(s, d).i_sectors[n]
      BY ONLY d \in Ino, AddrIs
    <3>2. x = Inode(s, d)
      BY <1>15
    <3> QED
      BY ONLY <2>2, <3>1, <3>2
  <2>4. x.i_sectors[k] \notin FreeBlocks(s) /\ x.i_sectors[k] \in Block
    BY <1>1, <2>1, <2>2, <2>3, Taken, AddrType
  <2>5. x.i_sectors[k] # b
    BY <1>10, <2>4
  <2>6. PICK D : D = DotSector(i, d)
    OBVIOUS
  <2>7. m.blk = [s.blk EXCEPT ![b] = D]
    BY <1>12, <2>6
  <2>8. s.blk = [n \in Block |-> s.blk[n]]
    BY <1>1 DEF IsFs
  <2>9. m.blk[x.i_sectors[k]] = s.blk[x.i_sectors[k]]
    BY ONLY <2>4, <2>5, <2>7, <2>8
  <2> QED
    BY <2>5, <2>9
<1>17. Cardinality(FreeBlocks(m)) >= BlocksNeeded(m, d)
  <2>1. FreeBlocks(m) = FreeBlocks(s) \ {b}
    BY <1>12 DEF FreeBlocks
  <2>2. Cardinality(FreeBlocks(m)) = Cardinality(FreeBlocks(s)) - 1
    <3>1. IsFiniteSet(FreeBlocks(s))
      BY <1>9
    <3>2. b \in FreeBlocks(s)
      BY <1>10
    <3> QED
      BY ONLY <2>1, <3>1, <3>2, FS_RemoveElement
  <2>3. \A k \in Direct : s.mem[d].i_sectors[k] # 0 =>
          m.blk[s.mem[d].i_sectors[k]] = s.blk[s.mem[d].i_sectors[k]]
    BY <1>14, <1>16
  <2>4. m.mem[d] = s.mem[d]
    BY <1>12
  <2>5. BlocksNeeded(m, d) = BlocksNeeded(s, d)
    BY ONLY <2>3, <2>4, NeededSame
  <2>6. PICK n : n = BlocksNeeded(s, d)
    OBVIOUS
  <2>7. PICK c : c = Cardinality(FreeBlocks(s))
    OBVIOUS
  <2>8. c >= 1 + n /\ n \in Nat /\ c \in Nat
    BY <1>8, <1>9, <2>6, <2>7
  <2> QED
    BY ONLY <2>2, <2>5, <2>6, <2>7, <2>8
<1>18. PICK a : a = AddEntry(m, d, e)
  OBVIOUS
<1>19. PICK y : Put(m, a, x, y, e) /\ InodeOK(y) /\ OnlyInode(m, a, d, y)
  <2>1. \E y : /\ Put(m, AddEntry(m, d, e), x, y, e) /\ InodeOK(y)
               /\ OnlyInode(m, AddEntry(m, d, e), d, y)
    <3>1. d < WRAP
      BY <1>1, <1>2 DEF Kinds, Stored
    <3> QED
      BY <1>12, <1>15, <1>17, <3>1, SyncIs
  <2> QED
    BY <1>18, <2>1
<1>20. IsFs(a) /\ MemOK(a)
  BY <1>12, <1>13, <1>19, PutFs
<1>21. /\ FsRec(a) /\ a.inode_bitmap = m.inode_bitmap /\ a.open = m.open /\ a.file_table = m.file_table
       /\ Stored(a) /\ a.inode_table = [s.inode_table EXCEPT ![d] = y]
  <2>1. Stored(m) /\ m.inode_table = s.inode_table
    BY <1>12
  <2> QED
    BY <1>19, <2>1 DEF OnlyInode, NewInode
<1>22. PICK D : D = DirInode(b)
  OBVIOUS
<1>23. PICK r : r = MakeDir(s, d, name)
  OBVIOUS
<1>24. /\ FsRec(r) /\ r.inode_bitmap = a.inode_bitmap /\ r.block_bitmap = a.block_bitmap
       /\ r.disk_bbits = a.disk_bbits /\ r.inode_table = [a.inode_table EXCEPT ![i] = D]
       /\ r.blk = a.blk /\ r.tab = a.tab
       /\ r.open = a.open /\ r.mem = a.mem /\ r.file_table = a.file_table
  <2>1. r = SyncInodeBits(inode_sync(a, i, D), i)
    <3>1. a = LET g == sync_dir_entry(m, d, e) IN inode_sync(g, d, g.mem[d])
      BY <1>18 DEF AddEntry
    <3> QED
      BY <1>4, <1>7, <1>11, <1>22, <1>23, <3>1 DEF MakeDir
  <2>2. PICK c : c = inode_sync(a, i, D)
    OBVIOUS
  <2>3. /\ FsRec(c) /\ c.inode_bitmap = a.inode_bitmap /\ c.block_bitmap = a.block_bitmap
        /\ c.disk_bbits = a.disk_bbits /\ c.inode_table = [a.inode_table EXCEPT ![i] = D]
        /\ c.blk = a.blk /\ c.tab = a.tab
        /\ c.open = a.open /\ c.mem = a.mem /\ c.file_table = a.file_table
    <3>1. i \in Ino
      BY <1>3
    <3>2. c = [a EXCEPT !.inode_table[i] = D]
      BY ONLY <2>2, <3>1, i < WRAP, SyncAt
    <3>3. FsRec(a)
      BY <1>21
    <3> QED
      BY ONLY <3>2, <3>3 DEF FsRec
  <2>4. r = SyncInodeBits(c, i)
    BY <2>1, <2>2
  <2>5. r = [c EXCEPT !.disk_ibits = r.disk_ibits]
    BY ONLY <2>3, <2>4, BitsAre
  <2>6. /\ FsRec(r) /\ r.inode_bitmap = c.inode_bitmap /\ r.block_bitmap = c.block_bitmap
        /\ r.disk_bbits = c.disk_bbits /\ r.inode_table = c.inode_table /\ r.blk = c.blk /\ r.tab = c.tab
        /\ r.open = c.open /\ r.mem = c.mem /\ r.file_table = c.file_table
    BY <2>3, <2>5 DEF FsRec
  <2> QED
    BY ONLY <2>3, <2>6
<1>25. InodeOK(D) /\ D.i_size = 2
  <2>1. D.i_size = 2
    BY <1>22 DEF DirInode
  <2> QED
    BY <1>10, <1>22, <2>1, DirInodeOK
<1>26. /\ a.inode_bitmap \subseteq Ino /\ a.block_bitmap \subseteq Block /\ a.file_table \subseteq Ino
       /\ a.inode_table = [j \in Ino |-> a.inode_table[j]] /\ a.mem = [j \in Ino |-> a.mem[j]]
       /\ a.open \in [Ino -> Nat] /\ (\A j \in Ino : InodeOK(a.inode_table[j])) /\ BlkOK(a.blk) /\ TabOK(a.tab)
  BY <1>20, FsTo
<1>27. /\ r.inode_table = [j \in Ino |-> r.inode_table[j]] /\ r.inode_table[i] = D
       /\ \A j \in Ino \ {i} : r.inode_table[j] = a.inode_table[j]
  <2>1. r.inode_table = [a.inode_table EXCEPT ![i] = D]
    BY <1>24
  <2>2. a.inode_table = [j \in Ino |-> a.inode_table[j]] /\ i \in Ino
    BY <1>3, <1>26
  <2> QED
    BY ONLY <2>1, <2>2
<1>28. IsFs(r)
  <2>1. \A j \in Ino : InodeOK(r.inode_table[j])
    BY <1>25, <1>26, <1>27
  <2>2. /\ FsRec(r) /\ r.inode_bitmap = a.inode_bitmap /\ r.block_bitmap = a.block_bitmap
        /\ r.blk = a.blk /\ r.tab = a.tab
        /\ r.open = a.open /\ r.mem = a.mem /\ r.file_table = a.file_table
    BY <1>24
  <2>3. r.inode_table = [j \in Ino |-> r.inode_table[j]]
    BY <1>27
  <2> QED
    BY ONLY <1>26, <2>1, <2>2, <2>3, FsFrom
<1>29. MemOK(r)
  <2>1. r.open = s.open /\ r.mem = a.mem /\ r.open = a.open
    BY <1>12, <1>21, <1>24
  <2>2. r.inode_table[i] = D /\ \A j \in Ino \ {i} : r.inode_table[j] = a.inode_table[j]
    BY <1>27
  <2>3. ~(r.open[i] > 0)
    <3>1. r.open[i] = 0
      BY ONLY <2>1, s.open[i] = 0
    <3> QED
      BY ONLY <3>1
  <2>4. \A j \in Ino : a.open[j] > 0 => a.mem[j] = a.inode_table[j]
    BY <1>20 DEF MemOK
  <2> QED
    BY ONLY <2>1, <2>2, <2>3, <2>4 DEF MemOK
(* The directory by itself, before its entry is written.                   *)
<1>30. PICK n : n = [m EXCEPT !.inode_table[i] = D]
  OBVIOUS
<1>31. /\ FsRec(n) /\ n.inode_bitmap = m.inode_bitmap /\ n.block_bitmap = m.block_bitmap
       /\ n.inode_table = [s.inode_table EXCEPT ![i] = D] /\ n.blk = m.blk /\ n.tab = m.tab
       /\ n.open = m.open /\ n.mem = m.mem /\ n.file_table = m.file_table
  <2>1. FsRec(m)
    BY <1>12 DEF IsFs
  <2>2. m.inode_table = s.inode_table
    BY <1>12
  <2> QED
    BY ONLY <1>30, <2>1, <2>2 DEF FsRec
<1>32. IsFs(n)
  <2>1. /\ m.inode_bitmap \subseteq Ino /\ m.block_bitmap \subseteq Block /\ m.file_table \subseteq Ino
        /\ m.inode_table = [j \in Ino |-> m.inode_table[j]] /\ m.mem = [j \in Ino |-> m.mem[j]]
        /\ m.open \in [Ino -> Nat] /\ (\A j \in Ino : InodeOK(m.inode_table[j])) /\ BlkOK(m.blk) /\ TabOK(m.tab)
    BY <1>12, FsTo
  <2>2. m.inode_table = s.inode_table
    BY <1>12
  <2>3. n.inode_table = [j \in Ino |-> n.inode_table[j]] /\ n.inode_table[i] = D
        /\ \A j \in Ino \ {i} : n.inode_table[j] = m.inode_table[j]
    <3>1. n.inode_table = [s.inode_table EXCEPT ![i] = D]
      BY <1>31
    <3>2. i \in Ino /\ m.inode_table = [j \in Ino |-> m.inode_table[j]]
      BY <1>3, <2>1
    <3> QED
      BY ONLY <2>2, <3>1, <3>2
  <2>4. \A j \in Ino : InodeOK(n.inode_table[j])
    BY <1>25, <2>1, <2>3
  <2>5. n.inode_table = [j \in Ino |-> n.inode_table[j]]
    BY <2>3
  <2> QED
    BY ONLY <1>31, <2>1, <2>4, <2>5, FsFrom
<1>33. /\ Blocks(n) /\ Tables(n) /\ IsDir(n, i) /\ Inode(n, i).i_size = 2
       /\ \A c \in Ino \ {i} : /\ Inode(n, c) = Inode(s, c) /\ IsDir(n, c) = IsDir(s, c)
                               /\ \A k \in 0..Table : Addr(n, c, k) = Addr(s, c, k)
                               /\ \A q \in Place : At(n, c, q) = At(s, c, q)
       /\ \A q \in Place : At(n, i, q) = IF q = <<0, 1>> THEN Ent(".", i, "directory")
                                         ELSE IF q = <<0, 2>> THEN Ent("..", d, "directory") ELSE Free
  <2>1. n.inode_table = [s.inode_table EXCEPT ![i] = DirInode(b)]
    BY <1>22, <1>31
  <2>2. n.blk = [s.blk EXCEPT ![b] = DotSector(i, d)]
    BY <1>12, <1>31
  <2>3. n.tab = s.tab
    BY <1>12, <1>31
  <2>4. n.block_bitmap = s.block_bitmap \cup {b}
    BY <1>12, <1>31
  <2>5. Inode(s, i) = NoInode
    BY <1>6
  <2>6. i \in Ino
    BY <1>3
  <2>7. b \in FreeBlocks(s)
    BY <1>10
  <2>8. IsFs(s)
    BY <1>1
  <2>9. Blocks(s)
    BY <1>1
  <2>10. Tables(s)
    BY <1>1
  <2> QED
    BY ONLY <2>1, <2>2, <2>3, <2>4, <2>5, <2>6, <2>7, <2>8, <2>9, <2>10, NewDirKeeps
<1>34. Larger(n, r, d, e)
  <2>1. Inode(n, d) = x
    BY <1>6, <1>15, <1>33
  <2>2. Put(n, r, Inode(n, d), y, e)
    <3>1. Put(m, a, x, y, e)
      BY <1>19
    <3>2. n.blk = m.blk
      BY <1>31
    <3>3. n.tab = m.tab
      BY <1>31
    <3>4. n.block_bitmap = m.block_bitmap
      BY <1>31
    <3>5. r.blk = a.blk
      BY <1>24
    <3>6. r.tab = a.tab
      BY <1>24
    <3>7. r.block_bitmap = a.block_bitmap
      BY <1>24
    <3> QED
      BY ONLY <2>1, <3>1, <3>2, <3>3, <3>4, <3>5, <3>6, <3>7, PutSame
  <2>3. NewInode(n, r, d, y)
    <3>1. r.inode_table = [[s.inode_table EXCEPT ![d] = y] EXCEPT ![i] = D]
      BY <1>21, <1>24
    <3>2. n.inode_table = [s.inode_table EXCEPT ![i] = D]
      BY <1>31
    <3>3. i # d
      BY <1>6
    <3>4. s.inode_table = [j \in Ino |-> s.inode_table[j]]
      BY <1>1 DEF IsFs
    <3>5. r.inode_table = [n.inode_table EXCEPT ![d] = y]
      BY ONLY <3>1, <3>2, <3>3, <3>4
    <3> QED
      BY <3>5 DEF NewInode
  <2>4. Full(n, Inode(n, d)) => Addr(n, d, Table) = 0
    <3>1. SUFFICES ASSUME Full(n, Inode(n, d)) PROVE Addr(n, d, Table) = 0
      OBVIOUS
    <3>2. Full(s, Inode(s, d))
      <4>1. n.blk = m.blk
        BY <1>31
      <4>2. Inode(s, d) = x
        BY <1>15
      <4> QED
        BY ONLY <1>16, <2>1, <3>1, <4>1, <4>2 DEF Full
    <3>3. Addr(s, d, Table) = 0
      <4>1. s.mem[d] = Inode(s, d)
        BY <1>14, <1>15
      <4> QED
        BY ONLY d \in Ino, Spare(s, d), <3>2, <4>1, NotFull
    <3>4. Addr(n, d, Table) = Addr(s, d, Table)
      BY <1>6, <1>33, Bounds
    <3> QED
      BY <3>3, <3>4
  <2>5. Blocks(n)
    BY <1>33
  <2>6. Tables(n)
    BY <1>33
  <2>7. e # Free
    BY <1>5
  <2> QED
    BY ONLY d \in Ino, <1>32, <2>2, <2>3, <2>4, <2>5, <2>6, <2>7, PutKeeps
<1>35. /\ Blocks(r) /\ Tables(r) /\ Added(n, r, d, e)
       /\ \A c \in Ino : c # d \/ IsDir(n, c) => IsDir(r, c) = IsDir(n, c)
       /\ Inode(r, d).i_size = Inode(n, d).i_size + 1
       /\ \A c \in Ino \ {d} : Inode(r, c) = Inode(n, c)
  BY <1>34 DEF Larger
<1>36. IsDir(r, i) /\ \A c \in Ino \ {i} : IsDir(r, c) = IsDir(s, c)
  BY <1>3, <1>6, <1>33, <1>35
<1>37. PICK p \in Place : At(n, d, p) = Free /\
         \A c \in Ino, q \in Place : At(r, c, q) = IF c = d /\ q = p THEN e ELSE At(n, c, q)
  BY <1>35 DEF Added
<1>38. Grown(s, r, d, i, p, e)
  <2>1. Kind(r, i) = "directory"
    BY <1>36 DEF Kind
  <2>2. i \in Ino \ s.inode_bitmap /\ r.inode_bitmap = s.inode_bitmap \cup {i}
    BY <1>3, <1>12, <1>21, <1>24
  <2>3. e.filename \notin {"", ".", ".."} /\ e = Ent(e.filename, i, Kind(r, i))
    BY <1>4, <1>5, <2>1
  <2>4. \A q \in Place : At(s, d, q).filename # e.filename
    BY <1>5
  <2>5. \A c \in Ino \ {i, d} : Inode(r, c) = Inode(s, c)
    BY <1>33, <1>35
  <2>6. Inode(r, d).i_size = Inode(s, d).i_size + 1
    BY <1>6, <1>33, <1>35
  <2>7. Inode(r, i).i_size = 2
    BY <1>3, <1>6, <1>33, <1>35
  <2>8. At(s, d, p) = Free
    BY <1>6, <1>33, <1>37
  <2>9. \A c \in Ino \ {i}, q \in Place : At(r, c, q) = IF c = d /\ q = p THEN e ELSE At(s, c, q)
    <3>1. TAKE c \in Ino \ {i}, q \in Place
    <3>2. At(r, c, q) = IF c = d /\ q = p THEN e ELSE At(n, c, q)
      BY <1>37
    <3>3. At(n, c, q) = At(s, c, q)
      BY <1>33
    <3> QED
      BY ONLY <3>2, <3>3
  <2>10. \A q \in Place : At(r, i, q) = IF q = <<0, 1>> THEN Ent(".", i, "directory")
                                       ELSE IF q = <<0, 2>> THEN Ent("..", d, "directory") ELSE Free
    <3>1. TAKE q \in Place
    <3>2. At(r, i, q) = At(n, i, q)
      BY <1>3, <1>6, <1>37
    <3>3. At(n, i, q) = IF q = <<0, 1>> THEN Ent(".", i, "directory")
                        ELSE IF q = <<0, 2>> THEN Ent("..", d, "directory") ELSE Free
      BY <1>33
    <3> QED
      BY ONLY <3>2, <3>3
  <2> QED
    BY <1>36, <1>37, <2>2, <2>3, <2>4, <2>5, <2>6, <2>7, <2>8, <2>9, <2>10 DEF Grown
<1>39. TreeInv(r)
  <2>1. s.inode_bitmap \subseteq Ino
    BY <1>1 DEF IsFs
  <2> QED
    BY <1>1, <1>38, <2>1, GrownKeeps
<1>40. Sound(r)
  <2>1. Stored(r)
    BY <1>21, <1>24 DEF Stored
  <2> QED
    BY <1>28, <1>29, <1>35, <1>39, <2>1 DEF Sound
<1>41. r.open = s.open /\ r.file_table = s.file_table /\ s.inode_bitmap \subseteq r.inode_bitmap
  BY <1>12, <1>21, <1>24
<1>42. \A c \in Ino : IsDir(r, c) <=> c = i \/ IsDir(s, c)
  BY <1>36
<1> QED
  BY <1>3, <1>23, <1>40, <1>41, <1>42 DEF DirAdded
-----------------------------------------------------------------------------
(* search_file.  Where it stands after n names of the path: in a directory,*)
(* before a regular file, or where a name is missing.                      *)
NamedBy(s, d, name, i) == \E q \in Filled(s, d) : At(s, d, q).filename = name /\ At(s, d, q).i_no = i
SearchRec(r) ==
  r = [found |-> r.found, i_no |-> r.i_no, file_type |-> r.file_type,
       parent |-> r.parent, heap |-> r.heap, depth |-> r.depth]
InDir(s, r)  == r.file_type = "directory" /\ r.found /\ IsDir(s, r.i_no) /\ r.i_no \in Ino
AtFile(s, r) == r.file_type = "regular" /\ r.found /\ ~IsDir(s, r.i_no) /\ r.i_no \in Ino
Missing(s, path, r) ==
  r.file_type = "unknown" /\ ~r.found /\ \A q \in Place : At(s, r.parent, q).filename # path[r.depth]
SearchOK(s, path, r, n) ==
  /\ SearchRec(r) /\ r.depth \in 0..n
  /\ r.parent \in Ino /\ IsDir(s, r.parent) /\ (~r.heap => r.parent = 0)
  /\ (r.depth = 0 => InDir(s, r) /\ r.i_no = 0)
  /\ \/ InDir(s, r) /\ r.depth = n
     \/ AtFile(s, r) /\ (r.depth = 1 => ~r.heap)
     \/ Missing(s, path, r)
  /\ r.found /\ r.depth > 0 => NamedBy(s, r.parent, path[r.depth], r.i_no)

(* What an entry names.                                                    *)
LEMMA EntryTarget ==
  ASSUME NEW s, s.inode_bitmap \subseteq Ino, Dots(s), Entries(s), NEW d \in Ino, NEW q \in Filled(s, d)
  PROVE  /\ At(s, d, q).i_no \in Ino
         /\ At(s, d, q).f_type = Kind(s, At(s, d, q).i_no)
<1>1. q \in Place /\ At(s, d, q) # Free
  BY DEF Filled
<1>2. CASE q \in Linked(s, d)
  <2>1. At(s, d, q).i_no \in s.inode_bitmap \ {0} /\ At(s, d, q).f_type = Kind(s, At(s, d, q).i_no)
    BY <1>1, <1>2, EntryIs
  <2> QED
    BY <2>1
<1>3. CASE q \notin Linked(s, d)
  <2>1. IsDir(s, d) /\ q \in {<<0, 1>>, <<0, 2>>}
    BY <1>1, <1>3, EntryIs
  <2>2. CASE q = <<0, 1>>
    <3>1. PICK e : e = At(s, d, q)
      OBVIOUS
    <3>2. e = Ent(".", d, "directory")
      BY <2>1, <2>2, <3>1, DotIs
    <3>3. e.i_no = d /\ e.f_type = "directory"
      BY ONLY <3>2, EntIs
    <3>4. Kind(s, d) = "directory"
      BY <2>1 DEF Kind
    <3> QED
      BY <3>1, <3>3, <3>4
  <2>3. CASE q = <<0, 2>>
    <3>1. PICK e : e = At(s, d, q)
      OBVIOUS
    <3>2. e = Ent("..", e.i_no, "directory") /\ e.i_no \in Ino /\ IsDir(s, e.i_no)
      BY <2>1, <2>3, <3>1, DotIs
    <3>3. PICK c : c = e.i_no
      OBVIOUS
    <3>4. e.f_type = "directory"
      <4>1. e = Ent("..", c, "directory")
        BY <3>2, <3>3
      <4> QED
        BY ONLY <4>1, EntIs
    <3>5. Kind(s, e.i_no) = "directory"
      BY <3>2 DEF Kind
    <3> QED
      BY <3>1, <3>2, <3>4, <3>5
  <2> QED
    BY <2>1, <2>2, <2>3
<1> QED
  BY <1>2, <1>3

(* search_dir_entry: nothing, or the one entry of that name.               *)
LEMMA LookupIs ==
  ASSUME NEW s, IsFs(s), MemOK(s), Tables(s), TreeInv(s), NEW d \in Ino, NEW name, name # ""
  PROVE  /\ Named(s, d, name) = {} => \A q \in Place : At(s, d, q).filename # name
         /\ Named(s, d, name) # {} => \E q \in Filled(s, d) :
              search_dir_entry(s, d, name) = At(s, d, q) /\ At(s, d, q).filename = name
<1>1. Dots(s) /\ Entries(s) /\ Tree(s)
  BY DEF TreeInv
<1>2. \A q : q \in Named(s, d, name) <=> q \in Filled(s, d) /\ At(s, d, q).filename = name
  BY <1>1, NamedIs
<1>3. Filled(s, d) \subseteq Places(s, d) /\ \A p \in Places(s, d) : EntryAt(s, d, p) = At(s, d, p)
  BY <1>1, EntrySets
<1>4. ASSUME Named(s, d, name) = {}, NEW q \in Place, At(s, d, q).filename = name
      PROVE  FALSE
  <2>1. Free.filename = ""
    BY DEF Free
  <2>2. q \in Filled(s, d)
    BY <1>4, <2>1 DEF Filled
  <2> QED
    BY <1>2, <1>4, <2>2
<1>5. ASSUME Named(s, d, name) # {}
      PROVE  \E q \in Filled(s, d) : search_dir_entry(s, d, name) = At(s, d, q) /\ At(s, d, q).filename = name
  <2>1. PICK q \in Filled(s, d) : q \in Named(s, d, name) /\ At(s, d, q).filename = name
    BY <1>2, <1>5
  <2>2. \A p \in Named(s, d, name) : p = q
    <3>1. TAKE p \in Named(s, d, name)
    <3>2. p \in Filled(s, d) /\ At(s, d, p).filename = At(s, d, q).filename
      BY <1>2, <2>1, <3>1
    <3> QED
      BY <1>1, <3>2 DEF Tree
  <2>3. Named(s, d, name) = {q}
    BY <2>1, <2>2
  <2>4. search_dir_entry(s, d, name) = EntryAt(s, d, q)
    BY <2>3, FirstPlaceOne DEF search_dir_entry
  <2>5. EntryAt(s, d, q) = At(s, d, q)
    BY <1>3, <2>1
  <2> QED
    BY <2>1, <2>4, <2>5
<1> QED
  BY <1>4, <1>5

(* A step of the search, by what it finds.                                 *)
Stepped(s, r, name, e, x) ==
  /\ SearchRec(x) /\ x.parent = r.i_no /\ x.depth = r.depth + 1
  /\ Named(s, r.i_no, name) = {} => ~x.found /\ x.file_type = "unknown" /\ x.heap = (r.depth > 0)
  /\ Named(s, r.i_no, name) # {} => x.found = r.found /\ x.i_no = e.i_no
  /\ Named(s, r.i_no, name) # {} /\ e.f_type = "directory" => x.file_type = "directory" /\ x.heap
  /\ Named(s, r.i_no, name) # {} /\ e.f_type # "directory" =>
       x.file_type = "regular" /\ x.heap = (r.depth > 0)
(* One name further in search_file.                                        *)
LEMMA StepIs ==
  ASSUME NEW s, NEW r, SearchRec(r), NEW name, NEW e, e = search_dir_entry(s, r.i_no, name),
         NEW x, x = search_step(s, r, name), r.file_type = "directory"
  PROVE  Stepped(s, r, name, e, x)
<1>1. PICK h : h = (r.depth > 0)
  OBVIOUS
<1>2. PICK n : n = r.depth + 1
  OBVIOUS
<1>3. PICK next : next = [r EXCEPT !.parent = r.i_no, !.heap = h, !.depth = n]
  OBVIOUS
<1>4. /\ SearchRec(next) /\ next.found = r.found /\ next.i_no = r.i_no /\ next.file_type = r.file_type
      /\ next.parent = r.i_no /\ next.heap = h /\ next.depth = n
  BY ONLY <1>3, SearchRec(r) DEF SearchRec
<1>5. x = IF Named(s, r.i_no, name) = {}
          THEN [next EXCEPT !.found = FALSE, !.file_type = "unknown"]
          ELSE IF e.f_type = "directory" THEN [next EXCEPT !.i_no = e.i_no, !.heap = TRUE]
          ELSE [next EXCEPT !.i_no = e.i_no, !.file_type = "regular"]
  <2>1. next = [r EXCEPT !.parent = r.i_no, !.heap = r.depth > 0, !.depth = @ + 1]
    BY <1>1, <1>2, <1>3 DEF SearchRec
  <2> QED
    BY <2>1, Zenon DEF search_step
<1>6. PICK i : i = e.i_no
  OBVIOUS
<1>7. CASE Named(s, r.i_no, name) = {}
  <2>1. x = [next EXCEPT !.found = FALSE, !.file_type = "unknown"]
    BY <1>5, <1>7
  <2>2. /\ SearchRec(x) /\ x.found = FALSE /\ x.file_type = "unknown"
        /\ x.parent = next.parent /\ x.heap = next.heap /\ x.depth = next.depth
    BY ONLY <1>4, <2>1 DEF SearchRec
  <2> QED
    BY <1>1, <1>2, <1>4, <1>7, <2>2 DEF Stepped
<1>8. CASE Named(s, r.i_no, name) # {} /\ e.f_type = "directory"
  <2>1. x = [next EXCEPT !.i_no = i, !.heap = TRUE]
    BY <1>5, <1>6, <1>8
  <2>2. /\ SearchRec(x) /\ x.found = next.found /\ x.i_no = i /\ x.file_type = next.file_type
        /\ x.parent = next.parent /\ x.heap = TRUE /\ x.depth = next.depth
    BY ONLY <1>4, <2>1 DEF SearchRec
  <2> QED
    BY <1>2, <1>4, <1>6, <1>8, <2>2 DEF Stepped
<1>9. CASE Named(s, r.i_no, name) # {} /\ e.f_type # "directory"
  <2>1. x = [next EXCEPT !.i_no = i, !.file_type = "regular"]
    BY <1>5, <1>6, <1>9
  <2>2. /\ SearchRec(x) /\ x.found = next.found /\ x.i_no = i /\ x.file_type = "regular"
        /\ x.parent = next.parent /\ x.heap = next.heap /\ x.depth = next.depth
    BY ONLY <1>4, <2>1 DEF SearchRec
  <2> QED
    BY <1>1, <1>2, <1>4, <1>6, <1>9, <2>2 DEF Stepped
<1> QED
  BY <1>7, <1>8, <1>9

LEMMA StepStays ==
  ASSUME NEW s, NEW r, NEW name, r.file_type # "directory"
  PROVE  search_step(s, r, name) = r
BY Zenon DEF search_step

(* One name further in search_file keeps what it has found out.            *)
LEMMA SearchStep ==
  ASSUME NEW s, IsFs(s), MemOK(s), Tables(s), TreeInv(s), NEW path, NEW r, NEW n \in Nat,
         SearchOK(s, path, r, n), path[n + 1] # ""
  PROVE  SearchOK(s, path, search_step(s, r, path[n + 1]), n + 1)
<1>1. PICK name : name = path[n + 1]
  OBVIOUS
<1>2. PICK x : x = search_step(s, r, name)
  OBVIOUS
<1>3. /\ SearchRec(r) /\ r.depth \in 0..n
      /\ r.parent \in Ino /\ IsDir(s, r.parent) /\ (~r.heap => r.parent = 0)
      /\ (r.depth = 0 => InDir(s, r) /\ r.i_no = 0)
  BY DEF SearchOK
<1>4. CASE r.file_type # "directory"
  <2>1. x = r
    BY <1>2, <1>4, StepStays
  <2>2. r.depth \in 0..(n + 1)
    BY ONLY <1>3, n \in Nat
  <2>3. ~InDir(s, r)
    BY <1>4 DEF InDir
  <2>4. (AtFile(s, r) /\ (r.depth = 1 => ~r.heap)) \/ Missing(s, path, r)
    BY <2>3 DEF SearchOK
  <2>5. r.found /\ r.depth > 0 => NamedBy(s, r.parent, path[r.depth], r.i_no)
    BY DEF SearchOK
  <2>6. SearchOK(s, path, r, n + 1)
    BY <1>3, <2>2, <2>4, <2>5 DEF SearchOK
  <2> QED
    BY <1>1, <1>2, <2>1, <2>6
<1>5. CASE r.file_type = "directory"
  <2>1. InDir(s, r) /\ r.depth = n
    BY <1>5 DEF SearchOK, AtFile, Missing
  <2>2. r.i_no \in Ino /\ IsDir(s, r.i_no) /\ r.found
    BY <2>1 DEF InDir
  <2>3. PICK d : d = r.i_no
    OBVIOUS
  <2>4. PICK e : e = search_dir_entry(s, d, name)
    OBVIOUS
  <2>5. /\ SearchRec(x) /\ x.parent = d /\ x.depth = r.depth + 1
        /\ Named(s, d, name) = {} => ~x.found /\ x.file_type = "unknown" /\ x.heap = (r.depth > 0)
        /\ Named(s, d, name) # {} => x.found = r.found /\ x.i_no = e.i_no
        /\ Named(s, d, name) # {} /\ e.f_type = "directory" => x.file_type = "directory" /\ x.heap
        /\ Named(s, d, name) # {} /\ e.f_type # "directory" =>
             x.file_type = "regular" /\ x.heap = (r.depth > 0)
    <3>1. SearchRec(r)
      BY <1>3
    <3>2. e = search_dir_entry(s, r.i_no, name)
      BY <2>3, <2>4
    <3>3. Stepped(s, r, name, e, x)
      BY ONLY <1>2, <1>5, <3>1, <3>2, StepIs
    <3> QED
      BY ONLY <2>3, <3>3 DEF Stepped
  <2>6. x.depth = n + 1 /\ x.depth \in 0..(n + 1) /\ x.depth # 0 /\ path[x.depth] = name
    <3>1. x.depth = r.depth + 1 /\ r.depth = n /\ n \in Nat
      BY <2>1, <2>5
    <3>2. x.depth = n + 1 /\ x.depth \in 0..(n + 1) /\ x.depth # 0
      BY ONLY <3>1
    <3> QED
      BY <1>1, <3>2
  <2>7. x.parent \in Ino /\ IsDir(s, x.parent)
    BY <2>2, <2>3, <2>5
  <2>8. ~(r.depth > 0) => d = 0
    <3>1. r.depth \in 0..n /\ n \in Nat
      BY <1>3
    <3>2. ~(r.depth > 0) => r.depth = 0
      BY ONLY <3>1
    <3> QED
      BY <1>3, <2>3, <3>2
  <2>9. /\ Named(s, d, name) = {} => \A q \in Place : At(s, d, q).filename # name
        /\ Named(s, d, name) # {} => \E q \in Filled(s, d) :
             search_dir_entry(s, d, name) = At(s, d, q) /\ At(s, d, q).filename = name
    <3>1. d \in Ino
      BY <2>2, <2>3
    <3>2. name # ""
      BY <1>1
    <3> QED
      BY ONLY IsFs(s), MemOK(s), Tables(s), TreeInv(s), <3>1, <3>2, LookupIs
  <2>10. CASE Named(s, d, name) = {}
    <3>1. Missing(s, path, x)
      BY <2>5, <2>6, <2>9, <2>10 DEF Missing
    <3>2. ~x.heap => x.parent = 0
      BY <2>5, <2>8, <2>10
    <3>3. ~x.found
      BY <2>5, <2>10
    <3> QED
      BY <1>1, <1>2, <2>5, <2>6, <2>7, <3>1, <3>2, <3>3 DEF SearchOK
  <2>11. CASE Named(s, d, name) # {}
    <3>1. PICK q \in Filled(s, d) : e = At(s, d, q) /\ At(s, d, q).filename = name
      BY <2>4, <2>9, <2>11
    <3>2. e.i_no \in Ino /\ e.f_type = Kind(s, e.i_no)
      <4>1. s.inode_bitmap \subseteq Ino /\ Dots(s) /\ Entries(s)
        BY DEF IsFs, TreeInv
      <4> QED
        BY <2>2, <2>3, <3>1, <4>1, EntryTarget
    <3>3. x.found /\ x.i_no = e.i_no
      BY <2>2, <2>5, <2>11
    <3>4. NamedBy(s, x.parent, path[x.depth], x.i_no)
      BY <2>5, <2>6, <3>1, <3>3 DEF NamedBy
    <3>5. CASE e.f_type = "directory"
      <4>1. IsDir(s, e.i_no)
        BY <3>2, <3>5 DEF Kind
      <4>2. x.file_type = "directory" /\ x.heap
        BY <2>5, <2>11, <3>5
      <4>3. InDir(s, x)
        BY <3>2, <3>3, <4>1, <4>2 DEF InDir
      <4> QED
        BY <1>1, <1>2, <2>5, <2>6, <2>7, <3>4, <4>2, <4>3 DEF SearchOK
    <3>6. CASE e.f_type # "directory"
      <4>1. ~IsDir(s, e.i_no)
        BY <3>2, <3>6 DEF Kind
      <4>2. x.file_type = "regular" /\ x.heap = (r.depth > 0)
        BY <2>5, <2>11, <3>6
      <4>3. AtFile(s, x)
        BY <3>2, <3>3, <4>1, <4>2 DEF AtFile
      <4>4. x.depth = 1 => ~x.heap
        <5>1. x.depth = r.depth + 1 /\ r.depth \in 0..n /\ n \in Nat
          BY <1>3, <2>5
        <5>2. x.depth = 1 => ~(r.depth > 0)
          BY ONLY <5>1
        <5> QED
          BY <4>2, <5>2
      <4>5. ~x.heap => x.parent = 0
        BY <2>5, <2>8, <4>2
      <4> QED
        BY <1>1, <1>2, <2>5, <2>6, <2>7, <3>4, <4>3, <4>4, <4>5 DEF SearchOK
    <3> QED
      BY <3>5, <3>6
  <2> QED
    BY <2>10, <2>11
<1> QED
  BY <1>4, <1>5

Root == [found |-> TRUE, i_no |-> 0, file_type |-> "directory", parent |-> 0, heap |-> FALSE, depth |-> 0]
Search(s, path, f, n) == f = [m \in 0..n |-> IF m = 0 THEN Root ELSE search_step(s, f[m - 1], path[m])]

(* The search has a course for every number of names.                      *)
LEMMA SearchExists ==
  ASSUME NEW s, NEW path, NEW n \in Nat
  PROVE  \E f : Search(s, path, f, n)
<1> DEFINE Bad == {m \in Nat : ~\E f : Search(s, path, f, m)}
<1>1. SUFFICES ASSUME Bad # {} PROVE FALSE
  OBVIOUS
<1>2. PICK m \in Bad : \A k \in Bad : m <= k
  <2>1. Bad \in SUBSET Nat
    OBVIOUS
  <2>2. Min(Bad) \in Bad /\ \A y \in Bad : Min(Bad) <= y
    BY ONLY <1>1, <2>1, LeastNat
  <2> QED
    BY ONLY <2>2
<1>3. m \in Nat /\ ~\E f : Search(s, path, f, m)
  OBVIOUS
<1>4. m # 0
  <2>1. PICK f : f = [k \in 0..0 |-> Root]
    OBVIOUS
  <2>2. 0..0 = {0}
    OBVIOUS
  <2>3. f = [k \in 0..0 |-> IF k = 0 THEN Root ELSE search_step(s, f[k - 1], path[k])]
    BY ONLY <2>1, <2>2
  <2>4. Search(s, path, f, 0)
    BY <2>3 DEF Search
  <2> QED
    BY <1>3, <2>4
<1>5. m - 1 \in Nat /\ ~(m <= m - 1)
  BY <1>3, <1>4
<1>6. PICK f : Search(s, path, f, m - 1)
  BY <1>2, <1>5
<1>7. PICK g : g = [k \in 0..m |-> IF k = m THEN search_step(s, f[m - 1], path[m]) ELSE f[k]]
  OBVIOUS
<1>8. f = [k \in 0..(m - 1) |-> IF k = 0 THEN Root ELSE search_step(s, f[k - 1], path[k])]
  BY <1>6 DEF Search
<1>9. \A k \in 0..m : g[k] = IF k = 0 THEN Root ELSE search_step(s, g[k - 1], path[k])
  <2>1. TAKE k \in 0..m
  <2>2. CASE k = m
    <3>1. g[k - 1] = f[m - 1]
      BY ONLY <1>3, <1>4, <1>7, <2>2
    <3>2. g[k] = search_step(s, f[m - 1], path[m])
      BY ONLY <1>3, <1>7, <2>2
    <3> QED
      BY ONLY <1>4, <2>2, <3>1, <3>2
  <2>3. CASE k # m
    <3>1. k \in 0..(m - 1) /\ g[k] = f[k]
      BY ONLY <1>3, <1>7, <2>1, <2>3
    <3>2. f[k] = IF k = 0 THEN Root ELSE search_step(s, f[k - 1], path[k])
      BY ONLY <1>8, <3>1
    <3>3. k # 0 => g[k - 1] = f[k - 1]
      BY ONLY <1>3, <1>7, <2>1, <2>3
    <3> QED
      BY ONLY <3>1, <3>2, <3>3
  <2> QED
    BY <2>2, <2>3
<1>10. g = [k \in 0..m |-> IF k = 0 THEN Root ELSE search_step(s, g[k - 1], path[k])]
  <2>1. PICK h : h = [k \in 0..m |-> IF k = 0 THEN Root ELSE search_step(s, g[k - 1], path[k])]
    OBVIOUS
  <2>2. \A k \in 0..m : g[k] = h[k]
    BY ONLY <1>9, <2>1
  <2>3. g = [k \in 0..m |-> g[k]] /\ h = [k \in 0..m |-> h[k]]
    BY ONLY <1>7, <2>1
  <2>4. g = h
    BY ONLY <2>2, <2>3
  <2> QED
    BY ONLY <2>1, <2>4
<1> QED
  BY <1>3, <1>10 DEF Search

Named0(path) == Len(path) \in Nat /\ \A k \in 1..Len(path) : path[k] # ""

(* What search_file returns.                                               *)
LEMMA SearchIs ==
  ASSUME NEW s, IsFs(s), MemOK(s), Tables(s), TreeInv(s), NEW path, Named0(path)
  PROVE  SearchOK(s, path, search_file(s, path), Len(path))
<1>1. PICK n : n = Len(path)
  OBVIOUS
<1>2. n \in Nat /\ \A k \in 1..n : path[k] # ""
  BY <1>1 DEF Named0
<1>3. PICK f : Search(s, path, f, n) /\ search_file(s, path) = f[n]
  <2>1. \E f : f = [m \in 0..n |-> IF m = 0 THEN Root ELSE search_step(s, f[m - 1], path[m])]
    <3>1. \E f : Search(s, path, f, n)
      BY ONLY <1>2, SearchExists
    <3> QED
      BY ONLY <3>1 DEF Search
  <2>2. PICK g : g = CHOOSE f : f = [m \in 0..n |-> IF m = 0 THEN Root ELSE search_step(s, f[m - 1], path[m])]
    OBVIOUS
  <2>3. g = [m \in 0..n |-> IF m = 0 THEN Root ELSE search_step(s, g[m - 1], path[m])]
    BY ONLY <2>1, <2>2, Zenon
  <2>4. search_file(s, path) = g[n]
    BY ONLY <1>1, <2>2, Zenon DEF search_file, Root
  <2> QED
    BY <2>3, <2>4 DEF Search
<1>4. f = [m \in 0..n |-> IF m = 0 THEN Root ELSE search_step(s, f[m - 1], path[m])]
  BY <1>3 DEF Search
<1> DEFINE Bad == {m \in 0..n : ~SearchOK(s, path, f[m], m)}
<1>5. Bad = {}
  <2>1. SUFFICES ASSUME Bad # {} PROVE FALSE
    OBVIOUS
  <2>2. PICK m \in Bad : \A k \in Bad : m <= k
    <3>1. Bad \in SUBSET Nat
      <4>1. n \in Nat
        BY <1>2
      <4>2. 0..n \in SUBSET Nat
        BY ONLY <4>1
      <4> QED
        BY <4>2
    <3>2. Min(Bad) \in Bad /\ \A y \in Bad : Min(Bad) <= y
      BY ONLY <2>1, <3>1, LeastNat
    <3> QED
      BY ONLY <3>2
  <2>3. m \in 0..n /\ ~SearchOK(s, path, f[m], m)
    OBVIOUS
  <2>4. CASE m = 0
    <3>1. f[m] = Root
      BY ONLY <1>2, <1>4, <2>4
    <3>2. PICK r : r = Root
      OBVIOUS
    <3>3. /\ SearchRec(r) /\ r.found /\ r.i_no = 0 /\ r.file_type = "directory" /\ r.parent = 0 /\ r.depth = 0
      BY ONLY <3>2 DEF Root, SearchRec
    <3>4. 0 \in Ino /\ IsDir(s, 0)
      BY Bounds DEF TreeInv, Kinds
    <3>5. InDir(s, r)
      BY <3>3, <3>4 DEF InDir
    <3>6. r.depth \in 0..m /\ ~(r.depth > 0)
      BY <2>4, <3>3
    <3>7. SearchOK(s, path, r, m)
      BY <2>4, <3>3, <3>4, <3>5, <3>6 DEF SearchOK
    <3> QED
      BY <2>3, <3>1, <3>2, <3>7
  <2>5. CASE m # 0
    <3>1. m - 1 \in Nat /\ m - 1 \in 0..n /\ m \in 1..n /\ (m - 1) + 1 = m /\ ~(m <= m - 1)
      <4>1. n \in Nat /\ m \in 0..n
        BY <1>2, <2>3
      <4> QED
        BY ONLY <2>5, <4>1
    <3>2. SearchOK(s, path, f[m - 1], m - 1)
      BY <2>2, <3>1
    <3>3. f[m] = search_step(s, f[m - 1], path[m])
      BY ONLY <1>4, <2>3, <2>5
    <3>4. path[(m - 1) + 1] # ""
      BY <1>2, <3>1
    <3>5. SearchOK(s, path, search_step(s, f[m - 1], path[(m - 1) + 1]), (m - 1) + 1)
      <4>1. PICK k : k = m - 1
        OBVIOUS
      <4>2. k \in Nat
        BY <3>1, <4>1
      <4>3. SearchOK(s, path, f[k], k)
        BY <3>2, <4>1
      <4>4. path[k + 1] # ""
        BY <3>4, <4>1
      <4>5. SearchOK(s, path, search_step(s, f[k], path[k + 1]), k + 1)
        BY <4>2, <4>3, <4>4, SearchStep
      <4> QED
        BY <4>1, <4>5
    <3> QED
      BY <2>3, <3>1, <3>3, <3>5
  <2> QED
    BY <2>4, <2>5
<1> QED
  <2>1. n \in 0..n
    <3>1. n \in Nat
      BY <1>2
    <3> QED
      BY ONLY <3>1
  <2> QED
    BY <1>1, <1>3, <1>5, <2>1
-----------------------------------------------------------------------------
(* Path names.                                                             *)
LEMMA ParseIs ==
  ASSUME NEW S, NEW path \in Seq(S)
  PROVE  /\ path_parse(path) \in Seq(S)
         /\ \A k \in 1..Len(path_parse(path)) : path_parse(path)[k] # ""
         /\ (\A k \in 1..Len(path) : path[k] # "") => Len(path_parse(path)) = Len(path)
<1>1. PICK l : l = Len(path)
  OBVIOUS
<1>2. l \in Nat /\ \A i \in 1..l : path[i] \in S
  BY <1>1, ElementOfSeq, LenProperties
<1> DEFINE Ends(n) == n = l \/ path[n + 1] = ""
           E == {n \in 0..l : Ends(n)}
<1>3. E # {}
  <2>1. l \in 0..l
    BY <1>2
  <2> QED
    BY <2>1
<1>4. E \in SUBSET Nat
  <2>1. l \in Nat
    BY <1>2
  <2>2. 0..l \in SUBSET Nat
    BY ONLY <2>1
  <2> QED
    BY <2>2
<1>5. Min(E) \in E /\ \A y \in E : Min(E) <= y
  <2> HIDE DEF E
  <2> QED
    BY ONLY <1>3, <1>4, LeastNat
<1>6. \E n \in 0..l : Ends(n) /\ \A k \in 0..(n - 1) : ~Ends(k)
  <2>1. PICK n : n = Min(E)
    OBVIOUS
  <2>2. n \in 0..l /\ Ends(n)
    BY <1>5, <2>1
  <2>3. \A k \in 0..(n - 1) : ~Ends(k)
    <3>1. SUFFICES ASSUME NEW k \in 0..(n - 1), Ends(k) PROVE FALSE
      OBVIOUS
    <3>2. k \in 0..l /\ ~(n <= k)
      <4> HIDE DEF E, Ends
      <4> QED
        BY ONLY <1>2, <2>2, <3>1
    <3>3. k \in E
      BY <3>1, <3>2
    <3> QED
      BY <1>5, <2>1, <3>2, <3>3
  <2> QED
    BY <2>2, <2>3
<1>7. PICK n : n = CHOOSE m \in 0..l : Ends(m) /\ \A k \in 0..(m - 1) : ~Ends(k)
  OBVIOUS
<1>8. n \in 0..l /\ Ends(n) /\ \A k \in 0..(n - 1) : ~Ends(k)
  BY <1>6, <1>7
<1>9. path_parse(path) = SubSeq(path, 1, n)
  BY ONLY <1>1, <1>7, Zenon DEF path_parse
<1>10. n \in Nat /\ n \in Int /\ 1 \in Int /\ n <= l
  <2>1. l \in Nat /\ n \in 0..l
    BY <1>2, <1>8
  <2> QED
    BY ONLY <2>1
<1>11. \A i \in 1..n : path[i] \in S
  <2>1. \A i \in 1..n : i \in 1..l
    BY ONLY <1>2, <1>10
  <2> QED
    BY <1>2, <2>1
<1>12. PICK p : p = SubSeq(path, 1, n)
  OBVIOUS
<1>13. /\ p \in Seq(S) /\ Len(p) = (IF 1 <= n THEN n - 1 + 1 ELSE 0)
       /\ \A i \in 1..(n - 1 + 1) : p[i] = path[1 + i - 1]
  BY ONLY <1>10, <1>11, <1>12, SubSeqProperties
<1>14. Len(p) = n
  BY ONLY <1>10, <1>13
<1>15. \A i \in 1..n : p[i] = path[i]
  <2>1. TAKE i \in 1..n
  <2>2. i \in 1..(n - 1 + 1) /\ 1 + i - 1 = i
    BY ONLY <1>10, <2>1
  <2>3. p[i] = path[1 + i - 1]
    BY ONLY <1>13, <2>2
  <2> QED
    BY ONLY <2>2, <2>3
<1>16. \A i \in 1..n : p[i] # ""
  <2>1. TAKE i \in 1..n
  <2>2. i - 1 \in 0..(n - 1) /\ (i - 1) + 1 = i
    BY ONLY <1>10, <2>1
  <2>3. ~Ends(i - 1)
    BY <1>8, <2>2
  <2>4. path[(i - 1) + 1] # ""
    BY <2>3
  <2>5. path[i] # ""
    BY ONLY <2>2, <2>4
  <2> QED
    BY <1>15, <2>1, <2>5
<1>17. ASSUME \A k \in 1..l : path[k] # "" PROVE n = l
  <2>1. SUFFICES ASSUME n # l PROVE FALSE
    OBVIOUS
  <2>2. n + 1 \in 1..l
    BY ONLY <1>2, <1>10, <2>1
  <2>3. path[n + 1] = ""
    BY <1>8, <2>1
  <2> QED
    BY ONLY <1>17, <2>2, <2>3
<1>18. path_parse(path) = p
  BY <1>9, <1>12
<1>19. path_parse(path) \in Seq(S)
  BY ONLY <1>13, <1>18
<1>20. \A k \in 1..Len(path_parse(path)) : path_parse(path)[k] # ""
  BY ONLY <1>14, <1>16, <1>18
<1>21. (\A k \in 1..Len(path) : path[k] # "") => Len(path_parse(path)) = Len(path)
  BY ONLY <1>1, <1>14, <1>17, <1>18
<1> QED
  BY ONLY <1>19, <1>20, <1>21

(* What wash_path is after n names.                                        *)
Plain(S)  == {name \in S : name \notin {"", ".", ".."}}
Washed(names, f, n) == f = [m \in 0..n |-> IF m = 0 THEN <<>> ELSE wash_step(f[m - 1], names[m])]

LEMMA WashStep ==
  ASSUME NEW S, NEW washed \in Seq(Plain(S)), NEW name \in S, name # ""
  PROVE  wash_step(washed, name) \in Seq(Plain(S))
<1>1. CASE name = ".."
  <2>1. wash_step(washed, name) = IF washed = <<>> THEN washed ELSE Front(washed)
    BY <1>1, Zenon DEF wash_step
  <2>2. ASSUME washed # <<>> PROVE Front(washed) \in Seq(Plain(S))
    <3>1. Len(washed) \in Nat /\ \A i \in 1..Len(washed) : washed[i] \in Plain(S)
      BY ElementOfSeq, LenProperties
    <3>2. PICK n : n = Len(washed) - 1
      OBVIOUS
    <3>3. n \in Int /\ 1 \in Int /\ \A i \in 1..n : i \in 1..Len(washed)
      BY ONLY <3>1, <3>2
    <3>4. \A i \in 1..n : washed[i] \in Plain(S)
      BY <3>1, <3>3
    <3>5. SubSeq(washed, 1, n) \in Seq(Plain(S))
      BY ONLY <3>3, <3>4, SubSeqProperties
    <3> QED
      BY <3>2, <3>5 DEF Front
  <2> QED
    BY <2>1, <2>2
<1>2. CASE name = "."
  <2>1. wash_step(washed, name) = washed
    BY <1>2 DEF wash_step
  <2> QED
    BY <2>1
<1>3. CASE name \notin {".", ".."}
  <2>1. wash_step(washed, name) = Append(washed, name)
    BY <1>3 DEF wash_step
  <2>2. name \in Plain(S)
    BY <1>3 DEF Plain
  <2> QED
    BY ONLY <2>1, <2>2, washed \in Seq(Plain(S)), AppendProperties
<1> QED
  BY <1>1, <1>2, <1>3

LEMMA WashExists ==
  ASSUME NEW names, NEW n \in Nat
  PROVE  \E f : Washed(names, f, n)
<1> DEFINE Bad == {m \in Nat : ~\E f : Washed(names, f, m)}
<1>1. SUFFICES ASSUME Bad # {} PROVE FALSE
  OBVIOUS
<1>2. PICK m \in Bad : \A k \in Bad : m <= k
  <2>1. Bad \in SUBSET Nat
    OBVIOUS
  <2>2. Min(Bad) \in Bad /\ \A y \in Bad : Min(Bad) <= y
    BY ONLY <1>1, <2>1, LeastNat
  <2> QED
    BY ONLY <2>2
<1>3. m \in Nat /\ ~\E f : Washed(names, f, m)
  OBVIOUS
<1>4. m # 0
  <2>1. PICK f : f = [k \in 0..0 |-> <<>>]
    OBVIOUS
  <2>2. 0..0 = {0}
    OBVIOUS
  <2>3. f = [k \in 0..0 |-> IF k = 0 THEN <<>> ELSE wash_step(f[k - 1], names[k])]
    BY ONLY <2>1, <2>2
  <2>4. Washed(names, f, 0)
    BY <2>3 DEF Washed
  <2> QED
    BY <1>3, <2>4
<1>5. m - 1 \in Nat /\ ~(m <= m - 1)
  BY <1>3, <1>4
<1>6. PICK f : Washed(names, f, m - 1)
  BY <1>2, <1>5
<1>7. PICK g : g = [k \in 0..m |-> IF k = m THEN wash_step(f[m - 1], names[m]) ELSE f[k]]
  OBVIOUS
<1>8. f = [k \in 0..(m - 1) |-> IF k = 0 THEN <<>> ELSE wash_step(f[k - 1], names[k])]
  BY <1>6 DEF Washed
<1>9. \A k \in 0..m : g[k] = IF k = 0 THEN <<>> ELSE wash_step(g[k - 1], names[k])
  <2>1. TAKE k \in 0..m
  <2>2. CASE k = m
    <3>1. g[k - 1] = f[m - 1]
      BY ONLY <1>3, <1>4, <1>7, <2>2
    <3>2. g[k] = wash_step(f[m - 1], names[m])
      BY ONLY <1>3, <1>7, <2>2
    <3> QED
      BY ONLY <1>4, <2>2, <3>1, <3>2
  <2>3. CASE k # m
    <3>1. k \in 0..(m - 1) /\ g[k] = f[k]
      BY ONLY <1>3, <1>7, <2>1, <2>3
    <3>2. f[k] = IF k = 0 THEN <<>> ELSE wash_step(f[k - 1], names[k])
      BY ONLY <1>8, <3>1
    <3>3. k # 0 => g[k - 1] = f[k - 1]
      BY ONLY <1>3, <1>7, <2>1, <2>3
    <3> QED
      BY ONLY <3>1, <3>2, <3>3
  <2> QED
    BY <2>2, <2>3
<1>10. g = [k \in 0..m |-> IF k = 0 THEN <<>> ELSE wash_step(g[k - 1], names[k])]
  <2>1. PICK h : h = [k \in 0..m |-> IF k = 0 THEN <<>> ELSE wash_step(g[k - 1], names[k])]
    OBVIOUS
  <2>2. \A k \in 0..m : g[k] = h[k]
    BY ONLY <1>9, <2>1
  <2>3. g = [k \in 0..m |-> g[k]] /\ h = [k \in 0..m |-> h[k]]
    BY ONLY <1>7, <2>1
  <2>4. g = h
    BY ONLY <2>2, <2>3
  <2> QED
    BY ONLY <2>1, <2>4
<1> QED
  BY <1>3, <1>10 DEF Washed

(* wash_path leaves no empty name, no "." and no "..".                     *)
LEMMA WashIs ==
  ASSUME NEW S, NEW path \in Seq(S)
  PROVE  wash_path(path) \in Seq(Plain(S))
<1>1. PICK names : names = path_parse(path)
  OBVIOUS
<1>2. names \in Seq(S) /\ \A k \in 1..Len(names) : names[k] # ""
  BY <1>1, ParseIs
<1>3. PICK n : n = Len(names)
  OBVIOUS
<1>4. n \in Nat
  BY <1>2, <1>3, LenProperties
<1>5. \A k \in 1..n : names[k] \in S /\ names[k] # ""
  BY <1>2, <1>3, ElementOfSeq
<1>6. PICK f : Washed(names, f, n) /\ wash_path(path) = f[n]
  <2>1. \E f : f = [m \in 0..n |-> IF m = 0 THEN <<>> ELSE wash_step(f[m - 1], names[m])]
    <3>1. \E f : Washed(names, f, n)
      BY ONLY <1>4, WashExists
    <3> QED
      BY ONLY <3>1 DEF Washed
  <2>2. PICK g : g = CHOOSE f : f = [m \in 0..n |-> IF m = 0 THEN <<>> ELSE wash_step(f[m - 1], names[m])]
    OBVIOUS
  <2>3. g = [m \in 0..n |-> IF m = 0 THEN <<>> ELSE wash_step(g[m - 1], names[m])]
    BY ONLY <2>1, <2>2, Zenon
  <2>4. wash_path(path) = g[n]
    BY ONLY <1>1, <1>3, <2>2, Zenon DEF wash_path
  <2> QED
    BY <2>3, <2>4 DEF Washed
<1>7. f = [m \in 0..n |-> IF m = 0 THEN <<>> ELSE wash_step(f[m - 1], names[m])]
  BY <1>6 DEF Washed
<1> DEFINE Bad == {m \in 0..n : f[m] \notin Seq(Plain(S))}
<1>8. Bad = {}
  <2>1. SUFFICES ASSUME Bad # {} PROVE FALSE
    OBVIOUS
  <2>2. PICK m \in Bad : \A k \in Bad : m <= k
    <3>1. Bad \in SUBSET Nat
      <4>1. 0..n \in SUBSET Nat
        BY ONLY <1>4
      <4> QED
        BY <4>1
    <3>2. Min(Bad) \in Bad /\ \A y \in Bad : Min(Bad) <= y
      BY ONLY <2>1, <3>1, LeastNat
    <3> QED
      BY ONLY <3>2
  <2>3. m \in 0..n /\ f[m] \notin Seq(Plain(S))
    OBVIOUS
  <2>4. CASE m = 0
    <3>1. f[m] = <<>>
      BY ONLY <1>4, <1>7, <2>4
    <3> QED
      BY ONLY <2>3, <3>1, EmptySeq
  <2>5. CASE m # 0
    <3>1. m - 1 \in Nat /\ m - 1 \in 0..n /\ m \in 1..n /\ ~(m <= m - 1)
      BY ONLY <1>4, <2>3, <2>5
    <3>2. PICK w : w = f[m - 1]
      OBVIOUS
    <3>3. w \in Seq(Plain(S))
      BY <2>2, <3>1, <3>2
    <3>4. f[m] = wash_step(w, names[m])
      BY ONLY <1>7, <2>3, <2>5, <3>2
    <3>5. names[m] \in S /\ names[m] # ""
      BY <1>5, <3>1
    <3>6. wash_step(w, names[m]) \in Seq(Plain(S))
      BY ONLY <3>3, <3>5, WashStep
    <3> QED
      BY ONLY <2>3, <3>4, <3>6
  <2> QED
    BY <2>4, <2>5
<1> QED
  <2>1. n \in 0..n
    BY ONLY <1>4
  <2>2. f[n] \in Seq(Plain(S))
    BY <1>8, <2>1
  <2> QED
    BY ONLY <1>6, <2>2

(* A path of plain names, none of which is a dot.                          *)
Clean(path) ==
  /\ Len(path) \in Nat /\ (path # <<>> => Len(path) > 0)
  /\ \A k \in 1..Len(path) : path[k] \notin {"", ".", ".."}
  /\ path_depth_cnt(path) = Len(path)

LEMMA PlainIsClean ==
  ASSUME NEW S, NEW path \in Seq(Plain(S))
  PROVE  Clean(path)
<1>1. Len(path) \in Nat
  BY LenProperties
<1>2. path # <<>> => Len(path) \in Nat \ {0}
  BY ONLY path \in Seq(Plain(S)), EmptySeq
<1>3. path # <<>> => Len(path) > 0
  BY ONLY <1>2
<1>4. \A k \in 1..Len(path) : path[k] \in Plain(S)
  BY ElementOfSeq
<1>5. \A k \in 1..Len(path) : path[k] \notin {"", ".", ".."}
  BY <1>4 DEF Plain
<1>6. Len(path_parse(path)) = Len(path)
  <2>1. \A k \in 1..Len(path) : path[k] # ""
    BY <1>5
  <2> QED
    BY ONLY <2>1, path \in Seq(Plain(S)), ParseIs
<1> QED
  BY <1>1, <1>3, <1>5, <1>6 DEF Clean, path_depth_cnt

(* getcwd, where it does not stop the kernel.                              *)
LEMMA GetcwdIs ==
  ASSUME NEW s, NEW i, getcwd_ok(s, i)
  PROVE  \E S : sys_getcwd(s, i) \in Seq(S)
<1>1. PICK up : up = Up(s, i)
  OBVIOUS
<1>2. up[NI] = 0
  BY <1>1 DEF getcwd_ok
<1> DEFINE E == {n \in 0..NI : up[n] = 0}
<1>3. PICK depth : depth = Min(E)
  OBVIOUS
<1>4. depth \in Nat
  <2>1. NI \in Nat
    BY Bounds
  <2>2. E \in SUBSET Nat
    BY ONLY <2>1
  <2>3. NI \in E
    BY ONLY <1>2, <2>1
  <2>4. Min(E) \in E
    <3> HIDE DEF E
    <3> QED
      BY ONLY <2>2, <2>3, LeastNat
  <2> QED
    BY ONLY <1>3, <2>2, <2>4
<1>5. sys_getcwd(s, i) = [k \in 1..depth |-> get_child_dir_name(s, up[depth - k + 1], up[depth - k])]
  BY ONLY <1>1, <1>3, Zenon DEF sys_getcwd
<1>6. PICK p : p = [k \in 1..depth |-> get_child_dir_name(s, up[depth - k + 1], up[depth - k])]
  OBVIOUS
<1> DEFINE S == {p[k] : k \in 1..depth}
<1>7. p \in [1..depth -> S]
  BY <1>6
<1>8. p \in Seq(S)
  <2> HIDE DEF S
  <2> QED
    BY ONLY <1>4, <1>7, SeqDef
<1> QED
  BY ONLY <1>5, <1>6, <1>8

(* So the commands of the shell never ask for the entries "." and "..".    *)
LEMMA AbsPathIs ==
  ASSUME NEW arg \in Arg, ~CwdLost(arg)
  PROVE  Clean(AbsPath(arg))
<1>1. arg \in Seq(STRING) /\ arg # <<>>
  BY DirsAssumption
<1>2. CASE Head(arg) = "/"
  <2>1. Tail(arg) \in Seq(STRING)
    BY ONLY <1>1, HeadTailProperties
  <2>2. AbsPath(arg) = wash_path(Tail(arg))
    BY <1>2, Zenon DEF AbsPath, make_clear_abs_path
  <2>3. wash_path(Tail(arg)) \in Seq(Plain(STRING))
    BY ONLY <2>1, WashIs
  <2> QED
    BY ONLY <2>2, <2>3, PlainIsClean
<1>3. CASE Head(arg) # "/"
  <2>1. getcwd_ok(fs, cwd)
    BY <1>3 DEF CwdLost
  <2>2. PICK S : sys_getcwd(fs, cwd) \in Seq(S)
    BY <2>1, GetcwdIs
  <2>3. PICK T : T = S \cup STRING
    OBVIOUS
  <2>4. PICK g : g = sys_getcwd(fs, cwd)
    OBVIOUS
  <2>5. g \in Seq(T)
    <3>1. g \in Seq(S) /\ S \subseteq T
      BY <2>2, <2>3, <2>4
    <3> QED
      BY ONLY <3>1, SeqMonotonic
  <2>6. arg \in Seq(T)
    <3>1. STRING \subseteq T
      BY <2>3
    <3> QED
      BY ONLY <1>1, <3>1, SeqMonotonic
  <2>7. g \o arg \in Seq(T)
    BY ONLY <2>5, <2>6, ConcatProperties
  <2>8. AbsPath(arg) = wash_path(g \o arg)
    BY <1>3, <2>4, Zenon DEF AbsPath, make_clear_abs_path
  <2>9. wash_path(g \o arg) \in Seq(Plain(T))
    BY ONLY <2>7, WashIs
  <2> QED
    BY ONLY <2>8, <2>9, PlainIsClean
<1> QED
  BY <1>2, <1>3

(* Programs give paths whose names may be dots.                            *)
LEMMA GivenPathIs ==
  ASSUME NEW path \in CreatePath \cup OpenPath
  PROVE  /\ Len(path) \in Nat \ {0} /\ Named0(path) /\ path_depth_cnt(path) = Len(path)
<1>1. path \in Seq(STRING) /\ path # <<>> /\ \A k \in DOMAIN path : path[k] # ""
  BY DirsAssumption
<1>2. Len(path) \in Nat \ {0}
  BY ONLY <1>1, EmptySeq
<1>3. DOMAIN path = 1..Len(path)
  BY ONLY <1>1, LenProperties
<1>4. \A k \in 1..Len(path) : path[k] # ""
  BY <1>1, <1>3
<1>5. Len(path_parse(path)) = Len(path)
  BY ONLY <1>1, <1>4, ParseIs
<1> QED
  BY <1>2, <1>4, <1>5 DEF Named0, path_depth_cnt
-----------------------------------------------------------------------------
(* The caller's side of search_file: the parent it holds, and closes.      *)
LEMMA SoundFrom ==
  ASSUME NEW s, NEW r, Blocks(s), Tables(s), TreeInv(s), Stored(s),
         IsFs(r), MemOK(r), SameDisk(s, r)
  PROVE  Sound(r)
<1>1. /\ r.inode_table = s.inode_table /\ r.blk = s.blk /\ r.tab = s.tab
      /\ r.inode_bitmap = s.inode_bitmap /\ r.block_bitmap = s.block_bitmap /\ r.disk_bbits = s.disk_bbits
  BY DEF SameDisk
<1>2. Blocks(r) /\ Tables(r)
  BY <1>1, SameBlocks
<1>3. TreeInv(r)
  BY <1>1, SameTree
<1>4. Stored(r)
  BY <1>1 DEF Stored
<1> QED
  BY <1>2, <1>3, <1>4 DEF Sound

(* inode_open changes nothing on the disk.                                 *)
LEMMA OpenSound ==
  ASSUME NEW s, NEW i \in Ino, Sound(s)
  PROVE  LET r == inode_open(s, i)
         IN  /\ Sound(r) /\ SameDisk(s, r)
             /\ r.open = [s.open EXCEPT ![i] = @ + 1] /\ r.mem[i] = s.inode_table[i]
<1>1. IsFs(s) /\ MemOK(s) /\ Blocks(s) /\ Tables(s) /\ TreeInv(s) /\ Stored(s)
  BY DEF Sound
<1>2. PICK r : r = inode_open(s, i)
  OBVIOUS
<1>3. /\ IsFs(r) /\ MemOK(r) /\ SameDisk(s, r)
      /\ r.open = [s.open EXCEPT ![i] = @ + 1] /\ r.mem[i] = s.inode_table[i]
  BY <1>1, <1>2, OpenIs
<1>4. Sound(r)
  BY <1>1, <1>3, SoundFrom
<1> QED
  BY <1>2, <1>3, <1>4

(* Nor does inode_close.                                                   *)
LEMMA CloseSound ==
  ASSUME NEW s, NEW i \in Ino, Sound(s), s.open[i] > 0
  PROVE  LET r == inode_close(s, i)
         IN  Sound(r) /\ SameDisk(s, r) /\ r.open = [s.open EXCEPT ![i] = @ - 1]
<1>1. IsFs(s) /\ MemOK(s) /\ Blocks(s) /\ Tables(s) /\ TreeInv(s) /\ Stored(s)
  BY DEF Sound
<1>2. PICK r : r = inode_close(s, i)
  OBVIOUS
<1>3. /\ IsFs(r) /\ MemOK(r) /\ SameDisk(s, r) /\ r.open = [s.open EXCEPT ![i] = @ - 1]
  <2>1. \A j \in Ino : s.open[j] > 0 => s.mem[j] = s.inode_table[j]
    BY <1>1 DEF MemOK
  <2>2. s.mem[i] = s.inode_table[i]
    BY <2>1
  <2> QED
    BY <1>1, <1>2, <2>1, <2>2, CloseIs
<1>4. Sound(r)
  BY <1>1, <1>3, SoundFrom
<1> QED
  BY <1>2, <1>3, <1>4

LEMMA InvIs ==
  ASSUME NEW s
  PROVE  DirsInv(s) <=> Sound(s) /\ Opens(s)
BY DEF DirsInv, Sound, Opens

Held(s, r, h) ==
  /\ Sound(h) /\ SameDisk(s, h) /\ h.open \in [Ino -> Nat] /\ h.open[r.parent] > 0
  /\ h.open = IF r.heap THEN [s.open EXCEPT ![r.parent] = @ + 1] ELSE s.open

(* The parent directory that search_file leaves open.                      *)
LEMMA HoldIs ==
  ASSUME NEW s, DirsInv(s), NEW r, r.parent \in Ino, ~r.heap => r.parent = 0
  PROVE  Held(s, r, Hold(s, r))
<1>1. Sound(s) /\ Opens(s) /\ IsFs(s)
  BY InvIs DEF DirsInv
<1>2. PICK o : o = s.open
  OBVIOUS
<1>3. o \in [Ino -> Nat]
  BY <1>1, <1>2 DEF IsFs
<1>4. CASE r.heap
  <2>1. PICK p : p = r.parent
    OBVIOUS
  <2>2. PICK h : h = inode_open(s, p)
    OBVIOUS
  <2>3. Sound(h) /\ SameDisk(s, h) /\ h.open = [o EXCEPT ![p] = @ + 1]
    BY <1>1, <1>2, <2>1, <2>2, OpenSound
  <2>4. p \in Ino
    BY <2>1
  <2>5. h.open \in [Ino -> Nat] /\ h.open[p] > 0
    BY ONLY <1>3, <2>3, <2>4
  <2>6. Hold(s, r) = h
    BY <1>4, <2>1, <2>2 DEF Hold
  <2> QED
    BY <1>2, <1>4, <2>1, <2>3, <2>5, <2>6 DEF Held
<1>5. CASE ~r.heap
  <2>1. Hold(s, r) = s /\ r.parent = 0
    BY <1>5 DEF Hold
  <2>2. s.open[0] > 0
    BY <1>1 DEF Opens
  <2>3. SameDisk(s, s)
    BY DEF SameDisk
  <2>4. s.open[r.parent] > 0
    BY <2>1, <2>2
  <2> QED
    BY <1>1, <1>2, <1>3, <1>5, <2>1, <2>3, <2>4 DEF Held
<1> QED
  BY <1>4, <1>5

(* inode_close counts down, whatever the file system.                      *)
LEMMA ShutIs ==
  ASSUME NEW s, FsRec(s), NEW i
  PROVE  FsRec(inode_close(s, i)) /\ inode_close(s, i).open = [s.open EXCEPT ![i] = @ - 1]
<1>1. PICK o : o = [s.open EXCEPT ![i] = @ - 1]
  OBVIOUS
<1>2. PICK m : m = [s.mem EXCEPT ![i] = IF s.open[i] = 1 THEN NoInode ELSE @]
  OBVIOUS
<1>3. inode_close(s, i) = [s EXCEPT !.open = o, !.mem = m]
  BY <1>1, <1>2 DEF inode_close, FsRec
<1>4. PICK r : r = [s EXCEPT !.open = o, !.mem = m]
  OBVIOUS
<1>5. FsRec(r) /\ r.open = o
  BY ONLY <1>4, FsRec(s) DEF FsRec
<1> QED
  BY <1>1, <1>3, <1>4, <1>5

(* dir_close of it.                                                        *)
LEMMA DropIs ==
  ASSUME NEW t, NEW r, Sound(t), r.parent \in Ino, t.open[r.parent] > 0
  PROVE  LET u == dir_close(t, r)
         IN  /\ Sound(u) /\ SameDisk(t, u)
             /\ u.open = IF r.heap THEN [t.open EXCEPT ![r.parent] = @ - 1] ELSE t.open
<1>1. CASE r.heap
  <2>1. PICK p : p = r.parent
    OBVIOUS
  <2>2. p \in Ino /\ t.open[p] > 0
    BY <2>1
  <2>3. PICK u : u = inode_close(t, p)
    OBVIOUS
  <2>4. Sound(u) /\ SameDisk(t, u) /\ u.open = [t.open EXCEPT ![p] = @ - 1]
    BY <2>2, <2>3, CloseSound
  <2>5. dir_close(t, r) = u
    BY <1>1, <2>1, <2>3 DEF dir_close
  <2> QED
    BY <1>1, <2>1, <2>4, <2>5
<1>2. CASE ~r.heap
  <2>1. dir_close(t, r) = t
    BY <1>2 DEF dir_close
  <2>2. SameDisk(t, t)
    BY DEF SameDisk
  <2> QED
    BY <1>2, <2>1, <2>2
<1> QED
  BY <1>1, <1>2

(* Holding and dropping the parent leaves the list as it was.              *)
LEMMA HoldDrop ==
  ASSUME NEW o \in [Ino -> Nat], NEW p \in Ino, NEW i \in Ino \ {p}, NEW v
  PROVE  /\ [[o EXCEPT ![p] = @ + 1] EXCEPT ![p] = @ - 1] = o
         /\ [[[o EXCEPT ![p] = @ + 1] EXCEPT ![i] = v] EXCEPT ![p] = @ - 1] = [o EXCEPT ![i] = v]
<1>1. PICK a : a = [o EXCEPT ![p] = @ + 1]
  OBVIOUS
<1>2. a \in [Ino -> Nat] /\ a[p] = o[p] + 1 /\ o[p] \in Nat /\ \A j \in Ino \ {p} : a[j] = o[j]
  BY <1>1
<1>3. PICK b : b = [a EXCEPT ![p] = @ - 1]
  OBVIOUS
<1>4. b = o
  <2>1. b[p] = a[p] - 1 /\ b = [j \in Ino |-> b[j]] /\ \A j \in Ino \ {p} : b[j] = a[j]
    BY ONLY <1>2, <1>3, p \in Ino
  <2>2. b[p] = o[p]
    BY ONLY <1>2, <2>1
  <2>3. \A j \in Ino : b[j] = o[j]
    BY ONLY <1>2, <2>1, <2>2
  <2> QED
    BY ONLY <2>1, <2>3, o \in [Ino -> Nat]
<1>5. PICK c : c = [a EXCEPT ![i] = v]
  OBVIOUS
<1>6. PICK d : d = [c EXCEPT ![p] = @ - 1]
  OBVIOUS
<1>7. PICK x : x = [o EXCEPT ![i] = v]
  OBVIOUS
<1>8. d = x
  <2>1. c = [j \in Ino |-> c[j]] /\ c[p] = a[p] /\ c[i] = v /\ \A j \in Ino \ {i} : c[j] = a[j]
    BY ONLY <1>2, <1>5, p \in Ino, i \in Ino \ {p}
  <2>2. d = [j \in Ino |-> d[j]] /\ d[p] = c[p] - 1 /\ d[i] = v /\ \A j \in Ino \ {p} : d[j] = c[j]
    BY ONLY <2>1, <1>6, p \in Ino, i \in Ino \ {p}
  <2>3. d[p] = o[p]
    BY ONLY <1>2, <2>1, <2>2
  <2>4. x = [j \in Ino |-> x[j]] /\ x[i] = v /\ \A j \in Ino \ {i} : x[j] = o[j]
    BY ONLY <1>7, i \in Ino \ {p}, o \in [Ino -> Nat]
  <2>5. \A j \in Ino : d[j] = x[j]
    BY ONLY <1>2, <2>1, <2>2, <2>3, <2>4, i \in Ino \ {p}
  <2> QED
    BY ONLY <2>2, <2>4, <2>5
<1> QED
  BY ONLY <1>1, <1>3, <1>4, <1>5, <1>6, <1>7, <1>8
-----------------------------------------------------------------------------
(* What search_file has found.                                             *)
LEMMA NotDot ==
  ASSUME NEW s, Dots(s), NEW d \in Ino, IsDir(s, d), NEW name, \A q \in Place : At(s, d, q).filename # name
  PROVE  name \notin {".", ".."}
<1>1. At(s, d, <<0, 1>>) = Ent(".", d, "directory")
  BY DotIs
<1>2. At(s, d, <<0, 1>>).filename = "."
  BY ONLY <1>1, EntIs
<1>3. At(s, d, <<0, 2>>).filename = ".."
  BY DotIs
<1> QED
  BY ONLY <1>2, <1>3, DotPlaces, \A q \in Place : At(s, d, q).filename # name

(* The entry that names what was found is not one of the dots.             *)
LEMMA FoundLink ==
  ASSUME NEW s, Entries(s), Dots(s), NEW d \in Ino, NEW name, NEW i, NamedBy(s, d, name, i),
         name \notin {".", ".."} \/ ~IsDir(s, i)
  PROVE  \E p \in Linked(s, d) : At(s, d, p).i_no = i /\ i \in s.inode_bitmap \ {0}
<1>1. PICK q \in Filled(s, d) : At(s, d, q).filename = name /\ At(s, d, q).i_no = i
  BY DEF NamedBy
<1>2. q \in Place /\ At(s, d, q) # Free
  BY <1>1 DEF Filled
<1>3. q \in Linked(s, d)
  <2>1. SUFFICES ASSUME q \notin Linked(s, d) PROVE FALSE
    OBVIOUS
  <2>2. name \in {".", ".."}
    BY <1>1, <2>1 DEF Linked
  <2>3. ~IsDir(s, i)
    BY <2>2
  <2>4. IsDir(s, d) /\ q \in {<<0, 1>>, <<0, 2>>}
    BY <1>2, <2>1, EntryIs
  <2>5. CASE q = <<0, 1>>
    <3>1. At(s, d, q) = Ent(".", d, "directory")
      BY <2>4, <2>5, DotIs
    <3>2. At(s, d, q).i_no = d
      BY ONLY <3>1, EntIs
    <3> QED
      BY <1>1, <2>3, <2>4, <3>2
  <2>6. CASE q = <<0, 2>>
    <3>1. IsDir(s, At(s, d, q).i_no)
      BY <2>4, <2>6, DotIs
    <3> QED
      BY <1>1, <2>3, <3>1
  <2> QED
    BY <2>4, <2>5, <2>6
<1>4. At(s, d, q).i_no \in s.inode_bitmap \ {0}
  BY <1>2, <1>3, EntryIs
<1> QED
  BY <1>1, <1>3, <1>4
-----------------------------------------------------------------------------
(* The steps.                                                              *)
LEMMA InvParts ==
  ASSUME NEW s, DirsInv(s)
  PROVE  /\ Sound(s) /\ Opens(s) /\ IsFs(s) /\ MemOK(s) /\ Blocks(s) /\ Tables(s) /\ TreeInv(s)
         /\ Kinds(s) /\ Dots(s) /\ Entries(s) /\ Tree(s) /\ Sizes(s) /\ Reached(s)
         /\ Stored(s) /\ s.open \in [Ino -> Nat]
BY InvIs DEF DirsInv, TreeInv, Opens, IsFs

(* search_file in a state of the invariant.                                *)
LEMMA SearchParts ==
  ASSUME NEW s, DirsInv(s), NEW path, Named0(path), NEW r, r = search_file(s, path)
  PROVE  /\ r.depth \in 0..Len(path) /\ Len(path) \in Nat
         /\ r.parent \in Ino /\ IsDir(s, r.parent) /\ (~r.heap => r.parent = 0)
         /\ ~r.found => /\ \A q \in Place : At(s, r.parent, q).filename # path[r.depth]
                        /\ r.depth # 0
         /\ r.found => r.i_no \in Ino /\ (r.depth = 0 => IsDir(s, r.i_no))
         /\ r.found /\ r.depth > 0 => NamedBy(s, r.parent, path[r.depth], r.i_no)
         /\ r.found /\ r.file_type = "regular" => ~IsDir(s, r.i_no) /\ (r.depth = 1 => ~r.heap)
         /\ r.found /\ IsDir(s, r.i_no) => r.depth = Len(path)
<1>1. SearchOK(s, path, r, Len(path))
  <2>1. IsFs(s) /\ MemOK(s) /\ Tables(s) /\ TreeInv(s)
    BY InvParts
  <2> QED
    BY <2>1, SearchIs
<1>2. Len(path) \in Nat
  BY DEF Named0
<1>3. /\ r.depth \in 0..Len(path)
      /\ r.parent \in Ino /\ IsDir(s, r.parent) /\ (~r.heap => r.parent = 0)
      /\ (r.depth = 0 => InDir(s, r) /\ r.i_no = 0)
      /\ \/ InDir(s, r) /\ r.depth = Len(path)
         \/ AtFile(s, r) /\ (r.depth = 1 => ~r.heap)
         \/ Missing(s, path, r)
      /\ r.found /\ r.depth > 0 => NamedBy(s, r.parent, path[r.depth], r.i_no)
  BY <1>1 DEF SearchOK
<1>4. CASE InDir(s, r) /\ r.depth = Len(path)
  <2>1. r.file_type = "directory" /\ r.found /\ IsDir(s, r.i_no) /\ r.i_no \in Ino
    BY <1>4 DEF InDir
  <2> QED
    BY <1>2, <1>3, <1>4, <2>1
<1>5. CASE AtFile(s, r) /\ (r.depth = 1 => ~r.heap)
  <2>1. r.file_type = "regular" /\ r.found /\ ~IsDir(s, r.i_no) /\ r.i_no \in Ino
    BY <1>5 DEF AtFile
  <2>2. r.depth # 0
    BY <1>3, <2>1 DEF InDir
  <2> QED
    BY <1>2, <1>3, <1>5, <2>1, <2>2
<1>6. CASE Missing(s, path, r)
  <2>1. ~r.found /\ \A q \in Place : At(s, r.parent, q).filename # path[r.depth]
    BY <1>6 DEF Missing
  <2>2. r.depth # 0
    BY <1>3, <2>1 DEF InDir
  <2> QED
    BY <1>2, <1>3, <2>1, <2>2
<1> QED
  BY <1>3, <1>4, <1>5, <1>6

(* The lists of open inodes and open files after a call that leaves them   *)
(* as they were.                                                           *)
LEMMA OpensFrom ==
  ASSUME NEW s, DirsInv(s), NEW t, Sound(t), t.open = s.open, t.file_table = s.file_table,
         \A j \in s.file_table : j \in t.inode_bitmap /\ ~IsDir(t, j),
         \A j \in Ino : s.open[j] > 0 /\ IsDir(s, j) => IsDir(t, j)
  PROVE  DirsInv(t)
<1>1. /\ s.open[0] > 0 /\ \A j \in Ino : s.open[j] > 0 => j \in s.file_table \/ IsDir(s, j)
      /\ \A j \in s.file_table : s.open[j] = 1
  BY InvParts DEF Opens
<1>2. Stored(t)
  BY DEF Sound
<1>3. Opens(t)
  BY <1>1, <1>2 DEF Opens
<1> QED
  BY <1>3, InvIs

(* The free inode that a name is made for is not open.                     *)
LEMMA FreeClosed ==
  ASSUME NEW s, DirsInv(s), NEW r, NEW h, Held(s, r, h), r.parent \in Ino, IsDir(s, r.parent),
         NEW i \in Ino \ s.inode_bitmap
  PROVE  h.open[i] = 0 /\ i # r.parent /\ i # 0 /\ i \notin s.file_table /\ ~IsDir(s, i)
<1>1. 0 \in s.inode_bitmap /\ \A j \in Ino : IsDir(s, j) => j \in s.inode_bitmap
  BY InvParts DEF Kinds
<1>2. i # 0 /\ i # r.parent /\ ~IsDir(s, i)
  BY <1>1
<1>3. i \notin s.file_table /\ s.open[i] = 0
  <2>1. Opens(s)
    BY InvParts
  <2>2. i \notin s.file_table
    BY <2>1 DEF Opens
  <2>3. s.open[i] \in Nat /\ ~(s.open[i] > 0)
    BY <1>2, <2>1, <2>2, InvParts DEF Opens
  <2> QED
    BY ONLY <2>2, <2>3
<1>4. s.open \in [Ino -> Nat]
  BY InvParts
<1>5. h.open[i] = s.open[i]
  <2>1. h.open = IF r.heap THEN [s.open EXCEPT ![r.parent] = @ + 1] ELSE s.open
    BY DEF Held
  <2>2. PICK p : p = r.parent
    OBVIOUS
  <2>3. PICK o : o = s.open
    OBVIOUS
  <2>4. [o EXCEPT ![p] = @ + 1][i] = o[i]
    BY ONLY <1>2, <1>4, <2>2, <2>3, i \in Ino \ s.inode_bitmap
  <2> QED
    BY ONLY <2>1, <2>2, <2>3, <2>4
<1> QED
  BY <1>2, <1>3, <1>5

(* d, as the caller of search_file has it, has no entry of the name yet.   *)
RoomFor(s, h, d, name) ==
  /\ d \in Ino /\ IsDir(h, d) /\ IsDir(s, d)
  /\ name \notin {"", ".", ".."} /\ \A q \in Place : At(h, d, q).filename # name
  /\ \A c : IsDir(h, c) = IsDir(s, c) /\ Inode(h, c) = Inode(s, c)
  /\ h.inode_bitmap = s.inode_bitmap /\ h.file_table = s.file_table

(* sys_mkdir and sys_open with O_CREAT, up to the name.                    *)
LEMMA NewName ==
  ASSUME NEW s, DirsInv(s), NEW path, Named0(path), NEW r, r = search_file(s, path),
         ~r.found, r.depth = Len(path), NEW h, Held(s, r, h)
  PROVE  RoomFor(s, h, r.parent, Last(path))
<1>1. /\ r.parent \in Ino /\ IsDir(s, r.parent)
      /\ \A q \in Place : At(s, r.parent, q).filename # path[r.depth]
      /\ r.depth # 0 /\ r.depth \in 0..Len(path) /\ Len(path) \in Nat
  BY SearchParts
<1>2. Last(path) = path[r.depth]
  BY DEF Last
<1>3. path[r.depth] # ""
  <2>1. Len(path) \in 1..Len(path)
    BY <1>1
  <2> QED
    BY <2>1 DEF Named0
<1>4. Dots(s)
  BY InvParts
<1>5. path[r.depth] \notin {".", ".."}
  <2>1. PICK d : d = r.parent
    OBVIOUS
  <2>2. PICK name : name = path[r.depth]
    OBVIOUS
  <2>3. d \in Ino /\ IsDir(s, d) /\ \A q \in Place : At(s, d, q).filename # name
    BY <1>1, <2>1, <2>2
  <2>4. name \notin {".", ".."}
    BY ONLY <1>4, <2>3, NotDot
  <2> QED
    BY <2>2, <2>4
<1>6. h.inode_table = s.inode_table /\ h.blk = s.blk /\ h.tab = s.tab
      /\ h.inode_bitmap = s.inode_bitmap /\ h.file_table = s.file_table
  BY DEF Held, SameDisk
<1>7. /\ \A c : Inode(h, c) = Inode(s, c) /\ IsDir(h, c) = IsDir(s, c) /\ Kind(h, c) = Kind(s, c)
      /\ \A c, q : At(h, c, q) = At(s, c, q)
  BY <1>6, SameView
<1> QED
  BY <1>1, <1>2, <1>3, <1>5, <1>6, <1>7 DEF RoomFor

(* sys_mkdir, from search_file to dir_close.                               *)
LEMMA MkdirStep ==
  ASSUME NEW s, DirsInv(s), NEW path, Named0(path), NEW r, r = search_file(s, path),
         ~r.found, r.depth = Len(path), NEW h, h = Hold(s, r), FreeInodes(h) # {},
         Cardinality(FreeBlocks(h)) >= 1 + BlocksNeeded(h, r.parent),
         Spare(h, r.parent), Min(FreeInodes(h)) < WRAP,
         NEW t, t = dir_close(MakeDir(h, r.parent, Last(path)), r)
  PROVE  DirsInv(t)
<1>1. Held(s, r, h)
  <2>1. r.parent \in Ino /\ (~r.heap => r.parent = 0)
    BY SearchParts
  <2> QED
    BY <2>1, HoldIs
<1>2. PICK d : d = r.parent
  OBVIOUS
<1>3. PICK name : name = Last(path)
  OBVIOUS
<1>4. /\ d \in Ino /\ IsDir(h, d) /\ IsDir(s, d)
      /\ name \notin {"", ".", ".."} /\ \A q \in Place : At(h, d, q).filename # name
      /\ \A c : IsDir(h, c) = IsDir(s, c) /\ Inode(h, c) = Inode(s, c)
      /\ h.inode_bitmap = s.inode_bitmap /\ h.file_table = s.file_table
  <2>1. RoomFor(s, h, r.parent, Last(path))
    BY ONLY DirsInv(s), Named0(path), r = search_file(s, path), ~r.found, r.depth = Len(path), <1>1, NewName
  <2> QED
    BY ONLY <1>2, <1>3, <2>1 DEF RoomFor
<1>5. PICK i : i = Min(FreeInodes(h))
  OBVIOUS
<1>6. i \in Ino \ s.inode_bitmap
  BY <1>4, <1>5, FreeInode
<1>7. h.open[i] = 0 /\ i # d /\ i # 0 /\ i \notin s.file_table /\ ~IsDir(s, i)
  <2>1. r.parent \in Ino
    BY <1>2, <1>4
  <2>2. IsDir(s, r.parent)
    BY <1>2, <1>4
  <2>3. h.open[i] = 0 /\ i # r.parent /\ i # 0 /\ i \notin s.file_table /\ ~IsDir(s, i)
    BY ONLY DirsInv(s), <1>1, <1>6, <2>1, <2>2, FreeClosed
  <2> QED
    BY ONLY <1>2, <2>3
<1>8. PICK m : m = MakeDir(h, d, name)
  OBVIOUS
<1>9. t = dir_close(m, r)
  BY <1>2, <1>3, <1>8
<1>10. /\ Sound(h) /\ SameDisk(s, h) /\ h.open \in [Ino -> Nat] /\ h.open[d] > 0
       /\ h.open = IF r.heap THEN [s.open EXCEPT ![r.parent] = @ + 1] ELSE s.open
  BY <1>1, <1>2 DEF Held
<1>11. DirAdded(h, m, i)
  <2>1. Cardinality(FreeBlocks(h)) >= 1 + BlocksNeeded(h, d)
    BY <1>2
  <2>2. d \in Ino
    BY <1>4
  <2>3. IsDir(h, d)
    BY <1>4
  <2>4. name \notin {"", ".", ".."}
    BY <1>4
  <2>5. \A q \in Place : At(h, d, q).filename # name
    BY <1>4
  <2>6. h.open[i] = 0
    BY <1>7
  <2>7. Sound(h)
    BY <1>10
  <2>8. h.open[d] > 0
    BY <1>10
  <2>9. Spare(h, d)
    BY <1>2
  <2>10. i < WRAP
    BY <1>5
  <2> QED
    BY ONLY <1>5, <1>8, FreeInodes(h) # {}, <2>1, <2>2, <2>3, <2>4, <2>5, <2>6, <2>7, <2>8, <2>9, <2>10,
            MakeDirKeeps
<1>13. /\ Sound(m) /\ m.open = h.open /\ m.file_table = h.file_table
       /\ h.inode_bitmap \subseteq m.inode_bitmap
       /\ \A c \in Ino : IsDir(m, c) <=> c = i \/ IsDir(h, c)
  BY <1>11 DEF DirAdded
<1>14. /\ Sound(t) /\ SameDisk(m, t)
       /\ t.open = IF r.heap THEN [m.open EXCEPT ![d] = @ - 1] ELSE m.open
  <2>1. m.open[r.parent] > 0 /\ r.parent \in Ino
    BY <1>2, <1>4, <1>10, <1>13
  <2>2. Sound(m)
    BY <1>13
  <2> QED
    BY <1>2, <1>9, <2>1, <2>2, DropIs
<1>15. s.open \in [Ino -> Nat]
  BY InvParts
<1>16. t.open = s.open
  <2>1. i \in Ino \ {d} /\ d \in Ino
    BY <1>4, <1>6, <1>7
  <2>2. [[s.open EXCEPT ![d] = @ + 1] EXCEPT ![d] = @ - 1] = s.open
    BY ONLY <1>15, <2>1, HoldDrop
  <2>3. h.open = IF r.heap THEN [s.open EXCEPT ![d] = @ + 1] ELSE s.open
    BY <1>2, <1>10
  <2>4. m.open = h.open
    BY <1>13
  <2>5. t.open = IF r.heap THEN [m.open EXCEPT ![d] = @ - 1] ELSE m.open
    BY <1>14
  <2> QED
    BY ONLY <2>2, <2>3, <2>4, <2>5
<1>17. \A j \in s.file_table : j \in t.inode_bitmap /\ ~IsDir(t, j)
  <2>1. TAKE j \in s.file_table
  <2>2. j \in s.inode_bitmap /\ ~IsDir(s, j) /\ j \in Ino /\ j # i
    BY <1>7, InvParts DEF Opens, IsFs
  <2>3. t.inode_table = m.inode_table /\ t.blk = m.blk /\ t.tab = m.tab /\ t.inode_bitmap = m.inode_bitmap
    BY <1>14 DEF SameDisk
  <2>4. IsDir(t, j) = IsDir(m, j)
    BY <2>3, SameView
  <2>5. ~IsDir(m, j)
    BY <1>4, <1>13, <2>2
  <2> QED
    BY <1>4, <1>13, <2>2, <2>3, <2>4, <2>5
<1>18. t.file_table = s.file_table
  BY <1>4, <1>13, <1>14 DEF SameDisk
<1>19. \A j \in Ino : IsDir(s, j) => IsDir(t, j)
  <2>1. t.inode_table = m.inode_table /\ t.blk = m.blk /\ t.tab = m.tab
    BY <1>14 DEF SameDisk
  <2>2. \A j : IsDir(t, j) = IsDir(m, j)
    BY ONLY <2>1, SameView
  <2> QED
    BY <1>4, <1>13, <2>2
<1> QED
  BY <1>14, <1>16, <1>17, <1>18, <1>19, OpensFrom
-----------------------------------------------------------------------------

(* sys_open with O_CREAT, from search_file to dir_close.                   *)
LEMMA CreateStep ==
  ASSUME NEW s, DirsInv(s), NEW path, Named0(path), NEW r, r = search_file(s, path),
         ~r.found, r.depth = Len(path), NEW h, h = Hold(s, r), FreeInodes(h) # {},
         Cardinality(FreeBlocks(h)) >= BlocksNeeded(h, r.parent),
         Spare(h, r.parent), Min(FreeInodes(h)) < WRAP,
         NEW t, t = dir_close(file_create(h, r.parent, Last(path)), r)
  PROVE  DirsInv(t)
<1>1. Held(s, r, h)
  <2>1. r.parent \in Ino /\ (~r.heap => r.parent = 0)
    BY SearchParts
  <2> QED
    BY <2>1, HoldIs
<1>2. PICK d : d = r.parent
  OBVIOUS
<1>3. PICK name : name = Last(path)
  OBVIOUS
<1>4. /\ d \in Ino /\ IsDir(h, d) /\ IsDir(s, d)
      /\ name \notin {"", ".", ".."} /\ \A q \in Place : At(h, d, q).filename # name
      /\ \A c : IsDir(h, c) = IsDir(s, c) /\ Inode(h, c) = Inode(s, c)
      /\ h.inode_bitmap = s.inode_bitmap /\ h.file_table = s.file_table
  <2>1. RoomFor(s, h, r.parent, Last(path))
    BY ONLY DirsInv(s), Named0(path), r = search_file(s, path), ~r.found, r.depth = Len(path), <1>1, NewName
  <2> QED
    BY ONLY <1>2, <1>3, <2>1 DEF RoomFor
<1>5. PICK i : i = Min(FreeInodes(h))
  OBVIOUS
<1>6. i \in Ino \ s.inode_bitmap
  BY <1>4, <1>5, FreeInode
<1>7. h.open[i] = 0 /\ i # d /\ i # 0 /\ i \notin s.file_table /\ ~IsDir(s, i)
  <2>1. r.parent \in Ino
    BY <1>2, <1>4
  <2>2. IsDir(s, r.parent)
    BY <1>2, <1>4
  <2>3. h.open[i] = 0 /\ i # r.parent /\ i # 0 /\ i \notin s.file_table /\ ~IsDir(s, i)
    BY ONLY DirsInv(s), <1>1, <1>6, <2>1, <2>2, FreeClosed
  <2> QED
    BY ONLY <1>2, <2>3
<1>8. PICK m : m = file_create(h, d, name)
  OBVIOUS
<1>9. t = dir_close(m, r)
  BY <1>2, <1>3, <1>8
<1>10. /\ Sound(h) /\ SameDisk(s, h) /\ h.open \in [Ino -> Nat] /\ h.open[d] > 0
       /\ h.open = IF r.heap THEN [s.open EXCEPT ![r.parent] = @ + 1] ELSE s.open
  BY <1>1, <1>2 DEF Held
<1>11. FileMade(h, m, i)
  <2>1. Cardinality(FreeBlocks(h)) >= BlocksNeeded(h, d)
    BY <1>2
  <2>2. d \in Ino
    BY <1>4
  <2>3. IsDir(h, d)
    BY <1>4
  <2>4. name \notin {"", ".", ".."}
    BY <1>4
  <2>5. \A q \in Place : At(h, d, q).filename # name
    BY <1>4
  <2>6. h.open[i] = 0
    BY <1>7
  <2>7. Sound(h)
    BY <1>10
  <2>8. h.open[d] > 0
    BY <1>10
  <2>9. Spare(h, d)
    BY <1>2
  <2>10. i < WRAP
    BY <1>5
  <2> QED
    BY ONLY <1>5, <1>8, FreeInodes(h) # {}, <2>1, <2>2, <2>3, <2>4, <2>5, <2>6, <2>7, <2>8, <2>9, <2>10,
            CreateKeeps
<1>13. /\ Sound(m) /\ m.open = [h.open EXCEPT ![i] = 1] /\ m.file_table = h.file_table \cup {i}
       /\ i \in m.inode_bitmap /\ ~IsDir(m, i) /\ i \in Ino /\ i # 0
       /\ h.inode_bitmap \subseteq m.inode_bitmap /\ \A c \in Ino : IsDir(m, c) = IsDir(h, c)
  BY <1>11 DEF FileMade
<1>14. /\ Sound(t) /\ SameDisk(m, t)
       /\ t.open = IF r.heap THEN [m.open EXCEPT ![d] = @ - 1] ELSE m.open
  <2>1. m.open[r.parent] > 0 /\ r.parent \in Ino
    <3>1. h.open \in [Ino -> Nat] /\ i # d /\ d \in Ino /\ h.open[d] > 0
      BY <1>4, <1>7, <1>10
    <3>2. m.open = [h.open EXCEPT ![i] = 1]
      BY <1>13
    <3>3. m.open[d] > 0
      BY ONLY <3>1, <3>2
    <3> QED
      BY <1>2, <3>1, <3>3
  <2>2. Sound(m)
    BY <1>13
  <2> QED
    BY <1>2, <1>9, <2>1, <2>2, DropIs
<1>15. s.open \in [Ino -> Nat]
  BY InvParts
<1>16. t.open = [s.open EXCEPT ![i] = 1]
  <2>1. i \in Ino \ {d} /\ d \in Ino
    BY <1>4, <1>6, <1>7
  <2>2. [[[s.open EXCEPT ![d] = @ + 1] EXCEPT ![i] = 1] EXCEPT ![d] = @ - 1] = [s.open EXCEPT ![i] = 1]
    BY ONLY <1>15, <2>1, HoldDrop
  <2>3. h.open = IF r.heap THEN [s.open EXCEPT ![d] = @ + 1] ELSE s.open
    BY <1>2, <1>10
  <2>4. m.open = [h.open EXCEPT ![i] = 1]
    BY <1>13
  <2>5. t.open = IF r.heap THEN [m.open EXCEPT ![d] = @ - 1] ELSE m.open
    BY <1>14
  <2> QED
    BY ONLY <2>2, <2>3, <2>4, <2>5
<1>17. t.file_table = s.file_table \cup {i} /\ t.inode_bitmap = m.inode_bitmap
  BY <1>4, <1>13, <1>14 DEF SameDisk
<1>18. \A j \in t.file_table : j \in t.inode_bitmap /\ ~IsDir(t, j)
  <2>1. TAKE j \in t.file_table
  <2>2. t.inode_table = m.inode_table /\ t.blk = m.blk /\ t.tab = m.tab
    BY <1>14 DEF SameDisk
  <2>3. IsDir(t, j) = IsDir(m, j)
    BY <2>2, SameView
  <2>4. CASE j = i
    BY <1>13, <1>17, <2>3, <2>4
  <2>5. CASE j \in s.file_table
    <3>1. j \in s.inode_bitmap /\ ~IsDir(s, j) /\ j \in Ino
      BY <2>5, InvParts DEF Opens, IsFs
    <3> QED
      BY <1>4, <1>13, <1>17, <2>3, <3>1
  <2> QED
    BY <1>17, <2>4, <2>5
<1>19. Opens(t)
  <2>1. /\ s.open[0] > 0 /\ \A j \in Ino : s.open[j] > 0 => j \in s.file_table \/ IsDir(s, j)
        /\ s.file_table \subseteq Ino /\ \A j \in s.file_table : s.open[j] = 1
    BY InvParts DEF Opens, IsFs
  <2>2. Stored(t)
    BY <1>14 DEF Sound
  <2>3. t.open[i] = 1 /\ \A j \in Ino \ {i} : t.open[j] = s.open[j]
    BY ONLY <1>6, <1>15, <1>16
  <2>4. t.open[0] > 0
    <3>1. 0 \in Ino
      BY Bounds
    <3> QED
      BY ONLY <1>7, <2>1, <2>3, <3>1
  <2>5. \A j \in Ino : IsDir(s, j) => IsDir(t, j)
    <3>1. t.inode_table = m.inode_table /\ t.blk = m.blk /\ t.tab = m.tab
      BY <1>14 DEF SameDisk
    <3>2. \A j : IsDir(t, j) = IsDir(m, j)
      BY ONLY <3>1, SameView
    <3> QED
      BY <1>4, <1>13, <3>2
  <2>6. \A j \in Ino : t.open[j] > 0 => j \in t.file_table \/ IsDir(t, j)
    BY ONLY <1>17, <2>1, <2>3, <2>5
  <2>7. \A j \in t.file_table : t.open[j] = 1
    BY ONLY <1>17, <2>1, <2>3
  <2> QED
    BY <1>18, <2>2, <2>4, <2>6, <2>7 DEF Opens
<1> QED
  BY <1>14, <1>19, InvIs

(* sys_open without O_CREAT, which leaves the parent open; sys_close.      *)
LEMMA OpenStep ==
  ASSUME NEW s, DirsInv(s), NEW path, Named0(path), NEW r, r = search_file(s, path),
         r.found, r.file_type = "regular", r.i_no \notin s.file_table,
         NEW t, t = [inode_open(Hold(s, r), r.i_no) EXCEPT !.file_table = @ \cup {r.i_no}]
  PROVE  DirsInv(t)
<1>1. /\ r.parent \in Ino /\ IsDir(s, r.parent) /\ r.i_no \in Ino /\ ~IsDir(s, r.i_no)
      /\ NamedBy(s, r.parent, path[r.depth], r.i_no) /\ (~r.heap => r.parent = 0)
  <2>1. /\ r.parent \in Ino /\ IsDir(s, r.parent) /\ r.i_no \in Ino /\ ~IsDir(s, r.i_no)
        /\ r.depth \in 0..Len(path) /\ Len(path) \in Nat /\ (r.depth = 0 => IsDir(s, r.i_no))
        /\ (r.depth > 0 => NamedBy(s, r.parent, path[r.depth], r.i_no)) /\ (~r.heap => r.parent = 0)
    BY SearchParts
  <2>2. r.depth > 0
    <3>1. r.depth \in 0..Len(path) /\ Len(path) \in Nat /\ r.depth # 0
      BY <2>1
    <3> QED
      BY ONLY <3>1
  <2> QED
    BY <2>1, <2>2
<1>2. PICK i : i = r.i_no
  OBVIOUS
<1>3. i \in s.inode_bitmap \ {0} /\ i \in Ino /\ ~IsDir(s, i) /\ i \notin s.file_table
  <2>1. Entries(s) /\ Dots(s)
    BY InvParts
  <2>2. \E p \in Linked(s, r.parent) : At(s, r.parent, p).i_no = i /\ i \in s.inode_bitmap \ {0}
    BY <1>1, <1>2, <2>1, FoundLink
  <2> QED
    BY <1>1, <1>2, <2>2
<1>4. PICK h : h = Hold(s, r)
  OBVIOUS
<1>5. PICK m : m = inode_open(h, i)
  OBVIOUS
<1>6. /\ Held(s, r, h) /\ Sound(m) /\ SameDisk(s, m) /\ m.open = [h.open EXCEPT ![i] = @ + 1]
  <2>1. Held(s, r, h)
    BY <1>1, <1>4, HoldIs
  <2>2. Sound(h) /\ SameDisk(s, h)
    BY <2>1 DEF Held
  <2>3. Sound(m) /\ SameDisk(h, m) /\ m.open = [h.open EXCEPT ![i] = @ + 1]
    BY <1>3, <1>5, <2>2, OpenSound
  <2>4. SameDisk(s, m)
    BY ONLY <2>2, <2>3 DEF SameDisk
  <2> QED
    BY <2>1, <2>3, <2>4
<1>7. PICK F : F = m.file_table \cup {i}
  OBVIOUS
<1>8. t = [m EXCEPT !.file_table = F]
  <2>1. FsRec(m)
    BY <1>6 DEF Sound, IsFs
  <2>2. t = [m EXCEPT !.file_table = @ \cup {i}]
    BY <1>2, <1>4, <1>5
  <2> QED
    BY ONLY <1>7, <2>1, <2>2 DEF FsRec
<1>9. /\ FsRec(t) /\ t.inode_bitmap = m.inode_bitmap /\ t.block_bitmap = m.block_bitmap
      /\ t.disk_ibits = m.disk_ibits /\ t.disk_bbits = m.disk_bbits
      /\ t.inode_table = m.inode_table /\ t.blk = m.blk /\ t.tab = m.tab
      /\ t.open = m.open /\ t.mem = m.mem /\ t.file_table = F
  <2>1. FsRec(m)
    BY <1>6 DEF Sound, IsFs
  <2> QED
    BY ONLY <1>8, <2>1 DEF FsRec
<1>10. IsFs(t) /\ MemOK(t)
  <2>1. IsFs(m) /\ MemOK(m)
    BY <1>6 DEF Sound
  <2>2. /\ m.inode_bitmap \subseteq Ino /\ m.block_bitmap \subseteq Block /\ m.file_table \subseteq Ino
        /\ m.open \in [Ino -> Nat] /\ m.mem = [j \in Ino |-> m.mem[j]]
    BY <2>1 DEF IsFs
  <2>3. t.file_table \subseteq Ino
    BY <1>3, <1>7, <1>9, <2>2
  <2>4. IsFs(t)
    BY ONLY <1>9, <2>1, <2>2, <2>3, SameFs
  <2> QED
    BY <1>9, <2>1, <2>4 DEF MemOK
<1>11. Sound(t)
  <2>1. Blocks(m) /\ Tables(m) /\ TreeInv(m) /\ Stored(m)
    BY <1>6 DEF Sound
  <2>2. Blocks(t) /\ Tables(t)
    BY <1>9, <2>1, SameBlocks
  <2>3. TreeInv(t)
    BY <1>9, <2>1, SameTree
  <2>4. Stored(t)
    BY <1>9, <2>1 DEF Stored
  <2> QED
    BY <1>10, <2>2, <2>3, <2>4 DEF Sound
<1>12. /\ s.open \in [Ino -> Nat] /\ s.open[0] > 0 /\ s.file_table \subseteq Ino /\ 0 \in Ino
       /\ \A j \in Ino : s.open[j] > 0 => j \in s.file_table \/ IsDir(s, j)
       /\ \A j \in s.file_table : s.open[j] = 1 /\ ~IsDir(s, j) /\ j \in s.inode_bitmap
  BY InvParts, Bounds DEF Opens, IsFs
<1>13. /\ t.open[i] = 1 /\ \A j \in Ino : j # i => t.open[j] = IF r.heap /\ j = r.parent THEN s.open[j] + 1
                                                            ELSE s.open[j]
  <2>1. PICK d : d = r.parent
    OBVIOUS
  <2>2. d \in Ino /\ i # d
    BY <1>1, <1>3, <2>1
  <2>3. /\ h.open = IF r.heap THEN [s.open EXCEPT ![d] = @ + 1] ELSE s.open
        /\ h.open \in [Ino -> Nat]
    BY <1>6, <2>1 DEF Held
  <2>4. \A j \in Ino : h.open[j] = IF r.heap /\ j = d THEN s.open[j] + 1 ELSE s.open[j]
    BY ONLY <1>12, <2>2, <2>3
  <2>5. s.open[i] = 0
    <3>1. s.open[i] \in Nat /\ ~(s.open[i] > 0)
      BY <1>3, <1>12
    <3> QED
      BY ONLY <3>1
  <2>6. t.open = [h.open EXCEPT ![i] = @ + 1]
    BY <1>6, <1>9
  <2>7. t.open[i] = h.open[i] + 1 /\ \A j \in Ino : j # i => t.open[j] = h.open[j]
    BY ONLY <1>3, <2>3, <2>6
  <2>8. t.open[i] = 1
    BY ONLY <1>3, <2>2, <2>4, <2>5, <2>7
  <2> QED
    BY ONLY <2>1, <2>4, <2>7, <2>8
<1>14. t.file_table = s.file_table \cup {i} /\ t.inode_bitmap = s.inode_bitmap
  BY <1>6, <1>7, <1>9 DEF SameDisk
<1>15. \A j \in t.file_table : j \in t.inode_bitmap /\ ~IsDir(t, j)
  <2>1. TAKE j \in t.file_table
  <2>2. t.inode_table = s.inode_table /\ t.blk = s.blk /\ t.tab = s.tab
    BY <1>6, <1>9 DEF SameDisk
  <2>3. IsDir(t, j) = IsDir(s, j)
    BY ONLY <2>2, SameView
  <2> QED
    BY <1>3, <1>12, <1>14, <2>3
<1>16. Opens(t)
  <2>1. Stored(t)
    BY <1>11 DEF Sound
  <2>2. \A j : IsDir(t, j) = IsDir(s, j)
    <3>1. t.inode_table = s.inode_table /\ t.blk = s.blk /\ t.tab = s.tab
      BY <1>6, <1>9 DEF SameDisk
    <3> QED
      BY ONLY <3>1, SameView
  <2>3. t.open[0] > 0
    BY ONLY <1>3, <1>12, <1>13
  <2>4. \A j \in Ino : t.open[j] > 0 => j \in t.file_table \/ IsDir(t, j)
    <3>1. TAKE j \in Ino
    <3>2. CASE j = i
      BY <1>14, <3>2
    <3>3. CASE j # i /\ j = r.parent
      BY <1>1, <2>2, <3>3
    <3>4. CASE j # i /\ j # r.parent
      <4>1. t.open[j] = s.open[j]
        BY <1>13, <3>4
      <4> QED
        BY <1>12, <1>14, <2>2, <4>1
    <3> QED
      BY <3>2, <3>3, <3>4
  <2>5. \A j \in t.file_table : t.open[j] = 1
    <3>1. TAKE j \in t.file_table
    <3>2. CASE j = i
      BY <1>13, <3>2
    <3>3. CASE j # i
      <4>1. j \in s.file_table /\ j \in Ino
        BY <1>12, <1>14, <3>3
      <4>2. j # r.parent
        BY <1>1, <1>12, <4>1
      <4> QED
        BY <1>12, <1>13, <3>3, <4>1, <4>2
    <3> QED
      BY <3>2, <3>3
  <2> QED
    BY <1>15, <2>1, <2>3, <2>4, <2>5 DEF Opens
<1> QED
  BY <1>11, <1>16, InvIs

(* Closing a file.                                                         *)
LEMMA CloseStep ==
  ASSUME NEW s, DirsInv(s), NEW i \in s.file_table,
         NEW t, t = [inode_close(s, i) EXCEPT !.file_table = @ \ {i}]
  PROVE  DirsInv(t)
<1>1. i \in Ino /\ ~IsDir(s, i) /\ s.open[i] = 1 /\ i # 0
  <2>1. i \in Ino
    BY InvParts DEF IsFs
  <2>2. ~IsDir(s, i) /\ IsDir(s, 0)
    BY InvParts DEF Opens, Kinds
  <2> QED
    BY <2>1, <2>2, InvParts DEF Opens
<1>2. PICK m : m = inode_close(s, i)
  OBVIOUS
<1>3. Sound(m) /\ SameDisk(s, m) /\ m.open = [s.open EXCEPT ![i] = @ - 1]
  <2>1. Sound(s)
    BY InvParts
  <2>2. s.open[i] > 0
    BY <1>1
  <2> QED
    BY <1>1, <1>2, <2>1, <2>2, CloseSound
<1>4. PICK F : F = m.file_table \ {i}
  OBVIOUS
<1>5. FsRec(m) /\ t = [m EXCEPT !.file_table = F]
  <2>1. FsRec(m)
    BY <1>3 DEF Sound, IsFs
  <2>2. t = [m EXCEPT !.file_table = @ \ {i}]
    BY <1>2
  <2> QED
    BY ONLY <1>4, <2>1, <2>2 DEF FsRec
<1>6. /\ FsRec(t) /\ t.inode_bitmap = m.inode_bitmap /\ t.block_bitmap = m.block_bitmap
      /\ t.disk_ibits = m.disk_ibits /\ t.disk_bbits = m.disk_bbits
      /\ t.inode_table = m.inode_table /\ t.blk = m.blk /\ t.tab = m.tab
      /\ t.open = m.open /\ t.mem = m.mem /\ t.file_table = F
  BY ONLY <1>5 DEF FsRec
<1>7. IsFs(t) /\ MemOK(t)
  <2>1. IsFs(m) /\ MemOK(m)
    BY <1>3 DEF Sound
  <2>2. /\ m.inode_bitmap \subseteq Ino /\ m.block_bitmap \subseteq Block /\ m.file_table \subseteq Ino
        /\ m.open \in [Ino -> Nat] /\ m.mem = [j \in Ino |-> m.mem[j]]
    BY <2>1 DEF IsFs
  <2>3. t.file_table \subseteq Ino
    BY <1>4, <1>6, <2>2
  <2>4. IsFs(t)
    BY ONLY <1>6, <2>1, <2>2, <2>3, SameFs
  <2> QED
    BY <1>6, <2>1, <2>4 DEF MemOK
<1>8. Sound(t)
  <2>1. Blocks(m) /\ Tables(m) /\ TreeInv(m) /\ Stored(m)
    BY <1>3 DEF Sound
  <2>2. Blocks(t) /\ Tables(t)
    BY <1>6, <2>1, SameBlocks
  <2>3. TreeInv(t)
    BY <1>6, <2>1, SameTree
  <2>4. Stored(t)
    BY <1>6, <2>1 DEF Stored
  <2> QED
    BY <1>7, <2>2, <2>3, <2>4 DEF Sound
<1>9. /\ s.open \in [Ino -> Nat] /\ s.open[0] > 0 /\ s.file_table \subseteq Ino /\ 0 \in Ino
      /\ \A j \in Ino : s.open[j] > 0 => j \in s.file_table \/ IsDir(s, j)
      /\ \A j \in s.file_table : s.open[j] = 1
  BY InvParts, Bounds DEF Opens, IsFs
<1>10. t.open[i] = 0 /\ \A j \in Ino \ {i} : t.open[j] = s.open[j]
  <2>1. t.open = [s.open EXCEPT ![i] = @ - 1]
    BY <1>3, <1>6
  <2> QED
    BY ONLY <1>1, <1>9, <2>1
<1>11. t.file_table = s.file_table \ {i} /\ t.inode_bitmap = s.inode_bitmap
  BY <1>3, <1>4, <1>6 DEF SameDisk
<1>12. \A j \in t.file_table : j \in t.inode_bitmap /\ ~IsDir(t, j)
  <2>1. TAKE j \in t.file_table
  <2>2. t.inode_table = s.inode_table /\ t.blk = s.blk /\ t.tab = s.tab
    BY <1>3, <1>6 DEF SameDisk
  <2>3. IsDir(t, j) = IsDir(s, j)
    BY ONLY <2>2, SameView
  <2> QED
    BY <1>11, <2>3, InvParts DEF Opens
<1>13. Opens(t)
  <2>1. Stored(t)
    BY <1>8 DEF Sound
  <2>2. \A j : IsDir(t, j) = IsDir(s, j)
    <3>1. t.inode_table = s.inode_table /\ t.blk = s.blk /\ t.tab = s.tab
      BY <1>3, <1>6 DEF SameDisk
    <3> QED
      BY ONLY <3>1, SameView
  <2>3. t.open[0] > 0
    BY ONLY <1>1, <1>9, <1>10
  <2>4. \A j \in Ino : t.open[j] > 0 => j \in t.file_table \/ IsDir(t, j)
    BY ONLY <1>9, <1>10, <1>11, <2>2
  <2>5. \A j \in t.file_table : t.open[j] = 1
    BY ONLY <1>9, <1>10, <1>11
  <2> QED
    BY <1>12, <2>1, <2>3, <2>4, <2>5 DEF Opens
<1> QED
  BY <1>8, <1>13, InvIs
-----------------------------------------------------------------------------

(* What sys_rmdir and sys_unlink take away is named by an entry.           *)
LEMMA Removable ==
  ASSUME NEW s, DirsInv(s), NEW path, Clean(path), NEW r, r = search_file(s, path), r.found, r.depth > 0
  PROVE  /\ r.parent \in Ino /\ IsDir(s, r.parent) /\ r.i_no \in Ino
         /\ \E p \in Linked(s, r.parent) : At(s, r.parent, p).i_no = r.i_no /\ r.i_no \in s.inode_bitmap \ {0}
<1>1. Named0(path) /\ \A k \in 1..Len(path) : path[k] \notin {"", ".", ".."}
  BY DEF Clean, Named0
<1>2. /\ r.depth \in 0..Len(path) /\ Len(path) \in Nat
      /\ r.parent \in Ino /\ IsDir(s, r.parent) /\ r.i_no \in Ino
      /\ NamedBy(s, r.parent, path[r.depth], r.i_no)
  BY <1>1, SearchParts
<1>3. r.depth \in 1..Len(path)
  <2>1. r.depth \in 0..Len(path) /\ Len(path) \in Nat
    BY <1>2
  <2> QED
    BY ONLY <2>1, r.depth > 0
<1>4. path[r.depth] \notin {".", ".."}
  BY <1>1, <1>3
<1>5. Entries(s) /\ Dots(s)
  BY InvParts
<1>6. PICK d : d = r.parent
  OBVIOUS
<1>7. PICK name : name = path[r.depth]
  OBVIOUS
<1>8. PICK i : i = r.i_no
  OBVIOUS
<1>9. d \in Ino /\ NamedBy(s, d, name, i) /\ name \notin {".", ".."}
  BY <1>2, <1>4, <1>6, <1>7, <1>8
<1>10. \E p \in Linked(s, d) : At(s, d, p).i_no = i /\ i \in s.inode_bitmap \ {0}
  BY ONLY <1>5, <1>9, FoundLink
<1> QED
  BY <1>2, <1>6, <1>8, <1>10

(* A directory with two entries has no other than the dots.                *)
LEMMA TwoEntries ==
  ASSUME NEW s, Sizes(s), Dots(s), NEW i \in Ino, IsDir(s, i), Inode(s, i).i_size = 2
  PROVE  Linked(s, i) = {}
<1>1. PICK a : a = <<0, 1>>
  OBVIOUS
<1>2. PICK b : b = <<0, 2>>
  OBVIOUS
<1>3. a \in Place /\ b \in Place /\ a # b
  BY <1>1, <1>2, DotPlaces
<1>4. a \in Filled(s, i) /\ b \in Filled(s, i)
  BY <1>1, <1>2, <1>3, DotIs DEF Filled
<1>5. IsFiniteSet(Filled(s, i)) /\ Cardinality(Filled(s, i)) = 2
  <2>1. IsFiniteSet(Filled(s, i))
    BY PlaceFinite, FS_Subset DEF Filled
  <2> QED
    BY <2>1 DEF Sizes
<1>6. Filled(s, i) = {a, b}
  <2>1. PICK F : F = Filled(s, i)
    OBVIOUS
  <2>2. IsFiniteSet(F) /\ Cardinality(F) = 2 /\ a \in F /\ b \in F
    BY <1>4, <1>5, <2>1
  <2>3. PICK G : G = F \ {a}
    OBVIOUS
  <2>4. IsFiniteSet(G) /\ Cardinality(G) = 1 /\ b \in G
    <3>1. Cardinality(F \ {a}) = Cardinality(F) - 1 /\ IsFiniteSet(F \ {a})
      BY ONLY <2>2, FS_RemoveElement
    <3>2. Cardinality(G) = 1
      BY ONLY <2>2, <2>3, <3>1
    <3> QED
      BY ONLY <1>3, <2>2, <2>3, <3>1, <3>2
  <2>5. \E x : G = {x}
    BY ONLY <2>4, FS_Singleton
  <2>6. G = {b}
    BY ONLY <2>4, <2>5
  <2> QED
    BY ONLY <2>1, <2>2, <2>3, <2>6
<1>7. At(s, i, a).filename = "."
  <2>1. At(s, i, a) = Ent(".", i, "directory")
    BY <1>1, DotIs
  <2> QED
    BY ONLY <2>1, EntIs
<1>8. At(s, i, b).filename = ".."
  BY <1>2, DotIs
<1> QED
  BY ONLY <1>6, <1>7, <1>8 DEF Linked

(* What taking the name of i from d leaves of the list of open inodes.     *)
Removed(s, t, i) ==
  /\ IsFs(t) /\ Blocks(t) /\ Tables(t) /\ TreeInv(t) /\ Stored(t)
  /\ t.open = s.open /\ t.file_table = s.file_table /\ t.inode_bitmap = s.inode_bitmap \ {i}
  /\ \A j \in Ino \ {i} : t.open[j] > 0 => t.mem[j] = t.inode_table[j]
  /\ \A c \in Ino : IsDir(t, c) <=> c # i /\ IsDir(s, c)

(* dir_remove of an inode that has no entries but the dots.                *)
LEMMA RemovedIs ==
  ASSUME NEW s, NEW d \in Ino, NEW i, \E p \in Linked(s, d) : At(s, d, p).i_no = i,
         Sound(s), IsDir(s, d), s.open[d] > 0, Linked(s, i) = {}
  PROVE  Removed(s, dir_remove(s, d, i), i)
<1>1. PICK p \in Linked(s, d) : i = At(s, d, p).i_no
  OBVIOUS
<1>2. PICK r : r = dir_remove(s, d, i)
  OBVIOUS
<1>3. /\ IsFs(r) /\ Blocks(r) /\ Tables(r) /\ TreeInv(r) /\ Stored(r)
      /\ r.open = s.open /\ r.file_table = s.file_table /\ r.inode_bitmap = s.inode_bitmap \ {i}
      /\ \A j \in Ino \ {i} : r.open[j] > 0 => r.mem[j] = r.inode_table[j]
      /\ \A c \in Ino : IsDir(r, c) <=> c # i /\ IsDir(s, c)
  BY ONLY d \in Ino, Sound(s), IsDir(s, d), s.open[d] > 0, Linked(s, i) = {}, <1>1, <1>2, RemoveKeeps
<1> QED
  BY <1>2, <1>3 DEF Removed

(* sys_unlink, from search_file to dir_close.                              *)
LEMMA UnlinkStep ==
  ASSUME NEW s, DirsInv(s), NEW path, Clean(path), NEW r, r = search_file(s, path),
         r.found, r.file_type = "regular", r.i_no \notin s.file_table, NEW h, h = Hold(s, r),
         NEW t, t = dir_close(dir_remove(h, r.parent, r.i_no), r)
  PROVE  DirsInv(t)
<1>1. /\ r.parent \in Ino /\ (~r.heap => r.parent = 0) /\ r.i_no \in Ino /\ ~IsDir(s, r.i_no)
      /\ r.depth \in 0..Len(path) /\ Len(path) \in Nat /\ (r.depth = 0 => IsDir(s, r.i_no))
  <2>1. Named0(path)
    BY DEF Clean, Named0
  <2> QED
    BY <2>1, SearchParts
<1>2. r.depth > 0
  <2>1. r.depth \in 0..Len(path) /\ Len(path) \in Nat /\ r.depth # 0
    BY <1>1
  <2> QED
    BY ONLY <2>1
<1>3. Held(s, r, h)
  BY <1>1, HoldIs
<1>4. PICK d : d = r.parent
  OBVIOUS
<1>5. PICK i : i = r.i_no
  OBVIOUS
<1>6. /\ d \in Ino /\ IsDir(s, d) /\ i \in Ino /\ ~IsDir(s, i)
      /\ \E p \in Linked(s, d) : At(s, d, p).i_no = i /\ i \in s.inode_bitmap \ {0}
  <2>1. /\ r.parent \in Ino /\ IsDir(s, r.parent) /\ r.i_no \in Ino
        /\ \E p \in Linked(s, r.parent) : At(s, r.parent, p).i_no = r.i_no /\ r.i_no \in s.inode_bitmap \ {0}
    BY <1>2, Removable
  <2> QED
    BY ONLY <1>1, <1>4, <1>5, <2>1
<1>7. i # 0 /\ i # d
  BY <1>6
<1>8. /\ Sound(h) /\ SameDisk(s, h) /\ h.open \in [Ino -> Nat] /\ h.open[d] > 0
      /\ h.open = IF r.heap THEN [s.open EXCEPT ![d] = @ + 1] ELSE s.open
  BY <1>3, <1>4 DEF Held
<1>9. s.open \in [Ino -> Nat] /\ s.open[i] = 0
  <2>1. Opens(s)
    BY InvParts
  <2>2. i \notin s.file_table
    BY <1>5
  <2> QED
    <3>1. s.open \in [Ino -> Nat] /\ ~(s.open[i] > 0)
      BY <1>6, <2>1, <2>2, InvParts DEF Opens
    <3> QED
      BY ONLY <1>6, <3>1
<1>10. h.open[i] = 0
  <2>1. [s.open EXCEPT ![d] = @ + 1][i] = 0
    BY ONLY <1>6, <1>7, <1>9
  <2> QED
    BY ONLY <1>8, <1>9, <2>1
<1>11. /\ IsDir(h, d) /\ ~IsDir(h, i) /\ Linked(h, i) = {}
       /\ \E p \in Linked(h, d) : At(h, d, p).i_no = i
  <2>1. h.inode_table = s.inode_table /\ h.blk = s.blk /\ h.tab = s.tab
    BY <1>8 DEF SameDisk
  <2>2. /\ \A c : Inode(h, c) = Inode(s, c) /\ IsDir(h, c) = IsDir(s, c) /\ Kind(h, c) = Kind(s, c)
        /\ \A c, p : At(h, c, p) = At(s, c, p)
        /\ \A c : Filled(h, c) = Filled(s, c) /\ Linked(h, c) = Linked(s, c)
    BY ONLY <2>1, SameView
  <2>3. Inode(s, i) = NoInode
    BY <1>6, InvParts DEF Kinds
  <2>4. \A p \in Place : At(s, i, p) = Free
    BY <1>6, <2>3, NoInodeAddr
  <2>5. Linked(s, i) = {}
    BY <2>4 DEF Linked, Filled
  <2> QED
    BY <1>6, <2>2, <2>5
<1>12. PICK m : m = dir_remove(h, d, i)
  OBVIOUS
<1>13. Removed(h, m, i)
  BY <1>6, <1>8, <1>11, <1>12, RemovedIs
<1>14. Sound(m) /\ m.open = h.open /\ m.file_table = s.file_table /\ m.inode_bitmap = s.inode_bitmap \ {i}
  <2>1. m.open = h.open /\ IsFs(m)
    BY <1>13 DEF Removed
  <2>2. ~(m.open[i] > 0)
    <3>1. m.open[i] = 0
      BY <1>10, <2>1
    <3> QED
      BY ONLY <3>1
  <2>3. MemOK(m)
    BY <1>13, <2>2 DEF Removed, MemOK
  <2>4. Sound(m)
    BY <1>13, <2>3 DEF Removed, Sound
  <2> QED
    BY <1>8, <1>13, <2>4 DEF Removed, SameDisk
<1>15. /\ Sound(t) /\ SameDisk(m, t)
       /\ t.open = IF r.heap THEN [m.open EXCEPT ![d] = @ - 1] ELSE m.open
  <2>1. t = dir_close(m, r)
    BY <1>4, <1>5, <1>12
  <2>2. r.parent \in Ino /\ m.open[r.parent] > 0
    BY <1>4, <1>6, <1>8, <1>14
  <2>3. Sound(m)
    BY <1>14
  <2> QED
    BY <1>4, <2>1, <2>2, <2>3, DropIs
<1>16. t.open = s.open
  <2>1. i \in Ino \ {d} /\ d \in Ino
    BY <1>6, <1>7
  <2>2. [[s.open EXCEPT ![d] = @ + 1] EXCEPT ![d] = @ - 1] = s.open
    BY ONLY <1>9, <2>1, HoldDrop
  <2>3. h.open = IF r.heap THEN [s.open EXCEPT ![d] = @ + 1] ELSE s.open
    BY <1>8
  <2>4. m.open = h.open
    BY <1>14
  <2>5. t.open = IF r.heap THEN [m.open EXCEPT ![d] = @ - 1] ELSE m.open
    BY <1>15
  <2> QED
    BY ONLY <2>2, <2>3, <2>4, <2>5
<1>17. t.file_table = s.file_table /\ t.inode_bitmap = s.inode_bitmap \ {i}
  BY <1>14, <1>15 DEF SameDisk
<1>18. \A j \in s.file_table : j \in t.inode_bitmap /\ ~IsDir(t, j)
  <2>1. TAKE j \in s.file_table
  <2>2. j \in s.inode_bitmap /\ ~IsDir(s, j) /\ j \in Ino /\ j # i
    BY <1>5, InvParts DEF Opens, IsFs
  <2>3. t.inode_table = m.inode_table /\ t.blk = m.blk /\ t.tab = m.tab
    BY <1>15 DEF SameDisk
  <2>4. IsDir(t, j) = IsDir(m, j)
    BY ONLY <2>3, SameView
  <2>5. IsDir(m, j) => IsDir(h, j)
    BY <1>13, <2>2 DEF Removed
  <2>6. h.inode_table = s.inode_table /\ h.blk = s.blk /\ h.tab = s.tab
    BY <1>8 DEF SameDisk
  <2>7. IsDir(h, j) = IsDir(s, j)
    BY ONLY <2>6, SameView
  <2> QED
    BY <1>17, <2>2, <2>4, <2>5, <2>7
<1>19. \A j \in Ino : IsDir(s, j) => IsDir(t, j)
  <2>1. TAKE j \in Ino
  <2>2. t.inode_table = m.inode_table /\ t.blk = m.blk /\ t.tab = m.tab
    BY <1>15 DEF SameDisk
  <2>3. IsDir(t, j) = IsDir(m, j)
    BY ONLY <2>2, SameView
  <2>4. IsDir(m, j) <=> j # i /\ IsDir(h, j)
    BY <1>13 DEF Removed
  <2>5. h.inode_table = s.inode_table /\ h.blk = s.blk /\ h.tab = s.tab
    BY <1>8 DEF SameDisk
  <2>6. IsDir(h, j) = IsDir(s, j)
    BY ONLY <2>5, SameView
  <2> QED
    BY <1>6, <2>3, <2>4, <2>6
<1> QED
  BY <1>15, <1>16, <1>17, <1>18, <1>19, OpensFrom

(* sys_rmdir of an empty directory, from search_file to dir_close.         *)
LEMMA RmdirStep ==
  ASSUME NEW s, DirsInv(s), NEW path, Clean(path), path # <<>>, NEW r, r = search_file(s, path),
         r.found, NEW h, h = inode_open(Hold(s, r), r.i_no), h.mem[r.i_no].i_size = 2,
         NEW t, t = dir_close(inode_close(dir_remove(h, r.parent, r.i_no), r.i_no), r), ~(t.open[r.i_no] > 0)
  PROVE  DirsInv(t)
<1>1. /\ r.parent \in Ino /\ (~r.heap => r.parent = 0) /\ r.i_no \in Ino
      /\ (IsDir(s, r.i_no) => r.depth = Len(path)) /\ Len(path) \in Nat
  <2>1. Named0(path)
    BY DEF Clean, Named0
  <2> QED
    BY <2>1, SearchParts
<1>2. PICK g : g = Hold(s, r)
  OBVIOUS
<1>3. Held(s, r, g)
  BY <1>1, <1>2, HoldIs
<1>4. PICK d : d = r.parent
  OBVIOUS
<1>5. PICK i : i = r.i_no
  OBVIOUS
<1>6. d \in Ino /\ i \in Ino
  BY <1>1, <1>4, <1>5
<1>7. /\ Sound(g) /\ SameDisk(s, g) /\ g.open \in [Ino -> Nat] /\ g.open[d] > 0
      /\ g.open = IF r.heap THEN [s.open EXCEPT ![d] = @ + 1] ELSE s.open
  BY <1>3, <1>4 DEF Held
<1>8. Sound(h) /\ SameDisk(g, h) /\ h.open = [g.open EXCEPT ![i] = @ + 1] /\ h.mem[i] = g.inode_table[i]
  <2>1. h = inode_open(g, i) /\ Sound(g)
    BY <1>2, <1>5, <1>7
  <2> QED
    BY <1>6, <2>1, OpenSound
<1>9. SameDisk(s, h)
  BY <1>7, <1>8 DEF SameDisk
<1>10. /\ \A c : Inode(h, c) = Inode(s, c) /\ IsDir(h, c) = IsDir(s, c) /\ Kind(h, c) = Kind(s, c)
       /\ \A c, p : At(h, c, p) = At(s, c, p)
       /\ \A c : Filled(h, c) = Filled(s, c) /\ Linked(h, c) = Linked(s, c)
  <2>1. h.inode_table = s.inode_table /\ h.blk = s.blk /\ h.tab = s.tab
    BY <1>9 DEF SameDisk
  <2> QED
    BY ONLY <2>1, SameView
<1>11. Inode(s, i).i_size = 2
  <2>1. h.mem[i] = s.inode_table[i]
    BY <1>7, <1>8 DEF SameDisk
  <2> QED
    BY <1>5, <2>1 DEF Inode
<1>12. IsDir(s, i)
  <2>1. SUFFICES ASSUME ~IsDir(s, i) PROVE FALSE
    OBVIOUS
  <2>2. Inode(s, i) = NoInode
    BY <1>6, <2>1, InvParts DEF Kinds
  <2> QED
    BY <1>11, <2>2 DEF NoInode
<1>13. r.depth > 0
  <2>1. Len(path) > 0
    BY DEF Clean
  <2> QED
    BY <1>1, <1>5, <1>12, <2>1
<1>14. IsDir(s, d) /\ \E p \in Linked(s, d) : At(s, d, p).i_no = i /\ i \in s.inode_bitmap \ {0}
  <2>1. /\ r.parent \in Ino /\ IsDir(s, r.parent) /\ r.i_no \in Ino
        /\ \E p \in Linked(s, r.parent) : At(s, r.parent, p).i_no = r.i_no /\ r.i_no \in s.inode_bitmap \ {0}
    BY <1>13, Removable
  <2> QED
    BY ONLY <1>4, <1>5, <2>1
<1>15. Linked(s, i) = {}
  BY <1>6, <1>11, <1>12, InvParts, TwoEntries
<1>16. i # 0 /\ i # d
  BY <1>14, <1>15
<1>17. s.open \in [Ino -> Nat] /\ i \notin s.file_table
  BY <1>12, InvParts DEF Opens
<1>18. h.open[i] > 0 /\ h.open[d] > 0 /\ h.open \in [Ino -> Nat]
  BY ONLY <1>6, <1>7, <1>8, <1>16
<1>19. PICK m : m = dir_remove(h, d, i)
  OBVIOUS
<1>20. Removed(h, m, i)
  <2>1. Sound(h)
    BY <1>8
  <2>2. IsDir(h, d)
    BY <1>10, <1>14
  <2>3. h.open[d] > 0
    BY <1>18
  <2>4. Linked(h, i) = {}
    BY <1>10, <1>15
  <2>5. \E p \in Linked(h, d) : At(h, d, p).i_no = i
    BY <1>10, <1>14
  <2>6. d \in Ino
    BY <1>6
  <2> QED
    BY ONLY <1>19, <2>1, <2>2, <2>3, <2>4, <2>5, <2>6, RemovedIs
<1>21. /\ IsFs(m) /\ Blocks(m) /\ Tables(m) /\ TreeInv(m) /\ Stored(m)
       /\ m.open = h.open /\ m.file_table = h.file_table /\ m.inode_bitmap = h.inode_bitmap \ {i}
       /\ \A j \in Ino \ {i} : m.open[j] > 0 => m.mem[j] = m.inode_table[j]
       /\ \A c \in Ino : IsDir(m, c) <=> c # i /\ IsDir(h, c)
  BY <1>20 DEF Removed
<1>22. PICK u : u = inode_close(m, i)
  OBVIOUS
<1>23. IsFs(u) /\ MemOK(u) /\ SameDisk(m, u) /\ u.open = [m.open EXCEPT ![i] = @ - 1]
  <2>1. i \in Ino
    BY <1>6
  <2>2. IsFs(m)
    BY <1>21
  <2>3. \A j \in Ino \ {i} : m.open[j] > 0 => m.mem[j] = m.inode_table[j]
    BY <1>21
  <2>4. m.open[i] = 1
    <3>1. FsRec(u) /\ u.open = [m.open EXCEPT ![i] = @ - 1]
      BY <1>22, <2>2, ShutIs DEF IsFs
    <3>2. t = IF r.heap THEN inode_close(u, d) ELSE u
      BY <1>4, <1>5, <1>19, <1>22 DEF dir_close
    <3>3. t.open = IF r.heap THEN [u.open EXCEPT ![d] = @ - 1] ELSE u.open
      <4>1. FsRec(u)
        BY <3>1
      <4>2. inode_close(u, d).open = [u.open EXCEPT ![d] = @ - 1]
        BY ONLY <4>1, ShutIs
      <4> QED
        BY ONLY <3>2, <4>2
    <3>4. m.open \in [Ino -> Nat] /\ m.open[i] > 0
      BY <1>18, <1>21
    <3>5. u.open[i] = m.open[i] - 1 /\ u.open = [j \in Ino |-> u.open[j]]
      BY ONLY <1>6, <3>1, <3>4
    <3>6. t.open[i] = u.open[i]
      BY ONLY <1>6, <1>16, <3>3, <3>5
    <3>7. ~(t.open[i] > 0)
      BY <1>5
    <3>8. m.open[i] \in Nat
      BY ONLY <1>6, <3>4
    <3> QED
      BY ONLY <3>4, <3>5, <3>6, <3>7, <3>8
  <2>5. m.open[i] > 0
    BY ONLY <2>4
  <2> QED
    BY ONLY <1>22, <2>1, <2>2, <2>3, <2>4, <2>5, CloseIs
<1>24. Sound(u)
  BY <1>21, <1>23, SoundFrom
<1>25. u.open = g.open
  <2>1. u.open = [[g.open EXCEPT ![i] = @ + 1] EXCEPT ![i] = @ - 1]
    BY <1>8, <1>21, <1>23
  <2>2. i \in Ino /\ d \in Ino \ {i} /\ g.open \in [Ino -> Nat]
    BY <1>6, <1>7, <1>16
  <2>3. [[g.open EXCEPT ![i] = @ + 1] EXCEPT ![i] = @ - 1] = g.open
    BY ONLY <2>2, HoldDrop
  <2> QED
    BY ONLY <2>1, <2>3
<1>26. /\ Sound(t) /\ SameDisk(u, t)
       /\ t.open = IF r.heap THEN [u.open EXCEPT ![d] = @ - 1] ELSE u.open
  <2>1. t = dir_close(u, r)
    BY <1>4, <1>5, <1>19, <1>22
  <2>2. r.parent \in Ino /\ u.open[r.parent] > 0
    BY <1>4, <1>6, <1>7, <1>25
  <2> QED
    BY <1>4, <1>24, <2>1, <2>2, DropIs
<1>27. t.open = s.open
  <2>1. i \in Ino \ {d} /\ d \in Ino
    BY <1>6, <1>16
  <2>2. [[s.open EXCEPT ![d] = @ + 1] EXCEPT ![d] = @ - 1] = s.open
    BY ONLY <1>17, <2>1, HoldDrop
  <2>3. g.open = IF r.heap THEN [s.open EXCEPT ![d] = @ + 1] ELSE s.open
    BY <1>7
  <2>4. t.open = IF r.heap THEN [u.open EXCEPT ![d] = @ - 1] ELSE u.open
    BY <1>26
  <2> QED
    BY ONLY <1>25, <2>2, <2>3, <2>4
<1>28. t.file_table = s.file_table /\ t.inode_bitmap = s.inode_bitmap \ {i}
  BY <1>9, <1>21, <1>23, <1>26 DEF SameDisk
<1>29. \A j \in s.file_table : j \in t.inode_bitmap /\ ~IsDir(t, j)
  <2>1. TAKE j \in s.file_table
  <2>2. j \in s.inode_bitmap /\ ~IsDir(s, j) /\ j \in Ino /\ j # i
    BY <1>17, InvParts DEF Opens, IsFs
  <2>3. t.inode_table = m.inode_table /\ t.blk = m.blk /\ t.tab = m.tab
    BY <1>23, <1>26 DEF SameDisk
  <2>4. IsDir(t, j) = IsDir(m, j)
    BY ONLY <2>3, SameView
  <2>5. IsDir(m, j) => IsDir(h, j)
    BY <1>21, <2>2
  <2> QED
    BY <1>10, <1>28, <2>2, <2>4, <2>5
<1>30. \A j \in Ino : s.open[j] > 0 /\ IsDir(s, j) => IsDir(t, j)
  <2>1. t.inode_table = m.inode_table /\ t.blk = m.blk /\ t.tab = m.tab
    BY <1>23, <1>26 DEF SameDisk
  <2>2. \A j : IsDir(t, j) = IsDir(m, j)
    BY ONLY <2>1, SameView
  <2>3. ~(s.open[i] > 0)
    BY <1>5, <1>27
  <2>4. \A j \in Ino : IsDir(m, j) <=> j # i /\ IsDir(s, j)
    BY <1>10, <1>21
  <2> QED
    BY ONLY <2>2, <2>3, <2>4
<1> QED
  BY <1>26, <1>27, <1>28, <1>29, <1>30, OpensFrom
-----------------------------------------------------------------------------
(* A partition without anything, and the one that DirsInit is about.       *)
Blank == [inode_bitmap |-> {}, block_bitmap |-> {}, disk_ibits |-> {}, disk_bbits |-> {},
          inode_table |-> [i \in Ino |-> NoInode], blk |-> [b \in Block |-> EmptySector],
          tab |-> [b \in Block |-> EmptyTable], open |-> [i \in Ino |-> 0], file_table |-> {},
          mem |-> [i \in Ino |-> NoInode]]

(* A partition without a root, to which the root is added as any directory *)
(* is.                                                                     *)
LEMMA BlankIs ==
  ASSUME NEW s, s = Blank
  PROVE  /\ IsFs(s) /\ Blocks(s) /\ Tables(s) /\ \A i \in Ino : Inode(s, i) = NoInode
         /\ s.inode_table = [i \in Ino |-> NoInode] /\ s.blk = [b \in Block |-> EmptySector]
         /\ s.tab = [b \in Block |-> EmptyTable] /\ s.block_bitmap = {}
<1>1. /\ FsRec(s) /\ s.inode_bitmap = {} /\ s.block_bitmap = {}
      /\ s.inode_table = [i \in Ino |-> NoInode] /\ s.blk = [b \in Block |-> EmptySector]
      /\ s.tab = [b \in Block |-> EmptyTable] /\ s.open = [i \in Ino |-> 0] /\ s.file_table = {}
      /\ s.mem = [i \in Ino |-> NoInode]
  BY DEF Blank, FsRec
<1>2. InodeOK(NoInode)
  <2>1. NoSectors \in [0..DIRECT -> Address]
    BY Bounds DEF NoSectors
  <2> QED
    BY <2>1 DEF NoInode, InodeOK
<1>3. BlkOK(s.blk) /\ TabOK(s.tab)
  <2>1. EmptyTable \in [0..(INDIRECT - 1) -> Address]
    BY Bounds DEF EmptyTable
  <2>2. EmptySector = [j \in 1..PER_SEC |-> EmptySector[j]]
    BY DEF EmptySector
  <2>3. TabOK(s.tab)
    BY <1>1, <2>1 DEF TabOK
  <2> QED
    BY <1>1, <2>2, <2>3 DEF BlkOK
<1>4. /\ s.inode_table = [j \in Ino |-> s.inode_table[j]] /\ s.mem = [j \in Ino |-> s.mem[j]]
      /\ s.open \in [Ino -> Nat] /\ \A j \in Ino : InodeOK(s.inode_table[j])
  BY <1>1, <1>2
<1>5. IsFs(s)
  <2>1. s.inode_bitmap \subseteq Ino /\ s.block_bitmap \subseteq Block /\ s.file_table \subseteq Ino
    BY <1>1
  <2> QED
    BY ONLY <1>1, <1>3, <1>4, <2>1, FsFrom
<1>6. \A i \in Ino : Inode(s, i) = NoInode
  BY <1>1 DEF Inode
<1>7. \A i \in Ino : \A k \in 0..Table : Addr(s, i, k) = 0
  BY <1>6, NoInodeAddr
<1>8. Blocks(s)
  <2>1. \A b \in Block : b # 0
    BY Bounds
  <2> QED
    BY <1>1, <1>7, <2>1 DEF Blocks
<1>9. Tables(s)
  <2>1. Table \in 0..Table
    BY Bounds
  <2> QED
    BY <1>7, <2>1 DEF Tables
<1> QED
  BY <1>1, <1>5, <1>6, <1>8, <1>9

(* The invariant of the partition that partition_format makes.             *)
LEMMA InitHolds ==
  ASSUME DirsInit
  PROVE  DirsInv(fs)
<1>1. PICK s : s = fs
  OBVIOUS
<1>2. PICK D : D = DirInode(1)
  OBVIOUS
<1>3. PICK E : E = DotSector(0, 0)
  OBVIOUS
<1>4. s = [inode_bitmap |-> {0}, block_bitmap |-> {1}, disk_ibits |-> {0}, disk_bbits |-> {1},
           inode_table |-> [i \in Ino |-> IF i = 0 THEN D ELSE NoInode],
           blk |-> [b \in Block |-> IF b = 1 THEN E ELSE EmptySector],
           tab |-> [b \in Block |-> EmptyTable],
           open |-> [i \in Ino |-> IF i = 0 THEN 1 ELSE 0], file_table |-> {},
           mem |-> [i \in Ino |-> IF i = 0 THEN D ELSE NoInode]]
  BY <1>1, <1>2, <1>3 DEF DirsInit
<1>5. /\ FsRec(s) /\ s.inode_bitmap = {0} /\ s.block_bitmap = {1} /\ s.disk_bbits = {1}
      /\ s.inode_table = [i \in Ino |-> IF i = 0 THEN D ELSE NoInode]
      /\ s.blk = [b \in Block |-> IF b = 1 THEN E ELSE EmptySector]
      /\ s.tab = [b \in Block |-> EmptyTable]
      /\ s.open = [i \in Ino |-> IF i = 0 THEN 1 ELSE 0] /\ s.file_table = {}
      /\ s.mem = [i \in Ino |-> IF i = 0 THEN D ELSE NoInode]
  BY ONLY <1>4 DEF FsRec
<1>6. 0 \in Ino /\ 1 \in Block
  <2>1. NB \in Nat
    BY Bounds
  <2>2. 1 \in 1..(NB + 1)
    BY ONLY <2>1
  <2> QED
    BY <2>2, Bounds DEF Block
<1>7. PICK z : z = Blank
  OBVIOUS
<1>8. /\ IsFs(z) /\ Blocks(z) /\ Tables(z) /\ \A i \in Ino : Inode(z, i) = NoInode
      /\ z.inode_table = [i \in Ino |-> NoInode] /\ z.blk = [b \in Block |-> EmptySector]
      /\ z.tab = [b \in Block |-> EmptyTable] /\ z.block_bitmap = {}
  BY <1>7, BlankIs
<1>9. /\ Blocks(s) /\ Tables(s) /\ IsDir(s, 0) /\ Inode(s, 0).i_size = 2
      /\ \A c \in Ino \ {0} : /\ Inode(s, c) = Inode(z, c) /\ IsDir(s, c) = IsDir(z, c)
                              /\ \A k \in 0..Table : Addr(s, c, k) = Addr(z, c, k)
                              /\ \A q \in Place : At(s, c, q) = At(z, c, q)
      /\ \A q \in Place : At(s, 0, q) = IF q = <<0, 1>> THEN Ent(".", 0, "directory")
                                        ELSE IF q = <<0, 2>> THEN Ent("..", 0, "directory") ELSE Free
  <2>1. 1 \in FreeBlocks(z)
    BY <1>6, <1>8 DEF FreeBlocks
  <2>2. s.inode_table = [z.inode_table EXCEPT ![0] = DirInode(1)]
    <3>1. s.inode_table = [z.inode_table EXCEPT ![0] = D]
      BY ONLY <1>5, <1>6, <1>8
    <3> QED
      BY <1>2, <3>1
  <2>3. s.blk = [z.blk EXCEPT ![1] = DotSector(0, 0)]
    <3>1. s.blk = [z.blk EXCEPT ![1] = E]
      BY ONLY <1>5, <1>6, <1>8
    <3> QED
      BY <1>3, <3>1
  <2>4. s.tab = z.tab
    BY <1>5, <1>8
  <2>5. s.block_bitmap = z.block_bitmap \cup {1}
    BY <1>5, <1>8
  <2>6. Inode(z, 0) = NoInode
    BY <1>6, <1>8
  <2>7. IsFs(z)
    BY <1>8
  <2>8. Blocks(z)
    BY <1>8
  <2>9. Tables(z)
    BY <1>8
  <2>10. 0 \in Ino
    BY <1>6
  <2> QED
    BY ONLY <2>1, <2>2, <2>3, <2>4, <2>5, <2>6, <2>7, <2>8, <2>9, <2>10, NewDirKeeps
<1>10. \A c \in Ino \ {0} : Inode(s, c) = NoInode /\ ~IsDir(s, c) /\ \A q \in Place : At(s, c, q) = Free
  <2>1. TAKE c \in Ino \ {0}
  <2>2. Inode(s, c) = NoInode
    BY <1>8, <1>9
  <2>3. (\A k \in 0..Table : Addr(s, c, k) = 0) /\ \A p \in Place : At(s, c, p) = Free
    BY <2>2, NoInodeAddr
  <2>4. 0 \in 0..Table
    BY Bounds
  <2> QED
    BY <2>2, <2>3, <2>4 DEF IsDir
<1>11. InodeOK(D) /\ InodeOK(NoInode)
  <2>1. InodeOK(D)
    BY <1>2, <1>6, DirInodeOK
  <2>2. Ino = {0} \/ InodeOK(NoInode)
    <3>1. PICK w : w = Blank
      OBVIOUS
    <3>2. IsFs(w) /\ Inode(w, 0) = NoInode
      BY <1>6, <3>1, BlankIs
    <3> QED
      BY <1>6, <3>2 DEF IsFs, Inode
  <2>3. InodeOK(NoInode)
    <3>1. \A i \in Ino : InodeOK(z.inode_table[i])
      BY <1>8 DEF IsFs
    <3>2. z.inode_table[0] = NoInode
      BY <1>6, <1>8
    <3> QED
      BY <1>6, <3>1, <3>2
  <2> QED
    BY <2>1, <2>3
<1>12. IsFs(s)
  <2>1. BlkOK(s.blk)
    <3>1. EmptySector = [j \in 1..PER_SEC |-> EmptySector[j]] /\ E = [j \in 1..PER_SEC |-> E[j]]
      BY <1>3, EmptiesOK
    <3> QED
      BY <1>5, <3>1 DEF BlkOK
  <2>2. TabOK(s.tab)
    BY <1>5, <1>8 DEF TabOK, IsFs
  <2>3. /\ s.inode_table = [j \in Ino |-> s.inode_table[j]] /\ s.mem = [j \in Ino |-> s.mem[j]]
        /\ s.open \in [Ino -> Nat] /\ \A j \in Ino : InodeOK(s.inode_table[j])
    BY ONLY <1>5, <1>11
  <2>4. s.inode_bitmap \subseteq Ino /\ s.block_bitmap \subseteq Block /\ s.file_table \subseteq Ino
    BY <1>5, <1>6
  <2> QED
    BY ONLY <1>5, <2>1, <2>2, <2>3, <2>4, FsFrom
<1>13. MemOK(s)
  BY <1>5 DEF MemOK
<1>14. PICK a : a = <<0, 1>>
  OBVIOUS
<1>15. PICK b : b = <<0, 2>>
  OBVIOUS
<1>16. a \in Place /\ b \in Place /\ a # b
  BY <1>14, <1>15, DotPlaces
<1>17. PICK e : e = Ent(".", 0, "directory")
  OBVIOUS
<1>18. PICK g : g = Ent("..", 0, "directory")
  OBVIOUS
<1>19. /\ e # Free /\ g # Free /\ e.filename = "." /\ g.filename = ".." /\ e.i_no = 0 /\ g.i_no = 0
  <2>1. e.filename = "." /\ e.i_no = 0
    BY ONLY <1>17, EntIs
  <2>2. g.filename = ".." /\ g.i_no = 0
    BY ONLY <1>18, EntIs
  <2>3. Free.filename = ""
    BY DEF Free
  <2> QED
    BY ONLY <2>1, <2>2, <2>3
<1>20. \A q \in Place : At(s, 0, q) = IF q = a THEN e ELSE IF q = b THEN g ELSE Free
  BY <1>9, <1>14, <1>15, <1>17, <1>18
<1>21. Filled(s, 0) = {a, b} /\ \A c \in Ino \ {0} : Filled(s, c) = {}
  BY <1>10, <1>16, <1>19, <1>20 DEF Filled
<1>22. \A c \in Ino : Linked(s, c) = {}
  BY <1>16, <1>19, <1>20, <1>21 DEF Linked
<1>23. Kinds(s)
  BY <1>5, <1>9, <1>10 DEF Kinds
<1>24. Dots(s)
  <2>1. SUFFICES ASSUME NEW d \in Ino, IsDir(s, d)
                 PROVE  At(s, d, <<0, 1>>) = Ent(".", d, "directory") /\ \E c \in Ino : Above(s, d, c)
    BY DEF Dots
  <2>2. d = 0
    BY <1>10, <2>1
  <2>3. At(s, 0, a) = e /\ At(s, 0, b) = g
    BY <1>16, <1>20
  <2>4. Above(s, 0, 0)
    BY <1>9, <1>15, <1>18, <2>3 DEF Above
  <2> QED
    BY <1>6, <1>14, <1>17, <2>2, <2>3, <2>4
<1>25. Entries(s)
  BY <1>9, <1>10, <1>14, <1>15, <1>20 DEF Entries
<1>26. Tree(s)
  <2>1. s.inode_bitmap \ {0} = {}
    BY <1>5
  <2>2. \A d \in Ino : \A p, q \in Filled(s, d) : At(s, d, p).filename = At(s, d, q).filename => p = q
    BY <1>16, <1>19, <1>20, <1>21
  <2> QED
    BY <1>22, <2>1, <2>2 DEF Tree
<1>27. Sizes(s)
  <2>1. Cardinality({a, b}) = 2
    <3>1. IsFiniteSet({a}) /\ Cardinality({a}) = 1
      BY FS_Singleton
    <3>2. Cardinality({a} \cup {b}) = Cardinality({a}) + 1
      BY ONLY <1>16, <3>1, FS_AddElement
    <3>3. {a} \cup {b} = {a, b}
      OBVIOUS
    <3> QED
      BY ONLY <3>1, <3>2, <3>3
  <2>2. Cardinality({}) = 0
    BY FS_EmptySet
  <2>3. NoInode.i_size = 0
    BY DEF NoInode
  <2> QED
    BY <1>9, <1>10, <1>21, <2>1, <2>2, <2>3 DEF Sizes
<1>28. Reached(s)
  BY <1>10 DEF Reached, ClosedIn
<1>29. Opens(s)
  <2>1. s.open[0] > 0 /\ \A i \in Ino : s.open[i] > 0 => i = 0
    BY ONLY <1>5, <1>6
  <2>2. Stored(s)
    <3>1. 0 < WRAP
      BY Bounds
    <3> QED
      BY <1>5, <3>1 DEF Stored
  <2>3. IsDir(s, 0)
    BY <1>9
  <2> QED
    BY <1>5, <2>1, <2>2, <2>3 DEF Opens
<1>30. TreeInv(s)
  BY <1>23, <1>24, <1>25, <1>26, <1>27, <1>28 DEF TreeInv
<1> QED
  BY <1>1, <1>9, <1>12, <1>13, <1>29, <1>30 DEF DirsInv
-----------------------------------------------------------------------------
LEMMA AtLeast ==
  ASSUME NEW s, NEW n \in Nat, ~(Cardinality(FreeBlocks(s)) < n)
  PROVE  Cardinality(FreeBlocks(s)) >= n
<1>1. Cardinality(FreeBlocks(s)) \in Nat
  BY FreeFinite, FS_CardinalityType
<1> QED
  BY ONLY <1>1, n \in Nat, ~(Cardinality(FreeBlocks(s)) < n)

LEMMA NeededNat ==
  ASSUME NEW s, NEW d
  PROVE  BlocksNeeded(s, d) \in Nat /\ 1 + BlocksNeeded(s, d) \in Nat
BY DEF BlocksNeeded

(* What Harm says of a call that is not one of those above.                *)
LEMMA Harmful ==
  ASSUME NEW s, NEW d, NEW i \in Ino, ~(Spare(s, d) /\ i < WRAP)
  PROVE  Harm(s, d, i) \in Damage
<1>1. CASE RoomAt(s, d) = DIRECT /\ s.mem[d].i_sectors[DIRECT] # 0
  <2>1. Harm(s, d, i) = "table"
    BY <1>1 DEF Harm
  <2> QED
    BY <2>1 DEF Damage
<1>2. CASE ~(RoomAt(s, d) = DIRECT /\ s.mem[d].i_sectors[DIRECT] # 0)
  <2>1. i >= WRAP
    <3>1. i \in Nat /\ WRAP \in Nat /\ ~(i < WRAP)
      BY <1>2, Bounds DEF Spare
    <3> QED
      BY ONLY <3>1
  <2>2. Harm(s, d, i) = "wrap"
    BY <1>2, <2>1 DEF Harm
  <2> QED
    BY <2>2 DEF Damage
<1> QED
  BY <1>1, <1>2

(* The call keeps the invariant, also where it stops the kernel, or it is  *)
(* one of those that damage the file system.                               *)
LEMMA MkdirHolds ==
  ASSUME DirsInv(fs), NEW path, Clean(path), sys_mkdir(path)
  PROVE  panic' \in Damage \/ DirsInv(fs')
<1>1. PICK s : s = fs
  OBVIOUS
<1>2. PICK t : t = fs'
  OBVIOUS
<1>3. PICK r : r = search_file(s, path)
  OBVIOUS
<1>4. PICK h : h = Hold(s, r)
  OBVIOUS
<1>5. PICK w : w = panic'
  OBVIOUS
<1>6. IF r.found \/ r.depth # path_depth_cnt(path) THEN t = s
      ELSE IF FreeInodes(h) = {} \/ Cardinality(FreeBlocks(h)) < 1 + BlocksNeeded(h, r.parent) THEN t = s
      ELSE t = dir_close(MakeDir(h, r.parent, Last(path)), r) /\ w = Harm(h, r.parent, Min(FreeInodes(h)))
  BY <1>1, <1>2, <1>3, <1>4, <1>5 DEF sys_mkdir, Halt, Succeed
<1>7. Named0(path) /\ path_depth_cnt(path) = Len(path)
  BY DEF Clean, Named0
<1>8. CASE /\ FreeInodes(h) # {} /\ ~(Cardinality(FreeBlocks(h)) < 1 + BlocksNeeded(h, r.parent))
           /\ ~r.found /\ r.depth = path_depth_cnt(path)
  <2>1. Cardinality(FreeBlocks(h)) >= 1 + BlocksNeeded(h, r.parent)
    <3>1. PICK n : n = 1 + BlocksNeeded(h, r.parent)
      OBVIOUS
    <3>2. n \in Nat /\ ~(Cardinality(FreeBlocks(h)) < n)
      BY <1>8, <3>1, NeededNat
    <3>3. Cardinality(FreeBlocks(h)) >= n
      BY ONLY <3>2, AtLeast
    <3> QED
      BY <3>1, <3>3
  <2>2. t = dir_close(MakeDir(h, r.parent, Last(path)), r) /\ w = Harm(h, r.parent, Min(FreeInodes(h)))
    BY <1>6, <1>8
  <2>3. ~r.found /\ r.depth = Len(path) /\ FreeInodes(h) # {}
    BY <1>7, <1>8
  <2>4. CASE Spare(h, r.parent) /\ Min(FreeInodes(h)) < WRAP
    <3>1. DirsInv(t)
      BY ONLY <1>1, <1>3, <1>4, <1>7, <2>1, <2>2, <2>3, <2>4, DirsInv(fs), MkdirStep
    <3> QED
      BY <1>2, <3>1
  <2>5. CASE ~(Spare(h, r.parent) /\ Min(FreeInodes(h)) < WRAP)
    <3>1. Min(FreeInodes(h)) \in Ino
      BY <2>3, FreeInode
    <3>2. w \in Damage
      BY <2>2, <2>5, <3>1, Harmful
    <3> QED
      BY <1>5, <3>2
  <2> QED
    BY <2>4, <2>5
<1>9. CASE t = s
  BY <1>1, <1>2, <1>9
<1> QED
  BY <1>6, <1>8, <1>9

LEMMA CreateHolds ==
  ASSUME DirsInv(fs), NEW path \in CreatePath, Create(path)
  PROVE  panic' \in Damage \/ DirsInv(fs')
<1>1. PICK s : s = fs
  OBVIOUS
<1>2. PICK t : t = fs'
  OBVIOUS
<1>3. PICK r : r = search_file(s, path)
  OBVIOUS
<1>4. PICK h : h = Hold(s, r)
  OBVIOUS
<1>5. PICK w : w = panic'
  OBVIOUS
<1>6. /\ ~r.found /\ r.depth = path_depth_cnt(path)
      /\ IF FreeInodes(h) = {} \/ Cardinality(FreeBlocks(h)) < BlocksNeeded(h, r.parent) THEN t = s
         ELSE t = dir_close(file_create(h, r.parent, Last(path)), r) /\ w = Harm(h, r.parent, Min(FreeInodes(h)))
  BY <1>1, <1>2, <1>3, <1>4, <1>5 DEF Create, Halt, Succeed
<1>7. Named0(path) /\ path_depth_cnt(path) = Len(path)
  BY GivenPathIs
<1>8. CASE /\ FreeInodes(h) # {} /\ ~(Cardinality(FreeBlocks(h)) < BlocksNeeded(h, r.parent))
           /\ ~r.found /\ r.depth = path_depth_cnt(path)
  <2>1. Cardinality(FreeBlocks(h)) >= BlocksNeeded(h, r.parent)
    <3>1. PICK n : n = BlocksNeeded(h, r.parent)
      OBVIOUS
    <3>2. n \in Nat /\ ~(Cardinality(FreeBlocks(h)) < n)
      BY <1>8, <3>1, NeededNat
    <3>3. Cardinality(FreeBlocks(h)) >= n
      BY ONLY <3>2, AtLeast
    <3> QED
      BY <3>1, <3>3
  <2>2. t = dir_close(file_create(h, r.parent, Last(path)), r) /\ w = Harm(h, r.parent, Min(FreeInodes(h)))
    BY <1>6, <1>8
  <2>3. ~r.found /\ r.depth = Len(path) /\ FreeInodes(h) # {}
    BY <1>7, <1>8
  <2>4. CASE Spare(h, r.parent) /\ Min(FreeInodes(h)) < WRAP
    <3>1. DirsInv(t)
      BY ONLY <1>1, <1>3, <1>4, <1>7, <2>1, <2>2, <2>3, <2>4, DirsInv(fs), CreateStep
    <3> QED
      BY <1>2, <3>1
  <2>5. CASE ~(Spare(h, r.parent) /\ Min(FreeInodes(h)) < WRAP)
    <3>1. Min(FreeInodes(h)) \in Ino
      BY <2>3, FreeInode
    <3>2. w \in Damage
      BY <2>2, <2>5, <3>1, Harmful
    <3> QED
      BY <1>5, <3>2
  <2> QED
    BY <2>4, <2>5
<1>9. CASE t = s
  BY <1>1, <1>2, <1>9
<1> QED
  BY <1>6, <1>8, <1>9

LEMMA RmdirHolds ==
  ASSUME DirsInv(fs), NEW path, Clean(path), sys_rmdir(path)
  PROVE  panic' \in Damage \/ DirsInv(fs')
<1>1. PICK s : s = fs
  OBVIOUS
<1>2. PICK t : t = fs'
  OBVIOUS
<1>3. PICK r : r = search_file(s, path)
  OBVIOUS
<1>4. PICK h : h = inode_open(Hold(s, r), r.i_no)
  OBVIOUS
<1>5. DirsInv(s)
  BY <1>1
<1>6. /\ path # <<>> /\ r.found /\ h.mem[r.i_no].i_size = 2
      /\ \/ t = s
         \/ /\ t = dir_close(inode_close(dir_remove(h, r.parent, r.i_no), r.i_no), r)
            /\ t.open[r.i_no] > 0 => panic' = "stale"
  BY <1>1, <1>2, <1>3, <1>4 DEF sys_rmdir, Halt, Succeed
<1>7. CASE t = dir_close(inode_close(dir_remove(h, r.parent, r.i_no), r.i_no), r) /\ ~(t.open[r.i_no] > 0)
  <2>1. DirsInv(t)
    BY ONLY <1>3, <1>4, <1>5, <1>6, <1>7, Clean(path), RmdirStep
  <2> QED
    BY <1>2, <2>1
<1> QED
  BY <1>2, <1>5, <1>6, <1>7 DEF Damage

LEMMA UnlinkHolds ==
  ASSUME DirsInv(fs), NEW path, Clean(path), sys_unlink(path)
  PROVE  DirsInv(fs')
<1>1. PICK s : s = fs
  OBVIOUS
<1>2. PICK t : t = fs'
  OBVIOUS
<1>3. PICK r : r = search_file(s, path)
  OBVIOUS
<1>4. PICK h : h = Hold(s, r)
  OBVIOUS
<1>5. DirsInv(s)
  BY <1>1
<1>6. /\ r.found /\ r.file_type = "regular" /\ r.i_no \notin s.file_table
      /\ t = s \/ t = dir_close(dir_remove(h, r.parent, r.i_no), r)
  BY <1>1, <1>2, <1>3, <1>4 DEF sys_unlink, Halt, Change, dir_remove
<1>7. CASE t = dir_close(dir_remove(h, r.parent, r.i_no), r)
  <2>1. DirsInv(t)
    BY ONLY <1>3, <1>4, <1>5, <1>6, <1>7, Clean(path), UnlinkStep
  <2> QED
    BY <1>2, <2>1
<1> QED
  BY <1>2, <1>5, <1>6, <1>7

LEMMA OpenHolds ==
  ASSUME DirsInv(fs), NEW path \in OpenPath, Open(path)
  PROVE  DirsInv(fs')
<1>1. PICK s : s = fs
  OBVIOUS
<1>2. PICK t : t = fs'
  OBVIOUS
<1>3. PICK r : r = search_file(s, path)
  OBVIOUS
<1>4. DirsInv(s)
  BY <1>1
<1>5. /\ r.found /\ r.file_type = "regular" /\ r.i_no \notin s.file_table
      /\ t = [inode_open(Hold(s, r), r.i_no) EXCEPT !.file_table = @ \cup {r.i_no}]
  BY <1>1, <1>2, <1>3 DEF Open, Change
<1>6. Named0(path)
  BY GivenPathIs
<1>7. DirsInv(t)
  BY ONLY <1>3, <1>4, <1>5, <1>6, OpenStep
<1> QED
  BY <1>2, <1>7

LEMMA CloseHolds ==
  ASSUME DirsInv(fs), NEW i, Close(i)
  PROVE  DirsInv(fs')
<1>1. PICK s : s = fs
  OBVIOUS
<1>2. PICK t : t = fs'
  OBVIOUS
<1>3. DirsInv(s)
  BY <1>1
<1>4. i \in s.file_table /\ t = [inode_close(s, i) EXCEPT !.file_table = @ \ {i}]
  BY <1>1, <1>2 DEF Close, Change
<1>5. DirsInv(t)
  BY ONLY <1>3, <1>4, CloseStep
<1> QED
  BY <1>2, <1>5

(* Every command and every call of a program keeps the invariant.          *)
LEMMA StepHolds ==
  ASSUME DirsInv(fs), DirsNext
  PROVE  panic' \in Damage \/ DirsInv(fs')
<1>1. ASSUME NEW arg \in Arg, buildin_cd(arg)
      PROVE  panic' \in Damage \/ DirsInv(fs')
  <2>1. fs' = fs
    BY <1>1 DEF buildin_cd, sys_chdir
  <2> QED
    BY <2>1
<1>2. ASSUME NEW arg \in Arg, buildin_mkdir(arg)
      PROVE  panic' \in Damage \/ DirsInv(fs')
  <2>1. ~CwdLost(arg) /\ sys_mkdir(AbsPath(arg))
    BY <1>2 DEF buildin_mkdir, Typed
  <2>2. Clean(AbsPath(arg))
    BY <2>1, AbsPathIs
  <2> QED
    BY <2>1, <2>2, MkdirHolds
<1>3. ASSUME NEW arg \in Arg, buildin_rmdir(arg)
      PROVE  panic' \in Damage \/ DirsInv(fs')
  <2>1. ~CwdLost(arg) /\ sys_rmdir(AbsPath(arg))
    BY <1>3 DEF buildin_rmdir, Typed
  <2>2. Clean(AbsPath(arg))
    BY <2>1, AbsPathIs
  <2> QED
    BY <2>1, <2>2, RmdirHolds
<1>4. ASSUME NEW arg \in Arg, buildin_rm(arg)
      PROVE  panic' \in Damage \/ DirsInv(fs')
  <2>1. ~CwdLost(arg) /\ sys_unlink(AbsPath(arg))
    BY <1>4 DEF buildin_rm, Typed
  <2>2. Clean(AbsPath(arg))
    BY <2>1, AbsPathIs
  <2> QED
    BY <2>1, <2>2, UnlinkHolds
<1>5. ASSUME NEW arg \in Arg, GetcwdFails(arg)
      PROVE  panic' \in Damage \/ DirsInv(fs')
  <2>1. fs' = fs
    BY <1>5 DEF GetcwdFails, Halt
  <2> QED
    BY <2>1
<1>6. ASSUME NEW path \in CreatePath, Create(path)
      PROVE  panic' \in Damage \/ DirsInv(fs')
  BY <1>6, CreateHolds
<1>7. ASSUME NEW path \in OpenPath, Open(path)
      PROVE  panic' \in Damage \/ DirsInv(fs')
  BY <1>7, OpenHolds
<1>8. ASSUME NEW i \in Ino, Close(i)
      PROVE  panic' \in Damage \/ DirsInv(fs')
  BY <1>8, CloseHolds
<1> QED
  BY <1>1, <1>2, <1>3, <1>4, <1>5, <1>6, <1>7, <1>8 DEF DirsNext

(* A call begins only when nothing has stopped the kernel or damaged the   *)
(* file system.                                                            *)
LEMMA CallStarts ==
  ASSUME DirsNext
  PROVE  panic = "none"
BY DEF DirsNext, Typed, GetcwdFails, Create, Open, Close, buildin_cd, buildin_mkdir, buildin_rmdir, buildin_rm

(* Whatever commands are typed and whatever files programs create, open    *)
(* and close, on a partition of any size, until one of these calls does    *)
(* damage: the invariant behind the four theorems below.  The file system  *)
(* is well formed, every block belongs to one inode and is marked in the   *)
(* bitmap, entries lead to allocated inodes of their type, every inode but *)
(* the root's is named once, i_size counts the entries, and what is open   *)
(* is an open file or a directory.  search_file, mkdir, rmdir, rm,         *)
(* sys_open and sys_close keep it.                                         *)
THEOREM DirsHold == DirsSpec => [](Intact => DirsInv(fs))
<1>1. DirsInit => (Intact => DirsInv(fs))
  BY InitHolds
<1>2. (Intact => DirsInv(fs)) /\ [DirsNext]_dirVars => (Intact => DirsInv(fs))'
  <2>1. ASSUME Intact => DirsInv(fs), DirsNext PROVE (Intact => DirsInv(fs))'
    <3>1. DirsInv(fs)
      BY <2>1, CallStarts DEF Intact, Damage
    <3>2. panic' \in Damage \/ DirsInv(fs')
      BY <2>1, <3>1, StepHolds
    <3> QED
      BY <3>2 DEF Intact, Damage
  <2>2. ASSUME Intact => DirsInv(fs), UNCHANGED dirVars PROVE (Intact => DirsInv(fs))'
    <3>1. fs' = fs /\ panic' = panic
      BY <2>2 DEF dirVars
    <3>2. Intact' => Intact
      BY <3>1 DEF Intact, Damage
    <3> QED
      BY <2>2, <3>1, <3>2
  <2> QED
    BY <2>1, <2>2
<1> QED
  BY <1>1, <1>2, PTL DEF DirsSpec
-----------------------------------------------------------------------------
(* The properties, from the invariant.                                     *)
LEMMA SameCount ==
  ASSUME NEW S, NEW T, IsFiniteSet(S), NEW f, f = [x \in S |-> f[x]], \A x \in S : f[x] \in T,
         \A y \in T : \E x \in S : f[x] = y, \A x, y \in S : f[x] = f[y] => x = y
  PROVE  IsFiniteSet(T) /\ Cardinality(T) = Cardinality(S)
<1>1. f \in [S -> T]
  OBVIOUS
<1>2. f \in Injection(S, T)
  BY <1>1 DEF Injection, IsInjective
<1>3. f \in Surjection(S, T)
  BY <1>1 DEF Surjection
<1>4. ExistsBijection(S, T)
  BY <1>2, <1>3 DEF ExistsBijection, Bijection
<1> QED
  BY <1>4, FS_Bijection

(* What the properties read is the view.                                   *)
LEMMA ViewOf ==
  ASSUME NEW s, DirsInv(s), NEW d \in Ino
  PROVE  /\ InodeOf(s, d) = Inode(s, d) /\ Used(s, d) = Filled(s, d) /\ Real(s, d) = Linked(s, d)
         /\ \A p \in Filled(s, d) : EntryAt(s, d, p) = At(s, d, p)
<1>1. IsFs(s) /\ MemOK(s) /\ Tables(s) /\ Dots(s) /\ Entries(s)
  BY InvParts
<1>2. InodeOf(s, d) = Inode(s, d)
  BY <1>1, ViewIs
<1>3. /\ Filled(s, d) \subseteq Places(s, d)
      /\ \A p \in Places(s, d) : EntryAt(s, d, p) = At(s, d, p)
      /\ Used(s, d) = Filled(s, d) /\ Real(s, d) = Linked(s, d)
  BY <1>1, EntrySets
<1> QED
  BY <1>2, <1>3

(* What an entry that is no dot names, and where it can be.                *)
LEMMA LinkIs ==
  ASSUME NEW s, DirsInv(s), NEW d \in Ino, NEW p \in Linked(s, d)
  PROVE  /\ p \in Filled(s, d) /\ p \in Place /\ IsDir(s, d)
         /\ At(s, d, p).i_no \in s.inode_bitmap \ {0} /\ At(s, d, p).i_no \in Ino
         /\ At(s, d, p).f_type = "directory" <=> IsDir(s, At(s, d, p).i_no)
<1>1. p \in Filled(s, d) /\ p \in Place /\ At(s, d, p) # Free
  BY DEF Linked, Filled
<1>2. Dots(s) /\ Entries(s) /\ s.inode_bitmap \subseteq Ino
  BY InvParts DEF IsFs
<1>3. At(s, d, p).i_no \in s.inode_bitmap \ {0} /\ At(s, d, p).f_type = Kind(s, At(s, d, p).i_no)
  BY <1>1, <1>2, EntryIs
<1>4. IsDir(s, d)
  <2>1. SUFFICES ASSUME ~IsDir(s, d) PROVE FALSE
    OBVIOUS
  <2>2. Inode(s, d) = NoInode
    BY <2>1, InvParts DEF Kinds
  <2>3. At(s, d, p) = Free
    BY <1>1, <2>2, NoInodeAddr
  <2> QED
    BY <1>1, <2>3
<1>5. At(s, d, p).f_type = "directory" <=> IsDir(s, At(s, d, p).i_no)
  BY <1>3 DEF Kind
<1> QED
  BY <1>1, <1>2, <1>3, <1>4, <1>5

(* What can be reached from the root is every inode that has a first       *)
(* sector.                                                                 *)
LEMMA DirectoriesAre ==
  ASSUME DirsInv(fs)
  PROVE  \A d : d \in Directories <=> d \in Ino /\ IsDir(fs, d)
<1>1. ASSUME NEW C \in SUBSET Ino
      PROVE  ClosedIn(fs, C) <=> 0 \in C /\ \A e \in Below : e[1] \in C => e[2] \in C
  <2>1. \A e : e \in Below <=> \E d \in Ino : \E c \in SubDirs(d) : e = <<d, c>>
    BY DEF Below
  <2>2. \A d \in Ino : \A i : i \in SubDirs(d) <=>
          \E p \in Linked(fs, d) : At(fs, d, p).f_type = "directory" /\ i = At(fs, d, p).i_no
    <3>1. TAKE d \in Ino
    <3>2. Real(fs, d) = Linked(fs, d) /\ \A p \in Linked(fs, d) : EntryAt(fs, d, p) = At(fs, d, p)
      BY ViewOf DEF Linked
    <3> QED
      BY ONLY <3>2 DEF SubDirs
  <2>3. ASSUME ClosedIn(fs, C), NEW e \in Below, e[1] \in C PROVE e[2] \in C
    <3>1. PICK d \in Ino : \E c \in SubDirs(d) : e = <<d, c>>
      BY <2>1
    <3>2. PICK c \in SubDirs(d) : e = <<d, c>>
      BY <3>1
    <3>3. PICK p \in Linked(fs, d) : At(fs, d, p).f_type = "directory" /\ c = At(fs, d, p).i_no
      BY <2>2
    <3>4. d \in C /\ e[2] = c
      BY <2>3, <3>2
    <3> QED
      BY <2>3, <3>3, <3>4 DEF ClosedIn
  <2>4. ASSUME \A e \in Below : e[1] \in C => e[2] \in C, NEW d \in C, NEW p \in Linked(fs, d),
               At(fs, d, p).f_type = "directory"
        PROVE  At(fs, d, p).i_no \in C
    <3>1. d \in Ino
      OBVIOUS
    <3>2. PICK c : c = At(fs, d, p).i_no
      OBVIOUS
    <3>3. c \in SubDirs(d)
      BY <2>2, <2>4, <3>1, <3>2
    <3>4. PICK e : e = <<d, c>>
      OBVIOUS
    <3>5. e \in Below /\ e[1] = d /\ e[2] = c
      BY <2>1, <3>1, <3>3, <3>4
    <3> QED
      BY <2>4, <3>2, <3>5
  <2> QED
    BY <2>3, <2>4 DEF ClosedIn
<1>2. \A d : d \in Directories <=> d \in Ino /\ \A C \in SUBSET Ino : ClosedIn(fs, C) => d \in C
  BY <1>1 DEF Directories
<1>3. ASSUME NEW d \in Ino, IsDir(fs, d) PROVE d \in Directories
  <2>1. \A C \in SUBSET Ino : ClosedIn(fs, C) => d \in C
    BY <1>3, InvParts DEF Reached
  <2> QED
    BY <1>2, <2>1
<1>4. ASSUME NEW d \in Directories PROVE d \in Ino /\ IsDir(fs, d)
  <2>1. PICK C : C = {c \in Ino : IsDir(fs, c)}
    OBVIOUS
  <2>2. C \in SUBSET Ino /\ \A c : c \in C <=> c \in Ino /\ IsDir(fs, c)
    BY <2>1
  <2>3. ClosedIn(fs, C)
    <3>1. 0 \in C
      BY <2>2, Bounds, InvParts DEF Kinds
    <3>2. ASSUME NEW c \in C, NEW p \in Linked(fs, c), At(fs, c, p).f_type = "directory"
          PROVE  At(fs, c, p).i_no \in C
      <4>1. c \in Ino
        BY <2>2
      <4>2. At(fs, c, p).i_no \in Ino /\ IsDir(fs, At(fs, c, p).i_no)
        BY <3>2, <4>1, LinkIs
      <4> QED
        BY <2>2, <4>2
    <3> QED
      BY <3>1, <3>2 DEF ClosedIn
  <2>4. d \in C
    BY <1>2, <2>2, <2>3
  <2> QED
    BY <2>2, <2>4
<1> QED
  BY <1>3, <1>4

(* The links of the tree, by directory and place.                          *)
LEMMA LinksAre ==
  ASSUME DirsInv(fs)
  PROVE  \A l : l \in Links <=> \E d \in Ino : \E p \in Linked(fs, d) : l = <<d, p, At(fs, d, p)>>
<1>1. \A d : d \in Directories <=> d \in Ino /\ IsDir(fs, d)
  BY DirectoriesAre
<1>2. ASSUME NEW d \in Ino
      PROVE  Real(fs, d) = Linked(fs, d) /\ \A p \in Linked(fs, d) : EntryAt(fs, d, p) = At(fs, d, p)
  BY ViewOf DEF Linked
<1>3. ASSUME NEW d \in Ino, NEW p \in Linked(fs, d) PROVE IsDir(fs, d)
  BY LinkIs
<1>4. \A l : l \in Links <=> \E d \in Directories : \E p \in Real(fs, d) : l = <<d, p, EntryAt(fs, d, p)>>
  BY DEF Links
<1>5. ASSUME NEW l, l \in Links
      PROVE  \E d \in Ino : \E p \in Linked(fs, d) : l = <<d, p, At(fs, d, p)>>
  <2>1. PICK d \in Directories : \E p \in Real(fs, d) : l = <<d, p, EntryAt(fs, d, p)>>
    BY <1>4, <1>5
  <2>2. PICK p \in Real(fs, d) : l = <<d, p, EntryAt(fs, d, p)>>
    BY <2>1
  <2>3. d \in Ino
    BY <1>1
  <2>4. p \in Linked(fs, d) /\ EntryAt(fs, d, p) = At(fs, d, p)
    BY <1>2, <2>3
  <2> QED
    BY <2>2, <2>3, <2>4
<1>6. ASSUME NEW l, NEW d \in Ino, NEW p \in Linked(fs, d), l = <<d, p, At(fs, d, p)>>
      PROVE  l \in Links
  <2>1. d \in Directories
    BY <1>1, <1>3
  <2>2. p \in Real(fs, d) /\ EntryAt(fs, d, p) = At(fs, d, p)
    BY <1>2
  <2> QED
    BY <1>4, <1>6, <2>1, <2>2
<1> QED
  BY <1>5, <1>6

(* The names form a tree.                                                  *)
LEMMA TreeIs ==
  ASSUME DirsInv(fs)
  PROVE  TreeOK
<1>1. \A l : l \in Links <=> \E d \in Ino : \E p \in Linked(fs, d) : l = <<d, p, At(fs, d, p)>>
  BY LinksAre
<1>2. Tree(fs) /\ Kinds(fs) /\ Dots(fs)
  BY InvParts
<1>3. fs.inode_bitmap = {0} \cup {l[3].i_no : l \in Links}
  <2>1. ASSUME NEW i \in fs.inode_bitmap, i # 0 PROVE \E l \in Links : i = l[3].i_no
    <3>1. PICK d \in Ino : \E p \in Linked(fs, d) : At(fs, d, p).i_no = i
      BY <1>2, <2>1 DEF Tree
    <3>2. PICK p \in Linked(fs, d) : At(fs, d, p).i_no = i
      BY <3>1
    <3>3. PICK l : l = <<d, p, At(fs, d, p)>>
      OBVIOUS
    <3>4. l \in Links
      BY <1>1, <3>3
    <3> QED
      BY <3>2, <3>3, <3>4
  <2>2. ASSUME NEW l \in Links PROVE l[3].i_no \in fs.inode_bitmap
    <3>1. PICK d \in Ino : \E p \in Linked(fs, d) : l = <<d, p, At(fs, d, p)>>
      BY <1>1
    <3>2. PICK p \in Linked(fs, d) : l = <<d, p, At(fs, d, p)>>
      BY <3>1
    <3>3. At(fs, d, p).i_no \in fs.inode_bitmap
      BY LinkIs
    <3> QED
      BY <3>2, <3>3
  <2>3. 0 \in fs.inode_bitmap
    BY <1>2 DEF Kinds
  <2> QED
    BY ONLY <2>1, <2>2, <2>3
<1>4. ASSUME NEW l \in Links, NEW m \in Links,
             l[3].i_no = m[3].i_no \/ (l[1] = m[1] /\ l[3].filename = m[3].filename)
      PROVE  l = m
  <2>1. PICK c \in Ino : \E p \in Linked(fs, c) : l = <<c, p, At(fs, c, p)>>
    BY <1>1
  <2>2. PICK p \in Linked(fs, c) : l = <<c, p, At(fs, c, p)>>
    BY <2>1
  <2>3. PICK d \in Ino : \E q \in Linked(fs, d) : m = <<d, q, At(fs, d, q)>>
    BY <1>1
  <2>4. PICK q \in Linked(fs, d) : m = <<d, q, At(fs, d, q)>>
    BY <2>3
  <2>5. At(fs, c, p).i_no = At(fs, d, q).i_no \/ (c = d /\ At(fs, c, p).filename = At(fs, d, q).filename)
    BY <1>4, <2>2, <2>4
  <2>6. p \in Filled(fs, c) /\ q \in Filled(fs, d)
    BY DEF Linked
  <2>7. c = d /\ p = q
    <3>1. CASE At(fs, c, p).i_no = At(fs, d, q).i_no
      BY <1>2, <3>1 DEF Tree
    <3>2. CASE c = d /\ At(fs, c, p).filename = At(fs, d, q).filename
      BY <1>2, <2>6, <3>2 DEF Tree
    <3> QED
      BY <2>5, <3>1, <3>2
  <2> QED
    BY <2>2, <2>4, <2>7
<1>5. ASSUME NEW l \in Links, l[3].f_type = "directory", NEW b, b = InodeOf(fs, l[3].i_no).i_sectors[0]
      PROVE  b # 0 /\ fs.blk[b][1].i_no = l[3].i_no /\ fs.blk[b][2].i_no = l[1]
  <2>1. PICK d \in Ino : \E p \in Linked(fs, d) : l = <<d, p, At(fs, d, p)>>
    BY <1>1
  <2>2. PICK p \in Linked(fs, d) : l = <<d, p, At(fs, d, p)>>
    BY <2>1
  <2>3. PICK c : c = At(fs, d, p).i_no
    OBVIOUS
  <2>4. c = l[3].i_no /\ d = l[1]
    BY <2>2, <2>3
  <2>5. c \in Ino /\ IsDir(fs, c)
    <3>1. At(fs, d, p).f_type = "directory"
      BY <1>5, <2>2
    <3> QED
      BY <2>3, <3>1, LinkIs
  <2>6. b = Addr(fs, c, 0)
    <3>1. InodeOf(fs, c) = Inode(fs, c)
      BY <2>5, ViewOf
    <3>2. Addr(fs, c, 0) = Inode(fs, c).i_sectors[0]
      BY <2>5, AddrIs, Bounds
    <3> QED
      BY <1>5, <2>4, <3>1, <3>2
  <2>7. b # 0
    BY <2>5, <2>6 DEF IsDir
  <2>8. At(fs, c, <<0, 1>>) = fs.blk[b][1] /\ At(fs, c, <<0, 2>>) = fs.blk[b][2]
    BY <2>6, <2>7 DEF At
  <2>9. At(fs, c, <<0, 1>>).i_no = c
    <3>1. At(fs, c, <<0, 1>>) = Ent(".", c, "directory")
      BY <1>2, <2>5, DotIs
    <3> QED
      BY ONLY <3>1, EntIs
  <2>10. At(fs, c, <<0, 2>>).i_no = d
    BY <1>2, <2>3, <2>5 DEF Tree
  <2> QED
    BY <2>4, <2>7, <2>8, <2>9, <2>10
<1> QED
  BY <1>3, <1>4, <1>5 DEF TreeOK

(* The disk agrees with the memory.                                        *)
LEMMA AgreesIs ==
  ASSUME DirsInv(fs)
  PROVE  DiskAgrees
<1>1. Stored(fs) /\ MemOK(fs) /\ Kinds(fs)
  BY InvParts
<1>2. \A i \in Ino \ fs.inode_bitmap : fs.inode_table[i] = NoInode
  BY <1>1 DEF Kinds, Inode
<1> QED
  BY <1>1, <1>2 DEF DiskAgrees, MemOK, Stored

(* The number of entries before one is below the number of entries.        *)
Before(s, d, q) == {p \in Used(s, d) : Precedes(p, q)}
(* dir_pos of an entry is below the number of entries.                     *)
LEMMA RankBelow ==
  ASSUME NEW s, NEW d, IsFiniteSet(Used(s, d)), NEW q \in Used(s, d), q[1] \in Nat, q[2] \in Nat
  PROVE  Cardinality(Before(s, d, q)) \in 0..(Cardinality(Used(s, d)) - 1)
<1>1. ~Precedes(q, q)
  BY DEF Precedes
<1>2. PICK U : U = Used(s, d)
  OBVIOUS
<1>3. Before(s, d, q) \in SUBSET (U \ {q})
  BY <1>1, <1>2 DEF Before
<1>4. IsFiniteSet(U) /\ q \in U /\ Cardinality(U) \in Nat
  BY <1>2, FS_CardinalityType
<1>5. IsFiniteSet(U \ {q}) /\ Cardinality(U \ {q}) = Cardinality(U) - 1
  BY ONLY <1>4, FS_RemoveElement
<1>6. Cardinality(Before(s, d, q)) <= Cardinality(U \ {q}) /\ IsFiniteSet(Before(s, d, q))
  BY ONLY <1>3, <1>5, FS_Subset
<1>7. Cardinality(Before(s, d, q)) \in Nat
  BY ONLY <1>6, FS_CardinalityType
<1> QED
  BY ONLY <1>2, <1>4, <1>5, <1>6, <1>7

(* dir_read at 0, 1, ... yields every entry once.                          *)
LEMMA ListingIs ==
  ASSUME DirsInv(fs)
  PROVE  ListingComplete
<1>1. SUFFICES ASSUME NEW d \in Directories, NEW n, n = InodeOf(fs, d).i_size,
                      NEW listed, listed = UNION {dir_read(fs, d, k) : k \in 0..(n - 1)}
               PROVE  Cardinality(listed) = n /\ listed = {EntryAt(fs, d, p) : p \in Used(fs, d)}
  BY DEF ListingComplete
<1>2. d \in Ino
  BY DirectoriesAre
<1>3. PICK U : U = Used(fs, d)
  OBVIOUS
<1>4. /\ InodeOf(fs, d) = Inode(fs, d) /\ U = Filled(fs, d)
      /\ \A p \in U : EntryAt(fs, d, p) = At(fs, d, p)
  BY <1>2, <1>3, ViewOf
<1>5. U \subseteq Place /\ IsFiniteSet(U)
  <2>1. U \subseteq Place
    BY <1>4 DEF Filled
  <2> QED
    BY <2>1, PlaceFinite
<1>6. n = Cardinality(U) /\ n \in Nat
  <2>1. n = Cardinality(U)
    BY <1>1, <1>2, <1>4, InvParts DEF Sizes
  <2> QED
    BY <1>5, <2>1, FS_CardinalityType
<1>7. \A q \in U : Cardinality(Before(fs, d, q)) \in 0..(n - 1)
  <2>1. TAKE q \in U
  <2>2. q[1] \in Nat /\ q[2] \in Nat
    <3>1. q[1] \in 0..DIRECT /\ q[2] \in 1..PER_SEC
      BY <1>5, PlaceIs
    <3>2. DIRECT \in Nat /\ PER_SEC \in Nat
      BY Bounds
    <3> QED
      BY ONLY <3>1, <3>2
  <2>3. IsFiniteSet(Used(fs, d)) /\ q \in Used(fs, d)
    BY <1>3, <1>5
  <2>4. Cardinality(Before(fs, d, q)) \in 0..(Cardinality(Used(fs, d)) - 1)
    BY ONLY <2>2, <2>3, RankBelow
  <2> QED
    BY <1>3, <1>6, <2>4
<1>8. \A k, x : x \in dir_read(fs, d, k) <=>
        \E q \in U : k < n /\ Cardinality(Before(fs, d, q)) = k /\ x = EntryAt(fs, d, q)
  BY <1>1, <1>3 DEF dir_read, Before
<1>9. \A x : x \in listed <=> \E q \in U : x = At(fs, d, q)
  <2>1. ASSUME NEW x \in listed PROVE \E q \in U : x = At(fs, d, q)
    <3>1. PICK k \in 0..(n - 1) : x \in dir_read(fs, d, k)
      BY <1>1, <2>1
    <3> QED
      BY <1>4, <1>8, <3>1
  <2>2. ASSUME NEW q \in U PROVE At(fs, d, q) \in listed
    <3>1. PICK k : k = Cardinality(Before(fs, d, q))
      OBVIOUS
    <3>2. k \in 0..(n - 1)
      BY <1>7, <3>1
    <3>3. k < n
      BY ONLY <1>6, <3>2
    <3>4. At(fs, d, q) \in dir_read(fs, d, k)
      BY <1>4, <1>8, <3>1, <3>3
    <3> QED
      BY <1>1, <3>2, <3>4
  <2> QED
    BY <2>1, <2>2
<1>10. listed = {EntryAt(fs, d, p) : p \in Used(fs, d)}
  BY <1>3, <1>4, <1>9
<1>11. Cardinality(listed) = n
  <2>1. PICK f : f = [q \in U |-> At(fs, d, q)]
    OBVIOUS
  <2>2. f = [q \in U |-> f[q]] /\ \A q \in U : f[q] = At(fs, d, q)
    BY <2>1
  <2>3. \A q \in U : f[q] \in listed
    BY <1>9, <2>2
  <2>4. \A x \in listed : \E q \in U : f[q] = x
    BY <1>9, <2>2
  <2>5. \A p, q \in U : f[p] = f[q] => p = q
    <3>1. \A p, q \in U : At(fs, d, p).filename = At(fs, d, q).filename => p = q
      BY <1>2, <1>4, InvParts DEF Tree
    <3> QED
      BY <2>2, <3>1
  <2>6. IsFiniteSet(U)
    BY <1>5
  <2>7. Cardinality(listed) = Cardinality(U)
    <3>1. f = [q \in U |-> f[q]]
      BY <2>2
    <3> QED
      BY ONLY <2>3, <2>4, <2>5, <2>6, <3>1, SameCount
  <2> QED
    BY <1>6, <2>7
<1> QED
  BY <1>10, <1>11
-----------------------------------------------------------------------------
(* An inode has as many blocks as it has addresses, the table's included.  *)
LEMMA BlocksCount ==
  ASSUME NEW s, DirsInv(s), NEW i \in Ino,
         NEW U, U = {k \in Index : all_blocks(s, Inode(s, i), k) # 0},
         NEW B, B = BlocksOf(s, Inode(s, i))
  PROVE  Cardinality(B) = Cardinality(U) + (IF Inode(s, i).i_sectors[DIRECT] = 0 THEN 0 ELSE 1)
<1>1. IsFs(s) /\ MemOK(s) /\ Tables(s) /\ Blocks(s)
  BY InvParts
<1>2. U = {k \in 0..DIRECT : Addr(s, i, k) # 0}
  <2>1. /\ \A k \in 0..DIRECT : k \in Index /\ all_blocks(s, Inode(s, i), k) = Addr(s, i, k)
        /\ \A k \in Index : k \notin 0..DIRECT => all_blocks(s, Inode(s, i), k) = 0
    BY <1>1, ViewIs
  <2> QED
    BY <2>1
<1>3. IsFiniteSet(U) /\ Cardinality(U) \in Nat
  <2>1. DIRECT \in Int /\ 0 \in Int
    BY Bounds
  <2>2. IsFiniteSet(0..DIRECT)
    BY <2>1, FS_Interval
  <2>3. U \in SUBSET (0..DIRECT)
    BY <1>2
  <2> QED
    BY <2>2, <2>3, FS_Subset, FS_CardinalityType
<1>4. PICK K : K = {k \in 0..Table : Addr(s, i, k) # 0}
  OBVIOUS
<1>5. Table \notin U /\ K = IF Addr(s, i, Table) = 0 THEN U ELSE U \cup {Table}
  <2>1. \A k : k \in 0..Table <=> k \in 0..DIRECT \/ k = Table
    BY Bounds
  <2>2. Table \notin 0..DIRECT
    BY Bounds
  <2> QED
    BY <1>2, <1>4, <2>1, <2>2
<1>6. IsFiniteSet(K) /\ Cardinality(K) = Cardinality(U) + (IF Addr(s, i, Table) = 0 THEN 0 ELSE 1)
  <2>1. CASE Addr(s, i, Table) = 0
    BY <1>3, <1>5, <2>1
  <2>2. CASE Addr(s, i, Table) # 0
    BY <1>3, <1>5, <2>2, FS_AddElement
  <2> QED
    BY <2>1, <2>2
<1>7. Addr(s, i, Table) = Inode(s, i).i_sectors[DIRECT]
  BY AddrIs
<1>8. B = {Addr(s, i, k) : k \in 0..Table} \ {0}
  BY <1>1, BlocksOfIs
<1>9. Cardinality(B) = Cardinality(K)
  <2>1. PICK f : f = [k \in K |-> Addr(s, i, k)]
    OBVIOUS
  <2>2. f = [k \in K |-> f[k]] /\ \A k \in K : f[k] = Addr(s, i, k)
    BY <2>1
  <2>3. \A k \in K : f[k] \in B
    BY <1>4, <1>8, <2>2
  <2>4. \A b \in B : \E k \in K : f[k] = b
    BY <1>4, <1>8, <2>2
  <2>5. \A k, l \in K : f[k] = f[l] => k = l
    <3>1. \A k, l \in 0..Table : Addr(s, i, k) = Addr(s, i, l) /\ Addr(s, i, k) # 0 => k = l
      BY <1>1 DEF Blocks
    <3> QED
      BY <1>4, <2>2, <3>1
  <2>6. f = [k \in K |-> f[k]] /\ IsFiniteSet(K)
    BY <1>6, <2>2
  <2> QED
    BY ONLY <2>3, <2>4, <2>5, <2>6, SameCount
<1> QED
  BY <1>6, <1>7, <1>9

(* The bitmap is the blocks of the allocated inodes.                       *)
LEMMA AccountedIs ==
  ASSUME DirsInv(fs)
  PROVE  BlocksAccounted
<1>1. IsFs(fs) /\ MemOK(fs) /\ Tables(fs) /\ Blocks(fs) /\ Kinds(fs) /\ fs.inode_bitmap \subseteq Ino
  BY InvParts DEF IsFs
<1>2. ASSUME NEW i \in Ino
      PROVE  /\ InodeOf(fs, i) = Inode(fs, i)
             /\ BlocksOf(fs, InodeOf(fs, i)) = {Addr(fs, i, k) : k \in 0..Table} \ {0}
  BY <1>1, BlocksOfIs, ViewOf
<1>3. fs.block_bitmap = UNION {BlocksOf(fs, InodeOf(fs, i)) : i \in fs.inode_bitmap}
  <2>1. ASSUME NEW b \in fs.block_bitmap
        PROVE  \E i \in fs.inode_bitmap : b \in BlocksOf(fs, InodeOf(fs, i))
    <3>1. b \in Block /\ b # 0
      BY Bounds, <1>1 DEF IsFs
    <3>2. PICK i \in Ino : \E k \in 0..Table : Addr(fs, i, k) = b
      BY <1>1, <3>1 DEF Blocks
    <3>3. b \in BlocksOf(fs, InodeOf(fs, i))
      BY <1>2, <3>1, <3>2
    <3>4. i \in fs.inode_bitmap
      <4>1. CASE IsDir(fs, i)
        BY <1>1, <4>1 DEF Kinds
      <4>2. CASE ~IsDir(fs, i)
        <5>1. Inode(fs, i) = NoInode
          BY <1>1, <4>2 DEF Kinds
        <5> QED
          BY <3>1, <3>2, <5>1, NoInodeAddr
      <4> QED
        BY <4>1, <4>2
    <3> QED
      BY <3>3, <3>4
  <2>2. ASSUME NEW i \in fs.inode_bitmap, NEW b \in BlocksOf(fs, InodeOf(fs, i))
        PROVE  b \in fs.block_bitmap
    <3>1. i \in Ino
      BY <1>1
    <3>2. PICK k \in 0..Table : Addr(fs, i, k) = b /\ b # 0
      BY <1>2, <3>1
    <3> QED
      BY <1>1, <3>1, <3>2, Taken
  <2> QED
    BY <2>1, <2>2
<1>4. ASSUME NEW i \in fs.inode_bitmap
      PROVE  Cardinality(BlocksOf(fs, InodeOf(fs, i))) =
               Cardinality({k \in Index : all_blocks(fs, InodeOf(fs, i), k) # 0})
                 + (IF InodeOf(fs, i).i_sectors[DIRECT] = 0 THEN 0 ELSE 1)
  <2>1. i \in Ino
    BY <1>1
  <2>2. Cardinality(BlocksOf(fs, Inode(fs, i))) =
               Cardinality({k \in Index : all_blocks(fs, Inode(fs, i), k) # 0})
                 + (IF Inode(fs, i).i_sectors[DIRECT] = 0 THEN 0 ELSE 1)
    BY <2>1, BlocksCount
  <2> QED
    BY <1>2, <2>1, <2>2
<1>5. ASSUME NEW i \in fs.inode_bitmap, NEW j \in fs.inode_bitmap, i # j
      PROVE  BlocksOf(fs, InodeOf(fs, i)) \cap BlocksOf(fs, InodeOf(fs, j)) = {}
  <2>1. i \in Ino /\ j \in Ino
    BY <1>1
  <2>2. \A k, l \in 0..Table : Addr(fs, i, k) = Addr(fs, j, l) => Addr(fs, i, k) = 0
    BY <1>1, <1>5, <2>1 DEF Blocks
  <2> QED
    BY <1>2, <2>1, <2>2
<1> QED
  BY <1>3, <1>4, <1>5 DEF BlocksAccounted
-----------------------------------------------------------------------------
(* Whatever sequence of mkdir, rmdir, rm and creations, until one does     *)
(* damage: the allocated inodes are the root and those that one entry      *)
(* names, no directory has a name twice, and "." and ".." are right.       *)
THEOREM DirsTree == DirsSpec => []TreeOK
<1>1. (Intact => DirsInv(fs)) => TreeOK
  BY TreeIs DEF TreeOK
<1> QED
  BY <1>1, DirsHold, PTL

(* sync_dir_entry, delete_dir_entry and inode_release never lose a block,  *)
(* never free one in use and never give one to two inodes, until a call    *)
(* does damage.                                                            *)
THEOREM DirsBlocks == DirsSpec => []BlocksAccounted
<1>1. (Intact => DirsInv(fs)) => BlocksAccounted
  BY AccountedIs DEF BlocksAccounted
<1> QED
  BY <1>1, DirsHold, PTL

(* ls, which ends at i_size, shows every entry of every directory once,    *)
(* whatever holes and tables the additions and deletions have left.        *)
THEOREM DirsListing == DirsSpec => []ListingComplete
<1>1. (Intact => DirsInv(fs)) => ListingComplete
  BY ListingIs DEF ListingComplete
<1> QED
  BY <1>1, DirsHold, PTL

(* After every call the first sector of the block bitmap, the open inodes  *)
(* and the cleared ones are on the disk as they are in memory.             *)
THEOREM DirsOnDisk == DirsSpec => []DiskAgrees
<1>1. (Intact => DirsInv(fs)) => DiskAgrees
  BY AgreesIs DEF DiskAgrees
<1> QED
  BY <1>1, DirsHold, PTL
=============================================================================
