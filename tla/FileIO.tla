------------------------------- MODULE FileIO -------------------------------
(***************************************************************************)
(* Reading and writing of files: file_write and file_read of fs/file.c,    *)
(* sys_write, sys_read and sys_lseek of fs/fs.c, and what inode_release    *)
(* gives back.  One call at a time; every file has at most one descriptor, *)
(* open for reading and writing.                                           *)
(*                                                                         *)
(* Byte k of file f is always written with the value Stamp(f, k), so that  *)
(* a byte in the wrong place, of another file or of an earlier use of its  *)
(* sector shows.                                                           *)
(***************************************************************************)
EXTENDS Integers, Sequences, FiniteSets, FiniteSetsExt

CONSTANTS File,
          BLOCK_SIZE,  \* 512
          DIRECT,      \* block addresses in an inode (12); the next is the table's
          INDIRECT,    \* block addresses in the table (128)
          NB,          \* data blocks of the partition
          Count,       \* the numbers of bytes asked for
          Offset,      \* the offsets given to lseek
          WORD,        \* 2^32, the range of fd_pos
          STAMPS       \* different values of the bytes of a file

ASSUME FileIOAssumption ==
  /\ {BLOCK_SIZE, DIRECT, INDIRECT, NB, STAMPS} \subseteq Nat \ {0}
  /\ Count \subseteq Nat /\ Offset \subseteq Int
  /\ WORD \in Nat /\ WORD > 2 * BLOCK_SIZE * (DIRECT + INDIRECT)

VARIABLES inode,   \* struct inode of each file, in memory: i_size, i_sectors
          tab,     \* the sectors that hold a table
          data,    \* the sectors that hold bytes
          bitmap,  \* block_bitmap, in memory
          pos,     \* fd_pos of the file's descriptor, or None
          panic    \* what stopped the kernel, or made its behaviour undefined

ioVars == <<inode, tab, data, bitmap, pos, panic>>

None   == -1
Block  == 1..NB   \* 0 is no block
MAX_BLOCKS == DIRECT + INDIRECT
Blank  == <<>>
Junk   == <<"junk">>
TABLE  == -1       \* stands for the table among the blocks wanted
Stamp(f, k) == <<f, k % STAMPS>>

NoInode    == [i_size |-> 0, i_sectors |-> [k \in 0..DIRECT |-> 0]]
EmptyTable == [k \in 0..(INDIRECT - 1) |-> 0]
EmptyBlock == [k \in 0..(BLOCK_SIZE - 1) |-> Blank]

IOInit ==
  /\ inode = [f \in File |-> NoInode]
  /\ tab = [b \in Block |-> EmptyTable]
  /\ data = [b \in Block |-> EmptyBlock]
  /\ bitmap = {}
  /\ pos = [f \in File |-> None]
  /\ panic = "none"

Halt(why) == panic' = why /\ UNCHANGED <<inode, tab, data, bitmap, pos>>

(* The address of block k of a file.                                       *)
BlockAt(f, k) == LET s == inode[f].i_sectors IN
  IF k < DIRECT THEN s[k] ELSE IF s[DIRECT] = 0 THEN 0 ELSE tab[s[DIRECT]][k - DIRECT]

FreeBlocks == Block \ bitmap
NthFree(n) == CHOOSE b \in FreeBlocks : Cardinality({c \in FreeBlocks : c < b}) = n - 1
-----------------------------------------------------------------------------
(* file_write of count bytes, always at the end of the file.               *)

has(f)         == inode[f].i_size \div BLOCK_SIZE + 1
will(f, count) == (inode[f].i_size + count) \div BLOCK_SIZE + 1

(* The new data first needs the table: the second of the three cases.      *)
Crosses(f, count) == has(f) <= DIRECT /\ will(f, count) > DIRECT

(* What it allocates, in this order: the first block of an empty file, the *)
(* table, and the blocks from has on.                                      *)
Wanted(f, count) ==
  (IF inode[f].i_sectors[0] = 0 THEN <<0>> ELSE <<>>)
  \o (IF Crosses(f, count) THEN <<TABLE>> ELSE <<>>)
  \o [k \in 1..(will(f, count) - has(f)) |-> has(f) + k - 1]

(* Its ASSERTs: direct blocks it allocates have no address yet, the table  *)
(* exists exactly when blocks behind it are in use.                        *)
WriteAsserts(f, count) ==
  LET s == inode[f].i_sectors IN
  /\ \A k \in has(f)..(will(f, count) - 1) : k < DIRECT => s[k] = 0
  /\ will(f, count) > DIRECT => (s[DIRECT] = 0 <=> has(f) <= DIRECT)

ChunkMutant(f, count) == LET off == inode[f].i_size % BLOCK_SIZE IN
  0..(Min({count, BLOCK_SIZE - off}) - 1)

(* The bytes of the only chunk: bytes_written -= chunk_size makes the      *)
(* number of bytes written more than any count, and the loop ends with     *)
(* what fits into the sector.                                              *)
Chunk(f, count) == LET off == inode[f].i_size % BLOCK_SIZE IN
  off..(off + Min({count, BLOCK_SIZE - off}) - 1)

(* The address of p after the allocations: the n-th wanted gets the n-th   *)
(* free block.                                                             *)
New(f, count, p, old) == LET want == Wanted(f, count) IN
  IF \E n \in DOMAIN want : want[n] = p
  THEN NthFree(CHOOSE n \in DOMAIN want : want[n] = p) ELSE old

all_blocks(f, count) == [k \in 0..(MAX_BLOCKS - 1) |-> New(f, count, k, BlockAt(f, k))]

Store(f, count) ==
  LET i == inode[f]
      t == New(f, count, TABLE, i.i_sectors[DIRECT])
      blocks == all_blocks(f, count)
      lba == blocks[has(f) - 1]
      chunk == Chunk(f, count)
      base == i.i_size - (i.i_size % BLOCK_SIZE)
      size == i.i_size + Cardinality(chunk)
  IN  /\ bitmap' = bitmap \cup {NthFree(n) : n \in DOMAIN Wanted(f, count)}
      /\ inode' = [inode EXCEPT ![f] = [i_size |-> size, i_sectors |->
                     [k \in 0..DIRECT |-> IF k = DIRECT THEN t ELSE blocks[k]]]]
      /\ tab' = IF t = 0 THEN tab
                ELSE [tab EXCEPT ![t] = [k \in 0..(INDIRECT - 1) |-> blocks[DIRECT + k]]]
      /\ data' = [data EXCEPT ![lba] =
                    [k \in DOMAIN @ |-> IF k \in chunk THEN Stamp(f, base + k) ELSE @[k]]]
      /\ pos' = [pos EXCEPT ![f] = (size - 1) % WORD]
      /\ UNCHANGED panic

(* A file of exactly the maximal size passes the first test and fails the  *)
(* ASSERT on the number of blocks.  In the second case block_idx is read   *)
(* before it is set: by chance it is that of the last block; or that one's *)
(* address stays 0, and the first sector of the disk is written; or        *)
(* memory outside the arrays is used.                                      *)
Write(f, count) ==
  /\ panic = "none" /\ pos[f] # None
  /\ inode[f].i_size + count <= BLOCK_SIZE * MAX_BLOCKS
  /\ IF will(f, count) > MAX_BLOCKS THEN Halt("size")
     ELSE IF ~WriteAsserts(f, count) THEN Halt("assert")
     ELSE IF Len(Wanted(f, count)) > Cardinality(FreeBlocks) THEN Halt("full")
     ELSE \/ Store(f, count)
          \/ Crosses(f, count) /\ (Halt("sector 0") \/ Halt("undefined"))
-----------------------------------------------------------------------------
(* file_read of count bytes at p.  The number of bytes is cut at the end   *)
(* of the file, in 32 bits.                                                *)

ReadSize(f, p, count) ==
  IF (p + count) % WORD > inode[f].i_size THEN (inode[f].i_size - p) % WORD ELSE count
Start(p)           == p \div BLOCK_SIZE
End(f, p, count)   == ((p + ReadSize(f, p, count)) % WORD) \div BLOCK_SIZE

(* The addresses it collects in all_blocks, which is zero otherwise.  Over *)
(* more than one sector, and already when the last byte of a sector is     *)
(* read, it has that of the end only, or the table's for a direct block,   *)
(* or none at all.                                                         *)
ReadBlocks(f, p, count, k) ==
  LET s == Start(p)
      e == End(f, p, count)
      Table(n) == IF n < DIRECT THEN 0 ELSE BlockAt(f, n)
  IN  IF s = e THEN (IF e < DIRECT THEN (IF k = e THEN BlockAt(f, k) ELSE 0) ELSE Table(k))
      ELSE IF e < DIRECT THEN (IF k = e THEN BlockAt(f, k) ELSE 0)
      ELSE IF s < DIRECT /\ e > DIRECT
      THEN (IF k \in s..(DIRECT - 1) THEN inode[f].i_sectors[DIRECT] ELSE Table(k))
      ELSE 0

ReadOffMutant(f, p, count) == 0

(* sec_off_bytes of the first sector it reads.                             *)
ReadOff(f, p, count) == p % BLOCK_SIZE

(* What it delivers from the first sector; a sector that is not the file's *)
(* is junk.                                                                *)
file_read(f, p, count) ==
  LET b == ReadBlocks(f, p, count, Start(p))
      off == ReadOff(f, p, count)
  IN  [k \in 1..Min({ReadSize(f, p, count), BLOCK_SIZE - off}) |->
         IF b = 0 THEN Junk ELSE data[b][off + k - 1]]

(* What follows the first sector goes to the wrong place: buf_dst counts   *)
(* words, and moves on by four times as many bytes.                        *)
Read(f, count) ==
  LET p == pos[f]
      size == ReadSize(f, p, count)
  IN  /\ panic = "none" /\ p # None
      /\ ~(size = 0 /\ count # 0)
      /\ IF Start(p) >= MAX_BLOCKS - 1 \/ End(f, p, count) >= MAX_BLOCKS - 1 THEN Halt("index")
         ELSE IF Len(file_read(f, p, count)) < size THEN Halt("overrun")
         ELSE /\ pos' = [pos EXCEPT ![f] = p + size]
              /\ UNCHANGED <<inode, tab, data, bitmap, panic>>

(* fd_pos as the int32_t it becomes in sys_lseek.                          *)
Signed(p) == IF p >= WORD \div 2 THEN p - WORD ELSE p

sys_lseek(f, offset, whence) ==
  LET new_pos == CASE whence = "SEEK_SET" -> offset
                   [] whence = "SEEK_CUR" -> Signed(pos[f]) + offset
                   [] whence = "SEEK_END" -> inode[f].i_size + offset
  IN  /\ panic = "none" /\ pos[f] # None
      /\ new_pos \in 0..(inode[f].i_size - 1)
      /\ pos' = [pos EXCEPT ![f] = new_pos]
      /\ UNCHANGED <<inode, tab, data, bitmap, panic>>

Open(f) ==
  /\ panic = "none" /\ pos[f] = None
  /\ pos' = [pos EXCEPT ![f] = 0]
  /\ UNCHANGED <<inode, tab, data, bitmap, panic>>

Close(f) ==
  /\ panic = "none" /\ pos[f] # None
  /\ pos' = [pos EXCEPT ![f] = None]
  /\ UNCHANGED <<inode, tab, data, bitmap, panic>>

BlocksOf(f) ==
  ({BlockAt(f, k) : k \in 0..(MAX_BLOCKS - 1)} \cup {inode[f].i_sectors[DIRECT]}) \ {0}

UnlinkMutant(f) ==
  /\ panic = "none" /\ pos[f] = None
  /\ bitmap' = bitmap \ BlocksOf(f)
  /\ inode' = [inode EXCEPT ![f].i_size = 0]
  /\ UNCHANGED <<tab, data, pos, panic>>

(* sys_unlink of a file that is not open; the name is there to be created  *)
(* again.  The model forgets what the freed sectors hold.                  *)
Unlink(f) ==
  /\ panic = "none" /\ pos[f] = None
  /\ bitmap' = bitmap \ BlocksOf(f)
  /\ inode' = [inode EXCEPT ![f] = NoInode]
  /\ tab' = [b \in Block |-> IF b \in BlocksOf(f) THEN EmptyTable ELSE tab[b]]
  /\ data' = [b \in Block |-> IF b \in BlocksOf(f) THEN EmptyBlock ELSE data[b]]
  /\ UNCHANGED <<pos, panic>>

IONext ==
  \E f \in File :
    \/ Open(f) \/ Close(f) \/ Unlink(f)
    \/ \E count \in Count : Write(f, count) \/ Read(f, count)
    \/ \E offset \in Offset, whence \in {"SEEK_SET", "SEEK_CUR", "SEEK_END"} :
         sys_lseek(f, offset, whence)

IOSpec == IOInit /\ [][IONext]_ioVars
-----------------------------------------------------------------------------
(* Every byte that i_size counts is on the disk in its place, through the  *)
(* direct addresses and through the table, whatever sizes it was written   *)
(* in and whoever else writes: no write hits another file, another sector  *)
(* or another offset.                                                      *)
BytesInPlace ==
  \A f \in File : \A k \in 0..(inode[f].i_size - 1) :
    LET b == BlockAt(f, k \div BLOCK_SIZE)
    IN  b # 0 /\ data[b][k % BLOCK_SIZE] = Stamp(f, k)

(* No data block or table serves two purposes, all that are used are taken *)
(* in the bitmap, and a file has every block up to the one it grows into,  *)
(* also after writes of more than a sector, which allocate blocks that     *)
(* stay empty, and after files have come and gone.                         *)
BlocksOwnedOnce ==
  /\ \A f \in File : BlocksOf(f) \subseteq bitmap
  /\ \A f, g \in File : f # g => BlocksOf(f) \cap BlocksOf(g) = {}
  /\ \A f \in File : BlocksOf(f) # {} =>
       /\ \A k \in 0..(has(f) - 1) : BlockAt(f, k) # 0
       /\ \A k, l \in 0..(MAX_BLOCKS - 1) :
            BlockAt(f, k) = BlockAt(f, l) /\ k # l => BlockAt(f, k) = 0
       /\ \A k \in 0..(MAX_BLOCKS - 1) :
            BlockAt(f, k) = inode[f].i_sectors[DIRECT] => BlockAt(f, k) = 0

(* A read that stays inside a sector and does not take its last byte       *)
(* delivers the bytes of the file from fd_pos on, wherever earlier reads,  *)
(* writes and seeks have left fd_pos; unless it asks for so much that      *)
(* fd_pos + count wraps and the end of the file is not noticed.            *)
ReadsTheFile ==
  \A f \in File, count \in Count :
    LET p == pos[f] IN
    p \in 0..(inode[f].i_size - 1) /\ p + count < WORD /\ Start(p) = End(f, p, count) =>
      LET r == file_read(f, p, count)
      IN  /\ Len(r) = Min({count, inode[f].i_size - p})
          /\ \A k \in DOMAIN r : r[k] = Stamp(f, p + k - 1)
=============================================================================
